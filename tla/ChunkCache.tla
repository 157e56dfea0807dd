----------------------------- MODULE ChunkCache -----------------------------
(***************************************************************************)
(* The chunk cache of one accelerated input (internal/inputproxy/proxy.go: *)
(* ensureChunk, runChunkAttempt, downloadChunk, closeCache).               *)
(*                                                                         *)
(* Several range streams of one source share a sparse file and a map of    *)
(* chunk records.  A worker goroutine of a stream asks for a chunk; it     *)
(* finds it complete, waits for the record's done channel, joins the       *)
(* record as a hedge on another route, or creates a record.  A record's    *)
(* context is derived from the stream that created it.  Each step below is *)
(* one critical section of cacheMu, or one blocking operation between two. *)
(*                                                                         *)
(* A definition named D_X is D with a plausible bug in it: it is used  *)
(* by no specification, only to see the properties fail.                   *)
(***************************************************************************)
EXTENDS Naturals, Sequences, FiniteSets

CONSTANTS
    Streams,    \* HTTP range requests being served for one source
    LanesOf,    \* stream -> its worker goroutines, min(workers, chunks asked)
    Chunks,     \* chunk indexes of the file
    Routes,     \* indexes into the source's active routes
    NoJob       \* an idle worker's job

VARIABLES
    file,       \* src.cacheFile: TRUE while it is not nil
    onDisk,     \* chunks whose bytes were written into the sparse file
    entry,      \* src.cacheChunks: chunk -> record number, 0 when absent
    rec,        \* every cacheChunk allocated so far, in order
    stream,     \* streamRanges: "new", "live", "gone" (client left), or how it ended
    pc,         \* where the worker goroutine is in ensureChunk
    job,        \* the chunkTask it works on
    held,       \* the record it attempts or waits for
    res         \* the error value it carries

cacheVars == <<file, onDisk, entry, rec>>
workerVars == <<pc, job, held, res>>
vars == <<file, onDisk, entry, rec, stream, pc, job, held, res>>

Workers == UNION {{<<s, l>> : l \in LanesOf[s]} : s \in Streams}

ASSUME CacheAssumption == IsFiniteSet(Workers)

(* nil, context.Canceled, errHedgeLost, "input cache is closed", and the   *)
(* error of a download that exhausted its routes.                          *)
Errors == {"ok", "canceled", "lost", "closed", "failed"}
Records == [chunk : Chunks, owner : Streams, completed : BOOLEAN,
            err : Errors, attempts : Nat, routes : SUBSET Routes]
Jobs == [chunk : Chunks, route : Routes, hedge : BOOLEAN]

TypeOK ==
    /\ file \in BOOLEAN
    /\ onDisk \subseteq Chunks
    /\ rec \in Seq(Records)
    /\ entry \in [Chunks -> 0 .. Len(rec)]
    /\ stream \in [Streams -> {"new", "live", "gone", "done"} \cup Errors]
    /\ pc \in [Workers -> {"idle", "enter", "wait", "download", "settle",
                           "join", "return"}]
    /\ job \in [Workers -> Jobs \cup {NoJob}]
    /\ \A w \in Workers : pc[w] # "idle" => job[w] \in Jobs
    /\ held \in [Workers -> 0 .. Len(rec)]
    /\ res \in [Workers -> Errors]

CacheInit ==
    /\ file = TRUE
    /\ onDisk = {}
    /\ entry = [c \in Chunks |-> 0]
    /\ rec = <<>>

Init ==
    /\ CacheInit
    /\ stream = [s \in Streams |-> "live"]
    /\ pc = [w \in Workers |-> "idle"]
    /\ job = [w \in Workers |-> NoJob]
    /\ held = [w \in Workers |-> 0]
    /\ res = [w \in Workers |-> "ok"]

-----------------------------------------------------------------------------
(* Contexts *)

Live(w) == stream[w[1]] = "live"                     \* workerCtx not done

ChunkCtxDone(r) == rec[r].completed \/ stream[rec[r].owner] # "live"

(* A goroutine moves on with error e *)
Goto(w, label, e) ==
    /\ pc' = [pc EXCEPT ![w] = label]
    /\ res' = [res EXCEPT ![w] = e]

-----------------------------------------------------------------------------
(* ensureChunk: one critical section, whose cases are the actions below *)

Call(w, j) ==
    /\ pc[w] = "idle"
    /\ Live(w)
    /\ job' = [job EXCEPT ![w] = j]
    /\ Goto(w, "enter", "ok")
    /\ held' = [held EXCEPT ![w] = 0]
    /\ UNCHANGED <<cacheVars, stream>>

EnsureClosed(w) ==
    /\ pc[w] = "enter"
    /\ ~file
    /\ Goto(w, "return", "closed")
    /\ UNCHANGED <<cacheVars, stream, job, held>>

Entry(w) == entry[job[w].chunk]
Completed(w) == Entry(w) # 0 /\ rec[Entry(w)].completed
InFlight(w) == Entry(w) # 0 /\ ~rec[Entry(w)].completed
CanHedge(w) == job[w].hedge /\ job[w].route \notin rec[Entry(w)].routes

EnsureHit(w) ==
    /\ pc[w] = "enter"
    /\ file
    /\ Completed(w) /\ rec[Entry(w)].err = "ok"
    /\ Goto(w, "return", "ok")
    /\ UNCHANGED <<cacheVars, stream, job, held>>

More_Uncounted(n) == n
More(n) == n + 1

EnsureHedge(w) ==
    /\ pc[w] = "enter"
    /\ file
    /\ InFlight(w) /\ CanHedge(w)
    /\ rec' = [rec EXCEPT ![Entry(w)].attempts = More(@),
                          ![Entry(w)].routes = @ \cup {job[w].route}]
    /\ held' = [held EXCEPT ![w] = Entry(w)]
    /\ Goto(w, "download", "ok")
    /\ UNCHANGED <<file, onDisk, entry, stream, job>>

EnsureWait(w) ==
    /\ pc[w] = "enter"
    /\ file
    /\ InFlight(w) /\ ~CanHedge(w)
    /\ held' = [held EXCEPT ![w] = Entry(w)]
    /\ Goto(w, "wait", "ok")
    /\ UNCHANGED <<cacheVars, stream, job>>

(* An absent record, or one completed with an error (deleted first). *)
NeedsRecord_Refetch(w) == Entry(w) = 0 \/ Completed(w)
NeedsRecord_Twice(w) == ~(Completed(w) /\ rec[Entry(w)].err = "ok")
NeedsRecord(w) == Entry(w) = 0 \/ (Completed(w) /\ rec[Entry(w)].err # "ok")

EnsureCreate(w) ==
    /\ pc[w] = "enter"
    /\ file
    /\ NeedsRecord(w)
    /\ rec' = Append(rec, [chunk |-> job[w].chunk, owner |-> w[1],
                           completed |-> FALSE, err |-> "ok", attempts |-> 1,
                           routes |-> {job[w].route}])
    /\ entry' = [entry EXCEPT ![job[w].chunk] = Len(rec) + 1]
    /\ held' = [held EXCEPT ![w] = Len(rec) + 1]
    /\ Goto(w, "download", "ok")
    /\ UNCHANGED <<file, onDisk, stream, job>>

(* <-done: look the chunk up again *)
WaitDone(w) ==
    /\ pc[w] = "wait"
    /\ rec[held[w]].completed
    /\ Goto(w, "enter", "ok")
    /\ UNCHANGED <<cacheVars, stream, job, held>>

(* <-ctx.Done() while waiting for another attempt's outcome *)
WaitCancelled(w) ==
    /\ pc[w] \in {"wait", "join"}
    /\ ~Live(w)
    /\ Goto(w, "return", "canceled")
    /\ UNCHANGED <<cacheVars, stream, job, held>>

-----------------------------------------------------------------------------
(* runChunkAttempt: downloadChunk without the lock, then settle under it *)

(* fetchRange returned the bytes and WriteAt stored them; this may still   *)
(* happen after the context was cancelled.  The file may have been closed  *)
(* meanwhile.                                                              *)
DownloadOK(w) ==
    /\ pc[w] = "download"
    /\ IF file
       THEN onDisk' = onDisk \cup {job[w].chunk} /\ Goto(w, "settle", "ok")
       ELSE UNCHANGED onDisk /\ Goto(w, "settle", "closed")
    /\ UNCHANGED <<file, entry, rec, stream, job, held>>

DownloadFailed(w) ==
    /\ pc[w] = "download"
    /\ Goto(w, "settle", "failed")
    /\ UNCHANGED <<cacheVars, stream, job, held>>

DownloadCanceled(w) ==
    /\ pc[w] = "download"
    /\ ChunkCtxDone(held[w])
    /\ Goto(w, "settle", "canceled")
    /\ UNCHANGED <<cacheVars, stream, job, held>>

AttemptResult_AnyCancel(attemptErr, finalErr) ==
    IF attemptErr = "canceled" THEN "lost" ELSE finalErr
AttemptResult(attemptErr, finalErr) ==
    IF finalErr = "ok" /\ attemptErr = "canceled" THEN "lost" ELSE finalErr

Verdict_OnlySuccess(w) == res[w] = "ok"
Verdict(w) == res[w] = "ok" \/ rec[held[w]].attempts = 1

SettleLate_Overwrite(w) ==
    /\ pc[w] = "settle"
    /\ rec[held[w]].completed
    /\ rec' = [rec EXCEPT ![held[w]].err = res[w]]
    /\ Goto(w, "return", res[w])
    /\ UNCHANGED <<file, onDisk, entry, stream, job, held>>

(* Another attempt already completed the record. *)
SettleLate(w) ==
    /\ pc[w] = "settle"
    /\ rec[held[w]].completed
    /\ Goto(w, "return", AttemptResult(res[w], rec[held[w]].err))
    /\ UNCHANGED <<cacheVars, stream, job, held>>

(* The first success, or the last failure, completes the record, closes    *)
(* done and cancels the record's context.  Nothing reads attempts and      *)
(* routes of a completed record: they are cleared.                         *)
SettleFinal(w) ==
    /\ pc[w] = "settle"
    /\ ~rec[held[w]].completed
    /\ Verdict(w)
    /\ rec' = [rec EXCEPT ![held[w]].attempts = 0,
                          ![held[w]].routes = {},
                          ![held[w]].completed = TRUE,
                          ![held[w]].err = res[w]]
    /\ Goto(w, "return", res[w])
    /\ UNCHANGED <<file, onDisk, entry, stream, job, held>>

(* Attempts left once this one failed *)
Fewer_Kept(n) == n
Fewer(n) == n - 1

(* This attempt failed while another is in flight: wait for its outcome. *)
SettleJoin(w) ==
    /\ pc[w] = "settle"
    /\ ~rec[held[w]].completed
    /\ ~Verdict(w)
    /\ rec' = [rec EXCEPT ![held[w]].attempts = Fewer(@),
                          ![held[w]].routes = @ \ {job[w].route}]
    /\ Goto(w, "join", res[w])
    /\ UNCHANGED <<file, onDisk, entry, stream, job, held>>

JoinDone(w) ==
    /\ pc[w] = "join"
    /\ rec[held[w]].completed
    /\ Goto(w, "return", AttemptResult(res[w], rec[held[w]].err))
    /\ UNCHANGED <<cacheVars, stream, job, held>>

WorkerStep(w) ==
    \/ EnsureClosed(w) \/ EnsureHit(w) \/ EnsureHedge(w)
    \/ EnsureWait(w) \/ EnsureCreate(w)
    \/ WaitDone(w) \/ WaitCancelled(w)
    \/ DownloadOK(w) \/ DownloadFailed(w) \/ DownloadCanceled(w)
    \/ SettleLate(w) \/ SettleFinal(w) \/ SettleJoin(w) \/ JoinDone(w)

-----------------------------------------------------------------------------
(* The streams around the cache, reduced to what they make of a result *)

(* The worker hands its result over, or finds its stream ended.  Every     *)
(* error but errHedgeLost ends the stream (streamRanges returns it).       *)
Return(w) ==
    /\ pc[w] = "return"
    /\ stream' = IF Live(w) /\ res[w] \notin {"ok", "lost"}
                 THEN [stream EXCEPT ![w[1]] = res[w]]
                 ELSE stream
    /\ Goto(w, "idle", "ok")
    /\ job' = [job EXCEPT ![w] = NoJob]
    /\ held' = [held EXCEPT ![w] = 0]
    /\ UNCHANGED cacheVars

ClientGone(s) ==
    /\ stream[s] = "live"
    /\ stream' = [stream EXCEPT ![s] = "gone"]
    /\ UNCHANGED <<cacheVars, workerVars>>

(* release of the source: the file is closed and the map emptied *)
CloseCache ==
    /\ file
    /\ file' = FALSE
    /\ entry' = [c \in Chunks |-> 0]
    /\ UNCHANGED <<onDisk, rec, stream, workerVars>>

(* Every request was answered and the source is released: the only rest. *)
Terminated ==
    /\ ~file
    /\ \A s \in Streams : stream[s] # "live"
    /\ \A w \in Workers : pc[w] = "idle"
    /\ UNCHANGED vars

Next ==
    \/ \E w \in Workers : WorkerStep(w) \/ Return(w)
    \/ \E w \in Workers, j \in Jobs : Call(w, j)
    \/ \E s \in Streams : ClientGone(s)
    \/ CloseCache
    \/ Terminated

(* Goroutines are scheduled and a download ends: it succeeds, fails, or    *)
(* hits the HTTP client's timeout.                                         *)
Fairness == \A w \in Workers : WF_vars(WorkerStep(w) \/ Return(w))

Spec == Init /\ [][Next]_vars
FairSpec == Spec /\ Fairness

-----------------------------------------------------------------------------
(* Properties *)

Attempts(r) == {w \in Workers : pc[w] \in {"download", "settle"} /\ held[w] = r}

Counted(r) ==
    /\ rec[r].attempts = Cardinality(Attempts(r))
    /\ rec[r].attempts > 0
    /\ rec[r].routes = {job[w].route : w \in Attempts(r)}
    /\ \A v, w \in Attempts(r) : v # w => job[v].route # job[w].route

(* The attempts counter of an open record is the number of goroutines      *)
(* still to settle on it, on distinct routes, and is not zero: so somebody *)
(* will close done, and the last one knows it is the last.                 *)
AttemptsCounted ==
    \A r \in DOMAIN rec : ~rec[r].completed => Counted(r)

(* While the cache is open, a chunk has at most one record in flight: no   *)
(* two records download the same range.                                    *)
SingleFlight ==
    file => \A r \in DOMAIN rec : ~rec[r].completed => entry[rec[r].chunk] = r

(* A worker that reports a chunk as obtained, or its hedge as lost, lets   *)
(* streamRanges copy the chunk from the file: its bytes must be there.     *)
ResultBacked ==
    \A w \in Workers :
        pc[w] = "return" /\ res[w] \in {"ok", "lost"} => job[w].chunk \in onDisk

(* A worker waits for, or works on, a record of the chunk it was asked for. *)
HeldFits ==
    \A w \in Workers : pc[w] \in {"wait", "download", "settle", "join"} =>
        held[w] # 0 /\ rec[held[w]].chunk = job[w].chunk

(* The map leads from a chunk to a record of it, and is empty once closed. *)
EntryFits ==
    /\ \A c \in Chunks : entry[c] # 0 => rec[entry[c]].chunk = c
    /\ ~file => \A c \in Chunks : entry[c] = 0

(* errHedgeLost is what a worker is told, never what a download returns or *)
(* a record keeps.                                                         *)
LostIsRelative ==
    /\ \A r \in DOMAIN rec : rec[r].err # "lost"
    /\ \A w \in Workers : pc[w] = "settle" => res[w] # "lost"

(* Success is only ever claimed for bytes that are in the file. *)
SuccessBacked ==
    /\ \A r \in DOMAIN rec :
          rec[r].completed /\ rec[r].err = "ok" => rec[r].chunk \in onDisk
    /\ \A w \in Workers :
          pc[w] = "settle" /\ res[w] = "ok" => job[w].chunk \in onDisk

(* The inductive invariant: whoever acts on a record acts on one of its    *)
(* own chunk, and neither a closed cache nor a lost hedge leaves a trace   *)
(* that could be taken for a stored chunk.                                 *)
CacheInv ==
    /\ TypeOK
    /\ HeldFits
    /\ EntryFits
    /\ LostIsRelative
    /\ SuccessBacked
    /\ ResultBacked
    /\ SingleFlight
    /\ AttemptsCounted

(* Completion is final: done is closed once and the verdict other          *)
(* goroutines read from the record never changes.                          *)
VerdictIsFinal ==
    [][\A r \in DOMAIN rec : rec[r].completed =>
          rec'[r].completed /\ rec'[r].err = rec[r].err]_vars

(* The cache implements a single-assignment store: a chunk is fetched by   *)
(* one record at a time and never again once its record completed well.    *)
Phase(c) ==
    IF entry[c] = 0 THEN "absent"
    ELSE IF ~rec[entry[c]].completed THEN "fetching"
    ELSE IF rec[entry[c]].err = "ok" THEN "stored" ELSE "absent"

Store == INSTANCE ChunkStore WITH open <- file, phase <- [c \in Chunks |-> Phase(c)]

ImplementsStore == Store!StoreSpec

(* A call returns, whatever the other streams do: no lost wakeup between   *)
(* hedges, waiters and a stream that leaves.                               *)
CallReturns == \A w \in Workers : pc[w] = "enter" ~> pc[w] = "idle"

=============================================================================
