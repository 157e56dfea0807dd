-------------------------- MODULE ChunkCacheProofs --------------------------
(***************************************************************************)
(* Proofs about ChunkCache, for any streams, workers, chunks and routes:   *)
(* CacheInv is inductive, verdicts are final and the cache implements      *)
(* ChunkStore.                                                             *)
(*                                                                         *)
(* Four actions write a record.  A lemma says for each what becomes of the *)
(* sequence of records; the rest of the proof uses those lemmas and never  *)
(* looks at the updates again.                                             *)
(***************************************************************************)
EXTENDS ChunkCache, FiniteSetTheorems, SequenceTheorems, TLAPS

-----------------------------------------------------------------------------
(* What the four actions do to the records *)

(* The records differ at most at r, where the chunk stays. *)
OnlyAt(r) ==
    /\ rec' \in Seq(Records)
    /\ Len(rec') = Len(rec)
    /\ \A q \in 1 .. Len(rec) : q # r => rec'[q] = rec[q]
    /\ rec'[r].chunk = rec[r].chunk

(* A record replaced by another one of its chunk. *)
LEMMA Replaced ==
    ASSUME rec \in Seq(Records), NEW r \in 1 .. Len(rec), NEW new \in Records,
           new.chunk = rec[r].chunk, rec' = [rec EXCEPT ![r] = new]
    PROVE  OnlyAt(r) /\ rec'[r] = new
BY ExceptSeq DEF OnlyAt

(* A hedge joins a record in flight: one more attempt, on one more route. *)
LEMMA HedgeEffect ==
    ASSUME CacheInv, NEW w \in Workers, EnsureHedge(w)
    PROVE  /\ Entry(w) \in 1 .. Len(rec)
           /\ OnlyAt(Entry(w))
           /\ ~rec[Entry(w)].completed
           /\ rec'[Entry(w)] = [rec[Entry(w)] EXCEPT
                  !.attempts = @ + 1, !.routes = @ \cup {job[w].route}]
<1> DEFINE r == Entry(w)
           new == [rec[r] EXCEPT !.attempts = @ + 1,
                                 !.routes = @ \cup {job[w].route}]
<1>1. job[w] \in Jobs /\ r \in 1 .. Len(rec) /\ ~rec[r].completed
  BY DEF CacheInv, TypeOK, EnsureHedge, Entry, InFlight, Jobs
<1>2. rec[r] \in Records
  BY <1>1, ElementOfSeq DEF CacheInv, TypeOK
<1>3. new \in Records /\ new.chunk = rec[r].chunk
  <2>1. rec[r].attempts + 1 \in Nat
    BY <1>2 DEF Records
  <2>2. rec[r].routes \cup {job[w].route} \in SUBSET Routes
    BY <1>1, <1>2 DEF Records, Jobs
  <2> QED
    BY <1>2, <2>1, <2>2 DEF Records
<1>4. rec' = [rec EXCEPT ![r] = new]
  BY DEF EnsureHedge, More
<1> QED
  BY <1>1, <1>3, <1>4, Replaced DEF CacheInv, TypeOK

(* A verdict: the record is completed, with the worker's error. *)
LEMMA FinalEffect ==
    ASSUME CacheInv, NEW w \in Workers, SettleFinal(w)
    PROVE  /\ held[w] \in 1 .. Len(rec)
           /\ OnlyAt(held[w])
           /\ ~rec[held[w]].completed
           /\ rec'[held[w]].completed
           /\ rec'[held[w]].err = res[w]
<1> DEFINE r == held[w]
           new == [rec[r] EXCEPT !.attempts = 0, !.routes = {},
                                 !.completed = TRUE, !.err = res[w]]
<1>1. res[w] \in Errors /\ r \in 1 .. Len(rec) /\ ~rec[r].completed
  BY DEF CacheInv, TypeOK, HeldFits, SettleFinal
<1>2. rec[r] \in Records
  BY <1>1, ElementOfSeq DEF CacheInv, TypeOK
<1>3. new \in Records /\ new.chunk = rec[r].chunk
  BY <1>1, <1>2 DEF Records
<1>4. rec' = [rec EXCEPT ![r] = new]
  BY DEF SettleFinal
<1>5. new.completed /\ new.err = res[w]
  BY <1>2 DEF Records
<1> QED
  BY <1>1, <1>3, <1>4, <1>5, Replaced DEF CacheInv, TypeOK

(* A failed attempt while others go on: one less, but not none. *)
LEMMA JoinEffect ==
    ASSUME CacheInv, NEW w \in Workers, SettleJoin(w)
    PROVE  /\ held[w] \in 1 .. Len(rec)
           /\ OnlyAt(held[w])
           /\ ~rec[held[w]].completed
           /\ rec[held[w]].attempts \in Nat \ {0, 1}
           /\ rec'[held[w]] = [rec[held[w]] EXCEPT
                  !.attempts = @ - 1, !.routes = @ \ {job[w].route}]
<1> DEFINE r == held[w]
           new == [rec[r] EXCEPT !.attempts = @ - 1,
                                 !.routes = @ \ {job[w].route}]
<1>1. r \in 1 .. Len(rec) /\ ~rec[r].completed /\ rec[r].attempts # 1
  BY DEF CacheInv, TypeOK, HeldFits, SettleJoin, Verdict
<1>2. rec[r] \in Records
  BY <1>1, ElementOfSeq DEF CacheInv, TypeOK
<1>3. rec[r].attempts \in Nat \ {0, 1}
  BY <1>1, <1>2 DEF CacheInv, AttemptsCounted, Counted, Records, TypeOK
<1>4. new \in Records /\ new.chunk = rec[r].chunk
  <2>1. rec[r].attempts - 1 \in Nat
    BY <1>3
  <2>2. rec[r].routes \ {job[w].route} \in SUBSET Routes
    BY <1>2 DEF Records
  <2> QED
    BY <1>2, <2>1, <2>2 DEF Records
<1>5. rec' = [rec EXCEPT ![r] = new]
  BY DEF SettleJoin, Fewer
<1> QED
  BY <1>1, <1>3, <1>4, <1>5, Replaced DEF CacheInv, TypeOK

(* A new record: the first attempt on its chunk. *)
LEMMA CreateEffect ==
    ASSUME CacheInv, NEW w \in Workers, EnsureCreate(w)
    PROVE  /\ rec' \in Seq(Records)
           /\ Len(rec') = Len(rec) + 1
           /\ \A q \in 1 .. Len(rec) : rec'[q] = rec[q]
           /\ rec'[Len(rec) + 1].chunk = job[w].chunk
           /\ rec'[Len(rec) + 1].completed = FALSE
           /\ rec'[Len(rec) + 1].err = "ok"
           /\ rec'[Len(rec) + 1].attempts = 1
           /\ rec'[Len(rec) + 1].routes = {job[w].route}
           /\ entry' = [entry EXCEPT ![job[w].chunk] = Len(rec) + 1]
           /\ job[w] \in Jobs
<1> DEFINE new == [chunk |-> job[w].chunk, owner |-> w[1], completed |-> FALSE,
                   err |-> "ok", attempts |-> 1, routes |-> {job[w].route}]
<1>1. job[w] \in Jobs /\ w[1] \in Streams
  BY DEF CacheInv, TypeOK, EnsureCreate, Workers
<1>2. new \in Records
  BY <1>1 DEF Records, Jobs, Errors
<1>3. rec' = Append(rec, new) /\ entry' = [entry EXCEPT ![job[w].chunk] = Len(rec) + 1]
  BY DEF EnsureCreate
<1>4. /\ rec' \in Seq(Records)
      /\ Len(rec') = Len(rec) + 1
      /\ \A q \in 1 .. Len(rec) : rec'[q] = rec[q]
      /\ rec'[Len(rec) + 1] = new
  BY <1>2, <1>3 DEF CacheInv, TypeOK
<1> HIDE DEF new
<1>5. /\ new.chunk = job[w].chunk /\ new.completed = FALSE /\ new.err = "ok"
      /\ new.attempts = 1 /\ new.routes = {job[w].route}
  BY DEF new
<1> QED
  BY <1>1, <1>3, <1>4, <1>5

-----------------------------------------------------------------------------
(* Each conjunct of CacheInv is preserved *)

LEMMA TypesKept == CacheInv /\ [Next]_vars => TypeOK'
<1> SUFFICES ASSUME CacheInv, [Next]_vars PROVE TypeOK'
  OBVIOUS
<1> USE DEF CacheInv, TypeOK, cacheVars, workerVars, Goto
<1>1. ASSUME NEW w \in Workers, EnsureHedge(w) PROVE TypeOK'
  <2>1. Entry(w) \in 1 .. Len(rec) /\ OnlyAt(Entry(w))
    BY <1>1, HedgeEffect
  <2>2. rec' \in Seq(Records) /\ Len(rec') = Len(rec) /\ Entry(w) \in 0 .. Len(rec)
    BY <2>1 DEF OnlyAt
  <2> QED
    BY <1>1, <2>2 DEF EnsureHedge, Errors
<1>2. ASSUME NEW w \in Workers, EnsureCreate(w) PROVE TypeOK'
  <2>1. rec' \in Seq(Records) /\ Len(rec') = Len(rec) + 1
    BY <1>2, CreateEffect
  <2>2. entry' \in [Chunks -> 0 .. Len(rec')] /\ held' \in [Workers -> 0 .. Len(rec')]
    BY <1>2, <2>1, CreateEffect DEF EnsureCreate, Jobs
  <2> QED
    BY <1>2, <2>1, <2>2 DEF EnsureCreate, Errors
<1>3. ASSUME NEW w \in Workers, SettleFinal(w) PROVE TypeOK'
  BY <1>3, FinalEffect DEF SettleFinal, OnlyAt
<1>4. ASSUME NEW w \in Workers, SettleJoin(w) PROVE TypeOK'
  BY <1>4, JoinEffect DEF SettleJoin, OnlyAt
<1>5. ASSUME NEW w \in Workers, SettleLate(w) \/ JoinDone(w) PROVE TypeOK'
  <2>1. held[w] \in 1 .. Len(rec) /\ rec[held[w]].err \in Errors
    <3>1. held[w] \in 1 .. Len(rec)
      BY <1>5 DEF SettleLate, JoinDone, HeldFits
    <3>2. rec[held[w]] \in Records
      BY <3>1, ElementOfSeq
    <3> QED
      BY <3>1, <3>2 DEF Records
  <2>2. AttemptResult(res[w], rec[held[w]].err) \in Errors
    BY <2>1 DEF AttemptResult, Errors
  <2> QED
    BY <1>5, <2>2 DEF SettleLate, JoinDone
<1>6. ASSUME NEW w \in Workers, EnsureWait(w) PROVE TypeOK'
  <2>1. Entry(w) \in 0 .. Len(rec)
    BY <1>6 DEF EnsureWait, Entry, Jobs
  <2>2. held' = [held EXCEPT ![w] = Entry(w)] /\ pc' = [pc EXCEPT ![w] = "wait"]
        /\ res' = [res EXCEPT ![w] = "ok"] /\ pc[w] = "enter"
        /\ UNCHANGED <<cacheVars, stream, job>>
    BY <1>6 DEF EnsureWait
  <2> QED
    BY <2>1, <2>2 DEF Errors
<1>13. ASSUME NEW w \in Workers,
              EnsureClosed(w) \/ EnsureHit(w) \/ WaitDone(w) \/ WaitCancelled(w)
       PROVE  TypeOK'
  <2>1. /\ UNCHANGED <<cacheVars, stream, job, held>>
        /\ pc[w] # "idle"
        /\ \E l \in {"enter", "return"} : pc' = [pc EXCEPT ![w] = l]
        /\ \E e \in Errors : res' = [res EXCEPT ![w] = e]
    BY <1>13 DEF EnsureClosed, EnsureHit, WaitDone, WaitCancelled, Errors
  <2> QED
    BY <2>1
<1>7. ASSUME NEW w \in Workers,
             DownloadOK(w) \/ DownloadFailed(w) \/ DownloadCanceled(w)
      PROVE  TypeOK'
  <2>1. job[w] \in Jobs
    BY <1>7 DEF DownloadOK, DownloadFailed, DownloadCanceled
  <2>2. onDisk' \subseteq Chunks
    BY <1>7, <2>1 DEF DownloadOK, DownloadFailed, DownloadCanceled, Jobs
  <2>3. /\ UNCHANGED <<file, entry, rec, stream, job, held>>
        /\ pc' = [pc EXCEPT ![w] = "settle"]
        /\ \E e \in Errors : res' = [res EXCEPT ![w] = e]
    BY <1>7 DEF DownloadOK, DownloadFailed, DownloadCanceled, Errors
  <2> QED
    BY <2>1, <2>2, <2>3
<1>8. ASSUME NEW w \in Workers, Return(w) PROVE TypeOK'
  BY <1>8 DEF Return, Live, Errors, Workers
<1>9. ASSUME NEW w \in Workers, NEW j \in Jobs, Call(w, j) PROVE TypeOK'
  BY <1>9 DEF Call, Errors
<1>10. ASSUME NEW s \in Streams, ClientGone(s) PROVE TypeOK'
  BY <1>10 DEF ClientGone
<1>11. CASE CloseCache
  <2>1. 0 \in 0 .. Len(rec)
    BY LenProperties
  <2> QED
    BY <1>11, <2>1 DEF CloseCache
<1>12. CASE UNCHANGED vars
  BY <1>12 DEF vars
<1> QED
  BY <1>1, <1>2, <1>3, <1>4, <1>5, <1>6, <1>7, <1>8, <1>9, <1>10, <1>11, <1>12, <1>13
  DEF Next, WorkerStep, Terminated

(* No other action writes a record. *)
LEMMA RecordSteps ==
    ASSUME [Next]_vars
    PROVE  \/ UNCHANGED rec
           \/ \E w \in Workers : EnsureHedge(w) \/ EnsureCreate(w)
                                   \/ SettleFinal(w) \/ SettleJoin(w)
BY DEF Next, WorkerStep, EnsureClosed, EnsureHit, EnsureWait, WaitDone,
       WaitCancelled, DownloadOK, DownloadFailed, DownloadCanceled, SettleLate,
       JoinDone, Return, Call, ClientGone, CloseCache, Terminated, vars, cacheVars

(* Records are never removed, keep their chunk, and do not change any more *)
(* once completed.                                                         *)
LEMMA RecordsLast ==
    ASSUME CacheInv, [Next]_vars
    PROVE  /\ Len(rec) \in Nat /\ Len(rec') \in Nat /\ Len(rec) <= Len(rec')
           /\ \A q \in 1 .. Len(rec) :
                 /\ rec'[q].chunk = rec[q].chunk
                 /\ rec[q].completed => rec'[q] = rec[q]
<1> DEFINE Goal == /\ Len(rec) <= Len(rec')
                   /\ \A q \in 1 .. Len(rec) :
                         /\ rec'[q].chunk = rec[q].chunk
                         /\ rec[q].completed => rec'[q] = rec[q]
<1>1. Len(rec) \in Nat /\ Len(rec') \in Nat
  BY TypesKept, LenProperties DEF CacheInv, TypeOK
<1>2. CASE UNCHANGED rec
  BY <1>1, <1>2
<1>3. ASSUME NEW w \in Workers, EnsureHedge(w) PROVE Goal
  <2>1. OnlyAt(Entry(w)) /\ Entry(w) \in 1 .. Len(rec) /\ ~rec[Entry(w)].completed
    BY <1>3, HedgeEffect
  <2> QED
    BY <1>1, <2>1 DEF OnlyAt
<1>4. ASSUME NEW w \in Workers, EnsureCreate(w) PROVE Goal
  <2>1. Len(rec') = Len(rec) + 1 /\ \A q \in 1 .. Len(rec) : rec'[q] = rec[q]
    BY <1>4, CreateEffect
  <2> QED
    BY <1>1, <2>1
<1>5. ASSUME NEW w \in Workers, SettleFinal(w) PROVE Goal
  BY <1>1, <1>5, FinalEffect DEF OnlyAt
<1>6. ASSUME NEW w \in Workers, SettleJoin(w) PROVE Goal
  <2>1. OnlyAt(held[w]) /\ held[w] \in 1 .. Len(rec) /\ ~rec[held[w]].completed
    BY <1>6, JoinEffect
  <2> QED
    BY <1>1, <2>1 DEF OnlyAt
<1> QED
  BY <1>1, <1>2, <1>3, <1>4, <1>5, <1>6, RecordSteps

(* What a goroutine carries changes in its own steps only. *)
LEMMA OwnSteps ==
    ASSUME CacheInv, [Next]_vars, NEW v \in Workers
    PROVE  \/ /\ pc'[v] = pc[v] /\ job'[v] = job[v]
              /\ held'[v] = held[v] /\ res'[v] = res[v]
           \/ WorkerStep(v)
           \/ Return(v)
           \/ \E j \in Jobs : Call(v, j)
<1> DEFINE Stands == /\ pc'[v] = pc[v] /\ job'[v] = job[v]
                     /\ held'[v] = held[v] /\ res'[v] = res[v]
<1>1. /\ DOMAIN pc = Workers /\ DOMAIN job = Workers
      /\ DOMAIN held = Workers /\ DOMAIN res = Workers
  BY DEF CacheInv, TypeOK
<1> USE DEF Goto, cacheVars, workerVars
<1>2. ASSUME NEW w \in Workers, w # v,
             EnsureClosed(w) \/ EnsureHit(w) \/ EnsureHedge(w) \/ EnsureWait(w)
               \/ EnsureCreate(w)
      PROVE  Stands
  <2>1. /\ pc'[v] = pc[v] /\ res'[v] = res[v] /\ job' = job
        /\ (held' = held \/ \E n : held' = [held EXCEPT ![w] = n])
    BY <1>1, <1>2 DEF EnsureClosed, EnsureHit, EnsureHedge, EnsureWait, EnsureCreate
  <2> QED
    BY <1>1, <1>2, <2>1
<1>3. ASSUME NEW w \in Workers, w # v,
             WaitDone(w) \/ WaitCancelled(w) \/ DownloadOK(w) \/ DownloadFailed(w)
               \/ DownloadCanceled(w)
      PROVE  Stands
  BY <1>1, <1>3
  DEF WaitDone, WaitCancelled, DownloadOK, DownloadFailed, DownloadCanceled
<1>4. ASSUME NEW w \in Workers, w # v,
             SettleLate(w) \/ SettleFinal(w) \/ SettleJoin(w) \/ JoinDone(w)
      PROVE  Stands
  BY <1>1, <1>4 DEF SettleLate, SettleFinal, SettleJoin, JoinDone
<1>5. ASSUME NEW w \in Workers, w # v, Return(w) PROVE Stands
  BY <1>1, <1>5 DEF Return
<1>6. ASSUME NEW w \in Workers, w # v, NEW j \in Jobs, Call(w, j) PROVE Stands
  BY <1>1, <1>6 DEF Call
<1>7. ASSUME \/ \E s \in Streams : ClientGone(s)
             \/ CloseCache \/ Terminated \/ UNCHANGED vars
      PROVE  Stands
  BY <1>7 DEF ClientGone, CloseCache, Terminated, vars
<1> HIDE DEF Stands
<1>8. \/ \E w \in Workers : WorkerStep(w) \/ Return(w)
      \/ \E w \in Workers, j \in Jobs : Call(w, j)
      \/ Stands
  BY <1>7 DEF Next
<1>9. ASSUME NEW w \in Workers, WorkerStep(w)
      PROVE  Stands \/ WorkerStep(v)
  BY <1>2, <1>3, <1>4, <1>9 DEF WorkerStep
<1>10. ASSUME NEW w \in Workers, Return(w)
       PROVE  Stands \/ Return(v)
  BY <1>5, <1>10
<1>11. ASSUME NEW w \in Workers, NEW j \in Jobs, Call(w, j)
       PROVE  Stands \/ Call(v, j)
  BY <1>6, <1>11
<1> QED
  BY <1>8, <1>9, <1>10, <1>11 DEF Stands

LEMMA HeldKept == CacheInv /\ [Next]_vars => HeldFits'
<1> SUFFICES ASSUME CacheInv, [Next]_vars,
                    NEW v \in Workers,
                    pc'[v] \in {"wait", "download", "settle", "join"}
             PROVE  held'[v] # 0 /\ rec'[held'[v]].chunk = job'[v].chunk
  BY DEF HeldFits
<1> DEFINE Goal == held'[v] # 0 /\ rec'[held'[v]].chunk = job'[v].chunk
<1> USE DEF Goto
<1>1. /\ pc \in [Workers -> {"idle", "enter", "wait", "download", "settle",
                             "join", "return"}]
      /\ held \in [Workers -> 0 .. Len(rec)]
      /\ job \in [Workers -> Jobs \cup {NoJob}]
      /\ \A w \in Workers : pc[w] # "idle" => job[w] \in Jobs
      /\ entry \in [Chunks -> 0 .. Len(rec)]
      /\ res \in [Workers -> Errors]
  BY DEF CacheInv, TypeOK
<1>2. ASSUME pc[v] \in {"wait", "download", "settle", "join"},
             held'[v] = held[v], job'[v] = job[v]
      PROVE  Goal
  BY <1>1, <1>2, RecordsLast DEF CacheInv, HeldFits
<1>3. ASSUME NEW w \in Workers, EnsureHedge(w) \/ EnsureWait(w), v = w PROVE Goal
  <2>1. Entry(w) # 0 /\ Entry(w) \in 1 .. Len(rec) /\ job[w].chunk \in Chunks
    BY <1>1, <1>3 DEF EnsureHedge, EnsureWait, InFlight, Entry, Jobs
  <2>2. rec[Entry(w)].chunk = job[w].chunk
    BY <2>1 DEF CacheInv, EntryFits, Entry
  <2>3. held'[v] = Entry(w) /\ job'[v] = job[v]
    BY <1>1, <1>3 DEF EnsureHedge, EnsureWait
  <2> QED
    BY <1>3, <2>1, <2>2, <2>3, RecordsLast
<1>4. ASSUME NEW w \in Workers, EnsureCreate(w), v = w PROVE Goal
  <2>1. held'[v] = Len(rec) + 1 /\ job'[v] = job[v] /\ Len(rec) \in Nat
    BY <1>1, <1>4, RecordsLast DEF EnsureCreate
  <2>2. rec'[Len(rec) + 1].chunk = job[w].chunk
    BY <1>4, CreateEffect
  <2> QED
    BY <1>4, <2>1, <2>2
<1>5. \/ pc[v] \in {"wait", "download", "settle", "join"}
           /\ held'[v] = held[v] /\ job'[v] = job[v]
      \/ EnsureHedge(v) \/ EnsureWait(v) \/ EnsureCreate(v)
  <2> USE DEF cacheVars, workerVars
  <2>1. CASE pc'[v] = pc[v] /\ job'[v] = job[v] /\ held'[v] = held[v]
    BY <2>1
  <2>2. ASSUME EnsureClosed(v) \/ EnsureHit(v) \/ WaitDone(v) \/ WaitCancelled(v)
                 \/ SettleLate(v) \/ SettleFinal(v) \/ JoinDone(v)
        PROVE  FALSE
    BY <1>1, <2>2 DEF EnsureClosed, EnsureHit, WaitDone, WaitCancelled,
                      SettleLate, SettleFinal, JoinDone
  <2>3. ASSUME DownloadOK(v) \/ DownloadFailed(v) \/ DownloadCanceled(v) \/ SettleJoin(v)
        PROVE  /\ pc[v] \in {"wait", "download", "settle", "join"}
               /\ held' = held /\ job' = job
    BY <2>3 DEF DownloadOK, DownloadFailed, DownloadCanceled, SettleJoin
  <2>4. ~Return(v) /\ \A j \in Jobs : ~Call(v, j)
    BY <1>1 DEF Return, Call
  <2> QED
    BY <2>1, <2>2, <2>3, <2>4, OwnSteps DEF WorkerStep
<1> QED
  BY <1>2, <1>3, <1>4, <1>5

LEMMA EntryKept == CacheInv /\ [Next]_vars => EntryFits'
<1> SUFFICES ASSUME CacheInv, [Next]_vars PROVE EntryFits'
  OBVIOUS
<1>1. /\ entry \in [Chunks -> 0 .. Len(rec)]
      /\ \A c \in Chunks : entry[c] # 0 => rec[entry[c]].chunk = c
      /\ ~file => \A c \in Chunks : entry[c] = 0
  BY DEF CacheInv, TypeOK, EntryFits
<1>2. CASE UNCHANGED <<file, entry>>
  BY <1>1, <1>2, RecordsLast DEF EntryFits
<1>3. ASSUME NEW w \in Workers, EnsureCreate(w) PROVE EntryFits'
  <2>1. /\ Len(rec) \in Nat /\ file /\ file' = file
        /\ entry' = [entry EXCEPT ![job[w].chunk] = Len(rec) + 1]
        /\ rec'[Len(rec) + 1].chunk = job[w].chunk
    BY <1>3, RecordsLast, CreateEffect DEF EnsureCreate
  <2> QED
    BY <1>1, <2>1, RecordsLast DEF EntryFits
<1>4. CASE CloseCache
  BY <1>4 DEF CloseCache, EntryFits
<1>5. \/ UNCHANGED <<file, entry>>
      \/ CloseCache
      \/ \E w \in Workers : EnsureCreate(w)
  BY DEF Next, WorkerStep, EnsureClosed, EnsureHit, EnsureHedge, EnsureWait, WaitDone,
         WaitCancelled, DownloadOK, DownloadFailed, DownloadCanceled, SettleLate,
         SettleFinal, SettleJoin, JoinDone, Return, Call, ClientGone, Terminated,
         vars, cacheVars
<1> QED
  BY <1>2, <1>3, <1>4, <1>5

LEMMA LostKept == CacheInv /\ [Next]_vars => LostIsRelative'
<1> SUFFICES ASSUME CacheInv, [Next]_vars PROVE LostIsRelative'
  OBVIOUS
<1>1. /\ Len(rec) \in Nat /\ DOMAIN rec = 1 .. Len(rec)
      /\ DOMAIN rec' = 1 .. Len(rec')
      /\ \A r \in 1 .. Len(rec) : rec[r].err # "lost"
      /\ \A w \in Workers : pc[w] = "settle" => res[w] # "lost"
      /\ pc \in [Workers -> {"idle", "enter", "wait", "download", "settle",
                             "join", "return"}]
      /\ res \in [Workers -> Errors]
  BY TypesKept, LenProperties DEF CacheInv, TypeOK, LostIsRelative
<1>2. ASSUME NEW r \in 1 .. Len(rec') PROVE rec'[r].err # "lost"
  <2>1. CASE UNCHANGED rec
    BY <1>1, <1>2, <2>1
  <2>2. ASSUME NEW w \in Workers, EnsureHedge(w) PROVE rec'[r].err # "lost"
    <3>1. /\ Entry(w) \in 1 .. Len(rec) /\ OnlyAt(Entry(w))
          /\ rec'[Entry(w)] = [rec[Entry(w)] EXCEPT
                  !.attempts = @ + 1, !.routes = @ \cup {job[w].route}]
      BY <2>2, HedgeEffect
    <3>2. rec'[Entry(w)].err = rec[Entry(w)].err
      BY <3>1, ElementOfSeq DEF CacheInv, TypeOK, Records
    <3> QED
      BY <1>1, <1>2, <3>1, <3>2 DEF OnlyAt
  <2>3. ASSUME NEW w \in Workers, EnsureCreate(w) PROVE rec'[r].err # "lost"
    <3>1. /\ Len(rec') = Len(rec) + 1 /\ rec'[Len(rec) + 1].err = "ok"
          /\ \A q \in 1 .. Len(rec) : rec'[q] = rec[q]
      BY <2>3, CreateEffect
    <3> QED
      BY <1>1, <1>2, <3>1
  <2>4. ASSUME NEW w \in Workers, SettleFinal(w) PROVE rec'[r].err # "lost"
    <3>1. /\ held[w] \in 1 .. Len(rec) /\ OnlyAt(held[w])
          /\ rec'[held[w]].err = res[w]
      BY <2>4, FinalEffect
    <3> QED
      BY <1>1, <1>2, <2>4, <3>1 DEF OnlyAt, SettleFinal
  <2>5. ASSUME NEW w \in Workers, SettleJoin(w) PROVE rec'[r].err # "lost"
    <3>1. /\ held[w] \in 1 .. Len(rec) /\ OnlyAt(held[w])
          /\ rec'[held[w]] = [rec[held[w]] EXCEPT
                  !.attempts = @ - 1, !.routes = @ \ {job[w].route}]
      BY <2>5, JoinEffect
    <3>2. rec'[held[w]].err = rec[held[w]].err
      BY <3>1, ElementOfSeq DEF CacheInv, TypeOK, Records
    <3> QED
      BY <1>1, <1>2, <3>1, <3>2 DEF OnlyAt
  <2> QED
    BY <2>1, <2>2, <2>3, <2>4, <2>5, RecordSteps
<1>3. ASSUME NEW v \in Workers, pc'[v] = "settle" PROVE res'[v] # "lost"
  <2> USE DEF Goto
  <2>1. \/ pc[v] = "settle" /\ res'[v] = res[v]
        \/ DownloadOK(v) \/ DownloadFailed(v) \/ DownloadCanceled(v)
    <3>1. ASSUME EnsureClosed(v) \/ EnsureHit(v) \/ EnsureHedge(v) \/ EnsureWait(v)
                   \/ EnsureCreate(v) \/ WaitDone(v) \/ WaitCancelled(v)
          PROVE  FALSE
      BY <1>1, <1>3, <3>1
      DEF EnsureClosed, EnsureHit, EnsureHedge, EnsureWait, EnsureCreate, WaitDone,
          WaitCancelled
    <3>2. ASSUME SettleLate(v) \/ SettleFinal(v) \/ SettleJoin(v) \/ JoinDone(v)
          PROVE  FALSE
      BY <1>1, <1>3, <3>2 DEF SettleLate, SettleFinal, SettleJoin, JoinDone
    <3>3. ~Return(v) /\ \A j \in Jobs : ~Call(v, j)
      BY <1>1, <1>3 DEF Return, Call
    <3> QED
      BY <1>3, <3>1, <3>2, <3>3, OwnSteps DEF WorkerStep
  <2> QED
    BY <1>1, <2>1 DEF DownloadOK, DownloadFailed, DownloadCanceled
<1> QED
  BY <1>1, <1>2, <1>3 DEF LostIsRelative

(* The bytes in the file stay. *)
LEMMA DiskGrows == [Next]_vars => onDisk \subseteq onDisk'
BY DEF Next, WorkerStep, EnsureClosed, EnsureHit, EnsureHedge, EnsureWait,
       EnsureCreate, WaitDone, WaitCancelled, DownloadOK, DownloadFailed,
       DownloadCanceled, SettleLate, SettleFinal, SettleJoin, JoinDone, Return, Call,
       ClientGone, CloseCache, Terminated, vars, cacheVars

LEMMA SuccessKept == CacheInv /\ [Next]_vars => SuccessBacked'
<1> SUFFICES ASSUME CacheInv, [Next]_vars PROVE SuccessBacked'
  OBVIOUS
<1>1. /\ Len(rec) \in Nat /\ DOMAIN rec = 1 .. Len(rec)
      /\ DOMAIN rec' = 1 .. Len(rec')
      /\ \A r \in 1 .. Len(rec) :
            rec[r].completed /\ rec[r].err = "ok" => rec[r].chunk \in onDisk
      /\ \A w \in Workers :
            pc[w] = "settle" /\ res[w] = "ok" => job[w].chunk \in onDisk
      /\ pc \in [Workers -> {"idle", "enter", "wait", "download", "settle",
                             "join", "return"}]
      /\ res \in [Workers -> Errors]
      /\ job \in [Workers -> Jobs \cup {NoJob}]
      /\ onDisk \subseteq onDisk'
  BY TypesKept, LenProperties, DiskGrows DEF CacheInv, TypeOK, SuccessBacked
<1>2. ASSUME NEW r \in 1 .. Len(rec'), rec'[r].completed, rec'[r].err = "ok"
      PROVE  rec'[r].chunk \in onDisk'
  <2>1. CASE UNCHANGED rec
    BY <1>1, <1>2, <2>1
  <2>2. ASSUME NEW w \in Workers, EnsureHedge(w) PROVE rec'[r].chunk \in onDisk'
    <3>1. /\ Entry(w) \in 1 .. Len(rec) /\ OnlyAt(Entry(w)) /\ ~rec[Entry(w)].completed
          /\ rec'[Entry(w)] = [rec[Entry(w)] EXCEPT
                  !.attempts = @ + 1, !.routes = @ \cup {job[w].route}]
      BY <2>2, HedgeEffect
    <3>2. rec'[Entry(w)].completed = rec[Entry(w)].completed
      BY <3>1, ElementOfSeq DEF CacheInv, TypeOK, Records
    <3> QED
      BY <1>1, <1>2, <3>1, <3>2 DEF OnlyAt
  <2>3. ASSUME NEW w \in Workers, EnsureCreate(w) PROVE rec'[r].chunk \in onDisk'
    <3>1. /\ Len(rec') = Len(rec) + 1 /\ ~rec'[Len(rec) + 1].completed
          /\ \A q \in 1 .. Len(rec) : rec'[q] = rec[q]
      BY <2>3, CreateEffect
    <3> QED
      BY <1>1, <1>2, <3>1
  <2>4. ASSUME NEW w \in Workers, SettleFinal(w) PROVE rec'[r].chunk \in onDisk'
    <3>1. /\ held[w] \in 1 .. Len(rec) /\ OnlyAt(held[w])
          /\ rec'[held[w]].err = res[w]
      BY <2>4, FinalEffect
    <3>2. pc[w] = "settle" /\ rec[held[w]].chunk = job[w].chunk
      BY <2>4 DEF SettleFinal, CacheInv, HeldFits
    <3> QED
      BY <1>1, <1>2, <3>1, <3>2 DEF OnlyAt
  <2>5. ASSUME NEW w \in Workers, SettleJoin(w) PROVE rec'[r].chunk \in onDisk'
    <3>1. /\ held[w] \in 1 .. Len(rec) /\ OnlyAt(held[w]) /\ ~rec[held[w]].completed
          /\ rec'[held[w]] = [rec[held[w]] EXCEPT
                  !.attempts = @ - 1, !.routes = @ \ {job[w].route}]
      BY <2>5, JoinEffect
    <3>2. rec'[held[w]].completed = rec[held[w]].completed
      BY <3>1, ElementOfSeq DEF CacheInv, TypeOK, Records
    <3> QED
      BY <1>1, <1>2, <3>1, <3>2 DEF OnlyAt
  <2> QED
    BY <2>1, <2>2, <2>3, <2>4, <2>5, RecordSteps
<1>3. ASSUME NEW v \in Workers, pc'[v] = "settle", res'[v] = "ok"
      PROVE  job'[v].chunk \in onDisk'
  <2> USE DEF Goto
  <2>1. \/ pc[v] = "settle" /\ res'[v] = res[v] /\ job'[v] = job[v]
        \/ DownloadOK(v) \/ DownloadFailed(v) \/ DownloadCanceled(v)
    <3>1. ASSUME EnsureClosed(v) \/ EnsureHit(v) \/ EnsureHedge(v) \/ EnsureWait(v)
                   \/ EnsureCreate(v) \/ WaitDone(v) \/ WaitCancelled(v)
          PROVE  FALSE
      BY <1>1, <1>3, <3>1
      DEF EnsureClosed, EnsureHit, EnsureHedge, EnsureWait, EnsureCreate, WaitDone,
          WaitCancelled
    <3>2. ASSUME SettleLate(v) \/ SettleFinal(v) \/ SettleJoin(v) \/ JoinDone(v)
          PROVE  FALSE
      BY <1>1, <1>3, <3>2 DEF SettleLate, SettleFinal, SettleJoin, JoinDone
    <3>3. ~Return(v) /\ \A j \in Jobs : ~Call(v, j)
      BY <1>1, <1>3 DEF Return, Call
    <3> QED
      BY <1>3, <3>1, <3>2, <3>3, OwnSteps DEF WorkerStep
  <2> QED
    BY <1>1, <1>3, <2>1 DEF DownloadOK, DownloadFailed, DownloadCanceled
<1> QED
  BY <1>1, <1>2, <1>3 DEF SuccessBacked

LEMMA ResultKept == CacheInv /\ [Next]_vars => ResultBacked'
<1> SUFFICES ASSUME CacheInv, [Next]_vars, NEW v \in Workers,
                    pc'[v] = "return", res'[v] \in {"ok", "lost"}
             PROVE  job'[v].chunk \in onDisk'
  BY DEF ResultBacked
<1>1. /\ Len(rec) \in Nat /\ DOMAIN rec = 1 .. Len(rec)
      /\ pc \in [Workers -> {"idle", "enter", "wait", "download", "settle",
                             "join", "return"}]
      /\ res \in [Workers -> Errors]
      /\ job \in [Workers -> Jobs \cup {NoJob}]
      /\ held \in [Workers -> 0 .. Len(rec)]
      /\ entry \in [Chunks -> 0 .. Len(rec)]
      /\ \A w \in Workers : pc[w] # "idle" => job[w] \in Jobs
      /\ onDisk \subseteq onDisk'
  BY LenProperties, DiskGrows DEF CacheInv, TypeOK
<1> DEFINE Goal == job'[v].chunk \in onDisk'
<1> USE DEF Goto
<1>2. CASE pc[v] = "return" /\ res'[v] = res[v] /\ job'[v] = job[v]
  BY <1>1, <1>2 DEF CacheInv, ResultBacked
<1>3. ASSUME EnsureHit(v) PROVE Goal
  <2>1. job[v] \in Jobs /\ rec[Entry(v)].completed /\ rec[Entry(v)].err = "ok"
        /\ Entry(v) \in 1 .. Len(rec) /\ job' = job
    BY <1>1, <1>3 DEF EnsureHit, Completed, Entry, Jobs
  <2>2. rec[Entry(v)].chunk = job[v].chunk
    BY <2>1 DEF CacheInv, EntryFits, Entry, Jobs
  <2> QED
    BY <1>1, <2>1, <2>2 DEF CacheInv, SuccessBacked
<1>4. ASSUME SettleFinal(v) PROVE Goal
  BY <1>1, <1>4 DEF SettleFinal, CacheInv, SuccessBacked, LostIsRelative
<1>5. ASSUME SettleLate(v) \/ JoinDone(v) PROVE Goal
  <2>1. /\ held[v] \in 1 .. Len(rec) /\ rec[held[v]].chunk = job[v].chunk
        /\ rec[held[v]].completed /\ job' = job
        /\ res'[v] = AttemptResult(res[v], rec[held[v]].err)
    BY <1>1, <1>5 DEF SettleLate, JoinDone, CacheInv, HeldFits
  <2>2. rec[held[v]].err = "ok"
    BY <1>1, <2>1 DEF AttemptResult, CacheInv, LostIsRelative
  <2> QED
    BY <1>1, <2>1, <2>2 DEF CacheInv, SuccessBacked
<1>6. \/ <1>2!1
      \/ EnsureHit(v) \/ SettleFinal(v) \/ SettleLate(v) \/ JoinDone(v)
  <2>1. ASSUME EnsureHedge(v) \/ EnsureWait(v) \/ EnsureCreate(v) \/ WaitDone(v)
                 \/ DownloadOK(v) \/ DownloadFailed(v) \/ DownloadCanceled(v)
                 \/ SettleJoin(v)
        PROVE  FALSE
    BY <1>1, <2>1 DEF EnsureHedge, EnsureWait, EnsureCreate, WaitDone, DownloadOK,
                      DownloadFailed, DownloadCanceled, SettleJoin
  <2>2. ASSUME EnsureClosed(v) \/ WaitCancelled(v) PROVE FALSE
    BY <1>1, <2>2 DEF EnsureClosed, WaitCancelled
  <2>3. ~Return(v) /\ \A j \in Jobs : ~Call(v, j)
    BY <1>1 DEF Return, Call
  <2> QED
    BY <2>1, <2>2, <2>3, OwnSteps DEF WorkerStep
<1> QED
  BY <1>2, <1>3, <1>4, <1>5, <1>6

LEMMA SingleKept == CacheInv /\ [Next]_vars => SingleFlight'
<1> SUFFICES ASSUME CacheInv, [Next]_vars, file',
                    NEW r \in DOMAIN rec', ~rec'[r].completed
             PROVE  entry'[rec'[r].chunk] = r
  BY DEF SingleFlight
<1>1. /\ Len(rec) \in Nat /\ DOMAIN rec = 1 .. Len(rec) /\ r \in 1 .. Len(rec')
      /\ entry \in [Chunks -> 0 .. Len(rec)]
      /\ \A q \in 1 .. Len(rec) : rec[q].chunk \in Chunks
  <2>1. rec \in Seq(Records) /\ rec' \in Seq(Records) /\ entry \in [Chunks -> 0 .. Len(rec)]
    BY TypesKept DEF CacheInv, TypeOK
  <2>2. \A q \in 1 .. Len(rec) : rec[q] \in Records
    BY <2>1, ElementOfSeq
  <2> QED
    BY <2>1, <2>2, LenProperties DEF Records
<1>2. ASSUME r \in 1 .. Len(rec), file, entry' = entry PROVE entry'[rec'[r].chunk] = r
  BY <1>1, <1>2, RecordsLast DEF CacheInv, SingleFlight
<1>3. ASSUME NEW w \in Workers, EnsureCreate(w) PROVE entry'[rec'[r].chunk] = r
  <2>1. /\ file /\ NeedsRecord(w) /\ job[w].chunk \in Chunks
        /\ Len(rec') = Len(rec) + 1
        /\ \A q \in 1 .. Len(rec) : rec'[q] = rec[q]
        /\ rec'[Len(rec) + 1].chunk = job[w].chunk
        /\ entry' = [entry EXCEPT ![job[w].chunk] = Len(rec) + 1]
    BY <1>3, CreateEffect DEF EnsureCreate, Jobs
  <2>2. CASE r = Len(rec) + 1
    BY <1>1, <2>1, <2>2
  <2>3. CASE r \in 1 .. Len(rec)
    <3>1. entry[rec[r].chunk] = r /\ ~rec[r].completed
      BY <1>1, <2>1, <2>3 DEF CacheInv, SingleFlight
    <3>2. rec[r].chunk # job[w].chunk
      BY <1>1, <2>1, <2>3, <3>1 DEF NeedsRecord, Completed, Entry
    <3> QED
      BY <1>1, <2>1, <2>3, <3>1, <3>2
  <2> QED
    BY <1>1, <2>1, <2>2, <2>3
<1>4. \/ UNCHANGED <<file, entry>> /\ Len(rec') = Len(rec)
      \/ \E w \in Workers : EnsureCreate(w)
  <2>1. ASSUME NEW w \in Workers, EnsureHedge(w) \/ SettleFinal(w) \/ SettleJoin(w)
        PROVE  Len(rec') = Len(rec) /\ UNCHANGED <<file, entry>>
    BY <2>1, HedgeEffect, FinalEffect, JoinEffect
    DEF OnlyAt, EnsureHedge, SettleFinal, SettleJoin
  <2>2. \/ UNCHANGED <<file, entry, rec>>
        \/ \E w \in Workers : EnsureHedge(w) \/ EnsureCreate(w) \/ SettleFinal(w)
                                \/ SettleJoin(w)
    BY DEF Next, WorkerStep, EnsureClosed, EnsureHit, EnsureWait, WaitDone,
         WaitCancelled, DownloadOK, DownloadFailed, DownloadCanceled, SettleLate,
         JoinDone, Return, Call, ClientGone, CloseCache, Terminated, vars, cacheVars
  <2> QED
    BY <2>1, <2>2
<1> QED
  BY <1>1, <1>2, <1>3, <1>4

-----------------------------------------------------------------------------
(* The count of attempts *)

(* What Counted(r) reads is the same after the step. *)
LEMMA SameCount ==
    ASSUME NEW r, Counted(r), rec'[r].attempts = rec[r].attempts,
           rec'[r].routes = rec[r].routes, Attempts(r)' = Attempts(r),
           \A w \in Attempts(r) : job'[w] = job[w]
    PROVE  Counted(r)'
BY DEF Counted

LEMMA CountedKept == CacheInv /\ [Next]_vars => AttemptsCounted'
<1> SUFFICES ASSUME CacheInv, [Next]_vars,
                    NEW r \in DOMAIN rec', ~rec'[r].completed
             PROVE  Counted(r)'
  BY DEF AttemptsCounted
<1> USE DEF Goto
<1>1. /\ rec \in Seq(Records) /\ rec' \in Seq(Records)
      /\ Len(rec) \in Nat /\ DOMAIN rec = 1 .. Len(rec) /\ r \in 1 .. Len(rec')
      /\ pc \in [Workers -> {"idle", "enter", "wait", "download", "settle",
                             "join", "return"}]
      /\ held \in [Workers -> 0 .. Len(rec)]
      /\ job \in [Workers -> Jobs \cup {NoJob}]
      /\ \A q \in 1 .. Len(rec) : rec[q] \in Records
  BY TypesKept, LenProperties, ElementOfSeq DEF CacheInv, TypeOK
<1>2. \A q : Attempts(q) \in SUBSET Workers /\ IsFiniteSet(Attempts(q))
  BY CacheAssumption, FS_Subset DEF Attempts
<1>3. r \in 1 .. Len(rec) /\ ~rec[r].completed => Counted(r)
  BY <1>1 DEF CacheInv, AttemptsCounted
<1>4. ASSUME NEW w \in Workers, EnsureHedge(w) PROVE Counted(r)'
  <2>1. /\ Entry(w) \in 1 .. Len(rec) /\ OnlyAt(Entry(w)) /\ ~rec[Entry(w)].completed
        /\ rec'[Entry(w)] = [rec[Entry(w)] EXCEPT
                !.attempts = @ + 1, !.routes = @ \cup {job[w].route}]
    BY <1>4, HedgeEffect
  <2>2. /\ pc[w] = "enter" /\ pc' = [pc EXCEPT ![w] = "download"]
        /\ held' = [held EXCEPT ![w] = Entry(w)] /\ job' = job
        /\ job[w].route \notin rec[Entry(w)].routes
    BY <1>4 DEF EnsureHedge, CanHedge
  <2>3. w \notin Attempts(r)
    BY <2>2 DEF Attempts
  <2>4. CASE r # Entry(w)
    <3>1. r \in 1 .. Len(rec) /\ rec'[r] = rec[r]
      BY <1>1, <2>1, <2>4 DEF OnlyAt
    <3>2. Attempts(r)' = Attempts(r)
      BY <1>1, <2>1, <2>2, <2>3, <2>4 DEF Attempts
    <3> QED
      BY <1>3, <2>2, <3>1, <3>2, SameCount
  <2>5. CASE r = Entry(w)
    <3>1. Attempts(r)' = Attempts(r) \cup {w}
      BY <1>1, <2>1, <2>2, <2>5 DEF Attempts
    <3>2. Cardinality(Attempts(r)') = Cardinality(Attempts(r)) + 1
      BY <1>2, <2>3, <3>1, FS_AddElement
    <3>3. /\ Counted(r) /\ rec[r].attempts \in Nat
          /\ rec'[r].attempts = rec[r].attempts + 1
          /\ rec'[r].routes = rec[r].routes \cup {job[w].route}
      BY <1>1, <1>3, <2>1, <2>5 DEF Records
    <3> QED
      BY <2>2, <2>5, <3>1, <3>2, <3>3 DEF Counted
  <2> QED
    BY <2>4, <2>5
<1>5. ASSUME NEW w \in Workers, EnsureCreate(w) PROVE Counted(r)'
  <2>1. /\ Len(rec') = Len(rec) + 1
        /\ \A q \in 1 .. Len(rec) : rec'[q] = rec[q]
        /\ rec'[Len(rec) + 1].attempts = 1
        /\ rec'[Len(rec) + 1].routes = {job[w].route}
    BY <1>5, CreateEffect
  <2>2. /\ pc[w] = "enter" /\ pc' = [pc EXCEPT ![w] = "download"]
        /\ held' = [held EXCEPT ![w] = Len(rec) + 1] /\ job' = job
    BY <1>5 DEF EnsureCreate
  <2>3. CASE r \in 1 .. Len(rec)
    <3>1. Attempts(r)' = Attempts(r)
      BY <1>1, <2>2, <2>3 DEF Attempts
    <3> QED
      BY <1>3, <2>1, <2>2, <2>3, <3>1, SameCount
  <2>4. CASE r = Len(rec) + 1
    <3>1. Attempts(r)' = {w}
      BY <1>1, <2>2, <2>4 DEF Attempts
    <3>2. Cardinality(Attempts(r)') = 1
      BY <3>1, FS_Singleton
    <3> QED
      BY <2>1, <2>2, <2>4, <3>1, <3>2 DEF Counted
  <2> QED
    BY <1>1, <2>1, <2>3, <2>4
<1>6. ASSUME NEW w \in Workers, SettleFinal(w) PROVE Counted(r)'
  <2>1. /\ held[w] \in 1 .. Len(rec) /\ OnlyAt(held[w])
        /\ rec'[held[w]].completed
    BY <1>6, FinalEffect
  <2>2. r # held[w] /\ r \in 1 .. Len(rec) /\ rec'[r] = rec[r]
    BY <1>1, <2>1 DEF OnlyAt
  <2>3. Attempts(r)' = Attempts(r) /\ job' = job
    BY <1>1, <1>6, <2>2 DEF Attempts, SettleFinal
  <2> QED
    BY <1>3, <2>2, <2>3, SameCount
<1>7. ASSUME NEW w \in Workers, SettleJoin(w) PROVE Counted(r)'
  <2>1. /\ held[w] \in 1 .. Len(rec) /\ OnlyAt(held[w]) /\ ~rec[held[w]].completed
        /\ rec[held[w]].attempts \in Nat \ {0, 1}
        /\ rec'[held[w]] = [rec[held[w]] EXCEPT
                !.attempts = @ - 1, !.routes = @ \ {job[w].route}]
    BY <1>7, JoinEffect
  <2>2. pc[w] = "settle" /\ pc' = [pc EXCEPT ![w] = "join"] /\ held' = held /\ job' = job
    BY <1>7 DEF SettleJoin
  <2>3. CASE r # held[w]
    <3>1. r \in 1 .. Len(rec) /\ rec'[r] = rec[r]
      BY <1>1, <2>1, <2>3 DEF OnlyAt
    <3>2. Attempts(r)' = Attempts(r)
      BY <1>1, <2>2, <2>3 DEF Attempts
    <3> QED
      BY <1>3, <2>2, <3>1, <3>2, SameCount
  <2>4. CASE r = held[w]
    <3>1. Attempts(r)' = Attempts(r) \ {w} /\ w \in Attempts(r)
      BY <1>1, <2>2, <2>4 DEF Attempts
    <3>2. Cardinality(Attempts(r)') = Cardinality(Attempts(r)) - 1
      BY <1>2, <3>1, FS_RemoveElement
    <3>3. /\ Counted(r) /\ rec[r].attempts \in Nat \ {0, 1}
          /\ rec'[r].attempts = rec[r].attempts - 1
          /\ rec'[r].routes = rec[r].routes \ {job[w].route}
      BY <1>1, <1>3, <2>1, <2>4 DEF Records
    <3> QED
      BY <2>2, <2>4, <3>1, <3>2, <3>3 DEF Counted
  <2> QED
    BY <2>3, <2>4
<1>8. CASE /\ UNCHANGED rec
           /\ \A w \in Workers :
                 \/ pc'[w] = pc[w] /\ held'[w] = held[w] /\ job'[w] = job[w]
                 \/ pc[w] \in {"download", "settle"} /\ pc'[w] = "settle"
                      /\ held'[w] = held[w] /\ job'[w] = job[w]
                 \/ pc[w] \notin {"download", "settle"}
                      /\ pc'[w] \notin {"download", "settle"}
                 \/ SettleLate(w)
  <2>1. r \in 1 .. Len(rec) /\ ~rec[r].completed
    BY <1>1, <1>8
  <2>2. \A w \in Workers : SettleLate(w) => w \notin Attempts(r) /\ w \notin Attempts(r)'
    BY <1>1, <2>1 DEF SettleLate, Attempts
  <2>3. Attempts(r)' = Attempts(r) /\ \A w \in Attempts(r) : job'[w] = job[w]
    BY <1>8, <2>2 DEF Attempts
  <2> QED
    BY <1>3, <1>8, <2>1, <2>3, SameCount
<1>9. \/ <1>8!1
      \/ \E w \in Workers : EnsureHedge(w) \/ EnsureCreate(w) \/ SettleFinal(w)
                              \/ SettleJoin(w)
  <2> USE DEF Next, WorkerStep, cacheVars, workerVars, vars
  <2>1. ASSUME NEW w \in Workers, WorkerStep(w) \/ Return(w) PROVE <1>9
    BY <1>1, <2>1 DEF EnsureClosed, EnsureHit, EnsureWait,
       WaitDone, WaitCancelled, DownloadOK, DownloadFailed, DownloadCanceled,
       SettleLate, JoinDone, Return
  <2>2. ASSUME NEW w \in Workers, NEW j \in Jobs, Call(w, j) PROVE <1>9
    BY <1>1, <2>2 DEF Call
  <2> QED
    BY <1>1, <2>1, <2>2 DEF ClientGone, CloseCache, Terminated
<1> QED
  BY <1>4, <1>5, <1>6, <1>7, <1>8, <1>9

-----------------------------------------------------------------------------
(* The invariant *)

LEMMA InitEstablishes == Init => CacheInv
<1> SUFFICES ASSUME Init PROVE CacheInv
  OBVIOUS
<1>1. rec = <<>> /\ rec \in Seq(Records) /\ Len(rec) = 0 /\ DOMAIN rec = {}
  BY EmptySeq, LenProperties DEF Init, CacheInit
<1>2. TypeOK
  BY <1>1 DEF Init, CacheInit, TypeOK, Errors
<1> QED
  BY <1>1, <1>2 DEF Init, CacheInit, CacheInv, HeldFits, EntryFits, LostIsRelative,
                    SuccessBacked, ResultBacked, SingleFlight, AttemptsCounted

(* CacheInv holds throughout: types, the records' chunks, the backing of   *)
(* success by bytes in the file, one record in flight per chunk, and the   *)
(* count of attempts on every open record.                                 *)
THEOREM CacheInvariant == Spec => []CacheInv
<1>1. CacheInv /\ [Next]_vars => CacheInv'
  BY TypesKept, HeldKept, EntryKept, LostKept, SuccessKept, ResultKept, SingleKept,
     CountedKept
  DEF CacheInv
<1> QED
  BY InitEstablishes, <1>1, PTL DEF Spec

(* Type correctness. *)
THEOREM TypesHold == Spec => []TypeOK
<1>1. CacheInv => TypeOK
  BY DEF CacheInv
<1> QED
  BY CacheInvariant, <1>1, PTL

(* ensureChunk's attempts counter is exact, whatever hedges join and fail:  *)
(* the last attempt always knows that it is the last.                      *)
THEOREM AttemptsExact == Spec => []AttemptsCounted
<1>1. CacheInv => AttemptsCounted
  BY DEF CacheInv
<1> QED
  BY CacheInvariant, <1>1, PTL

(* No two records of one chunk are in flight while the cache is open. *)
THEOREM OneFlight == Spec => []SingleFlight
<1>1. CacheInv => SingleFlight
  BY DEF CacheInv
<1> QED
  BY CacheInvariant, <1>1, PTL

(* What a worker reports as obtained, or as a lost hedge, is in the file.  *)
THEOREM ResultsBacked == Spec => []ResultBacked
<1>1. CacheInv => ResultBacked
  BY DEF CacheInv
<1> QED
  BY CacheInvariant, <1>1, PTL

-----------------------------------------------------------------------------
(* Verdicts *)

(* A record completes once, with one verdict. *)
THEOREM VerdictsLast == Spec => VerdictIsFinal
<1>1. CacheInv /\ [Next]_vars =>
        [\A r \in DOMAIN rec : rec[r].completed =>
            rec'[r].completed /\ rec'[r].err = rec[r].err]_vars
  BY RecordsLast, LenProperties DEF CacheInv, TypeOK
<1> QED
  BY CacheInvariant, <1>1, PTL DEF Spec, VerdictIsFinal

-----------------------------------------------------------------------------
(* The cache implements ChunkStore *)

(* A step that changes neither the map nor what Phase reads of the records *)
(* in it is a step of ChunkStore that leaves everything unchanged.         *)
LEMMA SamePhase ==
    ASSUME NEW c \in Chunks, entry'[c] = entry[c],
           entry[c] # 0 => /\ rec'[entry[c]].completed = rec[entry[c]].completed
                           /\ rec'[entry[c]].err = rec[entry[c]].err
    PROVE  Phase(c)' = Phase(c)
BY DEF Phase

LEMMA StoreStep == CacheInv /\ [Next]_vars => [Store!StoreNext]_Store!store
<1> SUFFICES ASSUME CacheInv, [Next]_vars PROVE [Store!StoreNext]_Store!store
  OBVIOUS
<1> DEFINE phases == [c \in Chunks |-> Phase(c)]
<1> USE DEF Store!StoreNext, Store!store
<1>1. /\ rec \in Seq(Records) /\ Len(rec) \in Nat /\ DOMAIN rec = 1 .. Len(rec)
      /\ entry \in [Chunks -> 0 .. Len(rec)]
      /\ \A q \in 1 .. Len(rec) : rec[q] \in Records
      /\ \A c \in Chunks : entry[c] # 0 => rec[entry[c]].chunk = c
  BY LenProperties, ElementOfSeq DEF CacheInv, TypeOK, EntryFits
<1>2. ASSUME UNCHANGED <<file, entry, rec>> PROVE UNCHANGED <<file, phases>>
  BY <1>2, SamePhase
<1>3. ASSUME NEW w \in Workers, EnsureHedge(w) PROVE UNCHANGED <<file, phases>>
  <2>1. /\ Entry(w) \in 1 .. Len(rec) /\ OnlyAt(Entry(w))
        /\ rec'[Entry(w)] = [rec[Entry(w)] EXCEPT
                !.attempts = @ + 1, !.routes = @ \cup {job[w].route}]
    BY <1>3, HedgeEffect
  <2>2. /\ rec'[Entry(w)].completed = rec[Entry(w)].completed
        /\ rec'[Entry(w)].err = rec[Entry(w)].err
    BY <1>1, <2>1 DEF Records
  <2>3. \A c \in Chunks : Phase(c)' = Phase(c)
    BY <1>1, <1>3, <2>1, <2>2, SamePhase DEF OnlyAt, EnsureHedge
  <2> QED
    BY <1>3, <2>3 DEF EnsureHedge
<1>4. ASSUME NEW w \in Workers, SettleJoin(w) PROVE UNCHANGED <<file, phases>>
  <2>1. /\ held[w] \in 1 .. Len(rec) /\ OnlyAt(held[w])
        /\ rec'[held[w]] = [rec[held[w]] EXCEPT
                !.attempts = @ - 1, !.routes = @ \ {job[w].route}]
    BY <1>4, JoinEffect
  <2>2. /\ rec'[held[w]].completed = rec[held[w]].completed
        /\ rec'[held[w]].err = rec[held[w]].err
    BY <1>1, <2>1 DEF Records
  <2>3. \A c \in Chunks : Phase(c)' = Phase(c)
    BY <1>1, <1>4, <2>1, <2>2, SamePhase DEF OnlyAt, SettleJoin
  <2> QED
    BY <1>4, <2>3 DEF SettleJoin
<1>5. ASSUME NEW w \in Workers, EnsureCreate(w)
      PROVE  \E c \in Chunks : Store!Fetch(c)
  <2>0. PICK c \in Chunks : c = job[w].chunk
    BY <1>5, CreateEffect DEF Jobs
  <2>1. /\ file /\ file' = file /\ NeedsRecord(w)
        /\ \A q \in 1 .. Len(rec) : rec'[q] = rec[q]
        /\ rec'[Len(rec) + 1].completed = FALSE
        /\ entry' = [entry EXCEPT ![c] = Len(rec) + 1]
    BY <1>5, <2>0, CreateEffect DEF EnsureCreate
  <2>2. Phase(c) = "absent"
    BY <2>0, <2>1 DEF Phase, NeedsRecord, Completed, Entry
  <2>3. Phase(c)' = "fetching"
    BY <1>1, <2>1 DEF Phase
  <2>4. \A d \in Chunks \ {c} : Phase(d)' = Phase(d)
    BY <1>1, <2>1, SamePhase
  <2>5. phases' = [phases EXCEPT ![c] = "fetching"]
    BY <2>1, <2>3, <2>4
  <2> QED
    BY <2>1, <2>2, <2>5 DEF Store!Fetch
<1>6. ASSUME NEW w \in Workers, SettleFinal(w)
      PROVE  UNCHANGED <<file, phases>> \/ \E c \in Chunks : Store!Settle(c)
  <2>0. PICK r \in 1 .. Len(rec) : r = held[w]
    BY <1>6, FinalEffect
  <2>1. /\ OnlyAt(r)
        /\ ~rec[r].completed /\ rec'[r].completed
    BY <1>6, <2>0, FinalEffect
  <2>2. UNCHANGED <<file, entry>>
    BY <1>6 DEF SettleFinal
  <2>3. \A d \in Chunks : entry[d] # r => Phase(d)' = Phase(d)
    BY <1>1, <2>1, <2>2, SamePhase DEF OnlyAt
  <2>4. CASE ~file
    <3>1. \A d \in Chunks : entry[d] # r
      BY <2>4 DEF CacheInv, EntryFits
    <3> QED
      BY <2>2, <2>3, <3>1
  <2>5. CASE file
    <3>0. PICK c \in Chunks : c = rec[r].chunk
      BY <1>1 DEF Records
    <3>1. entry[c] = r /\ \A d \in Chunks \ {c} : entry[d] # r
      BY <1>1, <2>1, <2>5, <3>0 DEF CacheInv, SingleFlight
    <3>2. Phase(c) = "fetching"
      BY <2>1, <3>1 DEF Phase
    <3>3. PICK outcome \in {"stored", "absent"} : Phase(c)' = outcome
      BY <2>1, <2>2, <3>1 DEF Phase
    <3>4. \A d \in Chunks \ {c} : Phase(d)' = Phase(d)
      BY <2>3, <3>1
    <3>5. phases' = [phases EXCEPT ![c] = outcome]
      BY <3>3, <3>4
    <3> QED
      BY <2>2, <3>2, <3>5 DEF Store!Settle
  <2> QED
    BY <2>4, <2>5
<1>7. ASSUME CloseCache PROVE Store!Shut
  <2>1. file /\ file' = FALSE /\ entry' = [c \in Chunks |-> 0]
    BY <1>7 DEF CloseCache
  <2>2. phases' = [c \in Chunks |-> "absent"]
    BY <2>1 DEF Phase
  <2> QED
    BY <2>1, <2>2 DEF Store!Shut
<1>8. \/ UNCHANGED <<file, entry, rec>>
      \/ CloseCache
      \/ \E w \in Workers : EnsureHedge(w) \/ EnsureCreate(w) \/ SettleFinal(w)
                              \/ SettleJoin(w)
  BY DEF Next, WorkerStep, EnsureClosed, EnsureHit, EnsureWait, WaitDone,
         WaitCancelled, DownloadOK, DownloadFailed, DownloadCanceled, SettleLate,
         JoinDone, Return, Call, ClientGone, Terminated, vars, cacheVars
<1> QED
  BY <1>2, <1>3, <1>4, <1>5, <1>6, <1>7, <1>8

(* With record numbers, counters, hedges, waiters and contexts forgotten,  *)
(* the cache is a store that fetches a chunk once at a time and, when it   *)
(* has it, never again.                                                    *)
THEOREM CacheImplementsStore == Spec => ImplementsStore
<1>1. Init => Store!StoreInit
  BY DEF Init, CacheInit, Store!StoreInit, Phase
<1> QED
  BY CacheInvariant, StoreStep, <1>1, PTL DEF Spec, ImplementsStore, Store!StoreSpec

=============================================================================
