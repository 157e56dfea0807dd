------------------------------ MODULE Upstream ------------------------------
(***************************************************************************)
(* The requests of the input proxy to the upstream servers (internal/      *)
(* inputproxy/proxy.go): downloads of a range, samples, forwarded requests *)
(* and probes; the gate of each route, the slots they all share, and the   *)
(* worker metrics a request leases while it runs.                          *)
(*                                                                         *)
(* A gate and the slots are buffered channels: a blocked sender waits in a *)
(* queue.  Bytes count reads.                                              *)
(*                                                                         *)
(* A definition named D_X is D with a plausible bug in it.                 *)
(***************************************************************************)
EXTENDS Naturals, FiniteSets

CONSTANTS
    Senders,    \* goroutines that send upstream requests
    Sources,    \* the sources
    Routes,     \* source -> its urls
    Workers,    \* p.workers: slots, and entries of p.metrics
    MaxReads,   \* bound on the reads of one request
    MaxBegins,  \* bound on the leases of one entry
    Nobody      \* no request, no source

ASSUME UpstreamAssumption ==
    /\ {Workers, MaxReads, MaxBegins} \subseteq Nat \ {0}
    /\ IsFiniteSet(Senders) /\ Nobody \notin Senders \cup Sources

Urls == UNION {Routes[s] : s \in Sources}
Entries == 0 .. Workers - 1

VARIABLES
    stage,      \* request -> where it is
    job,        \* request -> what it does: kind, source, url, worker index
    gates,      \* <<source, url>> -> the request in the gate, Nobody if free
    slots,      \* taken slots
    metrics,    \* p.metrics
    lease,      \* request -> the entry and the token it was given
    read,       \* request -> reads so far
    released    \* sources that were released

workerVars == <<metrics, lease, read>>
upstreamVars == <<stage, job, gates, slots, workerVars, released>>

NoTask == [kind |-> "none", src |-> Nobody, url |-> Nobody, at |-> 0]
NoLease == [entry |-> Workers, token |-> 0]
Idle(token) == [token |-> token, busy |-> FALSE, src |-> Nobody, bytes |-> 0]

UpstreamTypeOK ==
    /\ stage \in [Senders -> {"idle", "gate", "slot", "sent", "ended", "probing"}]
    /\ job \in [Senders -> [kind : {"none", "fetch", "sample", "forward"},
                            src : Sources \cup {Nobody}, url : Urls \cup {Nobody}, at : Entries]]
    /\ gates \in [Sources \X Urls -> Senders \cup {Nobody}]
    /\ slots \in 0 .. Workers
    /\ metrics \in [Entries -> [token : Nat, busy : BOOLEAN,
                                src : Sources \cup {Nobody}, bytes : 0 .. MaxReads]]
    /\ lease \in [Senders -> [entry : 0 .. Workers, token : Nat]]
    /\ read \in [Senders -> 0 .. MaxReads]
    /\ released \subseteq Sources

UpstreamInit ==
    /\ stage = [r \in Senders |-> "idle"]
    /\ job = [r \in Senders |-> NoTask]
    /\ gates = [g \in Sources \X Urls |-> Nobody]
    /\ slots = 0
    /\ metrics = [i \in Entries |-> Idle(0)]
    /\ lease = [r \in Senders |-> NoLease]
    /\ read = [r \in Senders |-> 0]
    /\ released = {}

(* How often an entry is leased is bounded where a request starts. *)
MayStart ==
    \A i \in Entries :
        metrics[i].token + Cardinality({r \in Senders : stage[r] \in {"gate", "slot"}}) < MaxBegins

Goto(r, label) == stage' = [stage EXCEPT ![r] = label]

-----------------------------------------------------------------------------
(* The gates and the slots *)

(* fetchRangeFromURL, for the worker index the stream chose *)
Fetch(r, s, u, i) ==
    /\ stage[r] = "idle" /\ MayStart /\ s \notin released /\ u \in Routes[s]
    /\ Goto(r, "gate")
    /\ job' = [job EXCEPT ![r] = [kind |-> "fetch", src |-> s, url |-> u, at |-> i]]
    /\ UNCHANGED <<gates, slots, workerVars, released>>

(* fetchProbeSample and serveFallback take a slot and no gate. *)
Ask(r, s, kind) ==
    /\ stage[r] = "idle" /\ MayStart /\ s \notin released
    /\ Goto(r, "slot")
    /\ job' = [job EXCEPT ![r] = [kind |-> kind, src |-> s, url |-> Nobody, at |-> 0]]
    /\ UNCHANGED <<gates, slots, workerVars, released>>

(* probeRoute takes neither. *)
Probe(r) ==
    /\ stage[r] = "idle"
    /\ Goto(r, "probing")
    /\ UNCHANGED <<job, gates, slots, workerVars, released>>

ProbeEnds(r) ==
    /\ stage[r] = "probing"
    /\ Goto(r, "idle")
    /\ UNCHANGED <<job, gates, slots, workerVars, released>>

Gate(r) == <<job[r].src, job[r].url>>

(* A source with one url has no gates. *)
Gated(s) == Cardinality(Routes[s]) > 1

AcquireRoute(r) ==
    /\ stage[r] = "gate"
    /\ IF Gated(job[r].src)
       THEN gates[Gate(r)] = Nobody /\ gates' = [gates EXCEPT ![Gate(r)] = r]
       ELSE UNCHANGED gates
    /\ Goto(r, "slot")
    /\ UNCHANGED <<job, slots, workerVars, released>>

Holding(r) == {g \in DOMAIN gates : gates[g] = r}
Freed_Kept(r) == gates
Freed(r) == [g \in DOMAIN gates |-> IF g \in Holding(r) THEN Nobody ELSE gates[g]]

(* The context ends while the request waits. *)
GivesUp(r) ==
    /\ stage[r] \in {"gate", "slot"}
    /\ gates' = Freed(r)
    /\ Goto(r, "idle")
    /\ job' = [job EXCEPT ![r] = NoTask]
    /\ UNCHANGED <<slots, workerVars, released>>

(* The deferred calls: the slot, then the gate *)
Release(r) ==
    /\ stage[r] = "ended"
    /\ slots' = slots - 1
    /\ gates' = Freed(r)
    /\ Goto(r, "idle")
    /\ job' = [job EXCEPT ![r] = NoTask]
    /\ UNCHANGED <<workerVars, released>>

-----------------------------------------------------------------------------
(* The worker metrics, each step under metricsMu *)

(* beginWorkerAt, or beginWorker: the first entry that is not busy, else 0 *)
Entry(r) ==
    LET free == {i \in Entries : ~metrics[i].busy}
    IN  IF job[r].kind = "fetch" THEN job[r].at
        ELSE IF free = {} THEN 0 ELSE CHOOSE i \in free : \A j \in free : i <= j

FreeSlot_OffByOne == slots <= Workers
FreeSlot == slots < Workers

(* acquire, and the worker begins *)
Acquire(r) ==
    /\ stage[r] = "slot" /\ FreeSlot
    /\ slots' = slots + 1
    /\ Goto(r, "sent")
    /\ IF job[r].kind = "sample"
       THEN UNCHANGED <<metrics, lease>>
       ELSE LET i == Entry(r)
                token == metrics[i].token + 1
            IN  /\ metrics' = [metrics EXCEPT ![i] =
                      [token |-> token, busy |-> TRUE, src |-> job[r].src, bytes |-> 0]]
                /\ lease' = [lease EXCEPT ![r] = [entry |-> i, token |-> token]]
    /\ UNCHANGED <<job, gates, read, released>>

Valid_Entry(r) == lease[r].entry < Workers
Valid(r) == lease[r].entry < Workers /\ metrics[lease[r].entry].token = lease[r].token

(* addWorkerBytes *)
Read(r) ==
    /\ stage[r] = "sent" /\ job[r].kind # "sample" /\ read[r] < MaxReads
    /\ read' = [read EXCEPT ![r] = @ + 1]
    /\ metrics' = IF Valid(r) THEN [metrics EXCEPT ![lease[r].entry].bytes = @ + 1] ELSE metrics
    /\ UNCHANGED <<stage, job, gates, slots, lease, released>>

(* endWorker: the answer is complete, wrong or late.  Like the code the    *)
(* entry goes on naming the source it served.                              *)
EndWorker(r) ==
    /\ stage[r] = "sent"
    /\ Goto(r, "ended")
    /\ metrics' = IF Valid(r) THEN [metrics EXCEPT ![lease[r].entry].busy = FALSE] ELSE metrics
    /\ lease' = [lease EXCEPT ![r] = NoLease]
    /\ read' = [read EXCEPT ![r] = 0]
    /\ UNCHANGED <<job, gates, slots, released>>

(* clearSourceMetrics, when the source is released *)
Cleared_Token(s, m) == IF m.src = s THEN Idle(0) ELSE m
Cleared(s, m) == IF m.src = s THEN Idle(m.token + 1) ELSE m

ReleaseSource(s) ==
    /\ s \notin released
    /\ released' = released \cup {s}
    /\ metrics' = [i \in Entries |-> Cleared(s, metrics[i])]
    /\ UNCHANGED <<stage, job, gates, slots, lease, read>>

-----------------------------------------------------------------------------
Ends(r) == EndWorker(r) /\ job[r].kind # "forward"

UpstreamNext ==
    \/ \E r \in Senders :
          \/ \E s \in Sources, u \in Urls, i \in Entries : Fetch(r, s, u, i)
          \/ \E s \in Sources : Ask(r, s, "sample") \/ Ask(r, s, "forward")
          \/ Probe(r) \/ ProbeEnds(r)
          \/ AcquireRoute(r) \/ Acquire(r) \/ GivesUp(r)
          \/ Read(r) \/ EndWorker(r) \/ Release(r)
    \/ \E s \in Sources : ReleaseSource(s)

UpstreamSpec == UpstreamInit /\ [][UpstreamNext]_upstreamVars

(* A blocked sender is served in turn; a download or a sample ends by its  *)
(* timeout, a forwarded request only when FFmpeg has read enough.          *)
UpstreamFairness ==
    \A r \in Senders :
        /\ SF_upstreamVars(AcquireRoute(r)) /\ SF_upstreamVars(Acquire(r))
        /\ WF_upstreamVars(Ends(r)) /\ WF_upstreamVars(Release(r))

UpstreamFairSpec == UpstreamSpec /\ UpstreamFairness

-----------------------------------------------------------------------------
(* Properties *)

(* An entry shows what its last request does, although requests share      *)
(* entries and the source of one is released meanwhile: it is busy exactly *)
(* while the request that holds its token runs, and counts that request's  *)
(* reads alone.                                                            *)
EntryExact ==
    \A i \in Entries :
        LET mine == {r \in Senders : lease[r] = [entry |-> i, token |-> metrics[i].token]}
        IN  /\ Cardinality(mine) <= 1
            /\ metrics[i].busy <=> mine # {}
            /\ \A r \in mine : metrics[i].bytes = read[r]

(* No slot and no gate is lost, whichever way a request ends. *)
NothingLost ==
    /\ slots = Cardinality({r \in Senders : stage[r] \in {"sent", "ended"}})
    /\ \A g \in DOMAIN gates : gates[g] # Nobody => stage[gates[g]] # "idle"

(* A request that waits for its gate, or with the gate for a slot, gets    *)
(* both or gives up: requests hold a gate while they wait for a slot and   *)
(* never the other way round.  Unless forwarded requests keep every slot.  *)
AllForwarded == Cardinality({r \in Senders : stage[r] = "sent" /\ job[r].kind = "forward"}) = Workers
Served == \A r \in Senders : stage[r] \in {"gate", "slot"} ~> stage[r] \notin {"gate", "slot"} \/ AllForwarded

(* There are at most as many upstream range requests as workers.           *)
RangeRequestsCapped == Cardinality({r \in Senders : stage[r] \in {"sent", "probing"}}) <= Workers

=============================================================================
