---------------------------- MODULE StreamRanges ----------------------------
(***************************************************************************)
(* The range scheduler of the input proxy (internal/inputproxy/proxy.go,   *)
(* streamRanges) over the chunk cache of one source.                       *)
(*                                                                         *)
(* A stream asks for a run of chunks and writes them to FFmpeg in order.   *)
(* Its main loop gives every idle lane a chunk on the route the lane is    *)
(* bound to, hedges the oldest missing chunk on a second route, and pushes *)
(* a route that keeps losing hedges HedgeOffset chunks ahead.  Routes fail *)
(* and recover, and the source is pinned to one route while another        *)
(* session is registered.  Chunks and routes are numbered from 1.          *)
(*                                                                         *)
(* A definition named D_X is D with a plausible bug in it: it is used  *)
(* by no specification, only to see the properties fail.                   *)
(***************************************************************************)
EXTENDS ChunkCache, FiniteSetsExt

CONSTANTS
    RangeOf,        \* stream -> <<first chunk, last chunk>>
    Prefetch,       \* prefetchChunks, the read-ahead window
    HedgeOffset,    \* hedgeChunkOffset
    LossLimit,      \* hedgeLossThreshold
    MaxSources,     \* bound on the sources registered at once
    HasOrigins      \* several entrances are configured (p.origins)

First(s) == RangeOf[s][1]
Last(s) == RangeOf[s][2]

(* A request is not empty and lies in the file; it has a lane, and no more *)
(* than it asks for chunks ahead; lanes are numbered from 1.               *)
ASSUME RangeAssumption ==
    /\ IsFiniteSet(Chunks) /\ Chunks \subseteq Nat \ {0}
    /\ IsFiniteSet(Routes) /\ Routes \subseteq Nat \ {0} /\ Routes # {}
    /\ Prefetch \in Nat \ {0}
    /\ \A s \in Streams :
          /\ First(s) \in Nat /\ Last(s) \in Nat /\ First(s) <= Last(s)
          /\ First(s) .. Last(s) \subseteq Chunks
          /\ Cardinality(LanesOf[s]) \in 1 .. Prefetch
          /\ LanesOf[s] = 1 .. Cardinality(LanesOf[s])
    /\ HedgeOffset \in Nat \ {0}
    /\ LossLimit \in Nat \ {0}
    /\ MaxSources \in Nat \ {0}

VARIABLES
    nextWrite,  \* first chunk not yet written to the client
    pending,    \* chunks at hand but after a missing one
    active,     \* activeRoutes: chunk -> routes of the stream's tasks on it
    loss,       \* hedgeLoss per route, counted up to LossLimit
    healthy,    \* route -> fewer than two consecutive failures
    pinned      \* dedicated route of the source, 0 for none (-1 in the code)

streamVars == <<nextWrite, pending, active>>
routeVars == <<loss, healthy, pinned>>
allVars == <<vars, streamVars, routeVars>>

RangeTypeOK ==
    /\ TypeOK
    /\ nextWrite \in [Streams -> Nat]
    /\ pending \in [Streams -> SUBSET Chunks]
    /\ active \in [Streams -> [Chunks -> SUBSET Routes]]
    /\ loss \in [Routes -> 0 .. LossLimit]
    /\ healthy \in [Routes -> BOOLEAN]
    /\ pinned \in 0 .. 2

RangeInit ==
    /\ CacheInit
    /\ stream = [s \in Streams |-> "new"]
    /\ pc = [w \in Workers |-> "idle"]
    /\ job = [w \in Workers |-> NoJob]
    /\ held = [w \in Workers |-> 0]
    /\ res = [w \in Workers |-> "ok"]
    /\ nextWrite = [s \in Streams |-> First(s)]
    /\ pending = [s \in Streams |-> {}]
    /\ active = [s \in Streams |-> [c \in Chunks |-> {}]]
    /\ loss = [r \in Routes |-> 0]
    /\ healthy = [r \in Routes |-> TRUE]
    /\ pinned = 0

-----------------------------------------------------------------------------
(* Routes: healthyRouteIndexes, routeAssignments for this source, and      *)
(* streamRouteIndexes, the route each lane of the stream is bound to       *)

Nth(S, k) == CHOOSE r \in S : Cardinality({q \in S : q < r}) = k - 1

Usable == LET up == {r \in Routes : healthy[r]}
          IN  IF up = {} THEN Routes ELSE up

(* The other session is pinned to the other of routes 1 and 2: it is left  *)
(* alone while a third route is usable.                                    *)
Assigned ==
    LET free == Usable \ {3 - pinned}
    IN  IF pinned \in Usable THEN pinned
        ELSE Nth(IF free = {} THEN Usable ELSE free, 1)

LaneRoutes(s) ==
    IF pinned # 0 THEN [l \in {1} |-> Assigned]
    ELSE IF HasOrigins
    THEN [l \in {k \in LanesOf[s] : k <= Cardinality(Usable)} |-> Nth(Usable, l)]
    ELSE [l \in LanesOf[s] |-> Nth(Usable, ((l - 1) % Cardinality(Usable)) + 1)]

-----------------------------------------------------------------------------
(* schedule(): what the main loop launches, given its state after a result *)

Launch(l, c, r, h) == [lane |-> l, job |-> [chunk |-> c, route |-> r, hedge |-> h]]

(* One hedge of chunk n, by the first idle lane on a route not lossy and   *)
(* not trying it.                                                          *)
Hedges(s, n, idle, act, lossy) ==
    LET can == {l \in idle : LaneRoutes(s)[l] \notin lossy \cup act[n]}
    IN  IF n > Last(s) \/ act[n] = {} \/ can = {} THEN {}
        ELSE {Launch(Min(can), n, LaneRoutes(s)[Min(can)], TRUE)}

(* nextAvailable: the chunks of the read-ahead window from chunk `from` on  *)
(* that are neither at hand nor being fetched.                             *)
Window_Unbounded(s, n, from, pend, act) ==
    {c \in Chunks : /\ from <= c /\ c <= Last(s)
                    /\ c \notin pend
                    /\ act[c] = {}}

Window(s, n, from, pend, act) ==
    {c \in Chunks : /\ from <= c /\ c <= Last(s) /\ c < n + Prefetch
                    /\ c \notin pend
                    /\ act[c] = {}}

(* An idle lane takes the next chunk of its route that none before it took. *)
TakenBy(s, n, l, before, idle, pend, act, lossy) ==
    LET route == LaneRoutes(s)[l]
        from == IF route \in lossy THEN n + HedgeOffset ELSE n
        free == Window(s, n, from, pend, act) \ {x.job.chunk : x \in before}
    IN  IF l \notin idle \/ free = {} THEN {} ELSE {Launch(l, Min(free), route, FALSE)}

(* Otherwise every lane, in order, takes one. *)
Fetches(s, n, idle, pend, act, lossy) ==
    LET upTo[l \in 0 .. Cardinality(LanesOf[s])] ==
            IF l = 0 THEN {}
            ELSE upTo[l - 1] \cup TakenBy(s, n, l, upTo[l - 1], idle, pend, act, lossy)
    IN  upTo[Cardinality(LanesOf[s])]

Launches(s, n, idle, pend, act, lossy) ==
    LET lanes == idle \cap DOMAIN LaneRoutes(s)
        hedges == Hedges(s, n, lanes, act, lossy)
    IN  IF hedges # {} THEN hedges
        ELSE Fetches(s, n, lanes, pend, act, lossy)

IdleLanes(s) == {l \in LanesOf[s] : pc[<<s, l>>] = "idle"}

(* Hand the tasks of `todo` to their lanes; `freed` holds the worker whose  *)
(* result was just taken, if any.                                          *)
Apply(s, freed, act, todo) ==
    LET fresh == {<<s, x.lane>> : x \in todo}
        reset == fresh \cup freed
    IN  /\ active' = [active EXCEPT ![s] = [c \in Chunks |->
              act[c] \cup {x.job.route : x \in {y \in todo : y.job.chunk = c}}]]
        /\ pc' = [w \in Workers |-> IF w \in fresh THEN "enter"
                                    ELSE IF w \in reset THEN "idle" ELSE pc[w]]
        /\ job' = [w \in Workers |->
              IF w \in fresh THEN (CHOOSE x \in todo : x.lane = w[2]).job
              ELSE IF w \in reset THEN NoJob ELSE job[w]]
        /\ held' = [w \in Workers |-> IF w \in reset THEN 0 ELSE held[w]]
        /\ res' = [w \in Workers |-> IF w \in reset THEN "ok" ELSE res[w]]

LossyIn_FirstLoss(l) == {r \in Routes : l[r] > 0}
LossyIn(l) == {r \in Routes : l[r] >= LossLimit}

-----------------------------------------------------------------------------
(* streamRanges *)

Open(s) ==
    /\ stream[s] = "new"
    /\ stream' = [stream EXCEPT ![s] = "live"]
    /\ Apply(s, {}, active[s],
             Launches(s, First(s), LanesOf[s], {}, active[s], LossyIn(loss)))
    /\ UNCHANGED <<cacheVars, nextWrite, pending, routeVars>>

(* The main loop drops the lane's entry from activeRoutes. *)
ActiveWithout_WholeChunk(w) == [active[w[1]] EXCEPT ![job[w].chunk] = {}]
ActiveWithout(w) == [active[w[1]] EXCEPT ![job[w].chunk] = @ \ {job[w].route}]

(* recordHedgeResult *)
LossAfter(w) ==
    [loss EXCEPT ![job[w].route] =
        IF res[w] # "lost" THEN 0 ELSE IF @ < LossLimit THEN @ + 1 ELSE @]

PendingAfter(w) ==
    IF job[w].chunk < nextWrite[w[1]] THEN pending[w[1]]
    ELSE pending[w[1]] \cup {job[w].chunk}

(* copy pending chunks while the next one is at hand *)
NextMissing_Count(n, pend) == n + Cardinality(pend)
NextMissing(n, pend) == CHOOSE m \in n .. n + Cardinality(pend) :
                          m \notin pend /\ (n .. m - 1) \subseteq pend

(* An error other than a lost hedge is returned: the stream ends. *)
DeliverError(w) ==
    /\ pc[w] = "return" /\ Live(w) /\ res[w] \notin {"ok", "lost"}
    /\ stream' = [stream EXCEPT ![w[1]] = res[w]]
    /\ Apply(w[1], {w}, ActiveWithout(w), {})
    /\ UNCHANGED <<cacheVars, nextWrite, pending, routeVars>>

(* A result is taken: chunks are written in order, then schedule() runs.   *)
(* Copying a chunk fails once the cache is closed.                         *)
Deliver(w) ==
    LET s == w[1]
        arrived == PendingAfter(w)
        next == NextMissing(nextWrite[s], arrived)
    IN  /\ pc[w] = "return" /\ Live(w) /\ res[w] \in {"ok", "lost"}
        /\ loss' = LossAfter(w)
        /\ IF ~file /\ next > nextWrite[s]
           THEN /\ stream' = [stream EXCEPT ![s] = "closed"]
                /\ Apply(s, {w}, ActiveWithout(w), {})
                /\ UNCHANGED <<nextWrite, pending>>
           ELSE /\ stream' = IF next > Last(s) THEN [stream EXCEPT ![s] = "done"]
                             ELSE stream
                /\ nextWrite' = [nextWrite EXCEPT ![s] = next]
                /\ pending' = [pending EXCEPT ![s] = {c \in arrived : c >= next}]
                /\ Apply(s, {w}, ActiveWithout(w),
                         Launches(s, next, IdleLanes(s) \cup {w[2]},
                                  {c \in arrived : c >= next},
                                  ActiveWithout(w), LossyIn(LossAfter(w))))
        /\ UNCHANGED <<cacheVars, healthy, pinned>>

Drain_NoSelect(w) == FALSE

(* workerCtx is done: the goroutine exits without handing its result over. *)
Drain(w) ==
    /\ pc[w] = "return" /\ ~Live(w)
    /\ Apply(w[1], {w}, ActiveWithout(w), {})
    /\ UNCHANGED <<cacheVars, stream, nextWrite, pending, routeVars>>

-----------------------------------------------------------------------------
(* The source's surroundings *)

Leave(s) == ClientGone(s) /\ UNCHANGED <<streamVars, routeVars>>

Release == CloseCache /\ UNCHANGED <<streamVars, routeVars>>

(* A download that met an error on r marks it unhealthy (markRouteUnhealthy) *)
(* before it tries another route.                                          *)
RouteFails(r) ==
    /\ healthy[r]
    /\ \E w \in Workers : pc[w] = "download"
    /\ healthy' = [healthy EXCEPT ![r] = FALSE]
    /\ UNCHANGED <<vars, streamVars, loss, pinned>>

(* A success on r, or the pool accepting it again, resets its failures.    *)
RouteRecovers(r) ==
    /\ \E s \in Streams : stream[s] \in {"new", "live"}
    /\ ~healthy[r]
    /\ healthy' = [healthy EXCEPT ![r] = TRUE]
    /\ UNCHANGED <<vars, streamVars, loss, pinned>>

(* dedicated = index % 2; 0 stands for -1 *)
Rank(i) == (i % 2) + 1

(* rebalanceLocked: with n sources registered this one is the i-th; alone, *)
(* it is not pinned.  Of no consequence once no stream is left.            *)
Rebalance(n, i) ==
    /\ \E s \in Streams : stream[s] \in {"new", "live"}
    /\ pinned' = IF n = 1 THEN 0 ELSE Rank(i)
    /\ pinned' # pinned
    /\ UNCHANGED <<vars, streamVars, loss, healthy>>

StreamStep(w) == Deliver(w) \/ DeliverError(w) \/ Drain(w)
CacheStep(w) == WorkerStep(w) /\ UNCHANGED <<streamVars, routeVars>>

Ended ==
    /\ \A s \in Streams : stream[s] \notin {"new", "live"}
    /\ \A w \in Workers : pc[w] = "idle"
    /\ UNCHANGED allVars

(* One session, its routes answering: the undisturbed case. *)
SteadyNext ==
    \/ \E w \in Workers : CacheStep(w) \/ StreamStep(w)
    \/ \E s \in Streams : Open(s) \/ Leave(s)
    \/ Release
    \/ Ended

RangeNext ==
    \/ SteadyNext
    \/ \E r \in Routes : RouteFails(r) \/ RouteRecovers(r)
    \/ \E n \in 1 .. MaxSources : \E i \in 0 .. n - 1 : Rebalance(n, i)

RangeSpec == RangeInit /\ [][RangeNext]_allVars

SteadySpec ==
    /\ RangeInit /\ [][SteadyNext]_allVars
    /\ \A w \in Workers : WF_allVars(CacheStep(w) \/ StreamStep(w))

-----------------------------------------------------------------------------
(* Properties *)

Tasks(s, c) == {l \in LanesOf[s] : pc[<<s, l>>] # "idle" /\ job[<<s, l>>].chunk = c}

(* activeRoutes is exact: it holds the routes of the tasks the lanes are   *)
(* busy with, and no two lanes try one chunk on one route, although routes *)
(* move between lanes as they fail and recover.  A stale entry would keep  *)
(* a chunk from ever being fetched; a missing one would fetch it twice.    *)
LedgerExact ==
    /\ RangeTypeOK
    /\ \A s \in Streams, c \in Chunks :
          /\ active[s][c] = {job[<<s, l>>].route : l \in Tasks(s, c)}
          /\ \A k, l \in Tasks(s, c) :
                k # l => job[<<s, k>>].route # job[<<s, l>>].route

(* What was or will be copied to FFmpeg was downloaded before, and in      *)
(* order: the chunk the stream waits for is never among those at hand.     *)
OutputBacked ==
    \A s \in Streams :
        /\ (First(s) .. nextWrite[s] - 1) \cup pending[s] \subseteq onDisk
        /\ nextWrite[s] \notin pending[s]

(* README: download_buffer_mb bounds read-ahead.  Chunks fetched or at     *)
(* hand stay within the prefetch window of the oldest missing chunk.       *)
ReadAheadBounded ==
    \A s \in Streams : \A c \in Chunks :
        c \in pending[s] \/ active[s][c] # {} => c < nextWrite[s] + Prefetch

Starved(s) ==
    /\ stream[s] = "live"
    /\ \A l \in LanesOf[s] : pc[<<s, l>>] = "idle"

(* The scheduler gives up work for one reason only: every route it may use *)
(* at that moment has lost LossLimit hedges in a row.                      *)
StarvedOnly ==
    \A s \in Streams : Starved(s)' /\ ~Starved(s) =>
        \A l \in DOMAIN LaneRoutes(s)' : loss'[LaneRoutes(s)'[l]] >= LossLimit

StarvedOnlyWhenLossy == [][StarvedOnly]_allVars

(* README: "With two sessions, the earlier session is pinned to the first  *)
(* healthy route", "Repeated route failures advance to the next configured *)
(* route": a stream being read always has a download in flight.            *)
NeverStarved == \A s \in Streams : ~Starved(s)

(* README: "normal cancellations do not trigger failover": a client that   *)
(* leaves ends its own stream only; no other stream returns                *)
(* context.Canceled while its client is reading.                           *)
NoForeignCancel == \A s \in Streams : stream[s] # "canceled"

(* Undisturbed, every stream ends: all its chunks are written, or it fails *)
(* or is left.                                                             *)
StreamEnds == \A s \in Streams : stream[s] = "live" ~> stream[s] # "live"

(* Every worker goroutine of an ended stream exits (wg.Wait returns), even *)
(* when it waits on another stream's record.                               *)
WorkersExit ==
    \A w \in Workers : stream[w[1]] # "live" ~> pc[w] = "idle"

=============================================================================
