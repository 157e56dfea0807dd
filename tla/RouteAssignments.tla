-------------------------- MODULE RouteAssignments --------------------------
(***************************************************************************)
(* How the sources that are registered share the routes (internal/         *)
(* inputproxy/proxy.go: rebalanceLocked, routeAssignments,                 *)
(* streamRouteIndexes, routeAttempts).                                     *)
(*                                                                         *)
(* Several entrances are configured and downloads are parallel.  A source  *)
(* alone downloads over several routes; of several each is pinned          *)
(* to a place in the order of configuration, and a greedy assignment over  *)
(* all of them decides which route that is, as routes join and fail.       *)
(* Sources are numbered by src.order, urls by their place in src.urls,     *)
(* indexes into src.active and places count from 1.                        *)
(*                                                                         *)
(* A definition named D_X is D with a plausible bug in it.                 *)
(***************************************************************************)
EXTENDS Naturals, Sequences, FiniteSets

CONSTANTS
    Registrants,\* the sources, in the order of their registration
    Mirrors,    \* src.urls, of every source
    HostOf,     \* url -> its final host
    Places,     \* maxWorkers
    Loaders,    \* goroutines that download a range
    MaxTries,   \* chunkRetryAttempts
    MaxFailures \* bound on the downloads that fail

ASSUME AssignmentAssumption ==
    /\ Registrants \subseteq Nat \ {0} /\ Mirrors \subseteq Nat \ {0}
    /\ {Places, MaxTries} \subseteq Nat \ {0} /\ MaxFailures \in Nat

VARIABLES
    sources,    \* source -> "new", "in" (p.sources) or "gone"
    dedicated,  \* source -> the place it is pinned to, 0 for none
    routes,     \* source -> its routes, with those that failed
    download,   \* loader -> its download: routes left of this round of attempts
    pool,       \* source -> "probing" while routes are sought, "short" after a failure
    failures

shareVars == <<sources, dedicated, routes, download, pool, failures>>

NoDownload == [at |-> "idle", src |-> 0, preferred |-> 0, left |-> <<>>, try |-> 0]

AssignmentTypeOK ==
    /\ sources \in [Registrants -> {"new", "in", "gone"}]
    /\ dedicated \in [Registrants -> 0 .. Places]
    /\ routes \in [Registrants -> Seq([url : Mirrors, bad : BOOLEAN])]
    /\ DOMAIN download = Loaders
    /\ \A f \in Loaders :
          \/ download[f] = NoDownload
          \/ \E s \in Registrants :
                download[f] \in [at : {"round", "trying"}, src : {s}, preferred : DOMAIN routes[s],
                                left : Seq(DOMAIN routes[s]), try : 1 .. MaxTries]
    /\ pool \in [Registrants -> SUBSET {"probing", "short"}]
    /\ failures \in 0 .. MaxFailures

ShareInit ==
    /\ sources = [s \in Registrants |-> "new"]
    /\ dedicated = [s \in Registrants |-> 0]
    /\ routes = [s \in Registrants |-> <<>>]
    /\ download = [f \in Loaders |-> NoDownload]
    /\ pool = [s \in Registrants |-> {}]
    /\ failures = 0

-----------------------------------------------------------------------------
(* rebalanceLocked, in the critical section that adds or removes a source  *)

Rebalanced(in) ==
    [s \in Registrants |-> IF s \notin in THEN dedicated[s]
                       ELSE IF in = {s} THEN 0
                       ELSE (Cardinality({t \in in : t < s}) % Places) + 1]

In == {s \in Registrants : sources[s] = "in"}

Register(s) ==
    /\ sources[s] = "new"
    /\ sources' = [sources EXCEPT ![s] = "in"]
    /\ dedicated' = Rebalanced(In \cup {s})
    /\ pool' = [pool EXCEPT ![s] = {"probing"}]
    /\ UNCHANGED <<routes, download, failures>>

(* Its downloads end with it. *)
Withdraw(s) ==
    /\ sources[s] = "in"
    /\ sources' = [sources EXCEPT ![s] = "gone"]
    /\ dedicated' = Rebalanced(In \ {s})
    /\ download' = [f \in Loaders |-> IF download[f].src = s THEN NoDownload ELSE download[f]]
    /\ pool' = [pool EXCEPT ![s] = {}]
    /\ UNCHANGED <<routes, failures>>

-----------------------------------------------------------------------------
(* routeAssignments *)

Url(s, i) == routes[s][i].url
Key(s, i) == HostOf[Url(s, i)]
Working(s) == {i \in DOMAIN routes[s] : ~routes[s][i].bad}
HealthyIndexes(s) == IF Working(s) = {} THEN DOMAIN routes[s] ELSE Working(s)

Pinned == {s \in In : dedicated[s] # 0}
Own(s) == {i \in HealthyIndexes(s) : Url(s, i) = dedicated[s]}

(* reserved: of several sources that want a host the last one holds it.    *)
HeldByOther(s, k) ==
    LET wanting == {t \in Pinned : \E i \in Own(t) : Key(t, i) = k}
    IN  \E t \in wanting \ {s} : \A u \in wanting : u <= t

FirstOf(s, S) == CHOOSE i \in S : \A j \in S : Url(s, i) <= Url(s, j)

(* The route of a source when those before it use some hosts *)
Select_IgnoresPins(s, used) ==
    LET open == {i \in HealthyIndexes(s) : Key(s, i) \notin used}
    IN  FirstOf(s, IF open # {} THEN open ELSE HealthyIndexes(s))
Select_SkipsUsed(s, used) ==
    LET clear == {i \in HealthyIndexes(s) : ~HeldByOther(s, Key(s, i))}
    IN  FirstOf(s, IF Own(s) # {} THEN Own(s) ELSE IF clear # {} THEN clear ELSE HealthyIndexes(s))
Select(s, used) ==
    LET open == {i \in HealthyIndexes(s) : Key(s, i) \notin used}
        own == Own(s) \cap open
        clear == {i \in open : ~HeldByOther(s, Key(s, i))}
    IN  FirstOf(s, IF own # {} THEN own
                   ELSE IF clear # {} THEN clear
                   ELSE IF open # {} THEN open ELSE HealthyIndexes(s))

(* source -> index, for the pinned sources that have a route *)
Assignments ==
    LET able == {s \in Pinned : routes[s] # <<>>}
        chosen[s \in able] ==
            Select(s, {Key(t, chosen[t]) : t \in {u \in able : u < s}})
    IN  chosen

-----------------------------------------------------------------------------
(* Downloads *)

Ascending(S) == [k \in 1 .. Cardinality(S) |->
                    CHOOSE i \in S : Cardinality({j \in S : j < i}) = k - 1]

(* streamRouteIndexes: the routes a stream of the source is given *)
Lanes(s) ==
    IF dedicated[s] = 0
    THEN {i \in HealthyIndexes(s) : Cardinality({j \in HealthyIndexes(s) : j < i}) < Places}
    ELSE {Assignments[s]}

(* routeAttempts: the preferred route while it is healthy, else the        *)
(* others, those another source is assigned (by their index there) later   *)
AttemptOrder(s, preferred) ==
    LET reserved == {Assignments[t] : t \in DOMAIN Assignments \ {s}}
    IN  IF preferred \in Working(s) THEN <<preferred>>
        ELSE IF dedicated[s] = 0 THEN Append(Ascending(Working(s)), preferred)
        ELSE Ascending(Working(s) \ reserved) \o Ascending(Working(s) \cap reserved)
             \o Ascending(DOMAIN routes[s] \ Working(s))

Launch(f, s, i) ==
    /\ download[f].at = "idle" /\ sources[s] = "in" /\ i \in Lanes(s)
    /\ download' = [download EXCEPT ![f] =
           [at |-> "round", src |-> s, preferred |-> i, left |-> <<>>, try |-> 1]]
    /\ UNCHANGED <<sources, dedicated, routes, pool, failures>>

Round(f) ==
    /\ download[f].at = "round"
    /\ download' = [download EXCEPT ![f].at = "trying",
                                    ![f].left = AttemptOrder(download[f].src, download[f].preferred)]
    /\ UNCHANGED <<sources, dedicated, routes, pool, failures>>

(* recordRouteResult, and replenishRoutePool after an earlier failure *)
Succeeds(f) ==
    LET s == download[f].src
    IN  /\ download[f].at = "trying"
        /\ routes' = [routes EXCEPT ![s][Head(download[f].left)].bad = FALSE]
        /\ download' = [download EXCEPT ![f] = NoDownload]
        /\ pool' = [pool EXCEPT ![s] = IF "short" \in @ THEN {"probing"} ELSE @]
        /\ UNCHANGED <<sources, dedicated, failures>>

(* markRouteUnhealthy, then the next route, or another round *)
Fails(f) ==
    LET d == download[f]
        s == d.src
    IN  /\ d.at = "trying" /\ failures < MaxFailures
        /\ routes' = [routes EXCEPT ![s][Head(d.left)].bad = TRUE]
        /\ download' = [download EXCEPT ![f] =
               IF Tail(d.left) # <<>> THEN [d EXCEPT !.left = Tail(d.left)]
               ELSE IF d.try < MaxTries
               THEN [d EXCEPT !.at = "round", !.left = <<>>, !.try = d.try + 1]
               ELSE NoDownload]
        /\ pool' = [pool EXCEPT ![s] = @ \cup {"short"}]
        /\ failures' = failures + 1
        /\ UNCHANGED <<sources, dedicated>>

(* The client leaves. *)
Leaves(f) ==
    /\ download[f].at # "idle"
    /\ download' = [download EXCEPT ![f] = NoDownload]
    /\ UNCHANGED <<sources, dedicated, routes, pool, failures>>

(* replaceRoutes, or acceptRoute while routes are sought, until Places of  *)
(* them work: a new route or one that had failed, over a host that none of *)
(* the working ones has.  Routes join in the order they answer.            *)
Joins(s, u) ==
    /\ "probing" \in pool[s]
    /\ routes[s] = <<>> \/ Cardinality(Working(s)) \in 1 .. Places - 1
    /\ \A i \in Working(s) : Key(s, i) # HostOf[u]
    /\ pool' = [pool EXCEPT ![s] = IF Cardinality(Working(s)) = Places - 1 THEN @ \ {"probing"} ELSE @]

Accept(s, u) ==
    /\ Joins(s, u) /\ \A i \in DOMAIN routes[s] : Url(s, i) # u
    /\ routes' = [routes EXCEPT ![s] = Append(@, [url |-> u, bad |-> FALSE])]
    /\ UNCHANGED <<sources, dedicated, download, failures>>

Recover(s, i) ==
    /\ routes[s][i].bad /\ Joins(s, Url(s, i))
    /\ routes' = [routes EXCEPT ![s][i].bad = FALSE]
    /\ UNCHANGED <<sources, dedicated, download, failures>>

(* expandRoutes has no candidates left, or no time. *)
ProbingEnds(s) ==
    /\ "probing" \in pool[s]
    /\ pool' = [pool EXCEPT ![s] = @ \ {"probing"}]
    /\ UNCHANGED <<sources, dedicated, routes, download, failures>>

Ended == (\A s \in Registrants : sources[s] = "gone") /\ UNCHANGED shareVars

ShareNext ==
    \/ Ended
    \/ \E s \in Registrants :
          \/ Register(s) \/ Withdraw(s) \/ ProbingEnds(s)
          \/ \E u \in Mirrors : Accept(s, u)
          \/ \E i \in DOMAIN routes[s] : Recover(s, i)
    \/ \E f \in Loaders :
          \/ \E s \in Registrants : \E i \in DOMAIN routes[s] : Launch(f, s, i)
          \/ Round(f) \/ Succeeds(f) \/ Fails(f) \/ Leaves(f)

ShareSpec == ShareInit /\ [][ShareNext]_shareVars

-----------------------------------------------------------------------------
(* Properties *)

Shared(s, t) == Key(s, Assignments[s]) = Key(t, Assignments[t])

(* README: "With two sessions, the earlier session is pinned to the first  *)
(* healthy route and the second session to the next one."  Two sources are *)
(* given one host only if every route of the later one is on a host given  *)
(* to a source before it.                                                  *)
SharedOnlyWhenForced ==
    \A s, t \in DOMAIN Assignments :
        s < t /\ Shared(s, t) =>
            \A i \in HealthyIndexes(t) :
                \E r \in DOMAIN Assignments : r < t /\ Key(r, Assignments[r]) = Key(t, i)

(* A source gets the route of its place, if it works and no source before  *)
(* it has its host; and one whose own route failed does not take that of a *)
(* later source while another host is left.                                *)
PinsRespected ==
    \A t \in DOMAIN Assignments : \A own \in Own(t) :
        Assignments[t] # own =>
            \E s \in DOMAIN Assignments :
                /\ s < t /\ Key(s, Assignments[s]) = Key(t, own)
                /\ \/ Assignments[s] \in Own(s)
                   \/ \A i \in HealthyIndexes(s) :
                         \/ \E r \in DOMAIN Assignments : r < s /\ Key(r, Assignments[r]) = Key(s, i)
                         \/ \E r \in DOMAIN Assignments \ {s} : \E j \in Own(r) : Key(r, j) = Key(s, i)

(* What the greedy assignment promises over all sources *)
FairlyAssigned == SharedOnlyWhenForced /\ PinsRespected

(* README: "Repeated route failures advance to the next configured route"; *)
(* a test fails when "sessions crossed assigned routes".  A download whose *)
(* route failed is tried again on a host that is not assigned to another   *)
(* source, if the source has one that is healthy.                          *)
Theirs(s) == {Key(t, Assignments[t]) : t \in DOMAIN Assignments \ {s}}
RetriesApart ==
    [][\A f \in Loaders :
          LET s == download[f].src
          IN  Round(f) /\ s \in Pinned /\ download[f].preferred \notin Working(s)
                       /\ (\E i \in Working(s) : Key(s, i) \notin Theirs(s))
              => Key(s, Head(download'[f].left)) \notin Theirs(s)]_shareVars

=============================================================================
