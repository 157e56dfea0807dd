--------------------------- MODULE RoutePoolProofs --------------------------
(***************************************************************************)
(* Proofs about RoutePool, for any entrances, requests, downloads and      *)
(* number of routes wanted: PoolInv is inductive; from it follow what the  *)
(* runs check of a source's routes.                                        *)
(***************************************************************************)
EXTENDS RoutePool, SequenceTheorems, FiniteSetTheorems, WellFoundedInduction, TLAPS

(* The parts of the state have their types. *)
Stages == {"idle", "found", "probing", "accelerated", "fallback", "error"}
Metas == [url : UrlSet \cup {None}, print : {"none", "head", "full"}, bytes : Contents \cup {"none"}]
Lines == [url : UrlSet, host : Hosts, bad : BOOLEAN]
Rounds == [next : Nat \ {0}, inFlight : SUBSET UrlSet, failed : BOOLEAN, refused : SUBSET UrlSet]
Downloads == [at : {"idle", "trying", "pause"}, left : Seq(Nat), preferred : Nat, try : Nat,
              own : BOOLEAN]
IsScan(sc) ==
    sc \in [at : {"off", "start", "receive", "sample", "accept"}, todo : {sc.todo},
            inFlight : {sc.inFlight}, hosts : SUBSET Hosts, url : UrlSet \cup {None},
            recover : Nat, first : Metas, want : Nat]

Known == meta # NoMeta
SourceTypes ==
    /\ mode \in {"parallel", "failover"}
    /\ \A u \in UrlSet : site[u].host \in Hosts /\ {site[u].head, site[u].bytes} \subseteq Contents
    /\ meta \in Metas /\ (Known => meta.url \in UrlSet)
    /\ unsupported \in BOOLEAN /\ cacheFile \in BOOLEAN /\ released \in BOOLEAN
    /\ active \in Seq(Lines)
    /\ focus \in UrlSet \cup {None}
RequestTypes ==
    /\ lock \in Requests \cup {None}
    /\ req \in [Requests -> Stages]
    /\ round \in Rounds
ScanTypes ==
    /\ DOMAIN scan = Scans /\ scan = [e \in Scans |-> scan[e]]
    /\ \A e \in Scans : IsScan(scan[e])
FetchTypes ==
    /\ need \in BOOLEAN /\ faults \in 0 .. MaxFaults
    /\ fetch \in [Fetchers -> Downloads]
PoolTypes == SourceTypes /\ RequestTypes /\ ScanTypes /\ FetchTypes

(* ValidatorsTruthful, of the world at hand *)
Truthful ==
    \A u, v \in UrlSet :
        /\ Merges(site[u], site[v]) => site[u].bytes = site[v].bytes
        /\ site[u].bytes = site[v].bytes => site[u].head = site[v].head

(* Who holds the lock is probing; what was launched and neither failed nor *)
(* is on its way was refused.                                              *)
RoundFits ==
    /\ \A r \in Requests : lock = r <=> req[r] = "probing"
    /\ lock # None =>
          /\ ~Known /\ ~unsupported /\ round.inFlight # {}
          /\ ~round.failed => \A i \in DOMAIN Urls :
                i < round.next => Urls[i] \in round.inFlight \cup round.refused

(* Goroutines and downloads come after the metadata; the first route is    *)
(* the one the metadata were probed on.                                    *)
MetaFirst ==
    /\ Known => active # <<>> /\ active[1].url = meta.url
    /\ ~Known => (\A e \in Scans : scan[e].at = "off") /\ (\A f \in Fetchers : fetch[f].at = "idle")

SameHead(u) == site[u].size = site[meta.url].size /\ site[u].head = site[meta.url].head
RoutesFit ==
    \A i \in DOMAIN active :
        /\ active[i].host = site[active[i].url].host
        /\ Known => SameHead(active[i].url)

(* Whoever matches the fingerprint has the head of the metadata's media.   *)
PrintFits ==
    /\ meta.print # "none" => Known
    /\ meta.print = "head" => meta.bytes = site[meta.url].head
    /\ meta.print = "full" =>
          \A u \in UrlSet : site[u].bytes = meta.bytes => site[u].head = site[meta.url].head

(* What a goroutine carries from one critical section to the next *)
ScanFits(sc) ==
    /\ sc.recover \in 0 .. Len(active) /\ (sc.at \notin {"sample", "accept"} => sc.recover = 0)
    /\ sc.at \in {"sample", "accept"} =>
          sc.url \in UrlSet /\ site[sc.url].size = site[meta.url].size
    /\ sc.at = "sample" =>
          /\ sc.first.url \in UrlSet /\ SameHead(sc.first.url)
          /\ sc.first.print # "none" => sc.first.print = meta.print /\ sc.first.bytes = meta.bytes
    /\ sc.at = "accept" => SameHead(sc.url)
ScansFit == \A e \in Scans : ScanFits(scan[e])

FetchFits(d) ==
    /\ \A k \in DOMAIN d.left : d.left[k] \in DOMAIN active
    /\ d.at = "trying" => d.left # <<>>
    /\ IF d.at = "idle" THEN d.left = <<>> ELSE d.preferred \in DOMAIN active
FetchesFit == \A f \in Fetchers : FetchFits(fetch[f])

(* A source of which no download failed *)
OneGoroutine == ~need /\ scan["replenish"].at = "off"
AllWork == \A i \in DOMAIN active : ~active[i].bad
Expanding(sc) ==
    /\ Len(active) < sc.want /\ sc.want <= PoolSize /\ sc.recover = 0
    /\ \A i \in DOMAIN active : active[i].host \in sc.hosts
    /\ sc.at \in {"sample", "accept"} => site[sc.url].host \notin sc.hosts
StandbyUsed == {1} \cup used
FirstFollowed ==
    mode = "failover" =>
        /\ Known => \E i \in StandbyUsed : i \in DOMAIN active /\ focus = active[i].url
        /\ \A f \in Fetchers :
              fetch[f].at = "trying" /\ ~fetch[f].own => \E i \in StandbyUsed : fetch[f].left = <<i>>
Undisturbed ==
    faults = 0 =>
        /\ OneGoroutine /\ AllWork /\ FirstFollowed
        /\ DistinctHosts /\ Len(active) <= PoolSize
        /\ scan["initial"].at # "off" => Expanding(scan["initial"])

(* What happened so far: while nothing but validators was compared, no     *)
(* route was taken by its head.                                            *)
PastFits ==
    /\ pinned \in BOOLEAN /\ byHead \subseteq UrlSet /\ used \subseteq DOMAIN active
    /\ ~Known => used = {}
    /\ meta.print = "none" => byHead = {}

(* A route that was not taken by its head has all bytes of the media, and  *)
(* so has the one a goroutine takes samples of for the first time.         *)
Whole(u) == u \notin byHead => site[u].bytes = site[meta.url].bytes
Carries(sc) ==
    /\ sc.at = "accept" => Whole(sc.url)
    /\ sc.at = "sample" /\ sc.first.print = "none" => site[sc.first.url].bytes = site[meta.url].bytes
MediaFits ==
    /\ Known => \A i \in DOMAIN active : Whole(active[i].url)
    /\ meta.print = "full" => meta.bytes = site[meta.url].bytes
    /\ \A e \in Scans : Carries(scan[e])

StateFits == MetaFirst /\ RoutesFit /\ PrintFits /\ ScansFit /\ FetchesFit
PoolInv ==
    /\ PoolTypes
    /\ Truthful
    /\ RoundFits
    /\ StateFits
    /\ Undisturbed
    /\ PastFits
    /\ MediaFits

-----------------------------------------------------------------------------
(* Numbers *)

LEMMA LeastOf ==
    ASSUME NEW S \in SUBSET Nat, S # {}
    PROVE  Least(S) \in S /\ \A j \in S : Least(S) <= j
<1>1. PICK i \in S : \A j \in S : ~ (<<j, i>> \in OpToRel(<, Nat))
  BY NatLessThanWellFounded, WFMin
<1>2. \A j \in S : <<j, i>> \in OpToRel(<, Nat) <=> j < i
  BY DEF OpToRel
<1>3. \A j \in S : i \in Nat /\ j \in Nat /\ (~ (j < i) => i <= j)
  OBVIOUS
<1>4. \E k \in S : \A j \in S : k <= j
  BY <1>1, <1>2, <1>3
<1> QED
  BY <1>4 DEF Least

(* Induction, for a set of numbers *)
LEMMA NatStep ==
    ASSUME NEW S, 0 \in S, \A n \in Nat : n \in S => n + 1 \in S
    PROVE  \A n \in Nat : n \in S
<1> DEFINE T == Nat \ S
<1>1. SUFFICES ASSUME T # {}
               PROVE  FALSE
  OBVIOUS
<1>2. Least(T) \in T /\ \A j \in T : Least(T) <= j
  BY <1>1, LeastOf
<1>3. Least(T) \in Nat \ {0}
  BY <1>2
<1>4. Least(T) - 1 \in Nat /\ ~(Least(T) <= Least(T) - 1)
  BY <1>3
<1>5. Least(T) - 1 \in S
  BY <1>2, <1>4
<1>6. Least(T) = (Least(T) - 1) + 1
  BY <1>3
<1> QED
  BY <1>2, <1>4, <1>5, <1>6

(* A set of k numbers has a first, a second, ... and a k-th.               *)
LEMMA Ranked ==
    ASSUME NEW S \in SUBSET Nat, IsFiniteSet(S), NEW k \in 1 .. Cardinality(S)
    PROVE  SetToAscending(S)[k] \in S
<1> DEFINE Below(r) == {q \in S : q < r}
           P == {m \in Nat : m < Cardinality(S) => \E r \in S : Cardinality(Below(r)) = m}
<1>0. Cardinality(S) \in Nat /\ k \in Nat
  BY FS_CardinalityType
<1>1. \A T \in SUBSET S : IsFiniteSet(T) /\ Cardinality(T) \in Nat
  BY FS_Subset, FS_CardinalityType
<1>2. 0 \in P
  <2>1. SUFFICES ASSUME 0 < Cardinality(S)
                 PROVE  \E r \in S : Cardinality(Below(r)) = 0
    OBVIOUS
  <2>2. S # {}
    BY <2>1, FS_EmptySet
  <2>3. Least(S) \in S /\ \A j \in S : Least(S) <= j
    BY <2>2, LeastOf
  <2>4. Below(Least(S)) = {}
    <3>1. \A q \in S : q \in Nat /\ Least(S) \in Nat /\ Least(S) <= q
      BY <2>3
    <3>2. \A q \in S : ~(q < Least(S))
      BY <3>1
    <3> QED
      BY <3>2
  <2> HIDE DEF Below
  <2> QED
    BY <2>3, <2>4, FS_EmptySet
<1>3. ASSUME NEW m \in Nat, m \in P
      PROVE  m + 1 \in P
  <2>1. SUFFICES ASSUME m + 1 < Cardinality(S)
                 PROVE  \E r \in S : Cardinality(Below(r)) = m + 1
    OBVIOUS
  <2>2. m < Cardinality(S)
    BY <1>0, <2>1
  <2>3. PICK r \in S : Cardinality(Below(r)) = m
    BY <1>3, <2>2
  <2> DEFINE T == Below(r) \cup {r}
             U == S \ T
  <2>4. Cardinality(T) = m + 1
    BY <1>1, <2>3, FS_AddElement
  <2>5. U # {}
    <3>1. U = {} => T = S
      BY <2>3
    <3> HIDE DEF T, U
    <3> QED
      BY <1>0, <2>1, <2>4, <3>1
  <2>6. Least(U) \in U /\ \A j \in U : Least(U) <= j
    BY <2>5, LeastOf
  <2>7. Below(Least(U)) = T
    <3>1. ASSUME NEW q \in S
          PROVE  q < Least(U) <=> q \in T
      <4>1. q \in Nat /\ r \in Nat /\ Least(U) \in Nat /\ Least(U) \in S /\ ~(Least(U) < r) /\ Least(U) # r
        BY <2>3, <2>6
      <4>2. CASE q \in T
        BY <4>1, <4>2
      <4>3. CASE q \notin T
        <5>1. Least(U) <= q
          BY <2>6, <4>3
        <5> QED
          BY <4>1, <4>3, <5>1
      <4> QED
        BY <4>2, <4>3
    <3>2. T \subseteq S
      BY <2>3
    <3> HIDE DEF T, U
    <3> QED
      BY <3>1, <3>2
  <2>8. Least(U) \in S
    BY <2>6
  <2> HIDE DEF T, U, Below
  <2> QED
    BY <2>4, <2>7, <2>8
<1>4. \A m \in Nat : m \in P
  <2> HIDE DEF P
  <2> QED
    BY <1>2, <1>3, NatStep
<1>5. k - 1 \in Nat /\ k - 1 < Cardinality(S)
  BY <1>0
<1>6. \E r \in S : Cardinality(Below(r)) = k - 1
  BY <1>4, <1>5
<1> QED
  BY <1>6 DEF SetToAscending

-----------------------------------------------------------------------------
(* The operators the steps are made of *)

LEMMA Given ==
    /\ Urls \in Seq(UrlSet) /\ Len(Urls) \in Nat \ {0} /\ DOMAIN Urls = 1 .. Len(Urls)
    /\ PoolSize \in Nat \ {0} /\ Batch \in Nat \ {0} /\ Batch <= PoolSize /\ Batch <= Len(Urls)
    /\ None \notin UrlSet /\ None \notin Requests
    /\ \A i \in DOMAIN Urls : Urls[i] \in UrlSet
BY RouteAssumption DEF Batch, UrlSet

LEMMA RouteType ==
    ASSUME PoolTypes
    PROVE  /\ active \in Seq(Lines) /\ Len(active) \in Nat /\ DOMAIN active = 1 .. Len(active)
           /\ \A i \in DOMAIN active :
                 /\ active[i] \in Lines /\ active[i].url \in UrlSet
                 /\ active[i].host \in Hosts /\ active[i].bad \in BOOLEAN
<1>1. active \in Seq(Lines)
  BY DEF PoolTypes, SourceTypes
<1>2. \A i \in DOMAIN active : active[i] \in Lines
  BY <1>1
<1> QED
  BY <1>1, <1>2 DEF Lines

LEMMA BlankTypes == NoMeta \in Metas /\ NoRound \in Rounds /\ NoFetch \in Downloads /\ IsScan(NoScan)
<1>1. NoMeta \in Metas
  BY DEF NoMeta, Metas
<1>2. NoRound \in Rounds
  BY DEF NoRound, Rounds
<1>3. NoFetch \in Downloads
  BY DEF NoFetch, Downloads
<1>4. IsScan(NoScan)
  BY <1>1 DEF NoScan, Scanning, IsScan
<1> QED
  BY <1>1, <1>2, <1>3, <1>4

(* launchMore ends the goroutine or waits for the next probe. *)
Waits(o, sc) ==
    /\ o.at = "receive" /\ o.want = sc.want /\ o.hosts = sc.hosts
    /\ o.recover = 0 /\ o.url = None /\ o.first = NoMeta
LEMMA OnwardFits ==
    ASSUME NEW sc, NEW routes, sc.want \in Nat, sc.hosts \in SUBSET Hosts
    PROVE  /\ IsScan(Onward(sc, routes))
           /\ Onward(sc, routes) = NoScan \/ Waits(Onward(sc, routes), sc)
<1>1. PICK flying, todo :
          Onward(sc, routes) \in {NoScan, Scanning("receive", todo, flying, sc.hosts, sc.want)}
  BY DEF Onward
<1>2. \A flying2, todo2 :
          LET o == Scanning("receive", todo2, flying2, sc.hosts, sc.want)
          IN  IsScan(o) /\ Waits(o, sc)
  BY BlankTypes DEF Scanning, IsScan, Waits
<1> QED
  BY <1>1, <1>2, BlankTypes

LEMMA LeastHealthy ==
    ASSUME PoolTypes, Healthy # {}
    PROVE  /\ Least(Healthy) \in DOMAIN active
           /\ ~active[Least(Healthy)].bad
           /\ 1 \in Healthy => Least(Healthy) = 1
<1>1. DOMAIN active = 1 .. Len(active) /\ Len(active) \in Nat
  BY RouteType
<1>2. Healthy \in SUBSET DOMAIN active /\ \A i \in Healthy : ~active[i].bad
  BY DEF Healthy, HealthyIn
<1>3. Healthy \in SUBSET Nat
  BY <1>1, <1>2
<1>4. Least(Healthy) \in Healthy /\ \A j \in Healthy : Least(Healthy) <= j
  BY <1>3, LeastOf
<1> QED
  BY <1>1, <1>2, <1>4

LEMMA FailedIndexFits ==
    ASSUME PoolTypes, NEW u
    PROVE  /\ FailedIndex(u) \in 0 .. Len(active)
           /\ AllWork => FailedIndex(u) = 0
<1> DEFINE failed == {i \in DOMAIN active : active[i].url = u /\ active[i].bad}
<1>1. DOMAIN active = 1 .. Len(active) /\ Len(active) \in Nat
  BY RouteType
<1>2. failed \in SUBSET Nat /\ (AllWork => failed = {})
  BY <1>1 DEF AllWork
<1>3. failed # {} => Least(failed) \in failed
  BY <1>2, LeastOf
<1>4. failed # {} => Least(failed) \in 1 .. Len(active)
  BY <1>1, <1>3
<1> QED
  BY <1>1, <1>2, <1>4 DEF FailedIndex

LEMMA RouteChanged ==
    ASSUME active \in Seq(Lines), NEW i \in DOMAIN active, NEW line \in Lines
    PROVE  LET changed == [active EXCEPT ![i] = line]
           IN  changed \in Seq(Lines) /\ Len(changed) = Len(active) /\ DOMAIN changed = DOMAIN active
<1> DEFINE changed == [active EXCEPT ![i] = line]
<1>1. Len(active) \in Nat /\ DOMAIN active = 1 .. Len(active)
      /\ \A j \in 1 .. Len(active) : active[j] \in Lines
  OBVIOUS
<1>2. changed = [j \in 1 .. Len(active) |-> IF j = i THEN line ELSE active[j]]
  BY <1>1
<1>3. \A j \in 1 .. Len(active) : changed[j] \in Lines
  BY <1>1, <1>2
<1>4. changed \in [1 .. Len(active) -> Lines] /\ DOMAIN changed = DOMAIN active
  BY <1>1, <1>2, <1>3
<1> HIDE DEF changed
<1>5. changed \in Seq(Lines)
  BY <1>1, <1>4, SeqDef
<1>6. 1 .. Len(changed) = 1 .. Len(active) /\ Len(changed) \in Nat
  BY <1>1, <1>4, <1>5, LenProperties
<1> QED
  BY <1>1, <1>4, <1>5, <1>6 DEF changed

(* acceptRoute keeps the routes there are and their places. *)
LEMMA AcceptedFits ==
    ASSUME PoolTypes, NEW u \in UrlSet, NEW i \in Nat
    PROVE  /\ Accepted(u, i) \in Seq(Lines)
           /\ Len(active) <= Len(Accepted(u, i))
           /\ \A j \in DOMAIN active : Accepted(u, i)[j].url = active[j].url
           /\ \A j \in DOMAIN Accepted(u, i) :
                 Accepted(u, i)[j] = Route(u) \/ (j \in DOMAIN active /\ Accepted(u, i)[j] = active[j])
           /\ i = 0 => Accepted(u, i) = Append(active, Route(u))
<1>1. active \in Seq(Lines) /\ DOMAIN active = 1 .. Len(active) /\ Len(active) \in Nat
  BY RouteType
<1>2. Route(u) \in Lines /\ Route(u).url = u
  BY DEF Route, Lines, PoolTypes, SourceTypes
<1>3. CASE i \in DOMAIN active /\ active[i].url = u
  <2>1. Accepted(u, i) = [active EXCEPT ![i] = Route(u)]
    BY <1>3 DEF Accepted
  <2>2. DOMAIN Accepted(u, i) = DOMAIN active /\ Len(Accepted(u, i)) = Len(active)
        /\ Accepted(u, i) \in Seq(Lines)
    <3>1. active \in Seq(Lines) /\ i \in DOMAIN active /\ Route(u) \in Lines
      BY <1>1, <1>2, <1>3
    <3> HIDE DEF Lines, Route
    <3> QED
      BY <2>1, <3>1, RouteChanged
  <2>3. \A j \in DOMAIN active : Accepted(u, i)[j] = IF j = i THEN Route(u) ELSE active[j]
    BY <2>1
  <2>4. Accepted(u, i)[i].url = active[i].url
    BY <1>2, <1>3, <2>3
  <2>5. i # 0
    BY <1>1, <1>3
  <2>6. \A j \in DOMAIN active : Accepted(u, i)[j].url = active[j].url
    BY <2>3, <2>4
  <2>7. \A j \in DOMAIN Accepted(u, i) :
            Accepted(u, i)[j] = Route(u) \/ (j \in DOMAIN active /\ Accepted(u, i)[j] = active[j])
    BY <2>2, <2>3
  <2>8. Len(active) <= Len(Accepted(u, i))
    BY <1>1, <2>2
  <2> HIDE DEF Route, Lines
  <2> QED
    BY <2>2, <2>5, <2>6, <2>7, <2>8
<1>4. CASE ~(i \in DOMAIN active /\ active[i].url = u)
  <2>1. Accepted(u, i) = Append(active, Route(u))
    BY <1>4 DEF Accepted
  <2>2. Append(active, Route(u)) \in Seq(Lines) /\ Len(Append(active, Route(u))) = Len(active) + 1
        /\ \A j \in 1 .. Len(active) : Append(active, Route(u))[j] = active[j]
        /\ Append(active, Route(u))[Len(active) + 1] = Route(u)
    BY <1>1, <1>2, AppendProperties
  <2>3. \A j \in DOMAIN Append(active, Route(u)) : j \in DOMAIN active \/ j = Len(active) + 1
    BY <1>1, <2>2
  <2> QED
    BY <1>1, <2>1, <2>2, <2>3
<1>5. i = 0 => i \notin DOMAIN active
  BY <1>1
<1> QED
  BY <1>3, <1>4, <1>5 DEF Accepted

LEMMA FocusFits ==
    ASSUME PoolTypes, active # <<>>
    PROVE  FocusIndex \in DOMAIN active
<1> DEFINE focused == {i \in Healthy : active[i].url = focus}
<1>1. DOMAIN active = 1 .. Len(active) /\ Len(active) \in Nat \ {0} /\ 1 \in DOMAIN active
  BY RouteType
<1>2. focused \in SUBSET DOMAIN active
  BY DEF Healthy, HealthyIn
<1>3. focused # {} => Least(focused) \in focused
  BY <1>1, <1>2, LeastOf
<1>4. FocusIndex = IF focused # {} THEN Least(focused) ELSE IF Healthy # {} THEN Least(Healthy) ELSE 1
  BY DEF FocusIndex
<1> HIDE DEF focused
<1> QED
  BY <1>1, <1>2, <1>3, <1>4, LeastHealthy

(* The focus is one route's as long as every host is used once.            *)
LEMMA FocusFound ==
    ASSUME PoolTypes, RoutesFit, AllWork, DistinctHosts, NEW i \in DOMAIN active, focus = active[i].url
    PROVE  FocusIndex = i /\ Healthy # {}
<1> DEFINE focused == {j \in Healthy : active[j].url = focus}
<1>1. DOMAIN active = 1 .. Len(active) /\ Len(active) \in Nat
  BY RouteType
<1>2. i \in focused
  BY DEF AllWork, Healthy, HealthyIn
<1>3. focused = {i}
  BY <1>2 DEF RoutesFit, DistinctHosts, Healthy, HealthyIn
<1>4. Least(focused) \in focused
  BY <1>1, <1>2, LeastOf DEF Healthy, HealthyIn
<1>5. FocusIndex = Least(focused) /\ Healthy # {}
  BY <1>2 DEF FocusIndex
<1> QED
  BY <1>3, <1>4, <1>5

LEMMA AscendingFits ==
    ASSUME PoolTypes, NEW S \in SUBSET DOMAIN active
    PROVE  SetToAscending(S) \in Seq(DOMAIN active) /\ (S # {} => SetToAscending(S) # <<>>)
<1>1. DOMAIN active = 1 .. Len(active) /\ Len(active) \in Nat
  BY RouteType
<1>2. IsFiniteSet(1 .. Len(active))
  BY <1>1, FS_Interval
<1>3. S \in SUBSET Nat /\ IsFiniteSet(S)
  BY <1>1, <1>2, FS_Subset
<1>4. Cardinality(S) \in Nat /\ (S # {} => Cardinality(S) # 0)
  BY <1>3, FS_CardinalityType, FS_EmptySet
<1>5. \A k \in 1 .. Cardinality(S) : SetToAscending(S)[k] \in S
  BY <1>3, Ranked
<1>6. SetToAscending(S) = [k \in 1 .. Cardinality(S) |-> SetToAscending(S)[k]]
  <2> DEFINE Pick(k) == CHOOSE i \in S : Cardinality({j \in S : j < i}) = k - 1
  <2>1. SetToAscending(S) = [k \in 1 .. Cardinality(S) |-> Pick(k)]
    BY DEF SetToAscending
  <2> HIDE DEF Pick
  <2> QED
    BY <2>1
<1>7. SetToAscending(S) \in Seq(DOMAIN active) /\ DOMAIN SetToAscending(S) = 1 .. Cardinality(S)
  BY <1>4, <1>5, <1>6
<1>8. S # {} => DOMAIN SetToAscending(S) # {}
  <2>1. ASSUME NEW n \in Nat, n # 0
        PROVE  1 .. n # {}
    <3>1. 1 \in 1 .. n
      BY <2>1
    <3> QED
      BY <3>1
  <2> QED
    BY <1>4, <1>7, <2>1
<1>9. DOMAIN <<>> = {}
  OBVIOUS
<1> QED
  BY <1>7, <1>8, <1>9

(* routeAttempts gives every download a route, and only such as there are. *)
LEMMA AttemptsFit ==
    ASSUME PoolTypes, NEW p \in DOMAIN active, NEW taken \in SUBSET DOMAIN active
    PROVE  /\ RouteAttempts(p, taken) \in Seq(DOMAIN active) /\ RouteAttempts(p, taken) # <<>>
           /\ ~active[p].bad => RouteAttempts(p, taken) = <<p>>
<1> DEFINE free == SetToAscending(Healthy \ taken)
           shared == SetToAscending(Healthy \cap taken)
           failed == SetToAscending(DOMAIN active \ Healthy)
<1>1. Healthy \in SUBSET DOMAIN active
  BY DEF Healthy, HealthyIn
<1>2. SetToAscending(Healthy) \in Seq(DOMAIN active)
  BY <1>1, AscendingFits
<1>3. Append(SetToAscending(Healthy), p) \in Seq(DOMAIN active) /\ Append(SetToAscending(Healthy), p) # <<>>
  BY <1>2
<1>4. <<p>> \in Seq(DOMAIN active) /\ <<p>> # <<>>
  OBVIOUS
<1>5. free \in Seq(DOMAIN active) /\ shared \in Seq(DOMAIN active) /\ failed \in Seq(DOMAIN active)
  BY <1>1, AscendingFits
<1>6. active[p].bad => failed # <<>>
  <2>1. active[p].bad => p \in DOMAIN active \ Healthy
    BY DEF Healthy, HealthyIn
  <2> QED
    BY <2>1, AscendingFits
<1> HIDE DEF free, shared, failed
<1>7. free \o shared \o failed \in Seq(DOMAIN active) /\ (failed # <<>> => free \o shared \o failed # <<>>)
  BY <1>5
<1>8. RouteAttempts(p, taken) = IF ~active[p].bad THEN <<p>>
                               ELSE IF ~pinned THEN Append(SetToAscending(Healthy), p)
                               ELSE free \o shared \o failed
  BY DEF RouteAttempts, free, shared, failed
<1>9. active[p].bad \in BOOLEAN
  BY RouteType
<1> QED
  BY <1>3, <1>4, <1>6, <1>7, <1>8, <1>9

-----------------------------------------------------------------------------
(* How the steps write the state *)

LEMMA ScanChanged ==
    ASSUME PoolTypes, NEW e \in Scans, NEW sc, IsScan(sc), scan' = [scan EXCEPT ![e] = sc]
    PROVE  /\ DOMAIN scan' = Scans /\ scan' = [x \in Scans |-> scan'[x]]
           /\ \A x \in Scans : IsScan(scan'[x])
           /\ scan'[e] = sc /\ \A x \in Scans \ {e} : scan'[x] = scan[x]
<1>1. DOMAIN scan = Scans /\ scan = [x \in Scans |-> scan[x]] /\ \A x \in Scans : IsScan(scan[x])
  BY DEF PoolTypes, ScanTypes
<1>2. \A x \in Scans : scan'[x] = IF x = e THEN sc ELSE scan[x]
  BY <1>1
<1>3. DOMAIN scan' = Scans /\ scan' = [x \in Scans |-> scan'[x]]
  BY <1>1
<1> QED
  BY <1>1, <1>2, <1>3

LEMMA FetchChanged ==
    ASSUME PoolTypes, NEW f \in Fetchers, NEW d \in Downloads, fetch' = [fetch EXCEPT ![f] = d]
    PROVE  /\ fetch' \in [Fetchers -> Downloads]
           /\ fetch'[f] = d /\ \A g \in Fetchers \ {f} : fetch'[g] = fetch[g]
BY DEF PoolTypes, FetchTypes

LEMMA WithoutFits ==
    ASSUME PoolTypes, NEW u \in UrlSet
    PROVE  /\ Without(u) \in Rounds
           /\ Without(u).failed = round.failed /\ Without(u).refused = round.refused
           /\ IF round.next <= Len(Urls)
              THEN /\ Without(u).next = round.next + 1
                   /\ Without(u).inFlight = (round.inFlight \ {u}) \cup {Urls[round.next]}
              ELSE /\ Without(u).next = round.next
                   /\ Without(u).inFlight = round.inFlight \ {u}
<1>1. round \in Rounds
  BY DEF PoolTypes, RequestTypes
<1>2. round.next <= Len(Urls) => Urls[round.next] \in UrlSet
  BY <1>1, Given DEF Rounds
<1> DEFINE fly == (round.inFlight \ {u}) \cup IF round.next <= Len(Urls) THEN {Urls[round.next]} ELSE {}
           nx == IF round.next <= Len(Urls) THEN round.next + 1 ELSE round.next
<1>3. Without(u) = [round EXCEPT !.inFlight = fly, !.next = nx]
  BY DEF Without
<1>4. fly \in SUBSET UrlSet /\ nx \in Nat \ {0}
  BY <1>1, <1>2 DEF Rounds
<1> HIDE DEF fly, nx
<1>5. /\ Without(u) \in Rounds
      /\ Without(u).failed = round.failed /\ Without(u).refused = round.refused
      /\ Without(u).next = nx /\ Without(u).inFlight = fly
  BY <1>1, <1>3, <1>4 DEF Rounds
<1> QED
  BY <1>5 DEF fly, nx

(* The goroutine's state after adoptRoute has compared the headers *)
LEMMA ReceivedFits ==
    ASSUME PoolTypes, NEW e \in Scans, NEW u \in UrlSet
    PROVE  LET sc == [Landed(e, u) EXCEPT !.url = u, !.recover = FailedIndex(u)]
           IN  /\ IsScan(Landed(e, u)) /\ IsScan(sc)
               /\ \A l \in {Landed(e, u), sc} :
                     l.at = scan[e].at /\ l.want = scan[e].want /\ l.hosts = scan[e].hosts
               /\ Landed(e, u).recover = scan[e].recover
               /\ sc.url = u /\ sc.recover = FailedIndex(u)
<1> DEFINE sc == [Landed(e, u) EXCEPT !.url = u, !.recover = FailedIndex(u)]
<1>1. IsScan(scan[e])
  BY DEF PoolTypes, ScanTypes
<1>2. IsScan(Landed(e, u)) /\ Landed(e, u).at = scan[e].at /\ Landed(e, u).want = scan[e].want
      /\ Landed(e, u).hosts = scan[e].hosts /\ Landed(e, u).recover = scan[e].recover
  BY <1>1 DEF Landed, IsScan
<1>3. FailedIndex(u) \in Nat
  BY FailedIndexFits, RouteType
<1>4. IsScan(sc) /\ sc.at = scan[e].at /\ sc.want = scan[e].want /\ sc.hosts = scan[e].hosts
      /\ sc.url = u /\ sc.recover = FailedIndex(u)
  BY <1>2, <1>3 DEF IsScan
<1> QED
  BY <1>2, <1>4

LEMMA RefillFits ==
    ASSUME PoolTypes
    PROVE  IsScan(Refill) /\ Refill.want = PoolSize
<1>1. \A i \in Healthy : active[i].host \in Hosts
  BY RouteType DEF Healthy, HealthyIn
<1>2. {active[i].host : i \in Healthy} \in SUBSET Hosts
  BY <1>1
<1>3. \A todo, hosts : hosts \in SUBSET Hosts =>
          LET sc == Scanning("start", todo, {}, hosts, PoolSize) IN IsScan(sc) /\ sc.want = PoolSize
  BY Given, BlankTypes DEF Scanning, IsScan
<1> QED
  BY <1>2, <1>3 DEF Refill

-----------------------------------------------------------------------------
(* Types *)

LEMMA RequestsTyped ==
    ASSUME PoolTypes, NEW r \in Requests, Lookup(r) \/ Enter(r) \/ ProbeExpires(r) \/ Leave(r)
    PROVE  PoolTypes'
<1>1. UNCHANGED <<mode, site, sourceVars, scan, fetchVars>>
  BY DEF Lookup, Enter, ProbeExpires, Leave, Answer
<1>2. SourceTypes' /\ ScanTypes' /\ FetchTypes'
  BY <1>1 DEF PoolTypes, SourceTypes, ScanTypes, FetchTypes, sourceVars, fetchVars, Known
<1>3. lock \in Requests \cup {None} /\ req \in [Requests -> Stages] /\ round \in Rounds
  BY DEF PoolTypes, RequestTypes
<1>4. [NoRound EXCEPT !.next = Batch + 1, !.inFlight = {Urls[i] : i \in 1 .. Batch}] \in Rounds
  <2>1. {Urls[i] : i \in 1 .. Batch} \subseteq UrlSet /\ Batch + 1 \in Nat \ {0}
    BY Given
  <2> QED
    BY <2>1 DEF NoRound, Rounds
<1>5. lock' \in Requests \cup {None} /\ req' \in [Requests -> Stages] /\ round' \in Rounds
  <2>1. CASE Lookup(r) \/ Leave(r)
    BY <1>3, <2>1 DEF Lookup, Leave, Stages
  <2>2. CASE Enter(r)
    BY <1>3, <1>4, <2>2 DEF Enter, Stages
  <2>3. CASE ProbeExpires(r)
    BY <1>3, <2>3, BlankTypes DEF ProbeExpires, Answer, Stages
  <2> QED
    BY <2>1, <2>2, <2>3
<1> QED
  BY <1>2, <1>5 DEF PoolTypes, RequestTypes

LEMMA ProbesTyped ==
    ASSUME PoolTypes, NEW r \in Requests, NEW u \in UrlSet, ProbeFails(r, u) \/ ProbeRefused(r, u)
    PROVE  PoolTypes'
<1>1. UNCHANGED <<mode, site, meta, active, focus, cacheFile, released, scan, fetchVars>>
      /\ unsupported' \in BOOLEAN
  BY DEF ProbeFails, ProbeRefused, EndsUnaccepted, Answer, GivesUp
<1>2. SourceTypes' /\ ScanTypes' /\ FetchTypes'
  BY <1>1 DEF PoolTypes, SourceTypes, ScanTypes, FetchTypes, fetchVars, Known
<1>3. lock \in Requests \cup {None} /\ req \in [Requests -> Stages]
  BY DEF PoolTypes, RequestTypes
<1>4. PICK left : EndsUnaccepted(r, left)
                  /\ \/ left = [Without(u) EXCEPT !.failed = TRUE]
                     \/ left = [Without(u) EXCEPT !.refused = @ \cup {u}]
  <2>1. CASE ProbeFails(r, u)
    BY <2>1 DEF ProbeFails
  <2>2. CASE ProbeRefused(r, u)
    BY <2>2 DEF ProbeRefused
  <2> QED
    BY <2>1, <2>2
<1>5. left \in Rounds
  <2>1. \A w \in Rounds : /\ [w EXCEPT !.failed = TRUE] \in Rounds
                          /\ [w EXCEPT !.refused = w.refused \cup {u}] \in Rounds
    BY DEF Rounds
  <2> QED
    BY <1>4, <2>1, WithoutFits
<1>6. lock' \in Requests \cup {None} /\ req' \in [Requests -> Stages] /\ round' \in Rounds
  BY <1>3, <1>4, <1>5, BlankTypes DEF EndsUnaccepted, Answer, Stages
<1> QED
  BY <1>2, <1>6 DEF PoolTypes, RequestTypes

LEMMA AcceptanceTyped ==
    ASSUME PoolTypes, NEW r \in Requests, NEW u \in UrlSet, ProbeAccepted(r, u)
    PROVE  PoolTypes'
<1>1. UNCHANGED <<mode, site, unsupported, released, fetchVars>>
  BY DEF ProbeAccepted
<1>2. FetchTypes'
  BY <1>1 DEF PoolTypes, FetchTypes, fetchVars
<1>3. lock' \in Requests \cup {None} /\ req' \in [Requests -> Stages] /\ round' \in Rounds
  BY BlankTypes DEF ProbeAccepted, Answer, Stages, PoolTypes, RequestTypes
<1>4. SourceTypes'
  <2>1. Route(u) \in Lines
    BY DEF Route, Lines, PoolTypes, SourceTypes
  <2>2. active' \in Seq(Lines) /\ focus' \in UrlSet \cup {None} /\ cacheFile' \in BOOLEAN
    BY <2>1 DEF ProbeAccepted, PoolTypes, SourceTypes
  <2>3. [NoMeta EXCEPT !.url = u] \in Metas /\ [NoMeta EXCEPT !.url = u].url = u
    BY DEF NoMeta, Metas
  <2>4. meta' = meta \/ meta' = [NoMeta EXCEPT !.url = u]
    BY DEF ProbeAccepted
  <2>5. meta' \in Metas /\ (Known' => meta'.url \in UrlSet)
    BY <2>3, <2>4 DEF Known, PoolTypes, SourceTypes
  <2> QED
    BY <1>1, <2>2, <2>5 DEF PoolTypes, SourceTypes
<1>5. ScanTypes'
  <2>1. CASE scan' = scan
    BY <2>1 DEF PoolTypes, ScanTypes
  <2>2. CASE scan' # scan
    <3> DEFINE todo == Remaining(u, {Urls[i] : i \in 1 .. round.next - 1})
               sc == Scanning("start", todo, {}, {site[u].host}, Batch)
    <3>1. scan' = [scan EXCEPT !["initial"] = sc] /\ "initial" \in Scans
      BY <2>2 DEF ProbeAccepted, Scans
    <3>2. site[u].host \in Hosts
      BY DEF PoolTypes, SourceTypes
    <3>3. \A any : IsScan(Scanning("start", any, {}, {site[u].host}, Batch))
      BY <3>2, Given, BlankTypes DEF Scanning, IsScan
    <3>4. IsScan(sc)
      BY <3>3
    <3> HIDE DEF sc
    <3> QED
      BY <3>1, <3>4, ScanChanged DEF ScanTypes
  <2> QED
    BY <2>1, <2>2
<1> QED
  BY <1>2, <1>3, <1>4, <1>5 DEF PoolTypes, RequestTypes

(* A goroutine in expandRoutes goes on with sc. *)
LEMMA GoroutinesTyped ==
    ASSUME PoolTypes, NEW e \in Scans, NEW sc, IsScan(sc), scan' = [scan EXCEPT ![e] = sc],
           UNCHANGED <<mode, site, unsupported, focus, cacheFile, released, requestVars, fetchVars>>,
           meta' \in Metas, Known' => meta'.url \in UrlSet, active' \in Seq(Lines)
    PROVE  PoolTypes'
<1>1. ScanTypes'
  BY ScanChanged DEF ScanTypes
<1> QED
  BY <1>1 DEF PoolTypes, SourceTypes, RequestTypes, FetchTypes, requestVars, fetchVars, Known

LEMMA PrintsFit ==
    ASSUME PoolTypes, NEW first \in Metas, first.url \in UrlSet, NEW fp \in Prints(first)
    PROVE  /\ fp \in Metas /\ fp.url = first.url /\ fp.print # "none"
           /\ first.print # "none" => fp = first
           /\ first.print = "none" => fp.bytes = Sampled(first.url, fp.print)
<1>1. CASE first.print # "none"
  BY <1>1 DEF Prints
<1>2. CASE first.print = "none"
  <2>1. PICK p \in {"head", "full"} :
            fp = [url |-> first.url, print |-> p, bytes |-> Sampled(first.url, p)]
    BY <1>2 DEF Prints
  <2>2. Sampled(first.url, p) \in Contents
    BY DEF Sampled, PoolTypes, SourceTypes
  <2> QED
    BY <1>2, <2>1, <2>2 DEF Metas
<1> QED
  BY <1>1, <1>2

-----------------------------------------------------------------------------
(* What a goroutine in expandRoutes does in a step: it becomes sc.         *)

Reads == UNCHANGED <<mode, site, unsupported, active, focus, cacheFile, released, requestVars, fetchVars,
                     pinned, used>>

(* It ends or waits for the next probe. *)
GoesOn(e, sc) ==
    /\ Reads /\ UNCHANGED <<meta, byHead>>
    /\ sc = NoScan \/ Waits(sc, scan[e]) \/ (e = "replenish" /\ Waits(sc, Refill))

(* A probe fits; the validators match, or samples have to be compared. *)
Compares(e, sc) ==
    /\ Reads /\ UNCHANGED <<meta, byHead>>
    /\ scan[e].at = "receive" /\ sc.want = scan[e].want /\ sc.hosts = scan[e].hosts
    /\ sc.url \in UrlSet /\ site[sc.url].host \notin scan[e].hosts
    /\ sc.recover = FailedIndex(sc.url)
    /\ Healthy # {} /\ site[sc.url].size = site[meta.url].size
    /\ \/ sc.at = "accept" /\ Merges(site[meta.url], site[sc.url])
       \/ sc.at = "sample" /\ sc.first = [meta EXCEPT !.url = active[Least(Healthy)].url]

(* The samples match. *)
Matched(e, sc) ==
    /\ Reads
    /\ scan[e].at = "sample" /\ sc = [scan[e] EXCEPT !.at = "accept"]
    /\ \E fp \in Prints(scan[e].first) :
          /\ Matches(fp, scan[e].url)
          /\ meta' = IF meta.print = "none" THEN [fp EXCEPT !.url = meta.url] ELSE meta
          /\ byHead' = IF fp.print = "head" THEN byHead \cup {scan[e].url} ELSE byHead

(* The route joins the others. *)
Joins(e, sc) ==
    /\ UNCHANGED <<mode, site, meta, unsupported, focus, cacheFile, released, requestVars, fetchVars,
                   pinned, pastVars>>
    /\ scan[e].at = "accept"
    /\ active' = Accepted(scan[e].url, scan[e].recover)
    /\ \/ sc = NoScan
       \/ /\ ~(Cardinality(HealthyIn(active')) >= scan[e].want)
          /\ Waits(sc, [scan[e] EXCEPT !.hosts = @ \cup {site[scan[e].url].host}])

LEMMA ExpandSteps ==
    ASSUME PoolTypes, MetaFirst, ScansFit, NEW e \in Scans, Expand(e)
    PROVE  /\ Known /\ scan[e].at # "off"
           /\ \E sc : /\ IsScan(sc) /\ scan' = [scan EXCEPT ![e] = sc]
                      /\ GoesOn(e, sc) \/ Compares(e, sc) \/ Matched(e, sc) \/ Joins(e, sc)
<1>1. scan[e].at # "off"
  BY DEF Expand, ScanStarts, ScanExpires, ScanSamples, ScanSampleFails, ScanAccepts, ScanDrops,
         ScanReceives
<1>2. Known
  BY <1>1 DEF MetaFirst
<1>3. IsScan(scan[e])
  BY DEF PoolTypes, ScanTypes
<1>4. scan[e].want \in Nat /\ scan[e].hosts \in SUBSET Hosts /\ scan[e].url \in UrlSet \cup {None}
  BY <1>3 DEF IsScan
<1>5. IsScan(NoScan)
  BY BlankTypes
<1>6. \A routes : /\ IsScan(Onward(scan[e], routes))
                  /\ Onward(scan[e], routes) = NoScan \/ Waits(Onward(scan[e], routes), scan[e])
  BY <1>4, OnwardFits
<1>7. CASE ScanStarts(e)
  <2>1. CASE e = "replenish"
    <3>1. Refill.want \in Nat /\ Refill.hosts \in SUBSET Hosts
      BY RefillFits DEF IsScan
    <3>2. IsScan(Onward(Refill, active)) /\ (Onward(Refill, active) = NoScan \/ Waits(Onward(Refill, active), Refill))
      BY <3>1, OnwardFits
    <3>3. scan' = [scan EXCEPT ![e] = NoScan] \/ scan' = [scan EXCEPT ![e] = Onward(Refill, active)]
      BY <1>7, <2>1 DEF ScanStarts
    <3>4. Reads /\ UNCHANGED <<meta, byHead>>
      BY <1>7 DEF ScanStarts, Reads, sourceVars, pastVars
    <3> QED
      BY <1>1, <1>2, <1>5, <2>1, <3>2, <3>3, <3>4 DEF GoesOn
  <2>2. CASE e # "replenish"
    <3>1. scan' = [scan EXCEPT ![e] = NoScan] \/ scan' = [scan EXCEPT ![e] = Onward(scan[e], active)]
      BY <1>7, <2>2 DEF ScanStarts
    <3>2. Reads /\ UNCHANGED <<meta, byHead>>
      BY <1>7 DEF ScanStarts, Reads, sourceVars, pastVars
    <3> QED
      BY <1>1, <1>2, <1>5, <1>6, <3>1, <3>2 DEF GoesOn
  <2> QED
    BY <2>1, <2>2
<1>8. CASE ScanExpires(e)
  <2>1. scan' = [scan EXCEPT ![e] = NoScan] /\ Reads /\ UNCHANGED <<meta, byHead>>
    BY <1>8 DEF ScanExpires, Reads, sourceVars, pastVars
  <2> QED
    BY <1>1, <1>2, <1>5, <2>1 DEF GoesOn
<1>9. CASE ScanSampleFails(e)
  <2>1. scan' = [scan EXCEPT ![e] = Onward(scan[e], active)] /\ Reads /\ UNCHANGED <<meta, byHead>>
    BY <1>9 DEF ScanSampleFails, Reads, sourceVars, pastVars
  <2> QED
    BY <1>1, <1>2, <1>6, <2>1 DEF GoesOn
<1>10. ASSUME NEW u \in UrlSet, ScanDrops(e, u)
       PROVE  \E sc : IsScan(sc) /\ scan' = [scan EXCEPT ![e] = sc] /\ GoesOn(e, sc)
  <2>1. scan' = [scan EXCEPT ![e] = Onward(Landed(e, u), active)] /\ Reads /\ UNCHANGED <<meta, byHead>>
    BY <1>10 DEF ScanDrops, Reads, sourceVars, pastVars
  <2>2. Landed(e, u).want = scan[e].want /\ Landed(e, u).hosts = scan[e].hosts
    BY ReceivedFits
  <2>3. /\ IsScan(Onward(Landed(e, u), active))
        /\ Onward(Landed(e, u), active) = NoScan \/ Waits(Onward(Landed(e, u), active), Landed(e, u))
    BY <1>4, <2>2, OnwardFits
  <2>4. Waits(Onward(Landed(e, u), active), Landed(e, u)) => Waits(Onward(Landed(e, u), active), scan[e])
    BY <2>2 DEF Waits
  <2> QED
    BY <2>1, <2>3, <2>4 DEF GoesOn
<1>11. ASSUME NEW u \in UrlSet, ScanReceives(e, u)
       PROVE  \E sc : IsScan(sc) /\ scan' = [scan EXCEPT ![e] = sc] /\ (GoesOn(e, sc) \/ Compares(e, sc))
  <2> DEFINE sc == [Landed(e, u) EXCEPT !.url = u, !.recover = FailedIndex(u)]
             first == site[meta.url]
             reject == Healthy = {} \/ first.size # site[u].size \/ EtagsDiffer(first, site[u])
  <2>1. Reads /\ UNCHANGED <<meta, byHead>> /\ scan[e].at = "receive" /\ site[u].host \notin scan[e].hosts
    BY <1>11 DEF ScanReceives, Reads, sourceVars, pastVars, NewHost
  <2>2. IsScan(sc) /\ sc.want = scan[e].want /\ sc.hosts = scan[e].hosts /\ sc.url = u
        /\ sc.recover = FailedIndex(u)
    BY ReceivedFits
  <2>3. scan' = [scan EXCEPT ![e] =
                   IF ~reject /\ Merges(first, site[u]) THEN [sc EXCEPT !.at = "accept"]
                   ELSE IF reject \/ released THEN Onward(sc, active)
                   ELSE [sc EXCEPT !.at = "sample",
                                   !.first = [meta EXCEPT !.url = active[Least(Healthy)].url]]]
    BY <1>11 DEF ScanReceives
  <2> HIDE DEF sc
  <2>4. CASE ~reject /\ Merges(first, site[u])
    <3> DEFINE new == [sc EXCEPT !.at = "accept"]
    <3>1. IsScan(new) /\ new.at = "accept" /\ new.want = scan[e].want /\ new.hosts = scan[e].hosts
          /\ new.url = u /\ new.recover = FailedIndex(u)
      BY <2>2 DEF IsScan
    <3>2. scan' = [scan EXCEPT ![e] = new]
      BY <2>3, <2>4
    <3> HIDE DEF new
    <3>3. Compares(e, new)
      BY <2>1, <2>4, <3>1 DEF Compares
    <3> QED
      BY <3>1, <3>2, <3>3
  <2>5. CASE ~(~reject /\ Merges(first, site[u])) /\ (reject \/ released)
    <3>1. scan' = [scan EXCEPT ![e] = Onward(sc, active)]
      BY <2>3, <2>5
    <3>2. IsScan(Onward(sc, active)) /\ (Onward(sc, active) = NoScan \/ Waits(Onward(sc, active), sc))
      BY <1>4, <2>2, OnwardFits
    <3>3. Waits(Onward(sc, active), sc) => Waits(Onward(sc, active), scan[e])
      BY <2>2 DEF Waits
    <3> QED
      BY <2>1, <3>1, <3>2, <3>3 DEF GoesOn
  <2>6. CASE ~(~reject /\ Merges(first, site[u])) /\ ~(reject \/ released)
    <3> DEFINE m == [meta EXCEPT !.url = active[Least(Healthy)].url]
               new == [sc EXCEPT !.at = "sample", !.first = m]
    <3>1. active[Least(Healthy)].url \in UrlSet
      BY <2>6, LeastHealthy, RouteType
    <3>2. m \in Metas
      BY <3>1 DEF Metas, PoolTypes, SourceTypes
    <3>3. scan' = [scan EXCEPT ![e] = new]
      BY <2>3, <2>6
    <3> HIDE DEF m
    <3>4. IsScan(new) /\ new.at = "sample" /\ new.want = scan[e].want /\ new.hosts = scan[e].hosts
          /\ new.url = u /\ new.recover = FailedIndex(u) /\ new.first = m
      BY <2>2, <3>2 DEF IsScan
    <3> HIDE DEF new
    <3>5. Compares(e, new)
      BY <2>1, <2>6, <3>4 DEF Compares, m
    <3> QED
      BY <3>3, <3>4, <3>5
  <2> QED
    BY <2>4, <2>5, <2>6
<1>12. CASE ScanSamples(e)
  <2>1. PICK fp \in Prints(scan[e].first) :
          IF Matches(fp, scan[e].url)
          THEN /\ scan' = [scan EXCEPT ![e].at = "accept"]
               /\ meta' = IF meta.print = "none" THEN [fp EXCEPT !.url = meta.url] ELSE meta
               /\ byHead' = IF fp.print = "head" THEN byHead \cup {scan[e].url} ELSE byHead
          ELSE /\ scan' = [scan EXCEPT ![e] = Onward(scan[e], active)]
               /\ UNCHANGED <<meta, byHead>>
    BY <1>12 DEF ScanSamples
  <2>2. Reads /\ scan[e].at = "sample"
    BY <1>12 DEF ScanSamples, Reads
  <2>3. CASE Matches(fp, scan[e].url)
    <3> DEFINE new == [scan[e] EXCEPT !.at = "accept"]
    <3>1. scan' = [scan EXCEPT ![e] = new]
      BY <2>1, <2>3
    <3>2. IsScan(new)
      BY <1>3 DEF IsScan
    <3>3. Matched(e, new)
      BY <2>1, <2>2, <2>3 DEF Matched
    <3> QED
      BY <1>1, <1>2, <3>1, <3>2, <3>3
  <2>4. CASE ~Matches(fp, scan[e].url)
    <3>1. scan' = [scan EXCEPT ![e] = Onward(scan[e], active)] /\ UNCHANGED <<meta, byHead>>
      BY <2>1, <2>4
    <3> QED
      BY <1>1, <1>2, <1>6, <2>2, <3>1 DEF GoesOn
  <2> QED
    BY <2>3, <2>4
<1>13. CASE ScanAccepts(e)
  <2> DEFINE sc == [scan[e] EXCEPT !.hosts = @ \cup {site[scan[e].url].host}]
             routes == Accepted(sc.url, sc.recover)
  <2>1. scan[e].at = "accept" /\ active' = routes
        /\ scan' = [scan EXCEPT ![e] = IF Cardinality(HealthyIn(routes)) >= sc.want THEN NoScan
                                       ELSE Onward(sc, routes)]
    BY <1>13 DEF ScanAccepts
  <2>2. site[scan[e].url].host \in Hosts
    BY <2>1 DEF PoolTypes, SourceTypes, ScansFit, ScanFits
  <2>3. sc.url = scan[e].url /\ sc.recover = scan[e].recover /\ sc.want = scan[e].want
        /\ sc.hosts \in SUBSET Hosts
    BY <1>3, <2>2 DEF IsScan
  <2>4. UNCHANGED <<mode, site, meta, unsupported, focus, cacheFile, released, requestVars, fetchVars,
                   pinned, pastVars>>
    BY <1>13 DEF ScanAccepts
  <2>5. active' = Accepted(scan[e].url, scan[e].recover)
    BY <2>1, <2>3
  <2> HIDE DEF sc
  <2>6. /\ IsScan(Onward(sc, routes))
        /\ Onward(sc, routes) = NoScan \/ Waits(Onward(sc, routes), sc)
    BY <1>4, <2>3, OnwardFits
  <2>7. CASE Cardinality(HealthyIn(routes)) >= sc.want
    BY <1>1, <1>2, <1>5, <2>1, <2>4, <2>5, <2>7 DEF Joins
  <2>8. CASE ~(Cardinality(HealthyIn(routes)) >= sc.want)
    <3>1. scan' = [scan EXCEPT ![e] = Onward(sc, routes)]
      BY <2>1, <2>8
    <3>2. ~(Cardinality(HealthyIn(active')) >= scan[e].want)
      BY <2>1, <2>3, <2>8
    <3>3. Joins(e, Onward(sc, routes))
      BY <2>1, <2>4, <2>5, <2>6, <3>2 DEF Joins, sc
    <3> QED
      BY <1>1, <1>2, <2>6, <3>1, <3>3
  <2> QED
    BY <2>7, <2>8
<1> QED
  BY <1>1, <1>2, <1>7, <1>8, <1>9, <1>10, <1>11, <1>12, <1>13 DEF Expand

LEMMA TryFits ==
    ASSUME PoolTypes, pinned \in BOOLEAN, NEW f \in Fetchers, NEW p \in DOMAIN active, NEW n \in Nat,
           Try(f, p, n)
    PROVE  \E d \in Downloads :
              /\ fetch' = [fetch EXCEPT ![f] = d]
              /\ d.at = "trying" /\ d.preferred = p /\ d.own = pinned
              /\ d.left \in Seq(DOMAIN active) /\ d.left # <<>>
              /\ Preferred(p) \in DOMAIN active
              /\ ~active[Preferred(p)].bad => d.left = <<Preferred(p)>>
<1>1. active # <<>> /\ DOMAIN active \subseteq Nat /\ p \in Nat
  BY RouteType
<1>2. Preferred(p) \in DOMAIN active
  BY <1>1, FocusFits DEF Preferred
<1>3. PICK taken \in SUBSET DOMAIN active :
          fetch' = [fetch EXCEPT ![f] =
              [at |-> "trying", left |-> RouteAttempts(Preferred(p), taken),
               preferred |-> p, try |-> n, own |-> pinned]]
  BY DEF Try
<1> DEFINE left == RouteAttempts(Preferred(p), taken)
           d == [at |-> "trying", left |-> left, preferred |-> p, try |-> n, own |-> pinned]
<1>4. /\ left \in Seq(DOMAIN active) /\ left # <<>>
      /\ ~active[Preferred(p)].bad => left = <<Preferred(p)>>
  BY <1>2, AttemptsFit
<1>5. fetch' = [fetch EXCEPT ![f] = d]
  BY <1>3
<1> HIDE DEF left
<1>6. left \in Seq(Nat)
  BY <1>1, <1>4
<1>7. d \in Downloads
  BY <1>1, <1>6 DEF Downloads
<1> QED
  BY <1>2, <1>4, <1>5, <1>7

(* The route a download is at *)
LEMMA HeadFits ==
    ASSUME PoolTypes, FetchesFit, NEW f \in Fetchers, fetch[f].at = "trying"
    PROVE  /\ fetch[f].left \in Seq(Nat) /\ fetch[f].left # <<>>
           /\ Head(fetch[f].left) = fetch[f].left[1] /\ Head(fetch[f].left) \in DOMAIN active
           /\ Tail(fetch[f].left) \in Seq(Nat)
           /\ \A k \in DOMAIN Tail(fetch[f].left) : Tail(fetch[f].left)[k] \in DOMAIN active
<1>1. fetch[f].left \in Seq(Nat) /\ fetch[f].left # <<>>
  BY DEF PoolTypes, FetchTypes, Downloads, FetchesFit, FetchFits
<1>2. \A k \in DOMAIN fetch[f].left : fetch[f].left[k] \in DOMAIN active
  BY DEF FetchesFit, FetchFits
<1>3. 1 \in DOMAIN fetch[f].left /\ Head(fetch[f].left) = fetch[f].left[1]
  BY <1>1
<1>4. /\ Tail(fetch[f].left) \in Seq(Nat)
      /\ \A k \in DOMAIN Tail(fetch[f].left) :
            k + 1 \in DOMAIN fetch[f].left /\ Tail(fetch[f].left)[k] = fetch[f].left[k + 1]
  BY <1>1
<1> QED
  BY <1>1, <1>2, <1>3, <1>4

(* A download's result changes one route's health. *)
LEMMA HealthChanged ==
    ASSUME PoolTypes, NEW i \in DOMAIN active, NEW b \in BOOLEAN, active' = [active EXCEPT ![i].bad = b]
    PROVE  /\ active' \in Seq(Lines) /\ Len(active') = Len(active) /\ DOMAIN active' = DOMAIN active
           /\ \A j \in DOMAIN active : /\ active'[j].url = active[j].url
                                       /\ active'[j].host = active[j].host
                                       /\ active'[j].bad = IF j = i THEN b ELSE active[j].bad
<1> DEFINE line == [active[i] EXCEPT !.bad = b]
<1>1. active \in Seq(Lines) /\ \A j \in DOMAIN active : active[j] \in Lines
  BY RouteType
<1>2. line \in Lines /\ line.url = active[i].url /\ line.host = active[i].host /\ line.bad = b
  BY <1>1 DEF Lines
<1>3. active' = [active EXCEPT ![i] = line]
  OBVIOUS
<1>4. \A j \in DOMAIN active : active'[j] = IF j = i THEN line ELSE active[j]
  BY <1>3
<1> HIDE DEF line
<1>5. active' \in Seq(Lines) /\ Len(active') = Len(active) /\ DOMAIN active' = DOMAIN active
  BY <1>1, <1>2, <1>3, RouteChanged
<1> QED
  BY <1>2, <1>4, <1>5

LEMMA DownloadsTyped ==
    ASSUME PoolTypes, pinned \in BOOLEAN, FetchesFit, NEW f \in Fetchers, Download(f)
    PROVE  PoolTypes'
<1>1. ASSUME NEW p \in DOMAIN active, NEW n \in Nat, Try(f, p, n)
      PROVE  PoolTypes'
  <2>1. FetchTypes'
    <3>1. PICK d \in Downloads : fetch' = [fetch EXCEPT ![f] = d]
      BY <1>1, TryFits
    <3>2. fetch' \in [Fetchers -> Downloads]
      BY <3>1, FetchChanged
    <3> QED
      BY <1>1, <3>2 DEF Try, PoolTypes, FetchTypes
  <2>2. focus' \in UrlSet \cup {None}
    <3>1. active # <<>> => active[FocusIndex].url \in UrlSet
      BY FocusFits, RouteType
    <3> QED
      BY <1>1, <3>1 DEF Try, PoolTypes, SourceTypes
  <2>3. UNCHANGED <<mode, site, meta, unsupported, active, cacheFile, released, requestVars, scan>>
    BY <1>1 DEF Try
  <2> QED
    BY <2>1, <2>2, <2>3 DEF PoolTypes, SourceTypes, RequestTypes, ScanTypes, requestVars, Known
<1>2. ASSUME NEW p \in 1 .. MaxRoutes, FetchStarts(f, p)
      PROVE  PoolTypes'
  BY <1>1, <1>2 DEF FetchStarts
<1>3. CASE FetchRetries(f)
  <2>1. fetch[f].preferred \in DOMAIN active /\ fetch[f].try + 1 \in Nat
    BY <1>3 DEF FetchRetries, FetchesFit, FetchFits, PoolTypes, FetchTypes, Downloads
  <2> QED
    BY <1>1, <1>3, <2>1 DEF FetchRetries
<1>4. CASE FetchSucceeds(f)
  <2> DEFINE i == Head(fetch[f].left)
  <2>1. i \in DOMAIN active /\ active[i].url \in UrlSet
    BY <1>4, HeadFits, RouteType DEF FetchSucceeds
  <2>2. active' = [active EXCEPT ![i].bad = FALSE]
    BY <1>4 DEF FetchSucceeds
  <2>3. active' \in Seq(Lines)
    BY <2>1, <2>2, HealthChanged
  <2>4. UNCHANGED <<mode, site, meta, unsupported, cacheFile, released, requestVars, faults>>
        /\ need' = FALSE /\ focus' \in {active[i].url, focus}
        /\ fetch' = [fetch EXCEPT ![f] = NoFetch]
    BY <1>4 DEF FetchSucceeds
  <2>5. FetchTypes'
    BY <2>4, BlankTypes, FetchChanged DEF PoolTypes, FetchTypes
  <2>6. ScanTypes'
    <3> DEFINE sc == [scan["replenish"] EXCEPT !.at = "start"]
    <3>1. "replenish" \in Scans /\ IsScan(scan["replenish"])
      BY DEF PoolTypes, ScanTypes, Scans
    <3>2. IsScan(sc)
      BY <3>1 DEF IsScan
    <3>3. scan' = scan \/ scan' = [scan EXCEPT !["replenish"] = sc]
      BY <1>4 DEF FetchSucceeds
    <3> HIDE DEF sc
    <3>4. CASE scan' = scan
      BY <3>4 DEF PoolTypes, ScanTypes
    <3>5. CASE scan' = [scan EXCEPT !["replenish"] = sc]
      BY <3>1, <3>2, <3>5, ScanChanged DEF ScanTypes
    <3> QED
      BY <3>3, <3>4, <3>5
  <2>7. focus' \in UrlSet \cup {None}
    BY <2>1, <2>4 DEF PoolTypes, SourceTypes
  <2> QED
    BY <2>3, <2>4, <2>5, <2>6, <2>7 DEF PoolTypes, SourceTypes, RequestTypes, requestVars, Known
<1>5. CASE FetchFails(f)
  <2> DEFINE i == Head(fetch[f].left)
             rest == Tail(fetch[f].left)
             d == IF rest # <<>> THEN [fetch[f] EXCEPT !.left = rest]
                  ELSE IF fetch[f].try < Retries THEN [fetch[f] EXCEPT !.at = "pause", !.left = <<>>]
                  ELSE NoFetch
  <2>1. i \in DOMAIN active /\ rest \in Seq(Nat)
    BY <1>5, HeadFits DEF FetchFails
  <2>2. active' = [active EXCEPT ![i].bad = TRUE]
    BY <1>5 DEF FetchFails
  <2>3. active' \in Seq(Lines)
    BY <2>1, <2>2, HealthChanged
  <2>4. UNCHANGED <<mode, site, meta, unsupported, focus, cacheFile, released, requestVars, scan>>
        /\ need' = TRUE /\ fetch' = [fetch EXCEPT ![f] = d]
    BY <1>5 DEF FetchFails
  <2>5. fetch[f] \in Downloads
    BY DEF PoolTypes, FetchTypes
  <2>6. d \in Downloads
    <3>1. [fetch[f] EXCEPT !.left = rest] \in Downloads
      BY <2>1, <2>5 DEF Downloads
    <3>2. \A none \in Seq(Nat) : [fetch[f] EXCEPT !.at = "pause", !.left = none] \in Downloads
      BY <2>5 DEF Downloads
    <3>3. <<>> \in Seq(Nat)
      OBVIOUS
    <3> QED
      BY <3>1, <3>2, <3>3, BlankTypes
  <2>7. faults' \in 0 .. MaxFaults
    BY <1>5, RouteAssumption DEF FetchFails, PoolTypes, FetchTypes
  <2> HIDE DEF d
  <2>8. FetchTypes'
    BY <2>4, <2>6, <2>7, FetchChanged DEF FetchTypes
  <2> QED
    BY <2>3, <2>4, <2>8 DEF PoolTypes, SourceTypes, RequestTypes, ScanTypes, requestVars, Known
<1>6. CASE FetchCanceled(f)
  <2>1. fetch' = [fetch EXCEPT ![f] = NoFetch]
        /\ UNCHANGED <<mode, site, sourceVars, requestVars, scan, need, faults>>
    BY <1>6 DEF FetchCanceled
  <2>2. FetchTypes'
    BY <2>1, BlankTypes, FetchChanged DEF PoolTypes, FetchTypes
  <2> QED
    BY <2>1, <2>2 DEF PoolTypes, SourceTypes, RequestTypes, ScanTypes, sourceVars, requestVars, Known
<1> QED
  BY <1>2, <1>3, <1>4, <1>5, <1>6 DEF Download

LEMMA ExpansionTyped ==
    ASSUME PoolTypes, MetaFirst, ScansFit, NEW e \in Scans, Expand(e)
    PROVE  PoolTypes'
<1>1. PICK sc : /\ IsScan(sc) /\ scan' = [scan EXCEPT ![e] = sc]
                /\ GoesOn(e, sc) \/ Compares(e, sc) \/ Matched(e, sc) \/ Joins(e, sc)
  BY ExpandSteps
<1>2. Known /\ meta \in Metas /\ meta.url \in UrlSet /\ active \in Seq(Lines)
  BY ExpandSteps DEF PoolTypes, SourceTypes
<1>3. CASE GoesOn(e, sc) \/ Compares(e, sc)
  <2>1. Reads /\ UNCHANGED <<meta, byHead>>
    BY <1>3 DEF GoesOn, Compares
  <2> QED
    BY <1>1, <1>2, <2>1, GoroutinesTyped DEF Reads
<1>4. CASE Matched(e, sc)
  <2>1. PICK fp \in Prints(scan[e].first) :
            meta' = IF meta.print = "none" THEN [fp EXCEPT !.url = meta.url] ELSE meta
    BY <1>4 DEF Matched
  <2>2. Reads /\ scan[e].first \in Metas /\ scan[e].first.url \in UrlSet
    BY <1>4 DEF Matched, PoolTypes, ScanTypes, IsScan, ScansFit, ScanFits
  <2>3. fp \in Metas
    BY <2>2, PrintsFit
  <2>4. [fp EXCEPT !.url = meta.url] \in Metas /\ [fp EXCEPT !.url = meta.url].url = meta.url
    BY <1>2, <2>3 DEF Metas
  <2>5. meta' \in Metas /\ meta'.url \in UrlSet
    BY <1>2, <2>1, <2>4
  <2> QED
    BY <1>1, <1>2, <2>2, <2>5, GoroutinesTyped DEF Reads
<1>5. CASE Joins(e, sc)
  <2>1. scan[e].url \in UrlSet /\ scan[e].recover \in Nat
    BY <1>5 DEF Joins, PoolTypes, ScanTypes, IsScan, ScansFit, ScanFits
  <2>2. active' \in Seq(Lines)
    BY <1>5, <2>1, AcceptedFits DEF Joins
  <2> QED
    BY <1>1, <1>2, <1>5, <2>2, GoroutinesTyped DEF Joins
<1> QED
  BY <1>1, <1>3, <1>4, <1>5

LEMMA TypesKept ==
    ASSUME PoolTypes, pinned \in BOOLEAN, MetaFirst, ScansFit, FetchesFit, PoolNext
    PROVE  PoolTypes'
<1>1. CASE Release \/ Rebalance \/ Gone
  BY <1>1 DEF Release, Rebalance, Gone, poolVars, sourceVars, requestVars, fetchVars, PoolTypes, SourceTypes,
              RequestTypes, ScanTypes, FetchTypes, Known
<1> QED
  BY <1>1, RequestsTyped, ProbesTyped, AcceptanceTyped, ExpansionTyped, DownloadsTyped
     DEF PoolNext, Probe

-----------------------------------------------------------------------------
(* The round of probes *)

(* Whoever answers gives the lock back; nobody else was probing. *)
LEMMA AnswerFits ==
    ASSUME PoolTypes, RoundFits, NEW r \in Requests, NEW a, a # "probing", lock = r, Answer(r, a)
    PROVE  RoundFits'
<1>1. lock' = None /\ \A q \in Requests : lock' # q
  BY Given DEF Answer
<1>2. \A q \in Requests : req'[q] # "probing"
  <2>1. req \in [Requests -> Stages] /\ req' = [req EXCEPT ![r] = a]
    BY DEF Answer, PoolTypes, RequestTypes
  <2>2. \A q \in Requests : q # r => req[q] # "probing"
    BY DEF RoundFits
  <2> QED
    BY <2>1, <2>2
<1> QED
  BY <1>1, <1>2 DEF RoundFits

LEMMA UnacceptedFits ==
    ASSUME PoolTypes, RoundFits, NEW r \in Requests, NEW u \in UrlSet, lock = r,
           u \in round.inFlight, NEW left \in Rounds, EndsUnaccepted(r, left),
           left.inFlight = Without(u).inFlight, left.next = Without(u).next,
           left.failed \/ (left.failed = round.failed /\ left.refused = round.refused \cup {u})
    PROVE  RoundFits'
<1>1. lock # None /\ ~Known /\ ~unsupported
  BY Given DEF RoundFits
<1>2. CASE left.inFlight = {}
  <2>1. \E a \in {"fallback", "error"} : Answer(r, a)
    BY <1>2 DEF EndsUnaccepted
  <2> QED
    BY <2>1, AnswerFits
<1>3. CASE left.inFlight # {}
  <2>1. round' = left /\ UNCHANGED <<req, lock, meta>> /\ unsupported' = FALSE
    BY <1>3 DEF EndsUnaccepted, GivesUp
  <2>2. ASSUME ~left.failed, NEW i \in DOMAIN Urls, i < left.next
        PROVE  Urls[i] \in left.inFlight \cup left.refused
    <3>1. left.refused = round.refused \cup {u} /\ ~round.failed
      BY <2>2
    <3>2. i \in Nat /\ round.next \in Nat
      BY Given DEF PoolTypes, RequestTypes, Rounds
    <3>3. i < round.next => Urls[i] \in round.inFlight \cup round.refused
      BY <1>1, <3>1 DEF RoundFits
    <3>4. round.inFlight \ {u} \subseteq left.inFlight
      BY WithoutFits
    <3>5. CASE i < round.next
      BY <3>1, <3>3, <3>4, <3>5
    <3>6. CASE ~(i < round.next)
      <4>1. round.next <= Len(Urls) /\ i = round.next
        BY <2>2, <3>2, <3>6, WithoutFits
      <4> QED
        BY <4>1, WithoutFits
    <3> QED
      BY <3>5, <3>6
  <2> QED
    BY <1>1, <1>3, <2>1, <2>2 DEF RoundFits, Known
<1> QED
  BY <1>2, <1>3

LEMMA ProbedLeft ==
    ASSUME PoolTypes, NEW r \in Requests, NEW u \in UrlSet, ProbeFails(r, u) \/ ProbeRefused(r, u)
    PROVE  /\ lock = r /\ u \in round.inFlight
           /\ \E left \in Rounds :
                 /\ EndsUnaccepted(r, left)
                 /\ left.inFlight = Without(u).inFlight /\ left.next = Without(u).next
                 /\ left.failed \/ (left.failed = round.failed /\ left.refused = round.refused \cup {u})
<1>1. Without(u) \in Rounds /\ Without(u).failed = round.failed /\ Without(u).refused = round.refused
  BY WithoutFits
<1>2. CASE ProbeFails(r, u)
  <2> DEFINE left == [Without(u) EXCEPT !.failed = TRUE]
  <2>1. left \in Rounds /\ left.inFlight = Without(u).inFlight /\ left.next = Without(u).next
        /\ left.failed
    BY <1>1 DEF Rounds
  <2>2. EndsUnaccepted(r, left) /\ lock = r /\ u \in round.inFlight
    BY <1>2 DEF ProbeFails
  <2> QED
    BY <2>1, <2>2
<1>3. CASE ProbeRefused(r, u)
  <2> DEFINE left == [Without(u) EXCEPT !.refused = @ \cup {u}]
  <2>1. Without(u).refused \cup {u} \in SUBSET UrlSet
    BY <1>1 DEF Rounds
  <2>2. left \in Rounds /\ left.inFlight = Without(u).inFlight /\ left.next = Without(u).next
        /\ left.failed = Without(u).failed /\ left.refused = Without(u).refused \cup {u}
    BY <1>1, <2>1 DEF Rounds
  <2>3. EndsUnaccepted(r, left) /\ lock = r /\ u \in round.inFlight
    BY <1>3 DEF ProbeRefused
  <2> HIDE DEF left
  <2> QED
    BY <1>1, <2>2, <2>3
<1> QED
  BY <1>2, <1>3

LEMMA RoundKept ==
    ASSUME PoolTypes, MetaFirst, ScansFit, RoundFits, PoolNext
    PROVE  RoundFits'
<1>1. ASSUME NEW r \in Requests, Lookup(r) \/ Leave(r)
      PROVE  RoundFits'
  <2>1. req \in [Requests -> Stages] /\ UNCHANGED <<lock, round, unsupported, meta>>
        /\ req[r] # "probing" /\ \E a \in {"found", "idle"} : req' = [req EXCEPT ![r] = a]
    BY <1>1 DEF Lookup, Leave, PoolTypes, RequestTypes, sourceVars
  <2> QED
    BY <2>1 DEF RoundFits, Known
<1>2. ASSUME NEW r \in Requests, Enter(r)
      PROVE  RoundFits'
  <2>1. req \in [Requests -> Stages] /\ UNCHANGED <<unsupported, meta>> /\ lock = None /\ req[r] = "found"
    BY <1>2 DEF Enter, PoolTypes, RequestTypes, sourceVars
  <2>2. \A q \in Requests : req[q] # "probing" /\ q # None
    BY <2>1, Given DEF RoundFits
  <2>3. CASE Known \/ unsupported
    <3>1. UNCHANGED <<lock, round>> /\ \E a \in {"accelerated", "fallback"} : req' = [req EXCEPT ![r] = a]
      BY <1>2, <2>3 DEF Enter, Known
    <3> QED
      BY <2>1, <2>2, <3>1 DEF RoundFits
  <2>4. CASE ~(Known \/ unsupported)
    <3> DEFINE flying == {Urls[i] : i \in 1 .. Batch}
               started == [NoRound EXCEPT !.next = Batch + 1, !.inFlight = flying]
    <3>1. req' = [req EXCEPT ![r] = "probing"] /\ lock' = r /\ round' = started
      BY <1>2, <2>4 DEF Enter, Known
    <3>2. started.next = Batch + 1 /\ started.inFlight = flying
      BY DEF NoRound
    <3>3. Urls[1] \in flying
      BY Given
    <3>4. \A i \in DOMAIN Urls : i < Batch + 1 => Urls[i] \in flying
      BY Given
    <3>5. \A q \in Requests : lock' = q <=> req'[q] = "probing"
      BY <2>1, <2>2, <3>1
    <3> HIDE DEF flying, started
    <3> QED
      BY <2>1, <2>4, <3>1, <3>2, <3>3, <3>4, <3>5 DEF RoundFits, Known
  <2> QED
    BY <2>3, <2>4
<1>3. ASSUME NEW r \in Requests, NEW u \in UrlSet, ProbeFails(r, u) \/ ProbeRefused(r, u)
      PROVE  RoundFits'
  BY <1>3, ProbedLeft, UnacceptedFits
<1>4. ASSUME NEW r \in Requests, NEW u \in UrlSet, ProbeAccepted(r, u)
      PROVE  RoundFits'
  <2>1. lock = r /\ \E a \in {"accelerated", "error"} : Answer(r, a)
    BY <1>4 DEF ProbeAccepted
  <2> QED
    BY <2>1, AnswerFits
<1>5. ASSUME NEW r \in Requests, ProbeExpires(r)
      PROVE  RoundFits'
  <2>1. lock = r /\ Answer(r, "error")
    BY <1>5 DEF ProbeExpires
  <2> QED
    BY <2>1, AnswerFits
<1>6. ASSUME NEW e \in Scans, Expand(e)
      PROVE  RoundFits'
  <2>1. Known /\ UNCHANGED <<lock, req, round, unsupported>>
    BY <1>6, ExpandSteps DEF GoesOn, Compares, Matched, Joins, Reads, requestVars
  <2>2. lock = None
    BY <2>1 DEF RoundFits
  <2> QED
    BY <2>1, <2>2 DEF RoundFits
<1>7. ASSUME UNCHANGED <<lock, req, round, unsupported, meta>>
      PROVE  RoundFits'
  BY <1>7 DEF RoundFits, Known
<1>8. ASSUME NEW f \in Fetchers, Download(f)
      PROVE  UNCHANGED <<lock, req, round, unsupported, meta>>
  BY <1>8 DEF Download, FetchStarts, FetchRetries, Try, FetchSucceeds, FetchFails, FetchCanceled,
              requestVars, sourceVars
<1>9. CASE Release \/ Rebalance \/ Gone
  BY <1>7, <1>9 DEF Release, Rebalance, Gone, poolVars, requestVars, sourceVars
<1> QED
  BY <1>1, <1>2, <1>3, <1>4, <1>5, <1>6, <1>7, <1>8, <1>9 DEF PoolNext, Probe

-----------------------------------------------------------------------------
(* Routes, goroutines and downloads *)

LEMMA SiteKept ==
    ASSUME PoolNext
    PROVE  UNCHANGED <<mode, site>> /\ (Truthful => Truthful')
<1>1. UNCHANGED <<mode, site>>
  <2>1. ASSUME NEW r \in Requests, Lookup(r) \/ Enter(r) \/ Probe(r) \/ Leave(r)
        PROVE  UNCHANGED <<mode, site>>
    BY <2>1 DEF Lookup, Enter, Probe, Leave, ProbeFails, ProbeRefused, EndsUnaccepted, ProbeAccepted,
                ProbeExpires
  <2>2. ASSUME NEW e \in Scans, Expand(e)
        PROVE  UNCHANGED <<mode, site>>
    BY <2>2 DEF Expand, ScanStarts, ScanExpires, ScanSamples, ScanSampleFails, ScanAccepts, ScanDrops,
                ScanReceives
  <2>3. ASSUME NEW f \in Fetchers, Download(f)
        PROVE  UNCHANGED <<mode, site>>
    BY <2>3 DEF Download, FetchStarts, FetchRetries, Try, FetchSucceeds, FetchFails, FetchCanceled
  <2> QED
    BY <2>1, <2>2, <2>3 DEF PoolNext, Release, Rebalance, Gone, poolVars
<1> QED
  BY <1>1 DEF Truthful

(* The steps that leave routes, goroutines and downloads alone *)
Untouched == UNCHANGED <<mode, site, meta, active, focus, scan, fetchVars, pastVars>>
LEMMA UntouchedSteps ==
    /\ \A r \in Requests : Lookup(r) \/ Enter(r) \/ ProbeExpires(r) \/ Leave(r) => Untouched
    /\ \A r \in Requests, u \in UrlSet : ProbeFails(r, u) \/ ProbeRefused(r, u) => Untouched
    /\ Release \/ Rebalance \/ Gone => Untouched
BY DEF Lookup, Enter, ProbeExpires, Leave, ProbeFails, ProbeRefused, EndsUnaccepted, Release, Rebalance, Gone,
       poolVars, sourceVars, fetchVars, Untouched

LEMMA UntouchedKept ==
    ASSUME StateFits, Undisturbed, Untouched
    PROVE  StateFits' /\ Undisturbed'
<1>1. StateFits'
  BY DEF StateFits, Untouched, fetchVars, MetaFirst, RoutesFit, PrintFits, ScansFit, ScanFits, FetchesFit,
         FetchFits, SameHead, Known
<1>2. Undisturbed'
  BY DEF Undisturbed, Untouched, fetchVars, pastVars, OneGoroutine, AllWork, FirstFollowed, StandbyUsed,
         DistinctHosts, Expanding, Known
<1> QED
  BY <1>1, <1>2

(* The first route: nothing has been built on it yet. *)
LEMMA AcceptanceKept ==
    ASSUME PoolTypes, RoundFits, StateFits, Undisturbed, NEW r \in Requests, NEW u \in UrlSet,
           ProbeAccepted(r, u)
    PROVE  StateFits' /\ Undisturbed'
<1>1. ~Known
  BY Given DEF ProbeAccepted, RoundFits
<1>2. /\ \A e \in Scans : scan[e].at = "off" /\ scan[e].recover = 0
      /\ \A f \in Fetchers : fetch[f].at = "idle" /\ fetch[f].left = <<>>
  BY <1>1 DEF StateFits, MetaFirst, ScansFit, ScanFits, FetchesFit, FetchFits
<1>3. active' = <<Route(u)>> /\ focus' = u /\ UNCHANGED <<mode, site, fetchVars>>
  BY DEF ProbeAccepted
<1>4. /\ active' # <<>> /\ Len(active') = 1 /\ DOMAIN active' = {1}
      /\ active'[1].url = u /\ active'[1].host = site[u].host /\ active'[1].bad = FALSE
  BY <1>3 DEF Route
<1>5. [NoMeta EXCEPT !.url = u] = [url |-> u, print |-> "none", bytes |-> "none"] /\ u # None
  BY Given DEF NoMeta
<1>6. meta' = meta \/ meta' = [url |-> u, print |-> "none", bytes |-> "none"]
  BY <1>5 DEF ProbeAccepted
<1>7. Known' => meta'.url = u /\ meta'.print = "none"
  BY <1>1, <1>6 DEF Known
<1>8. ~Known' => meta' = NoMeta
  BY DEF Known
<1>9. scan' = scan \/ (Known' /\ scan' # scan)
  BY <1>5 DEF ProbeAccepted, Known, NoMeta
<1>10. scan' # scan =>
          /\ Batch # 1
          /\ "initial" \in Scans /\ \E sc : /\ IsScan(sc) /\ scan' = [scan EXCEPT !["initial"] = sc]
                                           /\ sc.at = "start" /\ sc.recover = 0 /\ sc.want = Batch
                                           /\ sc.hosts = {site[u].host}
  <2>1. SUFFICES ASSUME scan' # scan
                 PROVE  /\ Batch # 1
                        /\ \E sc : /\ IsScan(sc) /\ scan' = [scan EXCEPT !["initial"] = sc]
                                  /\ sc.at = "start" /\ sc.recover = 0 /\ sc.want = Batch
                                  /\ sc.hosts = {site[u].host}
    BY DEF Scans
  <2> DEFINE todo == Remaining(u, {Urls[i] : i \in 1 .. round.next - 1})
             sc == Scanning("start", todo, {}, {site[u].host}, Batch)
  <2>2. Batch # 1 /\ scan' = [scan EXCEPT !["initial"] = sc]
    BY <2>1 DEF ProbeAccepted
  <2>3. site[u].host \in Hosts
    BY DEF PoolTypes, SourceTypes
  <2>4. \A any : LET new == Scanning("start", any, {}, {site[u].host}, Batch)
                 IN  IsScan(new) /\ new.at = "start" /\ new.recover = 0 /\ new.want = Batch
                     /\ new.hosts = {site[u].host}
    BY <2>3, Given, BlankTypes DEF Scanning, IsScan
  <2> QED
    BY <2>2, <2>4
<1>11. \A e \in Scans : scan'[e].at \in {"off", "start"} /\ scan'[e].recover = 0
  BY <1>2, <1>10, ScanChanged
<1>12. StateFits'
  <2>1. MetaFirst'
    BY <1>2, <1>3, <1>4, <1>7, <1>9 DEF MetaFirst, fetchVars
  <2>2. RoutesFit'
    BY <1>3, <1>4, <1>7 DEF RoutesFit, SameHead
  <2>3. PrintFits'
    BY <1>7, <1>8 DEF PrintFits, NoMeta
  <2>4. ScansFit'
    <3>1. 0 \in 0 .. Len(active')
      BY <1>4
    <3> QED
      BY <1>11, <3>1 DEF ScansFit, ScanFits
  <2>5. FetchesFit'
    BY <1>2, <1>3 DEF FetchesFit, FetchFits, fetchVars
  <2> QED
    BY <2>1, <2>2, <2>3, <2>4, <2>5 DEF StateFits
<1>13. Undisturbed'
  <2>1. SUFFICES ASSUME faults' = 0
                 PROVE  /\ OneGoroutine' /\ AllWork' /\ FirstFollowed'
                        /\ DistinctHosts' /\ Len(active') <= PoolSize
                        /\ scan'["initial"].at # "off" => Expanding(scan["initial"])'
    BY DEF Undisturbed
  <2>2. OneGoroutine
    BY <1>3, <2>1 DEF Undisturbed, fetchVars
  <2>3. OneGoroutine'
    <3>1. scan'["replenish"] = scan["replenish"]
      BY <1>10, ScanChanged DEF Scans
    <3> QED
      BY <1>3, <2>2, <3>1 DEF OneGoroutine, fetchVars
  <2>4. AllWork' /\ DistinctHosts'
    BY <1>4 DEF AllWork, DistinctHosts
  <2>6. FirstFollowed'
    BY <1>2, <1>3, <1>4 DEF FirstFollowed, StandbyUsed, fetchVars
  <2>7. Len(active') <= PoolSize
    BY <1>4, Given
  <2>8. scan'["initial"].at # "off" => Expanding(scan["initial"])'
    <3>1. SUFFICES ASSUME scan'["initial"].at # "off"
                   PROVE  Expanding(scan["initial"])'
      OBVIOUS
    <3>2. scan' # scan
      BY <1>2, <3>1 DEF Scans
    <3>3. PICK sc : /\ IsScan(sc) /\ scan' = [scan EXCEPT !["initial"] = sc]
                    /\ sc.at = "start" /\ sc.recover = 0 /\ sc.want = Batch /\ sc.hosts = {site[u].host}
      BY <1>10, <3>2
    <3>4. scan'["initial"] = sc
      BY <3>3, ScanChanged DEF Scans
    <3>5. 1 < Batch
      BY <1>10, <3>2, Given
    <3> QED
      BY <1>4, <3>3, <3>4, <3>5, Given DEF Expanding
  <2> QED
    BY <2>3, <2>4, <2>6, <2>7, <2>8
<1> QED
  BY <1>12, <1>13

(* A goroutine that only reads the routes becomes sc. *)
LEMMA ReadsKept ==
    ASSUME PoolTypes, StateFits, Undisturbed, Known, NEW e \in Scans, scan[e].at # "off",
           NEW sc, IsScan(sc), scan' = [scan EXCEPT ![e] = sc], Reads, UNCHANGED <<meta, byHead>>,
           ScanFits(sc), faults = 0 /\ e = "initial" /\ sc.at # "off" => Expanding(sc)
    PROVE  StateFits' /\ Undisturbed'
<1>1. scan'[e] = sc /\ \A x \in Scans \ {e} : scan'[x] = scan[x]
  BY ScanChanged
<1>2. UNCHANGED <<mode, site, meta, active, focus, fetch, need, faults, used>>
  BY DEF Reads, fetchVars
<1>3. MetaFirst' /\ RoutesFit' /\ PrintFits' /\ FetchesFit'
  BY <1>2 DEF StateFits, MetaFirst, RoutesFit, SameHead, PrintFits, FetchesFit, FetchFits, Known
<1>4. ScansFit'
  <2>1. ASSUME NEW x \in Scans
        PROVE  ScanFits(scan[x])'
    <3>1. scan'[x] = sc \/ scan'[x] = scan[x]
      BY <1>1
    <3>2. ScanFits(scan[x])
      BY DEF StateFits, ScansFit
    <3> QED
      BY <1>2, <3>1, <3>2 DEF ScanFits, SameHead
  <2> QED
    BY <2>1 DEF ScansFit
<1>5. Undisturbed'
  <2>1. SUFFICES ASSUME faults = 0
                 PROVE  /\ OneGoroutine' /\ AllWork' /\ FirstFollowed'
                        /\ DistinctHosts' /\ Len(active') <= PoolSize
                        /\ scan'["initial"].at # "off" => Expanding(scan["initial"])'
    BY <1>2 DEF Undisturbed
  <2>2. e = "initial"
    BY <2>1 DEF Undisturbed, OneGoroutine, Scans
  <2>3. scan'["replenish"] = scan["replenish"] /\ scan'["initial"] = sc
    BY <1>1, <2>2 DEF Scans
  <2>4. OneGoroutine' /\ AllWork' /\ FirstFollowed' /\ DistinctHosts' /\ Len(active') <= PoolSize
    BY <1>2, <2>1, <2>3 DEF Undisturbed, OneGoroutine, AllWork, FirstFollowed, StandbyUsed, DistinctHosts, Known
  <2>5. sc.at # "off" => Expanding(sc)
    BY <2>1, <2>2
  <2> QED
    BY <1>2, <2>3, <2>4, <2>5 DEF Expanding
<1> QED
  BY <1>3, <1>4, <1>5 DEF StateFits

LEMMA GoesOnKept ==
    ASSUME PoolTypes, StateFits, Undisturbed, Known, NEW e \in Scans, scan[e].at # "off",
           NEW sc, IsScan(sc), scan' = [scan EXCEPT ![e] = sc], GoesOn(e, sc)
    PROVE  StateFits' /\ Undisturbed'
<1>1. sc = NoScan \/ (sc.at = "receive" /\ sc.recover = 0)
  BY DEF GoesOn, Waits
<1>2. NoScan.at = "off" /\ NoScan.recover = 0
  BY DEF NoScan, Scanning
<1>3. ScanFits(sc)
  BY <1>1, <1>2, RouteType DEF ScanFits
<1>4. ASSUME faults = 0, e = "initial", sc.at # "off"
      PROVE  Expanding(sc)
  <2>1. Waits(sc, scan[e])
    BY <1>2, <1>4 DEF GoesOn
  <2>2. Expanding(scan[e])
    BY <1>4 DEF Undisturbed
  <2> QED
    BY <2>1, <2>2 DEF Expanding, Waits
<1> QED
  BY <1>3, <1>4, ReadsKept DEF GoesOn

LEMMA ComparesKept ==
    ASSUME PoolTypes, Truthful, StateFits, Undisturbed, Known, NEW e \in Scans, scan[e].at # "off",
           NEW sc, IsScan(sc), scan' = [scan EXCEPT ![e] = sc], Compares(e, sc)
    PROVE  StateFits' /\ Undisturbed'
<1>1. meta.url \in UrlSet /\ meta \in Metas /\ sc.url \in UrlSet /\ sc.recover = FailedIndex(sc.url)
      /\ site[sc.url].size = site[meta.url].size
  BY DEF PoolTypes, SourceTypes, Compares
<1>2. sc.at = "accept" => site[sc.url].bytes = site[meta.url].bytes /\ site[sc.url].head = site[meta.url].head
  BY <1>1 DEF Truthful, Compares
<1>3. sc.at = "sample" =>
        /\ Least(Healthy) \in DOMAIN active /\ sc.first = [meta EXCEPT !.url = active[Least(Healthy)].url]
        /\ 1 \in Healthy => Least(Healthy) = 1
  BY LeastHealthy DEF Compares
<1>4. sc.at = "sample" =>
        /\ sc.first.url = active[Least(Healthy)].url /\ sc.first.url \in UrlSet
        /\ sc.first.print = meta.print /\ sc.first.bytes = meta.bytes
  BY <1>1, <1>3, RouteType DEF Metas
<1>5. sc.at = "sample" => SameHead(sc.first.url)
  BY <1>3, <1>4 DEF StateFits, RoutesFit
<1>6. ScanFits(sc)
  BY <1>1, <1>2, <1>4, <1>5, FailedIndexFits DEF ScanFits, SameHead, Compares
<1>7. ASSUME faults = 0, e = "initial"
      PROVE  Expanding(sc)
  <2>1. Expanding(scan[e]) /\ AllWork
    BY <1>7 DEF Undisturbed
  <2>2. sc.recover = 0
    BY <1>1, <2>1, FailedIndexFits
  <2> QED
    BY <2>1, <2>2 DEF Expanding, Compares
<1> QED
  BY <1>6, <1>7, ReadsKept DEF Compares

(* Samples that match show the head of the metadata's media, and all of    *)
(* its bytes unless only heads were compared.                              *)
LEMMA MatchFits ==
    ASSUME PoolTypes, Truthful, PrintFits, NEW first \in Metas, first.url \in UrlSet, SameHead(first.url),
           Known, first.print # "none" => first.print = meta.print /\ first.bytes = meta.bytes,
           NEW fp \in Prints(first), NEW u \in UrlSet, Matches(fp, u)
    PROVE  /\ site[u].head = site[meta.url].head
           /\ fp.print \in {"head", "full"} /\ (first.print # "none" => fp = first)
           /\ fp.print = "head" => fp.bytes = site[meta.url].head
           /\ fp.print = "full" =>
                 /\ site[u].bytes = fp.bytes
                 /\ \A v \in UrlSet : site[v].bytes = fp.bytes => site[v].head = site[meta.url].head
           /\ first.print = "none" /\ fp.print = "full" => fp.bytes = site[first.url].bytes
<1>1. /\ fp \in Metas /\ fp.url = first.url /\ fp.print # "none"
      /\ first.print # "none" => fp = first
      /\ first.print = "none" => fp.bytes = Sampled(first.url, fp.print)
  BY PrintsFit
<1>2. fp.print \in {"head", "full"}
  BY <1>1 DEF Metas
<1>3. fp.bytes = IF fp.print = "head" THEN site[u].head ELSE site[u].bytes
  BY DEF Matches, Sampled
<1>4. CASE first.print # "none"
  BY <1>1, <1>2, <1>3, <1>4 DEF PrintFits
<1>5. CASE first.print = "none"
  <2>1. fp.bytes = IF fp.print = "head" THEN site[first.url].head ELSE site[first.url].bytes
    BY <1>1, <1>5 DEF Sampled
  <2>2. site[first.url].head = site[meta.url].head
    BY DEF SameHead
  <2>3. \A v \in UrlSet : site[v].bytes = site[first.url].bytes => site[v].head = site[first.url].head
    BY DEF Truthful
  <2> QED
    BY <1>2, <1>3, <1>5, <2>1, <2>2, <2>3
<1> QED
  BY <1>4, <1>5

(* What the step does to the metadata and to byHead, and what matched      *)
LEMMA MatchedFacts ==
    ASSUME PoolTypes, Truthful, StateFits, Known, NEW e \in Scans, NEW sc, Matched(e, sc)
    PROVE  LET first == scan[e].first
               u == scan[e].url
           IN  /\ scan[e].at = "sample" /\ first \in Metas /\ first.url \in UrlSet /\ SameHead(first.url)
               /\ u \in UrlSet /\ site[u].size = site[meta.url].size
               /\ first.print # "none" => first.print = meta.print /\ first.bytes = meta.bytes
               /\ meta'.url = meta.url /\ Known'
               /\ \E fp \in Metas :
                     /\ byHead' = IF fp.print = "head" THEN byHead \cup {u} ELSE byHead
                     /\ IF meta.print = "none" THEN meta'.print = fp.print /\ meta'.bytes = fp.bytes
                        ELSE meta' = meta
                     /\ site[u].head = site[meta.url].head
                     /\ fp.print \in {"head", "full"} /\ (first.print # "none" => fp = first)
                     /\ fp.print = "head" => fp.bytes = site[meta.url].head
                     /\ fp.print = "full" =>
                           /\ site[u].bytes = fp.bytes
                           /\ \A v \in UrlSet : site[v].bytes = fp.bytes => site[v].head = site[meta.url].head
                     /\ first.print = "none" /\ fp.print = "full" => fp.bytes = site[first.url].bytes
<1> DEFINE first == scan[e].first
           u == scan[e].url
<1>1. PICK fp \in Prints(first) :
          /\ Matches(fp, u)
          /\ meta' = IF meta.print = "none" THEN [fp EXCEPT !.url = meta.url] ELSE meta
          /\ byHead' = IF fp.print = "head" THEN byHead \cup {u} ELSE byHead
  BY DEF Matched
<1>2. scan[e].at = "sample" /\ IsScan(scan[e]) /\ ScanFits(scan[e])
  BY DEF Matched, PoolTypes, ScanTypes, StateFits, ScansFit
<1>3. /\ first \in Metas /\ first.url \in UrlSet /\ SameHead(first.url) /\ u \in UrlSet
      /\ site[u].size = site[meta.url].size
      /\ first.print # "none" => first.print = meta.print /\ first.bytes = meta.bytes
  BY <1>2 DEF IsScan, ScanFits
<1> HIDE DEF first, u
<1>4. /\ site[u].head = site[meta.url].head
      /\ fp.print \in {"head", "full"} /\ (first.print # "none" => fp = first)
      /\ fp.print = "head" => fp.bytes = site[meta.url].head
      /\ fp.print = "full" =>
            /\ site[u].bytes = fp.bytes
            /\ \A v \in UrlSet : site[v].bytes = fp.bytes => site[v].head = site[meta.url].head
      /\ first.print = "none" /\ fp.print = "full" => fp.bytes = site[first.url].bytes
  BY <1>1, <1>3, MatchFits DEF StateFits
<1>5. fp \in Metas /\ meta \in Metas /\ meta.url \in UrlSet
  BY <1>1, <1>3, PrintsFit DEF PoolTypes, SourceTypes
<1>6. meta'.url = meta.url /\ Known'
      /\ IF meta.print = "none" THEN meta'.print = fp.print /\ meta'.bytes = fp.bytes ELSE meta' = meta
  <2>1. [fp EXCEPT !.url = meta.url].url = meta.url /\ [fp EXCEPT !.url = meta.url].print = fp.print
        /\ [fp EXCEPT !.url = meta.url].bytes = fp.bytes
    BY <1>5 DEF Metas
  <2>2. meta'.url = meta.url
    BY <1>1, <2>1
  <2>3. NoMeta.url = None
    BY DEF NoMeta
  <2>4. Known'
    BY <1>5, <2>2, <2>3, Given DEF Known
  <2> QED
    BY <1>1, <2>1, <2>2, <2>4
<1>7. scan[e].at = "sample"
  BY <1>2
<1> QED
  BY <1>1, <1>3, <1>4, <1>5, <1>6, <1>7 DEF first, u

LEMMA MatchedKept ==
    ASSUME PoolTypes, Truthful, StateFits, Undisturbed, Known, NEW e \in Scans,
           NEW sc, IsScan(sc), scan' = [scan EXCEPT ![e] = sc], Matched(e, sc)
    PROVE  StateFits' /\ Undisturbed'
<1> DEFINE first == scan[e].first
           u == scan[e].url
<1>1. scan'[e] = sc /\ \A x \in Scans \ {e} : scan'[x] = scan[x]
  BY ScanChanged
<1>2. UNCHANGED <<mode, site, active, focus, fetch, need, faults, used>>
  BY DEF Matched, Reads, fetchVars
<1>4. scan[e].at = "sample" /\ IsScan(scan[e]) /\ ScanFits(scan[e])
  BY DEF Matched, PoolTypes, ScanTypes, StateFits, ScansFit
<1>5. /\ first \in Metas /\ first.url \in UrlSet /\ SameHead(first.url) /\ u \in UrlSet
      /\ site[u].size = site[meta.url].size
      /\ first.print # "none" => first.print = meta.print /\ first.bytes = meta.bytes
  BY <1>4 DEF IsScan, ScanFits
<1>6. /\ sc.at = "accept" /\ sc.url = u /\ sc.recover = scan[e].recover /\ sc.want = scan[e].want
      /\ sc.hosts = scan[e].hosts
  BY <1>4 DEF Matched, IsScan
<1>3. meta'.url = meta.url /\ Known'
  BY MatchedFacts
<1>8. PICK fp \in Metas :
          /\ IF meta.print = "none" THEN meta'.print = fp.print /\ meta'.bytes = fp.bytes ELSE meta' = meta
          /\ site[u].head = site[meta.url].head
          /\ fp.print \in {"head", "full"} /\ (first.print # "none" => fp = first)
          /\ fp.print = "head" => fp.bytes = site[meta.url].head
          /\ fp.print = "full" =>
                /\ site[u].bytes = fp.bytes
                /\ \A v \in UrlSet : site[v].bytes = fp.bytes => site[v].head = site[meta.url].head
  BY MatchedFacts
<1> HIDE DEF first, u
<1>7. PrintFits
  BY DEF StateFits
<1>10. meta'.url = meta.url /\ Known'
       /\ IF meta.print = "none" THEN meta'.print = fp.print /\ meta'.bytes = fp.bytes ELSE meta' = meta
  BY <1>3, <1>8
<1>11. MetaFirst' /\ RoutesFit' /\ FetchesFit'
  BY <1>2, <1>10 DEF StateFits, MetaFirst, RoutesFit, SameHead, FetchesFit, FetchFits
<1>12. PrintFits'
  BY <1>2, <1>7, <1>8, <1>10 DEF PrintFits
<1>13. ScansFit'
  <2>1. ASSUME NEW x \in Scans \ {e}
        PROVE  ScanFits(scan[x])'
    <3>1. ScanFits(scan[x]) /\ scan'[x] = scan[x]
      BY <1>1 DEF StateFits, ScansFit
    <3>2. scan[x].at = "sample" /\ scan[x].first.print # "none" =>
             scan[x].first.print = meta'.print /\ scan[x].first.bytes = meta'.bytes
      BY <1>10, <3>1 DEF ScanFits
    <3> QED
      BY <1>2, <1>10, <3>1, <3>2 DEF ScanFits, SameHead
  <2>2. ScanFits(scan[e])'
    BY <1>1, <1>2, <1>4, <1>5, <1>6, <1>8, <1>10 DEF ScanFits, SameHead
  <2> QED
    BY <2>1, <2>2 DEF ScansFit
<1>14. Undisturbed'
  <2>1. SUFFICES ASSUME faults = 0
                 PROVE  /\ OneGoroutine' /\ AllWork' /\ FirstFollowed'
                        /\ DistinctHosts' /\ Len(active') <= PoolSize
                        /\ scan'["initial"].at # "off" => Expanding(scan["initial"])'
    BY <1>2 DEF Undisturbed
  <2>2. e = "initial"
    BY <1>4, <2>1 DEF Undisturbed, OneGoroutine, Scans
  <2>3. scan'["replenish"] = scan["replenish"] /\ scan'["initial"] = sc
    BY <1>1, <2>2 DEF Scans
  <2>4. OneGoroutine' /\ AllWork' /\ FirstFollowed' /\ DistinctHosts' /\ Len(active') <= PoolSize
    BY <1>2, <1>10, <2>1, <2>3 DEF Undisturbed, OneGoroutine, AllWork, FirstFollowed, StandbyUsed,
                                   DistinctHosts
  <2>5. Expanding(scan[e])
    BY <1>4, <2>1, <2>2 DEF Undisturbed
  <2>8. Expanding(scan["initial"])'
    <3>1. u = scan[e].url /\ site[u].host \notin scan[e].hosts
      BY <1>4, <2>5 DEF Expanding, u
    <3> QED
      BY <1>2, <1>6, <2>3, <2>5, <3>1 DEF Expanding
  <2> QED
    BY <2>4, <2>8
<1> QED
  BY <1>11, <1>12, <1>13, <1>14 DEF StateFits

LEMMA JoinsKept ==
    ASSUME PoolTypes, StateFits, Undisturbed, Known, NEW e \in Scans,
           NEW sc, IsScan(sc), scan' = [scan EXCEPT ![e] = sc], Joins(e, sc)
    PROVE  StateFits' /\ Undisturbed'
<1> DEFINE u == scan[e].url
           i == scan[e].recover
<1>1. scan'[e] = sc /\ \A x \in Scans \ {e} : scan'[x] = scan[x]
  BY ScanChanged
<1>2. UNCHANGED <<mode, site, meta, focus, fetch, need, faults, used>> /\ active' = Accepted(u, i)
  BY DEF Joins, fetchVars, pastVars
<1>3. scan[e].at = "accept" /\ IsScan(scan[e]) /\ ScanFits(scan[e])
  BY DEF Joins, PoolTypes, ScanTypes, StateFits, ScansFit
<1>4. u \in UrlSet /\ SameHead(u) /\ i \in Nat
  BY <1>3 DEF ScanFits, IsScan
<1>5. sc = NoScan \/
        /\ ~(Cardinality(HealthyIn(active')) >= scan[e].want)
        /\ sc.at = "receive" /\ sc.recover = 0 /\ sc.want = scan[e].want
        /\ sc.hosts = scan[e].hosts \cup {site[u].host}
  <2> DEFINE more == [scan[e] EXCEPT !.hosts = @ \cup {site[scan[e].url].host}]
  <2>1. more.want = scan[e].want /\ more.hosts = scan[e].hosts \cup {site[u].host}
    BY <1>3 DEF IsScan
  <2>2. sc = NoScan \/ (~(Cardinality(HealthyIn(active')) >= scan[e].want) /\ Waits(sc, more))
    BY DEF Joins
  <2> HIDE DEF more, u
  <2> QED
    BY <2>1, <2>2 DEF Waits
<1>6. NoScan.at = "off" /\ NoScan.recover = 0
  BY DEF NoScan, Scanning
<1>7. /\ active' \in Seq(Lines) /\ Len(active) <= Len(active')
      /\ \A j \in DOMAIN active : active'[j].url = active[j].url
      /\ \A j \in DOMAIN active' : active'[j] = Route(u) \/ (j \in DOMAIN active /\ active'[j] = active[j])
      /\ i = 0 => active' = Append(active, Route(u))
  <2> HIDE DEF u, i, Lines, Route
  <2> QED
    BY <1>2, <1>4, AcceptedFits
<1>8. Route(u).url = u /\ Route(u).host = site[u].host /\ Route(u).bad = FALSE
  BY DEF Route
<1>9. /\ Len(active) \in Nat /\ DOMAIN active = 1 .. Len(active)
      /\ Len(active') \in Nat /\ DOMAIN active' = 1 .. Len(active') /\ Len(active) <= Len(active')
  BY <1>7, RouteType
<1> HIDE DEF u, i
<1> DEFINE n == Len(active)
           m == Len(active')
<1>16. /\ n \in Nat /\ m \in Nat /\ n <= m /\ DOMAIN active = 1 .. n /\ DOMAIN active' = 1 .. m
       /\ 1 .. n \subseteq 1 .. m /\ 0 .. n \subseteq 0 .. m
  <2>1. n \in Nat /\ m \in Nat /\ n <= m /\ DOMAIN active = 1 .. n /\ DOMAIN active' = 1 .. m
    BY <1>9
  <2> HIDE DEF n, m
  <2> QED
    BY <2>1
<1>10. MetaFirst'
  <2>1. 1 \in DOMAIN active /\ active[1].url = meta.url
    BY <1>9 DEF StateFits, MetaFirst
  <2>2. active'[1].url = meta.url
    BY <1>7, <2>1
  <2>3. active' # <<>>
    BY <1>16, <2>1
  <2> QED
    BY <1>2, <2>2, <2>3 DEF StateFits, MetaFirst, Known
<1>11. RoutesFit'
  <2>1. ASSUME NEW j \in DOMAIN active'
        PROVE  active'[j].host = site[active'[j].url].host /\ SameHead(active'[j].url)
    <3>1. CASE active'[j] = Route(u)
      BY <1>4, <1>8, <3>1
    <3>2. CASE j \in DOMAIN active /\ active'[j] = active[j]
      BY <3>2 DEF StateFits, RoutesFit
    <3> QED
      BY <1>7, <2>1, <3>1, <3>2
  <2> QED
    BY <1>2, <2>1 DEF RoutesFit, SameHead
<1>12. PrintFits'
  BY <1>2 DEF StateFits, PrintFits, Known
<1>13. ScansFit'
  <2>1. ASSUME NEW x \in Scans \ {e}
        PROVE  ScanFits(scan[x])'
    <3>1. ScanFits(scan[x]) /\ scan'[x] = scan[x]
      BY <1>1 DEF StateFits, ScansFit
    <3>2. scan[x].recover \in 0 .. Len(active')
      BY <1>16, <3>1 DEF ScanFits
    <3> QED
      BY <1>2, <3>1, <3>2 DEF ScanFits, SameHead
  <2>2. sc.at \in {"off", "receive"} /\ sc.recover = 0
    BY <1>5, <1>6
  <2>3. ScanFits(scan[e])'
    BY <1>1, <1>9, <2>2 DEF ScanFits
  <2> QED
    BY <2>1, <2>3 DEF ScansFit
<1>14. FetchesFit'
  <2>1. DOMAIN active \subseteq DOMAIN active'
    BY <1>16
  <2> QED
    BY <1>2, <2>1 DEF StateFits, FetchesFit, FetchFits
<1>15. Undisturbed'
  <2>1. SUFFICES ASSUME faults = 0
                 PROVE  /\ OneGoroutine' /\ AllWork' /\ FirstFollowed'
                        /\ DistinctHosts' /\ Len(active') <= PoolSize
                        /\ scan'["initial"].at # "off" => Expanding(scan["initial"])'
    BY <1>2 DEF Undisturbed
  <2>2. e = "initial"
    BY <1>3, <2>1 DEF Undisturbed, OneGoroutine, Scans
  <2>3. scan'["replenish"] = scan["replenish"] /\ scan'["initial"] = sc
    BY <1>1, <2>2 DEF Scans
  <2>4. /\ Len(active) < scan[e].want /\ scan[e].want <= PoolSize /\ i = 0
        /\ \A j \in DOMAIN active : active[j].host \in scan[e].hosts
        /\ site[u].host \notin scan[e].hosts
    BY <1>3, <2>1, <2>2 DEF Undisturbed, Expanding, u, i
  <2>5. /\ Len(active') = Len(active) + 1
        /\ \A j \in DOMAIN active' : IF j = Len(active) + 1 THEN active'[j] = Route(u)
                                     ELSE j \in DOMAIN active /\ active'[j] = active[j]
    <3>1. active \in Seq(Lines) /\ active' = Append(active, Route(u)) /\ Route(u) \in Lines
      <4>1. active' = Append(active, Route(u))
        BY <1>7, <2>4
      <4>2. Route(u) \in Lines
        BY <1>4 DEF Route, Lines, PoolTypes, SourceTypes
      <4> QED
        BY <4>1, <4>2, RouteType
    <3>2. /\ Len(active') = Len(active) + 1
          /\ \A j \in 1 .. Len(active) : active'[j] = active[j]
          /\ active'[Len(active) + 1] = Route(u)
      <4> HIDE DEF Lines, Route
      <4> QED
        BY <3>1, AppendProperties
    <3> QED
      BY <1>9, <3>2
  <2>6. OneGoroutine' /\ FirstFollowed'
    BY <1>2, <1>7, <1>16, <2>1, <2>3 DEF Undisturbed, OneGoroutine, FirstFollowed, StandbyUsed, Known
  <2>7. AllWork'
    BY <1>8, <2>1, <2>5 DEF Undisturbed, AllWork
  <2>9. DistinctHosts'
    <3>1. ASSUME NEW j \in DOMAIN active', NEW k \in DOMAIN active', active'[j].host = active'[k].host
          PROVE  j = k
      <4>1. \A x \in DOMAIN active' :
                IF x = Len(active) + 1 THEN active'[x].host \notin scan[e].hosts
                ELSE x \in DOMAIN active /\ active'[x] = active[x] /\ active[x].host \in scan[e].hosts
        BY <1>8, <2>4, <2>5
      <4>2. DistinctHosts
        BY <2>1 DEF Undisturbed
      <4> QED
        BY <3>1, <4>1, <4>2 DEF DistinctHosts
    <3> QED
      BY <3>1 DEF DistinctHosts
  <2>10. PoolSize \in Nat /\ scan[e].want \in Nat
    BY <1>3, Given DEF IsScan
  <2>11. Len(active') <= PoolSize
    BY <1>9, <2>4, <2>5, <2>10
  <2>12. sc.at # "off" => Expanding(sc)'
    <3>1. SUFFICES ASSUME sc.at # "off"
                   PROVE  Expanding(sc)'
      OBVIOUS
    <3>2. HealthyIn(active') = 1 .. Len(active')
      BY <1>9, <2>7 DEF HealthyIn, AllWork
    <3>3. Cardinality(HealthyIn(active')) = Len(active')
      <4>1. ASSUME NEW k \in Nat
            PROVE  Cardinality(1 .. k) = k
        BY FS_Interval
      <4> QED
        BY <1>9, <3>2, <4>1
    <3>4. Len(active') < sc.want /\ sc.want <= PoolSize
      BY <1>5, <1>6, <1>9, <2>4, <2>10, <3>1, <3>3
    <3>5. \A j \in DOMAIN active' : active'[j].host \in sc.hosts
      BY <1>5, <1>6, <1>8, <2>4, <2>5, <3>1
    <3> QED
      BY <1>5, <1>6, <3>1, <3>4, <3>5 DEF Expanding
  <2> QED
    BY <2>3, <2>6, <2>7, <2>9, <2>11, <2>12
<1> QED
  BY <1>10, <1>11, <1>12, <1>13, <1>14, <1>15 DEF StateFits

LEMMA ExpansionKept ==
    ASSUME PoolTypes, Truthful, StateFits, Undisturbed, NEW e \in Scans, Expand(e)
    PROVE  StateFits' /\ Undisturbed'
<1>1. MetaFirst /\ ScansFit
  BY DEF StateFits
<1>2. Known /\ scan[e].at # "off"
  BY <1>1, ExpandSteps
<1>3. PICK sc : /\ IsScan(sc) /\ scan' = [scan EXCEPT ![e] = sc]
                /\ GoesOn(e, sc) \/ Compares(e, sc) \/ Matched(e, sc) \/ Joins(e, sc)
  BY <1>1, ExpandSteps
<1>4. CASE GoesOn(e, sc)
  BY <1>2, <1>3, <1>4, GoesOnKept
<1>5. CASE Compares(e, sc)
  BY <1>2, <1>3, <1>5, ComparesKept
<1>6. CASE Matched(e, sc)
  BY <1>2, <1>3, <1>6, MatchedKept
<1>7. CASE Joins(e, sc)
  BY <1>2, <1>3, <1>7, JoinsKept
<1> QED
  BY <1>3, <1>4, <1>5, <1>6, <1>7

LEMMA TryKept ==
    ASSUME PoolTypes, pinned \in BOOLEAN, StateFits, Undisturbed, Known, NEW f \in Fetchers,
           NEW p \in DOMAIN active, NEW n \in Nat, Try(f, p, n)
    PROVE  StateFits' /\ Undisturbed'
<1>1. UNCHANGED <<mode, site, meta, active, scan, need, faults, used>>
      /\ focus' = IF Follows /\ Healthy # {} THEN active[FocusIndex].url ELSE focus
  BY DEF Try, pastVars
<1>2. PICK d \in Downloads :
        /\ fetch' = [fetch EXCEPT ![f] = d]
        /\ d.at = "trying" /\ d.preferred = p /\ d.own = pinned
        /\ d.left \in Seq(DOMAIN active) /\ d.left # <<>>
        /\ Preferred(p) \in DOMAIN active
        /\ ~active[Preferred(p)].bad => d.left = <<Preferred(p)>>
  BY TryFits
<1>3. fetch'[f] = d /\ \A g \in Fetchers \ {f} : fetch'[g] = fetch[g]
  BY <1>2, FetchChanged
<1>4. MetaFirst' /\ RoutesFit' /\ PrintFits' /\ ScansFit'
  BY <1>1 DEF StateFits, MetaFirst, RoutesFit, SameHead, PrintFits, ScansFit, ScanFits, Known
<1>5. FetchesFit'
  <2>1. \A k \in DOMAIN d.left : d.left[k] \in DOMAIN active
    BY <1>2
  <2>2. ASSUME NEW g \in Fetchers
        PROVE  FetchFits(fetch[g])'
    <3>1. CASE g = f
      BY <1>1, <1>2, <1>3, <2>1, <3>1 DEF FetchFits
    <3>2. CASE g # f
      BY <1>1, <1>3, <3>2 DEF StateFits, FetchesFit, FetchFits
    <3> QED
      BY <3>1, <3>2
  <2> QED
    BY <2>2 DEF FetchesFit
<1>6. ASSUME faults = 0, mode = "failover"
      PROVE  /\ \E i \in StandbyUsed : i \in DOMAIN active /\ focus' = active[i].url
             /\ ~d.own => \E i \in StandbyUsed : d.left = <<i>>
  <2>1. PICK i \in StandbyUsed : i \in DOMAIN active /\ focus = active[i].url
    BY <1>6 DEF Undisturbed, FirstFollowed
  <2>2. FocusIndex = i /\ ~active[i].bad
    BY <1>6, <2>1, FocusFound DEF Undisturbed, AllWork, StateFits
  <2>3. focus' = active[i].url
    BY <1>1, <2>1, <2>2
  <2>4. ~d.own => d.left = <<i>>
    BY <1>2, <1>6, <2>2 DEF Preferred, Follows
  <2> QED
    BY <2>1, <2>3, <2>4
<1>7. Undisturbed'
  <2>1. SUFFICES ASSUME faults = 0
                 PROVE  /\ OneGoroutine' /\ AllWork' /\ FirstFollowed'
                        /\ DistinctHosts' /\ Len(active') <= PoolSize
                        /\ scan'["initial"].at # "off" => Expanding(scan["initial"])'
    BY <1>1 DEF Undisturbed
  <2>2. FirstFollowed'
    BY <1>1, <1>3, <1>6, <2>1 DEF Undisturbed, FirstFollowed, StandbyUsed
  <2> QED
    BY <1>1, <2>1, <2>2 DEF Undisturbed, OneGoroutine, AllWork, DistinctHosts, Expanding, Known
<1> QED
  BY <1>4, <1>5, <1>7 DEF StateFits

(* A download's result: a route's health changes, nothing else of it. *)
LEMMA ResultKept ==
    ASSUME PoolTypes, StateFits, UNCHANGED <<mode, site, meta>>,
           NEW i \in DOMAIN active, NEW b \in BOOLEAN, active' = [active EXCEPT ![i].bad = b],
           NEW f \in Fetchers, NEW d \in Downloads, fetch' = [fetch EXCEPT ![f] = d], FetchFits(d), Known
    PROVE  MetaFirst' /\ RoutesFit' /\ PrintFits' /\ FetchesFit'
<1>1. /\ active' \in Seq(Lines) /\ Len(active') = Len(active) /\ DOMAIN active' = DOMAIN active
      /\ \A j \in DOMAIN active : active'[j].url = active[j].url /\ active'[j].host = active[j].host
  BY HealthChanged
<1>2. fetch'[f] = d /\ \A g \in Fetchers \ {f} : fetch'[g] = fetch[g]
  BY FetchChanged
<1>3. MetaFirst'
  <2>1. 1 \in DOMAIN active /\ active[1].url = meta.url
    BY RouteType DEF StateFits, MetaFirst
  <2>2. active' # <<>> /\ active'[1].url = meta.url
    <3>1. 1 \in DOMAIN active' /\ active'[1].url = meta.url
      BY <1>1, <2>1
    <3> QED
      BY <3>1
  <2> QED
    BY <2>2 DEF MetaFirst, Known
<1>4. RoutesFit'
  <2>1. \A j \in DOMAIN active : /\ active[j].host = site[active[j].url].host
                                 /\ SameHead(active[j].url)
    BY DEF StateFits, RoutesFit
  <2> QED
    BY <1>1, <2>1 DEF RoutesFit, SameHead
<1>5. PrintFits'
  BY DEF StateFits, PrintFits, Known
<1>6. FetchesFit'
  <2>1. DOMAIN active' = DOMAIN active
    BY <1>1
  <2>2. ASSUME NEW g \in Fetchers
        PROVE  FetchFits(fetch[g])'
    <3>1. fetch'[g] = d \/ fetch'[g] = fetch[g]
      BY <1>2
    <3>2. FetchFits(fetch[g])
      BY DEF StateFits, FetchesFit
    <3> QED
      BY <2>1, <3>1, <3>2 DEF FetchFits
  <2> QED
    BY <2>2 DEF FetchesFit
<1> QED
  BY <1>3, <1>4, <1>5, <1>6

LEMMA SuccessKept ==
    ASSUME PoolTypes, StateFits, Undisturbed, NEW f \in Fetchers, FetchSucceeds(f)
    PROVE  StateFits' /\ Undisturbed'
<1> DEFINE i == Head(fetch[f].left)
<1>1. /\ fetch[f].at = "trying" /\ active' = [active EXCEPT ![i].bad = FALSE]
      /\ focus' = IF mode = "failover" THEN active[i].url ELSE focus
      /\ need' = FALSE /\ fetch' = [fetch EXCEPT ![f] = NoFetch]
      /\ scan' = IF need /\ ~released /\ scan["replenish"].at = "off"
                 THEN [scan EXCEPT !["replenish"].at = "start"] ELSE scan
      /\ used' = (IF fetch[f].own THEN used \cup {i} ELSE used)
      /\ UNCHANGED <<mode, site, meta, faults>>
  BY DEF FetchSucceeds
<1>2. FetchesFit /\ Known
  BY <1>1 DEF StateFits, MetaFirst
<1>3. i \in DOMAIN active /\ i = fetch[f].left[1]
  BY <1>1, <1>2, HeadFits
<1> HIDE DEF i
<1>4. FetchFits(NoFetch) /\ NoFetch \in Downloads
  BY BlankTypes DEF FetchFits, NoFetch
<1>5. MetaFirst' /\ RoutesFit' /\ PrintFits' /\ FetchesFit'
  BY <1>1, <1>2, <1>3, <1>4, ResultKept
<1>6. /\ active' \in Seq(Lines) /\ Len(active') = Len(active) /\ DOMAIN active' = DOMAIN active
      /\ \A j \in DOMAIN active : /\ active'[j].url = active[j].url
                                  /\ active'[j].host = active[j].host
                                  /\ active'[j].bad = IF j = i THEN FALSE ELSE active[j].bad
  BY <1>1, <1>3, HealthChanged
<1>7. ScansFit'
  <2>1. ASSUME NEW x \in Scans
        PROVE  scan'[x] = scan[x] \/ (scan'[x].at = "start" /\ scan'[x].recover = 0)
    <3> DEFINE sc == [scan["replenish"] EXCEPT !.at = "start"]
    <3>1. "replenish" \in Scans /\ IsScan(scan["replenish"]) /\ ScanFits(scan["replenish"])
      BY DEF PoolTypes, ScanTypes, Scans, StateFits, ScansFit
    <3>2. scan["replenish"].at = "off" => scan["replenish"].recover = 0
      BY <3>1 DEF ScanFits
    <3>3. IsScan(sc) /\ sc.at = "start" /\ sc.recover = scan["replenish"].recover
      BY <3>1 DEF IsScan
    <3>4. \/ scan' = scan
          \/ scan["replenish"].at = "off" /\ scan' = [scan EXCEPT !["replenish"] = sc]
      BY <1>1
    <3> HIDE DEF sc
    <3>5. CASE scan["replenish"].at = "off" /\ scan' = [scan EXCEPT !["replenish"] = sc]
      BY <3>1, <3>2, <3>3, <3>5, ScanChanged
    <3> QED
      BY <3>4, <3>5
  <2>2. ASSUME NEW x \in Scans
        PROVE  ScanFits(scan[x])'
    <3>1. ScanFits(scan[x])
      BY DEF StateFits, ScansFit
    <3>2. CASE scan'[x] = scan[x]
      BY <1>1, <1>6, <3>1, <3>2 DEF ScanFits, SameHead
    <3>3. CASE scan'[x].at = "start" /\ scan'[x].recover = 0
      <4>1. 0 \in 0 .. Len(active')
        BY <1>6, RouteType
      <4> QED
        BY <3>3, <4>1 DEF ScanFits
    <3> QED
      BY <2>1, <3>2, <3>3
  <2> QED
    BY <2>2 DEF ScansFit
<1>8. Undisturbed'
  <2>1. SUFFICES ASSUME faults = 0
                 PROVE  /\ OneGoroutine' /\ AllWork' /\ FirstFollowed'
                        /\ DistinctHosts' /\ Len(active') <= PoolSize
                        /\ scan'["initial"].at # "off" => Expanding(scan["initial"])'
    BY <1>1 DEF Undisturbed
  <2>2. OneGoroutine /\ scan' = scan
    BY <1>1, <2>1 DEF Undisturbed, OneGoroutine
  <2>3. OneGoroutine'
    BY <1>1, <2>2 DEF OneGoroutine
  <2>4. AllWork' /\ DistinctHosts' /\ Len(active') <= PoolSize
    BY <1>6, <2>1 DEF Undisturbed, AllWork, DistinctHosts
  <2>6. FirstFollowed'
    <3>1. StandbyUsed \subseteq StandbyUsed'
      BY <1>1 DEF StandbyUsed
    <3>2. mode = "failover" => i \in StandbyUsed'
      <4>1. CASE fetch[f].own
        BY <1>1, <4>1 DEF StandbyUsed
      <4>2. CASE mode = "failover" /\ ~fetch[f].own
        <5>1. PICK k \in StandbyUsed : fetch[f].left = <<k>>
          BY <1>1, <2>1, <4>2 DEF Undisturbed, FirstFollowed
        <5>2. i = k
          BY <1>3, <5>1
        <5> QED
          BY <3>1, <5>1, <5>2
      <4> QED
        BY <4>1, <4>2
    <3>3. mode = "failover" => focus' = active'[i].url /\ i \in DOMAIN active'
      BY <1>1, <1>3, <1>6
    <3>4. fetch'[f].at = "idle" /\ \A g \in Fetchers \ {f} : fetch'[g] = fetch[g]
      BY <1>1, <1>4, FetchChanged DEF NoFetch
    <3>5. \A g \in Fetchers : mode = "failover" /\ fetch[g].at = "trying" /\ ~fetch[g].own =>
                \E k \in StandbyUsed : fetch[g].left = <<k>>
      BY <2>1 DEF Undisturbed, FirstFollowed
    <3> QED
      BY <1>1, <3>1, <3>2, <3>3, <3>4, <3>5 DEF FirstFollowed
  <2>7. scan'["initial"].at # "off" => Expanding(scan["initial"])'
    <3>1. scan["initial"].at # "off" => Expanding(scan["initial"])
      BY <2>1 DEF Undisturbed
    <3> QED
      BY <1>1, <1>6, <2>2, <3>1 DEF Expanding
  <2> QED
    BY <2>3, <2>4, <2>6, <2>7
<1> QED
  BY <1>5, <1>7, <1>8 DEF StateFits

LEMMA FailureKept ==
    ASSUME PoolTypes, StateFits, NEW f \in Fetchers, FetchFails(f)
    PROVE  StateFits' /\ Undisturbed'
<1> DEFINE i == Head(fetch[f].left)
           rest == Tail(fetch[f].left)
           d == IF rest # <<>> THEN [fetch[f] EXCEPT !.left = rest]
                ELSE IF fetch[f].try < Retries THEN [fetch[f] EXCEPT !.at = "pause", !.left = <<>>]
                ELSE NoFetch
<1>1. /\ fetch[f].at = "trying" /\ active' = [active EXCEPT ![i].bad = TRUE]
      /\ fetch' = [fetch EXCEPT ![f] = d] /\ faults' = faults + 1
      /\ UNCHANGED <<mode, site, meta, scan>>
  BY DEF FetchFails
<1>2. FetchesFit /\ Known
  BY <1>1 DEF StateFits, MetaFirst
<1>3. i \in DOMAIN active /\ rest \in Seq(Nat) /\ \A k \in DOMAIN rest : rest[k] \in DOMAIN active
  BY <1>1, <1>2, HeadFits
<1>4. fetch[f] \in Downloads /\ fetch[f].preferred \in DOMAIN active
  BY <1>1, <1>2 DEF PoolTypes, FetchTypes, FetchesFit, FetchFits
<1>5. d \in Downloads /\ FetchFits(d)
  <2>1. CASE rest # <<>>
    <3>1. d \in Downloads /\ d.left = rest /\ d.at = "trying" /\ d.preferred = fetch[f].preferred
      BY <1>1, <1>3, <1>4, <2>1 DEF Downloads
    <3> HIDE DEF d, rest
    <3> QED
      BY <1>3, <1>4, <2>1, <3>1 DEF FetchFits
  <2>2. CASE rest = <<>> /\ fetch[f].try < Retries
    <3>1. <<>> \in Seq(Nat)
      OBVIOUS
    <3>2. \A none \in Seq(Nat) :
            LET new == [fetch[f] EXCEPT !.at = "pause", !.left = none]
            IN  /\ new \in Downloads
                /\ new.left = none /\ new.at = "pause" /\ new.preferred = fetch[f].preferred
      BY <1>4 DEF Downloads
    <3>3. d = [fetch[f] EXCEPT !.at = "pause", !.left = <<>>]
      BY <2>2
    <3>4. d \in Downloads /\ d.left = <<>> /\ d.at = "pause" /\ d.preferred = fetch[f].preferred
      BY <3>1, <3>2, <3>3
    <3> HIDE DEF d
    <3> QED
      BY <1>4, <3>4 DEF FetchFits
  <2>3. CASE rest = <<>> /\ ~(fetch[f].try < Retries)
    <3>1. d = NoFetch
      BY <2>3
    <3>2. FetchFits(NoFetch) /\ NoFetch \in Downloads
      BY BlankTypes DEF FetchFits, NoFetch
    <3> QED
      BY <3>1, <3>2
  <2> QED
    BY <2>1, <2>2, <2>3
<1> HIDE DEF i, rest, d
<1>6. MetaFirst' /\ RoutesFit' /\ PrintFits' /\ FetchesFit'
  BY <1>1, <1>2, <1>3, <1>5, ResultKept
<1>7. ScansFit'
  <2>1. Len(active') = Len(active)
    BY <1>1, <1>3, HealthChanged
  <2> QED
    BY <1>1, <2>1 DEF StateFits, ScansFit, ScanFits, SameHead
<1>8. faults' # 0
  BY <1>1 DEF PoolTypes, FetchTypes
<1> QED
  BY <1>6, <1>7, <1>8 DEF StateFits, Undisturbed

LEMMA CancelKept ==
    ASSUME PoolTypes, StateFits, Undisturbed, NEW f \in Fetchers, FetchCanceled(f)
    PROVE  StateFits' /\ Undisturbed'
<1>1. fetch' = [fetch EXCEPT ![f] = NoFetch] /\ fetch[f].at # "idle"
      /\ UNCHANGED <<mode, site, meta, active, focus, scan, need, faults, used>>
  BY DEF FetchCanceled, sourceVars, pastVars
<1>2. NoFetch.at = "idle" /\ NoFetch.left = <<>> /\ fetch'[f] = NoFetch
      /\ \A g \in Fetchers \ {f} : fetch'[g] = fetch[g]
  BY <1>1, BlankTypes, FetchChanged DEF NoFetch
<1>3. MetaFirst' /\ RoutesFit' /\ PrintFits' /\ ScansFit'
  BY <1>1, <1>2 DEF StateFits, MetaFirst, RoutesFit, SameHead, PrintFits, ScansFit, ScanFits, Known
<1>4. FetchesFit'
  <2>1. ASSUME NEW g \in Fetchers
        PROVE  FetchFits(fetch[g])'
    <3>1. CASE g = f
      BY <1>2, <3>1 DEF FetchFits
    <3>2. CASE g # f
      BY <1>1, <1>2, <3>2 DEF StateFits, FetchesFit, FetchFits
    <3> QED
      BY <3>1, <3>2
  <2> QED
    BY <2>1 DEF FetchesFit
<1>5. Undisturbed'
  <2>1. FirstFollowed => FirstFollowed'
    BY <1>1, <1>2 DEF FirstFollowed, StandbyUsed, Known
  <2> QED
    BY <1>1, <2>1 DEF Undisturbed, OneGoroutine, AllWork, DistinctHosts, Expanding, Known
<1> QED
  BY <1>3, <1>4, <1>5 DEF StateFits

LEMMA DownloadKept ==
    ASSUME PoolTypes, pinned \in BOOLEAN, StateFits, Undisturbed, NEW f \in Fetchers, Download(f)
    PROVE  StateFits' /\ Undisturbed'
<1>1. ASSUME NEW p \in 1 .. MaxRoutes, FetchStarts(f, p)
      PROVE  StateFits' /\ Undisturbed'
  <2>1. Known /\ p \in DOMAIN active /\ Try(f, p, 1)
    BY <1>1 DEF FetchStarts, Known
  <2> QED
    BY <2>1, TryKept
<1>2. CASE FetchRetries(f)
  <2>1. fetch[f].at = "pause" /\ Try(f, fetch[f].preferred, fetch[f].try + 1)
    BY <1>2 DEF FetchRetries
  <2>2. Known /\ fetch[f].preferred \in DOMAIN active /\ fetch[f].try + 1 \in Nat
    BY <2>1 DEF StateFits, MetaFirst, FetchesFit, FetchFits, PoolTypes, FetchTypes, Downloads
  <2> QED
    BY <2>1, <2>2, TryKept
<1> QED
  BY <1>1, <1>2, SuccessKept, FailureKept, CancelKept DEF Download

-----------------------------------------------------------------------------
(* The past, and the bytes of the routes *)

LEMMA PinnedKept ==
    ASSUME pinned \in BOOLEAN, PoolNext
    PROVE  pinned' \in BOOLEAN
<1>1. ASSUME NEW r \in Requests, Lookup(r) \/ Enter(r) \/ Probe(r) \/ Leave(r)
      PROVE  UNCHANGED pinned
  BY <1>1 DEF Lookup, Enter, Probe, Leave, ProbeFails, ProbeRefused, EndsUnaccepted, ProbeAccepted,
              ProbeExpires
<1>2. ASSUME NEW e \in Scans, Expand(e)
      PROVE  UNCHANGED pinned
  BY <1>2 DEF Expand, ScanStarts, ScanExpires, ScanSamples, ScanSampleFails, ScanAccepts, ScanDrops,
              ScanReceives
<1>3. ASSUME NEW f \in Fetchers, Download(f)
      PROVE  UNCHANGED pinned
  BY <1>3 DEF Download, FetchStarts, FetchRetries, Try, FetchSucceeds, FetchFails, FetchCanceled
<1> QED
  BY <1>1, <1>2, <1>3 DEF PoolNext, Release, Rebalance, Gone, poolVars

(* What a download does to the routes' urls and to the past *)
LEMMA DownloadPast ==
    ASSUME PoolTypes, MetaFirst, FetchesFit, NEW f \in Fetchers, Download(f)
    PROVE  /\ UNCHANGED <<site, meta, byHead>> /\ DOMAIN active' = DOMAIN active
           /\ \A j \in DOMAIN active : active'[j].url = active[j].url
           /\ scan' = scan \/ scan' = [scan EXCEPT !["replenish"].at = "start"]
           /\ used' = used \/ (Known /\ \E i \in DOMAIN active : used' = used \cup {i})
<1>1. ASSUME NEW p \in 1 .. MaxRoutes, FetchStarts(f, p) \/ FetchRetries(f) \/ FetchCanceled(f)
      PROVE  UNCHANGED <<site, meta, active, scan, byHead, used>>
  BY <1>1 DEF FetchStarts, FetchRetries, Try, FetchCanceled, sourceVars, pastVars
<1>2. FetchRetries(f) \/ FetchCanceled(f) => UNCHANGED <<site, meta, active, scan, byHead, used>>
  BY DEF FetchRetries, Try, FetchCanceled, sourceVars, pastVars
<1> DEFINE i == Head(fetch[f].left)
<1>3. ASSUME FetchSucceeds(f) \/ FetchFails(f)
      PROVE  /\ UNCHANGED <<site, meta, byHead>> /\ Known /\ i \in DOMAIN active
             /\ \E b \in BOOLEAN : active' = [active EXCEPT ![i].bad = b]
             /\ scan' = scan \/ scan' = [scan EXCEPT !["replenish"].at = "start"]
             /\ used' = used \/ used' = used \cup {i}
  <2>1. fetch[f].at = "trying"
    BY <1>3 DEF FetchSucceeds, FetchFails
  <2>2. i \in DOMAIN active /\ Known
    BY <2>1, HeadFits DEF MetaFirst
  <2>3. CASE FetchSucceeds(f)
    BY <2>2, <2>3 DEF FetchSucceeds
  <2>4. CASE FetchFails(f)
    BY <2>2, <2>4 DEF FetchFails, pastVars
  <2> QED
    BY <1>3, <2>3, <2>4
<1> HIDE DEF i
<1>4. CASE FetchSucceeds(f) \/ FetchFails(f)
  BY <1>3, <1>4, HealthChanged
<1> QED
  BY <1>1, <1>2, <1>4 DEF Download

LEMMA PastKept ==
    ASSUME PoolTypes, Truthful, RoundFits, StateFits, PastFits, PoolNext
    PROVE  PastFits'
<1>1. pinned' \in BOOLEAN
  BY PinnedKept DEF PastFits
<1>2. MetaFirst /\ ScansFit /\ FetchesFit
  BY DEF StateFits
<1>3. CASE Untouched
  BY <1>1, <1>3 DEF PastFits, Untouched, pastVars, Known
<1>4. ASSUME NEW r \in Requests, NEW u \in UrlSet, ProbeAccepted(r, u)
      PROVE  PastFits'
  <2>1. ~Known
    BY <1>4, Given DEF ProbeAccepted, RoundFits
  <2>2. used' = {} /\ byHead' = {}
    BY <1>4, <2>1 DEF ProbeAccepted, PastFits, pastVars, Known, NoMeta
  <2> QED
    BY <1>1, <2>2 DEF PastFits
<1>5. ASSUME NEW e \in Scans, Expand(e)
      PROVE  PastFits'
  <2>1. PICK sc : GoesOn(e, sc) \/ Compares(e, sc) \/ Matched(e, sc) \/ Joins(e, sc)
    BY <1>2, <1>5, ExpandSteps
  <2>2. Known
    BY <1>2, <1>5, ExpandSteps
  <2>3. CASE GoesOn(e, sc) \/ Compares(e, sc)
    BY <1>1, <2>3 DEF GoesOn, Compares, Reads, PastFits, Known
  <2>4. CASE Matched(e, sc)
    <3>1. UNCHANGED <<active, used>>
      BY <2>4 DEF Matched, Reads
    <3>2. /\ Known' /\ byHead' \subseteq UrlSet
          /\ meta'.print = "none" => meta.print = "none" /\ byHead' = byHead
      BY <2>2, <2>4, MatchedFacts DEF PastFits
    <3> QED
      BY <1>1, <3>1, <3>2 DEF PastFits
  <2>5. CASE Joins(e, sc)
    <3>1. scan[e].url \in UrlSet /\ scan[e].recover \in Nat /\ active' = Accepted(scan[e].url, scan[e].recover)
      BY <1>2, <2>5 DEF Joins, PoolTypes, ScanTypes, IsScan, ScansFit, ScanFits
    <3>2. active' \in Seq(Lines) /\ Len(active) <= Len(active')
      BY <3>1, AcceptedFits
    <3>3. DOMAIN active \subseteq DOMAIN active'
      <4>1. Len(active) \in Nat /\ Len(active') \in Nat /\ DOMAIN active = 1 .. Len(active)
            /\ DOMAIN active' = 1 .. Len(active')
        BY <3>2, RouteType
      <4> QED
        BY <3>2, <4>1
    <3> QED
      BY <1>1, <2>5, <3>3 DEF Joins, pastVars, PastFits, Known
  <2> QED
    BY <2>1, <2>3, <2>4, <2>5
<1>6. ASSUME NEW f \in Fetchers, Download(f)
      PROVE  PastFits'
  BY <1>1, <1>2, <1>6, DownloadPast DEF PastFits, Known
<1> QED
  BY <1>3, <1>4, <1>5, <1>6, UntouchedSteps DEF PoolNext, Probe

(* A goroutine that goes on with sc, which carries what it should, over    *)
(* the same metadata                                                       *)
LEMMA CarriedOn ==
    ASSUME PoolTypes, MediaFits, NEW e \in Scans, NEW sc, IsScan(sc), scan' = [scan EXCEPT ![e] = sc],
           UNCHANGED <<site, meta, byHead>>, Carries(sc)
    PROVE  \A x \in Scans : Carries(scan[x])'
<1>1. scan'[e] = sc /\ \A x \in Scans \ {e} : scan'[x] = scan[x]
  BY ScanChanged
<1>2. ASSUME NEW x \in Scans
      PROVE  Carries(scan[x])'
  <2>1. scan'[x] = sc \/ scan'[x] = scan[x]
    BY <1>1
  <2>2. Carries(scan[x])
    BY DEF MediaFits
  <2> QED
    BY <2>1, <2>2 DEF Carries, Whole
<1> QED
  BY <1>2

LEMMA MatchedMedia ==
    ASSUME PoolTypes, Truthful, StateFits, PastFits, MediaFits, Known, NEW e \in Scans,
           NEW sc, IsScan(sc), scan' = [scan EXCEPT ![e] = sc], Matched(e, sc)
    PROVE  MediaFits'
<1> DEFINE first == scan[e].first
           u == scan[e].url
<1>1. scan'[e] = sc /\ \A x \in Scans \ {e} : scan'[x] = scan[x]
  BY ScanChanged
<1>2. UNCHANGED <<site, active>> /\ sc.at = "accept" /\ sc.url = u
  BY DEF Matched, Reads, PoolTypes, ScanTypes, IsScan
<1>3. scan[e].at = "sample" /\ meta'.url = meta.url /\ Known' /\ u \in UrlSet
  BY MatchedFacts
<1>4. PICK fp \in Metas :
          /\ byHead' = IF fp.print = "head" THEN byHead \cup {u} ELSE byHead
          /\ IF meta.print = "none" THEN meta'.print = fp.print /\ meta'.bytes = fp.bytes ELSE meta' = meta
          /\ fp.print \in {"head", "full"} /\ (first.print # "none" => fp = first)
          /\ fp.print = "full" => site[u].bytes = fp.bytes
          /\ first.print = "none" /\ fp.print = "full" => fp.bytes = site[first.url].bytes
          /\ first.print # "none" => first.print = meta.print /\ first.bytes = meta.bytes
  BY MatchedFacts
<1>5. Carries(scan[e]) /\ (first.print = "none" => site[first.url].bytes = site[meta.url].bytes)
  BY <1>3 DEF MediaFits, Carries
<1> HIDE DEF first, u
<1>6. fp.print = "full" => fp.bytes = site[meta.url].bytes
  BY <1>4, <1>5 DEF MediaFits
<1>7. byHead \subseteq byHead'
  BY <1>4
<1>9. u \notin byHead' => site[u].bytes = site[meta.url].bytes
  BY <1>2, <1>3, <1>4, <1>6 DEF Whole
<1>10. \A x \in Scans : Carries(scan[x])'
  <2>1. ASSUME NEW x \in Scans \ {e}
        PROVE  Carries(scan[x])'
    <3>1. Carries(scan[x]) /\ scan'[x] = scan[x]
      BY <1>1 DEF MediaFits
    <3> QED
      BY <1>2, <1>3, <1>7, <3>1 DEF Carries, Whole
  <2>2. Carries(scan[e])'
    BY <1>1, <1>2, <1>3, <1>9 DEF Carries, Whole
  <2> QED
    BY <2>1, <2>2
<1>11. meta'.print = "full" => meta'.bytes = site'[meta'.url].bytes
  BY <1>2, <1>3, <1>4, <1>6 DEF MediaFits
<1>12. \A i \in DOMAIN active' : Whole(active[i].url)'
  BY <1>2, <1>3, <1>7 DEF MediaFits, Whole
<1> QED
  BY <1>10, <1>11, <1>12 DEF MediaFits

LEMMA JoinedMedia ==
    ASSUME PoolTypes, StateFits, MediaFits, Known, NEW e \in Scans,
           NEW sc, IsScan(sc), scan' = [scan EXCEPT ![e] = sc], Joins(e, sc)
    PROVE  MediaFits'
<1> DEFINE u == scan[e].url
           k == scan[e].recover
<1>1. UNCHANGED <<site, meta, byHead>> /\ scan[e].at = "accept" /\ active' = Accepted(u, k)
  BY DEF Joins, pastVars
<1>2. u \in UrlSet /\ k \in Nat
  BY <1>1 DEF PoolTypes, ScanTypes, IsScan, StateFits, ScansFit, ScanFits
<1>3. Whole(u)
  BY <1>1 DEF MediaFits, Carries
<1> HIDE DEF u, k
<1>4. \A i \in DOMAIN active' : active'[i] = Route(u) \/ (i \in DOMAIN active /\ active'[i] = active[i])
  BY <1>1, <1>2, AcceptedFits
<1>5. Route(u).url = u
  BY DEF Route
<1>6. \A i \in DOMAIN active' : Whole(active'[i].url)
  BY <1>3, <1>4, <1>5 DEF MediaFits
<1>7. Carries(sc)
  <2>1. sc.at \in {"off", "receive"}
    BY DEF Joins, Waits, NoScan, Scanning
  <2> QED
    BY <2>1 DEF Carries
<1>8. \A x \in Scans : Carries(scan[x])'
  BY <1>1, <1>7, CarriedOn
<1> QED
  BY <1>1, <1>6, <1>8 DEF MediaFits, Whole

LEMMA ReadMedia ==
    ASSUME PoolTypes, Truthful, StateFits, PastFits, MediaFits, Known, NEW e \in Scans,
           NEW sc, IsScan(sc), scan' = [scan EXCEPT ![e] = sc], GoesOn(e, sc) \/ Compares(e, sc)
    PROVE  MediaFits'
<1>1. UNCHANGED <<site, meta, active, byHead>>
  BY DEF GoesOn, Compares, Reads
<1>2. GoesOn(e, sc) => Carries(sc)
  BY DEF GoesOn, Waits, NoScan, Scanning, Carries
<1>3. ASSUME Compares(e, sc)
      PROVE  Carries(sc)
  <2>1. meta.url \in UrlSet /\ meta \in Metas /\ sc.url \in UrlSet
    BY <1>3 DEF PoolTypes, SourceTypes, Compares
  <2>2. sc.at = "accept" => Whole(sc.url)
    BY <1>3, <2>1 DEF Compares, Truthful, Whole
  <2>3. sc.at = "sample" /\ sc.first.print = "none" => site[sc.first.url].bytes = site[meta.url].bytes
    <3>1. SUFFICES ASSUME sc.at = "sample", sc.first.print = "none"
                   PROVE  site[sc.first.url].bytes = site[meta.url].bytes
      OBVIOUS
    <3>2. Least(Healthy) \in DOMAIN active /\ sc.first = [meta EXCEPT !.url = active[Least(Healthy)].url]
      BY <1>3, <3>1, LeastHealthy DEF Compares
    <3>3. sc.first.url = active[Least(Healthy)].url /\ meta.print = "none"
      BY <2>1, <3>1, <3>2 DEF Metas
    <3>4. byHead = {}
      BY <3>3 DEF PastFits
    <3> QED
      BY <3>2, <3>3, <3>4 DEF MediaFits, Whole
  <2> QED
    BY <2>2, <2>3 DEF Carries
<1>4. Carries(sc)
  BY <1>2, <1>3
<1>5. \A x \in Scans : Carries(scan[x])'
  BY <1>1, <1>4, CarriedOn
<1> QED
  BY <1>1, <1>5 DEF MediaFits, Whole, Known

LEMMA MediaKept ==
    ASSUME PoolTypes, Truthful, RoundFits, StateFits, PastFits, MediaFits, PoolNext
    PROVE  MediaFits'
<1>1. MetaFirst /\ ScansFit /\ FetchesFit
  BY DEF StateFits
<1>2. UNCHANGED site
  BY SiteKept
<1>3. CASE Untouched
  BY <1>2, <1>3 DEF MediaFits, Carries, Whole, Untouched, pastVars, Known
<1>4. ASSUME NEW r \in Requests, NEW u \in UrlSet, ProbeAccepted(r, u)
      PROVE  MediaFits'
  <2>1. ~Known
    BY <1>4, Given DEF ProbeAccepted, RoundFits
  <2>2. active' = <<Route(u)>> /\ (meta' = meta \/ meta' = [NoMeta EXCEPT !.url = u])
    BY <1>4 DEF ProbeAccepted
  <2>3. \A i \in DOMAIN active' : active'[i].url = u
    BY <2>2 DEF Route
  <2>4. meta'.print = "none" /\ (Known' => meta'.url = u)
    BY <2>1, <2>2 DEF Known, NoMeta
  <2>5. \A e \in Scans : scan'[e].at \in {"off", "start"}
    <3> DEFINE sc == Scanning("start", Remaining(u, {Urls[i] : i \in 1 .. round.next - 1}), {},
                              {site[u].host}, Batch)
    <3>1. \A e \in Scans : scan[e].at = "off"
      BY <1>1, <2>1 DEF MetaFirst
    <3>2. scan' = scan \/ scan' = [scan EXCEPT !["initial"] = sc]
      BY <1>4 DEF ProbeAccepted
    <3>3. sc.at = "start"
      BY DEF Scanning
    <3> HIDE DEF sc
    <3>4. DOMAIN scan = Scans /\ scan = [e \in Scans |-> scan[e]]
      BY DEF PoolTypes, ScanTypes
    <3> QED
      BY <3>1, <3>2, <3>3, <3>4
  <2> QED
    BY <1>2, <2>3, <2>4, <2>5 DEF MediaFits, Carries, Whole
<1>5. ASSUME NEW e \in Scans, Expand(e)
      PROVE  MediaFits'
  <2>1. Known
    BY <1>1, <1>5, ExpandSteps
  <2>2. PICK sc : /\ IsScan(sc) /\ scan' = [scan EXCEPT ![e] = sc]
                  /\ GoesOn(e, sc) \/ Compares(e, sc) \/ Matched(e, sc) \/ Joins(e, sc)
    BY <1>1, <1>5, ExpandSteps
  <2> QED
    BY <2>1, <2>2, ReadMedia, MatchedMedia, JoinedMedia
<1>6. ASSUME NEW f \in Fetchers, Download(f)
      PROVE  MediaFits'
  <2>1. /\ UNCHANGED <<site, meta, byHead>> /\ DOMAIN active' = DOMAIN active
        /\ \A j \in DOMAIN active : active'[j].url = active[j].url
        /\ scan' = scan \/ scan' = [scan EXCEPT !["replenish"].at = "start"]
    BY <1>1, <1>6, DownloadPast
  <2>2. \A e \in Scans : scan'[e] = scan[e] \/ scan'[e].at = "start"
    <3>1. DOMAIN scan = Scans /\ scan = [e \in Scans |-> scan[e]] /\ IsScan(scan["replenish"])
      BY DEF PoolTypes, ScanTypes, Scans
    <3> DEFINE sc == [scan["replenish"] EXCEPT !.at = "start"]
    <3>2. sc.at = "start"
      BY <3>1 DEF IsScan
    <3>3. scan' = scan \/ scan' = [scan EXCEPT !["replenish"] = sc]
      BY <2>1
    <3> HIDE DEF sc
    <3> QED
      BY <3>1, <3>2, <3>3
  <2> QED
    BY <2>1, <2>2 DEF MediaFits, Carries, Whole, Known
<1> QED
  BY <1>3, <1>4, <1>5, <1>6, UntouchedSteps DEF PoolNext, Probe

LEMMA StateKept ==
    ASSUME PoolTypes, pinned \in BOOLEAN, Truthful, RoundFits, StateFits, Undisturbed, PoolNext
    PROVE  StateFits' /\ Undisturbed'
<1>1. Untouched => StateFits' /\ Undisturbed'
  BY UntouchedKept
<1>2. ASSUME NEW r \in Requests, Lookup(r) \/ Enter(r) \/ Probe(r) \/ Leave(r)
      PROVE  StateFits' /\ Undisturbed'
  BY <1>1, <1>2, UntouchedSteps, AcceptanceKept DEF Probe
<1>3. CASE Release \/ Rebalance \/ Gone
  BY <1>1, <1>3, UntouchedSteps
<1> QED
  BY <1>2, <1>3, ExpansionKept, DownloadKept DEF PoolNext

-----------------------------------------------------------------------------
(* The invariant *)

LEMMA PoolStarts ==
    ASSUME PoolInit
    PROVE  PoolInv
<1>1. PICK w \in Worlds : mode = w.mode /\ site = w.site
  BY DEF PoolInit
<1>2. /\ meta = NoMeta /\ unsupported = FALSE /\ active = <<>> /\ focus = None /\ cacheFile = FALSE
      /\ released = FALSE /\ lock = None /\ req = [r \in Requests |-> "idle"] /\ round = NoRound
      /\ scan = [e \in Scans |-> NoScan] /\ need = FALSE /\ fetch = [f \in Fetchers |-> NoFetch]
      /\ faults = 0
  BY DEF PoolInit
<1>3. NoScan.at = "off" /\ NoScan.recover = 0 /\ NoFetch.at = "idle" /\ NoFetch.left = <<>>
      /\ NoMeta.print = "none" /\ DOMAIN active = {} /\ Len(active) = 0
  BY <1>2 DEF NoScan, Scanning, NoFetch, NoMeta
<1>4. PoolTypes
  <2>1. SourceTypes
    <3>1. mode \in {"parallel", "failover"}
      BY <1>1, RouteAssumption
    <3>2. \A u \in UrlSet : site[u].host \in Hosts /\ {site[u].head, site[u].bytes} \subseteq Contents
      BY <1>1 DEF Hosts, Contents
    <3>3. active \in Seq(Lines)
      BY <1>2
    <3> QED
      BY <1>2, <3>1, <3>2, <3>3, BlankTypes DEF SourceTypes, Known
  <2>2. RequestTypes
    BY <1>2, BlankTypes DEF RequestTypes, Stages
  <2>3. ScanTypes
    BY <1>2, BlankTypes DEF ScanTypes
  <2>4. FetchTypes
    <3>1. fetch \in [Fetchers -> Downloads]
      BY <1>2, BlankTypes
    <3>2. MaxFaults \in Nat
      BY RouteAssumption
    <3>3. 0 \in 0 .. MaxFaults
      BY <3>2
    <3>4. need \in BOOLEAN /\ faults = 0
      BY <1>2
    <3> QED
      BY <3>1, <3>3, <3>4 DEF FetchTypes
  <2> QED
    BY <2>1, <2>2, <2>3, <2>4 DEF PoolTypes
<1>5. Truthful
  BY <1>1, ValidatorsTruthful DEF Truthful
<1>6. RoundFits
  BY <1>2, Given DEF RoundFits
<1>7. StateFits
  BY <1>2, <1>3 DEF StateFits, MetaFirst, RoutesFit, PrintFits, ScansFit, ScanFits, FetchesFit, FetchFits,
                    Known
<1>8. Undisturbed
  BY <1>2, <1>3, Given DEF Undisturbed, OneGoroutine, AllWork, FirstFollowed, DistinctHosts, Scans, Known
<1>9. PastFits /\ MediaFits
  <2>1. pinned \in BOOLEAN /\ byHead = {} /\ used = {}
    BY DEF PoolInit
  <2> QED
    BY <1>2, <1>3, <2>1 DEF PastFits, MediaFits, Carries, Known
<1> QED
  BY <1>4, <1>5, <1>6, <1>7, <1>8, <1>9 DEF PoolInv

(* Every step keeps the invariant. *)
LEMMA PoolKept ==
    ASSUME PoolInv, PoolNext
    PROVE  PoolInv'
<1>1. PoolTypes /\ Truthful /\ RoundFits /\ StateFits /\ Undisturbed /\ PastFits /\ MediaFits
      /\ pinned \in BOOLEAN /\ MetaFirst /\ ScansFit /\ FetchesFit
  BY DEF PoolInv, StateFits, PastFits
<1>2. PoolTypes'
  BY <1>1, TypesKept
<1>3. Truthful'
  BY <1>1, SiteKept
<1>4. RoundFits'
  BY <1>1, RoundKept
<1>5. StateFits' /\ Undisturbed'
  BY <1>1, StateKept
<1>6. PastFits' /\ MediaFits'
  BY <1>1, PastKept, MediaKept
<1> QED
  BY <1>2, <1>3, <1>4, <1>5, <1>6 DEF PoolInv

(* A step that changes nothing keeps it too. *)
LEMMA PoolStutters ==
    ASSUME PoolInv, UNCHANGED poolVars
    PROVE  PoolInv'
<1>1. UNCHANGED <<mode, site, meta, unsupported, active, focus, cacheFile, released, lock, req, round, scan,
                  fetch, need, faults, pinned, byHead, used>>
  BY DEF poolVars, sourceVars, requestVars, fetchVars, pastVars
<1>2. PoolTypes' /\ Truthful' /\ RoundFits'
  BY <1>1 DEF PoolInv, PoolTypes, SourceTypes, RequestTypes, ScanTypes, FetchTypes, Truthful, RoundFits, Known
<1>3. StateFits' /\ Undisturbed'
  BY <1>1, UntouchedKept DEF PoolInv, Untouched, fetchVars, pastVars
<1>4. PastFits' /\ MediaFits'
  BY <1>1 DEF PoolInv, PastFits, MediaFits, Carries, Whole, Known
<1> QED
  BY <1>2, <1>3, <1>4 DEF PoolInv

(* The inductive invariant holds in every state.                           *)
THEOREM PoolInvariant == PoolSpec => []PoolInv
<1>1. PoolInit => PoolInv
  BY PoolStarts
<1>2. PoolInv /\ [PoolNext]_poolVars => PoolInv'
  BY PoolKept, PoolStutters
<1> QED
  BY <1>1, <1>2, PTL DEF PoolSpec

(* Every variable has its type: a goroutine or a download never has the    *)
(* place of a route that is not there.                                     *)
THEOREM TypesHold == PoolSpec => []RouteTypeOK
<1>1. ASSUME PoolInv
      PROVE  RouteTypeOK
  <2>1. PoolTypes /\ RoundFits /\ StateFits
    BY <1>1 DEF PoolInv
  <2>2. \A i \in DOMAIN active : active[i] = [Route(active[i].url) EXCEPT !.bad = active[i].bad]
    <3>1. ASSUME NEW i \in DOMAIN active
          PROVE  active[i] = [Route(active[i].url) EXCEPT !.bad = active[i].bad]
      <4>1. active[i] \in Lines /\ active[i].host = site[active[i].url].host
        BY <2>1, RouteType DEF StateFits, RoutesFit
      <4> QED
        BY <4>1 DEF Lines, Route
    <3> QED
      BY <3>1
  <2>3. /\ meta \in [url : UrlSet \cup {None}, print : {"none", "head", "full"},
                     bytes : Contents \cup {"none"}]
        /\ unsupported \in BOOLEAN /\ cacheFile \in BOOLEAN /\ released \in BOOLEAN
        /\ focus \in UrlSet \cup {None} /\ lock \in Requests \cup {None}
        /\ need \in BOOLEAN /\ faults \in 0 .. MaxFaults
    BY <2>1 DEF PoolTypes, SourceTypes, RequestTypes, FetchTypes, Metas
  <2>4. /\ \A r \in Requests : lock = r <=> req[r] = "probing"
        /\ round.inFlight \subseteq UrlSet /\ (lock # None => round.inFlight # {})
    BY <2>1 DEF RoundFits, PoolTypes, RequestTypes, Rounds
  <2>5. \A e \in Scans : scan[e].recover \in 0 .. Len(active)
    BY <2>1 DEF StateFits, ScansFit, ScanFits
  <2>6. \A f \in Fetchers : /\ \A k \in DOMAIN fetch[f].left : fetch[f].left[k] \in DOMAIN active
                            /\ fetch[f].at = "trying" => fetch[f].left # <<>>
    BY <2>1 DEF StateFits, FetchesFit, FetchFits
  <2>7. pinned \in BOOLEAN /\ byHead \subseteq UrlSet /\ used \subseteq DOMAIN active
    BY <1>1 DEF PoolInv, PastFits
  <2> QED
    BY <2>2, <2>3, <2>4, <2>5, <2>6, <2>7 DEF RouteTypeOK
<1> QED
  BY <1>1, PoolInvariant, PTL

(* While no download has failed, every final host is used once and there   *)
(* are no more routes than workers, in whatever order probes end.          *)
THEOREM OneRouteEach == PoolSpec => []OneRoutePerHost
<1>1. PoolInv => OneRoutePerHost
  BY DEF PoolInv, Undisturbed, OneRoutePerHost
<1> QED
  BY <1>1, PoolInvariant, PTL

(* Every route has the size and the head of the media the metadata         *)
(* describe, and all of their bytes unless it was taken because its head   *)
(* alone matched: whatever goroutines take fingerprints at once, however   *)
(* many downloads fail.  ValidatorsTruthful is used, as adoptRoute relies  *)
(* on it.                                                                  *)
THEOREM MediaSame == PoolSpec => []SameMedia
<1>1. ASSUME PoolInv
      PROVE  SameMedia
  <2>1. SUFFICES ASSUME meta # NoMeta, NEW i \in DOMAIN active
                 PROVE  SameHead(active[i].url) /\ Whole(active[i].url)
    BY DEF SameMedia, Serving, SameHead, Whole
  <2>2. SameHead(active[i].url)
    BY <1>1, <2>1 DEF PoolInv, StateFits, RoutesFit, Known
  <2>3. Whole(active[i].url)
    BY <1>1, <2>1 DEF PoolInv, MediaFits, Known
  <2> QED
    BY <2>2, <2>3
<1> QED
  BY <1>1, PoolInvariant, PTL

(* In failover mode and without a failure a source that is by itself       *)
(* downloads from its first route or one that served it while it shared    *)
(* the entrances, and from that route alone.                               *)
THEOREM StandbyStays == PoolSpec => []StandbyKept
<1>1. PoolInv => StandbyKept
  BY DEF PoolInv, Undisturbed, FirstFollowed, StandbyUsed, StandbyKept
<1> QED
  BY <1>1, PoolInvariant, PTL

(* A source is given up for good only in a round every entrance refused.   *)
THEOREM RefusedByAll == PoolSpec => UnsupportedUnanimous
<1>1. ASSUME PoolInv, PoolNext, unsupported', ~unsupported
      PROVE  \E u \in UrlSet : round.refused \cup {u} = UrlSet
  <2>1. PoolTypes /\ RoundFits /\ MetaFirst /\ ScansFit
    BY <1>1 DEF PoolInv, StateFits
  <2>2. ASSUME NEW r \in Requests, Lookup(r) \/ Enter(r) \/ ProbeExpires(r) \/ Leave(r)
        PROVE  UNCHANGED unsupported
    BY <2>2 DEF Lookup, Enter, ProbeExpires, Leave, sourceVars
  <2>3. ASSUME NEW r \in Requests, NEW u \in UrlSet, ProbeAccepted(r, u)
        PROVE  UNCHANGED unsupported
    BY <2>3 DEF ProbeAccepted
  <2>4. ASSUME NEW e \in Scans, Expand(e)
        PROVE  UNCHANGED unsupported
    BY <2>1, <2>4, ExpandSteps DEF GoesOn, Compares, Matched, Joins, Reads
  <2>5. ASSUME NEW f \in Fetchers, Download(f)
        PROVE  UNCHANGED unsupported
    BY <2>5 DEF Download, FetchStarts, FetchRetries, Try, FetchSucceeds, FetchFails, FetchCanceled, sourceVars
  <2>6. Release \/ Rebalance \/ Gone => UNCHANGED unsupported
    BY DEF Release, Rebalance, Gone, poolVars, sourceVars
  <2>7. PICK r \in Requests, u \in UrlSet : ProbeFails(r, u) \/ ProbeRefused(r, u)
    BY <1>1, <2>2, <2>3, <2>4, <2>5, <2>6 DEF PoolNext, Probe
  <2>8. lock = r /\ u \in round.inFlight
    BY <2>1, <2>7, ProbedLeft
  <2>9. PICK left \in Rounds :
          /\ EndsUnaccepted(r, left)
          /\ left.inFlight = Without(u).inFlight /\ left.next = Without(u).next
          /\ left.failed \/ (left.failed = round.failed /\ left.refused = round.refused \cup {u})
    BY <2>1, <2>7, ProbedLeft
  <2>10. left.inFlight = {} /\ ~round.failed
    BY <1>1, <2>9 DEF EndsUnaccepted, GivesUp
  <2>11. round.next > Len(Urls) /\ round.inFlight \subseteq {u}
    <3>1. round.next \in Nat
      BY <2>1 DEF PoolTypes, RequestTypes, Rounds
    <3>2. ~(round.next <= Len(Urls)) /\ round.inFlight \ {u} = {}
      BY <2>1, <2>9, <2>10, WithoutFits
    <3> QED
      BY <3>1, <3>2, Given
  <2>12. \A i \in DOMAIN Urls : Urls[i] \in round.refused \cup {u}
    <3>1. ASSUME NEW i \in DOMAIN Urls
          PROVE  Urls[i] \in round.refused \cup {u}
      <4>1. i < round.next
        BY <2>1, <2>11, Given DEF PoolTypes, RequestTypes, Rounds
      <4>2. lock # None
        BY <2>8, Given
      <4> QED
        BY <2>1, <2>10, <2>11, <4>1, <4>2 DEF RoundFits
    <3> QED
      BY <3>1
  <2>13. round.refused \subseteq UrlSet
    BY <2>1 DEF PoolTypes, RequestTypes, Rounds
  <2> QED
    BY <2>12, <2>13 DEF UrlSet
<1>2. PoolInv /\ [PoolNext]_poolVars => [UnsupportedByAll]_poolVars
  BY <1>1 DEF UnsupportedByAll
<1> QED
  BY <1>2, PoolInvariant, PTL DEF PoolSpec, UnsupportedUnanimous

=============================================================================
