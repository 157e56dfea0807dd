------------------------- MODULE StreamRangesProofs -------------------------
(***************************************************************************)
(* Proofs about StreamRanges, for any streams, lanes, chunks, routes and   *)
(* window: RangeInv is inductive; from it follow LedgerExact, OutputBacked *)
(* and ReadAheadBounded, and StarvedOnlyWhenLossy of every step.           *)
(*                                                                         *)
(* The workers move as in ChunkCache, whose lemmas are reused, except      *)
(* where the main loop takes results and launches tasks (Apply).  First    *)
(* what schedule() launches, then what Apply does with it, then the steps. *)
(***************************************************************************)
EXTENDS StreamRanges, ChunkCacheProofs, WellFoundedInduction

-----------------------------------------------------------------------------
(* Numbers *)

LEMMA LeastOf ==
    ASSUME NEW S \in SUBSET Nat, S # {}
    PROVE  Min(S) \in S /\ \A j \in S : Min(S) <= j
<1>1. PICK i \in S : \A j \in S : ~ (<<j, i>> \in OpToRel(<, Nat))
  BY NatLessThanWellFounded, WFMin
<1>2. \A j \in S : <<j, i>> \in OpToRel(<, Nat) <=> j < i
  BY DEF OpToRel
<1>3. \A j \in S : i \in Nat /\ j \in Nat /\ (~ (j < i) => i <= j)
  OBVIOUS
<1>4. \E k \in S : \A j \in S : k <= j
  BY <1>1, <1>2, <1>3
<1> QED
  BY <1>4 DEF Min

(* Induction, for a set of numbers *)
LEMMA NatStep ==
    ASSUME NEW S, 0 \in S, \A n \in Nat : n \in S => n + 1 \in S
    PROVE  \A n \in Nat : n \in S
<1> DEFINE T == Nat \ S
<1>1. SUFFICES ASSUME T # {}
               PROVE  FALSE
  OBVIOUS
<1>2. Min(T) \in T /\ \A j \in T : Min(T) <= j
  BY <1>1, LeastOf
<1>3. Min(T) \in Nat \ {0}
  BY <1>2
<1>4. Min(T) - 1 \in Nat /\ ~(Min(T) <= Min(T) - 1)
  BY <1>3
<1>5. Min(T) - 1 \in S
  BY <1>2, <1>4
<1>6. Min(T) = (Min(T) - 1) + 1
  BY <1>3
<1> QED
  BY <1>2, <1>4, <1>5, <1>6

(* A set of k numbers has a first, a second, ... and a k-th.               *)
LEMMA NthExists ==
    ASSUME NEW S \in SUBSET Nat, IsFiniteSet(S), NEW k \in 1 .. Cardinality(S)
    PROVE  Nth(S, k) \in S
<1> DEFINE Below(r) == {q \in S : q < r}
           P == {m \in Nat : m < Cardinality(S) => \E r \in S : Cardinality(Below(r)) = m}
<1>0. Cardinality(S) \in Nat /\ k \in Nat
  BY FS_CardinalityType
<1>1. \A T \in SUBSET S : IsFiniteSet(T) /\ Cardinality(T) \in Nat
  BY FS_Subset, FS_CardinalityType
<1>2. 0 \in P
  <2>1. SUFFICES ASSUME 0 < Cardinality(S)
                 PROVE  \E r \in S : Cardinality(Below(r)) = 0
    OBVIOUS
  <2>2. S # {}
    BY <2>1, FS_EmptySet
  <2>3. Min(S) \in S /\ \A j \in S : Min(S) <= j
    BY <2>2, LeastOf
  <2>4. Below(Min(S)) = {}
    <3>1. \A q \in S : q \in Nat /\ Min(S) \in Nat /\ Min(S) <= q
      BY <2>3
    <3>2. \A q \in S : ~(q < Min(S))
      BY <3>1
    <3> QED
      BY <3>2
  <2> HIDE DEF Below
  <2> QED
    BY <2>3, <2>4, FS_EmptySet
<1>3. ASSUME NEW m \in Nat, m \in P
      PROVE  m + 1 \in P
  <2>1. SUFFICES ASSUME m + 1 < Cardinality(S)
                 PROVE  \E r \in S : Cardinality(Below(r)) = m + 1
    OBVIOUS
  <2>2. m < Cardinality(S)
    BY <1>0, <2>1
  <2>3. PICK r \in S : Cardinality(Below(r)) = m
    BY <1>3, <2>2
  <2> DEFINE T == Below(r) \cup {r}
             U == S \ T
  <2>4. Cardinality(T) = m + 1
    BY <1>1, <2>3, FS_AddElement
  <2>5. U # {}
    <3>1. U = {} => T = S
      BY <2>3
    <3> HIDE DEF T, U
    <3> QED
      BY <1>0, <2>1, <2>4, <3>1
  <2>6. Min(U) \in U /\ \A j \in U : Min(U) <= j
    BY <2>5, LeastOf
  <2>7. Below(Min(U)) = T
    <3>1. ASSUME NEW q \in S
          PROVE  q < Min(U) <=> q \in T
      <4>1. q \in Nat /\ r \in Nat /\ Min(U) \in Nat /\ Min(U) \in S /\ ~(Min(U) < r) /\ Min(U) # r
        BY <2>3, <2>6
      <4>2. CASE q \in T
        BY <4>1, <4>2
      <4>3. CASE q \notin T
        <5>1. Min(U) <= q
          BY <2>6, <4>3
        <5> QED
          BY <4>1, <4>3, <5>1
      <4> QED
        BY <4>2, <4>3
    <3>2. T \subseteq S
      BY <2>3
    <3> HIDE DEF T, U
    <3> QED
      BY <3>1, <3>2
  <2>8. Min(U) \in S
    BY <2>6
  <2> HIDE DEF T, U, Below
  <2> QED
    BY <2>4, <2>7, <2>8
<1>4. \A m \in Nat : m \in P
  <2> HIDE DEF P
  <2> QED
    BY <1>2, <1>3, NatStep
<1>5. k - 1 \in Nat /\ k - 1 < Cardinality(S)
  BY <1>0
<1>6. \E r \in S : Cardinality(Below(r)) = k - 1
  BY <1>4, <1>5
<1> QED
  BY <1>6 DEF Nth

-----------------------------------------------------------------------------
(* The routes of the lanes *)

LEMMA Parameters ==
    /\ IsFiniteSet(Chunks) /\ Chunks \subseteq Nat \ {0}
    /\ IsFiniteSet(Routes) /\ Routes \subseteq Nat \ {0}
    /\ Prefetch \in Nat \ {0} /\ HedgeOffset \in Nat \ {0} /\ LossLimit \in Nat \ {0}
    /\ \A s \in Streams :
          /\ First(s) \in Nat /\ Last(s) \in Nat /\ First(s) <= Last(s)
          /\ \A c \in Nat : First(s) <= c /\ c <= Last(s) => c \in Chunks
          /\ Cardinality(LanesOf[s]) \in Nat \ {0} /\ 1 \in LanesOf[s]
          /\ \A l \in LanesOf[s] : l \in Nat \ {0} /\ l <= Cardinality(LanesOf[s])
<1>1. ASSUME NEW s \in Streams
      PROVE  /\ First(s) \in Nat /\ Last(s) \in Nat /\ First(s) <= Last(s)
             /\ \A c \in Nat : First(s) <= c /\ c <= Last(s) => c \in Chunks
             /\ Cardinality(LanesOf[s]) \in Nat \ {0} /\ 1 \in LanesOf[s]
             /\ \A l \in LanesOf[s] : l \in Nat \ {0} /\ l <= Cardinality(LanesOf[s])
  <2>1. /\ First(s) \in Nat /\ Last(s) \in Nat /\ First(s) <= Last(s)
        /\ First(s) .. Last(s) \subseteq Chunks
        /\ Cardinality(LanesOf[s]) \in 1 .. Prefetch
        /\ LanesOf[s] = 1 .. Cardinality(LanesOf[s])
    BY RangeAssumption
  <2>2. Prefetch \in Nat /\ Cardinality(LanesOf[s]) \in Nat \ {0}
    BY <2>1, RangeAssumption
  <2>3. 1 \in 1 .. Cardinality(LanesOf[s])
    BY <2>2
  <2>4. \A l \in 1 .. Cardinality(LanesOf[s]) : l \in Nat \ {0} /\ l <= Cardinality(LanesOf[s])
    BY <2>2
  <2>5. \A c \in Nat : First(s) <= c /\ c <= Last(s) => c \in First(s) .. Last(s)
    BY <2>1
  <2> QED
    BY <2>1, <2>2, <2>3, <2>4, <2>5
<1> QED
  BY <1>1, RangeAssumption

LEMMA UsableRoutes ==
    /\ Usable \in SUBSET Routes /\ Usable \in SUBSET Nat /\ Usable # {} /\ IsFiniteSet(Usable)
    /\ Cardinality(Usable) \in Nat \ {0}
<1>1. Usable \in SUBSET Routes /\ Usable # {}
  BY RangeAssumption DEF Usable
<1>2. IsFiniteSet(Usable)
  BY <1>1, Parameters, FS_Subset
<1>3. Cardinality(Usable) \in Nat /\ Cardinality(Usable) # 0
  BY <1>1, <1>2, FS_CardinalityType, FS_EmptySet
<1> QED
  BY <1>1, <1>2, <1>3, Parameters

LEMMA AssignedRoute == Assigned \in Routes
<1> DEFINE free == Usable \ {3 - pinned}
           rest == IF free = {} THEN Usable ELSE free
<1>1. rest \in SUBSET Nat /\ rest \in SUBSET Routes /\ IsFiniteSet(rest) /\ rest # {}
  BY UsableRoutes, FS_Subset
<1>2. 1 \in 1 .. Cardinality(rest)
  <2>1. Cardinality(rest) \in Nat /\ Cardinality(rest) # 0
    BY <1>1, FS_CardinalityType, FS_EmptySet
  <2> QED
    BY <2>1
<1>3. Nth(rest, 1) \in rest
  BY <1>1, <1>2, NthExists
<1>4. Assigned = IF pinned \in Usable THEN pinned ELSE Nth(rest, 1)
  BY DEF Assigned
<1> QED
  BY <1>1, <1>3, <1>4, UsableRoutes

LEMMA LaneRoutesType ==
    ASSUME NEW s \in Streams
    PROVE  /\ DOMAIN LaneRoutes(s) \subseteq LanesOf[s]
           /\ \A l \in DOMAIN LaneRoutes(s) : LaneRoutes(s)[l] \in Routes
<1> DEFINE n == Cardinality(Usable)
<1>1. n \in Nat \ {0} /\ \A k \in 1 .. n : Nth(Usable, k) \in Routes
  BY UsableRoutes, NthExists
<1>2. \A l \in LanesOf[s] : l \in Nat \ {0}
  BY Parameters
<1>3. CASE pinned # 0
  BY <1>3, Parameters, AssignedRoute DEF LaneRoutes
<1>4. CASE pinned = 0 /\ HasOrigins
  <2>1. LaneRoutes(s) = [l \in {k \in LanesOf[s] : k <= n} |-> Nth(Usable, l)]
    BY <1>4 DEF LaneRoutes
  <2>2. \A l \in LanesOf[s] : l <= n => l \in 1 .. n
    BY <1>1, <1>2
  <2> HIDE DEF n
  <2> QED
    BY <1>1, <2>1, <2>2
<1>5. CASE pinned = 0 /\ ~HasOrigins
  <2>1. LaneRoutes(s) = [l \in LanesOf[s] |-> Nth(Usable, ((l - 1) % n) + 1)]
    BY <1>5 DEF LaneRoutes
  <2>2. \A l \in Nat \ {0} : ((l - 1) % n) + 1 \in 1 .. n
    <3> HIDE DEF n
    <3> QED
      BY <1>1
  <2> HIDE DEF n
  <2> QED
    BY <1>1, <1>2, <2>1, <2>2
<1> QED
  BY <1>3, <1>4, <1>5

-----------------------------------------------------------------------------
(* schedule(): lanes that are idle get tasks nobody works on.              *)

Fit(x, n, idle, act) ==
    /\ x.lane \in idle /\ x.job \in Jobs
    /\ x.job.route \notin act[x.job.chunk]
    /\ x.job.chunk < n + Prefetch

FitAll(todo, n, idle, act) ==
    /\ \A x \in todo : Fit(x, n, idle, act)
    /\ \A x, y \in todo : x.lane = y.lane \/ x.job.chunk = y.job.chunk => x = y

LEMMA HedgesFit ==
    ASSUME NEW s \in Streams, NEW n \in Nat, First(s) <= n,
           NEW idle \in SUBSET DOMAIN LaneRoutes(s), NEW act, NEW lossy
    PROVE  FitAll(Hedges(s, n, idle, act, lossy), n, idle, act)
<1> DEFINE can == {l \in idle : LaneRoutes(s)[l] \notin lossy \cup act[n]}
           route == LaneRoutes(s)[Min(can)]
<1>1. CASE n > Last(s) \/ act[n] = {} \/ can = {}
  <2>1. Hedges(s, n, idle, act, lossy) = {}
    BY <1>1 DEF Hedges
  <2> QED
    BY <2>1 DEF FitAll
<1>2. CASE ~(n > Last(s) \/ act[n] = {} \/ can = {})
  <2>1. Hedges(s, n, idle, act, lossy) = {Launch(Min(can), n, route, TRUE)}
    BY <1>2 DEF Hedges
  <2>2. can \in SUBSET Nat /\ can # {}
    BY <1>2, LaneRoutesType, Parameters
  <2>3. Min(can) \in can
    BY <2>2, LeastOf
  <2>4. Min(can) \in idle /\ route \in Routes /\ route \notin act[n]
    BY <2>3, LaneRoutesType
  <2>5. n \in Chunks /\ n < n + Prefetch
    BY <1>2, Parameters
  <2> HIDE DEF route, can
  <2>6. Fit(Launch(Min(can), n, route, TRUE), n, idle, act)
    BY <2>4, <2>5 DEF Fit, Launch, Jobs
  <2> QED
    BY <2>1, <2>6 DEF FitAll
<1> QED
  BY <1>1, <1>2

(* The launches of the lanes up to l *)
UpTo(s, n, idle, pend, act, lossy, k, f) ==
    f = [l \in 0 .. k |->
            IF l = 0 THEN {}
            ELSE f[l - 1] \cup TakenBy(s, n, l, f[l - 1], idle, pend, act, lossy)]

LEMMA UpToExists ==
    ASSUME NEW s, NEW n, NEW idle, NEW pend, NEW act, NEW lossy, NEW k \in Nat
    PROVE  \E f : UpTo(s, n, idle, pend, act, lossy, k, f)
<1> DEFINE T(l, before) == TakenBy(s, n, l, before, idle, pend, act, lossy)
           Is(f, m) == f = [l \in 0 .. m |-> IF l = 0 THEN {} ELSE f[l - 1] \cup T(l, f[l - 1])]
           S == {m \in Nat : \E f : Is(f, m)}
<1> HIDE DEF T
<1>1. 0 \in S
  <2> DEFINE g == [l \in 0 .. 0 |-> {}]
  <2>1. \A l \in 0 .. 0 : l = 0
    OBVIOUS
  <2>2. Is(g, 0)
    BY <2>1
  <2> QED
    BY <2>2
<1>2. ASSUME NEW m \in Nat, m \in S
      PROVE  m + 1 \in S
  <2>1. PICK f : Is(f, m)
    BY <1>2
  <2> DEFINE g == [l \in 0 .. m + 1 |-> IF l <= m THEN f[l] ELSE f[m] \cup T(m + 1, f[m])]
             h == [l \in 0 .. m + 1 |-> IF l = 0 THEN {} ELSE g[l - 1] \cup T(l, g[l - 1])]
  <2>2. ASSUME NEW l \in 0 .. m + 1
        PROVE  g[l] = h[l]
    <3>1. CASE l = 0
      BY <2>1, <3>1
    <3>2. CASE l # 0 /\ l <= m
      <4>1. l \in 0 .. m /\ l - 1 \in 0 .. m + 1 /\ l - 1 <= m
        BY <3>2
      <4>2. f[l] = f[l - 1] \cup T(l, f[l - 1])
        BY <2>1, <3>2, <4>1
      <4>3. g[l] = f[l] /\ g[l - 1] = f[l - 1]
        BY <3>2, <4>1
      <4> QED
        BY <3>2, <4>2, <4>3
    <3>3. CASE l = m + 1
      <4>1. m \in 0 .. m + 1 /\ l - 1 = m /\ l # 0 /\ ~(l <= m)
        BY <3>3
      <4>2. g[m] = f[m] /\ g[l] = f[m] \cup T(m + 1, f[m])
        BY <4>1
      <4> QED
        BY <3>3, <4>1, <4>2
    <3> QED
      BY <3>1, <3>2, <3>3
  <2>3. Is(g, m + 1)
    <3> HIDE DEF T
    <3> QED
      BY <2>2
  <2>4. m + 1 \in Nat
    OBVIOUS
  <2> HIDE DEF g, Is
  <2> QED
    BY <2>3, <2>4
<1>3. k \in S
  <2> HIDE DEF S
  <2> QED
    BY <1>1, <1>2, NatStep
<1> QED
  BY <1>3 DEF UpTo, T

(* What one lane takes is nobody's, and not what the lanes before took.    *)
LEMMA TakenFits ==
    ASSUME NEW s \in Streams, NEW n \in Nat,
           NEW idle \in SUBSET DOMAIN LaneRoutes(s), NEW pend,
           NEW act, NEW lossy, NEW l \in Nat \ {0}, NEW before
    PROVE  LET new == TakenBy(s, n, l, before, idle, pend, act, lossy)
           IN  /\ \A x \in new : /\ Fit(x, n, idle, act)
                                 /\ x.lane = l
                                 /\ \A y \in before : y.job.chunk # x.job.chunk
               /\ \A x, y \in new : x = y
<1> DEFINE route == LaneRoutes(s)[l]
           from == IF route \in lossy THEN n + HedgeOffset ELSE n
           free == Window(s, n, from, pend, act) \ {x.job.chunk : x \in before}
           new == TakenBy(s, n, l, before, idle, pend, act, lossy)
<1>1. CASE l \notin idle \/ free = {}
  <2>1. new = {}
    BY <1>1 DEF TakenBy
  <2> QED
    BY <2>1
<1>2. CASE ~(l \notin idle \/ free = {})
  <2>1. new = {Launch(l, Min(free), route, FALSE)}
    BY <1>2 DEF TakenBy
  <2>2. free \in SUBSET Chunks /\ free \in SUBSET Nat /\ free # {}
    BY <1>2, Parameters DEF Window
  <2>3. Min(free) \in free
    BY <2>2, LeastOf
  <2>4. /\ Min(free) < n + Prefetch /\ act[Min(free)] = {}
        /\ \A y \in before : y.job.chunk # Min(free)
    BY <2>3 DEF Window
  <2>5. route \in Routes
    BY <1>2, LaneRoutesType
  <2> HIDE DEF free, route, new
  <2> DEFINE x == Launch(l, Min(free), route, FALSE)
  <2>6. x.lane = l /\ x.job \in Jobs /\ x.job.chunk = Min(free)
    BY <2>2, <2>3, <2>5 DEF Launch, Jobs
  <2>7. Fit(x, n, idle, act)
    BY <1>2, <2>4, <2>6 DEF Fit
  <2> HIDE DEF x
  <2> QED
    BY <2>1, <2>4, <2>6, <2>7 DEF x, new
<1> QED
  BY <1>1, <1>2

LEMMA FetchesFit ==
    ASSUME NEW s \in Streams, NEW n \in Nat,
           NEW idle \in SUBSET DOMAIN LaneRoutes(s), NEW pend, NEW act, NEW lossy
    PROVE  FitAll(Fetches(s, n, idle, pend, act, lossy), n, idle, act)
<1> DEFINE T(l, before) == TakenBy(s, n, l, before, idle, pend, act, lossy)
           k == Cardinality(LanesOf[s])
           upTo == CHOOSE f : UpTo(s, n, idle, pend, act, lossy, k, f)
           Good(todo, m) == FitAll(todo, n, idle, act) /\ \A x \in todo : x.lane \in 1 .. m
           S == {m \in Nat : m <= k => Good(upTo[m], m)}
<1>1. k \in Nat
  BY Parameters
<1>2. UpTo(s, n, idle, pend, act, lossy, k, upTo)
  BY <1>1, UpToExists
<1>3. Fetches(s, n, idle, pend, act, lossy) = upTo[k]
  BY DEF Fetches, UpTo
<1> HIDE DEF upTo, k
<1>4. upTo[0] = {} /\ \A m \in Nat : m + 1 <= k => upTo[m + 1] = upTo[m] \cup T(m + 1, upTo[m])
  <2> HIDE DEF T
  <2>1. upTo = [l \in 0 .. k |-> IF l = 0 THEN {} ELSE upTo[l - 1] \cup T(l, upTo[l - 1])]
    BY <1>2 DEF UpTo, T
  <2>2. 0 \in 0 .. k
    BY <1>1
  <2>3. ASSUME NEW m \in Nat, m + 1 <= k
        PROVE  upTo[m + 1] = upTo[m] \cup T(m + 1, upTo[m])
    <3>1. m + 1 \in 0 .. k /\ m + 1 # 0 /\ (m + 1) - 1 = m
      BY <1>1, <2>3
    <3> QED
      BY <2>1, <3>1
  <2> QED
    BY <2>1, <2>2, <2>3
<1>5. 0 \in S
  BY <1>4 DEF FitAll
<1>6. ASSUME NEW m \in Nat, m \in S
      PROVE  m + 1 \in S
  <2>1. SUFFICES ASSUME m + 1 <= k
                 PROVE  Good(upTo[m + 1], m + 1)
    OBVIOUS
  <2>2. Good(upTo[m], m)
    BY <1>1, <1>6, <2>1
  <2> DEFINE new == T(m + 1, upTo[m])
  <2>3. /\ \A x \in new : /\ Fit(x, n, idle, act)
                          /\ x.lane = m + 1
                          /\ \A y \in upTo[m] : y.job.chunk # x.job.chunk
        /\ \A x, y \in new : x = y
    BY TakenFits
  <2> HIDE DEF new
  <2>4. \A x \in upTo[m] : x.lane \in 1 .. m + 1 /\ x.lane # m + 1
    BY <2>2
  <2>5. m + 1 \in 1 .. m + 1
    OBVIOUS
  <2>6. FitAll(upTo[m] \cup new, n, idle, act)
    BY <2>2, <2>3, <2>4 DEF FitAll
  <2>7. upTo[m + 1] = upTo[m] \cup new
    BY <1>4, <2>1 DEF new
  <2> QED
    BY <2>3, <2>4, <2>5, <2>6, <2>7
<1>7. k \in S
  <2> HIDE DEF S
  <2> QED
    BY <1>1, <1>5, <1>6, NatStep
<1> QED
  BY <1>1, <1>3, <1>7

LEMMA LaunchesFit ==
    ASSUME NEW s \in Streams, NEW n \in Nat, First(s) <= n,
           NEW idle, NEW pend, NEW act, NEW lossy
    PROVE  FitAll(Launches(s, n, idle, pend, act, lossy), n, idle, act)
<1> DEFINE lanes == idle \cap DOMAIN LaneRoutes(s)
<1>1. FitAll(Launches(s, n, idle, pend, act, lossy), n, lanes, act)
  BY HedgesFit, FetchesFit DEF Launches
<1> QED
  BY <1>1 DEF FitAll, Fit

(* When nobody works on the oldest missing chunk and nothing is launched,  *)
(* every idle lane is on a route that is held back.                        *)
LEMMA NothingLeft ==
    ASSUME NEW s \in Streams, NEW n \in Nat, First(s) <= n, n <= Last(s),
           NEW idle, NEW pend, n \notin pend, NEW act, act[n] = {}, NEW lossy,
           Launches(s, n, idle, pend, act, lossy) = {},
           NEW l \in idle \cap DOMAIN LaneRoutes(s)
    PROVE  LaneRoutes(s)[l] \in lossy
<1> DEFINE lanes == idle \cap DOMAIN LaneRoutes(s)
           T(i, before) == TakenBy(s, n, i, before, lanes, pend, act, lossy)
           k == Cardinality(LanesOf[s])
           upTo == CHOOSE f : UpTo(s, n, lanes, pend, act, lossy, k, f)
           P == {m \in Nat : m <= k => upTo[k - m] = {}}
<1>1. k \in Nat
  BY Parameters
<1>2. UpTo(s, n, lanes, pend, act, lossy, k, upTo)
  BY <1>1, UpToExists
<1>3. Fetches(s, n, lanes, pend, act, lossy) = upTo[k]
  BY DEF Fetches, UpTo
<1>4. upTo[k] = {}
  BY <1>3 DEF Launches
<1>5. l \in Nat \ {0} /\ l <= k
  BY LaneRoutesType, Parameters
<1> HIDE DEF upTo, k, lanes
<1>6. \A m \in Nat \ {0} : m <= k => upTo[m] = upTo[m - 1] \cup T(m, upTo[m - 1])
  <2> HIDE DEF T
  <2>1. upTo = [i \in 0 .. k |-> IF i = 0 THEN {} ELSE upTo[i - 1] \cup T(i, upTo[i - 1])]
    BY <1>2 DEF UpTo, T
  <2>2. \A m \in Nat \ {0} : m <= k => m \in 0 .. k
    BY <1>1
  <2> QED
    BY <2>1, <2>2
<1>7. 0 \in P
  <2>1. k - 0 = k
    BY <1>1
  <2> QED
    BY <1>4, <2>1
<1>8. ASSUME NEW m \in Nat, m \in P
      PROVE  m + 1 \in P
  <2>1. SUFFICES ASSUME m + 1 <= k
                 PROVE  upTo[k - (m + 1)] = {}
    OBVIOUS
  <2>2. m <= k /\ k - m \in Nat \ {0} /\ k - m <= k /\ (k - m) - 1 = k - (m + 1)
    BY <1>1, <2>1
  <2>3. upTo[k - m] = {}
    BY <1>8, <2>2
  <2> HIDE DEF T
  <2> QED
    BY <1>6, <2>2, <2>3
<1>9. \A m \in Nat : m \in P
  <2> HIDE DEF P
  <2> QED
    BY <1>7, <1>8, NatStep
<1>10. upTo[l] = {}
  <2>1. k - l \in Nat /\ k - l <= k /\ k - (k - l) = l
    BY <1>1, <1>5
  <2> QED
    BY <1>9, <2>1
<1>11. T(l, upTo[l - 1]) = {} /\ upTo[l - 1] = {}
  <2> HIDE DEF T
  <2> QED
    BY <1>5, <1>6, <1>10
<1>12. ASSUME LaneRoutes(s)[l] \notin lossy
       PROVE  n \in Window(s, n, n, pend, act)
  BY Parameters DEF Window
<1>13. T(l, {}) = {}
  BY <1>11
<1>14. l \in lanes
  BY DEF lanes
<1>15. Launch(l, Min(Window(s, n, n, pend, act) \ {x.job.chunk : x \in {}}), LaneRoutes(s)[l], FALSE)
         \in {Launch(l, Min(Window(s, n, n, pend, act) \ {x.job.chunk : x \in {}}), LaneRoutes(s)[l], FALSE)}
  OBVIOUS
<1> QED
  BY <1>12, <1>13, <1>14, <1>15 DEF TakenBy

(* The next chunk to write: everything up to it is at hand, it is not.     *)
LEMMA NextMissingIs ==
    ASSUME NEW n \in Nat, NEW pend \in SUBSET Chunks
    PROVE  LET next == NextMissing(n, pend)
           IN  /\ next \in Nat /\ n <= next /\ next \notin pend
               /\ \A i \in Nat : n <= i /\ i < next => i \in pend
<1> DEFINE k == Cardinality(pend)
           M == {i \in Nat : n <= i /\ i \notin pend}
<1>1. IsFiniteSet(pend) /\ k \in Nat
  BY Parameters, FS_Subset, FS_CardinalityType
<1>2. n .. n + k \subseteq Nat /\ Cardinality(n .. n + k) = k + 1
  <2>1. n \in Int /\ n + k \in Int /\ ~(n > n + k) /\ (n + k) - n + 1 = k + 1
    BY <1>1
  <2> HIDE DEF k
  <2> QED
    BY <1>1, <2>1, FS_Interval
<1>3. M # {}
  <2>1. SUFFICES ASSUME n .. n + k \subseteq pend
                 PROVE  FALSE
    BY <1>1, <1>2
  <2>2. Cardinality(n .. n + k) <= Cardinality(pend)
    BY <1>1, <2>1, FS_Subset
  <2> QED
    BY <1>1, <1>2, <2>2
<1> DEFINE m == Min(M)
<1>4. m \in M /\ \A j \in M : m <= j
  BY <1>3, LeastOf
<1>5. n .. m - 1 \subseteq pend
  <2>1. ASSUME NEW i \in n .. m - 1
        PROVE  i \in pend
    <3>1. i \in Nat /\ n <= i /\ ~(m <= i)
      BY <1>4
    <3> QED
      BY <1>4, <3>1
  <2> QED
    BY <2>1
<1>6. m <= n + k
  <2>1. IsFiniteSet(n .. m - 1) /\ Cardinality(n .. m - 1) = m - n
    <3>1. n \in Int /\ m - 1 \in Int /\ m \in Nat /\ n <= m
      BY <1>4
    <3> HIDE DEF m
    <3>2. Cardinality(n .. m - 1) = IF n > m - 1 THEN 0 ELSE (m - 1) - n + 1
      BY <3>1, FS_Interval
    <3>3. (IF n > m - 1 THEN 0 ELSE (m - 1) - n + 1) = m - n
      BY <3>1
    <3>4. IsFiniteSet(n .. m - 1)
      BY <3>1, FS_Interval
    <3> QED
      BY <3>2, <3>3, <3>4
  <2>2. Cardinality(n .. m - 1) <= k
    BY <1>1, <1>5, FS_Subset
  <2>3. m \in Nat
    BY <1>4
  <2> HIDE DEF m, k
  <2> QED
    BY <1>1, <2>1, <2>2, <2>3
<1>7. m \in n .. n + k /\ m \notin pend
  <2>1. m \in Nat /\ n <= m /\ m \notin pend
    BY <1>4
  <2> HIDE DEF m, k
  <2> QED
    BY <1>1, <1>6, <2>1
<1> DEFINE next == NextMissing(n, pend)
<1>8. next \in n .. n + k /\ next \notin pend /\ n .. next - 1 \subseteq pend
  <2> HIDE DEF m
  <2> QED
    BY <1>5, <1>7 DEF NextMissing
<1>9. next \in Nat /\ n <= next
  <2> HIDE DEF next, k
  <2> QED
    BY <1>1, <1>8
<1>10. ASSUME NEW i \in Nat, n <= i, i < next
       PROVE  i \in pend
  <2> HIDE DEF next
  <2>1. i \in n .. next - 1
    BY <1>9, <1>10
  <2> QED
    BY <1>8, <2>1
<1> QED
  BY <1>8, <1>9, <1>10

-----------------------------------------------------------------------------
(* Apply: what becomes of the workers, of the cache and of activeRoutes    *)

LEMMA WorkerIs ==
    /\ \A w \in Workers : w[1] \in Streams /\ w[2] \in LanesOf[w[1]] /\ w = <<w[1], w[2]>>
    /\ \A s \in Streams : \A l \in LanesOf[s] : <<s, l>> \in Workers
BY DEF Workers

Gets(s, todo, v) == \E x \in todo : v = <<s, x.lane>>

(* The lanes of todo get their tasks, those whose result was taken stand   *)
(* idle, and the others go on.                                             *)
Handed(s, freed, todo) ==
    /\ \A x \in todo : LET v == <<s, x.lane>>
                       IN  /\ v \in Workers
                           /\ pc'[v] = "enter" /\ job'[v] = x.job
                           /\ held'[v] = 0 /\ res'[v] = "ok"
    /\ \A v \in Workers : ~Gets(s, todo, v) =>
          IF v \in freed
          THEN pc'[v] = "idle" /\ job'[v] = NoJob /\ held'[v] = 0 /\ res'[v] = "ok"
          ELSE /\ pc'[v] = pc[v] /\ job'[v] = job[v]
               /\ held'[v] = held[v] /\ res'[v] = res[v]

LEMMA ApplyHands ==
    ASSUME NEW s \in Streams, NEW freed, NEW act, NEW todo, NEW n,
           FitAll(todo, n, LanesOf[s], act), Apply(s, freed, act, todo)
    PROVE  Handed(s, freed, todo)
<1> DEFINE fresh == {<<s, x.lane>> : x \in todo}
           reset == fresh \cup freed
<1>1. /\ pc' = [v \in Workers |-> IF v \in fresh THEN "enter"
                                  ELSE IF v \in reset THEN "idle" ELSE pc[v]]
      /\ job' = [v \in Workers |->
            IF v \in fresh THEN (CHOOSE x \in todo : x.lane = v[2]).job
            ELSE IF v \in reset THEN NoJob ELSE job[v]]
      /\ held' = [v \in Workers |-> IF v \in reset THEN 0 ELSE held[v]]
      /\ res' = [v \in Workers |-> IF v \in reset THEN "ok" ELSE res[v]]
  BY DEF Apply
<1>2. ASSUME NEW x \in todo
      PROVE  LET v == <<s, x.lane>>
             IN  /\ v \in Workers
                 /\ pc'[v] = "enter" /\ job'[v] = x.job /\ held'[v] = 0 /\ res'[v] = "ok"
  <2> DEFINE v == <<s, x.lane>>
  <2>1. x.lane \in LanesOf[s] /\ \A y \in todo : y.lane = x.lane => y = x
    BY DEF FitAll, Fit
  <2>2. v \in Workers /\ v \in fresh /\ v[2] = x.lane
    BY <2>1, WorkerIs
  <2>3. (CHOOSE y \in todo : y.lane = v[2]) = x
    BY <2>1, <2>2
  <2> HIDE DEF v, fresh
  <2> QED
    BY <1>1, <2>2, <2>3 DEF v
<1>3. ASSUME NEW v \in Workers, ~Gets(s, todo, v)
      PROVE  IF v \in freed
             THEN pc'[v] = "idle" /\ job'[v] = NoJob /\ held'[v] = 0 /\ res'[v] = "ok"
             ELSE /\ pc'[v] = pc[v] /\ job'[v] = job[v]
                  /\ held'[v] = held[v] /\ res'[v] = res[v]
  <2>1. v \notin fresh
    BY <1>3 DEF Gets
  <2> HIDE DEF fresh
  <2> QED
    BY <1>1, <2>1
<1> QED
  BY <1>2, <1>3 DEF Handed

(* The workers concerned are idle, or at the end of a call: no record is   *)
(* attempted or waited for by them before or after.                        *)
LEMMA ApplyCache ==
    ASSUME NEW s \in Streams, NEW freed, NEW act, NEW todo, NEW n, CacheInv,
           FitAll(todo, n, LanesOf[s], act), Apply(s, freed, act, todo),
           UNCHANGED cacheVars,
           stream' \in [Streams -> {"new", "live", "gone", "done"} \cup Errors],
           \A v \in Workers : Gets(s, todo, v) \/ v \in freed => pc[v] \in {"idle", "return"}
    PROVE  CacheInv'
<1> DEFINE Busy == {"wait", "download", "settle", "join"}
<1>1. Handed(s, freed, todo)
  BY ApplyHands
<1>2. ASSUME NEW v \in Workers
      PROVE  \/ /\ pc'[v] = pc[v] /\ job'[v] = job[v]
                /\ held'[v] = held[v] /\ res'[v] = res[v]
             \/ /\ pc[v] \in {"idle", "return"} /\ held'[v] = 0 /\ res'[v] = "ok"
                /\ \/ pc'[v] = "idle" /\ job'[v] = NoJob
                   \/ pc'[v] = "enter" /\ job'[v] \in Jobs
  <2>1. CASE Gets(s, todo, v)
    <3>1. PICK x \in todo : v = <<s, x.lane>>
      BY <2>1 DEF Gets
    <3>2. pc'[v] = "enter" /\ job'[v] = x.job /\ held'[v] = 0 /\ res'[v] = "ok"
      BY <1>1, <3>1 DEF Handed
    <3>3. x.job \in Jobs
      BY <3>1 DEF FitAll, Fit
    <3> QED
      BY <2>1, <3>2, <3>3
  <2>2. CASE ~Gets(s, todo, v)
    BY <1>1, <2>2 DEF Handed
  <2> QED
    BY <2>1, <2>2
<1>3. \A v \in Workers : pc'[v] \in Busy \/ pc[v] \in Busy \/ pc'[v] = "return" =>
          /\ pc'[v] = pc[v] /\ job'[v] = job[v]
          /\ held'[v] = held[v] /\ res'[v] = res[v]
  BY <1>2
<1>4. file' = file /\ onDisk' = onDisk /\ entry' = entry /\ rec' = rec
  BY DEF cacheVars
<1>5. TypeOK'
  <2>1. TypeOK
    BY DEF CacheInv
  <2>2. Len(rec) \in Nat
    BY <2>1, LenProperties DEF TypeOK
  <2>3. 0 \in 0 .. Len(rec)
    BY <2>2
  <2>4. ASSUME NEW v \in Workers
        PROVE  /\ pc'[v] \in {"idle", "enter", "wait", "download", "settle", "join", "return"}
               /\ job'[v] \in Jobs \cup {NoJob}
               /\ pc'[v] # "idle" => job'[v] \in Jobs
               /\ held'[v] \in 0 .. Len(rec)
               /\ res'[v] \in Errors
    BY <1>2, <2>1, <2>3 DEF TypeOK, Errors
  <2>5. \E f, g, h, e : /\ pc' = [v \in Workers |-> f[v]] /\ job' = [v \in Workers |-> g[v]]
                        /\ held' = [v \in Workers |-> h[v]] /\ res' = [v \in Workers |-> e[v]]
    <3>1. /\ pc' = [v \in Workers |-> pc'[v]] /\ job' = [v \in Workers |-> job'[v]]
          /\ held' = [v \in Workers |-> held'[v]] /\ res' = [v \in Workers |-> res'[v]]
      BY DEF Apply
    <3> QED
      BY <3>1
  <2>6. /\ pc' \in [Workers -> {"idle", "enter", "wait", "download", "settle", "join", "return"}]
        /\ job' \in [Workers -> Jobs \cup {NoJob}]
        /\ held' \in [Workers -> 0 .. Len(rec)]
        /\ res' \in [Workers -> Errors]
    BY <2>4, <2>5
  <2> QED
    BY <1>4, <2>1, <2>4, <2>6 DEF TypeOK
<1>6. HeldFits' /\ EntryFits' /\ LostIsRelative' /\ SuccessBacked' /\ ResultBacked' /\ SingleFlight'
  BY <1>3, <1>4 DEF CacheInv, HeldFits, EntryFits, LostIsRelative, SuccessBacked,
                    ResultBacked, SingleFlight
<1>7. AttemptsCounted'
  <2>1. SUFFICES ASSUME NEW r \in DOMAIN rec, ~rec[r].completed
                 PROVE  Counted(r)'
    BY <1>4 DEF AttemptsCounted
  <2>2. Counted(r)
    BY <2>1 DEF CacheInv, AttemptsCounted
  <2>3. Attempts(r)' = Attempts(r) /\ \A w \in Attempts(r) : job'[w] = job[w]
    BY <1>3 DEF Attempts
  <2> QED
    BY <1>4, <2>2, <2>3, SameCount
<1> QED
  BY <1>5, <1>6, <1>7 DEF CacheInv

(* The tasks left once the results of `freed` are taken *)
Left(s, freed, c) == {l \in Tasks(s, c) : <<s, l>> \notin freed}

(* Results are taken from lanes of s that have one; tasks go to lanes that *)
(* are idle once those results are taken.                                  *)
Ready(s, freed, todo) ==
    /\ \A v \in freed : v \in Workers /\ v[1] = s /\ pc[v] = "return"
    /\ \A x \in todo : <<s, x.lane>> \in freed \/ pc[<<s, x.lane>>] = "idle"

(* act holds the routes of exactly these tasks. *)
HasLeft(s, freed, act) ==
    \A c \in Chunks : /\ act[c] = {job[<<s, l>>].route : l \in Left(s, freed, c)}
                      /\ act[c] \subseteq active[s][c]

(* The stream's entry for one chunk is exact *)
Exact(t, c) ==
    /\ active[t][c] = {job[<<t, l>>].route : l \in Tasks(t, c)}
    /\ \A k, l \in Tasks(t, c) : k # l => job[<<t, k>>].route # job[<<t, l>>].route

(* activeRoutes is exact again once the launched tasks are entered into it. *)
LEMMA ApplyLedger ==
    ASSUME NEW s \in Streams, NEW freed, NEW act, NEW todo, NEW n,
           CacheInv, LedgerExact,
           FitAll(todo, n, LanesOf[s], act), Apply(s, freed, act, todo),
           Ready(s, freed, todo), HasLeft(s, freed, act)
    PROVE  /\ active' \in [Streams -> [Chunks -> SUBSET Routes]]
           /\ \A t \in Streams, c \in Chunks : Exact(t, c)'
<1> DEFINE new(c) == {y \in todo : y.job.chunk = c}
<1>1. Handed(s, freed, todo)
  BY ApplyHands
<1>2. /\ active \in [Streams -> [Chunks -> SUBSET Routes]]
      /\ \A v \in Workers : pc[v] # "idle" => job[v] \in Jobs
      /\ \A t \in Streams, c \in Chunks :
            /\ active[t][c] = {job[<<t, l>>].route : l \in Tasks(t, c)}
            /\ \A k, l \in Tasks(t, c) :
                  k # l => job[<<t, k>>].route # job[<<t, l>>].route
  BY DEF LedgerExact, RangeTypeOK, TypeOK
<1>3. /\ active'[s] = [c \in Chunks |-> act[c] \cup {x.job.route : x \in new(c)}]
      /\ \A t \in Streams : t # s => active'[t] = active[t]
      /\ DOMAIN active' = Streams
      /\ active' = [t \in Streams |-> active'[t]]
  BY <1>2 DEF Apply
<1>4. \A x \in todo : /\ x.lane \in LanesOf[s] /\ x.job \in Jobs
                      /\ x.job.route \notin act[x.job.chunk]
                      /\ <<s, x.lane>> \in Workers
                      /\ pc'[<<s, x.lane>>] = "enter" /\ job'[<<s, x.lane>>] = x.job
  BY <1>1 DEF FitAll, Fit, Handed
<1>5. \A x, y \in todo : x.lane = y.lane \/ x.job.chunk = y.job.chunk => x = y
  BY DEF FitAll
<1>6. ASSUME NEW c \in Chunks
      PROVE  /\ act[c] \in SUBSET Routes
             /\ \A l \in Left(s, freed, c) : /\ l \in LanesOf[s] /\ job'[<<s, l>>] = job[<<s, l>>]
                                             /\ pc'[<<s, l>>] # "idle"
                                             /\ \A x \in todo : x.lane # l
  <2>1. ASSUME NEW l \in Left(s, freed, c)
        PROVE  /\ l \in LanesOf[s] /\ job'[<<s, l>>] = job[<<s, l>>] /\ pc'[<<s, l>>] # "idle"
               /\ \A x \in todo : x.lane # l
               /\ job[<<s, l>>].route \in Routes
    <3>1. l \in LanesOf[s] /\ <<s, l>> \in Workers /\ pc[<<s, l>>] # "idle" /\ <<s, l>> \notin freed
      BY WorkerIs DEF Left, Tasks
    <3>2. \A x \in todo : x.lane # l
      BY <3>1 DEF Ready
    <3>3. ~Gets(s, todo, <<s, l>>)
      BY <3>2 DEF Gets
    <3>4. job[<<s, l>>] \in Jobs
      BY <1>2, <3>1
    <3> QED
      BY <1>1, <3>1, <3>2, <3>3, <3>4 DEF Handed, Jobs
  <2>2. act[c] = {job[<<s, l>>].route : l \in Left(s, freed, c)}
    BY DEF HasLeft
  <2>3. \A l \in Left(s, freed, c) : job[<<s, l>>].route \in Routes
    BY <2>1
  <2>4. act[c] \in SUBSET Routes
    BY <2>2, <2>3
  <2> QED
    BY <2>1, <2>4
<1>7. ASSUME NEW c \in Chunks
      PROVE  Tasks(s, c)' = Left(s, freed, c) \cup {x.lane : x \in new(c)}
  <2>1. ASSUME NEW l \in LanesOf[s], pc'[<<s, l>>] # "idle", job'[<<s, l>>].chunk = c
        PROVE  l \in Left(s, freed, c) \cup {x.lane : x \in new(c)}
    <3>1. CASE Gets(s, todo, <<s, l>>)
      <4>1. PICK x \in todo : <<s, l>> = <<s, x.lane>>
        BY <3>1 DEF Gets
      <4>2. x.lane = l /\ x.job.chunk = c
        BY <1>4, <2>1, <4>1
      <4> QED
        BY <4>1, <4>2
    <3>2. CASE ~Gets(s, todo, <<s, l>>)
      BY <1>1, <2>1, <3>2, WorkerIs DEF Handed, Left, Tasks
    <3> QED
      BY <3>1, <3>2
  <2>2. ASSUME NEW l \in Left(s, freed, c)
        PROVE  l \in Tasks(s, c)'
    <3>1. job[<<s, l>>].chunk = c
      BY DEF Left, Tasks
    <3> QED
      BY <1>6, <3>1 DEF Tasks
  <2>3. ASSUME NEW x \in new(c)
        PROVE  x.lane \in Tasks(s, c)'
    BY <1>4 DEF Tasks
  <2>4. \A l \in Tasks(s, c)' : /\ l \in LanesOf[s] /\ pc'[<<s, l>>] # "idle"
                                /\ job'[<<s, l>>].chunk = c
    BY DEF Tasks
  <2>5. Tasks(s, c)' \subseteq Left(s, freed, c) \cup {x.lane : x \in new(c)}
    BY <2>1, <2>4
  <2>6. {x.lane : x \in new(c)} \subseteq Tasks(s, c)'
    BY <2>3
  <2>7. Left(s, freed, c) \subseteq Tasks(s, c)'
    BY <2>2
  <2> HIDE DEF new
  <2> QED
    BY <2>5, <2>6, <2>7
<1>8. ASSUME NEW c \in Chunks
      PROVE  Exact(s, c)'
  <2> DEFINE old == Left(s, freed, c)
             routes == {x.job.route : x \in new(c)}
  <2>1. act[c] = {job[<<s, l>>].route : l \in old}
    BY DEF HasLeft
  <2>2. \A l \in old : job'[<<s, l>>] = job[<<s, l>>]
    BY <1>6
  <2>3. \A x \in new(c) : job'[<<s, x.lane>>] = x.job /\ x.job.route \notin act[c]
    BY <1>4
  <2>4. \A k, l \in old : k # l => job[<<s, k>>].route # job[<<s, l>>].route
    BY <1>2 DEF Left
  <2>5. \A x, y \in new(c) : x = y
    BY <1>5
  <2>6. active'[s][c] = act[c] \cup routes
    BY <1>3
  <2> HIDE DEF old, new
  <2>7. Tasks(s, c)' = old \cup {x.lane : x \in new(c)}
    BY <1>7 DEF old, new
  <2>8. {job'[<<s, l>>].route : l \in Tasks(s, c)'} = act[c] \cup routes
    <3>1. {job'[<<s, l>>].route : l \in old} = act[c]
      BY <2>1, <2>2
    <3>2. {job'[<<s, l>>].route : l \in {x.lane : x \in new(c)}} = routes
      <4>1. \A r : r \in {job'[<<s, l>>].route : l \in {x.lane : x \in new(c)}}
                     <=> \E x \in new(c) : r = job'[<<s, x.lane>>].route
        OBVIOUS
      <4>2. \A r : r \in routes <=> \E x \in new(c) : r = x.job.route
        OBVIOUS
      <4>3. \A x \in new(c) : job'[<<s, x.lane>>].route = x.job.route
        BY <2>3
      <4> HIDE DEF routes
      <4>4. \A r : r \in {job'[<<s, l>>].route : l \in {x.lane : x \in new(c)}} <=> r \in routes
        <5> TAKE r
        <5>1. (\E x \in new(c) : r = job'[<<s, x.lane>>].route)
                 <=> \E x \in new(c) : r = x.job.route
          BY <4>3
        <5> QED
          BY <4>1, <4>2, <5>1
      <4> QED
        BY <4>4
    <3> DEFINE taken == {x.lane : x \in new(c)}
    <3>3. {job'[<<s, l>>].route : l \in old \cup taken}
             = {job'[<<s, l>>].route : l \in old} \cup {job'[<<s, l>>].route : l \in taken}
      <4> HIDE DEF taken
      <4> QED
        OBVIOUS
    <3>4. {job'[<<s, l>>].route : l \in old \cup taken} = act[c] \cup routes
      <4> HIDE DEF routes
      <4> QED
        BY <3>1, <3>2, <3>3
    <3> QED
      BY <2>7, <3>4
  <2>9. ASSUME NEW k \in Tasks(s, c)', NEW l \in Tasks(s, c)', k # l
        PROVE  job'[<<s, k>>].route # job'[<<s, l>>].route
    <3>1. \A i \in old : job'[<<s, i>>].route \in act[c]
      BY <2>1, <2>2
    <3>2. \A x \in new(c) : job'[<<s, x.lane>>].route \notin act[c]
      BY <2>3
    <3>3. CASE k \in old /\ l \in old
      BY <2>2, <2>4, <2>9, <3>3
    <3>4. CASE k \notin old \/ l \notin old
      <4>1. k \in {x.lane : x \in new(c)} \/ l \in {x.lane : x \in new(c)}
        BY <2>7, <3>4
      <4> QED
        BY <2>5, <2>7, <2>9, <3>1, <3>2, <4>1
    <3> QED
      BY <3>3, <3>4
  <2> QED
    BY <2>6, <2>8, <2>9 DEF Exact
<1>9. ASSUME NEW t \in Streams, t # s, NEW c \in Chunks
      PROVE  Exact(t, c)'
  <2>1. ASSUME NEW l \in LanesOf[t]
        PROVE  pc'[<<t, l>>] = pc[<<t, l>>] /\ job'[<<t, l>>] = job[<<t, l>>]
    <3>1. <<t, l>> \in Workers /\ <<t, l>>[1] = t
      BY WorkerIs
    <3>2. ~Gets(s, todo, <<t, l>>) /\ <<t, l>> \notin freed
      BY <1>9, <3>1 DEF Gets, Ready
    <3> QED
      BY <1>1, <3>1, <3>2 DEF Handed
  <2>2. Tasks(t, c)' = Tasks(t, c)
    BY <2>1 DEF Tasks
  <2>3. \A l \in Tasks(t, c) : job'[<<t, l>>] = job[<<t, l>>]
    BY <2>1 DEF Tasks
  <2>4. {job'[<<t, l>>].route : l \in Tasks(t, c)} = {job[<<t, l>>].route : l \in Tasks(t, c)}
    BY <2>3
  <2>5. active'[t][c] = {job'[<<t, l>>].route : l \in Tasks(t, c)}
    <3>1. active[t][c] = {job[<<t, l>>].route : l \in Tasks(t, c)}
      BY <1>2
    <3>2. active'[t] = active[t]
      BY <1>3, <1>9
    <3> QED
      BY <2>4, <3>1, <3>2
  <2>6. \A k, l \in Tasks(t, c) : k # l => job'[<<t, k>>].route # job'[<<t, l>>].route
    BY <1>2, <2>3
  <2> QED
    BY <2>2, <2>5, <2>6 DEF Exact
<1>10. active' \in [Streams -> [Chunks -> SUBSET Routes]]
  <2>1. active'[s] \in [Chunks -> SUBSET Routes]
    <3>1. \A c \in Chunks : {x.job.route : x \in new(c)} \in SUBSET Routes
      BY <1>4 DEF Jobs
    <3> HIDE DEF new
    <3> QED
      BY <1>3, <1>6, <3>1
  <2> QED
    BY <1>2, <1>3, <2>1
<1> QED
  BY <1>8, <1>9, <1>10

-----------------------------------------------------------------------------
(* The inductive invariant *)

(* Nothing was done for a request that is not served yet. *)
NotStarted ==
    \A s \in Streams : stream[s] = "new" =>
        /\ nextWrite[s] = First(s)
        /\ \A l \in LanesOf[s] : pc[<<s, l>>] = "idle"

InRange == \A s \in Streams : First(s) <= nextWrite[s]

(* The cache's invariant makes a result a chunk in the file; an exact      *)
(* activeRoutes makes a chunk nobody works on one that can be launched.    *)
RangeInv ==
    /\ CacheInv
    /\ LedgerExact
    /\ NotStarted
    /\ InRange
    /\ OutputBacked
    /\ ReadAheadBounded

LEMMA CacheKept == CacheInv /\ [Next]_vars => CacheInv'
BY TypesKept, HeldKept, EntryKept, LostKept, SuccessKept, ResultKept, SingleKept,
   CountedKept
DEF CacheInv

LEMMA Ledger ==
    ASSUME LedgerExact
    PROVE  /\ RangeTypeOK
           /\ \A s \in Streams, c \in Chunks : Exact(s, c)
BY DEF LedgerExact, Exact

LEMMA LedgerAgain ==
    ASSUME RangeTypeOK', \A s \in Streams, c \in Chunks : Exact(s, c)'
    PROVE  LedgerExact'
BY DEF LedgerExact, Exact

(* A worker's step in the cache neither ends its task nor changes it. *)
LEMMA WorkerGoesOn ==
    ASSUME CacheInv, NEW w \in Workers, WorkerStep(w)
    PROVE  /\ stream' = stream /\ job' = job
           /\ \A v \in Workers : pc'[v] = "idle" <=> pc[v] = "idle"
<1>1. pc \in [Workers -> {"idle", "enter", "wait", "download", "settle", "join", "return"}]
  BY DEF CacheInv, TypeOK
<1>2. /\ stream' = stream /\ job' = job /\ pc[w] # "idle"
      /\ \E label \in {"enter", "wait", "download", "settle", "join", "return"} :
            pc' = [pc EXCEPT ![w] = label]
  BY DEF WorkerStep, EnsureClosed, EnsureHit, EnsureHedge, EnsureWait, EnsureCreate, WaitDone,
         WaitCancelled, DownloadOK, DownloadFailed, DownloadCanceled, SettleLate, SettleFinal,
         SettleJoin, JoinDone, Goto, cacheVars
<1> QED
  BY <1>1, <1>2

(* activeRoutes without the task whose result was taken *)
LEMMA LessOne ==
    ASSUME RangeInv, NEW w \in Workers, pc[w] = "return"
    PROVE  HasLeft(w[1], {w}, ActiveWithout(w))
<1> DEFINE s == w[1]
<1>1. s \in Streams /\ w[2] \in LanesOf[s] /\ w = <<s, w[2]>>
  BY WorkerIs
<1>2. /\ active[s] \in [Chunks -> SUBSET Routes] /\ job[w] \in Jobs
      /\ \A c \in Chunks : Exact(s, c)
  BY <1>1, Ledger DEF RangeInv, RangeTypeOK, TypeOK
<1>3. job[w].chunk \in Chunks
  BY <1>2 DEF Jobs
<1> HIDE DEF s
<1>4. ASSUME NEW c \in Chunks, c # job[w].chunk
      PROVE  /\ ActiveWithout(w)[c] = active[s][c]
             /\ Left(s, {w}, c) = Tasks(s, c)
  <2>1. ActiveWithout(w)[c] = active[s][c]
    BY <1>2, <1>4 DEF ActiveWithout, s
  <2>2. \A l \in Tasks(s, c) : <<s, l>> # w
    BY <1>4 DEF Tasks
  <2> QED
    BY <2>1, <2>2 DEF Left
<1>5. ASSUME NEW c \in Chunks, c = job[w].chunk
      PROVE  ActiveWithout(w)[c] = {job[<<s, l>>].route : l \in Left(s, {w}, c)}
  <2>1. ActiveWithout(w)[c] = active[s][c] \ {job[w].route}
    BY <1>2, <1>5 DEF ActiveWithout, s
  <2>2. w[2] \in Tasks(s, c)
    BY <1>1, <1>5 DEF Tasks
  <2>3. Left(s, {w}, c) = Tasks(s, c) \ {w[2]}
    <3>1. \A l : <<s, l>> = w <=> l = w[2]
      BY <1>1
    <3> QED
      BY <3>1 DEF Left
  <2>4. \A l \in Tasks(s, c) : l # w[2] => job[<<s, l>>].route # job[<<s, w[2]>>].route
    BY <1>2, <2>2 DEF Exact
  <2>5. active[s][c] = {job[<<s, l>>].route : l \in Tasks(s, c)}
    BY <1>2 DEF Exact
  <2>6. job[<<s, w[2]>>] = job[w]
    BY <1>1
  <2> QED
    BY <2>1, <2>2, <2>3, <2>4, <2>5, <2>6
<1>6. ASSUME NEW c \in Chunks
      PROVE  ActiveWithout(w)[c] \subseteq active[s][c]
  BY <1>2, <1>3 DEF ActiveWithout, s
<1>7. \A c \in Chunks : active[s][c] = {job[<<s, l>>].route : l \in Tasks(s, c)}
  BY <1>2 DEF Exact
<1>8. \A c \in Chunks : ActiveWithout(w)[c] = {job[<<s, l>>].route : l \in Left(s, {w}, c)}
  BY <1>4, <1>5, <1>7
<1> QED
  BY <1>6, <1>8 DEF s, HasLeft

(* What every step of the main loop has in common *)
LEMMA ApplyStep ==
    ASSUME RangeInv, NEW s \in Streams, NEW freed, NEW act, NEW todo,
           nextWrite' \in [Streams -> Nat], nextWrite[s] <= nextWrite'[s],
           \A t \in Streams : t # s => nextWrite'[t] = nextWrite[t],
           FitAll(todo, nextWrite'[s], LanesOf[s], act), Apply(s, freed, act, todo),
           Ready(s, freed, todo), HasLeft(s, freed, act),
           UNCHANGED cacheVars,
           stream' \in [Streams -> {"new", "live", "gone", "done"} \cup Errors]
    PROVE  /\ CacheInv'
           /\ active' \in [Streams -> [Chunks -> SUBSET Routes]]
           /\ \A t \in Streams, c \in Chunks : Exact(t, c)'
           /\ \A t \in Streams, c \in Chunks :
                 active'[t][c] # {} => c < nextWrite'[t] + Prefetch
           /\ \A t \in Streams : t # s => \A l \in LanesOf[t] : pc'[<<t, l>>] = pc[<<t, l>>]
<1>1. CacheInv /\ LedgerExact
  BY DEF RangeInv
<1>2. Handed(s, freed, todo)
  BY ApplyHands
<1>3. CacheInv'
  <2>1. ASSUME NEW v \in Workers, Gets(s, todo, v) \/ v \in freed
        PROVE  pc[v] \in {"idle", "return"}
    BY <2>1 DEF Gets, Ready
  <2> QED
    BY <1>1, <2>1, ApplyCache
<1>4. /\ active' \in [Streams -> [Chunks -> SUBSET Routes]]
      /\ \A t \in Streams, c \in Chunks : Exact(t, c)'
  BY <1>1, ApplyLedger
<1>5. ASSUME NEW t \in Streams, NEW c \in Chunks, active'[t][c] # {}
      PROVE  c < nextWrite'[t] + Prefetch
  <2>1. /\ active \in [Streams -> [Chunks -> SUBSET Routes]]
        /\ nextWrite \in [Streams -> Nat]
        /\ c \in Nat /\ Prefetch \in Nat
    BY <1>1, Ledger, Parameters DEF RangeTypeOK
  <2>2. active[t][c] # {} => c < nextWrite[t] + Prefetch
    BY DEF RangeInv, ReadAheadBounded
  <2>3. CASE t # s
    <3>1. active'[t] = active[t] /\ nextWrite'[t] = nextWrite[t]
      BY <2>1, <2>3 DEF Apply
    <3> QED
      BY <1>5, <2>2, <3>1
  <2>4. CASE t = s
    <3>1. active'[s][c] = act[c] \cup {x.job.route : x \in {y \in todo : y.job.chunk = c}}
      BY <2>1 DEF Apply
    <3>2. CASE act[c] # {}
      <4>1. c < nextWrite[t] + Prefetch
        BY <2>2, <2>4, <3>2 DEF HasLeft
      <4>2. nextWrite[t] \in Nat /\ nextWrite'[t] \in Nat /\ nextWrite[t] <= nextWrite'[t]
        BY <2>1, <2>4
      <4> QED
        BY <2>1, <4>1, <4>2
    <3>3. CASE act[c] = {}
      <4>1. PICK x \in todo : x.job.chunk = c
        BY <1>5, <2>4, <3>1, <3>3
      <4> QED
        BY <2>4, <4>1 DEF FitAll, Fit
    <3> QED
      BY <3>2, <3>3
  <2> QED
    BY <2>3, <2>4
<1>6. ASSUME NEW t \in Streams, t # s, NEW l \in LanesOf[t]
      PROVE  pc'[<<t, l>>] = pc[<<t, l>>]
  <2>1. <<t, l>> \in Workers /\ ~Gets(s, todo, <<t, l>>) /\ <<t, l>> \notin freed
    <3>1. \A v \in freed : v # <<t, l>>
      BY <1>6 DEF Ready
    <3> QED
      BY <1>6, <3>1, WorkerIs DEF Gets
  <2> QED
    BY <1>2, <2>1 DEF Handed
<1> QED
  BY <1>3, <1>4, <1>5, <1>6

(* The workers, clients and release: the scheduler's state stands. *)
LEMMA CacheStepKeeps ==
    ASSUME RangeInv, UNCHANGED streamVars, RangeTypeOK', CacheInv', onDisk \subseteq onDisk',
           \A s \in Streams : stream'[s] = "new" => stream[s] = "new",
           job' = job, \A v \in Workers : pc'[v] = "idle" <=> pc[v] = "idle"
    PROVE  RangeInv'
<1>1. active' = active /\ nextWrite' = nextWrite /\ pending' = pending
  BY DEF streamVars
<1>2. \A s \in Streams : \A l \in LanesOf[s] : pc'[<<s, l>>] = "idle" <=> pc[<<s, l>>] = "idle"
  BY WorkerIs
<1>3. \A s \in Streams, c \in Chunks : Tasks(s, c)' = Tasks(s, c)
  BY <1>2 DEF Tasks
<1>4. ASSUME NEW s \in Streams, NEW c \in Chunks
      PROVE  Exact(s, c)'
  <2>1. Exact(s, c)
    BY Ledger DEF RangeInv
  <2> QED
    BY <1>1, <1>3, <2>1 DEF Exact
<1>5. LedgerExact'
  BY <1>4, LedgerAgain
<1>6. NotStarted'
  BY <1>1, <1>2 DEF NotStarted, RangeInv
<1> QED
  BY <1>1, <1>5, <1>6 DEF RangeInv, InRange, OutputBacked, ReadAheadBounded

(* The routes, and which of them the source is pinned to *)
LEMMA RouteStepKeeps ==
    ASSUME RangeInv, UNCHANGED <<vars, streamVars>>, RangeTypeOK'
    PROVE  RangeInv'
<1>1. CacheInv /\ UNCHANGED vars
  BY DEF RangeInv, vars
<1>2. CacheInv'
  BY <1>1, CacheKept DEF Next
<1>3. onDisk' = onDisk /\ stream' = stream /\ job' = job /\ pc' = pc /\ UNCHANGED streamVars
  BY DEF vars, streamVars
<1> QED
  BY <1>2, <1>3, CacheStepKeeps

LEMMA OpenKeeps ==
    ASSUME RangeInv, NEW s \in Streams, Open(s)
    PROVE  RangeInv'
<1> DEFINE todo == Launches(s, First(s), LanesOf[s], {}, active[s], LossyIn(loss))
<1>1. /\ RangeTypeOK /\ TypeOK /\ LedgerExact
      /\ \A t \in Streams, c \in Chunks : Exact(t, c)
  BY Ledger DEF RangeInv, RangeTypeOK
<1>2. /\ stream[s] = "new" /\ stream' = [stream EXCEPT ![s] = "live"]
      /\ Apply(s, {}, active[s], todo)
      /\ UNCHANGED cacheVars /\ nextWrite' = nextWrite /\ pending' = pending
      /\ loss' = loss /\ healthy' = healthy /\ pinned' = pinned /\ onDisk' = onDisk
  BY DEF Open, routeVars, cacheVars
<1>3. /\ nextWrite[s] = First(s) /\ nextWrite'[s] = First(s) /\ First(s) \in Nat
      /\ \A l \in LanesOf[s] : pc[<<s, l>>] = "idle"
  BY <1>2, Parameters DEF RangeInv, NotStarted
<1>4. FitAll(todo, First(s), LanesOf[s], active[s])
  BY <1>3, LaunchesFit
<1> HIDE DEF todo
<1>5. /\ nextWrite' \in [Streams -> Nat] /\ nextWrite[s] <= nextWrite'[s]
      /\ \A t \in Streams : t # s => nextWrite'[t] = nextWrite[t]
      /\ stream' \in [Streams -> {"new", "live", "gone", "done"} \cup Errors]
  BY <1>1, <1>2, <1>3 DEF RangeTypeOK, TypeOK
<1>6. Ready(s, {}, todo)
  BY <1>3, <1>4 DEF FitAll, Fit, Ready
<1>7. HasLeft(s, {}, active[s])
  <2>1. \A c : Left(s, {}, c) = Tasks(s, c)
    BY DEF Left
  <2> QED
    BY <1>1, <2>1 DEF Exact, HasLeft
<1>8. /\ CacheInv'
      /\ active' \in [Streams -> [Chunks -> SUBSET Routes]]
      /\ \A t \in Streams, c \in Chunks : Exact(t, c)'
      /\ \A t \in Streams, c \in Chunks :
            active'[t][c] # {} => c < nextWrite'[t] + Prefetch
      /\ \A t \in Streams : t # s => \A l \in LanesOf[t] : pc'[<<t, l>>] = pc[<<t, l>>]
  <2>1. FitAll(todo, nextWrite'[s], LanesOf[s], active[s])
    BY <1>3, <1>4
  <2> QED
    BY <1>2, <1>5, <1>6, <1>7, <2>1, ApplyStep
<1>9. RangeTypeOK'
  BY <1>1, <1>2, <1>5, <1>8 DEF RangeTypeOK, CacheInv
<1>10. NotStarted'
  BY <1>1, <1>2, <1>8 DEF NotStarted, RangeInv, TypeOK
<1>11. InRange' /\ OutputBacked'
  BY <1>2 DEF RangeInv, InRange, OutputBacked
<1>12. ReadAheadBounded'
  BY <1>2, <1>8 DEF RangeInv, ReadAheadBounded
<1> QED
  BY <1>8, <1>9, <1>10, <1>11, <1>12, LedgerAgain DEF RangeInv

(* A stream that has a result to take was opened. *)
LEMMA Opened ==
    ASSUME RangeInv, NEW w \in Workers, pc[w] = "return"
    PROVE  w[1] \in Streams /\ stream[w[1]] # "new"
BY WorkerIs DEF RangeInv, NotStarted

(* A result is taken and nothing is launched: the stream has ended. *)
LEMMA TakenKeeps ==
    ASSUME RangeInv, NEW w \in Workers, pc[w] = "return",
           Apply(w[1], {w}, ActiveWithout(w), {}),
           UNCHANGED <<cacheVars, nextWrite, pending, healthy, pinned>>,
           loss' \in [Routes -> 0 .. LossLimit],
           stream' \in [Streams -> {"new", "live", "gone", "done"} \cup Errors],
           \A t \in Streams : stream'[t] = "new" => stream[t] = "new"
    PROVE  RangeInv'
<1> DEFINE s == w[1]
<1>1. /\ RangeTypeOK /\ TypeOK /\ s \in Streams /\ stream[s] # "new"
  BY Ledger, Opened DEF RangeInv, RangeTypeOK
<1>2. /\ nextWrite' = nextWrite /\ pending' = pending /\ healthy' = healthy
      /\ pinned' = pinned /\ onDisk' = onDisk /\ UNCHANGED cacheVars
  BY DEF cacheVars
<1>3. /\ nextWrite' \in [Streams -> Nat] /\ nextWrite[s] <= nextWrite'[s]
      /\ \A t \in Streams : t # s => nextWrite'[t] = nextWrite[t]
  BY <1>1, <1>2 DEF RangeTypeOK
<1>4. Ready(s, {w}, {}) /\ FitAll({}, nextWrite'[s], LanesOf[s], ActiveWithout(w))
  BY DEF Ready, FitAll
<1>5. HasLeft(s, {w}, ActiveWithout(w))
  BY LessOne
<1> HIDE DEF s
<1>6. Apply(s, {w}, ActiveWithout(w), {})
  BY DEF s
<1>7. /\ CacheInv'
      /\ active' \in [Streams -> [Chunks -> SUBSET Routes]]
      /\ \A t \in Streams, c \in Chunks : Exact(t, c)'
      /\ \A t \in Streams, c \in Chunks :
            active'[t][c] # {} => c < nextWrite'[t] + Prefetch
      /\ \A t \in Streams : t # s => \A l \in LanesOf[t] : pc'[<<t, l>>] = pc[<<t, l>>]
  BY <1>1, <1>2, <1>3, <1>4, <1>5, <1>6, ApplyStep
<1>8. RangeTypeOK'
  BY <1>1, <1>2, <1>3, <1>7 DEF RangeTypeOK, CacheInv
<1>9. NotStarted'
  BY <1>1, <1>2, <1>7 DEF NotStarted, RangeInv
<1>10. InRange' /\ OutputBacked'
  BY <1>2 DEF RangeInv, InRange, OutputBacked
<1>11. ReadAheadBounded'
  BY <1>2, <1>7 DEF RangeInv, ReadAheadBounded
<1> QED
  BY <1>7, <1>8, <1>9, <1>10, <1>11, LedgerAgain DEF RangeInv

LEMMA DeliverErrorKeeps ==
    ASSUME RangeInv, NEW w \in Workers, DeliverError(w)
    PROVE  RangeInv'
<1>1. RangeTypeOK /\ TypeOK /\ w[1] \in Streams
  BY Ledger, WorkerIs DEF RangeInv, RangeTypeOK
<1>2. /\ pc[w] = "return" /\ Apply(w[1], {w}, ActiveWithout(w), {})
      /\ stream' = [stream EXCEPT ![w[1]] = res[w]]
      /\ UNCHANGED <<cacheVars, nextWrite, pending, healthy, pinned>> /\ loss' = loss
  BY DEF DeliverError, routeVars
<1>3. /\ loss' \in [Routes -> 0 .. LossLimit]
      /\ stream' \in [Streams -> {"new", "live", "gone", "done"} \cup Errors]
      /\ \A t \in Streams : stream'[t] = "new" => stream[t] = "new"
  BY <1>1, <1>2 DEF RangeTypeOK, TypeOK, Errors
<1> QED
  BY <1>2, <1>3, TakenKeeps

LEMMA DrainKeeps ==
    ASSUME RangeInv, NEW w \in Workers, Drain(w)
    PROVE  RangeInv'
<1>1. RangeTypeOK /\ TypeOK
  BY Ledger DEF RangeInv, RangeTypeOK
<1>2. /\ pc[w] = "return" /\ Apply(w[1], {w}, ActiveWithout(w), {}) /\ stream' = stream
      /\ UNCHANGED <<cacheVars, nextWrite, pending, healthy, pinned>> /\ loss' = loss
  BY DEF Drain, routeVars
<1>3. /\ loss' \in [Routes -> 0 .. LossLimit]
      /\ stream' \in [Streams -> {"new", "live", "gone", "done"} \cup Errors]
      /\ \A t \in Streams : stream'[t] = "new" => stream[t] = "new"
  BY <1>1, <1>2 DEF RangeTypeOK, TypeOK
<1> QED
  BY <1>2, <1>3, TakenKeeps

(* A chunk that arrives is in the file and inside the window. *)
LEMMA Arrived ==
    ASSUME RangeInv, NEW w \in Workers, pc[w] = "return", res[w] \in {"ok", "lost"}
    PROVE  /\ PendingAfter(w) \in SUBSET Chunks
           /\ PendingAfter(w) \subseteq onDisk
           /\ \A c \in PendingAfter(w) : c < nextWrite[w[1]] + Prefetch
<1> DEFINE s == w[1]
           c == job[w].chunk
<1>1. /\ RangeTypeOK /\ TypeOK /\ s \in Streams /\ w[2] \in LanesOf[s] /\ w = <<s, w[2]>>
  BY Ledger, WorkerIs DEF RangeInv, RangeTypeOK
<1>2. job[w] \in Jobs /\ c \in Chunks
  BY <1>1 DEF TypeOK, Jobs
<1>3. c \in onDisk
  BY DEF RangeInv, CacheInv, ResultBacked
<1>4. c < nextWrite[s] + Prefetch
  <2>1. w[2] \in Tasks(s, c)
    BY <1>1 DEF Tasks
  <2>2. active[s][c] = {job[<<s, l>>].route : l \in Tasks(s, c)}
    BY <1>1, <1>2, Ledger DEF RangeInv, Exact
  <2>3. active[s][c] # {}
    BY <2>1, <2>2
  <2> QED
    BY <1>1, <1>2, <2>3 DEF RangeInv, ReadAheadBounded
<1>5. pending[s] \in SUBSET Chunks
  BY <1>1 DEF RangeTypeOK
<1>6. pending[s] \subseteq onDisk /\ \A i \in pending[s] : i < nextWrite[s] + Prefetch
  BY <1>1, <1>5 DEF RangeInv, OutputBacked, ReadAheadBounded
<1> QED
  BY <1>2, <1>3, <1>4, <1>5, <1>6 DEF PendingAfter

LEMMA LossType ==
    ASSUME RangeTypeOK, NEW w \in Workers, job[w] \in Jobs
    PROVE  LossAfter(w) \in [Routes -> 0 .. LossLimit]
<1>1. loss \in [Routes -> 0 .. LossLimit] /\ job[w].route \in Routes /\ LossLimit \in Nat
  BY Parameters DEF RangeTypeOK, Jobs
<1>2. \A k \in 0 .. LossLimit : (IF res[w] # "lost" THEN 0 ELSE IF k < LossLimit THEN k + 1 ELSE k)
                                   \in 0 .. LossLimit
  BY <1>1
<1> QED
  BY <1>1, <1>2 DEF LossAfter

(* What is known of the main branch of Deliver: the chunks from the next   *)
(* one on stay at hand, and the idle lanes get tasks on chunks before the  *)
(* end of the window.                                                      *)
NextOf(w) == NextMissing(nextWrite[w[1]], PendingAfter(w))
Ahead(w) == {c \in PendingAfter(w) : c >= NextOf(w)}
Todo(w) == Launches(w[1], NextOf(w), IdleLanes(w[1]) \cup {w[2]}, Ahead(w),
                    ActiveWithout(w), LossyIn(LossAfter(w)))

Schedules(w) ==
    /\ stream' = IF NextOf(w) > Last(w[1]) THEN [stream EXCEPT ![w[1]] = "done"] ELSE stream
    /\ nextWrite' = [nextWrite EXCEPT ![w[1]] = NextOf(w)]
    /\ pending' = [pending EXCEPT ![w[1]] = Ahead(w)]
    /\ Apply(w[1], {w}, ActiveWithout(w), Todo(w))

LEMMA DeliverIs ==
    ASSUME NEW w \in Workers, Deliver(w)
    PROVE  /\ pc[w] = "return" /\ Live(w) /\ res[w] \in {"ok", "lost"}
           /\ loss' = LossAfter(w) /\ UNCHANGED cacheVars
           /\ healthy' = healthy /\ pinned' = pinned
           /\ \/ /\ stream' = [stream EXCEPT ![w[1]] = "closed"]
                 /\ Apply(w[1], {w}, ActiveWithout(w), {})
                 /\ nextWrite' = nextWrite /\ pending' = pending
              \/ Schedules(w)
BY DEF Deliver, Schedules, NextOf, Ahead, Todo

LEMMA NextIs ==
    ASSUME RangeInv, NEW w \in Workers, pc[w] = "return", res[w] \in {"ok", "lost"}
    PROVE  /\ w[1] \in Streams /\ nextWrite[w[1]] \in Nat
           /\ NextOf(w) \in Nat /\ nextWrite[w[1]] <= NextOf(w) /\ First(w[1]) <= NextOf(w)
           /\ NextOf(w) \notin PendingAfter(w)
           /\ \A i \in Nat : nextWrite[w[1]] <= i /\ i < NextOf(w) => i \in PendingAfter(w)
<1>1. RangeTypeOK /\ w[1] \in Streams
  BY Ledger, WorkerIs DEF RangeInv
<1>2. nextWrite[w[1]] \in Nat /\ PendingAfter(w) \in SUBSET Chunks
  BY <1>1, Arrived DEF RangeTypeOK
<1>3. /\ NextOf(w) \in Nat /\ nextWrite[w[1]] <= NextOf(w) /\ NextOf(w) \notin PendingAfter(w)
      /\ \A i \in Nat : nextWrite[w[1]] <= i /\ i < NextOf(w) => i \in PendingAfter(w)
  BY <1>2, NextMissingIs DEF NextOf
<1>4. First(w[1]) \in Nat /\ First(w[1]) <= nextWrite[w[1]]
  BY <1>1, Parameters DEF RangeInv, InRange
<1>5. First(w[1]) <= NextOf(w)
  BY <1>2, <1>3, <1>4
<1> QED
  BY <1>1, <1>2, <1>3, <1>5

LEMMA SchedulesKeeps ==
    ASSUME RangeInv, NEW w \in Workers, pc[w] = "return", res[w] \in {"ok", "lost"},
           Live(w), loss' = LossAfter(w), UNCHANGED <<cacheVars, healthy, pinned>>, Schedules(w)
    PROVE  RangeInv'
<1> DEFINE s == w[1]
<1>1. /\ RangeTypeOK /\ TypeOK /\ s \in Streams /\ w[2] \in LanesOf[s] /\ w = <<s, w[2]>>
  BY Ledger, WorkerIs DEF RangeInv, RangeTypeOK
<1>2. /\ NextOf(w) \in Nat /\ nextWrite[s] \in Nat /\ nextWrite[s] <= NextOf(w)
      /\ First(s) <= NextOf(w) /\ NextOf(w) \notin PendingAfter(w)
      /\ \A i \in Nat : nextWrite[s] <= i /\ i < NextOf(w) => i \in PendingAfter(w)
  BY NextIs
<1>3. /\ PendingAfter(w) \in SUBSET Chunks /\ PendingAfter(w) \subseteq onDisk
      /\ \A c \in PendingAfter(w) : c < nextWrite[s] + Prefetch
  BY Arrived
<1>4. /\ healthy' = healthy /\ pinned' = pinned /\ onDisk' = onDisk /\ UNCHANGED cacheVars
      /\ nextWrite' = [nextWrite EXCEPT ![s] = NextOf(w)]
      /\ pending' = [pending EXCEPT ![s] = Ahead(w)]
      /\ stream' = IF NextOf(w) > Last(s) THEN [stream EXCEPT ![s] = "done"] ELSE stream
      /\ Apply(s, {w}, ActiveWithout(w), Todo(w))
  BY DEF cacheVars, Schedules
<1>5. /\ nextWrite' \in [Streams -> Nat] /\ nextWrite'[s] = NextOf(w)
      /\ nextWrite[s] <= nextWrite'[s]
      /\ \A t \in Streams : t # s => nextWrite'[t] = nextWrite[t]
      /\ \A t \in Streams : t # s => pending'[t] = pending[t]
      /\ pending'[s] = Ahead(w)
      /\ stream' \in [Streams -> {"new", "live", "gone", "done"} \cup Errors]
  BY <1>1, <1>2, <1>4 DEF RangeTypeOK, TypeOK
<1>6. FitAll(Todo(w), NextOf(w), IdleLanes(s) \cup {w[2]}, ActiveWithout(w))
  BY <1>1, <1>2, LaunchesFit DEF Todo
<1>7. FitAll(Todo(w), nextWrite'[s], LanesOf[s], ActiveWithout(w))
  BY <1>1, <1>5, <1>6 DEF FitAll, Fit, IdleLanes
<1>8. Ready(s, {w}, Todo(w))
  BY <1>1, <1>6 DEF Ready, FitAll, Fit, IdleLanes
<1>9. HasLeft(s, {w}, ActiveWithout(w))
  BY LessOne
<1> HIDE DEF s
<1>10. /\ CacheInv'
       /\ active' \in [Streams -> [Chunks -> SUBSET Routes]]
       /\ \A t \in Streams, c \in Chunks : Exact(t, c)'
       /\ \A t \in Streams, c \in Chunks :
             active'[t][c] # {} => c < nextWrite'[t] + Prefetch
       /\ \A t \in Streams : t # s => \A l \in LanesOf[t] : pc'[<<t, l>>] = pc[<<t, l>>]
  BY <1>1, <1>4, <1>5, <1>7, <1>8, <1>9, ApplyStep
<1>11. Ahead(w) \subseteq PendingAfter(w)
  BY DEF Ahead
<1>12. RangeTypeOK'
  <2>1. loss' \in [Routes -> 0 .. LossLimit]
    BY <1>1, LossType DEF TypeOK
  <2>2. pending' \in [Streams -> SUBSET Chunks]
    BY <1>1, <1>3, <1>4, <1>11 DEF RangeTypeOK
  <2> QED
    BY <1>1, <1>4, <1>5, <1>10, <2>1, <2>2 DEF RangeTypeOK, CacheInv
<1>13. NotStarted'
  <2>1. ASSUME NEW t \in Streams, stream'[t] = "new"
        PROVE  t # s /\ stream[t] = "new"
    BY <1>1, <1>4, <2>1 DEF TypeOK, Live, s
  <2> QED
    BY <1>5, <1>10, <2>1 DEF NotStarted, RangeInv
<1>14. InRange'
  BY <1>2, <1>5 DEF RangeInv, InRange
<1>15. OutputBacked'
  <2>1. ASSUME NEW t \in Streams, NEW i \in First(t) .. nextWrite'[t] - 1
        PROVE  i \in onDisk
    <3>1. CASE t = s /\ ~(i < nextWrite[s])
      <4>1. i \in Nat /\ nextWrite[s] <= i /\ i < NextOf(w)
        BY <1>1, <1>2, <1>5, <2>1, <3>1, Parameters
      <4> QED
        BY <1>2, <1>3, <4>1
    <3>2. CASE t # s \/ i < nextWrite[s]
      <4>1. i \in First(t) .. nextWrite[t] - 1
        BY <1>1, <1>2, <1>5, <2>1, <3>2, Parameters
      <4> QED
        BY <4>1 DEF RangeInv, OutputBacked
    <3> QED
      BY <3>1, <3>2
  <2>2. \A t \in Streams : pending'[t] \subseteq onDisk /\ nextWrite'[t] \notin pending'[t]
    BY <1>2, <1>3, <1>5, <1>11 DEF RangeInv, OutputBacked
  <2> QED
    BY <1>4, <2>1, <2>2 DEF OutputBacked
<1>16. ReadAheadBounded'
  <2>1. ASSUME NEW t \in Streams, NEW c \in Chunks, c \in pending'[t]
        PROVE  c < nextWrite'[t] + Prefetch
    <3>1. CASE t = s
      <4>1. c < nextWrite[s] + Prefetch
        BY <1>3, <1>5, <1>11, <2>1, <3>1
      <4> QED
        BY <1>2, <1>5, <3>1, <4>1, Parameters
    <3>2. CASE t # s
      BY <1>5, <2>1, <3>2 DEF RangeInv, ReadAheadBounded
    <3> QED
      BY <3>1, <3>2
  <2> QED
    BY <1>10, <2>1 DEF ReadAheadBounded
<1> QED
  BY <1>10, <1>12, <1>13, <1>14, <1>15, <1>16, LedgerAgain DEF RangeInv

LEMMA DeliverKeeps ==
    ASSUME RangeInv, NEW w \in Workers, Deliver(w)
    PROVE  RangeInv'
<1>1. RangeTypeOK /\ TypeOK /\ w[1] \in Streams
  BY Ledger, WorkerIs DEF RangeInv, RangeTypeOK
<1>2. /\ pc[w] = "return" /\ Live(w) /\ res[w] \in {"ok", "lost"} /\ loss' = LossAfter(w)
      /\ UNCHANGED <<cacheVars, healthy, pinned>>
  BY DeliverIs
<1>3. CASE Schedules(w)
  BY <1>2, <1>3, SchedulesKeeps
<1>4. CASE ~Schedules(w)
  <2>1. /\ stream' = [stream EXCEPT ![w[1]] = "closed"]
        /\ Apply(w[1], {w}, ActiveWithout(w), {})
        /\ nextWrite' = nextWrite /\ pending' = pending
    BY <1>4, DeliverIs
  <2>2. /\ loss' \in [Routes -> 0 .. LossLimit]
        /\ stream' \in [Streams -> {"new", "live", "gone", "done"} \cup Errors]
        /\ \A t \in Streams : stream'[t] = "new" => stream[t] = "new"
    BY <1>1, <1>2, <2>1, LossType DEF TypeOK, Errors
  <2> QED
    BY <1>2, <2>1, <2>2, TakenKeeps
<1> QED
  BY <1>3, <1>4

LEMMA CacheMoves ==
    ASSUME RangeInv, NEW w \in Workers, CacheStep(w)
    PROVE  RangeInv'
<1>1. RangeTypeOK /\ CacheInv /\ WorkerStep(w) /\ UNCHANGED streamVars
      /\ loss' = loss /\ healthy' = healthy /\ pinned' = pinned
      /\ nextWrite' = nextWrite /\ pending' = pending /\ active' = active
  BY Ledger DEF RangeInv, CacheStep, routeVars, streamVars
<1>2. [Next]_vars
  BY <1>1 DEF Next
<1>3. CacheInv' /\ onDisk \subseteq onDisk'
  BY <1>1, <1>2, CacheKept, DiskGrows
<1>4. RangeTypeOK'
  BY <1>1, <1>3 DEF RangeTypeOK, CacheInv
<1> QED
  BY <1>1, <1>3, <1>4, WorkerGoesOn, CacheStepKeeps

LEMMA SourceMoves ==
    ASSUME RangeInv, (\E s \in Streams : Leave(s)) \/ Release
    PROVE  RangeInv'
<1>1. RangeTypeOK /\ CacheInv /\ UNCHANGED streamVars
      /\ loss' = loss /\ healthy' = healthy /\ pinned' = pinned
      /\ nextWrite' = nextWrite /\ pending' = pending /\ active' = active
  BY Ledger DEF RangeInv, Leave, Release, routeVars, streamVars
<1>2. [Next]_vars /\ job' = job /\ pc' = pc
  BY DEF Leave, Release, Next, ClientGone, CloseCache, workerVars
<1>3. CacheInv' /\ onDisk \subseteq onDisk'
  BY <1>1, <1>2, CacheKept, DiskGrows
<1>4. RangeTypeOK'
  BY <1>1, <1>3 DEF RangeTypeOK, CacheInv
<1>5. \A s \in Streams : stream'[s] = "new" => stream[s] = "new"
  BY <1>1 DEF Leave, Release, ClientGone, CloseCache, RangeTypeOK, TypeOK
<1> QED
  BY <1>1, <1>2, <1>3, <1>4, <1>5, CacheStepKeeps

LEMMA RouteMoves ==
    ASSUME RangeInv,
           \/ \E r \in Routes : RouteFails(r) \/ RouteRecovers(r)
           \/ \E n \in 1 .. MaxSources : \E i \in 0 .. n - 1 : Rebalance(n, i)
           \/ UNCHANGED allVars
    PROVE  RangeInv'
<1>1. RangeTypeOK /\ TypeOK
  BY Ledger DEF RangeInv, RangeTypeOK
<1>2. UNCHANGED <<vars, streamVars>> /\ loss' = loss
  BY DEF RouteFails, RouteRecovers, Rebalance, allVars, routeVars
<1>3. /\ TypeOK' /\ nextWrite' = nextWrite /\ pending' = pending /\ active' = active
  BY <1>1, <1>2 DEF vars, streamVars, TypeOK
<1>4. healthy' \in [Routes -> BOOLEAN] /\ pinned' \in 0 .. 2
  <2>1. \A i \in Nat : Rank(i) \in 1 .. 2
    BY DEF Rank
  <2>2. \A n \in 1 .. MaxSources : \A i \in 0 .. n - 1 : i \in Nat
    OBVIOUS
  <2>3. CASE \E n \in 1 .. MaxSources : \E i \in 0 .. n - 1 : Rebalance(n, i)
    BY <1>1, <2>1, <2>2, <2>3 DEF Rebalance, RangeTypeOK
  <2>4. CASE \E r \in Routes : RouteFails(r) \/ RouteRecovers(r)
    BY <1>1, <2>4 DEF RouteFails, RouteRecovers, RangeTypeOK
  <2>5. CASE UNCHANGED allVars
    BY <1>1, <2>5 DEF allVars, routeVars, RangeTypeOK
  <2> QED
    BY <2>3, <2>4, <2>5
<1>5. RangeTypeOK'
  BY <1>1, <1>2, <1>3, <1>4 DEF RangeTypeOK
<1> QED
  BY <1>2, <1>5, RouteStepKeeps

LEMMA RangeKept == RangeInv /\ [RangeNext]_allVars => RangeInv'
<1> SUFFICES ASSUME RangeInv, [RangeNext]_allVars PROVE RangeInv'
  OBVIOUS
<1>1. CASE \E w \in Workers : CacheStep(w)
  BY <1>1, CacheMoves
<1>2. CASE \E w \in Workers : StreamStep(w)
  BY <1>2, DeliverKeeps, DeliverErrorKeeps, DrainKeeps DEF StreamStep
<1>3. CASE \E s \in Streams : Open(s)
  BY <1>3, OpenKeeps
<1>4. CASE (\E s \in Streams : Leave(s)) \/ Release
  BY <1>4, SourceMoves
<1>5. CASE \/ \E r \in Routes : RouteFails(r) \/ RouteRecovers(r)
           \/ \E n \in 1 .. MaxSources : \E i \in 0 .. n - 1 : Rebalance(n, i)
           \/ UNCHANGED allVars
  BY <1>5, RouteMoves
<1> QED
  BY <1>1, <1>2, <1>3, <1>4, <1>5 DEF RangeNext, SteadyNext, Ended

LEMMA RangeStarts == RangeInit => RangeInv
<1> SUFFICES ASSUME RangeInit PROVE RangeInv
  OBVIOUS
<1>1. rec = <<>> /\ rec \in Seq(Records) /\ Len(rec) = 0 /\ DOMAIN rec = {}
  BY EmptySeq, LenProperties DEF RangeInit, CacheInit
<1>2. TypeOK
  BY <1>1 DEF RangeInit, CacheInit, TypeOK, Errors
<1>3. CacheInv
  BY <1>1, <1>2 DEF RangeInit, CacheInit, CacheInv, HeldFits, EntryFits, LostIsRelative,
                    SuccessBacked, ResultBacked, SingleFlight, AttemptsCounted
<1>4. RangeTypeOK
  BY <1>2, Parameters DEF RangeInit, RangeTypeOK
<1>5. ASSUME NEW s \in Streams
      PROVE  /\ nextWrite[s] = First(s) /\ First(s) \in Nat /\ pending[s] = {}
             /\ \A l \in LanesOf[s] : pc[<<s, l>>] = "idle"
             /\ \A c \in Chunks : active[s][c] = {} /\ Tasks(s, c) = {}
  BY Parameters, WorkerIs DEF RangeInit, Tasks
<1>6. NotStarted /\ InRange
  BY <1>5 DEF NotStarted, InRange
<1>7. LedgerExact
  BY <1>4, <1>5 DEF LedgerExact
<1>8. OutputBacked
  <2>1. \A s \in Streams : First(s) .. nextWrite[s] - 1 = {}
    BY <1>5
  <2> QED
    BY <1>5, <2>1 DEF OutputBacked
<1>9. ReadAheadBounded
  BY <1>5 DEF ReadAheadBounded
<1> QED
  BY <1>3, <1>6, <1>7, <1>8, <1>9 DEF RangeInv

-----------------------------------------------------------------------------
(* What holds of the scheduler *)

(* RangeInv holds throughout, whatever the workers, the other streams, the *)
(* routes and the sessions do.                                             *)
THEOREM RangeInvariant == RangeSpec => []RangeInv
BY RangeStarts, RangeKept, PTL DEF RangeSpec

(* activeRoutes is exact: streamRanges never fetches a chunk twice on one  *)
(* route, and never believes in a fetch that is over.                      *)
THEOREM LedgerHolds == RangeSpec => []LedgerExact
<1>1. RangeInv => LedgerExact
  BY DEF RangeInv
<1> QED
  BY RangeInvariant, <1>1, PTL

(* What is copied to FFmpeg was downloaded before, in order. *)
THEOREM OutputHolds == RangeSpec => []OutputBacked
<1>1. RangeInv => OutputBacked
  BY DEF RangeInv
<1> QED
  BY RangeInvariant, <1>1, PTL

(* What is fetched or kept lies within prefetchChunks of the oldest chunk  *)
(* not yet written.                                                        *)
THEOREM ReadAheadHolds == RangeSpec => []ReadAheadBounded
<1>1. RangeInv => ReadAheadBounded
  BY DEF RangeInv
<1> QED
  BY RangeInvariant, <1>1, PTL

-----------------------------------------------------------------------------
(* When a stream is left with nothing in flight *)

LEMMA SameRoutes ==
    ASSUME NEW s, healthy' = healthy, pinned' = pinned
    PROVE  LaneRoutes(s)' = LaneRoutes(s)
BY DEF LaneRoutes, Assigned, Usable, Nth

(* No lane of s is busy after the step: nothing was launched. *)
LEMMA NoneBusy ==
    ASSUME NEW s \in Streams, NEW freed, NEW act, NEW todo, NEW n,
           FitAll(todo, n, LanesOf[s], act), Apply(s, freed, act, todo),
           \A l \in LanesOf[s] : pc'[<<s, l>>] = "idle"
    PROVE  /\ todo = {}
           /\ \A l \in LanesOf[s] : <<s, l>> \in freed \/ pc[<<s, l>>] = "idle"
<1>1. Handed(s, freed, todo)
  BY ApplyHands
<1>2. \A x \in todo : x.lane \in LanesOf[s] /\ pc'[<<s, x.lane>>] = "enter"
  BY <1>1 DEF Handed, FitAll, Fit
<1>3. todo = {}
  BY <1>2
<1>4. \A v \in Workers : ~Gets(s, todo, v)
  BY <1>3 DEF Gets
<1> QED
  BY <1>1, <1>3, <1>4, WorkerIs DEF Handed

(* The other streams are not concerned. *)
LEMMA OthersStand ==
    ASSUME NEW s \in Streams, NEW freed, NEW act, NEW todo, NEW n,
           FitAll(todo, n, LanesOf[s], act), Apply(s, freed, act, todo), Ready(s, freed, todo),
           NEW t \in Streams, t # s, stream'[t] = stream[t]
    PROVE  Starved(t)' <=> Starved(t)
<1>1. Handed(s, freed, todo)
  BY ApplyHands
<1>2. ASSUME NEW l \in LanesOf[t]
      PROVE  pc'[<<t, l>>] = pc[<<t, l>>]
  <2>1. \A v \in freed : v # <<t, l>>
    BY DEF Ready
  <2>2. <<t, l>> \in Workers /\ ~Gets(s, todo, <<t, l>>)
    BY WorkerIs DEF Gets
  <2> QED
    BY <1>1, <2>1, <2>2 DEF Handed
<1> QED
  BY <1>2 DEF Starved

AllLossy(s) == \A l \in DOMAIN LaneRoutes(s) : loss[LaneRoutes(s)[l]] >= LossLimit

LEMMA OpenStarves ==
    ASSUME RangeInv, NEW s \in Streams, Open(s), NEW t \in Streams, Starved(t)', ~Starved(t)
    PROVE  AllLossy(t)'
<1> DEFINE todo == Launches(s, First(s), LanesOf[s], {}, active[s], LossyIn(loss))
<1>1. /\ RangeTypeOK /\ TypeOK /\ \A c \in Chunks : Exact(s, c)
  BY Ledger DEF RangeInv, RangeTypeOK
<1>2. /\ stream[s] = "new" /\ stream' = [stream EXCEPT ![s] = "live"]
      /\ Apply(s, {}, active[s], todo)
      /\ loss' = loss /\ healthy' = healthy /\ pinned' = pinned
  BY DEF Open, routeVars
<1>3. /\ First(s) \in Nat /\ First(s) <= Last(s) /\ First(s) <= First(s) /\ First(s) \in Chunks
      /\ \A l \in LanesOf[s] : pc[<<s, l>>] = "idle"
  <2>1. First(s) \in Nat /\ Last(s) \in Nat /\ First(s) <= Last(s)
    BY Parameters
  <2>2. First(s) <= First(s)
    BY <2>1
  <2>3. First(s) \in Chunks
    BY <2>1, <2>2, Parameters
  <2> QED
    BY <1>2, <2>1, <2>2, <2>3 DEF RangeInv, NotStarted
<1>4. FitAll(todo, First(s), LanesOf[s], active[s])
  BY <1>3, LaunchesFit
<1>5. Ready(s, {}, todo)
  BY <1>3, <1>4 DEF FitAll, Fit, Ready
<1>6. t = s
  <2> HIDE DEF todo
  <2>1. t # s => stream'[t] = stream[t]
    BY <1>1, <1>2 DEF TypeOK
  <2> QED
    BY <1>2, <1>4, <1>5, <2>1, OthersStand
<1>7. todo = {}
  <2> HIDE DEF todo
  <2>1. \A l \in LanesOf[s] : pc'[<<s, l>>] = "idle"
    BY <1>6 DEF Starved
  <2> QED
    BY <1>2, <1>4, <2>1, NoneBusy
<1>8. active[s][First(s)] = {}
  <2>1. Tasks(s, First(s)) = {}
    BY <1>3 DEF Tasks
  <2> QED
    BY <1>1, <1>3, <2>1 DEF Exact
<1>9. ASSUME NEW l \in DOMAIN LaneRoutes(s)
      PROVE  loss[LaneRoutes(s)[l]] >= LossLimit
  <2>1. l \in LanesOf[s] \cap DOMAIN LaneRoutes(s) /\ First(s) \notin {}
    BY LaneRoutesType
  <2>2. LaneRoutes(s)[l] \in LossyIn(loss)
    BY <1>3, <1>7, <1>8, <2>1, NothingLeft
  <2> QED
    BY <2>2 DEF LossyIn
<1>10. LaneRoutes(s)' = LaneRoutes(s)
  BY <1>2, SameRoutes
<1> QED
  BY <1>2, <1>6, <1>9, <1>10 DEF AllLossy

LEMMA SchedulesStarves ==
    ASSUME RangeInv, NEW w \in Workers, pc[w] = "return", res[w] \in {"ok", "lost"},
           Live(w), loss' = LossAfter(w), healthy' = healthy, pinned' = pinned, Schedules(w),
           NEW t \in Streams, Starved(t)', ~Starved(t)
    PROVE  AllLossy(t)'
<1> DEFINE s == w[1]
           n == NextOf(w)
<1>1. /\ RangeTypeOK /\ TypeOK /\ s \in Streams /\ w[2] \in LanesOf[s] /\ w = <<s, w[2]>>
  BY Ledger, WorkerIs DEF RangeInv, RangeTypeOK
<1>2. n \in Nat /\ First(s) <= n /\ n \notin PendingAfter(w)
  BY NextIs
<1>3. /\ stream' = IF n > Last(s) THEN [stream EXCEPT ![s] = "done"] ELSE stream
      /\ Apply(s, {w}, ActiveWithout(w), Todo(w))
  BY DEF Schedules
<1>4. FitAll(Todo(w), n, IdleLanes(s) \cup {w[2]}, ActiveWithout(w))
  BY <1>1, <1>2, LaunchesFit DEF Todo
<1>5. FitAll(Todo(w), n, LanesOf[s], ActiveWithout(w)) /\ Ready(s, {w}, Todo(w))
  BY <1>1, <1>4 DEF FitAll, Fit, IdleLanes, Ready
<1> HIDE DEF s, n
<1>6. t = s
  <2>1. t # s => stream'[t] = stream[t]
    BY <1>1, <1>3 DEF TypeOK
  <2> QED
    BY <1>1, <1>3, <1>5, <2>1, OthersStand
<1>7. /\ Todo(w) = {}
      /\ \A l \in LanesOf[s] : <<s, l>> \in {w} \/ pc[<<s, l>>] = "idle"
  <2>1. \A l \in LanesOf[s] : pc'[<<s, l>>] = "idle"
    BY <1>6 DEF Starved
  <2> QED
    BY <1>1, <1>3, <1>5, <2>1, NoneBusy
<1>8. n <= Last(s) /\ n \in Chunks
  <2>1. stream'[s] = "live" /\ Last(s) \in Nat
    BY <1>1, <1>6, Parameters DEF Starved
  <2>2. ~(n > Last(s))
    BY <1>1, <1>3, <2>1 DEF TypeOK
  <2>3. n <= Last(s)
    BY <1>2, <2>1, <2>2
  <2> QED
    BY <1>1, <1>2, <2>3, Parameters
<1>9. ActiveWithout(w)[n] = {}
  <2>1. ActiveWithout(w)[n] = {job[<<s, l>>].route : l \in Left(s, {w}, n)}
    BY <1>8, LessOne DEF HasLeft, s
  <2>2. Left(s, {w}, n) = {}
    BY <1>7 DEF Left, Tasks
  <2> QED
    BY <2>1, <2>2
<1>10. ASSUME NEW l \in DOMAIN LaneRoutes(s)
       PROVE  LossAfter(w)[LaneRoutes(s)[l]] >= LossLimit
  <2> DEFINE idle == IdleLanes(s) \cup {w[2]}
  <2>1. l \in LanesOf[s]
    BY <1>1, LaneRoutesType
  <2>2. l \in idle
    <3>1. CASE <<s, l>> = w
      <4>1. w[2] = l
        BY <3>1
      <4> QED
        BY <4>1
    <3>2. CASE <<s, l>> # w
      BY <1>7, <2>1, <3>2 DEF IdleLanes
    <3> QED
      BY <3>1, <3>2
  <2>3. n \notin Ahead(w)
    BY <1>2 DEF Ahead
  <2>4. Launches(s, n, idle, Ahead(w), ActiveWithout(w), LossyIn(LossAfter(w))) = {}
    BY <1>7 DEF Todo, s, n
  <2>5. l \in idle \cap DOMAIN LaneRoutes(s)
    BY <2>2
  <2> HIDE DEF idle
  <2>6. LaneRoutes(s)[l] \in LossyIn(LossAfter(w))
    BY <1>1, <1>2, <1>8, <1>9, <2>3, <2>4, <2>5, NothingLeft
  <2> QED
    BY <2>6 DEF LossyIn
<1>11. LaneRoutes(s)' = LaneRoutes(s)
  BY SameRoutes
<1> QED
  BY <1>6, <1>10, <1>11 DEF AllLossy

(* A stream whose result was taken without scheduling has ended. *)
LEMMA TakenStarves ==
    ASSUME RangeInv, NEW w \in Workers, pc[w] = "return",
           Apply(w[1], {w}, ActiveWithout(w), {}), stream'[w[1]] # "live",
           \A t \in Streams : t # w[1] => stream'[t] = stream[t]
    PROVE  \A t \in Streams : Starved(t)' => Starved(t)
<1>1. w[1] \in Streams /\ Ready(w[1], {w}, {}) /\ FitAll({}, 0, LanesOf[w[1]], ActiveWithout(w))
  BY WorkerIs DEF Ready, FitAll
<1>2. ASSUME NEW t \in Streams, Starved(t)'
      PROVE  Starved(t)
  <2>1. t # w[1]
    BY <1>2 DEF Starved
  <2> QED
    BY <1>1, <1>2, <2>1, OthersStand
<1> QED
  BY <1>2

(* Whatever leaves the lanes as busy as they are *)
LEMMA SameLanes ==
    ASSUME \A t \in Streams : stream'[t] = "live" => stream[t] = "live",
           \A v \in Workers : pc'[v] = "idle" <=> pc[v] = "idle"
    PROVE  \A t \in Streams : Starved(t)' => Starved(t)
BY WorkerIs DEF Starved

LEMMA Starves ==
    ASSUME RangeInv, RangeNext, NEW t \in Streams, Starved(t)', ~Starved(t)
    PROVE  AllLossy(t)'
<1>1. RangeTypeOK /\ TypeOK /\ CacheInv
  BY Ledger DEF RangeInv, RangeTypeOK
<1>2. ASSUME NEW w \in Workers, CacheStep(w)
      PROVE  FALSE
  BY <1>1, <1>2, WorkerGoesOn, SameLanes DEF CacheStep
<1>3. ASSUME NEW w \in Workers, DeliverError(w) \/ Drain(w)
      PROVE  FALSE
  <2>1. w[1] \in Streams
    BY WorkerIs
  <2>2. pc[w] = "return" /\ Apply(w[1], {w}, ActiveWithout(w), {})
    BY <1>3 DEF DeliverError, Drain
  <2>3. /\ stream'[w[1]] # "live"
        /\ \A q \in Streams : q # w[1] => stream'[q] = stream[q]
    BY <1>1, <1>3, <2>1 DEF DeliverError, Drain, TypeOK, Live, Errors
  <2> QED
    BY <2>2, <2>3, TakenStarves
<1>4. ASSUME NEW w \in Workers, Deliver(w)
      PROVE  AllLossy(t)'
  <2>1. w[1] \in Streams
    BY WorkerIs
  <2>2. /\ pc[w] = "return" /\ Live(w) /\ res[w] \in {"ok", "lost"}
        /\ loss' = LossAfter(w) /\ healthy' = healthy /\ pinned' = pinned
    BY <1>4, DeliverIs
  <2>3. CASE Schedules(w)
    BY <2>2, <2>3, SchedulesStarves
  <2>4. CASE ~Schedules(w)
    <3>1. stream' = [stream EXCEPT ![w[1]] = "closed"] /\ Apply(w[1], {w}, ActiveWithout(w), {})
      BY <1>4, <2>4, DeliverIs
    <3>2. /\ stream'[w[1]] # "live"
          /\ \A q \in Streams : q # w[1] => stream'[q] = stream[q]
      BY <1>1, <2>1, <3>1 DEF TypeOK
    <3> QED
      BY <2>2, <3>1, <3>2, TakenStarves
  <2> QED
    BY <2>3, <2>4
<1>5. ASSUME NEW s \in Streams, Open(s)
      PROVE  AllLossy(t)'
  BY <1>5, OpenStarves
<1>6. ASSUME (\E s \in Streams : Leave(s)) \/ Release
      PROVE  FALSE
  <2>1. pc' = pc
    BY <1>6 DEF Leave, Release, ClientGone, CloseCache, workerVars
  <2>2. \A q \in Streams : stream'[q] = "live" => stream[q] = "live"
    BY <1>1, <1>6 DEF Leave, Release, ClientGone, CloseCache, TypeOK
  <2> QED
    BY <2>1, <2>2, SameLanes
<1>7. ASSUME \/ \E r \in Routes : RouteFails(r) \/ RouteRecovers(r)
             \/ \E n \in 1 .. MaxSources : \E i \in 0 .. n - 1 : Rebalance(n, i)
             \/ Ended
      PROVE  FALSE
  <2>1. pc' = pc /\ stream' = stream
    BY <1>7 DEF RouteFails, RouteRecovers, Rebalance, Ended, allVars, vars
  <2> QED
    BY <2>1, SameLanes
<1> QED
  BY <1>2, <1>3, <1>4, <1>5, <1>6, <1>7 DEF RangeNext, SteadyNext, StreamStep

(* The scheduler leaves a stream without work only when every route it may *)
(* use has lost LossLimit hedges in a row.                                 *)
THEOREM StarvedOnlyLossy == RangeSpec => StarvedOnlyWhenLossy
<1>1. RangeInv /\ [RangeNext]_allVars => [StarvedOnly]_allVars
  <2> SUFFICES ASSUME RangeInv, RangeNext,
                      NEW t \in Streams, Starved(t)', ~Starved(t)
               PROVE  \A l \in DOMAIN LaneRoutes(t)' : loss'[LaneRoutes(t)'[l]] >= LossLimit
    BY DEF StarvedOnly
  <2>1. AllLossy(t)'
    BY Starves
  <2> QED
    BY <2>1 DEF AllLossy
<1> QED
  BY RangeInvariant, <1>1, PTL DEF RangeSpec, StarvedOnlyWhenLossy
=============================================================================
