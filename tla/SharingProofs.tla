--------------------------- MODULE SharingProofs ----------------------------
(*****************************************************************************)
(* Proofs about what shares the upstream: Upstream, for any requests,        *)
(* sources, routes and slots (UpstreamInv is inductive; from it follow       *)
(* NothingLost and EntryExact), and RouteAssignments, for any sources,       *)
(* urls, hosts and places (the greedy assignment exists and is fair in       *)
(* every state of ShareInv, which is inductive).                             *)
(*****************************************************************************)
EXTENDS Upstream, RouteAssignments, FiniteSetTheorems, WellFoundedInduction, TLAPS

-----------------------------------------------------------------------------
(*****************************************************************************)
(* Upstream                                                                  *)
(*****************************************************************************)

(* Who holds a slot *)
Counted == {r \in Senders : stage[r] \in {"sent", "ended"}}
SlotsCounted == slots = Cardinality(Counted)

(* Who holds a gate has asked for it and not finished. *)
GatesHeld == \A g \in DOMAIN gates : gates[g] # Nobody => stage[gates[g]] \in {"slot", "sent", "ended"}

(* The lease of a request that runs was given by an entry and is not newer *)
(* than it; the others have none.                                          *)
LeaseFits ==
    \A r \in Senders :
        /\ stage[r] # "sent" => lease[r] = NoLease /\ read[r] = 0
        /\ \/ lease[r] = NoLease
           \/ /\ lease[r].entry \in Entries
              /\ lease[r].token >= 1 /\ lease[r].token <= metrics[lease[r].entry].token

LeaseUnique ==
    \A r, q \in Senders : lease[r] = lease[q] => lease[r] = NoLease \/ r = q

(* The two sides of EntryExact *)
BusyBacked ==
    \A i \in Entries :
        metrics[i].busy <=> \E r \in Senders : lease[r] = [entry |-> i, token |-> metrics[i].token]
BytesBacked == \A r \in Senders : Valid(r) => metrics[lease[r].entry].bytes = read[r]

UpstreamInv ==
    /\ UpstreamTypeOK
    /\ SlotsCounted
    /\ GatesHeld
    /\ LeaseFits
    /\ LeaseUnique
    /\ BusyBacked
    /\ BytesBacked

-----------------------------------------------------------------------------
(* The entry a request is given *)

LEMMA LeastExists ==
    ASSUME NEW S \in SUBSET Nat, S # {}
    PROVE  \E i \in S : \A j \in S : i <= j
<1>1. PICK i \in S : \A j \in S : ~ (<<j, i>> \in OpToRel(<, Nat))
  BY NatLessThanWellFounded, WFMin
<1>2. \A j \in S : <<j, i>> \in OpToRel(<, Nat) <=> j < i
  BY DEF OpToRel
<1>3. \A j \in S : i \in Nat /\ j \in Nat /\ (~ (j < i) => i <= j)
  OBVIOUS
<1> QED
  BY <1>1, <1>2, <1>3

LEMMA EntryType ==
    ASSUME UpstreamTypeOK, NEW r \in Senders
    PROVE  Entry(r) \in Entries
<1> DEFINE free == {i \in Entries : ~metrics[i].busy}
<1>1. Workers \in Nat \ {0} /\ free \subseteq Entries /\ Entries \subseteq Nat /\ 0 \in Entries
  BY UpstreamAssumption DEF Entries
<1>2. job[r].at \in Entries
  BY DEF UpstreamTypeOK
<1>3. CASE job[r].kind = "fetch" \/ free = {}
  BY <1>1, <1>2, <1>3 DEF Entry
<1>4. CASE job[r].kind # "fetch" /\ free # {}
  <2>1. \E i \in free : \A j \in free : i <= j
    BY <1>1, <1>4, LeastExists
  <2>2. (CHOOSE i \in free : \A j \in free : i <= j) \in free
    BY <2>1
  <2> QED
    BY <1>1, <1>4, <2>2 DEF Entry
<1> QED
  BY <1>3, <1>4

-----------------------------------------------------------------------------
(* How the steps move a request and its slot *)

LEMMA CountedFinite == IsFiniteSet(Counted) /\ Cardinality(Counted) \in Nat
BY UpstreamAssumption, FS_Subset, FS_CardinalityType DEF Counted

(* Acquire takes a slot for its request, Release returns it; in the other  *)
(* steps everyone keeps what they have.                                    *)
LEMMA SlotSteps ==
    ASSUME UpstreamInv, [UpstreamNext]_upstreamVars
    PROVE  \/ \E r \in Senders : Acquire(r)
           \/ \E r \in Senders : Release(r)
           \/ slots' = slots /\ Counted' = Counted
<1> USE DEF UpstreamInv, UpstreamTypeOK, Counted, Goto
<1>1. ASSUME NEW r \in Senders, NEW s \in Sources, NEW u \in Urls, NEW i \in Entries, Fetch(r, s, u, i)
      PROVE  slots' = slots /\ Counted' = Counted
  BY <1>1 DEF Fetch
<1>2. ASSUME NEW r \in Senders, NEW s \in Sources, Ask(r, s, "sample") \/ Ask(r, s, "forward")
      PROVE  slots' = slots /\ Counted' = Counted
  BY <1>2 DEF Ask
<1>3. ASSUME NEW r \in Senders, Probe(r) \/ ProbeEnds(r)
      PROVE  slots' = slots /\ Counted' = Counted
  BY <1>3 DEF Probe, ProbeEnds
<1>4. ASSUME NEW r \in Senders, AcquireRoute(r) \/ GivesUp(r)
      PROVE  slots' = slots /\ Counted' = Counted
  BY <1>4 DEF AcquireRoute, GivesUp
<1>5. ASSUME NEW r \in Senders, Read(r) \/ EndWorker(r)
      PROVE  slots' = slots /\ Counted' = Counted
  BY <1>5 DEF Read, EndWorker
<1>6. ASSUME NEW s \in Sources, ReleaseSource(s)
      PROVE  slots' = slots /\ Counted' = Counted
  BY <1>6 DEF ReleaseSource
<1>7. CASE UNCHANGED upstreamVars
  BY <1>7 DEF upstreamVars
<1> QED
  BY <1>1, <1>2, <1>3, <1>4, <1>5, <1>6, <1>7 DEF UpstreamNext

LEMMA SlotsStep ==
    ASSUME UpstreamInv, [UpstreamNext]_upstreamVars
    PROVE  SlotsCounted' /\ slots' \in 0 .. Workers
<1> USE CountedFinite, UpstreamAssumption
<1>0. slots \in 0 .. Workers /\ slots = Cardinality(Counted) /\ Workers \in Nat
  BY DEF UpstreamInv, UpstreamTypeOK, SlotsCounted
<1>1. ASSUME NEW r \in Senders, Acquire(r)
      PROVE  SlotsCounted' /\ slots' \in 0 .. Workers
  <2>1. Counted' = Counted \cup {r} /\ r \notin Counted
    BY <1>1 DEF Acquire, Goto, Counted, UpstreamInv, UpstreamTypeOK
  <2>2. Cardinality(Counted \cup {r}) = Cardinality(Counted) + 1
    BY <2>1, FS_AddElement
  <2>3. slots' = slots + 1 /\ slots < Workers
    BY <1>1 DEF Acquire, FreeSlot
  <2> QED
    BY <1>0, <2>1, <2>2, <2>3 DEF SlotsCounted
<1>2. ASSUME NEW r \in Senders, Release(r)
      PROVE  SlotsCounted' /\ slots' \in 0 .. Workers
  <2>1. Counted' = Counted \ {r} /\ r \in Counted
    BY <1>2 DEF Release, Goto, Counted, UpstreamInv, UpstreamTypeOK
  <2>2. Cardinality(Counted \ {r}) = Cardinality(Counted) - 1
    BY <2>1, FS_RemoveElement
  <2>3. Cardinality(Counted \ {r}) \in Nat
    BY FS_RemoveElement, FS_CardinalityType
  <2>4. slots' = slots - 1
    BY <1>2 DEF Release
  <2> QED
    BY <1>0, <2>1, <2>2, <2>3, <2>4 DEF SlotsCounted
<1>3. CASE slots' = slots /\ Counted' = Counted
  BY <1>0, <1>3 DEF SlotsCounted
<1> QED
  BY <1>1, <1>2, <1>3, SlotSteps

LEMMA GatesStep ==
    ASSUME UpstreamInv, [UpstreamNext]_upstreamVars
    PROVE  GatesHeld' /\ gates' \in [Sources \X Urls -> Senders \cup {Nobody}]
<1> USE UpstreamAssumption DEF UpstreamInv, UpstreamTypeOK, GatesHeld, Goto
<1>1. ASSUME NEW r \in Senders, NEW s \in Sources, NEW u \in Urls, NEW i \in Entries, Fetch(r, s, u, i)
      PROVE  GatesHeld' /\ gates' \in [Sources \X Urls -> Senders \cup {Nobody}]
  BY <1>1 DEF Fetch
<1>2. ASSUME NEW r \in Senders, NEW s \in Sources, Ask(r, s, "sample") \/ Ask(r, s, "forward")
      PROVE  GatesHeld' /\ gates' \in [Sources \X Urls -> Senders \cup {Nobody}]
  <2>1. gates' = gates /\ stage[r] = "idle" /\ stage' = [stage EXCEPT ![r] = "slot"]
    BY <1>2 DEF Ask
  <2> QED
    BY <2>1
<1>3. ASSUME NEW r \in Senders, Probe(r) \/ ProbeEnds(r)
      PROVE  GatesHeld' /\ gates' \in [Sources \X Urls -> Senders \cup {Nobody}]
  BY <1>3 DEF Probe, ProbeEnds
<1>4. ASSUME NEW r \in Senders, AcquireRoute(r)
      PROVE  GatesHeld' /\ gates' \in [Sources \X Urls -> Senders \cup {Nobody}]
  <2>1. CASE UNCHANGED gates
    BY <1>4, <2>1 DEF AcquireRoute
  <2>2. CASE gates' = [gates EXCEPT ![Gate(r)] = r]
    BY <1>4, <2>2 DEF AcquireRoute
  <2> QED
    BY <1>4, <2>1, <2>2 DEF AcquireRoute
<1>5. ASSUME NEW r \in Senders, GivesUp(r) \/ Release(r)
      PROVE  GatesHeld' /\ gates' \in [Sources \X Urls -> Senders \cup {Nobody}]
  <2>1. \A g \in DOMAIN gates : gates'[g] = IF gates[g] = r THEN Nobody ELSE gates[g]
    BY <1>5 DEF GivesUp, Release, Freed, Holding
  <2>2. gates' \in [Sources \X Urls -> Senders \cup {Nobody}]
    BY <1>5 DEF GivesUp, Release, Freed, Holding
  <2>3. \A q \in Senders : q # r => stage'[q] = stage[q]
    BY <1>5 DEF GivesUp, Release
  <2> QED
    BY <2>1, <2>2, <2>3
<1>6. ASSUME NEW r \in Senders, Acquire(r) \/ Read(r) \/ EndWorker(r)
      PROVE  GatesHeld' /\ gates' \in [Sources \X Urls -> Senders \cup {Nobody}]
  <2>1. gates' = gates
    BY <1>6 DEF Acquire, Read, EndWorker
  <2>2. \A q \in Senders : stage'[q] = stage[q] \/ stage'[q] \in {"sent", "ended"}
    BY <1>6 DEF Acquire, Read, EndWorker
  <2> QED
    BY <2>1, <2>2
<1>7. ASSUME NEW s \in Sources, ReleaseSource(s)
      PROVE  GatesHeld' /\ gates' \in [Sources \X Urls -> Senders \cup {Nobody}]
  BY <1>7 DEF ReleaseSource
<1>8. CASE UNCHANGED upstreamVars
  BY <1>8 DEF upstreamVars
<1> QED
  BY <1>1, <1>2, <1>3, <1>4, <1>5, <1>6, <1>7, <1>8 DEF UpstreamNext

-----------------------------------------------------------------------------
(* The worker entries *)

(* The entries and leases stay, and a request that holds a lease goes on.  *)
WorkersKept ==
    /\ UNCHANGED workerVars
    /\ \A r \in Senders : stage[r] = "sent" <=> stage'[r] = "sent"

LEMMA WorkerSteps ==
    ASSUME UpstreamInv, [UpstreamNext]_upstreamVars
    PROVE  \/ \E r \in Senders : Acquire(r) \/ Read(r) \/ EndWorker(r)
           \/ \E s \in Sources : ReleaseSource(s)
           \/ WorkersKept
<1> USE DEF UpstreamInv, UpstreamTypeOK, WorkersKept, workerVars, Goto
<1>1. ASSUME NEW r \in Senders, NEW s \in Sources, NEW u \in Urls, NEW i \in Entries, Fetch(r, s, u, i)
      PROVE  WorkersKept
  BY <1>1 DEF Fetch
<1>2. ASSUME NEW r \in Senders, NEW s \in Sources, Ask(r, s, "sample") \/ Ask(r, s, "forward")
      PROVE  WorkersKept
  BY <1>2 DEF Ask
<1>3. ASSUME NEW r \in Senders, Probe(r) \/ ProbeEnds(r)
      PROVE  WorkersKept
  BY <1>3 DEF Probe, ProbeEnds
<1>4. ASSUME NEW r \in Senders, AcquireRoute(r) \/ GivesUp(r) \/ Release(r)
      PROVE  WorkersKept
  BY <1>4 DEF AcquireRoute, GivesUp, Release
<1>5. CASE UNCHANGED upstreamVars
  BY <1>5 DEF upstreamVars
<1> QED
  BY <1>1, <1>2, <1>3, <1>4, <1>5 DEF UpstreamNext

(* What the invariant says of entries, leases and reads *)
WorkersFit ==
    /\ metrics \in [Entries -> [token : Nat, busy : BOOLEAN,
                                src : Sources \cup {Nobody}, bytes : 0 .. MaxReads]]
    /\ lease \in [Senders -> [entry : 0 .. Workers, token : Nat]]
    /\ read \in [Senders -> 0 .. MaxReads]
    /\ LeaseFits /\ LeaseUnique /\ BusyBacked /\ BytesBacked

(* A request that begins takes a token newer than every lease of the entry. *)
LEMMA AcquireEffect ==
    ASSUME UpstreamInv, NEW r \in Senders, Acquire(r)
    PROVE  WorkersFit'
<1> DEFINE i == Entry(r)
           token == metrics[i].token + 1
<1>1. i \in Entries
  BY EntryType DEF UpstreamInv
<1>2. lease[r] = NoLease /\ read[r] = 0 /\ read' = read
  BY DEF Acquire, UpstreamInv, LeaseFits
<1>3. \A q \in Senders : stage'[q] = IF q = r THEN "sent" ELSE stage[q]
  BY DEF Acquire, Goto, UpstreamInv, UpstreamTypeOK
<1>4. Workers \in Nat \ {0} /\ MaxReads \in Nat \ {0} /\ Entries \subseteq 0 .. Workers /\ Workers \notin Entries
  BY UpstreamAssumption DEF Entries
<1>5. CASE job[r].kind = "sample"
  <2>1. metrics' = metrics /\ lease' = lease
    BY <1>5 DEF Acquire
  <2> QED
    BY <1>2, <1>3, <2>1 DEF UpstreamInv, UpstreamTypeOK, WorkersFit, LeaseFits, LeaseUnique,
       BusyBacked, BytesBacked, Valid
<1>6. CASE job[r].kind # "sample"
  <2>1. /\ metrics' = [metrics EXCEPT ![i] =
              [token |-> token, busy |-> TRUE, src |-> job[r].src, bytes |-> 0]]
        /\ lease' = [lease EXCEPT ![r] = [entry |-> i, token |-> token]]
    BY <1>6, Zenon DEF Acquire
  <2>2. token \in Nat /\ metrics[i].token \in Nat /\ job[r].src \in Sources \cup {Nobody}
    BY <1>1 DEF UpstreamInv, UpstreamTypeOK
  <2> HIDE DEF i, token
  <2>3. /\ metrics' \in [Entries -> [token : Nat, busy : BOOLEAN,
                                    src : Sources \cup {Nobody}, bytes : 0 .. MaxReads]]
        /\ lease' \in [Senders -> [entry : 0 .. Workers, token : Nat]]
        /\ read' \in [Senders -> 0 .. MaxReads]
    BY <1>1, <1>2, <1>4, <2>1, <2>2 DEF UpstreamInv, UpstreamTypeOK
  <2>4. /\ metrics'[i] = [token |-> token, busy |-> TRUE, src |-> job[r].src, bytes |-> 0]
        /\ \A j \in Entries : j # i => metrics'[j] = metrics[j]
        /\ lease'[r] = [entry |-> i, token |-> token]
        /\ \A q \in Senders : q # r => lease'[q] = lease[q]
    BY <1>1, <2>1 DEF UpstreamInv, UpstreamTypeOK
  <2>5. \A q \in Senders : lease[q] # NoLease => ~ (lease[q].entry = i /\ lease[q].token >= token)
    BY <2>2, <1>1 DEF UpstreamInv, UpstreamTypeOK, LeaseFits, token
  <2>6. metrics[i].token <= token /\ token >= 1
    BY <2>2 DEF token
  <2>7. LeaseFits'
    <3>1. ASSUME NEW q \in Senders, q # r
          PROVE  /\ stage'[q] # "sent" => lease'[q] = NoLease /\ read'[q] = 0
                 /\ \/ lease'[q] = NoLease
                    \/ /\ lease'[q].entry \in Entries /\ lease'[q].token >= 1
                       /\ lease'[q].token <= metrics'[lease'[q].entry].token
      <4>1. lease'[q] = lease[q] /\ read'[q] = read[q] /\ stage'[q] = stage[q] /\ lease[q].token \in Nat
        BY <1>2, <1>3, <2>4, <3>1 DEF UpstreamInv, UpstreamTypeOK
      <4>2. \A j \in Entries : metrics[j].token \in Nat /\ metrics'[j].token \in Nat
                              /\ metrics[j].token <= metrics'[j].token
        BY <2>2, <2>4, <2>6 DEF UpstreamInv, UpstreamTypeOK
      <4> QED
        BY <4>1, <4>2 DEF UpstreamInv, LeaseFits
    <3>2. /\ stage'[r] = "sent"
          /\ lease'[r].entry \in Entries /\ lease'[r].token >= 1
          /\ lease'[r].token <= metrics'[lease'[r].entry].token
      BY <1>1, <1>3, <2>2, <2>4, <2>6
    <3> QED
      BY <3>1, <3>2 DEF LeaseFits
  <2>8. LeaseUnique'
    <3>1. ASSUME NEW q \in Senders, q # r
          PROVE  lease'[q] = lease[q] /\ lease'[q] # lease'[r]
      <4>1. lease'[q] = lease[q] /\ lease'[r].entry = i /\ lease'[r].token = token
        BY <2>4, <3>1
      <4>2. NoLease.entry \notin Entries
        BY <1>4 DEF NoLease
      <4> QED
        BY <1>1, <2>2, <2>5, <4>1, <4>2
    <3> QED
      BY <3>1 DEF LeaseUnique, UpstreamInv
  <2>9. BusyBacked'
    <3>1. ASSUME NEW j \in Entries, j # i, NEW q \in Senders
          PROVE  lease'[q] = [entry |-> j, token |-> metrics[j].token]
                 <=> lease[q] = [entry |-> j, token |-> metrics[j].token]
      <4>1. lease'[r].entry = i /\ lease[r].entry \notin Entries
        BY <1>2, <1>4, <2>4 DEF NoLease
      <4>2. CASE q = r
        BY <3>1, <4>1, <4>2
      <4>3. CASE q # r
        BY <2>4, <4>3
      <4> QED
        BY <4>2, <4>3
    <3>2. ASSUME NEW j \in Entries, j # i
          PROVE  metrics'[j].busy <=>
                   \E q \in Senders : lease'[q] = [entry |-> j, token |-> metrics'[j].token]
      BY <2>4, <3>1, <3>2 DEF UpstreamInv, BusyBacked
    <3>3. metrics'[i].busy /\ lease'[r] = [entry |-> i, token |-> metrics'[i].token]
      BY <2>4
    <3> QED
      BY <3>2, <3>3 DEF BusyBacked
  <2>10. BytesBacked'
    <3>1. ASSUME NEW q \in Senders, q # r, Valid(q)'
          PROVE  metrics'[lease'[q].entry].bytes = read'[q]
      <4>1. lease'[q] = lease[q] /\ lease[q] # NoLease
        BY <1>4, <2>4, <3>1 DEF Valid, NoLease
      <4>2. lease[q].entry # i
        BY <2>2, <2>4, <2>5, <3>1, <4>1 DEF Valid
      <4>3. lease[q].entry \in Entries
        BY <4>1 DEF UpstreamInv, LeaseFits
      <4>4. metrics'[lease[q].entry] = metrics[lease[q].entry]
        BY <2>4, <4>2, <4>3
      <4> QED
        BY <1>2, <3>1, <4>1, <4>4 DEF UpstreamInv, BytesBacked, Valid
    <3>2. metrics'[lease'[r].entry].bytes = 0 /\ read'[r] = 0
      BY <1>2, <2>4
    <3> QED
      BY <3>1, <3>2 DEF BytesBacked
  <2> QED
    BY <2>3, <2>7, <2>8, <2>9, <2>10 DEF WorkersFit
<1> QED
  BY <1>5, <1>6

(* A read counts for the entry only where the lease is still current.      *)
LEMMA ReadEffect ==
    ASSUME UpstreamInv, NEW r \in Senders, Read(r)
    PROVE  WorkersFit'
<1>1. /\ stage' = stage /\ lease' = lease /\ stage[r] = "sent"
      /\ read' = [read EXCEPT ![r] = read[r] + 1] /\ read[r] < MaxReads
      /\ metrics' = IF Valid(r) THEN [metrics EXCEPT ![lease[r].entry].bytes = @ + 1] ELSE metrics
  BY Zenon DEF Read
<1>2. MaxReads \in Nat /\ read[r] \in 0 .. MaxReads /\ read' \in [Senders -> 0 .. MaxReads]
  BY <1>1, UpstreamAssumption DEF UpstreamInv, UpstreamTypeOK
<1>3. /\ read'[r] = read[r] + 1
      /\ \A q \in Senders : q # r => read'[q] = read[q]
  BY <1>1 DEF UpstreamInv, UpstreamTypeOK
<1>4. CASE ~Valid(r)
  <2>1. metrics' = metrics
    BY <1>1, <1>4
  <2>2. BytesBacked'
    BY <1>1, <1>3, <1>4, <2>1 DEF UpstreamInv, BytesBacked, Valid
  <2>3. \A q \in Senders : stage[q] # "sent" => lease[q] = NoLease /\ read'[q] = 0
    BY <1>1, <1>3 DEF UpstreamInv, LeaseFits
  <2>4. LeaseFits'
    BY <1>1, <2>1, <2>3 DEF UpstreamInv, LeaseFits
  <2>5. LeaseUnique' /\ BusyBacked'
    BY <1>1, <2>1 DEF UpstreamInv, LeaseUnique, BusyBacked
  <2> QED
    BY <1>1, <1>2, <2>1, <2>2, <2>4, <2>5 DEF UpstreamInv, UpstreamTypeOK, WorkersFit
<1>5. CASE Valid(r)
  <2> DEFINE i == lease[r].entry
             new == [metrics[i] EXCEPT !.bytes = @ + 1]
  <2>1. i \in Entries /\ lease[r] # NoLease
    BY <1>5, UpstreamAssumption DEF Valid, UpstreamInv, LeaseFits, NoLease
  <2>2. metrics[i].bytes = read[r]
    BY <1>5 DEF UpstreamInv, BytesBacked
  <2>3. metrics[i] \in [token : Nat, busy : BOOLEAN, src : Sources \cup {Nobody}, bytes : 0 .. MaxReads]
    BY <2>1 DEF UpstreamInv, UpstreamTypeOK
  <2>4. /\ new \in [token : Nat, busy : BOOLEAN, src : Sources \cup {Nobody}, bytes : 0 .. MaxReads]
        /\ new.token = metrics[i].token /\ new.busy = metrics[i].busy
        /\ new.bytes = read[r] + 1
    BY <1>1, <1>2, <2>2, <2>3
  <2>5. metrics' = [metrics EXCEPT ![i] = new]
    BY <1>1, <1>5
  <2> HIDE DEF i, new
  <2>6. /\ metrics' \in [Entries -> [token : Nat, busy : BOOLEAN,
                                   src : Sources \cup {Nobody}, bytes : 0 .. MaxReads]]
        /\ metrics'[i] = new
        /\ \A j \in Entries : j # i => metrics'[j] = metrics[j]
    BY <2>1, <2>4, <2>5 DEF UpstreamInv, UpstreamTypeOK
  <2>7. \A j \in Entries : metrics'[j].token = metrics[j].token /\ metrics'[j].busy = metrics[j].busy
    BY <2>4, <2>6
  <2>8. LeaseFits'
    <3>1. \A q \in Senders : stage[q] # "sent" => lease[q] = NoLease /\ read'[q] = 0
      BY <1>1, <1>3 DEF UpstreamInv, LeaseFits
    <3> QED
      BY <1>1, <2>7, <3>1 DEF UpstreamInv, LeaseFits
  <2>9. LeaseUnique' /\ BusyBacked'
    BY <1>1, <2>7 DEF UpstreamInv, LeaseUnique, BusyBacked
  <2>10. BytesBacked'
    <3>1. ASSUME NEW q \in Senders, Valid(q)'
          PROVE  metrics'[lease[q].entry].bytes = read'[q]
      <4>1. lease[q].entry \in Entries
        BY <1>1, <3>1, UpstreamAssumption DEF Valid, UpstreamInv, LeaseFits, NoLease
      <4>2. Valid(q)
        BY <1>1, <2>7, <3>1, <4>1 DEF Valid
      <4>3. CASE q = r
        BY <1>3, <2>4, <2>6, <4>3 DEF i
      <4>4. CASE q # r
        <5>1. lease[q] # lease[r]
          BY <2>1, <4>4 DEF UpstreamInv, LeaseUnique
        <5>2. lease[q].entry # i
          BY <1>5, <4>2, <5>1 DEF i, Valid, UpstreamInv, UpstreamTypeOK
        <5> QED
          BY <1>3, <2>6, <4>1, <4>2, <4>4, <5>2 DEF UpstreamInv, BytesBacked
      <4> QED
        BY <4>3, <4>4
    <3> QED
      BY <1>1, <3>1 DEF BytesBacked
  <2> QED
    BY <1>1, <1>2, <2>6, <2>8, <2>9, <2>10 DEF WorkersFit, UpstreamInv, UpstreamTypeOK
<1> QED
  BY <1>4, <1>5

(* The end of a request idles its entry, unless it serves another by now.  *)
LEMMA EndEffect ==
    ASSUME UpstreamInv, NEW r \in Senders, EndWorker(r)
    PROVE  WorkersFit'
<1> DEFINE i == lease[r].entry
           new == [metrics[i] EXCEPT !.busy = FALSE]
<1>1. /\ lease' = [lease EXCEPT ![r] = NoLease] /\ read' = [read EXCEPT ![r] = 0]
      /\ \A q \in Senders : q # r => stage'[q] = stage[q]
      /\ metrics' = IF Valid(r) THEN [metrics EXCEPT ![i].busy = FALSE] ELSE metrics
  BY DEF EndWorker, Goto, UpstreamInv, UpstreamTypeOK
<1>2. Workers \in Nat \ {0} /\ NoLease \in [entry : 0 .. Workers, token : Nat]
      /\ NoLease.entry \notin Entries /\ 0 \in 0 .. MaxReads
  BY UpstreamAssumption DEF NoLease, Entries
<1>3. /\ lease' \in [Senders -> [entry : 0 .. Workers, token : Nat]]
      /\ read' \in [Senders -> 0 .. MaxReads]
      /\ lease'[r] = NoLease /\ read'[r] = 0
      /\ \A q \in Senders : q # r => lease'[q] = lease[q] /\ read'[q] = read[q]
  BY <1>1, <1>2 DEF UpstreamInv, UpstreamTypeOK
<1>4. LeaseUnique'
  BY <1>3 DEF UpstreamInv, LeaseUnique
<1>5. \A q \in Senders : lease[q] = NoLease \/ lease[q].entry \in Entries
  BY DEF UpstreamInv, LeaseFits
<1>6. CASE ~Valid(r)
  <2>1. metrics' = metrics
    BY <1>1, <1>6
  <2>2. LeaseFits'
    BY <1>1, <1>3, <2>1 DEF UpstreamInv, LeaseFits
  <2>3. BytesBacked'
    BY <1>2, <1>3, <2>1 DEF UpstreamInv, BytesBacked, Valid, Entries
  <2>4. ASSUME NEW j \in Entries
        PROVE  metrics[j].busy <=> \E q \in Senders : lease'[q] = [entry |-> j, token |-> metrics[j].token]
    <3>1. lease[r] # [entry |-> j, token |-> metrics[j].token]
      BY <1>2, <1>6 DEF Valid, Entries
    <3>2. lease'[r] # [entry |-> j, token |-> metrics[j].token]
      BY <1>2, <1>3
    <3>3. \A q \in Senders : lease'[q] = [entry |-> j, token |-> metrics[j].token]
                          <=> lease[q] = [entry |-> j, token |-> metrics[j].token]
      BY <1>3, <3>1, <3>2
    <3> QED
      BY <3>3 DEF UpstreamInv, BusyBacked
  <2> QED
    BY <1>3, <1>4, <2>1, <2>2, <2>3, <2>4 DEF WorkersFit, BusyBacked, UpstreamInv, UpstreamTypeOK
<1>7. CASE Valid(r)
  <2>1. i \in Entries /\ metrics[i].token = lease[r].token
    BY <1>2, <1>5, <1>7 DEF Valid, NoLease
  <2>2. metrics[i] \in [token : Nat, busy : BOOLEAN, src : Sources \cup {Nobody}, bytes : 0 .. MaxReads]
    BY <2>1 DEF UpstreamInv, UpstreamTypeOK
  <2>3. /\ new \in [token : Nat, busy : BOOLEAN, src : Sources \cup {Nobody}, bytes : 0 .. MaxReads]
        /\ new.token = metrics[i].token /\ ~new.busy /\ new.bytes = metrics[i].bytes
    BY <2>2
  <2>4. metrics' = [metrics EXCEPT ![i] = new]
    BY <1>1, <1>7
  <2>5. lease[r].entry = i
    OBVIOUS
  <2> HIDE DEF i, new
  <2>6. /\ metrics' \in [Entries -> [token : Nat, busy : BOOLEAN,
                                   src : Sources \cup {Nobody}, bytes : 0 .. MaxReads]]
        /\ metrics'[i] = new
        /\ \A j \in Entries : j # i => metrics'[j] = metrics[j]
    BY <2>1, <2>3, <2>4 DEF UpstreamInv, UpstreamTypeOK
  <2>7. \A j \in Entries : metrics'[j].token = metrics[j].token /\ metrics'[j].bytes = metrics[j].bytes
    BY <2>3, <2>6
  <2>8. LeaseFits'
    BY <1>1, <1>3, <2>7 DEF UpstreamInv, LeaseFits
  <2>9. BytesBacked'
    <3>1. ASSUME NEW q \in Senders, Valid(q)'
          PROVE  metrics'[lease'[q].entry].bytes = read'[q]
      <4>1. q # r /\ lease'[q] = lease[q] /\ read'[q] = read[q]
        BY <1>2, <1>3, <3>1 DEF Valid, NoLease
      <4>2. lease[q].entry \in Entries
        BY <1>2, <1>5, <3>1, <4>1 DEF Valid, NoLease
      <4>3. Valid(q)
        BY <2>7, <3>1, <4>1, <4>2 DEF Valid
      <4> QED
        BY <2>7, <4>1, <4>2, <4>3 DEF UpstreamInv, BytesBacked
    <3> QED
      BY <3>1 DEF BytesBacked
  <2>10. ASSUME NEW j \in Entries
         PROVE  metrics'[j].busy <=> \E q \in Senders : lease'[q] = [entry |-> j, token |-> metrics[j].token]
    <3>1. CASE j = i
      <4>1. lease[r] = [entry |-> i, token |-> metrics[i].token]
        BY <2>1, <2>5 DEF UpstreamInv, UpstreamTypeOK
      <4>2. lease[r] # NoLease
        BY <1>2, <2>1, <2>5
      <4>3. \A q \in Senders : lease'[q] # [entry |-> i, token |-> metrics[i].token]
        BY <1>2, <1>3, <2>1, <2>5, <4>1, <4>2 DEF UpstreamInv, LeaseUnique
      <4> QED
        BY <2>3, <2>6, <3>1, <4>3
    <3>2. CASE j # i
      <4>1. lease[r] # [entry |-> j, token |-> metrics[j].token]
        BY <2>5, <3>2
      <4>2. lease'[r] # [entry |-> j, token |-> metrics[j].token]
        BY <1>2, <1>3
      <4>3. \A q \in Senders : lease'[q] = [entry |-> j, token |-> metrics[j].token]
                            <=> lease[q] = [entry |-> j, token |-> metrics[j].token]
        BY <1>3, <4>1, <4>2
      <4> QED
        BY <2>6, <3>2, <4>3 DEF UpstreamInv, BusyBacked
    <3> QED
      BY <3>1, <3>2
  <2>11. BusyBacked'
    BY <2>7, <2>10 DEF BusyBacked
  <2> QED
    BY <1>3, <1>4, <2>6, <2>8, <2>9, <2>11 DEF WorkersFit
<1> QED
  BY <1>6, <1>7

(* A cleared entry has a token that nobody was given.                      *)
LEMMA ReleaseSourceEffect ==
    ASSUME UpstreamInv, NEW s \in Sources, ReleaseSource(s)
    PROVE  WorkersFit'
<1>1. /\ stage' = stage /\ lease' = lease /\ read' = read
      /\ metrics' = [i \in Entries |-> Cleared(s, metrics[i])]
  BY DEF ReleaseSource
<1>2. ASSUME NEW i \in Entries
      PROVE  /\ metrics'[i] \in [token : Nat, busy : BOOLEAN,
                                 src : Sources \cup {Nobody}, bytes : 0 .. MaxReads]
             /\ metrics[i].token \in Nat
             /\ \/ metrics'[i] = metrics[i]
                \/ metrics'[i].token = metrics[i].token + 1 /\ ~metrics'[i].busy
  BY <1>1, UpstreamAssumption DEF Cleared, Idle, UpstreamInv, UpstreamTypeOK
<1>3. ASSUME NEW q \in Senders
      PROVE  \/ lease[q].entry \notin Entries
             \/ lease[q].entry \in Entries /\ lease[q].token <= metrics[lease[q].entry].token
                /\ lease[q].token \in Nat
  <2>1. NoLease.entry \notin Entries
    BY UpstreamAssumption DEF NoLease, Entries
  <2> QED
    BY <2>1 DEF UpstreamInv, LeaseFits, UpstreamTypeOK
<1>4. ASSUME NEW q \in Senders, NEW i \in Entries,
             lease[q] = [entry |-> i, token |-> metrics'[i].token]
      PROVE  metrics'[i] = metrics[i]
  <2>1. lease[q].entry = i /\ lease[q].token = metrics'[i].token
    BY <1>4
  <2> QED
    BY <1>2, <1>3, <2>1
<1>5. LeaseFits'
  BY <1>1, <1>2, <1>3 DEF UpstreamInv, LeaseFits
<1>6. BusyBacked'
  BY <1>1, <1>2, <1>4 DEF UpstreamInv, BusyBacked
<1>7. BytesBacked'
  <2>1. ASSUME NEW q \in Senders, Valid(q)'
        PROVE  metrics'[lease[q].entry].bytes = read[q]
    <3>1. lease[q].entry \in Entries /\ lease[q].token = metrics'[lease[q].entry].token
      BY <1>1, <2>1, UpstreamAssumption DEF Valid, Entries, UpstreamInv, LeaseFits, NoLease
    <3>2. metrics'[lease[q].entry] = metrics[lease[q].entry]
      BY <1>2, <1>3, <3>1
    <3> QED
      BY <1>1, <2>1, <3>2 DEF Valid, UpstreamInv, BytesBacked
  <2> QED
    BY <1>1, <2>1 DEF BytesBacked
<1> QED
  BY <1>1, <1>2, <1>5, <1>6, <1>7 DEF WorkersFit, UpstreamInv, UpstreamTypeOK, LeaseUnique

LEMMA WorkersStep ==
    ASSUME UpstreamInv, [UpstreamNext]_upstreamVars
    PROVE  WorkersFit'
<1>1. CASE WorkersKept
  BY <1>1 DEF WorkersKept, workerVars, WorkersFit, UpstreamInv, UpstreamTypeOK, LeaseFits,
     LeaseUnique, BusyBacked, BytesBacked, Valid
<1> QED
  BY <1>1, WorkerSteps, AcquireEffect, ReadEffect, EndEffect, ReleaseSourceEffect

-----------------------------------------------------------------------------
(* The invariant *)

LEMMA TypeStep ==
    ASSUME UpstreamInv, [UpstreamNext]_upstreamVars
    PROVE  UpstreamTypeOK'
<1> DEFINE Stages == [Senders -> {"idle", "gate", "slot", "sent", "ended", "probing"}]
           Tasks == [kind : {"none", "fetch", "sample", "forward"},
                     src : Sources \cup {Nobody}, url : Urls \cup {Nobody}, at : Entries]
           Fit == stage' \in Stages /\ job' \in [Senders -> Tasks] /\ released' \subseteq Sources
<1>1. stage \in Stages /\ job \in [Senders -> Tasks] /\ released \subseteq Sources
  BY DEF UpstreamInv, UpstreamTypeOK
<1>2. NoTask \in Tasks
  BY UpstreamAssumption DEF NoTask, Entries
<1>3. ASSUME NEW r \in Senders, NEW s \in Sources, NEW u \in Urls, NEW i \in Entries, Fetch(r, s, u, i)
      PROVE  Fit
  BY <1>1, <1>3 DEF Fetch, Goto
<1>4. ASSUME NEW r \in Senders, NEW s \in Sources, NEW k \in {"sample", "forward"}, Ask(r, s, k)
      PROVE  Fit
  <2> DEFINE task == [kind |-> k, src |-> s, url |-> Nobody, at |-> 0]
  <2>1. task \in Tasks
    BY UpstreamAssumption DEF Entries
  <2>2. job' = [job EXCEPT ![r] = task]
    BY <1>4 DEF Ask
  <2> HIDE DEF task, Tasks
  <2> QED
    BY <1>1, <1>4, <2>1, <2>2 DEF Ask, Goto
<1>5. ASSUME NEW r \in Senders, Probe(r) \/ ProbeEnds(r) \/ AcquireRoute(r) \/ Acquire(r)
      PROVE  Fit
  BY <1>1, <1>5 DEF Probe, ProbeEnds, AcquireRoute, Acquire, Goto
<1>6. ASSUME NEW r \in Senders, GivesUp(r) \/ Read(r) \/ EndWorker(r) \/ Release(r)
      PROVE  Fit
  BY <1>1, <1>2, <1>6 DEF GivesUp, Read, EndWorker, Release, Goto
<1>7. ASSUME NEW s \in Sources, ReleaseSource(s)
      PROVE  Fit
  BY <1>1, <1>7 DEF ReleaseSource
<1>8. ASSUME UNCHANGED upstreamVars
      PROVE  Fit
  BY <1>1, <1>8 DEF upstreamVars
<1>9. Fit
  <2> HIDE DEF Fit
  <2> QED
    BY <1>3, <1>4, <1>5, <1>6, <1>7, <1>8 DEF UpstreamNext
<1> QED
  BY <1>9, SlotsStep, GatesStep, WorkersStep DEF UpstreamTypeOK, WorkersFit

LEMMA UpstreamStart ==
    ASSUME UpstreamInit
    PROVE  UpstreamInv
<1> USE UpstreamAssumption DEF UpstreamInit, NoTask, NoLease, Idle, Entries
<1>1. UpstreamTypeOK
  BY DEF UpstreamTypeOK
<1>2. SlotsCounted
  <2>1. Counted = {}
    BY DEF Counted
  <2> QED
    BY <2>1, FS_EmptySet DEF SlotsCounted
<1>3. GatesHeld /\ LeaseFits /\ LeaseUnique /\ BytesBacked
  BY DEF GatesHeld, LeaseFits, LeaseUnique, BytesBacked, Valid
<1>4. BusyBacked
  <2>1. ASSUME NEW i \in Entries
        PROVE  ~metrics[i].busy /\ \A r \in Senders : lease[r].entry # i
    OBVIOUS
  <2> QED
    BY <2>1 DEF BusyBacked
<1> QED
  BY <1>1, <1>2, <1>3, <1>4 DEF UpstreamInv

(* UpstreamInv is an inductive invariant of the requests to the upstreams. *)
THEOREM UpstreamInvariant == UpstreamSpec => []UpstreamInv
<1>1. UpstreamInv /\ [UpstreamNext]_upstreamVars => UpstreamInv'
  BY TypeStep, SlotsStep, GatesStep, WorkersStep DEF UpstreamInv, WorkersFit
<1> QED
  BY UpstreamStart, <1>1, PTL DEF UpstreamSpec

(* Type correctness *)
THEOREM UpstreamTypesHold == UpstreamSpec => []UpstreamTypeOK
<1>1. UpstreamInv => UpstreamTypeOK
  BY DEF UpstreamInv
<1> QED
  BY <1>1, UpstreamInvariant, PTL

(* However requests end, are given up or lose their source, the slots      *)
(* taken are those of the requests that run, and no request that has ended *)
(* is left in a gate: acquire, acquireRoute and the deferred releases.     *)
THEOREM SlotsAndGatesReturned == UpstreamSpec => []NothingLost
<1>1. UpstreamInv => NothingLost
  <2> SUFFICES ASSUME UpstreamInv
               PROVE  NothingLost
    OBVIOUS
  <2>1. slots = Cardinality({r \in Senders : stage[r] \in {"sent", "ended"}})
    BY DEF UpstreamInv, SlotsCounted, Counted
  <2>2. \A g \in DOMAIN gates : gates[g] # Nobody => stage[gates[g]] # "idle"
    BY DEF UpstreamInv, GatesHeld
  <2> QED
    BY <2>1, <2>2 DEF NothingLost
<1> QED
  BY <1>1, UpstreamInvariant, PTL

(* At most as many requests as p.workers hold a slot at any time, and each *)
(* gate is held by one request that has yet to end.                        *)
THEOREM SlotsCapped == UpstreamSpec => [](Cardinality(Counted) <= Workers)
<1>1. UpstreamInv => Cardinality(Counted) <= Workers
  BY UpstreamAssumption DEF UpstreamInv, UpstreamTypeOK, SlotsCounted
<1> QED
  BY <1>1, UpstreamInvariant, PTL

(* A worker entry is busy exactly while the one request that holds its     *)
(* token runs, and counts that request's reads alone, although entries are *)
(* handed on, and cleared with their source, while older leases are in use:*)
(* beginWorkerAt, addWorkerBytes, endWorker, clearSourceMetrics.           *)
THEOREM EntriesExact == UpstreamSpec => []EntryExact
<1>1. ASSUME UpstreamInv
      PROVE  EntryExact
  <2> SUFFICES ASSUME NEW i \in Entries
               PROVE  LET mine == {r \in Senders : lease[r] = [entry |-> i, token |-> metrics[i].token]}
                      IN  /\ Cardinality(mine) <= 1
                          /\ metrics[i].busy <=> mine # {}
                          /\ \A r \in mine : metrics[i].bytes = read[r]
    BY DEF EntryExact
  <2> DEFINE mine == {r \in Senders : lease[r] = [entry |-> i, token |-> metrics[i].token]}
  <2>1. i < Workers /\ [entry |-> i, token |-> metrics[i].token] # NoLease
    BY UpstreamAssumption DEF Entries, NoLease
  <2>2. \A r \in mine : r \in Senders /\ lease[r] = [entry |-> i, token |-> metrics[i].token]
    OBVIOUS
  <2>3. \A r, q \in mine : r = q
    <3> HIDE DEF mine
    <3> QED
      BY <1>1, <2>1, <2>2 DEF UpstreamInv, LeaseUnique
  <2>4. Cardinality(mine) <= 1
    <3> HIDE DEF mine
    <3>1. CASE mine = {}
      BY <3>1, FS_EmptySet
    <3>2. CASE mine # {}
      <4>1. PICK q \in mine : mine = {q}
        BY <2>3, <3>2
      <4>2. Cardinality({q}) = 1
        BY FS_Singleton
      <4> QED
        BY <4>1, <4>2
    <3> QED
      BY <3>1, <3>2
  <2>5. metrics[i].busy <=> mine # {}
    <3>1. mine # {} <=> \E r \in Senders : lease[r] = [entry |-> i, token |-> metrics[i].token]
      OBVIOUS
    <3> HIDE DEF mine
    <3> QED
      BY <1>1, <3>1, Zenon DEF UpstreamInv, BusyBacked
  <2>6. \A r \in mine : metrics[i].bytes = read[r]
    <3> HIDE DEF mine
    <3>1. \A r \in mine : lease[r].entry = i /\ lease[r].token = metrics[i].token
      BY <2>2
    <3> QED
      BY <1>1, <2>1, <2>2, <3>1 DEF UpstreamInv, BytesBacked, Valid
  <2> QED
    BY <2>4, <2>5, <2>6
<1> QED
  BY <1>1, UpstreamInvariant, PTL

-----------------------------------------------------------------------------
(*****************************************************************************)
(* RouteAssignments                                                          *)
(*****************************************************************************)

(* No route is in the list of a source twice. *)
OneOfEach == \A s \in Registrants : \A i, j \in DOMAIN routes[s] : i # j => Url(s, i) # Url(s, j)

(* A download belongs to a registered source and has a route to try. *)
AtWork ==
    \A f \in Loaders :
        /\ download[f].at # "idle" => download[f].src \in In
        /\ download[f].at = "trying" => download[f].left # <<>>

ShareInv == AssignmentTypeOK /\ IsFiniteSet(In) /\ OneOfEach /\ AtWork

-----------------------------------------------------------------------------
(* Numbers *)

(* Induction, for a set of numbers *)
LEMMA NumbersReach ==
    ASSUME NEW S, 0 \in S, \A n \in Nat : n \in S => n + 1 \in S
    PROVE  \A n \in Nat : n \in S
<1> DEFINE T == Nat \ S
<1>1. SUFFICES ASSUME T # {}
               PROVE  FALSE
  OBVIOUS
<1>2. PICK i \in T : \A j \in T : ~ (<<j, i>> \in OpToRel(<, Nat))
  BY <1>1, NatLessThanWellFounded, WFMin
<1>3. \A j \in T : ~(j < i)
  BY <1>2 DEF OpToRel
<1>4. i \in Nat \ {0} /\ i \notin S
  BY <1>2
<1>5. i - 1 \in Nat /\ i - 1 < i /\ (i - 1) + 1 = i
  BY <1>4
<1>6. i - 1 \in S
  BY <1>3, <1>5
<1> QED
  BY <1>4, <1>5, <1>6

LEMMA LeastOf ==
    ASSUME NEW S \in SUBSET Nat, S # {}
    PROVE  \E m \in S : \A n \in S : m <= n
<1>1. PICK m \in S : \A n \in S : ~ (<<n, m>> \in OpToRel(<, Nat))
  BY NatLessThanWellFounded, WFMin
<1>2. \A n \in S : ~(n < m)
  BY <1>1 DEF OpToRel
<1> QED
  BY <1>2

LEMMA GreatestOf ==
    ASSUME NEW S \in SUBSET Nat, S # {}, IsFiniteSet(S)
    PROVE  \E m \in S : \A n \in S : n <= m
<1> DEFINE Has(T) == T # {} => \E m \in T : \A n \in T : n <= m
           N == {k \in Nat : \A T \in SUBSET Nat : IsFiniteSet(T) /\ Cardinality(T) = k => Has(T)}
<1>1. 0 \in N
  BY FS_EmptySet
<1>2. ASSUME NEW k \in Nat, k \in N
      PROVE  k + 1 \in N
  <2>1. SUFFICES ASSUME NEW T \in SUBSET Nat, IsFiniteSet(T), Cardinality(T) = k + 1, T # {}
                 PROVE  \E m \in T : \A n \in T : n <= m
    OBVIOUS
  <2>2. PICK x \in T : TRUE
    BY <2>1
  <2>3. IsFiniteSet(T \ {x}) /\ Cardinality(T \ {x}) = k /\ T \ {x} \in SUBSET Nat
    <3>1. IsFiniteSet(T \ {x}) /\ Cardinality(T \ {x}) = Cardinality(T) - 1
      BY <2>1, FS_RemoveElement
    <3>2. (k + 1) - 1 = k
      OBVIOUS
    <3> QED
      BY <2>1, <3>1, <3>2
  <2>4. Has(T \ {x})
    BY <1>2, <2>3
  <2>5. CASE T \ {x} = {}
    <3>1. T = {x} /\ x \in Nat
      BY <2>5
    <3> QED
      BY <3>1
  <2>6. CASE T \ {x} # {}
    <3>1. PICK m \in T \ {x} : \A n \in T \ {x} : n <= m
      BY <2>4, <2>6
    <3>2. x \in Nat /\ m \in Nat /\ T \subseteq Nat
      BY <2>3
    <3>3. CASE x <= m
      BY <3>1, <3>2, <3>3
    <3>4. CASE ~(x <= m)
      <4>1. \A n \in T : n <= x
        BY <3>1, <3>2, <3>4
      <4> QED
        BY <4>1
    <3> QED
      BY <3>3, <3>4
  <2> QED
    BY <2>5, <2>6
<1> HIDE DEF N
<1>3. Cardinality(S) \in N
  BY <1>1, <1>2, NumbersReach, FS_CardinalityType
<1> QED
  BY <1>3 DEF N

-----------------------------------------------------------------------------
(* routeAssignments *)

Able == {s \in Pinned : routes[s] # <<>>}

(* The choices for the first able sources, those numbered below n *)
Below(n) == {s \in Able : s < n}
Chosen(n, f) ==
    f = [s \in Below(n) |-> Select(s, {Key(t, f[t]) : t \in {u \in Able : u < s}})]

LEMMA AbleNumbers ==
    ASSUME ShareInv
    PROVE  /\ Able \subseteq In /\ In \subseteq Registrants /\ Registrants \subseteq Nat
           /\ IsFiniteSet(Able)
<1>1. Able \subseteq In /\ In \subseteq Registrants /\ Registrants \subseteq Nat
  BY AssignmentAssumption DEF Able, Pinned, In
<1> QED
  BY <1>1, FS_Subset DEF ShareInv

LEMMA ChosenExists ==
    ASSUME ShareInv, NEW N \in Nat
    PROVE  \E f : Chosen(N, f)
<1> DEFINE S == {m \in Nat : \E f : Chosen(m, f)}
<1>0. Able \subseteq Nat
  BY AbleNumbers
<1>1. 0 \in S
  <2> DEFINE g == [s \in Below(0) |-> 0]
  <2>1. Below(0) = {}
    <3>1. \A n \in Nat : ~(n < 0)
      OBVIOUS
    <3> QED
      BY <1>0, <3>1 DEF Below
  <2>2. Chosen(0, g)
    BY <2>1 DEF Chosen
  <2> QED
    BY <2>2
<1>2. ASSUME NEW m \in Nat, m \in S
      PROVE  m + 1 \in S
  <2>1. PICK f : Chosen(m, f)
    BY <1>2
  <2> DEFINE used(h, s) == {Key(t, h[t]) : t \in {u \in Able : u < s}}
             g == [s \in Below(m + 1) |-> Select(s, used(f, s))]
  <2>2. ASSUME NEW s \in Below(m + 1)
        PROVE  used(g, s) = used(f, s)
    <3>1. ASSUME NEW t \in {u \in Able : u < s}
          PROVE  g[t] = f[t]
      <4>1. t \in Below(m) /\ t \in Below(m + 1)
        BY <1>0, <2>2, <3>1 DEF Below
      <4>2. f[t] = Select(t, used(f, t))
        BY <2>1, <4>1 DEF Chosen
      <4> QED
        BY <4>1, <4>2
    <3> HIDE DEF g
    <3> QED
      BY <3>1
  <2>3. Chosen(m + 1, g)
    BY <2>2 DEF Chosen
  <2>4. m + 1 \in Nat
    OBVIOUS
  <2> HIDE DEF g
  <2> QED
    BY <2>3, <2>4
<1> HIDE DEF S
<1>3. N \in S
  BY <1>1, <1>2, NumbersReach
<1> QED
  BY <1>3 DEF S

Used(s) == {Key(t, Assignments[t]) : t \in {u \in Able : u < s}}

(* What Assignments is: the able sources one after the other *)
LEMMA AssignedIs ==
    ASSUME ShareInv
    PROVE  /\ DOMAIN Assignments = Able
           /\ \A s \in Able : Assignments[s] = Select(s, Used(s))
<1> DEFINE Whole(f) == f = [s \in Able |-> Select(s, {Key(t, f[t]) : t \in {u \in Able : u < s}})]
           chosen == CHOOSE f : Whole(f)
<1>1. Assignments = chosen
  BY DEF Assignments, Able
<1>2. \E n \in Nat : Below(n) = Able
  <2>1. Able \subseteq Nat /\ IsFiniteSet(Able)
    BY AbleNumbers
  <2>2. CASE Able = {}
    BY <2>2 DEF Below
  <2>3. CASE Able # {}
    <3>1. PICK m \in Able : \A n \in Able : n <= m
      BY <2>1, <2>3, GreatestOf
    <3>2. m + 1 \in Nat /\ \A n \in Able : n < m + 1
      BY <2>1, <3>1
    <3> QED
      BY <3>2 DEF Below
  <2> QED
    BY <2>2, <2>3
<1>3. \E f : Whole(f)
  BY <1>2, ChosenExists DEF Chosen
<1>4. Whole(chosen)
  BY <1>3
<1> HIDE DEF chosen
<1>5. Whole(Assignments)
  BY <1>1, <1>4
<1> QED
  BY <1>5 DEF Used

-----------------------------------------------------------------------------
(* One choice *)

LEMMA ItemsOf ==
    ASSUME NEW S, NEW s \in Seq(S)
    PROVE  /\ DOMAIN s = 1 .. Len(s) /\ Len(s) \in Nat
           /\ \A i \in DOMAIN s : s[i] \in S
           /\ s # <<>> => DOMAIN s # {}
OBVIOUS

LEMMA RouteTypes ==
    ASSUME ShareInv, NEW s \in Registrants
    PROVE  /\ routes[s] \in Seq([url : Mirrors, bad : BOOLEAN])
           /\ DOMAIN routes[s] = 1 .. Len(routes[s]) /\ Len(routes[s]) \in Nat
           /\ \A i \in DOMAIN routes[s] : Url(s, i) \in Nat
           /\ HealthyIndexes(s) \subseteq DOMAIN routes[s]
           /\ routes[s] # <<>> => DOMAIN routes[s] # {}
<1>1. routes[s] \in Seq([url : Mirrors, bad : BOOLEAN])
  BY DEF ShareInv, AssignmentTypeOK
<1>2. \A i \in DOMAIN routes[s] : routes[s][i] \in [url : Mirrors, bad : BOOLEAN]
  BY <1>1, ItemsOf
<1>3. \A i \in DOMAIN routes[s] : Url(s, i) \in Nat
  BY <1>2, AssignmentAssumption DEF Url
<1>4. HealthyIndexes(s) \subseteq DOMAIN routes[s]
  BY DEF HealthyIndexes, Working
<1> QED
  BY <1>1, <1>3, <1>4, ItemsOf

LEMMA FirstIn ==
    ASSUME ShareInv, NEW s \in Registrants, NEW S, S \subseteq DOMAIN routes[s], S # {}
    PROVE  FirstOf(s, S) \in S
<1> DEFINE urls == {Url(s, i) : i \in S}
<1>1. urls \in SUBSET Nat /\ urls # {}
  BY RouteTypes
<1>2. PICK u \in urls : \A v \in urls : u <= v
  BY <1>1, LeastOf
<1>3. \E i \in S : \A j \in S : Url(s, i) <= Url(s, j)
  BY <1>2
<1> QED
  BY <1>3 DEF FirstOf

Open(s, used) == {i \in HealthyIndexes(s) : Key(s, i) \notin used}
Clear(s, used) == {i \in Open(s, used) : ~HeldByOther(s, Key(s, i))}

LEMMA SelectIs ==
    ASSUME ShareInv, NEW s \in Able, NEW used
    PROVE  LET c == Select(s, used)
           IN  \/ c \in Own(s) \cap Open(s, used)
               \/ Own(s) \cap Open(s, used) = {} /\ c \in Clear(s, used)
               \/ /\ Own(s) \cap Open(s, used) = {} /\ Clear(s, used) = {}
                  /\ c \in Open(s, used)
               \/ Open(s, used) = {} /\ Clear(s, used) = {} /\ c \in HealthyIndexes(s)
<1> DEFINE best == IF Own(s) \cap Open(s, used) # {} THEN Own(s) \cap Open(s, used)
                   ELSE IF Clear(s, used) # {} THEN Clear(s, used)
                   ELSE IF Open(s, used) # {} THEN Open(s, used) ELSE HealthyIndexes(s)
<1>1. s \in Registrants /\ routes[s] # <<>>
  BY AbleNumbers DEF Able
<1>2. HealthyIndexes(s) # {}
  <2>1. DOMAIN routes[s] # {}
    BY <1>1, RouteTypes
  <2> QED
    BY <2>1 DEF HealthyIndexes
<1>3. /\ Open(s, used) \subseteq HealthyIndexes(s) /\ Clear(s, used) \subseteq Open(s, used)
      /\ HealthyIndexes(s) \subseteq DOMAIN routes[s]
  BY <1>1, RouteTypes DEF Open, Clear
<1>4. best \subseteq DOMAIN routes[s] /\ best # {}
  BY <1>2, <1>3
<1>5. Select(s, used) = FirstOf(s, best)
  BY DEF Select, Open, Clear
<1>6. Select(s, used) \in best
  BY <1>1, <1>4, <1>5, FirstIn
<1> QED
  BY <1>3, <1>6

-----------------------------------------------------------------------------
(* The promises of the assignment *)

LEMMA ForcedOnly ==
    ASSUME ShareInv
    PROVE  SharedOnlyWhenForced
<1>1. SUFFICES ASSUME NEW s \in Able, NEW t \in Able, s < t, Shared(s, t),
                      NEW i \in HealthyIndexes(t)
               PROVE  \E r \in Able : r < t /\ Key(r, Assignments[r]) = Key(t, i)
  BY AssignedIs DEF SharedOnlyWhenForced
<1>2. Key(t, Assignments[t]) \in Used(t)
  BY <1>1 DEF Used, Shared
<1>3. Assignments[t] \notin Open(t, Used(t))
  BY <1>2 DEF Open
<1>4. Open(t, Used(t)) = {}
  BY <1>3, AssignedIs, SelectIs DEF Clear
<1>5. Key(t, i) \in Used(t)
  BY <1>4 DEF Open
<1> QED
  BY <1>5 DEF Used

LEMMA PinsKept ==
    ASSUME ShareInv
    PROVE  PinsRespected
<1> DEFINE Reason(s) ==
               \/ Assignments[s] \in Own(s)
               \/ \A i \in HealthyIndexes(s) :
                     \/ \E r \in Able : r < s /\ Key(r, Assignments[r]) = Key(s, i)
                     \/ \E r \in Able \ {s} : \E j \in Own(r) : Key(r, j) = Key(s, i)
<1>1. SUFFICES ASSUME NEW t \in Able, NEW own \in Own(t), Assignments[t] # own
               PROVE  \E s \in Able : s < t /\ Key(s, Assignments[s]) = Key(t, own) /\ Reason(s)
  BY AssignedIs DEF PinsRespected
<1>2. Key(t, own) \in Used(t)
  <2>1. SUFFICES ASSUME Key(t, own) \notin Used(t)
                 PROVE  FALSE
    OBVIOUS
  <2>2. own \in Own(t) \cap Open(t, Used(t))
    BY <2>1 DEF Own, Open
  <2>3. Assignments[t] \in Own(t)
    BY <2>2, AssignedIs, SelectIs
  <2>4. /\ Url(t, Assignments[t]) = Url(t, own)
        /\ Assignments[t] \in HealthyIndexes(t) /\ own \in HealthyIndexes(t)
    BY <2>3 DEF Own
  <2>5. t \in Registrants
    BY AbleNumbers
  <2> QED
    BY <1>1, <2>4, <2>5, RouteTypes DEF ShareInv, OneOfEach
<1>3. PICK s \in Able : s < t /\ Key(s, Assignments[s]) = Key(t, own)
  BY <1>2 DEF Used
<1>4. CASE Assignments[s] \in Own(s)
  BY <1>3, <1>4
<1>5. CASE Assignments[s] \notin Own(s) /\ Clear(s, Used(s)) # {}
  <2>1. ~HeldByOther(s, Key(t, own))
    BY <1>3, <1>5, AssignedIs, SelectIs DEF Clear
  <2> DEFINE wanting == {u \in Pinned : \E i \in Own(u) : Key(u, i) = Key(t, own)}
  <2>2. t \in wanting /\ wanting \subseteq In
    BY DEF Able, Pinned
  <2>3. wanting \in SUBSET Nat /\ IsFiniteSet(wanting)
    BY <2>2, AbleNumbers, FS_Subset DEF ShareInv
  <2>4. PICK m \in wanting : \A u \in wanting : u <= m
    BY <2>2, <2>3, GreatestOf
  <2>5. m = s
    BY <2>1, <2>4 DEF HeldByOther
  <2>6. t <= s /\ s < t /\ s \in Nat /\ t \in Nat
    BY <1>3, <2>2, <2>4, <2>5, AbleNumbers
  <2> QED
    BY <2>6
<1>6. CASE Clear(s, Used(s)) = {}
  <2>1. ASSUME NEW i \in HealthyIndexes(s)
        PROVE  \/ \E r \in Able : r < s /\ Key(r, Assignments[r]) = Key(s, i)
               \/ \E r \in Able \ {s} : \E j \in Own(r) : Key(r, j) = Key(s, i)
    <3>1. CASE Key(s, i) \in Used(s)
      BY <3>1 DEF Used
    <3>2. CASE HeldByOther(s, Key(s, i))
      <4>1. PICK r \in Pinned \ {s} : \E j \in Own(r) : Key(r, j) = Key(s, i)
        BY <3>2 DEF HeldByOther
      <4>2. PICK j \in Own(r) : Key(r, j) = Key(s, i)
        BY <4>1
      <4>3. r \in Registrants /\ j \in DOMAIN routes[r]
        BY <4>2, AbleNumbers, RouteTypes DEF Own, Pinned
      <4>4. r \in Able
        BY <4>3, RouteTypes DEF Able
      <4> QED
        BY <4>2, <4>4
    <3>3. i \in Open(s, Used(s)) => HeldByOther(s, Key(s, i))
      BY <1>6 DEF Clear
    <3> QED
      BY <3>1, <3>2, <3>3 DEF Open
  <2> QED
    BY <1>3, <2>1
<1> QED
  BY <1>4, <1>5, <1>6

-----------------------------------------------------------------------------
(* routeAttempts *)

Before(S, i) == {j \in S : j < i}

LEMMA RankExists ==
    ASSUME NEW S \in SUBSET Nat, IsFiniteSet(S), NEW k \in Nat, k < Cardinality(S)
    PROVE  \E i \in S : Cardinality(Before(S, i)) = k
<1> DEFINE N == {n \in Nat : n < Cardinality(S) => \E i \in S : Cardinality(Before(S, i)) = n}
<1>0. Cardinality(S) \in Nat /\ S # {}
  BY FS_CardinalityType, FS_EmptySet
<1>1. 0 \in N
  <2>1. PICK m \in S : \A n \in S : m <= n
    BY <1>0, LeastOf
  <2>2. Before(S, m) = {}
    <3>1. \A j \in S : ~(j < m)
      BY <2>1
    <3> QED
      BY <3>1 DEF Before
  <2> QED
    BY <2>2, FS_EmptySet
<1>2. ASSUME NEW n \in Nat, n \in N
      PROVE  n + 1 \in N
  <2>1. SUFFICES ASSUME n + 1 < Cardinality(S)
                 PROVE  \E i \in S : Cardinality(Before(S, i)) = n + 1
    OBVIOUS
  <2>2. n < Cardinality(S)
    BY <1>0, <2>1
  <2>3. PICK i \in S : Cardinality(Before(S, i)) = n
    BY <1>2, <2>2
  <2>4. IsFiniteSet(Before(S, i)) /\ i \notin Before(S, i)
    <3>1. Before(S, i) \in SUBSET S /\ i \notin Before(S, i)
      BY DEF Before
    <3> QED
      BY <3>1, FS_Subset
  <2>5. Cardinality(Before(S, i) \cup {i}) = n + 1
    BY <2>3, <2>4, FS_AddElement
  <2> DEFINE R == {j \in S : i < j}
  <2>6. R # {}
    <3>1. SUFFICES ASSUME R = {}
                   PROVE  FALSE
      OBVIOUS
    <3>2. S = Before(S, i) \cup {i}
      <4>1. \A j \in S : j < i \/ j = i
        BY <3>1
      <4> QED
        BY <4>1 DEF Before
    <3> QED
      BY <1>0, <2>1, <2>5, <3>2
  <2>7. PICK m \in R : \A j \in R : m <= j
    BY <2>6, LeastOf
  <2>8. Before(S, m) = Before(S, i) \cup {i}
    <3>1. \A j \in S : j < m <=> j < i \/ j = i
      <4>1. SUFFICES ASSUME NEW j \in S
                     PROVE  j < m <=> j < i \/ j = i
        OBVIOUS
      <4>2. m \in Nat /\ i \in Nat /\ j \in Nat /\ i < m
        BY <2>7
      <4>3. i < j => m <= j
        BY <2>7
      <4> QED
        BY <4>2, <4>3
    <3> QED
      BY <3>1 DEF Before
  <2> QED
    BY <2>5, <2>7, <2>8
<1> HIDE DEF N
<1>3. k \in N
  BY <1>1, <1>2, NumbersReach
<1> QED
  BY <1>3 DEF N

LEMMA AscendingIs ==
    ASSUME NEW S \in SUBSET Nat, IsFiniteSet(S)
    PROVE  Ascending(S) \in Seq(S) /\ Len(Ascending(S)) = Cardinality(S) /\ Cardinality(S) \in Nat
<1>1. Cardinality(S) \in Nat
  BY FS_CardinalityType
<1> DEFINE item(k) == CHOOSE i \in S : Cardinality({j \in S : j < i}) = k - 1
<1>2. ASSUME NEW k \in 1 .. Cardinality(S)
      PROVE  item(k) \in S
  <2>1. k - 1 \in Nat /\ k - 1 < Cardinality(S)
    BY <1>1
  <2>2. \E i \in S : Cardinality({j \in S : j < i}) = k - 1
    BY <2>1, RankExists DEF Before
  <2> QED
    BY <2>2
<1>3. Ascending(S) = [k \in 1 .. Cardinality(S) |-> item(k)]
  BY DEF Ascending
<1> HIDE DEF item
<1> QED
  BY <1>1, <1>2, <1>3

LEMMA WiderSeq ==
    ASSUME NEW S, NEW T, S \subseteq T, NEW s \in Seq(S)
    PROVE  s \in Seq(T)
OBVIOUS

LEMMA OneItem ==
    ASSUME NEW T, NEW x \in T
    PROVE  <<x>> \in Seq(T) /\ <<x>> # <<>>
OBVIOUS

LEMMA NotEmptySeq ==
    ASSUME NEW T, NEW s \in Seq(T)
    PROVE  s = <<>> <=> Len(s) = 0
OBVIOUS

LEMMA JoinedSeq ==
    ASSUME NEW T, NEW s \in Seq(T), NEW t \in Seq(T)
    PROVE  s \o t \in Seq(T) /\ Len(s \o t) = Len(s) + Len(t) /\ Len(s) \in Nat /\ Len(t) \in Nat
OBVIOUS

LEMMA AttemptsIs ==
    ASSUME ShareInv, NEW s \in Registrants, NEW p \in DOMAIN routes[s]
    PROVE  AttemptOrder(s, p) \in Seq(DOMAIN routes[s]) /\ AttemptOrder(s, p) # <<>>
<1> DEFINE D == DOMAIN routes[s]
           W == Working(s)
           reserved == {Assignments[t] : t \in DOMAIN Assignments \ {s}}
<1>1. D \in SUBSET Nat /\ IsFiniteSet(D) /\ W \subseteq D
  <2>1. D = 1 .. Len(routes[s]) /\ Len(routes[s]) \in Nat
    BY RouteTypes
  <2>2. IsFiniteSet(1 .. Len(routes[s]))
    BY <2>1, FS_Interval
  <2> QED
    BY <2>1, <2>2 DEF Working
<1> HIDE DEF D
<1>2. ASSUME NEW S, S \subseteq D
      PROVE  /\ Ascending(S) \in Seq(D) /\ Len(Ascending(S)) = Cardinality(S)
             /\ IsFiniteSet(S) /\ Cardinality(S) \in Nat
  <2>1. IsFiniteSet(S) /\ S \in SUBSET Nat
    BY <1>1, <1>2, FS_Subset
  <2>2. Ascending(S) \in Seq(S) /\ Len(Ascending(S)) = Cardinality(S) /\ Cardinality(S) \in Nat
    BY <2>1, AscendingIs
  <2> QED
    BY <1>2, <2>1, <2>2, WiderSeq
<1> HIDE DEF W
<1>3. CASE p \in W
  <2>1. AttemptOrder(s, p) = <<p>>
    BY <1>3 DEF AttemptOrder, W
  <2>2. <<p>> \in Seq(D) /\ <<p>> # <<>>
    BY OneItem DEF D
  <2> QED
    BY <2>1, <2>2 DEF D
<1>4. CASE p \notin W /\ dedicated[s] = 0
  <2>1. AttemptOrder(s, p) = Append(Ascending(W), p)
    BY <1>4 DEF AttemptOrder, W
  <2>2. Ascending(W) \in Seq(D) /\ p \in D
    BY <1>1, <1>2 DEF D
  <2>3. Append(Ascending(W), p) \in Seq(D) /\ Len(Append(Ascending(W), p)) = Len(Ascending(W)) + 1
        /\ Len(Ascending(W)) \in Nat
    BY <2>2
  <2>4. Append(Ascending(W), p) # <<>>
    BY <2>3, NotEmptySeq
  <2> QED
    BY <2>1, <2>3, <2>4 DEF D
<1>5. CASE p \notin W /\ dedicated[s] # 0
  <2> DEFINE a == Ascending(W \ reserved)
             b == Ascending(W \cap reserved)
             c == Ascending(D \ W)
  <2>1. AttemptOrder(s, p) = (a \o b) \o c
    BY <1>5 DEF AttemptOrder, W, D
  <2>2. /\ a \in Seq(D) /\ b \in Seq(D) /\ c \in Seq(D)
        /\ Len(c) = Cardinality(D \ W) /\ IsFiniteSet(D \ W)
    BY <1>1, <1>2
  <2>3. Len(c) # 0
    <3>1. p \in D \ W
      BY <1>5 DEF D
    <3> QED
      BY <2>2, <3>1, FS_EmptySet
  <2> HIDE DEF a, b, c
  <2>4. a \o b \in Seq(D)
    BY <2>2, JoinedSeq
  <2>5. (a \o b) \o c \in Seq(D) /\ Len((a \o b) \o c) # 0
    BY <2>2, <2>3, <2>4, JoinedSeq
  <2>6. (a \o b) \o c # <<>>
    BY <2>5, NotEmptySeq
  <2> QED
    BY <2>1, <2>5, <2>6 DEF D
<1> QED
  BY <1>3, <1>4, <1>5

-----------------------------------------------------------------------------
(* The parts of the invariant *)

RouteList == Seq([url : Mirrors, bad : BOOLEAN])
Task(s, D) == [at : {"round", "trying"}, src : {s}, preferred : D, left : Seq(D), try : 1 .. MaxTries]

(* A download, for the routes and the registered sources *)
Suits(d, r, in) ==
    \/ d = NoDownload
    \/ \E s \in in : d \in Task(s, DOMAIN r[s]) /\ (d.at = "trying" => d.left # <<>>)

LEMMA TaskFields ==
    ASSUME NEW s, NEW D, NEW d \in Task(s, D)
    PROVE  /\ d.src = s /\ d.preferred \in D /\ d.left \in Seq(D) /\ d.try \in 1 .. MaxTries
           /\ d.at \in {"round", "trying"} /\ d.at # "idle"
<1>1. d.src \in {s} /\ d.preferred \in D /\ d.at \in {"round", "trying"}
  BY DEF Task
<1>2. d.left \in Seq(D)
  BY DEF Task
<1>3. d.try \in 1 .. MaxTries
  BY DEF Task
<1> QED
  BY <1>1, <1>2, <1>3

LEMMA NoDownloadIs ==
    NoDownload.at = "idle" /\ NoDownload.src = 0
BY DEF NoDownload

LEMMA SuitsFields ==
    ASSUME NEW d, NEW r, NEW in, Suits(d, r, in), d.at # "idle"
    PROVE  /\ d.src \in in /\ d \in Task(d.src, DOMAIN r[d.src])
           /\ d.preferred \in DOMAIN r[d.src] /\ d.left \in Seq(DOMAIN r[d.src])
           /\ d.try \in 1 .. MaxTries /\ (d.at = "trying" => d.left # <<>>)
<1>1. PICK s \in in : d \in Task(s, DOMAIN r[s]) /\ (d.at = "trying" => d.left # <<>>)
  BY NoDownloadIs DEF Suits
<1> QED
  BY <1>1, TaskFields

LEMMA SuitsWider ==
    ASSUME NEW d, NEW r, NEW in, Suits(d, r, in), NEW q, NEW on,
           d.at # "idle" => d.src \in on,
           \A s \in in : DOMAIN r[s] \subseteq DOMAIN q[s]
    PROVE  Suits(d, q, on)
<1>1. CASE d = NoDownload
  BY <1>1 DEF Suits
<1>2. CASE d # NoDownload
  <2>1. PICK s \in in : d \in Task(s, DOMAIN r[s]) /\ (d.at = "trying" => d.left # <<>>)
    BY <1>2 DEF Suits
  <2>2. d.src = s /\ s \in on /\ d.left \in Seq(DOMAIN r[s])
    BY <2>1, TaskFields
  <2>3. DOMAIN r[s] \subseteq DOMAIN q[s]
    OBVIOUS
  <2>4. d.left \in Seq(DOMAIN q[s])
    BY <2>2, <2>3, WiderSeq
  <2>5. d \in Task(s, DOMAIN q[s])
    BY <2>1, <2>3, <2>4 DEF Task
  <2> QED
    BY <2>1, <2>2, <2>5 DEF Suits
<1> QED
  BY <1>1, <1>2

LEMMA DownloadsSuit ==
    ASSUME ShareInv
    PROVE  /\ DOMAIN download = Loaders
           /\ \A f \in Loaders : Suits(download[f], routes, In)
           /\ In \subseteq Registrants
<1>1. SUFFICES ASSUME NEW f \in Loaders, download[f] # NoDownload
               PROVE  Suits(download[f], routes, In)
  BY DEF ShareInv, AssignmentTypeOK, In, Suits
<1>2. PICK s \in Registrants : download[f] \in Task(s, DOMAIN routes[s])
  BY <1>1 DEF ShareInv, AssignmentTypeOK, Task
<1>3. s \in In /\ (download[f].at = "trying" => download[f].left # <<>>)
  BY <1>2, TaskFields DEF ShareInv, AtWork
<1> QED
  BY <1>2, <1>3 DEF Suits

LEMMA Assembled ==
    ASSUME sources' \in [Registrants -> {"new", "in", "gone"}],
           dedicated' \in [Registrants -> 0 .. Places],
           routes' \in [Registrants -> RouteList],
           DOMAIN download' = Loaders,
           \A f \in Loaders : Suits(download'[f], routes', In'),
           pool' \in [Registrants -> SUBSET {"probing", "short"}],
           failures' \in 0 .. MaxFailures,
           IsFiniteSet(In'), OneOfEach'
    PROVE  ShareInv'
<1>1. In' \subseteq Registrants
  BY DEF In
<1>2. ASSUME NEW f \in Loaders
      PROVE  \/ download'[f] = NoDownload
             \/ \E s \in Registrants : download'[f] \in Task(s, DOMAIN routes'[s])
  BY <1>1 DEF Suits
<1>3. ASSUME NEW f \in Loaders
      PROVE  /\ download'[f].at # "idle" => download'[f].src \in In'
             /\ download'[f].at = "trying" => download'[f].left # <<>>
  <2>1. Suits(download'[f], routes', In')
    OBVIOUS
  <2>2. CASE download'[f].at # "idle"
    BY <2>1, <2>2, SuitsFields
  <2>3. CASE download'[f].at = "idle"
    BY <2>3
  <2> QED
    BY <2>2, <2>3
<1>4. AssignmentTypeOK'
  BY <1>2 DEF AssignmentTypeOK, Task, RouteList
<1>5. AtWork'
  BY <1>3 DEF AtWork
<1> QED
  BY <1>4, <1>5 DEF ShareInv

(* What the invariant says of the state, in those parts *)
LEMMA Parts ==
    ASSUME ShareInv
    PROVE  /\ sources \in [Registrants -> {"new", "in", "gone"}]
           /\ dedicated \in [Registrants -> 0 .. Places]
           /\ routes \in [Registrants -> RouteList]
           /\ pool \in [Registrants -> SUBSET {"probing", "short"}]
           /\ failures \in 0 .. MaxFailures
           /\ IsFiniteSet(In) /\ OneOfEach
BY DEF ShareInv, AssignmentTypeOK, RouteList

-----------------------------------------------------------------------------
(* Changes of the routes *)

LEMMA ItemSet ==
    ASSUME NEW S, NEW s \in Seq(S), NEW i, NEW e, i \in DOMAIN s => e \in S
    PROVE  [s EXCEPT ![i] = e] \in Seq(S) /\ DOMAIN [s EXCEPT ![i] = e] = DOMAIN s
<1> DEFINE t == [s EXCEPT ![i] = e]
<1>1. DOMAIN s = 1 .. Len(s) /\ Len(s) \in Nat
  OBVIOUS
<1>2. DOMAIN t = DOMAIN s /\ \A j \in DOMAIN s : t[j] = IF j = i THEN e ELSE s[j]
  OBVIOUS
<1>3. t \in [1 .. Len(s) -> S]
  <2>1. \A j \in DOMAIN s : s[j] \in S
    OBVIOUS
  <2>2. \A j \in 1 .. Len(s) : t[j] \in S
    BY <1>1, <1>2, <2>1
  <2>3. t = [j \in DOMAIN s |-> t[j]]
    OBVIOUS
  <2> QED
    BY <1>1, <2>2, <2>3
<1> QED
  BY <1>1, <1>2, <1>3

(* recordRouteResult, markRouteUnhealthy and a route that recovers change  *)
(* what is known of the health of a route, and nothing else.               *)
LEMMA HealthSet ==
    ASSUME ShareInv, NEW s, NEW i, NEW b \in BOOLEAN,
           routes' = [routes EXCEPT ![s][i].bad = b]
    PROVE  /\ routes' \in [Registrants -> RouteList]
           /\ \A t \in Registrants : DOMAIN routes'[t] = DOMAIN routes[t]
           /\ OneOfEach'
<1> DEFINE Route == [url : Mirrors, bad : BOOLEAN]
           item == [routes[s][i] EXCEPT !.bad = b]
           list == [routes[s] EXCEPT ![i] = item]
<1>1. routes' = [routes EXCEPT ![s] = list]
  OBVIOUS
<1>2. routes \in [Registrants -> Seq(Route)]
  BY Parts DEF RouteList
<1>3. ASSUME s \in Registrants
      PROVE  /\ list \in Seq(Route) /\ DOMAIN list = DOMAIN routes[s]
             /\ \A j \in DOMAIN list : list[j].url = routes[s][j].url
  <2>1. routes[s] \in Seq(Route)
    BY <1>2, <1>3
  <2>2. i \in DOMAIN routes[s] => routes[s][i] \in Route
    BY <2>1, ItemsOf
  <2>3. i \in DOMAIN routes[s] => item \in Route /\ item.url = routes[s][i].url
    BY <2>2
  <2> HIDE DEF item, Route
  <2>4. list \in Seq(Route) /\ DOMAIN list = DOMAIN routes[s]
    BY <2>1, <2>3, ItemSet
  <2>5. \A j \in DOMAIN list : list[j] = IF j = i THEN item ELSE routes[s][j]
    BY <2>4
  <2> QED
    BY <2>3, <2>4, <2>5
<1> HIDE DEF list, Route
<1>4. routes' \in [Registrants -> Seq(Route)]
  BY <1>1, <1>2, <1>3
<1>5. \A t \in Registrants : routes'[t] = IF t = s THEN list ELSE routes[t]
  BY <1>1, <1>2
<1>6. \A t \in Registrants : /\ DOMAIN routes'[t] = DOMAIN routes[t]
                             /\ \A j \in DOMAIN routes[t] : routes'[t][j].url = routes[t][j].url
  BY <1>3, <1>5
<1>7. OneOfEach'
  BY <1>6, Parts DEF OneOfEach, Url
<1> QED
  BY <1>4, <1>6, <1>7 DEF RouteList, Route

LEMMA RoutesSame ==
    ASSUME ShareInv, routes' = routes
    PROVE  OneOfEach' /\ routes' \in [Registrants -> RouteList]
BY Parts DEF OneOfEach, Url

LEMMA SourcesSame ==
    ASSUME ShareInv, sources' = sources
    PROVE  In' = In /\ IsFiniteSet(In')
BY Parts DEF In

LEMMA RebalancedIs ==
    ASSUME ShareInv, NEW in, IsFiniteSet(in)
    PROVE  Rebalanced(in) \in [Registrants -> 0 .. Places]
<1>0. Places \in Nat \ {0}
  <2>1. {Places, MaxTries} \subseteq Nat \ {0}
    BY AssignmentAssumption
  <2> QED
    BY <2>1
<1>1. ASSUME NEW s
      PROVE  (Cardinality({t \in in : t < s}) % Places) + 1 \in 0 .. Places
  <2>1. Cardinality({t \in in : t < s}) \in Nat
    BY FS_Subset, FS_CardinalityType
  <2>2. \A n \in Nat : n % Places \in 0 .. Places - 1
    BY <1>0
  <2> QED
    BY <1>0, <2>1, <2>2
<1>2. 0 \in 0 .. Places
  BY <1>0
<1>3. dedicated \in [Registrants -> 0 .. Places]
  BY Parts
<1> QED
  BY <1>1, <1>2, <1>3 DEF Rebalanced

-----------------------------------------------------------------------------
(* Steps *)

LEMMA ShareStart ==
    ShareInit => ShareInv
<1> SUFFICES ASSUME ShareInit
             PROVE  ShareInv
  OBVIOUS
<1>1. In = {}
  BY DEF ShareInit, In
<1>2. \A s \in Registrants : routes[s] = <<>> /\ DOMAIN routes[s] = {}
  BY DEF ShareInit
<1>3. OneOfEach
  BY <1>2 DEF OneOfEach
<1>4. AtWork
  BY NoDownloadIs DEF AtWork, ShareInit
<1>5. 0 \in 0 .. Places /\ 0 \in 0 .. MaxFailures
  <2>1. {Places, MaxTries} \subseteq Nat \ {0} /\ MaxFailures \in Nat
    BY AssignmentAssumption
  <2>2. Places \in Nat
    BY <2>1
  <2> QED
    BY <2>1, <2>2
<1>6. <<>> \in Seq([url : Mirrors, bad : BOOLEAN])
  OBVIOUS
<1>7. AssignmentTypeOK
  BY <1>5, <1>6 DEF AssignmentTypeOK, ShareInit
<1> QED
  BY <1>1, <1>3, <1>4, <1>7, FS_EmptySet DEF ShareInv

LEMMA RegisterStep ==
    ASSUME ShareInv, NEW s \in Registrants, Register(s)
    PROVE  ShareInv'
<1>1. /\ sources' = [sources EXCEPT ![s] = "in"] /\ dedicated' = Rebalanced(In \cup {s})
      /\ pool' = [pool EXCEPT ![s] = {"probing"}]
      /\ routes' = routes /\ download' = download /\ failures' = failures
  BY DEF Register
<1>2. In' = In \cup {s}
  BY <1>1, Parts DEF In
<1>3. IsFiniteSet(In')
  BY <1>2, Parts, FS_AddElement
<1>4. dedicated' \in [Registrants -> 0 .. Places]
  BY <1>1, <1>2, <1>3, RebalancedIs
<1>5. \A f \in Loaders : Suits(download'[f], routes', In')
  <2>1. ASSUME NEW f \in Loaders
        PROVE  Suits(download[f], routes, In')
    <3>1. Suits(download[f], routes, In)
      BY DownloadsSuit
    <3>2. download[f].at # "idle" => download[f].src \in In'
      BY <1>2, <3>1, SuitsFields
    <3> QED
      BY <3>1, <3>2, SuitsWider
  <2> QED
    BY <1>1, <2>1
<1>6. pool' \in [Registrants -> SUBSET {"probing", "short"}]
  BY <1>1, Parts
<1>7. sources' \in [Registrants -> {"new", "in", "gone"}]
  BY <1>1, Parts
<1> QED
  BY <1>1, <1>3, <1>4, <1>5, <1>6, <1>7, Parts, DownloadsSuit, RoutesSame, Assembled

LEMMA WithdrawStep ==
    ASSUME ShareInv, NEW s \in Registrants, Withdraw(s)
    PROVE  ShareInv'
<1>1. /\ sources' = [sources EXCEPT ![s] = "gone"] /\ dedicated' = Rebalanced(In \ {s})
      /\ download' = [f \in Loaders |-> IF download[f].src = s THEN NoDownload ELSE download[f]]
      /\ pool' = [pool EXCEPT ![s] = {}]
      /\ routes' = routes /\ failures' = failures
  BY DEF Withdraw
<1>2. In' = In \ {s}
  BY <1>1, Parts DEF In
<1>3. IsFiniteSet(In')
  BY <1>2, Parts, FS_RemoveElement
<1>4. dedicated' \in [Registrants -> 0 .. Places]
  BY <1>1, <1>2, <1>3, RebalancedIs
<1>5. \A f \in Loaders : Suits(download'[f], routes', In')
  <2>1. ASSUME NEW f \in Loaders, download[f].src # s
        PROVE  Suits(download[f], routes, In')
    <3>1. Suits(download[f], routes, In)
      BY DownloadsSuit
    <3>2. download[f].at # "idle" => download[f].src \in In'
      BY <1>2, <2>1, <3>1, SuitsFields
    <3> QED
      BY <3>1, <3>2, SuitsWider
  <2>2. Suits(NoDownload, routes, In')
    BY DEF Suits
  <2> QED
    BY <1>1, <2>1, <2>2
<1>6. pool' \in [Registrants -> SUBSET {"probing", "short"}]
  BY <1>1, Parts
<1>7. sources' \in [Registrants -> {"new", "in", "gone"}]
  BY <1>1, Parts
<1>8. DOMAIN download' = Loaders
  BY <1>1
<1> QED
  BY <1>1, <1>3, <1>4, <1>5, <1>6, <1>7, <1>8, Parts, RoutesSame, Assembled

(* A step of one download that changes neither sources nor routes *)
LEMMA LoaderStep ==
    ASSUME ShareInv, NEW f \in Loaders, NEW d, Suits(d, routes, In),
           download' = [download EXCEPT ![f] = d],
           UNCHANGED <<sources, dedicated, routes, pool, failures>>
    PROVE  ShareInv'
<1>1. In' = In /\ IsFiniteSet(In')
  BY SourcesSame
<1>2. DOMAIN download' = Loaders /\ \A g \in Loaders : download'[g] = IF g = f THEN d ELSE download[g]
  BY DownloadsSuit
<1>3. \A g \in Loaders : Suits(download'[g], routes', In')
  BY <1>1, <1>2, DownloadsSuit
<1> QED
  BY <1>1, <1>2, <1>3, Parts, RoutesSame, Assembled

LEMMA LaunchStep ==
    ASSUME ShareInv, NEW f \in Loaders, NEW s \in Registrants, NEW i \in DOMAIN routes[s],
           Launch(f, s, i)
    PROVE  ShareInv'
<1> DEFINE d == [at |-> "round", src |-> s, preferred |-> i, left |-> <<>>, try |-> 1]
<1>1. s \in In /\ download' = [download EXCEPT ![f] = d]
      /\ UNCHANGED <<sources, dedicated, routes, pool, failures>>
  BY DEF Launch, In
<1>2. 1 \in 1 .. MaxTries
  <2>1. {Places, MaxTries} \subseteq Nat \ {0}
    BY AssignmentAssumption
  <2>2. MaxTries \in Nat \ {0}
    BY <2>1
  <2> QED
    BY <2>2
<1>3. <<>> \in Seq(DOMAIN routes[s])
  OBVIOUS
<1>4. d \in Task(s, DOMAIN routes[s]) /\ d.at # "trying"
  BY <1>2, <1>3 DEF Task
<1> HIDE DEF d
<1>5. Suits(d, routes, In)
  BY <1>1, <1>4 DEF Suits
<1> QED
  BY <1>1, <1>5, LoaderStep

(* What Round and Fails make of a download *)
Tried(d, left) == [d EXCEPT !.at = "trying", !.left = left]
Rest(d, left) == [d EXCEPT !.left = left]
Again(d) == [d EXCEPT !.at = "round", !.left = <<>>, !.try = d.try + 1]

LEMMA TaskTried ==
    ASSUME NEW s, NEW D, NEW d \in Task(s, D), NEW left \in Seq(D)
    PROVE  Tried(d, left) \in Task(s, D) /\ Tried(d, left).left = left
<1>1. Tried(d, left) \in Task(s, D)
  BY DEF Task, Tried
<1>2. Tried(d, left).left = left
  BY DEF Task, Tried
<1> QED
  BY <1>1, <1>2

LEMMA TaskRest ==
    ASSUME NEW s, NEW D, NEW d \in Task(s, D), NEW left \in Seq(D)
    PROVE  Rest(d, left) \in Task(s, D) /\ Rest(d, left).left = left
<1>1. Rest(d, left) \in Task(s, D)
  BY DEF Task, Rest
<1>2. Rest(d, left).left = left
  BY DEF Task, Rest
<1> QED
  BY <1>1, <1>2

LEMMA TaskAgain ==
    ASSUME NEW s, NEW D, NEW d \in Task(s, D), d.try + 1 \in 1 .. MaxTries
    PROVE  Again(d) \in Task(s, D) /\ Again(d).at = "round"
<1>1. <<>> \in Seq(D)
  OBVIOUS
<1>2. Again(d) \in Task(s, D)
  BY <1>1 DEF Task, Again
<1>3. Again(d).at = "round"
  BY DEF Task, Again
<1> QED
  BY <1>2, <1>3

LEMMA RoundStep ==
    ASSUME ShareInv, NEW f \in Loaders, Round(f)
    PROVE  ShareInv'
<1> DEFINE s == download[f].src
           order == AttemptOrder(s, download[f].preferred)
           d == Tried(download[f], order)
<1>1. download[f].at = "round" /\ download' = [download EXCEPT ![f] = d]
      /\ UNCHANGED <<sources, dedicated, routes, pool, failures>>
  BY DownloadsSuit DEF Round, Tried
<1>2. Suits(download[f], routes, In)
  BY DownloadsSuit
<1>3. s \in In /\ download[f] \in Task(s, DOMAIN routes[s]) /\ download[f].preferred \in DOMAIN routes[s]
  BY <1>1, <1>2, SuitsFields
<1>4. order \in Seq(DOMAIN routes[s]) /\ order # <<>>
  BY <1>3, DownloadsSuit, AttemptsIs
<1> HIDE DEF s, order
<1>5. d \in Task(s, DOMAIN routes[s]) /\ d.left = order
  BY <1>3, <1>4, TaskTried
<1> HIDE DEF d
<1>6. Suits(d, routes, In)
  BY <1>3, <1>4, <1>5 DEF Suits
<1> QED
  BY <1>1, <1>6, LoaderStep

LEMMA LeavesStep ==
    ASSUME ShareInv, NEW f \in Loaders, Leaves(f)
    PROVE  ShareInv'
<1>1. download' = [download EXCEPT ![f] = NoDownload]
      /\ UNCHANGED <<sources, dedicated, routes, pool, failures>>
  BY DEF Leaves
<1>2. Suits(NoDownload, routes, In)
  BY DEF Suits
<1> QED
  BY <1>1, <1>2, LoaderStep

(* A route that failed: the next one, another round, or none *)
Onward(d) ==
    IF Tail(d.left) # <<>> THEN Rest(d, Tail(d.left))
    ELSE IF d.try < MaxTries THEN Again(d)
    ELSE NoDownload

LEMMA TailIs ==
    ASSUME NEW S, NEW s \in Seq(S), s # <<>>
    PROVE  Tail(s) \in Seq(S)
OBVIOUS

LEMMA NextTask ==
    ASSUME NEW d, Suits(d, routes, In), d.at = "trying"
    PROVE  Suits(Onward(d), routes, In)
<1> DEFINE s == d.src
           D == DOMAIN routes[s]
           rest == Tail(d.left)
<1>1. /\ s \in In /\ d \in Task(s, D) /\ d.left \in Seq(D) /\ d.left # <<>>
      /\ d.try \in 1 .. MaxTries
  BY SuitsFields
<1>2. rest \in Seq(D)
  BY <1>1, TailIs
<1> HIDE DEF s, rest
<1>3. CASE rest # <<>>
  <2>1. Rest(d, rest) \in Task(s, D) /\ Rest(d, rest).left = rest
    BY <1>1, <1>2, TaskRest
  <2>2. Suits(Rest(d, rest), routes, In)
    BY <1>1, <1>3, <2>1 DEF Suits
  <2> QED
    BY <1>3, <2>2 DEF Onward, rest
<1>4. CASE rest = <<>> /\ d.try < MaxTries
  <2>1. d.try + 1 \in 1 .. MaxTries
    <3>1. {Places, MaxTries} \subseteq Nat \ {0}
      BY AssignmentAssumption
    <3>2. MaxTries \in Nat
      BY <3>1
    <3> QED
      BY <1>1, <1>4, <3>2
  <2>2. Again(d) \in Task(s, D) /\ Again(d).at = "round"
    BY <1>1, <2>1, TaskAgain
  <2>3. Suits(Again(d), routes, In)
    BY <1>1, <2>2 DEF Suits
  <2> QED
    BY <1>4, <2>3 DEF Onward, rest
<1>5. CASE rest = <<>> /\ ~(d.try < MaxTries)
  BY <1>5 DEF Onward, rest, Suits
<1> QED
  BY <1>3, <1>4, <1>5

(* A step that changes the routes and one download, and no source *)
LEMMA RoutesStep ==
    ASSUME ShareInv, NEW f, NEW d, Suits(d, routes, In),
           download' = [download EXCEPT ![f] = d],
           UNCHANGED <<sources, dedicated>>,
           routes' \in [Registrants -> RouteList], OneOfEach',
           \A t \in Registrants : DOMAIN routes[t] \subseteq DOMAIN routes'[t],
           pool' \in [Registrants -> SUBSET {"probing", "short"}],
           failures' \in 0 .. MaxFailures
    PROVE  ShareInv'
<1>1. In' = In /\ IsFiniteSet(In') /\ In \subseteq Registrants
  BY SourcesSame, DownloadsSuit
<1>2. DOMAIN download' = Loaders /\ \A g \in Loaders : download'[g] = download[g] \/ download'[g] = d
  BY DownloadsSuit
<1>3. ASSUME NEW x, Suits(x, routes, In)
      PROVE  Suits(x, routes', In')
  <2>1. x.at # "idle" => x.src \in In'
    BY <1>1, <1>3, SuitsFields
  <2> QED
    BY <1>1, <1>3, <2>1, SuitsWider
<1>4. \A g \in Loaders : Suits(download'[g], routes', In')
  BY <1>2, <1>3, DownloadsSuit
<1> QED
  BY <1>1, <1>2, <1>4, Parts, Assembled

LEMMA SucceedsStep ==
    ASSUME ShareInv, NEW f \in Loaders, Succeeds(f)
    PROVE  ShareInv'
<1> DEFINE s == download[f].src
           i == Head(download[f].left)
<1>1. /\ routes' = [routes EXCEPT ![s][i].bad = FALSE]
      /\ download' = [download EXCEPT ![f] = NoDownload]
      /\ pool' = [pool EXCEPT ![s] = IF "short" \in @ THEN {"probing"} ELSE @]
      /\ UNCHANGED <<sources, dedicated, failures>>
  BY DEF Succeeds
<1> HIDE DEF s, i
<1>2. pool' \in [Registrants -> SUBSET {"probing", "short"}]
  BY <1>1, Parts
<1>3. Suits(NoDownload, routes, In)
  BY DEF Suits
<1>4. /\ routes' \in [Registrants -> RouteList] /\ OneOfEach'
      /\ \A t \in Registrants : DOMAIN routes[t] \subseteq DOMAIN routes'[t]
  BY <1>1, HealthSet
<1> QED
  BY <1>1, <1>2, <1>3, <1>4, Parts, RoutesStep

LEMMA FailsStep ==
    ASSUME ShareInv, NEW f \in Loaders, Fails(f)
    PROVE  ShareInv'
<1> DEFINE s == download[f].src
           i == Head(download[f].left)
           d == Onward(download[f])
<1>1. /\ download[f].at = "trying" /\ failures < MaxFailures
      /\ routes' = [routes EXCEPT ![s][i].bad = TRUE]
      /\ download' = [download EXCEPT ![f] = d]
      /\ pool' = [pool EXCEPT ![s] = @ \cup {"short"}]
      /\ failures' = failures + 1
      /\ UNCHANGED <<sources, dedicated>>
  <2>1. /\ download[f].at = "trying" /\ failures < MaxFailures
        /\ routes' = [routes EXCEPT ![s][i].bad = TRUE]
        /\ pool' = [pool EXCEPT ![s] = @ \cup {"short"}]
        /\ failures' = failures + 1
        /\ UNCHANGED <<sources, dedicated>>
    BY DEF Fails
  <2>2. download' = [download EXCEPT ![f] = d]
    BY DEF Fails, Onward, Rest, Again
  <2> QED
    BY <2>1, <2>2
<1>2. Suits(d, routes, In)
  BY <1>1, DownloadsSuit, NextTask
<1> HIDE DEF s, i, d
<1>3. pool' \in [Registrants -> SUBSET {"probing", "short"}]
  BY <1>1, Parts
<1>4. /\ routes' \in [Registrants -> RouteList] /\ OneOfEach'
      /\ \A t \in Registrants : DOMAIN routes[t] \subseteq DOMAIN routes'[t]
  BY <1>1, HealthSet
<1>5. failures' \in 0 .. MaxFailures
  BY <1>1, Parts, AssignmentAssumption
<1> QED
  BY <1>1, <1>2, <1>3, <1>4, <1>5, RoutesStep

(* A step that changes routes and pool only *)
LEMMA PoolStep ==
    ASSUME ShareInv, UNCHANGED <<sources, dedicated, download, failures>>,
           routes' \in [Registrants -> RouteList], OneOfEach',
           \A t \in Registrants : DOMAIN routes[t] \subseteq DOMAIN routes'[t],
           pool' \in [Registrants -> SUBSET {"probing", "short"}]
    PROVE  ShareInv'
<1>1. In' = In /\ IsFiniteSet(In') /\ In \subseteq Registrants
  BY SourcesSame, DownloadsSuit
<1>2. ASSUME NEW f \in Loaders
      PROVE  Suits(download[f], routes', In')
  <2>1. Suits(download[f], routes, In)
    BY DownloadsSuit
  <2>2. download[f].at # "idle" => download[f].src \in In'
    BY <1>1, <2>1, SuitsFields
  <2> QED
    BY <1>1, <2>1, <2>2, SuitsWider
<1> QED
  BY <1>1, <1>2, DownloadsSuit, Parts, Assembled

LEMMA JoinsPool ==
    ASSUME ShareInv, NEW s \in Registrants, NEW u, Joins(s, u)
    PROVE  pool' \in [Registrants -> SUBSET {"probing", "short"}]
BY Parts DEF Joins

LEMMA AcceptStep ==
    ASSUME ShareInv, NEW s \in Registrants, NEW u \in Mirrors, Accept(s, u)
    PROVE  ShareInv'
<1> DEFINE new == [url |-> u, bad |-> FALSE]
           list == Append(routes[s], new)
           Route == [url : Mirrors, bad : BOOLEAN]
<1>1. /\ Joins(s, u) /\ \A i \in DOMAIN routes[s] : Url(s, i) # u
      /\ routes' = [routes EXCEPT ![s] = list]
      /\ UNCHANGED <<sources, dedicated, download, failures>>
  BY DEF Accept
<1>2. routes[s] \in Seq(Route) /\ new \in Route /\ new.url = u
  BY RouteTypes
<1> HIDE DEF Route, new
<1>3. /\ list \in Seq(Route) /\ Len(routes[s]) \in Nat
      /\ DOMAIN routes[s] = 1 .. Len(routes[s]) /\ DOMAIN list = 1 .. Len(routes[s]) + 1
      /\ \A i \in 1 .. Len(routes[s]) : list[i] = routes[s][i]
      /\ list[Len(routes[s]) + 1] = new
  BY <1>2
<1> HIDE DEF list
<1>4. routes' \in [Registrants -> RouteList]
  BY <1>1, <1>3, Parts DEF RouteList, Route
<1>5. \A t \in Registrants : routes'[t] = IF t = s THEN list ELSE routes[t]
  BY <1>1, Parts
<1>6. \A t \in Registrants : DOMAIN routes[t] \subseteq DOMAIN routes'[t]
  <2>1. DOMAIN routes[s] \subseteq DOMAIN list
    BY <1>3
  <2> QED
    BY <1>5, <2>1
<1>7. OneOfEach'
  <2>1. SUFFICES ASSUME NEW t \in Registrants, NEW i \in DOMAIN routes'[t], NEW j \in DOMAIN routes'[t],
                        i # j
                 PROVE  routes'[t][i].url # routes'[t][j].url
    BY DEF OneOfEach, Url
  <2>2. CASE t # s
    BY <1>5, <2>1, <2>2, Parts DEF OneOfEach, Url
  <2>3. CASE t = s
    <3>1. i \in DOMAIN list /\ j \in DOMAIN list
      BY <1>5, <2>1, <2>3
    <3>2. CASE i \in DOMAIN routes[s] /\ j \in DOMAIN routes[s]
      <4>1. list[i] = routes[s][i] /\ list[j] = routes[s][j] /\ routes'[t] = list
        BY <1>3, <1>5, <2>3, <3>2
      <4>2. routes[s][i].url # routes[s][j].url
        BY <2>1, <3>2, Parts DEF OneOfEach, Url
      <4> QED
        BY <4>1, <4>2
    <3>3. CASE i \notin DOMAIN routes[s]
      <4>1. i = Len(routes[s]) + 1 /\ j \in DOMAIN routes[s]
        BY <1>3, <2>1, <3>1, <3>3
      <4>2. list[i].url = u /\ list[j] = routes[s][j] /\ routes[s][j].url # u
        BY <1>1, <1>2, <1>3, <4>1 DEF Url
      <4> QED
        BY <1>5, <2>3, <4>2
    <3>4. CASE j \notin DOMAIN routes[s]
      <4>1. j = Len(routes[s]) + 1 /\ i \in DOMAIN routes[s]
        BY <1>3, <2>1, <3>1, <3>4
      <4>2. list[j].url = u /\ list[i] = routes[s][i] /\ routes[s][i].url # u
        BY <1>1, <1>2, <1>3, <4>1 DEF Url
      <4> QED
        BY <1>5, <2>3, <4>2
    <3> QED
      BY <3>2, <3>3, <3>4
  <2> QED
    BY <2>2, <2>3
<1> QED
  BY <1>1, <1>4, <1>6, <1>7, JoinsPool, PoolStep

LEMMA RecoverStep ==
    ASSUME ShareInv, NEW s \in Registrants, NEW i \in DOMAIN routes[s], Recover(s, i)
    PROVE  ShareInv'
<1>1. /\ Joins(s, Url(s, i)) /\ routes' = [routes EXCEPT ![s][i].bad = FALSE]
      /\ UNCHANGED <<sources, dedicated, download, failures>>
  BY DEF Recover
<1>2. /\ routes' \in [Registrants -> RouteList] /\ OneOfEach'
      /\ \A t \in Registrants : DOMAIN routes[t] \subseteq DOMAIN routes'[t]
  BY <1>1, HealthSet
<1> QED
  BY <1>1, <1>2, JoinsPool, PoolStep

LEMMA ProbingEndsStep ==
    ASSUME ShareInv, NEW s \in Registrants, ProbingEnds(s)
    PROVE  ShareInv'
<1>1. /\ pool' = [pool EXCEPT ![s] = @ \ {"probing"}]
      /\ UNCHANGED <<sources, dedicated, routes, download, failures>>
  BY DEF ProbingEnds
<1>2. pool' \in [Registrants -> SUBSET {"probing", "short"}]
  BY <1>1, Parts
<1> QED
  BY <1>1, <1>2, RoutesSame, PoolStep

LEMMA ShareStep ==
    ShareInv /\ [ShareNext]_shareVars => ShareInv'
<1> SUFFICES ASSUME ShareInv, [ShareNext]_shareVars
             PROVE  ShareInv'
  OBVIOUS
<1>1. CASE UNCHANGED shareVars
  <2>1. UNCHANGED <<sources, dedicated, routes, download, pool, failures>>
    BY <1>1 DEF shareVars
  <2> QED
    BY <2>1, RoutesSame, PoolStep, Parts
<1>2. ASSUME NEW s \in Registrants,
             \/ Register(s) \/ Withdraw(s) \/ ProbingEnds(s)
             \/ \E u \in Mirrors : Accept(s, u)
             \/ \E i \in DOMAIN routes[s] : Recover(s, i)
      PROVE  ShareInv'
  BY <1>2, RegisterStep, WithdrawStep, ProbingEndsStep, AcceptStep, RecoverStep
<1>3. ASSUME NEW f \in Loaders,
             \/ \E s \in Registrants : \E i \in DOMAIN routes[s] : Launch(f, s, i)
             \/ Round(f) \/ Succeeds(f) \/ Fails(f) \/ Leaves(f)
      PROVE  ShareInv'
  BY <1>3, LaunchStep, RoundStep, SucceedsStep, FailsStep, LeavesStep
<1> QED
  BY <1>1, <1>2, <1>3 DEF ShareNext, Ended

LEMMA ShareInvHolds ==
    ShareSpec => []ShareInv
BY ShareStart, ShareStep, PTL DEF ShareSpec

(* Every variable has its type: a download prefers a route of its source,  *)
(* and the routes it has left are routes of its source (downloadChunk over *)
(* what routeAttempts returned).                                           *)
THEOREM SharesTypesHold ==
    ShareSpec => []AssignmentTypeOK
<1>1. ShareInv => AssignmentTypeOK
  BY DEF ShareInv
<1> QED
  BY <1>1, ShareInvHolds, PTL

(* What routeAssignments promises, for any number of sources, routes and   *)
(* hosts: two sources share a host only if every route of the later one is *)
(* on a host given to a source before it, and the place a source is pinned *)
(* to is passed over only for a source before it that has a right to the   *)
(* host or nothing else left.                                              *)
THEOREM FairAssignment ==
    ShareSpec => []FairlyAssigned
<1>1. ShareInv => FairlyAssigned
  BY ForcedOnly, PinsKept DEF FairlyAssigned
<1> QED
  BY <1>1, ShareInvHolds, PTL

=============================================================================
