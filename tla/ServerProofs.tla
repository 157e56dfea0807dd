---------------------------- MODULE ServerProofs ----------------------------
(*****************************************************************************)
(* Proofs about the HTTP server: Failover, for any number of upstreams and   *)
(* requests and however often upstreams fail or come back (a request walks   *)
(* round all upstreams from the preference it read, and leaves behind it     *)
(* none that worked all the while), and Settings, for any browsers, texts,   *)
(* urls and equivalences of urls (SettingsInv is inductive; from it follow   *)
(* the types and, as what is written reads back, SavedIsRun).                *)
(*****************************************************************************)
EXTENDS Failover, Settings, WellFoundedInduction, TLAPS

-----------------------------------------------------------------------------
(*****************************************************************************)
(* Failover                                                                  *)
(*****************************************************************************)

(* The upstream of attempt k of a request *)
Visit(c, k) == (start[c] + k) % N

(* Of the upstreams that failed a request none worked all the while.       *)
PassedFailed ==
    \A c \in Callers : \A k \in 0 .. offset[c] :
        k < offset[c] \/ (trip[c] \in {"settle", "returned"} /\ result[c] # "ok")
            => Visit(c, k) \notin steady[c]

SteadyWorks == \A c \in Callers : steady[c] \subseteq working

(* Only the last failure is returned, and only a request that can be sent  *)
(* again gets beyond its first attempt.                                    *)
ReturnsLast ==
    \A c \in Callers :
        trip[c] = "returned" /\ result[c] # "ok" /\ Retryable(req[c]) => LastTry(c)
OneShot == \A c \in Callers : ~Retryable(req[c]) => offset[c] = 0

(* A request that has not begun has nothing behind it. *)
Unbegun == \A c \in Callers : trip[c] = "new" => offset[c] = 0

FailoverInv ==
    /\ FailoverTypeOK
    /\ PassedFailed /\ SteadyWorks /\ ReturnsLast /\ OneShot /\ Unbegun
    /\ NeverUnsendable

-----------------------------------------------------------------------------
(* N attempts in a row, from any upstream, reach every upstream.           *)
LEMMA Residues ==
    ASSUME NEW i \in 0 .. 2 * N - 1
    PROVE  i % N = IF i < N THEN i ELSE i - N
<1>1. N \in Nat /\ N > 1
  BY FailoverAssumption
<1> QED
  BY <1>1

LEMMA RoundReachesAll ==
    ASSUME NEW s \in Upstreams, NEW u \in Upstreams
    PROVE  \E k \in 0 .. N - 1 : (s + k) % N = u
<1>0. N \in Nat /\ N > 1 /\ s \in 0 .. N - 1 /\ u \in 0 .. N - 1
  BY FailoverAssumption DEF Upstreams
<1>1. CASE u >= s
  <2>1. u - s \in 0 .. N - 1 /\ s + (u - s) = u /\ u \in 0 .. 2 * N - 1
    BY <1>0, <1>1
  <2>2. u % N = u
    BY <1>0, <2>1, Residues
  <2>3. (s + (u - s)) % N = u
    BY <2>1, <2>2
  <2> QED
    BY <2>1, <2>3
<1>2. CASE u < s
  <2>1. u - s + N \in 0 .. N - 1 /\ s + (u - s + N) = u + N /\ u + N \in 0 .. 2 * N - 1
    BY <1>0, <1>2
  <2>2. (u + N) % N = u
    <3>1. (u + N) % N = IF u + N < N THEN u + N ELSE (u + N) - N
      BY <2>1, Residues
    <3> QED
      BY <1>0, <3>1
  <2>3. (s + (u - s + N)) % N = u
    BY <2>1, <2>2
  <2> QED
    BY <2>1, <2>3
<1> QED
  BY <1>0, <1>1, <1>2

LEMMA IndexIsUpstream ==
    ASSUME FailoverTypeOK, NEW c \in Callers
    PROVE  Index(c) \in Upstreams /\ Index(c) = Visit(c, offset[c])
<1>1. N \in Nat \ {0, 1} /\ start[c] \in 0 .. N - 1 /\ offset[c] \in 0 .. N - 1
  BY FailoverAssumption DEF FailoverTypeOK, Upstreams
<1>2. start[c] + offset[c] \in 0 .. 2 * N - 1
  BY <1>1
<1> QED
  BY <1>1, <1>2, Residues DEF Index, Visit, Upstreams

-----------------------------------------------------------------------------
(* The invariant is inductive. *)

LEMMA FailoverStart == FailoverInit => FailoverInv
<1> SUFFICES ASSUME FailoverInit PROVE FailoverInv
  OBVIOUS
<1>1. FailoverTypeOK
  BY FailoverAssumption DEF FailoverInit, FailoverTypeOK, Upstreams
<1>2. PassedFailed /\ SteadyWorks /\ ReturnsLast /\ OneShot /\ Unbegun /\ NeverUnsendable
  BY DEF FailoverInit, PassedFailed, SteadyWorks, ReturnsLast, OneShot, Unbegun, NeverUnsendable
<1> QED
  BY <1>1, <1>2 DEF FailoverInv

LEMMA BeginStep ==
    ASSUME FailoverInv, NEW c \in Callers, Begin(c)
    PROVE  FailoverInv'
<1> USE DEF FailoverInv
<1>1. FailoverTypeOK'
  BY DEF Begin, FailoverTypeOK
<1>2. offset[c] = 0 /\ \A d \in Callers \ {c} : start'[d] = start[d] /\ steady'[d] = steady[d] /\ trip'[d] = trip[d]
  BY DEF Begin, Unbegun, FailoverTypeOK
<1>3. PassedFailed'
  BY <1>2 DEF Begin, PassedFailed, FailoverTypeOK, Visit
<1>4. SteadyWorks'
  BY DEF Begin, SteadyWorks, FailoverTypeOK
<1>5. ReturnsLast' /\ OneShot' /\ Unbegun' /\ NeverUnsendable'
  BY DEF Begin, ReturnsLast, OneShot, Unbegun, NeverUnsendable, LastTry, FailoverTypeOK
<1> QED
  BY <1>1, <1>3, <1>4, <1>5

LEMMA SendStep ==
    ASSUME FailoverInv, NEW c \in Callers, Send(c)
    PROVE  FailoverInv'
<1> USE DEF FailoverInv
<1>1. Index(c) \in Upstreams /\ Index(c) = Visit(c, offset[c])
  BY IndexIsUpstream
<1>2. ~(offset[c] > 0 /\ req[c].body = "stream")
  BY DEF OneShot, Retryable, FailoverTypeOK, Upstreams
<1>3. PICK o \in IF Index(c) \in working THEN {"ok"} ELSE {"status", "error"} :
         /\ result' = [result EXCEPT ![c] = o]
         /\ tried' = [tried EXCEPT ![c] = @ \cup {Index(c)}]
         /\ trip' = [trip EXCEPT ![c] = "settle"]
         /\ UNCHANGED <<preferred, working, req, start, offset, steady, changes>>
  BY <1>2 DEF Send
<1>4. FailoverTypeOK'
  BY <1>1, <1>3 DEF FailoverTypeOK
<1>5. o # "ok" => Index(c) \notin steady[c]
  BY <1>3 DEF SteadyWorks
<1>6. PassedFailed'
  BY <1>1, <1>3, <1>5 DEF PassedFailed, FailoverTypeOK, Visit, Upstreams
<1>7. SteadyWorks' /\ ReturnsLast' /\ OneShot' /\ Unbegun' /\ NeverUnsendable'
  BY <1>3 DEF SteadyWorks, ReturnsLast, OneShot, Unbegun, NeverUnsendable, LastTry, FailoverTypeOK
<1> QED
  BY <1>4, <1>6, <1>7

LEMMA ReturnStep ==
    ASSUME FailoverInv, NEW c \in Callers, Return(c)
    PROVE  FailoverInv'
<1> USE DEF FailoverInv
<1>1. Index(c) \in Upstreams
  BY IndexIsUpstream
<1>2. FailoverTypeOK'
  BY <1>1 DEF Return, Choose, FailoverTypeOK
<1>3. PassedFailed'
  BY DEF Return, PassedFailed, FailoverTypeOK, Visit
<1>4. ReturnsLast'
  BY DEF Return, ReturnsLast, LastTry, FailoverTypeOK
<1>5. SteadyWorks' /\ OneShot' /\ Unbegun' /\ NeverUnsendable'
  BY DEF Return, SteadyWorks, OneShot, Unbegun, NeverUnsendable, FailoverTypeOK
<1> QED
  BY <1>2, <1>3, <1>4, <1>5

LEMMA RetryStep ==
    ASSUME FailoverInv, NEW c \in Callers, Retry(c)
    PROVE  FailoverInv'
<1> USE DEF FailoverInv, Following
<1>0. N \in Nat /\ offset \in [Callers -> 0 .. N - 1]
  BY FailoverAssumption DEF FailoverTypeOK, Upstreams
<1>1. /\ offset' = [offset EXCEPT ![c] = @ + 1] /\ trip' = [trip EXCEPT ![c] = "send"]
      /\ trip[c] = "settle" /\ result[c] # "ok" /\ Retryable(req[c]) /\ offset[c] < N - 1
      /\ UNCHANGED <<preferred, working, req, start, result, tried, steady, changes>>
  BY <1>0 DEF Retry, LastTry
<1>2. FailoverTypeOK'
  BY <1>0, <1>1 DEF FailoverTypeOK, Upstreams
<1>3. PassedFailed'
  BY <1>0, <1>1 DEF PassedFailed, FailoverTypeOK, Visit
<1>4. ReturnsLast' /\ OneShot' /\ Unbegun'
  BY <1>0, <1>1 DEF ReturnsLast, OneShot, Unbegun, LastTry, FailoverTypeOK
<1>5. SteadyWorks' /\ NeverUnsendable'
  BY <1>1 DEF SteadyWorks, NeverUnsendable
<1> QED
  BY <1>2, <1>3, <1>4, <1>5

LEMMA ChangeStep ==
    ASSUME FailoverInv, NEW u \in Upstreams, Change(u)
    PROVE  FailoverInv'
<1> USE DEF FailoverInv
<1>1. working' \subseteq Upstreams /\ steady' = [c \in Callers |-> steady[c] \cap working']
  BY DEF Change, FailoverTypeOK
<1>2. FailoverTypeOK'
  BY <1>1, FailoverAssumption DEF Change, callVars, FailoverTypeOK
<1>3. PassedFailed' /\ SteadyWorks'
  BY <1>1 DEF Change, callVars, PassedFailed, SteadyWorks, FailoverTypeOK, Visit
<1>4. ReturnsLast' /\ OneShot' /\ Unbegun' /\ NeverUnsendable'
  BY DEF Change, callVars, ReturnsLast, OneShot, Unbegun, NeverUnsendable, LastTry
<1> QED
  BY <1>2, <1>3, <1>4

LEMMA FailoverStep == FailoverInv /\ [FailoverNext]_failoverVars => FailoverInv'
<1> SUFFICES ASSUME FailoverInv, [FailoverNext]_failoverVars PROVE FailoverInv'
  OBVIOUS
<1>1. CASE UNCHANGED failoverVars
  BY <1>1 DEF failoverVars, callVars, FailoverInv, FailoverTypeOK, PassedFailed, SteadyWorks,
              ReturnsLast, OneShot, Unbegun, NeverUnsendable, LastTry, Visit
<1> QED
  BY <1>1, BeginStep, SendStep, ReturnStep, RetryStep, ChangeStep
     DEF FailoverNext, RoundTrip, Returned

-----------------------------------------------------------------------------
(* The invariant holds of every behaviour of the transport.                *)
THEOREM FailoverInvariant == FailoverSpec => []FailoverInv
BY FailoverStart, FailoverStep, PTL DEF FailoverSpec

(* Type correctness *)
THEOREM FailoverTypesHold == FailoverSpec => []FailoverTypeOK
<1>1. FailoverInv => FailoverTypeOK
  BY DEF FailoverInv
<1> QED
  BY <1>1, FailoverInvariant, PTL

(* A GET, HEAD or OPTIONS request fails only if no upstream worked all the *)
(* while, whoever moves the preference meanwhile.                          *)
THEOREM FailsAlone == FailoverSpec => []FailsOnlyAlone
<1>1. FailoverInv => FailsOnlyAlone
  <2> SUFFICES ASSUME FailoverInv, NEW c \in Callers, trip[c] = "returned",
                      result[c] # "ok", SafeToRepeat(req[c]), NEW u \in steady[c]
               PROVE  FALSE
    BY DEF FailsOnlyAlone
  <2> USE DEF FailoverInv
  <2>0. Retryable(req[c])
    BY DEF SafeToRepeat, Retryable
  <2>1. offset[c] = N - 1 /\ N \in Nat \ {0, 1}
    BY <2>0, FailoverAssumption DEF ReturnsLast, LastTry
  <2>2. u \in Upstreams /\ start[c] \in Upstreams
    BY DEF FailoverTypeOK
  <2>3. PICK k \in 0 .. N - 1 : Visit(c, k) = u
    BY <2>2, RoundReachesAll DEF Visit
  <2> QED
    BY <2>1, <2>3 DEF PassedFailed
<1> QED
  BY <1>1, FailoverInvariant, PTL

(* A body that can be read once is sent once, and its failure is the       *)
(* upstream's.                                                             *)
THEOREM BodiesSendable == FailoverSpec => []NeverUnsendable
<1>1. FailoverInv => NeverUnsendable
  BY DEF FailoverInv
<1> QED
  BY <1>1, FailoverInvariant, PTL

-----------------------------------------------------------------------------
(*****************************************************************************)
(* Settings                                                                  *)
(*****************************************************************************)

(* A list of entrances without empty, repeated or equivalent ones          *)
Clean(urls) ==
    /\ urls \in Seq(Addresses)
    /\ \A i, j \in DOMAIN urls : i < j => urls[i] # urls[j] /\ <<urls[i], urls[j]>> \notin Same

(* What the program holds: Checked with a url *)
Valid ==
    {cfg \in [password : Passwords \cup {""}, urls : Seq(Addresses), url : Addresses, mode : Modes] :
        Clean(cfg.urls) /\ (cfg.urls # <<>> => cfg.url = cfg.urls[1])}

-----------------------------------------------------------------------------
(* Normalized *)

(* Induction, for a set of numbers *)
LEMMA NumberStep ==
    ASSUME NEW S, 0 \in S, \A n \in Nat : n \in S => n + 1 \in S
    PROVE  \A n \in Nat : n \in S
<1> DEFINE T == Nat \ S
<1>1. SUFFICES ASSUME T # {}
               PROVE  FALSE
  OBVIOUS
<1>2. PICK i \in T : \A j \in T : ~ (<<j, i>> \in OpToRel(<, Nat))
  BY <1>1, NatLessThanWellFounded, WFMin
<1>3. \A j \in T : ~(j < i)
  BY <1>2 DEF OpToRel
<1>4. i \in Nat \ {0} /\ i \notin S
  BY <1>2
<1>5. i - 1 \in Nat /\ i - 1 < i /\ (i - 1) + 1 = i
  BY <1>4
<1>6. i - 1 \in S
  BY <1>3, <1>5
<1> QED
  BY <1>4, <1>5, <1>6

(* The lists kept of the first n urls *)
KeptOf(urls, Top, kept) ==
    kept = [n \in 0 .. Top |-> IF n = 0 THEN <<>> ELSE Keep(kept[n - 1], urls[n])]

LEMMA KeptExists ==
    ASSUME NEW urls, NEW Top \in Nat
    PROVE  \E kept : KeptOf(urls, Top, kept)
<1> DEFINE S == {m \in Nat : \E kept : KeptOf(urls, m, kept)}
<1>1. 0 \in S
  <2> DEFINE g == [n \in 0 .. 0 |-> <<>>]
  <2>1. \A n \in 0 .. 0 : n = 0
    OBVIOUS
  <2>2. KeptOf(urls, 0, g)
    BY <2>1 DEF KeptOf
  <2> QED
    BY <2>2
<1>2. ASSUME NEW m \in Nat, m \in S
      PROVE  m + 1 \in S
  <2>1. PICK f : KeptOf(urls, m, f)
    BY <1>2
  <2> DEFINE g == [n \in 0 .. m + 1 |-> IF n <= m THEN f[n] ELSE Keep(f[m], urls[m + 1])]
             h == [n \in 0 .. m + 1 |-> IF n = 0 THEN <<>> ELSE Keep(g[n - 1], urls[n])]
  <2>2. ASSUME NEW n \in 0 .. m + 1
        PROVE  g[n] = h[n]
    <3>1. CASE n = 0
      BY <2>1, <3>1 DEF KeptOf
    <3>2. CASE n # 0 /\ n <= m
      <4>1. n \in 0 .. m /\ n - 1 \in 0 .. m + 1 /\ n - 1 <= m
        BY <3>2
      <4>2. f[n] = Keep(f[n - 1], urls[n])
        BY <2>1, <3>2, <4>1 DEF KeptOf
      <4>3. g[n] = f[n] /\ g[n - 1] = f[n - 1]
        BY <3>2, <4>1
      <4> QED
        BY <3>2, <4>2, <4>3
    <3>3. CASE n = m + 1
      <4>1. m \in 0 .. m + 1 /\ n - 1 = m /\ n # 0 /\ ~(n <= m)
        BY <3>3
      <4>2. g[m] = f[m] /\ g[n] = Keep(f[m], urls[m + 1])
        BY <4>1
      <4> QED
        BY <3>3, <4>1, <4>2
    <3> QED
      BY <3>1, <3>2, <3>3
  <2>3. KeptOf(urls, m + 1, g)
    BY <2>2 DEF KeptOf
  <2>4. m + 1 \in Nat
    OBVIOUS
  <2> HIDE DEF g
  <2> QED
    BY <2>3, <2>4
<1> HIDE DEF S
<1>3. Top \in S
  BY <1>1, <1>2, NumberStep
<1> QED
  BY <1>3 DEF S

LEMMA NormalizedIs ==
    ASSUME NEW urls, Len(urls) \in Nat
    PROVE  \E kept : /\ Normalized(urls) = kept[Len(urls)]
                     /\ kept[0] = <<>>
                     /\ \A n \in Nat : n + 1 <= Len(urls) => kept[n + 1] = Keep(kept[n], urls[n + 1])
<1> DEFINE kept == CHOOSE f : KeptOf(urls, Len(urls), f)
<1>1. KeptOf(urls, Len(urls), kept)
  BY KeptExists
<1>2. Normalized(urls) = kept[Len(urls)]
  BY DEF Normalized, KeptOf
<1> HIDE DEF kept
<1>3. kept[0] = <<>>
  <2>1. 0 \in 0 .. Len(urls)
    OBVIOUS
  <2> QED
    BY <1>1, <2>1 DEF KeptOf
<1>4. ASSUME NEW n \in Nat, n + 1 <= Len(urls)
      PROVE  kept[n + 1] = Keep(kept[n], urls[n + 1])
  <2>1. n + 1 \in 0 .. Len(urls) /\ n + 1 # 0 /\ (n + 1) - 1 = n
    BY <1>4
  <2> QED
    BY <1>1, <2>1 DEF KeptOf
<1> QED
  BY <1>2, <1>3, <1>4

LEMMA KeepClean ==
    ASSUME NEW kept, Clean(kept), NEW u \in Addresses \cup {NoUrl}
    PROVE  Clean(Keep(kept, u))
<1>1. CASE u = NoUrl \/ Known(kept, u)
  BY <1>1 DEF Keep
<1>2. CASE ~(u = NoUrl \/ Known(kept, u))
  <2> DEFINE t == Append(kept, u)
  <2>1. kept \in Seq(Addresses) /\ u \in Addresses
    BY <1>2 DEF Clean
  <2>2. /\ t \in Seq(Addresses) /\ Len(t) = Len(kept) + 1 /\ Len(kept) \in Nat
        /\ DOMAIN kept = 1 .. Len(kept) /\ DOMAIN t = 1 .. Len(kept) + 1
        /\ t[Len(kept) + 1] = u /\ \A i \in 1 .. Len(kept) : t[i] = kept[i]
    BY <2>1
  <2>3. Keep(kept, u) = t
    BY <1>2 DEF Keep
  <2> HIDE DEF t
  <2>4. ASSUME NEW i \in DOMAIN t, NEW j \in DOMAIN t, i < j
        PROVE  t[i] # t[j] /\ <<t[i], t[j]>> \notin Same
    <3>1. i \in 1 .. Len(kept)
      BY <2>2, <2>4
    <3>2. CASE j = Len(kept) + 1
      BY <1>2, <2>2, <3>1, <3>2 DEF Known
    <3>3. CASE j # Len(kept) + 1
      <4>1. j \in 1 .. Len(kept)
        BY <2>2, <3>3
      <4> QED
        BY <2>2, <2>4, <3>1, <4>1 DEF Clean
    <3> QED
      BY <3>2, <3>3
  <2> QED
    BY <2>2, <2>3, <2>4 DEF Clean
<1> QED
  BY <1>1, <1>2

LEMMA NormalizedClean ==
    ASSUME NEW urls \in Seq(Addresses \cup {NoUrl})
    PROVE  Clean(Normalized(urls))
<1>0. Len(urls) \in Nat /\ \A n \in Nat : n + 1 <= Len(urls) => urls[n + 1] \in Addresses \cup {NoUrl}
  OBVIOUS
<1>1. PICK kept : /\ Normalized(urls) = kept[Len(urls)]
                  /\ kept[0] = <<>>
                  /\ \A n \in Nat : n + 1 <= Len(urls) => kept[n + 1] = Keep(kept[n], urls[n + 1])
  BY <1>0, NormalizedIs
<1> DEFINE S == {n \in Nat : n <= Len(urls) => Clean(kept[n])}
<1>2. 0 \in S
  <2>1. kept[0] \in Seq(Addresses) /\ DOMAIN kept[0] = {}
    BY <1>1
  <2>2. Clean(kept[0])
    BY <2>1 DEF Clean
  <2> QED
    BY <2>2
<1>3. ASSUME NEW n \in Nat, n \in S
      PROVE  n + 1 \in S
  <2>1. SUFFICES ASSUME n + 1 <= Len(urls)
                 PROVE  Clean(kept[n + 1])
    OBVIOUS
  <2>2. n <= Len(urls)
    BY <1>0, <2>1
  <2>3. Clean(kept[n])
    BY <1>3, <2>2
  <2>4. urls[n + 1] \in Addresses \cup {NoUrl} /\ kept[n + 1] = Keep(kept[n], urls[n + 1])
    BY <1>0, <1>1, <2>1
  <2> QED
    BY <2>3, <2>4, KeepClean
<1> HIDE DEF S
<1>4. Len(urls) \in S
  BY <1>0, <1>2, <1>3, NumberStep
<1> QED
  BY <1>0, <1>1, <1>4 DEF S

(* What is clean stays as it is: normalize is idempotent. *)
LEMMA NormalizedKeeps ==
    ASSUME NEW urls, Clean(urls)
    PROVE  Normalized(urls) = urls
<1>0. urls \in Seq(Addresses) /\ Len(urls) \in Nat /\ DOMAIN urls = 1 .. Len(urls)
  BY DEF Clean
<1>1. PICK kept : /\ Normalized(urls) = kept[Len(urls)]
                  /\ kept[0] = <<>>
                  /\ \A n \in Nat : n + 1 <= Len(urls) => kept[n + 1] = Keep(kept[n], urls[n + 1])
  BY <1>0, NormalizedIs
<1> DEFINE Copied(s, n) == /\ s \in Seq(Addresses) /\ Len(s) = n
                           /\ \A i \in 1 .. n : s[i] = urls[i]
           S == {n \in Nat : n <= Len(urls) => Copied(kept[n], n)}
<1>2. 0 \in S
  <2>1. kept[0] \in Seq(Addresses) /\ Len(kept[0]) = 0 /\ 1 .. 0 = {}
    BY <1>1
  <2>2. Copied(kept[0], 0)
    BY <2>1
  <2> HIDE DEF Copied
  <2> QED
    BY <2>2
<1>3. ASSUME NEW n \in Nat, n \in S
      PROVE  n + 1 \in S
  <2>1. SUFFICES ASSUME n + 1 <= Len(urls)
                 PROVE  Copied(kept[n + 1], n + 1)
    OBVIOUS
  <2>2. n <= Len(urls) /\ n + 1 \in DOMAIN urls
    BY <1>0, <2>1
  <2>3. Copied(kept[n], n)
    BY <1>3, <2>2
  <2>4. urls[n + 1] \in Addresses /\ kept[n + 1] = Keep(kept[n], urls[n + 1])
    BY <1>0, <1>1, <2>1, <2>2
  <2>5. urls[n + 1] # NoUrl
    BY <2>4, SettingsAssumption
  <2>6. ~Known(kept[n], urls[n + 1])
    <3>1. ASSUME NEW i \in DOMAIN kept[n]
          PROVE  kept[n][i] # urls[n + 1] /\ <<kept[n][i], urls[n + 1]>> \notin Same
      <4>1. i \in 1 .. n
        BY <2>3, <3>1
      <4>2. kept[n][i] = urls[i] /\ i \in DOMAIN urls /\ i < n + 1
        BY <1>0, <2>1, <2>3, <4>1
      <4> QED
        BY <2>2, <4>2 DEF Clean
    <3> QED
      BY <3>1 DEF Known
  <2>7. kept[n + 1] = Append(kept[n], urls[n + 1])
    BY <2>4, <2>5, <2>6 DEF Keep
  <2> QED
    BY <2>3, <2>4, <2>7
<1> HIDE DEF S
<1>4. Len(urls) \in S
  BY <1>0, <1>2, <1>3, NumberStep
<1>5. Copied(kept[Len(urls)], Len(urls))
  BY <1>0, <1>4 DEF S
<1>6. kept[Len(urls)] = urls
  BY <1>0, <1>5
<1> QED
  BY <1>1, <1>6

-----------------------------------------------------------------------------
(* What a text means, and what is written reads back *)

(* The fields of what the program holds *)
LEMMA ValidFields ==
    ASSUME NEW c \in Valid
    PROVE  /\ c.password \in Passwords \cup {""} /\ c.mode \in Modes
           /\ c.url \in Addresses /\ c.urls \in Seq(Addresses)
           /\ Clean(c.urls) /\ (c.urls # <<>> => c.url = c.urls[1])
<1>1. c \in [password : Passwords \cup {""}, urls : Seq(Addresses), url : Addresses, mode : Modes]
  BY DEF Valid
<1>2. Clean(c.urls) /\ (c.urls # <<>> => c.url = c.urls[1])
  BY DEF Valid
<1> QED
  BY <1>1, <1>2

LEMMA ValidRecord ==
    ASSUME NEW password \in Passwords \cup {""}, NEW mode \in Modes, NEW url \in Addresses,
           NEW urls, Clean(urls), urls # <<>> => url = urls[1]
    PROVE  [password |-> password, urls |-> urls, url |-> url, mode |-> mode] \in Valid
BY DEF Valid, Clean

LEMMA SingleIs ==
    ASSUME NEW S, NEW u \in S
    PROVE  <<u>> \in Seq(S)
OBVIOUS

LEMMA HeadIs ==
    ASSUME NEW S, NEW s \in Seq(S), s # <<>>
    PROVE  s[1] \in S
OBVIOUS

LEMMA One ==
    ASSUME NEW u \in Addresses
    PROVE  Clean(<<u>>)
<1>1. <<u>> \in Seq(Addresses) /\ DOMAIN <<u>> = 1 .. 1
  OBVIOUS
<1>2. \A i, j \in 1 .. 1 : ~(i < j)
  OBVIOUS
<1> QED
  BY <1>1, <1>2 DEF Clean

(* The list that Checked normalizes *)
Listed(urls, url) == IF urls = <<>> /\ url # NoUrl THEN <<url>> ELSE urls

LEMMA CheckedIs ==
    ASSUME NEW cfg, NEW urls, urls = Normalized(Listed(cfg.urls, cfg.url)),
           NEW url, url = IF urls = <<>> THEN cfg.url ELSE urls[1]
    PROVE  /\ Checked(cfg) = [password |-> cfg.password, urls |-> urls, url |-> url, mode |-> cfg.mode]
           /\ Checked(cfg).url = url
<1>1. Checked(cfg) = [password |-> cfg.password, urls |-> urls, url |-> url, mode |-> cfg.mode]
  BY DEF Checked, Listed
<1>2. [password |-> cfg.password, urls |-> urls, url |-> url, mode |-> cfg.mode].url = url
  OBVIOUS
<1> QED
  BY <1>1, <1>2

LEMMA CheckedValid ==
    ASSUME NEW cfg,
           cfg.password \in Passwords \cup {""}, cfg.mode \in Modes,
           cfg.url \in Addresses \cup {NoUrl}, cfg.urls \in Seq(Addresses \cup {NoUrl}),
           Checked(cfg).url # NoUrl
    PROVE  Checked(cfg) \in Valid
<1> DEFINE urls == Normalized(Listed(cfg.urls, cfg.url))
           url == IF urls = <<>> THEN cfg.url ELSE urls[1]
<1>1. Listed(cfg.urls, cfg.url) \in Seq(Addresses \cup {NoUrl})
  <2>1. <<cfg.url>> \in Seq(Addresses \cup {NoUrl})
    BY SingleIs
  <2> QED
    BY <2>1 DEF Listed
<1>2. Clean(urls)
  BY <1>1, NormalizedClean
<1>3. Checked(cfg) = [password |-> cfg.password, urls |-> urls, url |-> url, mode |-> cfg.mode]
      /\ url # NoUrl
  BY CheckedIs
<1> HIDE DEF urls
<1>4. urls # <<>> => urls[1] \in Addresses
  BY <1>2, HeadIs DEF Clean
<1>5. url \in Addresses /\ (urls # <<>> => url = urls[1])
  BY <1>3, <1>4
<1> HIDE DEF url
<1> QED
  BY <1>2, <1>3, <1>5, ValidRecord

LEMMA DocFields ==
    ASSUME NEW d \in Docs
    PROVE  /\ d.password \in Passwords \cup {""} /\ d.mode \in Modes /\ "" \in Modes
           /\ d.url # Missing => d.url \in Addresses \cup {NoUrl}
           /\ d.urls \in Seq(Addresses \cup {NoUrl})
<1>1. d.password \in Passwords \cup {""} /\ d.mode \in Modes
  BY DEF Docs
<1>2. d.url # Missing => d.url \in Addresses \cup {NoUrl}
  BY DEF Docs
<1>3. d.urls \in Seq(Addresses \cup {NoUrl})
  BY DEF Docs
<1>4. "" \in Modes
  BY DEF Modes
<1> QED
  BY <1>1, <1>2, <1>3, <1>4

LEMMA ParsedValid ==
    ASSUME NEW d \in Docs, Parses(d)
    PROVE  Parse(d) \in Valid /\ Parse(d).password = d.password
<1> DEFINE read == [password |-> d.password, urls |-> d.urls,
                    url |-> IF d.url = Missing THEN DefaultUrl ELSE d.url,
                    mode |-> IF d.field = "none" THEN "" ELSE d.mode]
<1>1. Parse(d) = Checked(read) /\ Parse(d).url # NoUrl
  BY DEF Parse, Parses
<1>2. /\ read.password = d.password /\ read.urls = d.urls
      /\ read.url \in Addresses \cup {NoUrl} /\ read.mode \in Modes
  BY DocFields, SettingsAssumption
<1> HIDE DEF read
<1>3. Checked(read).password = d.password
  BY <1>2 DEF Checked
<1>4. Checked(read) \in Valid
  BY <1>1, <1>2, DocFields, CheckedValid
<1> QED
  BY <1>1, <1>3, <1>4

-----------------------------------------------------------------------------
(* What is written reads back *)

(* The entrances are what validateAndNormalize makes of a configuration    *)
(* that it has already made.                                               *)
LEMMA EntrancesKept ==
    ASSUME NEW c \in Valid
    PROVE  /\ Clean(Entrances(c)) /\ Entrances(c) # <<>> /\ Entrances(c)[1] \in Addresses
           /\ Normalized(Listed(c.urls, c.url)) = Entrances(c)
<1>1. c.url \in Addresses /\ c.urls \in Seq(Addresses) /\ Clean(c.urls) /\ c.url # NoUrl
  BY ValidFields, SettingsAssumption
<1>2. CASE c.urls = <<>>
  <2>1. Listed(c.urls, c.url) = <<c.url>> /\ Entrances(c) = <<c.url>>
    BY <1>1, <1>2 DEF Listed, Entrances
  <2>2. Clean(<<c.url>>) /\ <<c.url>> # <<>> /\ <<c.url>>[1] = c.url
    BY <1>1, One
  <2> QED
    BY <1>1, <2>1, <2>2, NormalizedKeeps
<1>3. CASE c.urls # <<>>
  <2>1. Listed(c.urls, c.url) = c.urls /\ Entrances(c) = c.urls
    BY <1>3 DEF Listed, Entrances
  <2>2. c.urls[1] \in Addresses
    BY <1>1, <1>3
  <2> QED
    BY <1>1, <1>3, <2>1, <2>2, NormalizedKeeps
<1> QED
  BY <1>2, <1>3

Written(mode) == IF mode = "" THEN "off" ELSE mode

LEMMA MarshalIs ==
    ASSUME NEW c \in Valid
    PROVE  /\ Marshal(c) = [password |-> c.password, urls |-> Entrances(c), url |-> NoUrl,
                            field |-> "acceleration", mode |-> Written(c.mode),
                            text |-> c.mode = "qsv"]
           /\ Marshal(c) \in Docs
<1>1. /\ Checked(c).urls = Entrances(c) /\ Checked(c).password = c.password
      /\ Checked(c).mode = c.mode
  BY EntrancesKept DEF Checked, Listed
<1>2. Marshal(c) = [password |-> c.password, urls |-> Entrances(c), url |-> NoUrl,
                    field |-> "acceleration", mode |-> Written(c.mode), text |-> c.mode = "qsv"]
  BY <1>1, EntrancesKept DEF Marshal, IsText, Written
<1>3. Written(c.mode) \in Modes
  BY ValidFields DEF Written, Modes
<1>4. Entrances(c) \in Seq(Addresses \cup {NoUrl})
  BY EntrancesKept DEF Clean
<1>5. c.password \in Passwords \cup {""}
  BY ValidFields
<1> DEFINE e == Entrances(c)
           mode == Written(c.mode)
           text == c.mode = "qsv"
<1>6. text \in BOOLEAN
  OBVIOUS
<1> HIDE DEF e, mode, text
<1>7. [password |-> c.password, urls |-> e, url |-> NoUrl, field |-> "acceleration",
       mode |-> mode, text |-> text] \in Docs
  BY <1>3, <1>4, <1>5, <1>6 DEF Docs, e, mode
<1> QED
  BY <1>2, <1>7 DEF e, mode, text

(* Parse is the inverse of Marshal but for the list of one url and for the *)
(* empty mode.                                                             *)
LEMMA ReadsBack ==
    ASSUME NEW c \in Valid
    PROVE  /\ Marshal(c) \in Docs
           /\ Parse(Marshal(c)) = [password |-> c.password, urls |-> Entrances(c),
                                   url |-> Entrances(c)[1], mode |-> Written(c.mode)]
           /\ c.mode # "qsv" => /\ Parses(Marshal(c))
                                /\ Effect(Parse(Marshal(c))) = Effect(c)
<1> DEFINE e == Entrances(c)
           m == Marshal(c)
           read == [password |-> c.password, urls |-> e, url |-> NoUrl, mode |-> Written(c.mode)]
<1>1. Clean(e) /\ e # <<>> /\ e[1] \in Addresses
  BY EntrancesKept
<1>2. /\ m = [password |-> c.password, urls |-> e, url |-> NoUrl, field |-> "acceleration",
              mode |-> Written(c.mode), text |-> c.mode = "qsv"]
      /\ m \in Docs
  BY MarshalIs
<1> HIDE DEF e, m
<1>3. Parse(m) = Checked(read)
  <2>1. NoUrl # Missing
    BY SettingsAssumption
  <2>2. m.password = c.password /\ m.urls = e /\ m.url = NoUrl /\ m.field = "acceleration"
        /\ m.mode = Written(c.mode)
    BY <1>2
  <2> QED
    BY <2>1, <2>2 DEF Parse
<1>4. Listed(read.urls, read.url) = e
  BY DEF Listed
<1>5. Normalized(e) = e
  BY <1>1, NormalizedKeeps
<1>6. Parse(m) = [password |-> c.password, urls |-> e, url |-> e[1], mode |-> Written(c.mode)]
  BY <1>1, <1>3, <1>4, <1>5 DEF Checked, Listed
<1>7. ASSUME c.mode # "qsv"
      PROVE  Parses(m) /\ Effect(Parse(m)) = Effect(c)
  <2>1. m # Missing /\ ~m.text /\ Parse(m).url # NoUrl
    <3>1. m # Missing
      BY <1>2, SettingsAssumption
    <3>2. m.text = (c.mode = "qsv")
      BY <1>2
    <3>3. Parse(m).url = e[1]
      BY <1>6
    <3>4. e[1] # NoUrl
      BY <1>1, SettingsAssumption
    <3> QED
      BY <1>7, <3>1, <3>2, <3>3, <3>4
  <2>2. Entrances(Parse(m)) = e /\ Parse(m).password = c.password
        /\ Parse(m).mode = Written(c.mode)
    BY <1>1, <1>6 DEF Entrances
  <2>3. (Written(c.mode) = "vaapi") = (c.mode = "vaapi")
    BY DEF Written
  <2> QED
    BY <2>1, <2>2, <2>3 DEF Parses, Effect, e
<1> QED
  BY <1>2, <1>6, <1>7 DEF e, m

-----------------------------------------------------------------------------
(* The invariant *)

(* The file has the first document, or one that Save wrote. *)
KnownText == file.doc \in {Missing, First} \cup {Marshal(c) : c \in Filled}

(* One of several writers in place marks the file as hurt. *)
LoneWriter ==
    /\ renames => Writing = {}
    /\ Writing # {} /\ ~hurt => file = Empty /\ \A b1, b2 \in Writing : b1 = b2

(* A file nobody writes and nothing hurt has what was saved last. *)
LastSaved ==
    Writing = {} /\ ~hurt =>
        \/ file = Text(First) /\ acked = Parse(First)
        \/ file = Text(Marshal(acked))

SettingsInv == SettingsTypeOK /\ KnownText /\ LoneWriter /\ LastSaved

-----------------------------------------------------------------------------
(* The configurations *)

LEMMA ConfigValid ==
    ASSUME NEW c \in Configs
    PROVE  c \in Valid
<1>1. PICK d \in Bodies \cup {First} : Parses(d) /\ c = Parse(d)
  BY DEF Configs
<1> QED
  BY <1>1, ParsedValid, SettingsAssumption

LEMMA PasswordSet ==
    ASSUME NEW c \in Valid, NEW p \in Passwords
    PROVE  [c EXCEPT !.password = p] \in Valid /\ [c EXCEPT !.password = p].password = p
<1>1. /\ [c EXCEPT !.password = p].urls = c.urls /\ [c EXCEPT !.password = p].url = c.url
      /\ [c EXCEPT !.password = p].mode = c.mode /\ [c EXCEPT !.password = p].password = p
  BY DEF Valid
<1>2. [c EXCEPT !.password = p] \in
          [password : Passwords \cup {""}, urls : Seq(Addresses), url : Addresses, mode : Modes]
  BY DEF Valid
<1> QED
  BY <1>1, <1>2, ValidFields DEF Valid

LEMMA PasswordKept ==
    ASSUME NEW c \in Valid, c.password \in Passwords
    PROVE  [c EXCEPT !.password = c.password] = c
BY DEF Valid

LEMMA FilledValid ==
    ASSUME NEW c \in Filled
    PROVE  c \in Valid /\ c.password \in Passwords /\ Marshal(c) \in Docs
<1>1. PICK d \in Configs, p \in Passwords : c = [d EXCEPT !.password = p]
  BY DEF Filled
<1>2. c \in Valid /\ c.password = p
  BY <1>1, ConfigValid, PasswordSet
<1> QED
  BY <1>2, ReadsBack

LEMMA ParsedFilled ==
    ASSUME NEW d \in Bodies \cup {First}, Parses(d), NEW p \in Passwords
    PROVE  /\ [Parse(d) EXCEPT !.password = p] \in Filled
           /\ Parse(d).password # "" => Parse(d) \in Filled
<1>1. Parse(d) \in Configs
  BY DEF Configs
<1>2. Parse(d) \in Valid
  BY <1>1, ConfigValid
<1>3. [Parse(d) EXCEPT !.password = p] \in Filled
  BY <1>1 DEF Filled
<1>4. ASSUME Parse(d).password # ""
      PROVE  Parse(d) \in Filled
  <2>1. Parse(d).password \in Passwords
    BY <1>2, <1>4, ValidFields
  <2>2. [Parse(d) EXCEPT !.password = Parse(d).password] = Parse(d)
    BY <1>2, <2>1, PasswordKept
  <2> QED
    BY <1>1, <2>1, <2>2 DEF Filled
<1> QED
  BY <1>3, <1>4

LEMMA FirstFilled ==
    Parse(First) \in Filled /\ First \in Docs /\ Parses(First)
<1>1. First \in Docs /\ Parses(First) /\ First.password # ""
  BY SettingsAssumption
<1>2. Parse(First).password = First.password /\ First.password \in Passwords
  BY <1>1, ParsedValid, DocFields
<1> QED
  BY <1>1, <1>2, ParsedFilled

(* What the program runs has a password. *)
LEMMA RunPassword ==
    ASSUME SettingsTypeOK, run # Missing
    PROVE  run.password \in Passwords
<1>1. CASE run \in Filled
  BY <1>1, FilledValid
<1>2. CASE run \in {Parse(Marshal(c)) : c \in Filled}
  <2>1. PICK c \in Filled : run = Parse(Marshal(c))
    BY <1>2
  <2>2. c \in Valid /\ c.password \in Passwords
    BY FilledValid
  <2>3. run.password = c.password
    BY <2>1, <2>2, ReadsBack
  <2> QED
    BY <2>2, <2>3
<1> QED
  BY <1>1, <1>2 DEF SettingsTypeOK

LEMMA FillFilled ==
    ASSUME SettingsTypeOK, run # Missing, NEW d \in Bodies, Parses(d)
    PROVE  Fill(Parse(d)) \in Filled
BY RunPassword, ParsedFilled DEF Fill

-----------------------------------------------------------------------------
(* The invariant holds *)

LEMMA Bounds ==
    MaxSaves \in Nat /\ MaxFaults \in Nat
<1>1. {MaxSaves, MaxFaults} \subseteq Nat
  BY SettingsAssumption
<1> QED
  BY <1>1

PutType == {NoPut} \cup [at : {"save", "write"}, cfg : Filled, blank : BOOLEAN]

LEMMA SettingsStart ==
    SettingsInit => SettingsInv
<1> SUFFICES ASSUME SettingsInit
             PROVE  SettingsInv
  OBVIOUS
<1>1. file = Text(First) /\ Text(First).doc = First /\ acked = Parse(First) /\ run = acked
  BY DEF SettingsInit, Text
<1>2. Writing = {}
  BY DEF SettingsInit, Writing, NoPut
<1>3. SettingsTypeOK
  <2>1. saves \in 0 .. MaxSaves /\ faults \in 0 .. MaxFaults
    BY Bounds DEF SettingsInit
  <2>2. /\ put \in [Browsers -> PutType]
        /\ run = Missing => put = [b \in Browsers |-> NoPut]
        /\ login \in [Browsers -> BOOLEAN]
    BY DEF SettingsInit, PutType
  <2>3. {renames, hurt} \subseteq BOOLEAN
    BY DEF SettingsInit
  <2> QED
    BY <1>1, <2>1, <2>2, <2>3, FirstFilled DEF SettingsTypeOK, PutType
<1>4. KnownText
  BY <1>1 DEF KnownText
<1>5. LoneWriter /\ LastSaved
  BY <1>1, <1>2 DEF LoneWriter, LastSaved
<1> QED
  BY <1>3, <1>4, <1>5 DEF SettingsInv

(* The facts about a document on disk *)
LEMMA TextIs ==
    ASSUME NEW d
    PROVE  Text(d).doc = d /\ Text(d).length = 2 + Len(d.urls) /\ Empty.doc = Missing /\ Empty.length = 0
<1>1. Empty.doc = Missing /\ Empty.length = 0
  BY DEF Empty
<1>2. Text(d) = [doc |-> d, length |-> Length(d)]
  BY DEF Text
<1>3. Text(d).doc = d /\ Text(d).length = Length(d)
  BY <1>2
<1> QED
  BY <1>1, <1>3 DEF Length

LEMMA OverEmpty ==
    ASSUME NEW c \in Filled
    PROVE  Over(Empty, Text(Marshal(c))) = Text(Marshal(c))
<1>1. Marshal(c) \in Docs
  BY FilledValid
<1>2. Marshal(c).urls \in Seq(Addresses \cup {NoUrl})
  BY <1>1, DocFields
<1>3. Len(Marshal(c).urls) \in Nat
  BY <1>2
<1> QED
  BY <1>3, TextIs DEF Over

(* A PUT that is under way *)
LEMMA PutIs ==
    ASSUME SettingsTypeOK, NEW b \in Browsers, put[b].at \in {"save", "write"}
    PROVE  /\ put[b] \in [at : {"save", "write"}, cfg : Filled, blank : BOOLEAN]
           /\ put[b].cfg \in Filled
           /\ run # Missing
<1>1. put[b] # NoPut
  BY DEF NoPut
<1>2. put[b] \in [at : {"save", "write"}, cfg : Filled, blank : BOOLEAN]
  BY <1>1 DEF SettingsTypeOK
<1>3. run # Missing
  BY <1>1 DEF SettingsTypeOK
<1> QED
  BY <1>2, <1>3

LEMMA LoginStep ==
    ASSUME SettingsInv, NEW b \in Browsers, Login(b) \/ Logout(b)
    PROVE  SettingsInv'
<1>1. /\ login' \in [Browsers -> BOOLEAN]
      /\ UNCHANGED <<file, renames, run, put, saves, faults, acked, hurt>>
  BY DEF Login, Logout, SettingsInv, SettingsTypeOK, settingsBounds, settingsHistory
<1>2. SettingsTypeOK'
  BY <1>1 DEF SettingsInv, SettingsTypeOK
<1> QED
  BY <1>1, <1>2 DEF SettingsInv, KnownText, LoneWriter, LastSaved, Writing

LEMMA PutStep ==
    ASSUME SettingsInv, NEW b \in Browsers, NEW d \in Bodies, Put(b, d)
    PROVE  SettingsInv'
<1> DEFINE new == [at |-> "save", cfg |-> Fill(Parse(d)), blank |-> d.password = ""]
<1>1. /\ run # Missing /\ put[b].at = "idle" /\ saves < MaxSaves /\ Parses(d)
      /\ put' = [put EXCEPT ![b] = new] /\ saves' = saves + 1
      /\ UNCHANGED <<file, renames, run, login, faults, acked, hurt>>
  BY DEF Put, settingsHistory
<1>2. Fill(Parse(d)) \in Filled
  BY <1>1, FillFilled DEF SettingsInv
<1>3. new \in PutType /\ new.at = "save"
  <2>1. (d.password = "") \in BOOLEAN
    OBVIOUS
  <2> QED
    BY <1>2, <2>1 DEF PutType
<1> HIDE DEF new
<1>4. put' \in [Browsers -> PutType]
  BY <1>1, <1>3 DEF SettingsInv, SettingsTypeOK, PutType
<1>5. saves' \in 0 .. MaxSaves
  BY <1>1, Bounds DEF SettingsInv, SettingsTypeOK
<1>6. SettingsTypeOK'
  BY <1>1, <1>4, <1>5 DEF SettingsInv, SettingsTypeOK, PutType
<1>7. Writing' = Writing
  BY <1>1, <1>3 DEF Writing, SettingsInv, SettingsTypeOK
<1> QED
  BY <1>1, <1>6, <1>7 DEF SettingsInv, KnownText, LoneWriter, LastSaved

LEMMA SaveRenamesStep ==
    ASSUME SettingsInv, NEW b \in Browsers, SaveRenames(b)
    PROVE  SettingsInv'
<1>1. /\ put[b].at = "save" /\ renames
      /\ file' = Text(Marshal(put[b].cfg)) /\ acked' = put[b].cfg /\ hurt' = FALSE
      /\ put' = [put EXCEPT ![b] = NoPut]
      /\ UNCHANGED <<renames, run, login, saves, faults>>
  BY DEF SaveRenames, settingsBounds
<1>2. put[b].cfg \in Filled /\ run # Missing
  BY <1>1, PutIs DEF SettingsInv
<1>3. Writing' = {}
  <2>1. Writing = {}
    BY <1>1 DEF SettingsInv, LoneWriter
  <2> QED
    BY <1>1, <2>1 DEF Writing, NoPut, SettingsInv, SettingsTypeOK
<1>4. put' \in [Browsers -> PutType]
  BY <1>1 DEF SettingsInv, SettingsTypeOK, PutType
<1>5. SettingsTypeOK'
  BY <1>1, <1>2, <1>4, TextIs DEF SettingsInv, SettingsTypeOK, PutType
<1>6. KnownText'
  BY <1>1, <1>2, TextIs DEF KnownText
<1> QED
  BY <1>1, <1>3, <1>5, <1>6 DEF SettingsInv, LoneWriter, LastSaved

LEMMA SaveTruncatesStep ==
    ASSUME SettingsInv, NEW b \in Browsers, SaveTruncates(b)
    PROVE  SettingsInv'
<1>1. /\ put[b].at = "save" /\ ~renames /\ file' = Empty /\ hurt' = (Writing # {})
      /\ put' = [put EXCEPT ![b].at = "write"]
      /\ UNCHANGED <<renames, run, login, saves, faults, acked>>
  BY DEF SaveTruncates, settingsBounds
<1>2. put[b] \in [at : {"save", "write"}, cfg : Filled, blank : BOOLEAN] /\ run # Missing
  BY <1>1, PutIs DEF SettingsInv
<1>3. put' \in [Browsers -> PutType]
  <2>1. [put[b] EXCEPT !.at = "write"] \in [at : {"save", "write"}, cfg : Filled, blank : BOOLEAN]
    BY <1>2
  <2> QED
    BY <1>1, <2>1 DEF SettingsInv, SettingsTypeOK, PutType
<1>4. Writing' = Writing \cup {b}
  <2>1. put'[b].at = "write" /\ \A a \in Browsers \ {b} : put'[a] = put[a]
    BY <1>1, <1>2 DEF SettingsInv, SettingsTypeOK
  <2> QED
    BY <2>1 DEF Writing
<1>5. SettingsTypeOK'
  <2>1. hurt' \in BOOLEAN
    BY <1>1
  <2> QED
    BY <1>1, <1>2, <1>3, <2>1, TextIs DEF SettingsInv, SettingsTypeOK, PutType
<1>6. KnownText'
  BY <1>1, TextIs DEF KnownText
<1>7. LoneWriter' /\ LastSaved'
  BY <1>1, <1>4 DEF LoneWriter, LastSaved
<1> QED
  BY <1>5, <1>6, <1>7 DEF SettingsInv

LEMMA SaveWritesStep ==
    ASSUME SettingsInv, NEW b \in Browsers, SaveWrites(b)
    PROVE  SettingsInv'
<1> DEFINE text == Text(Marshal(put[b].cfg))
<1>1. /\ put[b].at = "write" /\ file' = Over(file, text) /\ acked' = put[b].cfg
      /\ put' = [put EXCEPT ![b] = NoPut]
      /\ UNCHANGED <<renames, run, login, saves, faults, hurt>>
  BY DEF SaveWrites, settingsBounds
<1>2. put[b].cfg \in Filled /\ run # Missing
  BY <1>1, PutIs DEF SettingsInv
<1>3. put' \in [Browsers -> PutType]
  BY <1>1 DEF SettingsInv, SettingsTypeOK, PutType
<1>4. Writing' = Writing \ {b} /\ b \in Writing
  BY <1>1 DEF Writing, NoPut, SettingsInv, SettingsTypeOK
<1>5. file' = text \/ file'.doc = Missing
  BY <1>1 DEF Over
<1>6. text.doc = Marshal(put[b].cfg)
  BY TextIs
<1>7. ASSUME ~hurt
      PROVE  file' = text /\ Writing' = {}
  BY <1>1, <1>2, <1>4, <1>7, OverEmpty DEF SettingsInv, LoneWriter
<1> HIDE DEF text
<1>8. SettingsTypeOK'
  <2>1. file'.doc # Missing => file' = Text(file'.doc)
    BY <1>5, <1>6 DEF text
  <2> QED
    BY <1>1, <1>2, <1>3, <2>1 DEF SettingsInv, SettingsTypeOK, PutType
<1>9. KnownText'
  BY <1>2, <1>5, <1>6 DEF KnownText
<1>10. LoneWriter'
  BY <1>1, <1>4, <1>7 DEF SettingsInv, LoneWriter
<1>11. LastSaved'
  BY <1>1, <1>7 DEF LastSaved, text
<1> QED
  BY <1>8, <1>9, <1>10, <1>11 DEF SettingsInv

LEMMA SaveFailsStep ==
    ASSUME SettingsInv, NEW b \in Browsers, SaveFails(b)
    PROVE  SettingsInv'
<1>1. /\ put[b].at = "write" /\ faults < MaxFaults /\ file'.doc = Missing /\ hurt' = TRUE
      /\ put' = [put EXCEPT ![b] = NoPut] /\ faults' = faults + 1
      /\ UNCHANGED <<renames, run, login, saves, acked>>
  BY DEF SaveFails, Over
<1>2. run # Missing
  BY <1>1, PutIs DEF SettingsInv
<1>3. put' \in [Browsers -> PutType]
  BY <1>1 DEF SettingsInv, SettingsTypeOK, PutType
<1>4. Writing' = Writing \ {b}
  BY <1>1 DEF Writing, NoPut, SettingsInv, SettingsTypeOK
<1>5. faults' \in 0 .. MaxFaults
  BY <1>1, Bounds DEF SettingsInv, SettingsTypeOK
<1>6. SettingsTypeOK'
  BY <1>1, <1>2, <1>3, <1>5 DEF SettingsInv, SettingsTypeOK, PutType
<1> QED
  BY <1>1, <1>4, <1>6 DEF SettingsInv, KnownText, LoneWriter, LastSaved

LEMMA ExitStep ==
    ASSUME SettingsInv, Exit
    PROVE  SettingsInv'
<1>1. /\ faults < MaxFaults /\ run' = Missing /\ login' = [b \in Browsers |-> FALSE]
      /\ put' = [b \in Browsers |-> NoPut] /\ hurt' = (hurt \/ Writing # {}) /\ faults' = faults + 1
      /\ UNCHANGED <<file, renames, saves, acked>>
  BY DEF Exit
<1>2. Writing' = {}
  BY <1>1 DEF Writing, NoPut
<1>3. faults' \in 0 .. MaxFaults
  BY <1>1, Bounds DEF SettingsInv, SettingsTypeOK
<1>4. hurt' \in BOOLEAN /\ login' \in [Browsers -> BOOLEAN] /\ put' \in [Browsers -> PutType]
  BY <1>1 DEF PutType
<1>5. SettingsTypeOK'
  BY <1>1, <1>3, <1>4 DEF SettingsInv, SettingsTypeOK, PutType
<1> QED
  BY <1>1, <1>2, <1>5 DEF SettingsInv, KnownText, LoneWriter, LastSaved

LEMMA StartStep ==
    ASSUME SettingsInv, Start
    PROVE  SettingsInv'
<1>1. /\ run = Missing /\ Parses(file.doc) /\ run' = Parse(file.doc)
      /\ UNCHANGED <<file, renames, login, put, saves, faults, acked, hurt>>
  BY DEF Start, settingsBounds, settingsHistory
<1>2. run' \in Filled \cup {Parse(Marshal(c)) : c \in Filled}
  <2>1. file.doc \in {First} \cup {Marshal(c) : c \in Filled}
    BY <1>1 DEF SettingsInv, KnownText, Parses
  <2>2. CASE file.doc = First
    BY <1>1, <2>2, FirstFilled
  <2>3. CASE file.doc \in {Marshal(c) : c \in Filled}
    BY <1>1, <2>3
  <2> QED
    BY <2>1, <2>2, <2>3
<1>3. SettingsTypeOK'
  BY <1>1, <1>2 DEF SettingsInv, SettingsTypeOK
<1> QED
  BY <1>1, <1>3 DEF SettingsInv, KnownText, LoneWriter, LastSaved, Writing

LEMMA RepairStep ==
    ASSUME SettingsInv, Repair
    PROVE  SettingsInv'
<1>1. /\ run = Missing /\ file' = Text(First) /\ acked' = Parse(First) /\ hurt' = FALSE
      /\ UNCHANGED <<renames, run, login, put, saves, faults>>
  BY DEF Repair, settingsBounds
<1>2. Writing' = {}
  BY <1>1 DEF SettingsInv, SettingsTypeOK, Writing, NoPut
<1>3. SettingsTypeOK'
  BY <1>1, TextIs, FirstFilled DEF SettingsInv, SettingsTypeOK
<1> QED
  BY <1>1, <1>2, <1>3, TextIs DEF SettingsInv, KnownText, LoneWriter, LastSaved

LEMMA SettingsStep ==
    SettingsInv /\ [SettingsNext]_settingsVars => SettingsInv'
<1> SUFFICES ASSUME SettingsInv, [SettingsNext]_settingsVars
             PROVE  SettingsInv'
  OBVIOUS
<1>1. CASE UNCHANGED settingsVars
  <2>1. UNCHANGED <<file, renames, run, login, put, saves, faults, acked, hurt>>
    BY <1>1 DEF settingsVars, settingsBounds, settingsHistory
  <2>2. SettingsTypeOK'
    BY <2>1 DEF SettingsInv, SettingsTypeOK
  <2> QED
    BY <2>1, <2>2 DEF SettingsInv, KnownText, LoneWriter, LastSaved, Writing
<1>2. ASSUME NEW b \in Browsers,
             \/ Login(b) \/ Logout(b)
             \/ \E d \in Bodies : Put(b, d)
             \/ SaveRenames(b) \/ SaveTruncates(b) \/ SaveWrites(b) \/ SaveFails(b)
      PROVE  SettingsInv'
  BY <1>2, LoginStep, PutStep, SaveRenamesStep, SaveTruncatesStep, SaveWritesStep, SaveFailsStep
<1> QED
  BY <1>1, <1>2, ExitStep, StartStep, RepairStep DEF SettingsNext

LEMMA SettingsInvHolds ==
    SettingsSpec => []SettingsInv
BY SettingsStart, SettingsStep, PTL DEF SettingsSpec

(* Every variable has its type: a PUT under way has a configuration with a *)
(* password, and what a start runs is the first document or one that       *)
(* config.Save wrote (config.go and dashboard.go).                         *)
THEOREM SettingsTypesHold ==
    SettingsSpec => []SettingsTypeOK
<1>1. SettingsInv => SettingsTypeOK
  BY DEF SettingsInv
<1> QED
  BY <1>1, SettingsInvHolds, PTL

(* The next start runs what was saved last: what config.Save wrote reads   *)
(* back, through UnmarshalJSON and validateAndNormalize, to the same       *)
(* password, entrances and acceleration, for every text that was saved,    *)
(* every list of urls and every equivalence of urls, and the file is whole *)
(* unless writes in place overlapped or were cut short.                    *)
THEOREM SavedConfigurationRuns ==
    SettingsSpec => []SavedIsRun
<1>1. ASSUME SettingsInv
      PROVE  SavedIsRun
  <2>1. SUFFICES ASSUME Writing = {}, ~hurt, acked.mode # "qsv"
                 PROVE  Parses(file.doc) /\ Effect(Parse(file.doc)) = Effect(acked)
    BY DEF SavedIsRun
  <2>2. CASE file = Text(First) /\ acked = Parse(First)
    BY <2>2, TextIs, FirstFilled
  <2>3. CASE file = Text(Marshal(acked))
    <3>1. acked \in Valid
      BY <1>1, FilledValid DEF SettingsInv, SettingsTypeOK
    <3> QED
      BY <2>1, <2>3, <3>1, TextIs, ReadsBack
  <2> QED
    BY <1>1, <2>1, <2>2, <2>3 DEF SettingsInv, LastSaved
<1> QED
  BY <1>1, SettingsInvHolds, PTL

=============================================================================
