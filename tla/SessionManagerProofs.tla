------------------------ MODULE SessionManagerProofs ------------------------
(***************************************************************************)
(* Proofs about SessionManager, for any ids, clients, requests and limit:  *)
(* ManagerInv is inductive; from it follow OwnedOnce, SessionLimit and     *)
(* ReturnsFitting.                                                         *)
(***************************************************************************)
EXTENDS SessionManager, FiniteSetTheorems, SequenceTheorems, TLAPS

-----------------------------------------------------------------------------
(* What actions do to the sessions *)

(* No session is made or lost, none changes its id, and only one that was  *)
(* started goes on to another state of its process.                        *)
SameSessions ==
    /\ sess' \in Seq(Sessions)
    /\ Len(sess') = Len(sess)
    /\ \A g \in 1 .. Len(sess) :
          /\ sess'[g].id = sess[g].id
          /\ sess'[g].proc = "failed" <=> sess[g].proc = "failed"

(* Directories stay as well. *)
SameDirs ==
    /\ SameSessions
    /\ \A g \in 1 .. Len(sess) : sess'[g].dir = sess[g].dir

(* A function on 1 .. n is a sequence of length n. *)
LEMMA SeqOfFunction ==
    ASSUME NEW S, NEW n \in Nat, NEW f \in [1 .. n -> S]
    PROVE  f \in Seq(S) /\ Len(f) = n
<1>1. f \in Seq(S)
  BY SeqDef
<1>2. 1 .. Len(f) = 1 .. n /\ Len(f) \in Nat
  BY <1>1, LenProperties
<1> QED
  BY <1>1, <1>2

LEMMA SessionType ==
    ASSUME TypeOK
    PROVE  /\ Len(sess) \in Nat
           /\ DOMAIN sess = 1 .. Len(sess)
           /\ \A g \in 1 .. Len(sess) : sess[g] \in Sessions
BY LenProperties, ElementOfSeq DEF TypeOK

(* A session replaced by one with the same id. *)
LEMMA Replaced ==
    ASSUME TypeOK, NEW g \in 1 .. Len(sess), NEW new \in Sessions,
           sess' = [sess EXCEPT ![g] = new], new.id = sess[g].id,
           new.proc = "failed" <=> sess[g].proc = "failed"
    PROVE  /\ SameSessions
           /\ sess'[g] = new
           /\ \A h \in 1 .. Len(sess) : h # g => sess'[h] = sess[h]
           /\ new.dir = sess[g].dir => SameDirs
BY ExceptSeq DEF TypeOK, SameSessions, SameDirs

(* delete, then stop outside the lock *)
LEMMA TakeOutEffect ==
    ASSUME TypeOK, NEW t \in Threads, NEW S \in SUBSET Ids, TakeOut(t, S)
    PROVE  /\ SameDirs
           /\ sessions' = [i \in Ids |-> IF i \in S THEN 0 ELSE sessions[i]]
           /\ todo' = [todo EXCEPT ![t] = {sessions[i] : i \in S \cap Present}]
           /\ {sessions[i] : i \in S \cap Present} \in SUBSET (1 .. Len(sess))
           /\ pc' = [pc EXCEPT ![t] = "stop"]
<1> DEFINE taken == {sessions[i] : i \in S \cap Present}
           new(g) == IF g \in taken
                     THEN [sess[g] EXCEPT !.play = None, !.idle = FALSE,
                                          !.trimmed = FALSE]
                     ELSE sess[g]
<1>1. \A g \in 1 .. Len(sess) : sess[g] \in Sessions
  BY SessionType
<1>2. \A g \in 1 .. Len(sess) :
         /\ new(g) \in Sessions
         /\ new(g).id = sess[g].id /\ new(g).proc = sess[g].proc
         /\ new(g).dir = sess[g].dir
  BY <1>1 DEF Sessions
<1>3. sess' = [g \in 1 .. Len(sess) |-> new(g)]
  BY SessionType DEF TakeOut, Generations
<1> HIDE DEF new
<1>4. sess' \in [1 .. Len(sess) -> Sessions]
  BY <1>2, <1>3
<1>5. sess' \in Seq(Sessions) /\ Len(sess') = Len(sess)
  BY <1>4, SessionType, SeqOfFunction
<1>6. taken \in SUBSET (1 .. Len(sess))
  BY DEF TypeOK, Present
<1> QED
  BY <1>2, <1>3, <1>5, <1>6 DEF TakeOut, Without, SameSessions, SameDirs

(* A new generation *)
LEMMA AppendEffect ==
    ASSUME TypeOK, NEW t \in Threads, MayCreate(t), arg[t] \in Args,
           NEW p \in {"running", "failed"}, sess' = Append(sess, NewSession(t, p))
    PROVE  /\ sess' \in Seq(Sessions)
           /\ Len(sess') = Len(sess) + 1
           /\ \A g \in 1 .. Len(sess) : sess'[g] = sess[g]
           /\ sess'[Len(sess) + 1] = NewSession(t, p)
           /\ NewSession(t, p).id = arg[t].id
           /\ NewSession(t, p).dir
           /\ NewSession(t, p).proc = p
<1>1. arg[t].id \in Ids /\ arg[t].req \in Requests
  BY DEF Args
<1>2. arg[t].req.play \in Plays \cup {None} /\ arg[t].req.variant \in Variants
  BY <1>1, ManagerAssumption
<1>3. NewSession(t, p) \in Sessions
  BY <1>1, <1>2 DEF NewSession, Sessions
<1>4. /\ NewSession(t, p).id = arg[t].id
      /\ NewSession(t, p).dir
      /\ NewSession(t, p).proc = p
  BY DEF NewSession
<1> QED
  BY <1>3, <1>4 DEF TypeOK

(* Actions that change sessions in place: no directory goes. *)
LEMMA TouchEffect ==
    ASSUME TypeOK, PlacesFit,
           \/ \E t \in Threads : EnsureReuse(t)
           \/ \E i \in Ids : Touch(i) \/ GoIdle(i)
           \/ \E g \in Generations : ProcessExits(g) \/ WaitReturns(g)
    PROVE  SameDirs
<1>1. ASSUME NEW g \in 1 .. Len(sess), NEW new \in Sessions,
             sess' = [sess EXCEPT ![g] = new], new.id = sess[g].id,
             new.proc = "failed" <=> sess[g].proc = "failed",
             new.dir = sess[g].dir
      PROVE  SameDirs
  BY <1>1, Replaced
<1>2. ASSUME NEW i \in Ids, sessions[i] # 0
      PROVE  sessions[i] \in 1 .. Len(sess) /\ sess[sessions[i]] \in Sessions
  BY <1>2, SessionType DEF TypeOK
<1>3. ASSUME NEW t \in Threads, EnsureReuse(t) PROVE SameDirs
  <2> DEFINE g == sessions[arg[t].id]
             play == IF sess[g].play = None THEN arg[t].req.play ELSE sess[g].play
             new == [sess[g] EXCEPT !.idle = FALSE, !.play = play]
  <2>1. arg[t].id \in Ids /\ arg[t].req \in Requests
    BY <1>3 DEF PlacesFit, EnsureReuse, Args
  <2>2. arg[t].req.play \in Plays \cup {None}
    BY <2>1, ManagerAssumption
  <2>3. g \in 1 .. Len(sess) /\ sess[g] \in Sessions
    BY <1>2, <1>3, <2>1 DEF EnsureReuse
  <2>4. play \in Plays \cup {None}
    BY <2>2, <2>3 DEF Sessions
  <2>5. sess' = [sess EXCEPT ![g] = new]
    BY <1>3, <2>3 DEF EnsureReuse
  <2>6. new \in Sessions /\ new.id = sess[g].id /\ new.dir = sess[g].dir
        /\ new.proc = sess[g].proc
    BY <2>3, <2>4 DEF Sessions
  <2> HIDE DEF new, g
  <2> QED
    BY <1>1, <2>3, <2>5, <2>6
<1>4. ASSUME NEW i \in Ids, Touch(i) \/ GoIdle(i) PROVE SameDirs
  <2>1. PICK b \in BOOLEAN : sess' = [sess EXCEPT ![sessions[i]].idle = b]
    BY <1>4 DEF Touch, GoIdle
  <2>2. sessions[i] \in 1 .. Len(sess) /\ sess[sessions[i]] \in Sessions
    BY <1>2, <1>4 DEF Touch, GoIdle
  <2> DEFINE new == [sess[sessions[i]] EXCEPT !.idle = b]
  <2>3. /\ new \in Sessions /\ new.id = sess[sessions[i]].id
        /\ new.dir = sess[sessions[i]].dir /\ new.proc = sess[sessions[i]].proc
    BY <2>2 DEF Sessions
  <2>4. sess' = [sess EXCEPT ![sessions[i]] = new]
    BY <2>1, <2>2
  <2> HIDE DEF new
  <2> QED
    BY <1>1, <2>2, <2>3, <2>4
<1>5. ASSUME NEW g \in Generations, ProcessExits(g) \/ WaitReturns(g)
      PROVE  SameDirs
  <2>1. PICK p \in {"exited", "done"} : sess' = [sess EXCEPT ![g].proc = p]
    BY <1>5 DEF ProcessExits, WaitReturns
  <2>2. g \in 1 .. Len(sess) /\ sess[g] \in Sessions /\ sess[g].proc # "failed"
    BY <1>5, SessionType DEF ProcessExits, WaitReturns, Generations
  <2> DEFINE new == [sess[g] EXCEPT !.proc = p]
  <2>3. /\ new \in Sessions /\ new.id = sess[g].id
        /\ new.dir = sess[g].dir /\ new.proc # "failed"
    BY <2>2 DEF Sessions
  <2>4. sess' = [sess EXCEPT ![g] = new]
    BY <2>1, <2>2
  <2> HIDE DEF new
  <2> QED
    BY <1>1, <2>2, <2>3, <2>4
<1> QED
  BY <1>3, <1>4, <1>5

LEMMA ProgressEffect ==
    ASSUME TypeOK, NEW play \in Plays \cup {None}, NEW item \in Ids,
           NEW paused \in BOOLEAN, NEW cut \in BOOLEAN,
           RecordProgress(play, item, paused, cut)
    PROVE  SameDirs
<1> DEFINE hit(g) == \E i \in Present : sessions[i] = g /\ Matches(i, play, item)
           changed(g) == [sess[g] EXCEPT !.play = IF @ = None THEN play ELSE @,
                                         !.idle = @ /\ paused,
                                         !.trimmed = @ \/ cut]
           new(g) == IF hit(g) THEN changed(g) ELSE sess[g]
<1>1. \A g \in 1 .. Len(sess) : sess[g] \in Sessions
  BY SessionType
<1>2. \A g \in 1 .. Len(sess) :
         /\ changed(g) \in Sessions
         /\ changed(g).id = sess[g].id /\ changed(g).proc = sess[g].proc
         /\ changed(g).dir = sess[g].dir
  BY <1>1 DEF Sessions
<1>3. sess' = [g \in 1 .. Len(sess) |-> new(g)]
  BY SessionType DEF RecordProgress, Generations
<1> HIDE DEF hit, changed
<1>4. \A g \in 1 .. Len(sess) :
         /\ new(g) \in Sessions
         /\ new(g).id = sess[g].id /\ new(g).proc = sess[g].proc
         /\ new(g).dir = sess[g].dir
  BY <1>1, <1>2
<1> HIDE DEF new
<1>5. sess' \in [1 .. Len(sess) -> Sessions]
  BY <1>3, <1>4
<1>6. sess' \in Seq(Sessions) /\ Len(sess') = Len(sess)
  BY <1>5, SessionType, SeqOfFunction
<1> QED
  BY <1>3, <1>4, <1>6 DEF SameSessions, SameDirs

(* os.RemoveAll *)
LEMMA CleanupEffect ==
    ASSUME TypeOK, PlacesFit, NEW t \in Threads, StopCleanup(t)
    PROVE  /\ SameSessions
           /\ cur[t] \in todo[t] /\ cur[t] \in 1 .. Len(sess)
           /\ ~sess'[cur[t]].dir
           /\ \A g \in 1 .. Len(sess) : g # cur[t] => sess'[g].dir = sess[g].dir
<1> DEFINE new == [sess[cur[t]] EXCEPT !.dir = FALSE]
<1>1. cur[t] \in todo[t] /\ cur[t] \in 1 .. Len(sess)
  BY DEF PlacesFit, StopCleanup, TypeOK
<1>2. sess[cur[t]] \in Sessions
  BY <1>1, SessionType
<1>3. /\ new \in Sessions /\ new.id = sess[cur[t]].id /\ ~new.dir
      /\ new.proc = sess[cur[t]].proc
  BY <1>2 DEF Sessions
<1>4. sess' = [sess EXCEPT ![cur[t]] = new]
  BY <1>1 DEF StopCleanup
<1> HIDE DEF new
<1> QED
  BY <1>1, <1>3, <1>4, Replaced

-----------------------------------------------------------------------------
(* Five kinds of step *)

(* Nothing that decides who owns a session changes. *)
Quiet == SameDirs /\ UNCHANGED <<sessions, todo>>

LEMMA QuietActions ==
    ASSUME TypeOK, PlacesFit,
           \/ \E t \in Clients, i \in Ids, req \in Requests : CallEnsure(t, i, req)
           \/ \E t \in Threads :
                \/ EnsureReuse(t) \/ EnsureReject(t) \/ StopBegin(t) \/ StopSeesDone(t)
                \/ GraceExpires(t) \/ KillWaitExpires(t) \/ StopEnd(t)
           \/ ReapScan \/ ReapEnd \/ Rest \/ UNCHANGED vars
           \/ \E i \in Ids : Touch(i) \/ GoIdle(i)
           \/ \E play \in Plays \cup {None}, i \in Ids, paused, cut \in BOOLEAN :
                 RecordProgress(play, i, paused, cut)
           \/ \E g \in Generations : ProcessExits(g) \/ WaitReturns(g)
    PROVE  Quiet
<1>1. ASSUME sess' = sess PROVE SameDirs
  BY <1>1 DEF SameDirs, SameSessions, TypeOK
<1>2. ASSUME \/ \E t \in Clients, i \in Ids, req \in Requests : CallEnsure(t, i, req)
             \/ \E t \in Threads :
                  \/ EnsureReject(t) \/ StopBegin(t) \/ StopSeesDone(t)
                  \/ GraceExpires(t) \/ KillWaitExpires(t) \/ StopEnd(t)
             \/ ReapScan \/ ReapEnd \/ Rest \/ UNCHANGED vars
      PROVE  UNCHANGED <<sess, sessions, todo>>
  BY <1>2 DEF CallEnsure, EnsureReject, StopBegin, StopSeesDone, GraceExpires,
              KillWaitExpires, StopEnd, ReapScan, ReapEnd, Rest, Finish, vars,
              threadVars
<1>3. ASSUME \/ \E t \in Threads : EnsureReuse(t)
             \/ \E i \in Ids : Touch(i) \/ GoIdle(i)
             \/ \E g \in Generations : ProcessExits(g) \/ WaitReturns(g)
      PROVE  Quiet
  <2>1. UNCHANGED <<sessions, todo>>
    BY <1>3 DEF EnsureReuse, Touch, GoIdle, ProcessExits, WaitReturns, threadVars
  <2> QED
    BY <1>3, <2>1, TouchEffect DEF Quiet
<1>4. ASSUME NEW play \in Plays \cup {None}, NEW i \in Ids,
             NEW paused \in BOOLEAN, NEW cut \in BOOLEAN,
             RecordProgress(play, i, paused, cut)
      PROVE  Quiet
  BY <1>4, ProgressEffect DEF Quiet, RecordProgress, threadVars
<1> QED
  BY <1>1, <1>2, <1>3, <1>4 DEF Quiet

(* Every step that takes sessions out is by a goroutine with free hands. *)
LEMMA TakingActions ==
    ASSUME TypeOK, PlacesFit,
           \/ \E t \in Threads : EnsureRestart(t) \/ EnsureEvict(t)
           \/ \E t \in Clients, play \in Plays \cup {None}, i \in Ids :
                 StopPlayback(t, play, i)
           \/ \E t \in Clients : Close(t)
           \/ ReapStop
    PROVE  \E t \in Threads, S \in SUBSET Ids : TakeOut(t, S) /\ todo[t] = {}
<1>1. \A t \in Threads : pc[t] \in {"idle", "ensure", "reap"} => todo[t] = {}
  BY DEF PlacesFit
<1>2. ASSUME NEW t \in Threads, EnsureRestart(t)
      PROVE  TakeOut(t, {arg[t].id}) /\ arg[t].id \in Ids /\ todo[t] = {}
  BY <1>1, <1>2 DEF EnsureRestart, PlacesFit, Args
<1>3. ASSUME NEW t \in Threads, EnsureEvict(t)
      PROVE  TakeOut(t, Finished) /\ Finished \in SUBSET Ids /\ todo[t] = {}
  BY <1>1, <1>3 DEF EnsureEvict, Finished, Present
<1>4. ASSUME NEW t \in Clients, NEW play \in Plays \cup {None}, NEW i \in Ids,
             StopPlayback(t, play, i)
      PROVE  \E S \in SUBSET Ids : TakeOut(t, S) /\ todo[t] = {}
  <2>1. {j \in Present : Matches(j, play, i)} \in SUBSET Ids
    BY DEF Present
  <2> QED
    BY <1>1, <1>4, <2>1 DEF StopPlayback, Threads
<1>5. ASSUME NEW t \in Clients, Close(t)
      PROVE  TakeOut(t, Present) /\ Present \in SUBSET Ids /\ todo[t] = {}
  BY <1>1, <1>5 DEF Close, Present, Threads
<1>6. ASSUME ReapStop
      PROVE  \E i \in Ids : TakeOut(Reaper, {i}) /\ todo[Reaper] = {}
  BY <1>1, <1>6 DEF ReapStop, TypeOK, Threads
<1>7. Clients \subseteq Threads /\ Reaper \in Threads
  BY DEF Threads
<1>8. \A i \in Ids : {i} \in SUBSET Ids
  OBVIOUS
<1> QED
  BY <1>2, <1>3, <1>4, <1>5, <1>6, <1>7, <1>8

LEMMA StepKinds ==
    ASSUME TypeOK, PlacesFit, [Next]_vars
    PROVE  \/ Quiet
           \/ \E t \in Threads, S \in SUBSET Ids : TakeOut(t, S) /\ todo[t] = {}
           \/ \E t \in Threads :
                 StopCleanup(t) \/ EnsureCreate(t) \/ EnsureStartFails(t)
<1>1. ASSUME NEW t \in Threads, ThreadStep(t)
      PROVE  \/ Quiet
             \/ \E u \in Threads, S \in SUBSET Ids : TakeOut(u, S) /\ todo[u] = {}
             \/ StopCleanup(t) \/ EnsureCreate(t) \/ EnsureStartFails(t)
  BY <1>1, QuietActions, TakingActions DEF ThreadStep
<1>2. ASSUME NEW t \in Clients, Request(t)
      PROVE  \/ Quiet
             \/ \E u \in Threads, S \in SUBSET Ids : TakeOut(u, S) /\ todo[u] = {}
  BY <1>2, QuietActions, TakingActions DEF Request
<1>3. CASE ReapScan \/ ReapEnd \/ Rest \/ UNCHANGED vars
  BY <1>3, QuietActions
<1>4. CASE ReapStop
  BY <1>4, TakingActions
<1>5. CASE \/ \E i \in Ids : Touch(i) \/ GoIdle(i)
           \/ \E play \in Plays \cup {None}, i \in Ids, paused, cut \in BOOLEAN :
                 RecordProgress(play, i, paused, cut)
           \/ \E g \in Generations : ProcessExits(g) \/ WaitReturns(g)
  BY <1>5, QuietActions
<1> QED
  BY <1>1, <1>2, <1>3, <1>4, <1>5 DEF Next

(* A new generation, as the owner conjuncts see it *)
LEMMA NewEffect ==
    ASSUME TypeOK, PlacesFit, NEW t \in Threads,
           EnsureCreate(t) \/ EnsureStartFails(t)
    PROVE  \E p \in {"running", "failed"} :
           /\ sess' \in Seq(Sessions)
           /\ Len(sess') = Len(sess) + 1
           /\ \A g \in 1 .. Len(sess) : sess'[g] = sess[g]
           /\ sess'[Len(sess) + 1].id = arg[t].id
           /\ sess'[Len(sess) + 1].dir
           /\ sess'[Len(sess) + 1].proc = p
           /\ arg[t].id \in Ids
           /\ sessions[arg[t].id] = 0
           /\ IF p = "running"
              THEN sessions' = [sessions EXCEPT ![arg[t].id] = Len(sess) + 1]
              ELSE sessions' = sessions
           /\ todo' = todo
<1>1. MayCreate(t) /\ arg[t] \in Args /\ arg[t].id \in Ids /\ sessions[arg[t].id] = 0
  BY DEF EnsureCreate, EnsureStartFails, MayCreate, PlacesFit, Args
<1>2. \A p \in {"running", "failed"} : sess' = Append(sess, NewSession(t, p)) =>
           /\ sess' \in Seq(Sessions)
           /\ Len(sess') = Len(sess) + 1
           /\ \A g \in 1 .. Len(sess) : sess'[g] = sess[g]
           /\ sess'[Len(sess) + 1].id = arg[t].id
           /\ sess'[Len(sess) + 1].dir
           /\ sess'[Len(sess) + 1].proc = p
  BY <1>1, AppendEffect
<1>3. CASE EnsureCreate(t)
  <2>1. /\ sess' = Append(sess, NewSession(t, "running"))
        /\ sessions' = [sessions EXCEPT ![arg[t].id] = Len(sess) + 1]
        /\ todo' = todo
    BY <1>3 DEF EnsureCreate, NextGeneration
  <2> QED
    BY <1>1, <1>2, <2>1
<1>4. CASE EnsureStartFails(t)
  <2>1. /\ sess' = Append(sess, NewSession(t, "failed"))
        /\ sessions' = sessions
        /\ todo' = todo
    BY <1>4 DEF EnsureStartFails
  <2> QED
    BY <1>1, <1>2, <2>1
<1> QED
  BY <1>3, <1>4

-----------------------------------------------------------------------------
(* Each conjunct of ManagerInv is preserved *)

(* The facts the owner conjuncts give about what is in the map *)
LEMMA InMapFacts ==
    ASSUME ManagerInv
    PROVE  /\ \A i \in Ids : sessions[i] # 0 =>
                 sessions[i] \in 1 .. Len(sess) /\ InMap(sessions[i])
           /\ \A t \in Threads : \A g \in todo[t] :
                 g \in 1 .. Len(sess) /\ ~InMap(g) /\ sess[g].dir
BY DEF ManagerInv, MapFits, HandsFit, InMap, TypeOK

LEMMA TypesKept == ManagerInv /\ [Next]_vars => TypeOK'
<1> SUFFICES ASSUME ManagerInv, [Next]_vars
             PROVE  TypeOK'
  OBVIOUS
<1>1. TypeOK /\ PlacesFit
  BY DEF ManagerInv
<1>2. Len(sess) \in Nat
  BY <1>1, SessionType
<1>3. ASSUME SameSessions, UNCHANGED sessions,
             pc' \in [Threads -> {"idle", "ensure", "stop", "grace", "kill",
                                  "cleanup", "reap"}],
             arg' \in [Threads -> Args \cup {None}],
             todo' \in [Threads -> SUBSET (1 .. Len(sess))],
             cur' \in [Threads -> 0 .. Len(sess)],
             expired' \in [Threads -> SUBSET Ids],
             got' \in [Threads -> 0 .. Len(sess)],
             calls' \in 0 .. MaxCalls
      PROVE  TypeOK'
  BY <1>1, <1>3 DEF SameSessions, TypeOK
<1>4. ASSUME NEW t \in Threads, NEW S \in SUBSET Ids, TakeOut(t, S),
             arg' = arg, cur' = cur, got' = got,
             expired' \in [Threads -> SUBSET Ids], calls' \in 0 .. MaxCalls
      PROVE  TypeOK'
  <2>1. PICK T \in SUBSET (1 .. Len(sess)) : todo' = [todo EXCEPT ![t] = T]
    BY <1>1, <1>4, TakeOutEffect
  <2>2. /\ sess' \in Seq(Sessions) /\ Len(sess') = Len(sess)
        /\ sessions' = [i \in Ids |-> IF i \in S THEN 0 ELSE sessions[i]]
        /\ pc' = [pc EXCEPT ![t] = "stop"]
    BY <1>1, <1>4, TakeOutEffect DEF SameDirs, SameSessions
  <2>3. sessions' \in [Ids -> 0 .. Len(sess)]
    BY <1>1, <1>2, <2>2 DEF TypeOK
  <2>4. pc' \in [Threads -> {"idle", "ensure", "stop", "grace", "kill",
                             "cleanup", "reap"}]
    BY <1>1, <2>2 DEF TypeOK
  <2>5. todo' \in [Threads -> SUBSET (1 .. Len(sess))]
    BY <1>1, <2>1 DEF TypeOK
  <2> QED
    BY <1>1, <1>4, <2>2, <2>3, <2>4, <2>5 DEF TypeOK
<1>5. ASSUME UNCHANGED sess PROVE SameSessions
  BY <1>1, <1>5 DEF SameSessions, TypeOK
<1>6. ASSUME NEW t \in Clients, NEW i \in Ids, NEW req \in Requests,
             CallEnsure(t, i, req)
      PROVE  TypeOK'
  BY <1>1, <1>2, <1>3, <1>5, <1>6, ManagerAssumption DEF CallEnsure, TypeOK, Args, Threads
<1>7. ASSUME NEW t \in Threads, EnsureReuse(t)
      PROVE  TypeOK'
  <2>1. SameSessions
    BY <1>1, <1>7, TouchEffect DEF SameDirs
  <2>2. sessions[arg[t].id] \in 0 .. Len(sess)
    BY <1>1, <1>7 DEF EnsureReuse, PlacesFit, Args, TypeOK
  <2> QED
    BY <1>1, <1>3, <1>7, <2>1, <2>2 DEF EnsureReuse, Finish, TypeOK
<1>8. ASSUME NEW t \in Threads, EnsureReject(t)
      PROVE  TypeOK'
  BY <1>1, <1>2, <1>3, <1>5, <1>8 DEF EnsureReject, Finish, TypeOK
<1>9. ASSUME NEW t \in Threads, EnsureCreate(t) \/ EnsureStartFails(t)
      PROVE  TypeOK'
  <2>1. /\ sess' \in Seq(Sessions)
        /\ Len(sess') = Len(sess) + 1
        /\ \/ sessions' = [sessions EXCEPT ![arg[t].id] = Len(sess) + 1]
           \/ sessions' = sessions
    BY <1>1, <1>9, NewEffect
  <2>2. sessions' \in [Ids -> 0 .. Len(sess) + 1]
    BY <1>1, <1>2, <2>1 DEF TypeOK
  <2>3. /\ Finish(t, 0) \/ Finish(t, Len(sess) + 1)
        /\ UNCHANGED <<todo, cur, expired, calls>>
    BY <1>9 DEF EnsureCreate, EnsureStartFails, NextGeneration
  <2>4. got' \in [Threads -> 0 .. Len(sess) + 1]
    <3>1. got \in [Threads -> 0 .. Len(sess) + 1]
      BY <1>1, <1>2 DEF TypeOK
    <3>2. 0 \in 0 .. Len(sess) + 1 /\ Len(sess) + 1 \in 0 .. Len(sess) + 1
      BY <1>2
    <3> QED
      BY <2>3, <3>1, <3>2 DEF Finish
  <2>5. /\ todo \in [Threads -> SUBSET (1 .. Len(sess) + 1)]
        /\ cur \in [Threads -> 0 .. Len(sess) + 1]
    BY <1>1, <1>2 DEF TypeOK
  <2>6. /\ pc' \in [Threads -> {"idle", "ensure", "stop", "grace", "kill",
                                "cleanup", "reap"}]
        /\ arg' \in [Threads -> Args \cup {None}]
    BY <1>1, <2>3 DEF Finish, TypeOK
  <2> QED
    BY <1>1, <2>1, <2>2, <2>3, <2>4, <2>5, <2>6 DEF TypeOK
<1>10. ASSUME NEW t \in Threads,
              \/ StopBegin(t) \/ StopSeesDone(t) \/ GraceExpires(t)
              \/ KillWaitExpires(t) \/ StopEnd(t)
       PROVE  TypeOK'
  <2>1. UNCHANGED <<sessions, sess, arg, todo, expired, got, calls>>
    BY <1>10 DEF StopBegin, StopSeesDone, GraceExpires, KillWaitExpires, StopEnd
  <2>2. pc' \in [Threads -> {"idle", "ensure", "stop", "grace", "kill",
                             "cleanup", "reap"}]
    BY <1>1, <1>10
       DEF StopBegin, StopSeesDone, GraceExpires, KillWaitExpires, StopEnd, TypeOK
  <2>3. cur' \in [Threads -> 0 .. Len(sess)]
    <3>1. CASE StopBegin(t)
      <4>1. PICK g \in todo[t] : cur' = [cur EXCEPT ![t] = g]
        BY <3>1 DEF StopBegin
      <4>2. g \in 0 .. Len(sess)
        BY <1>1, <1>2 DEF TypeOK
      <4> QED
        BY <1>1, <4>1, <4>2 DEF TypeOK
    <3>2. CASE ~StopBegin(t)
      BY <1>1, <1>10, <3>2
         DEF StopSeesDone, GraceExpires, KillWaitExpires, StopEnd, TypeOK
    <3> QED
      BY <3>1, <3>2
  <2> QED
    BY <1>1, <1>3, <1>5, <2>1, <2>2, <2>3 DEF TypeOK
<1>11. ASSUME NEW t \in Threads, StopCleanup(t)
       PROVE  TypeOK'
  <2>1. SameSessions
    BY <1>1, <1>11, CleanupEffect
  <2> QED
    BY <1>1, <1>2, <1>3, <1>11, <2>1 DEF StopCleanup, TypeOK
<1>12. CASE ReapScan \/ ReapEnd
  <2>1. {i \in Present : Reapable(i)} \in SUBSET Ids
    BY DEF Present
  <2> QED
    BY <1>1, <1>3, <1>5, <1>12, <2>1 DEF ReapScan, ReapEnd, TypeOK
<1>13. CASE \/ \E i \in Ids : Touch(i) \/ GoIdle(i)
            \/ \E play \in Plays \cup {None}, i \in Ids, paused, cut \in BOOLEAN :
                  RecordProgress(play, i, paused, cut)
            \/ \E g \in Generations : ProcessExits(g) \/ WaitReturns(g)
  <2>1. SameSessions
    BY <1>1, <1>13, TouchEffect, ProgressEffect DEF SameDirs
  <2>2. UNCHANGED <<sessions, threadVars, calls>>
    BY <1>13 DEF Touch, GoIdle, RecordProgress, ProcessExits, WaitReturns
  <2> QED
    BY <1>1, <1>3, <2>1, <2>2 DEF TypeOK, threadVars
<1>14. CASE Rest \/ UNCHANGED vars
  BY <1>1, <1>14 DEF Rest, vars, threadVars, TypeOK
<1>15. ASSUME NEW t \in Threads, EnsureRestart(t) \/ EnsureEvict(t)
       PROVE  TypeOK'
  <2>1. {arg[t].id} \in SUBSET Ids \/ ~EnsureRestart(t)
    BY <1>1 DEF EnsureRestart, PlacesFit, Args
  <2>2. Finished \in SUBSET Ids
    BY DEF Finished, Present
  <2>3. \E S \in SUBSET Ids : TakeOut(t, S)
    BY <1>15, <2>1, <2>2 DEF EnsureRestart, EnsureEvict
  <2>4. UNCHANGED <<arg, cur, expired, got, calls>>
    BY <1>15 DEF EnsureRestart, EnsureEvict
  <2> QED
    BY <1>1, <1>4, <2>3, <2>4 DEF TypeOK
<1>16. ASSUME NEW t \in Clients,
              \/ \E play \in Plays \cup {None}, i \in Ids : StopPlayback(t, play, i)
              \/ Close(t)
       PROVE  TypeOK'
  <2>1. \E S \in SUBSET Ids : TakeOut(t, S)
    BY <1>16 DEF StopPlayback, Close, Present
  <2>2. UNCHANGED <<arg, cur, expired, got>> /\ calls' = calls + 1 /\ calls < MaxCalls
    BY <1>16 DEF StopPlayback, Close
  <2>3. calls' \in 0 .. MaxCalls
    BY <1>1, <2>2, ManagerAssumption DEF TypeOK
  <2> QED
    BY <1>1, <1>4, <2>1, <2>2, <2>3 DEF TypeOK, Threads
<1>17. CASE ReapStop
  <2>1. \E S \in SUBSET Ids : TakeOut(Reaper, S)
    BY <1>1, <1>17 DEF ReapStop, TypeOK, Threads
  <2>2. UNCHANGED <<arg, cur, got, calls>>
        /\ expired' \in [Threads -> SUBSET Ids]
    BY <1>1, <1>17 DEF ReapStop, TypeOK
  <2> QED
    BY <1>1, <1>4, <2>1, <2>2 DEF TypeOK, Threads
<1> QED
  BY <1>6, <1>7, <1>8, <1>9, <1>10, <1>11, <1>12, <1>13, <1>14, <1>15, <1>16, <1>17
     DEF Next, ThreadStep, Request

LEMMA MapKept == ManagerInv /\ [Next]_vars => MapFits'
<1> SUFFICES ASSUME ManagerInv, [Next]_vars,
                    NEW i \in Ids, sessions'[i] # 0
             PROVE  /\ sess'[sessions'[i]].id = i
                    /\ sess'[sessions'[i]].dir
                    /\ sess'[sessions'[i]].proc # "failed"
  BY DEF MapFits
<1>1. TypeOK /\ PlacesFit
  BY DEF ManagerInv
<1>2. sessions[i] # 0 => /\ sessions[i] \in 1 .. Len(sess)
                         /\ sess[sessions[i]].id = i
                         /\ sess[sessions[i]].dir
                         /\ sess[sessions[i]].proc # "failed"
  BY DEF ManagerInv, MapFits, TypeOK
<1>3. CASE Quiet
  BY <1>2, <1>3 DEF Quiet, SameDirs, SameSessions
<1>4. ASSUME NEW t \in Threads, NEW S \in SUBSET Ids, TakeOut(t, S)
      PROVE  SameDirs /\ sessions'[i] = sessions[i]
  BY <1>1, <1>4, TakeOutEffect
<1>5. CASE \E t \in Threads, S \in SUBSET Ids : TakeOut(t, S)
  BY <1>2, <1>4, <1>5 DEF SameDirs, SameSessions
<1>6. ASSUME NEW t \in Threads, StopCleanup(t)
      PROVE  /\ sess'[sessions'[i]].id = i
             /\ sess'[sessions'[i]].dir
             /\ sess'[sessions'[i]].proc # "failed"
  <2>1. sessions' = sessions
    BY <1>6 DEF StopCleanup
  <2>2. cur[t] \in todo[t] /\ SameSessions
        /\ \A g \in 1 .. Len(sess) : g # cur[t] => sess'[g].dir = sess[g].dir
    BY <1>1, <1>6, CleanupEffect
  <2>3. sessions[i] # cur[t]
    BY <2>1, <2>2, InMapFacts
  <2> QED
    BY <1>2, <2>1, <2>2, <2>3 DEF SameSessions
<1>7. ASSUME NEW t \in Threads, EnsureCreate(t) \/ EnsureStartFails(t)
      PROVE  /\ sess'[sessions'[i]].id = i
             /\ sess'[sessions'[i]].dir
             /\ sess'[sessions'[i]].proc # "failed"
  <2>1. PICK p \in {"running", "failed"} :
           /\ \A g \in 1 .. Len(sess) : sess'[g] = sess[g]
           /\ sess'[Len(sess) + 1].id = arg[t].id
           /\ sess'[Len(sess) + 1].dir
           /\ sess'[Len(sess) + 1].proc = p
           /\ IF p = "running"
              THEN sessions' = [sessions EXCEPT ![arg[t].id] = Len(sess) + 1]
              ELSE sessions' = sessions
    BY <1>1, <1>7, NewEffect
  <2>2. CASE p = "running" /\ i = arg[t].id
    <3>1. sessions'[i] = Len(sess) + 1
      BY <1>1, <2>1, <2>2 DEF TypeOK
    <3> QED
      BY <2>1, <2>2, <3>1
  <2>3. CASE ~(p = "running" /\ i = arg[t].id)
    <3>1. sessions'[i] = sessions[i]
      BY <1>1, <2>1, <2>3 DEF TypeOK
    <3> QED
      BY <1>2, <2>1, <3>1
  <2> QED
    BY <2>2, <2>3
<1> QED
  BY <1>1, <1>3, <1>5, <1>6, <1>7, StepKinds

LEMMA HandsKept == ManagerInv /\ [Next]_vars => HandsFit'
<1> SUFFICES ASSUME ManagerInv, [Next]_vars
             PROVE  HandsFit'
  OBVIOUS
<1>1. TypeOK /\ PlacesFit /\ MapFits
  BY DEF ManagerInv
<1>2. \A t \in Threads : \A g \in todo[t] :
         g \in 1 .. Len(sess) /\ ~InMap(g) /\ sess[g].dir
  BY InMapFacts
<1>3. \A t, u \in Threads : u # t => todo[t] \cap todo[u] = {}
  BY DEF ManagerInv, HandsFit
<1>4. CASE Quiet
  BY <1>2, <1>3, <1>4 DEF HandsFit, InMap, Quiet, SameDirs, SameSessions
<1>5. ASSUME NEW t \in Threads, NEW S \in SUBSET Ids, TakeOut(t, S), todo[t] = {}
      PROVE  HandsFit'
  <2> DEFINE taken == {sessions[i] : i \in S \cap Present}
  <2>1. PICK T \in SUBSET (1 .. Len(sess)) :
           T = taken /\ todo' = [todo EXCEPT ![t] = T]
    BY <1>1, <1>5, TakeOutEffect
  <2>2. SameDirs /\ sessions' = [i \in Ids |-> IF i \in S THEN 0 ELSE sessions[i]]
    BY <1>1, <1>5, TakeOutEffect
  <2>3. \A g \in T : /\ sess[g].id \in S /\ InMap(g) /\ sess[g].dir
    BY <1>1, <2>1 DEF MapFits, InMap, Present
  <2>4. \A g \in 1 .. Len(sess) : (sess[g].id \in S \/ ~InMap(g)) => ~InMap(g)'
    BY <2>2 DEF InMap, SameDirs, SameSessions
  <2>5. \A u \in Threads : todo'[u] = IF u = t THEN T ELSE todo[u]
    BY <1>1, <2>1 DEF TypeOK
  <2>6. \A u \in Threads : \A g \in todo'[u] : sess'[g].dir /\ ~InMap(g)'
    BY <1>2, <2>2, <2>3, <2>4, <2>5 DEF SameDirs
  <2>7. \A u \in Threads : T \cap todo[u] = {}
    BY <1>2, <2>3
  <2>8. \A u, v \in Threads : v # u => todo'[u] \cap todo'[v] = {}
    BY <1>3, <2>5, <2>7
  <2> QED
    BY <2>6, <2>8 DEF HandsFit
<1>6. ASSUME NEW t \in Threads, StopCleanup(t)
      PROVE  HandsFit'
  <2>1. /\ SameSessions /\ cur[t] \in todo[t]
        /\ \A g \in 1 .. Len(sess) : g # cur[t] => sess'[g].dir = sess[g].dir
    BY <1>1, <1>6, CleanupEffect
  <2>2. sessions' = sessions
        /\ \A u \in Threads : todo'[u] = IF u = t THEN todo[u] \ {cur[t]} ELSE todo[u]
    BY <1>1, <1>6 DEF StopCleanup, TypeOK
  <2>3. \A u \in Threads : cur[t] \notin todo'[u] /\ todo'[u] \subseteq todo[u]
    BY <1>3, <2>1, <2>2
  <2>4. \A g \in 1 .. Len(sess) : ~InMap(g) => ~InMap(g)'
    BY <2>1, <2>2 DEF InMap, SameSessions
  <2> QED
    BY <1>2, <1>3, <2>1, <2>3, <2>4 DEF HandsFit
<1>7. ASSUME NEW t \in Threads, EnsureCreate(t) \/ EnsureStartFails(t)
      PROVE  HandsFit'
  <2>1. PICK p \in {"running", "failed"} :
           /\ \A g \in 1 .. Len(sess) : sess'[g] = sess[g]
           /\ IF p = "running"
              THEN sessions' = [sessions EXCEPT ![arg[t].id] = Len(sess) + 1]
              ELSE sessions' = sessions
           /\ todo' = todo
    BY <1>1, <1>7, NewEffect
  <2>2. \A i \in Ids : sessions'[i] \in {sessions[i], Len(sess) + 1}
    BY <1>1, <2>1 DEF TypeOK
  <2>3. \A g \in 1 .. Len(sess) : ~InMap(g) => ~InMap(g)'
    BY <1>1, <2>1, <2>2, LenProperties DEF InMap, TypeOK
  <2> QED
    BY <1>2, <1>3, <2>1, <2>3 DEF HandsFit
<1> QED
  BY <1>1, <1>4, <1>5, <1>6, <1>7, StepKinds

LEMMA NoneForgottenKept == ManagerInv /\ [Next]_vars => NoneForgotten'
<1> SUFFICES ASSUME ManagerInv, [Next]_vars,
                    NEW g \in 1 .. Len(sess'), sess'[g].dir, sess'[g].proc # "failed"
             PROVE  InMap(g)' \/ \E u \in Threads : g \in todo'[u]
  <2>1. (ManagerInv /\ [Next]_vars) => DOMAIN sess' = 1 .. Len(sess')
    BY TypesKept, LenProperties DEF TypeOK
  <2> QED
    BY <2>1 DEF NoneForgotten, Stoppers, Generations
<1>1. TypeOK /\ PlacesFit /\ MapFits
  BY DEF ManagerInv
<1>2. \A h \in 1 .. Len(sess) : sess[h].dir /\ sess[h].proc # "failed" =>
         InMap(h) \/ \E u \in Threads : h \in todo[u]
  BY <1>1, SessionType DEF ManagerInv, NoneForgotten, Stoppers, Generations
<1>3. CASE Quiet
  BY <1>2, <1>3 DEF InMap, Quiet, SameDirs, SameSessions
<1>4. ASSUME NEW t \in Threads, NEW S \in SUBSET Ids, TakeOut(t, S), todo[t] = {}
      PROVE  InMap(g)' \/ \E u \in Threads : g \in todo'[u]
  <2>1. PICK T \in SUBSET (1 .. Len(sess)) :
           /\ T = {sessions[i] : i \in S \cap Present}
           /\ todo' = [todo EXCEPT ![t] = T]
    BY <1>1, <1>4, TakeOutEffect
  <2>2. SameDirs /\ sessions' = [i \in Ids |-> IF i \in S THEN 0 ELSE sessions[i]]
    BY <1>1, <1>4, TakeOutEffect
  <2>3. \A u \in Threads : todo'[u] = IF u = t THEN T ELSE todo[u]
    BY <1>1, <2>1 DEF TypeOK
  <2>4. g \in 1 .. Len(sess) /\ sess[g].dir /\ sess[g].proc # "failed"
        /\ sess'[g].id = sess[g].id
    BY <2>2 DEF SameDirs, SameSessions
  <2>5. CASE InMap(g) /\ sess[g].id \in S
    <3>1. sess[g].id \in S \cap Present /\ sessions[sess[g].id] = g
      BY <2>4, <2>5 DEF InMap, Present
    <3>2. g \in T
      BY <2>1, <3>1
    <3>3. g \in todo'[t]
      BY <2>3, <3>2
    <3> QED
      BY <3>3
  <2>6. CASE InMap(g) /\ sess[g].id \notin S
    BY <2>2, <2>4, <2>6 DEF InMap
  <2>7. CASE \E u \in Threads : g \in todo[u]
    BY <1>4, <2>3, <2>7
  <2> QED
    BY <1>2, <2>4, <2>5, <2>6, <2>7
<1>5. ASSUME NEW t \in Threads, StopCleanup(t)
      PROVE  InMap(g)' \/ \E u \in Threads : g \in todo'[u]
  <2>1. /\ SameSessions /\ ~sess'[cur[t]].dir
        /\ \A h \in 1 .. Len(sess) : h # cur[t] => sess'[h].dir = sess[h].dir
    BY <1>1, <1>5, CleanupEffect
  <2>2. sessions' = sessions
        /\ \A u \in Threads : todo'[u] = IF u = t THEN todo[u] \ {cur[t]} ELSE todo[u]
    BY <1>1, <1>5 DEF StopCleanup, TypeOK
  <2>3. g # cur[t] /\ g \in 1 .. Len(sess) /\ sess[g].dir /\ sess[g].proc # "failed"
    BY <2>1 DEF SameSessions
  <2> QED
    BY <1>2, <2>1, <2>2, <2>3 DEF InMap, SameSessions
<1>6. ASSUME NEW t \in Threads, EnsureCreate(t) \/ EnsureStartFails(t)
      PROVE  InMap(g)' \/ \E u \in Threads : g \in todo'[u]
  <2>1. PICK p \in {"running", "failed"} :
           /\ Len(sess') = Len(sess) + 1
           /\ \A h \in 1 .. Len(sess) : sess'[h] = sess[h]
           /\ sess'[Len(sess) + 1].id = arg[t].id
           /\ sess'[Len(sess) + 1].proc = p
           /\ arg[t].id \in Ids
           /\ sessions[arg[t].id] = 0
           /\ IF p = "running"
              THEN sessions' = [sessions EXCEPT ![arg[t].id] = Len(sess) + 1]
              ELSE sessions' = sessions
           /\ todo' = todo
    BY <1>1, <1>6, NewEffect
  <2>2. CASE g = Len(sess) + 1
    <3>1. sess'[g].id = arg[t].id /\ p = "running"
      BY <2>1, <2>2
    <3>2. sessions'[arg[t].id] = g
      BY <1>1, <2>1, <2>2, <3>1 DEF TypeOK
    <3> QED
      BY <2>1, <3>1, <3>2 DEF InMap
  <2>3. CASE g \in 1 .. Len(sess)
    <3>1. InMap(g) \/ \E u \in Threads : g \in todo[u]
      BY <1>2, <2>1, <2>3
    <3>2. InMap(g) => sess[g].id # arg[t].id
      BY <2>1, <2>3 DEF InMap
    <3>3. InMap(g) => sessions'[sess[g].id] = sessions[sess[g].id]
      BY <1>1, <2>1, <3>2 DEF TypeOK, InMap
    <3> QED
      BY <2>1, <2>3, <3>1, <3>3 DEF InMap
  <2>4. Len(sess) \in Nat
    BY <1>1, SessionType
  <2> QED
    BY <2>1, <2>2, <2>3, <2>4
<1> QED
  BY <1>1, <1>3, <1>4, <1>5, <1>6, StepKinds

LEMMA PlacesKept == ManagerInv /\ [Next]_vars => PlacesFit'
<1> SUFFICES ASSUME ManagerInv, [Next]_vars
             PROVE  PlacesFit'
  OBVIOUS
<1>1. TypeOK /\ PlacesFit
  BY DEF ManagerInv
<1> USE DEF PlacesFit
<1>2. ASSUME NEW t \in Clients, NEW i \in Ids, NEW req \in Requests,
             CallEnsure(t, i, req)
      PROVE  PlacesFit'
  BY <1>1, <1>2 DEF CallEnsure, TypeOK, Args, Threads
<1>3. ASSUME NEW t \in Threads, NEW S \in SUBSET Ids, TakeOut(t, S),
             arg' = arg, cur' = cur
      PROVE  PlacesFit'
  BY <1>1, <1>3 DEF TakeOut, TypeOK
<1>4. ASSUME NEW t \in Threads,
             \/ EnsureReuse(t) \/ EnsureReject(t)
             \/ EnsureCreate(t) \/ EnsureStartFails(t)
      PROVE  PlacesFit'
  <2>1. pc[t] = "ensure" /\ (\E g : Finish(t, g)) /\ UNCHANGED <<todo, cur>>
    BY <1>4 DEF EnsureReuse, EnsureReject, EnsureCreate, EnsureStartFails, MayCreate
  <2> QED
    BY <1>1, <2>1 DEF Finish, TypeOK
<1>5. ASSUME NEW t \in Threads, StopBegin(t)
      PROVE  PlacesFit'
  BY <1>1, <1>5 DEF StopBegin, TypeOK
<1>6. ASSUME NEW t \in Threads,
             StopSeesDone(t) \/ GraceExpires(t) \/ KillWaitExpires(t)
      PROVE  PlacesFit'
  BY <1>1, <1>6 DEF StopSeesDone, GraceExpires, KillWaitExpires, TypeOK
<1>7. ASSUME NEW t \in Threads, StopCleanup(t)
      PROVE  PlacesFit'
  BY <1>1, <1>7 DEF StopCleanup, TypeOK
<1>8. ASSUME NEW t \in Threads, StopEnd(t)
      PROVE  PlacesFit'
  BY <1>1, <1>8 DEF StopEnd, TypeOK
<1>9. CASE ReapScan \/ ReapEnd
  BY <1>1, <1>9 DEF ReapScan, ReapEnd, TypeOK
<1>10. CASE \/ \E i \in Ids : Touch(i) \/ GoIdle(i)
            \/ \E play \in Plays \cup {None}, i \in Ids, paused, cut \in BOOLEAN :
                  RecordProgress(play, i, paused, cut)
            \/ \E g \in Generations : ProcessExits(g) \/ WaitReturns(g)
            \/ Rest \/ UNCHANGED vars
  BY <1>1, <1>10 DEF Touch, GoIdle, RecordProgress, ProcessExits, WaitReturns,
                     Rest, vars, threadVars
<1>11. ASSUME NEW t \in Threads, EnsureRestart(t) \/ EnsureEvict(t)
       PROVE  PlacesFit'
  <2>1. {arg[t].id} \in SUBSET Ids /\ Finished \in SUBSET Ids
    BY <1>1, <1>11 DEF EnsureRestart, EnsureEvict, Args, Finished, Present
  <2> QED
    BY <1>3, <1>11, <2>1 DEF EnsureRestart, EnsureEvict
<1>12. ASSUME NEW t \in Clients,
              \/ \E play \in Plays \cup {None}, i \in Ids : StopPlayback(t, play, i)
              \/ Close(t)
       PROVE  PlacesFit'
  <2>1. \E S \in SUBSET Ids : TakeOut(t, S)
    BY <1>12 DEF StopPlayback, Close, Present
  <2>2. arg' = arg /\ cur' = cur
    BY <1>12 DEF StopPlayback, Close
  <2> QED
    BY <1>3, <2>1, <2>2 DEF Threads
<1>13. CASE ReapStop
  <2>1. \E S \in SUBSET Ids : TakeOut(Reaper, S)
    BY <1>1, <1>13 DEF ReapStop, TypeOK, Threads
  <2>2. arg' = arg /\ cur' = cur
    BY <1>13 DEF ReapStop
  <2> QED
    BY <1>3, <2>1, <2>2 DEF Threads
<1> QED
  BY <1>2, <1>4, <1>5, <1>6, <1>7, <1>8, <1>9, <1>10, <1>11, <1>12, <1>13
     DEF Next, ThreadStep, Request

-----------------------------------------------------------------------------
(* The invariant, and what follows from it *)

(* At any time the map and the hands of the stopping goroutines share out  *)
(* the sessions whose directories are left.                                *)
THEOREM ManagerInvariant == Spec => []ManagerInv
<1>1. Init => ManagerInv
  <2> SUFFICES ASSUME Init PROVE ManagerInv
    OBVIOUS
  <2>1. Len(sess) = 0 /\ Generations = {} /\ sess \in Seq(Sessions)
    BY DEF Init, Generations
  <2>2. TypeOK
    BY <2>1, ManagerAssumption DEF Init, TypeOK
  <2> QED
    BY <2>1, <2>2 DEF Init, ManagerInv, MapFits, HandsFit, PlacesFit, NoneForgotten
<1>2. ManagerInv /\ [Next]_vars => ManagerInv'
  BY TypesKept, MapKept, HandsKept, PlacesKept, NoneForgottenKept DEF ManagerInv
<1> QED
  BY <1>1, <1>2, PTL DEF Spec

(* Every variable stays in its type. *)
THEOREM TypesHold == Spec => []TypeOK
<1>1. ManagerInv => TypeOK
  BY DEF ManagerInv
<1> QED
  BY <1>1, ManagerInvariant, PTL

(* A session is current or in the hands of the one goroutine that stops it, *)
(* and of nobody once its directory is gone.                               *)
THEOREM OwnersHold == Spec => []OwnedOnce
<1>1. ManagerInv => OwnedOnce
  <2> SUFFICES ASSUME ManagerInv, NEW g \in Generations
               PROVE  /\ \A i \in Ids : sessions[i] = g => i = sess[g].id
                      /\ \A t, u \in Stoppers(g) : t = u
                      /\ InMap(g) => Stoppers(g) = {}
                      /\ ~sess[g].dir => ~InMap(g) /\ Stoppers(g) = {}
                      /\ sess[g].dir /\ sess[g].proc # "failed"
                            => InMap(g) \/ Stoppers(g) # {}
    BY DEF OwnedOnce
  <2>1. g \in 1 .. Len(sess)
    BY SessionType DEF ManagerInv, Generations
  <2>2. \A i \in Ids : sessions[i] = g => i = sess[g].id /\ sess[g].dir
    BY <2>1 DEF ManagerInv, MapFits
  <2>3. \A t, u \in Stoppers(g) : t = u
    BY DEF ManagerInv, HandsFit, Stoppers
  <2>4. \A t \in Stoppers(g) : sess[g].dir /\ ~InMap(g)
    BY DEF ManagerInv, HandsFit, Stoppers
  <2> QED
    BY <2>2, <2>3, <2>4 DEF ManagerInv, NoneForgotten, InMap
<1> QED
  BY <1>1, ManagerInvariant, PTL

(* The map never holds more than MaxSessions sessions. *)
THEOREM LimitHolds == Spec => []SessionLimit
<1>1. Init => SessionLimit
  <2> SUFFICES ASSUME Init PROVE SessionLimit
    OBVIOUS
  <2>1. Present = {}
    BY DEF Init, Present
  <2>2. Cardinality(Present) = 0
    BY <2>1, FS_EmptySet
  <2> QED
    BY <2>2, ManagerAssumption DEF SessionLimit
<1>2. ManagerInv /\ SessionLimit /\ [Next]_vars => SessionLimit'
  <2> SUFFICES ASSUME ManagerInv, SessionLimit, [Next]_vars PROVE SessionLimit'
    OBVIOUS
  <2>1. TypeOK /\ PlacesFit
    BY DEF ManagerInv
  <2>2. IsFiniteSet(Present) /\ Cardinality(Present) \in Nat
    BY FS_Subset, FS_CardinalityType, ManagerAssumption DEF Present
  <2>3. ASSUME Present' \subseteq Present PROVE SessionLimit'
    <3>1. Cardinality(Present') <= Cardinality(Present)
      BY <2>2, <2>3, FS_Subset
    <3>2. Cardinality(Present') \in Nat
      BY <2>2, <2>3, FS_Subset, FS_CardinalityType
    <3> QED
      BY <2>2, <3>1, <3>2, ManagerAssumption DEF SessionLimit
  <2>4. CASE Quiet
    BY <2>3, <2>4 DEF Quiet, Present
  <2>5. CASE \E t \in Threads, S \in SUBSET Ids : TakeOut(t, S)
    BY <2>3, <2>5 DEF TakeOut, Without, Present
  <2>6. CASE \E t \in Threads : StopCleanup(t) \/ EnsureStartFails(t)
    BY <2>3, <2>6 DEF StopCleanup, EnsureStartFails, Present
  <2>7. ASSUME NEW t \in Threads, EnsureCreate(t) PROVE SessionLimit'
    <3>1. Cardinality(Present) < MaxSessions
      BY <2>7 DEF EnsureCreate, MayCreate, RoomLeft
    <3>2. sessions' = [sessions EXCEPT ![arg[t].id] = NextGeneration]
      BY <2>7 DEF EnsureCreate
    <3>3. Present' \subseteq Present \cup {arg[t].id}
      BY <2>1, <3>2 DEF Present, TypeOK
    <3>4. /\ IsFiniteSet(Present \cup {arg[t].id})
          /\ Cardinality(Present \cup {arg[t].id})
                \in {Cardinality(Present), Cardinality(Present) + 1}
      BY <2>2, FS_AddElement
    <3>5. /\ Cardinality(Present') <= Cardinality(Present \cup {arg[t].id})
          /\ IsFiniteSet(Present')
      BY <3>3, <3>4, FS_Subset
    <3>6. Cardinality(Present') \in Nat
      BY <3>5, FS_CardinalityType
    <3> QED
      BY <2>2, <3>1, <3>4, <3>5, <3>6, ManagerAssumption DEF SessionLimit
  <2> QED
    BY <2>1, <2>4, <2>5, <2>6, <2>7, StepKinds
<1> QED
  BY <1>1, <1>2, ManagerInvariant, PTL DEF Spec

(* The session an Ensure returns is current, alive and fits the request. *)
THEOREM ReturnsFit == Spec => ReturnsFitting
<1> DEFINE Fits(t) ==
      pc[t] = "ensure" /\ pc'[t] = "idle" /\ got'[t] # 0 =>
          LET s == sess'[got'[t]]
          IN  /\ sessions'[arg[t].id] = got'[t]
              /\ s.proc \in {"running", "exited"}
              /\ ~ShouldRestart(s, arg[t].req)
<1>1. ManagerInv /\ [Next]_vars => \A t \in Clients : Fits(t)
  <2> SUFFICES ASSUME ManagerInv, [Next]_vars, NEW t \in Clients,
                      pc[t] = "ensure", pc'[t] = "idle", got'[t] # 0
               PROVE  /\ sessions'[arg[t].id] = got'[t]
                      /\ sess'[got'[t]].proc \in {"running", "exited"}
                      /\ ~ShouldRestart(sess'[got'[t]], arg[t].req)
    OBVIOUS
  <2>1. TypeOK /\ PlacesFit /\ MapFits /\ t \in Threads /\ t # Reaper
    BY ManagerAssumption DEF ManagerInv, Threads
  <2>2. arg[t] \in Args /\ arg[t].id \in Ids /\ arg[t].req \in Requests
    BY <2>1 DEF PlacesFit, Args
  <2>3. EnsureReuse(t) \/ EnsureCreate(t)
    <3>1. ASSUME NEW u \in Threads, ThreadStep(u)
          PROVE  EnsureReuse(t) \/ EnsureCreate(t)
      <4>1. CASE u # t
        BY <2>1, <3>1, <4>1
           DEF ThreadStep, EnsureRestart, EnsureReuse, EnsureEvict, EnsureReject,
               EnsureCreate, EnsureStartFails, StopBegin, StopSeesDone,
               GraceExpires, KillWaitExpires, StopCleanup, StopEnd, TakeOut,
               Finish, TypeOK
      <4>2. CASE u = t
        BY <2>1, <3>1, <4>2
           DEF ThreadStep, EnsureRestart, EnsureEvict, EnsureReject,
               EnsureStartFails, StopBegin, StopSeesDone,
               GraceExpires, KillWaitExpires, StopCleanup, StopEnd, TakeOut,
               Finish, TypeOK
      <4> QED
        BY <4>1, <4>2
    <3>2. ASSUME NEW u \in Clients, Request(u)
          PROVE  FALSE
      <4>1. pc[u] = "idle" /\ \E k \in {"ensure", "stop"} : pc' = [pc EXCEPT ![u] = k]
        BY <3>2 DEF Request, CallEnsure, StopPlayback, Close, TakeOut
      <4> QED
        BY <2>1, <4>1 DEF TypeOK
    <3>3. CASE ReapScan \/ ReapStop \/ ReapEnd
      BY <2>1, <3>3 DEF ReapScan, ReapStop, ReapEnd, TakeOut, TypeOK
    <3>4. CASE \/ \E i \in Ids : Touch(i) \/ GoIdle(i)
               \/ \E play \in Plays \cup {None}, i \in Ids, paused, cut \in BOOLEAN :
                     RecordProgress(play, i, paused, cut)
               \/ \E g \in Generations : ProcessExits(g) \/ WaitReturns(g)
               \/ Rest \/ UNCHANGED vars
      BY <3>4 DEF Touch, GoIdle, RecordProgress, ProcessExits, WaitReturns, Rest,
                  vars, threadVars
    <3> QED
      BY <3>1, <3>2, <3>3, <3>4 DEF Next
  <2>4. CASE EnsureReuse(t)
    <3> DEFINE g == sessions[arg[t].id]
               play == IF sess[g].play = None THEN arg[t].req.play ELSE sess[g].play
               new == [sess[g] EXCEPT !.idle = FALSE, !.play = play]
    <3>1. g \in 1 .. Len(sess) /\ g # 0 /\ sess[g] \in Sessions
      BY <2>1, <2>2, <2>4, SessionType DEF EnsureReuse, TypeOK
    <3>2. got'[t] = g /\ sessions' = sessions
      BY <2>1, <2>4 DEF EnsureReuse, Finish, TypeOK
    <3>3. sess'[g] = new
      <4>1. sess' = [sess EXCEPT ![g] = new]
        BY <2>4, <3>1 DEF EnsureReuse
      <4>2. g \in DOMAIN sess
        BY <2>1, <3>1, SessionType
      <4> HIDE DEF new, g
      <4> QED
        BY <4>1, <4>2
    <3>4. /\ new.proc = sess[g].proc /\ new.trimmed = sess[g].trimmed
          /\ new.variant = sess[g].variant /\ new.play = play
      BY <3>1 DEF Sessions
    <3>5. sess[g].proc \in {"running", "exited"}
      BY <2>1, <2>2, <2>4, <3>1 DEF EnsureReuse, ProcessDone, MapFits, Sessions
    <3>6. ~ShouldRestart(new, arg[t].req)
      <4>1. ~ShouldRestart(sess[g], arg[t].req)
        BY <2>4 DEF EnsureReuse
      <4> HIDE DEF new, g
      <4> QED
        BY <3>4, <4>1 DEF ShouldRestart
    <3> HIDE DEF new, g
    <3>7. sessions[arg[t].id] = g
      BY DEF g
    <3> QED
      BY <3>2, <3>3, <3>4, <3>5, <3>6, <3>7
  <2>5. CASE EnsureCreate(t)
    <3> DEFINE new == NewSession(t, "running")
    <3>1. MayCreate(t) /\ sess' = Append(sess, new)
      BY <2>5 DEF EnsureCreate
    <3>2. sess'[Len(sess) + 1] = new
      BY <2>1, <2>2, <3>1, AppendEffect
    <3>3. got'[t] = Len(sess) + 1 /\ sessions'[arg[t].id] = Len(sess) + 1
      BY <2>1, <2>2, <2>5 DEF EnsureCreate, Finish, NextGeneration, TypeOK
    <3>4. /\ new.proc = "running" /\ new.trimmed = FALSE
          /\ new.variant = arg[t].req.variant /\ new.play = arg[t].req.play
      BY DEF NewSession
    <3> HIDE DEF new
    <3>5. ~ShouldRestart(new, arg[t].req)
      BY <3>4 DEF ShouldRestart
    <3> QED
      BY <3>2, <3>3, <3>4, <3>5
  <2> QED
    BY <2>3, <2>4, <2>5
<1>2. ManagerInv /\ [Next]_vars => [\A t \in Clients : Fits(t)]_vars
  BY <1>1
<1> HIDE DEF Fits
<1>3. Spec => [][\A t \in Clients : Fits(t)]_vars
  BY <1>2, ManagerInvariant, PTL DEF Spec
<1> QED
  BY <1>3 DEF ReturnsFitting, Fits

=============================================================================
