--------------------------- MODULE SessionManager ---------------------------
(***************************************************************************)
(* The transcode session manager (internal/transcode/manager.go): the map  *)
(* from session id to session, its limit, and the life of each session's   *)
(* FFmpeg process and directory, under concurrent HLS requests, playback   *)
(* check-ins, the idle reaper and Close.                                   *)
(*                                                                         *)
(* A session is known by its generation number, its position in `sess`.    *)
(* Every action that reads or writes the map is one critical section of    *)
(* m.mu; a session taken out of the map is stopped after the unlock.  What *)
(* shouldRestart compares besides the client's play session and the oldest *)
(* segment kept (input URL, audio stream, start position) is one value,    *)
(* the variant.  An item has one media source and is its session's id.     *)
(*                                                                         *)
(* A definition named D_X is D with a plausible bug in it: it is used  *)
(* by no specification, only to see the properties fail.                   *)
(***************************************************************************)
EXTENDS Naturals, Sequences, FiniteSets

CONSTANTS
    Ids,            \* session ids
    Plays,          \* client play sessions
    Variants,       \* what else makes a request need another FFmpeg
    None,           \* no play session
    Requests,       \* what the clients' requests ask for
    Clients,        \* goroutines serving HTTP requests
    Reaper,         \* the goroutine of StartReaper
    MaxSessions,    \* options.MaxSessions
    MaxCalls        \* bound on the calls the clients make

ASSUME ManagerAssumption ==
    /\ IsFiniteSet(Ids)
    /\ MaxSessions \in Nat \ {0}
    /\ MaxCalls \in Nat
    /\ None \notin Plays
    /\ None \notin [id : Ids, req : Requests]
    /\ Requests \subseteq [play : Plays \cup {None}, variant : Variants,
                           input : BOOLEAN, early : BOOLEAN]
    /\ Reaper \notin Clients

VARIABLES
    sessions,   \* m.sessions: id -> generation, 0 when absent
    sess,       \* every session created, by generation
    pc,         \* what each goroutine is about to do
    arg,        \* the id and request of its Ensure
    todo,       \* sessions it took out of the map and has to stop
    cur,        \* the one it is stopping, 0 for none
    expired,    \* ids ReapIdle found, still to stop
    got,        \* the session its last Ensure returned, 0 for an error
    calls       \* calls made by clients so far

threadVars == <<pc, arg, todo, cur, expired, got>>
vars == <<sessions, sess, threadVars, calls>>

Threads == Clients \cup {Reaper}
Generations == DOMAIN sess

(* proc: "failed" when Runner.Start failed, "exited" once the process is   *)
(* gone, "done" once the goroutine in Start has seen it and set done.      *)
(* trimmed: OldestSegmentKept passed its first segment.  Of a request,     *)
(* input says it names an input URL and early that it asks for a segment   *)
(* a trimmed session no longer keeps.                                      *)
Sessions == [id : Ids, play : Plays \cup {None}, variant : Variants,
             proc : {"failed", "running", "exited", "done"},
             dir : BOOLEAN, idle : BOOLEAN, trimmed : BOOLEAN]
Args == [id : Ids, req : Requests]

TypeOK ==
    /\ sess \in Seq(Sessions)
    /\ sessions \in [Ids -> 0 .. Len(sess)]
    /\ pc \in [Threads -> {"idle", "ensure", "stop", "grace", "kill", "cleanup", "reap"}]
    /\ arg \in [Threads -> Args \cup {None}]
    /\ todo \in [Threads -> SUBSET (1 .. Len(sess))]
    /\ cur \in [Threads -> 0 .. Len(sess)]
    /\ expired \in [Threads -> SUBSET Ids]
    /\ got \in [Threads -> 0 .. Len(sess)]
    /\ calls \in 0 .. MaxCalls

Init ==
    /\ sessions = [i \in Ids |-> 0]
    /\ sess = <<>>
    /\ pc = [t \in Threads |-> "idle"]
    /\ arg = [t \in Threads |-> None]
    /\ todo = [t \in Threads |-> {}]
    /\ cur = [t \in Threads |-> 0]
    /\ expired = [t \in Threads |-> {}]
    /\ got = [t \in Threads |-> 0]
    /\ calls = 0

-----------------------------------------------------------------------------
(* The map *)

Present == {i \in Ids : sessions[i] # 0}
ProcessDone(i) == sess[sessions[i]].proc = "done"

(* delete(m.sessions, id) for the ids of S *)
Without_Kept(S) == sessions
Without(S) == [i \in Ids |-> IF i \in S THEN 0 ELSE sessions[i]]

(* Goroutine t takes the sessions of S out of the map and goes on to stop  *)
(* them, outside the lock.  From now on only a session's process and       *)
(* directory matter: the rest is cleared.                                  *)
TakeOut(t, S) ==
    LET taken == {sessions[i] : i \in S \cap Present}
    IN  /\ sessions' = Without(S)
        /\ todo' = [todo EXCEPT ![t] = taken]
        /\ pc' = [pc EXCEPT ![t] = "stop"]
        /\ sess' = [g \in Generations |->
              IF g \in taken
              THEN [sess[g] EXCEPT !.play = None, !.idle = FALSE, !.trimmed = FALSE]
              ELSE sess[g]]

(* Returning: the goroutine is free for another call. *)
Finish(t, g) ==
    /\ pc' = [pc EXCEPT ![t] = "idle"]
    /\ arg' = [arg EXCEPT ![t] = None]
    /\ got' = [got EXCEPT ![t] = g]

-----------------------------------------------------------------------------
(* Ensure *)

ShouldRestart(s, req) ==
    \/ req.early /\ s.trimmed
    \/ req.play # None /\ s.play # None /\ req.play # s.play
    \/ req.variant # s.variant

CallEnsure(t, i, req) ==
    /\ pc[t] = "idle" /\ calls < MaxCalls
    /\ calls' = calls + 1
    /\ pc' = [pc EXCEPT ![t] = "ensure"]
    /\ arg' = [arg EXCEPT ![t] = [id |-> i, req |-> req]]
    /\ got' = [got EXCEPT ![t] = 0]
    /\ UNCHANGED <<sessions, sess, todo, cur, expired>>

(* The session's process is done, or the request needs another one: take   *)
(* it out of the map, stop it, and look again.                             *)
EnsureRestart(t) ==
    LET i == arg[t].id
    IN  /\ pc[t] = "ensure"
        /\ sessions[i] # 0
        /\ ProcessDone(i) \/ ShouldRestart(sess[sessions[i]], arg[t].req)
        /\ TakeOut(t, {i})
        /\ UNCHANGED <<arg, cur, expired, got, calls>>

EnsureReuse_EvenDone(t) ==
    LET i == arg[t].id
        g == sessions[i]
    IN  /\ pc[t] = "ensure"
        /\ g # 0
        /\ ~ShouldRestart(sess[g], arg[t].req)
        /\ sess' = [sess EXCEPT ![g].idle = FALSE]
        /\ Finish(t, g)
        /\ UNCHANGED <<sessions, todo, cur, expired, calls>>

(* touchSession: the access times, and a play session not known before *)
EnsureReuse(t) ==
    LET i == arg[t].id
        g == sessions[i]
        play == IF sess[g].play = None THEN arg[t].req.play ELSE sess[g].play
    IN  /\ pc[t] = "ensure"
        /\ g # 0
        /\ ~ProcessDone(i) /\ ~ShouldRestart(sess[g], arg[t].req)
        /\ sess' = [sess EXCEPT ![g].idle = FALSE, ![g].play = play]
        /\ Finish(t, g)
        /\ UNCHANGED <<sessions, todo, cur, expired, calls>>

(* removeDoneSessionsLocked: room is made before the limit is checked. *)
Finished == {i \in Present : ProcessDone(i)}

EnsureEvict(t) ==
    /\ pc[t] = "ensure"
    /\ sessions[arg[t].id] = 0
    /\ Finished # {}
    /\ TakeOut(t, Finished)
    /\ UNCHANGED <<arg, cur, expired, got, calls>>

RoomLeft == Cardinality(Present) < MaxSessions

(* ErrTooManySessions, or "input url is required" *)
EnsureReject(t) ==
    /\ pc[t] = "ensure"
    /\ sessions[arg[t].id] = 0
    /\ Finished = {}
    /\ ~RoomLeft \/ ~arg[t].req.input
    /\ Finish(t, 0)
    /\ UNCHANGED <<sessions, sess, todo, cur, expired, calls>>

NewSession(t, p) ==
    [id |-> arg[t].id, play |-> arg[t].req.play, variant |-> arg[t].req.variant,
     proc |-> p, dir |-> TRUE, idle |-> FALSE, trimmed |-> FALSE]

MayCreate(t) ==
    /\ pc[t] = "ensure"
    /\ sessions[arg[t].id] = 0
    /\ Finished = {}
    /\ RoomLeft /\ arg[t].req.input

(* m.nextGeneration.Add(1) *)
NextGeneration == Len(sess) + 1

(* The next generation's directory is made and Runner.Start succeeds. *)
EnsureCreate(t) ==
    /\ MayCreate(t)
    /\ sess' = Append(sess, NewSession(t, "running"))
    /\ sessions' = [sessions EXCEPT ![arg[t].id] = NextGeneration]
    /\ Finish(t, NextGeneration)
    /\ UNCHANGED <<todo, cur, expired, calls>>

(* Runner.Start fails: an error is returned, the directory stays. *)
EnsureStartFails(t) ==
    /\ MayCreate(t)
    /\ sess' = Append(sess, NewSession(t, "failed"))
    /\ Finish(t, 0)
    /\ UNCHANGED <<sessions, todo, cur, expired, calls>>

-----------------------------------------------------------------------------
(* stopSessionWithGrace, one session of todo[t] after the other *)

(* Done already: straight to the cleanup; otherwise "q" is written. *)
StopBegin(t) ==
    /\ pc[t] = "stop"
    /\ \E g \in todo[t] :
        /\ cur' = [cur EXCEPT ![t] = g]
        /\ pc' = [pc EXCEPT ![t] = IF sess[g].proc \in {"done", "failed"}
                                  THEN "cleanup" ELSE "grace"]
    /\ UNCHANGED <<sessions, sess, arg, todo, expired, got, calls>>

(* <-doneCh, in either wait *)
StopSeesDone(t) ==
    /\ pc[t] \in {"grace", "kill"}
    /\ sess[cur[t]].proc = "done"
    /\ pc' = [pc EXCEPT ![t] = "cleanup"]
    /\ UNCHANGED <<sessions, sess, arg, todo, cur, expired, got, calls>>

GraceExpires_NoTimer(t) == FALSE

(* Process.Kill, then the wait for its end *)
GraceExpires(t) ==
    /\ pc[t] = "grace"
    /\ sess[cur[t]].proc # "done"
    /\ pc' = [pc EXCEPT ![t] = "kill"]
    /\ UNCHANGED <<sessions, sess, arg, todo, cur, expired, got, calls>>

KillWaitExpires(t) ==
    /\ pc[t] = "kill"
    /\ sess[cur[t]].proc # "done"
    /\ pc' = [pc EXCEPT ![t] = "cleanup"]
    /\ UNCHANGED <<sessions, sess, arg, todo, cur, expired, got, calls>>

(* session.cancel(), which kills the command, then os.RemoveAll *)
StopCleanup(t) ==
    /\ pc[t] = "cleanup"
    /\ sess' = [sess EXCEPT ![cur[t]].dir = FALSE]
    /\ todo' = [todo EXCEPT ![t] = @ \ {cur[t]}]
    /\ cur' = [cur EXCEPT ![t] = 0]
    /\ pc' = [pc EXCEPT ![t] = "stop"]
    /\ UNCHANGED <<sessions, arg, expired, got, calls>>

(* Everything is stopped: Ensure looks again, ReapIdle goes to its next id, *)
(* StopPlayback and Close return.                                          *)
StopEnd(t) ==
    /\ pc[t] = "stop"
    /\ todo[t] = {}
    /\ pc' = [pc EXCEPT ![t] = IF arg[t] # None THEN "ensure"
                              ELSE IF t = Reaper THEN "reap" ELSE "idle"]
    /\ UNCHANGED <<sessions, sess, arg, todo, cur, expired, got, calls>>

-----------------------------------------------------------------------------
(* StopPlayback, Close, ReapIdle and the operations that only touch *)

(* matchesPlayback: by client play session, else by item *)
Matches(i, play, item) ==
    \/ play # None /\ sess[sessions[i]].play = play
    \/ item = i

StopPlayback(t, play, item) ==
    /\ pc[t] = "idle" /\ calls < MaxCalls
    /\ calls' = calls + 1
    /\ TakeOut(t, {i \in Present : Matches(i, play, item)})
    /\ UNCHANGED <<arg, cur, expired, got>>

Close(t) ==
    /\ pc[t] = "idle" /\ calls < MaxCalls
    /\ calls' = calls + 1
    /\ TakeOut(t, Present)
    /\ UNCHANGED <<arg, cur, expired, got>>

Reapable(i) == ProcessDone(i) \/ sess[sessions[i]].idle

ReapScan ==
    /\ pc[Reaper] = "idle"
    /\ \E i \in Present : Reapable(i)
    /\ expired' = [expired EXCEPT ![Reaper] = {i \in Present : Reapable(i)}]
    /\ pc' = [pc EXCEPT ![Reaper] = "reap"]
    /\ UNCHANGED <<sessions, sess, arg, todo, cur, got, calls>>

(* m.Stop(id), by the id found in the scan *)
ReapStop ==
    /\ pc[Reaper] = "reap"
    /\ \E i \in expired[Reaper] :
        /\ expired' = [expired EXCEPT ![Reaper] = @ \ {i}]
        /\ TakeOut(Reaper, {i})
    /\ UNCHANGED <<arg, cur, got, calls>>

ReapEnd ==
    /\ pc[Reaper] = "reap"
    /\ expired[Reaper] = {}
    /\ pc' = [pc EXCEPT ![Reaper] = "idle"]
    /\ UNCHANGED <<sessions, sess, arg, todo, cur, expired, got, calls>>

(* A playback check-in of a client: every session it matches learns the    *)
(* play session, is renewed unless it reports a pause, and may have old    *)
(* segments removed.                                                       *)
RecordProgress(play, item, paused, cut) ==
    /\ \E i \in Present : Matches(i, play, item)
    /\ sess' = [g \in Generations |->
          IF \E i \in Present : sessions[i] = g /\ Matches(i, play, item)
          THEN [sess[g] EXCEPT !.play = IF @ = None THEN play ELSE @,
                               !.idle = @ /\ paused,
                               !.trimmed = @ \/ cut]
          ELSE sess[g]]
    /\ UNCHANGED <<sessions, threadVars, calls>>

(* Get and RecordSegmentRequest renew the access times. *)
Touch(i) ==
    /\ sessions[i] # 0
    /\ sess[sessions[i]].idle
    /\ sess' = [sess EXCEPT ![sessions[i]].idle = FALSE]
    /\ UNCHANGED <<sessions, threadVars, calls>>

(* IdleTimeout passes since the last access. *)
GoIdle(i) ==
    /\ sessions[i] # 0
    /\ ~sess[sessions[i]].idle
    /\ sess' = [sess EXCEPT ![sessions[i]].idle = TRUE]
    /\ UNCHANGED <<sessions, threadVars, calls>>

-----------------------------------------------------------------------------
(* The process: it may end by itself at any time, and does once killed *)

ProcessExits(g) ==
    /\ sess[g].proc = "running"
    /\ sess' = [sess EXCEPT ![g].proc = "exited"]
    /\ UNCHANGED <<sessions, threadVars, calls>>

(* cmd.Wait returned: the input is released, the log archived, done set. *)
WaitReturns(g) ==
    /\ sess[g].proc = "exited"
    /\ sess' = [sess EXCEPT ![g].proc = "done"]
    /\ UNCHANGED <<sessions, threadVars, calls>>

ThreadStep(t) ==
    \/ EnsureRestart(t) \/ EnsureReuse(t) \/ EnsureEvict(t) \/ EnsureReject(t)
    \/ EnsureCreate(t) \/ EnsureStartFails(t)
    \/ StopBegin(t) \/ StopSeesDone(t) \/ GraceExpires(t) \/ KillWaitExpires(t)
    \/ StopCleanup(t) \/ StopEnd(t)

Request(t) ==
    \/ \E i \in Ids, req \in Requests : CallEnsure(t, i, req)
    \/ \E play \in Plays \cup {None}, i \in Ids : StopPlayback(t, play, i)
    \/ Close(t)

(* No session is left and nobody is at work: the only rest. *)
Rest ==
    /\ Present = {}
    /\ \A t \in Threads : pc[t] = "idle"
    /\ \A g \in Generations : sess[g].proc \in {"done", "failed"}
    /\ UNCHANGED vars

Next ==
    \/ \E t \in Threads : ThreadStep(t)
    \/ \E t \in Clients : Request(t)
    \/ ReapScan \/ ReapStop \/ ReapEnd
    \/ \E i \in Ids : Touch(i) \/ GoIdle(i)
    \/ \E play \in Plays \cup {None}, i \in Ids, paused, cut \in BOOLEAN :
          RecordProgress(play, i, paused, cut)
    \/ \E g \in Generations : ProcessExits(g) \/ WaitReturns(g)
    \/ Rest

Spec == Init /\ [][Next]_vars

(* Process.Kill was called, or the context of the command cancelled *)
Killed(g) == ~sess[g].dir \/ \E t \in Threads : pc[t] = "kill" /\ cur[t] = g
WaitEnds(g) == g \in Generations /\ (WaitReturns(g) \/ (Killed(g) /\ ProcessExits(g)))

(* Goroutines are scheduled, timers fire, a killed process goes away and   *)
(* is waited for.  Nothing obliges a client to call, a process to end by   *)
(* itself or a session to fall idle.                                       *)
Fairness ==
    /\ \A t \in Threads : WF_vars(ThreadStep(t))
    /\ WF_vars(ReapScan) /\ WF_vars(ReapStop) /\ WF_vars(ReapEnd)
    /\ \A g \in 1 .. MaxCalls : WF_vars(WaitEnds(g))

FairSpec == Spec /\ Fairness

-----------------------------------------------------------------------------
(* Properties *)

InMap(g) == sess[g].id \in Ids /\ sessions[sess[g].id] = g
Stoppers(g) == {t \in Threads : g \in todo[t]}

(* A session is either current (in the map under its own id) or in the     *)
(* hands of the one goroutine that will stop it, and of nobody once its    *)
(* directory is gone: it is never stopped twice, served after it was       *)
(* given up, or forgotten with FFmpeg still running.                       *)
OwnedOnce ==
    \A g \in Generations :
        /\ \A i \in Ids : sessions[i] = g => i = sess[g].id
        /\ \A t, u \in Stoppers(g) : t = u
        /\ InMap(g) => Stoppers(g) = {}
        /\ ~sess[g].dir => ~InMap(g) /\ Stoppers(g) = {}
        /\ sess[g].dir /\ sess[g].proc # "failed" => InMap(g) \/ Stoppers(g) # {}

(* A session in the map is there under its own id, with its directory and  *)
(* a process that was started.                                             *)
MapFits ==
    \A i \in Ids : sessions[i] # 0 =>
        /\ sess[sessions[i]].id = i
        /\ sess[sessions[i]].dir
        /\ sess[sessions[i]].proc # "failed"

(* What goroutines have taken out is out, theirs alone and still on disk. *)
HandsFit ==
    \A t \in Threads :
        /\ \A g \in todo[t] : sess[g].dir /\ ~InMap(g)
        /\ \A u \in Threads : u # t => todo[t] \cap todo[u] = {}

(* A goroutine stops one of the sessions it took out; back from stopping   *)
(* it has none left; in Ensure it knows what it was asked for.             *)
PlacesFit ==
    \A t \in Threads :
        /\ pc[t] \notin {"stop", "grace", "kill", "cleanup"} => todo[t] = {}
        /\ pc[t] \in {"grace", "kill", "cleanup"} => cur[t] \in todo[t]
        /\ pc[t] = "ensure" => arg[t] \in Args

(* No started session is forgotten before its directory is removed. *)
NoneForgotten ==
    \A g \in Generations :
        sess[g].dir /\ sess[g].proc # "failed" => InMap(g) \/ Stoppers(g) # {}

(* The inductive invariant: the map and the hands of the goroutines that   *)
(* stop sessions share out the sessions whose directories are left.        *)
ManagerInv ==
    /\ TypeOK
    /\ MapFits
    /\ HandsFit
    /\ PlacesFit
    /\ NoneForgotten

(* MaxSessions bounds the map, although Ensure gives the lock up between   *)
(* making room and creating.                                               *)
SessionLimit == Cardinality(Present) <= MaxSessions

(* Ensure returns the session that is current for the id at that moment,   *)
(* whose process is not done and fits the request.                         *)
ReturnsFitting ==
    [][\A t \in Clients : pc[t] = "ensure" /\ pc'[t] = "idle" /\ got'[t] # 0 =>
          LET s == sess'[got'[t]]
          IN  /\ sessions'[arg[t].id] = got'[t]
              /\ s.proc \in {"running", "exited"}
              /\ ~ShouldRestart(s, arg[t].req)]_vars

(* Whoever gives a session up, its FFmpeg ends and its directory goes.     *)
GivenUpReclaimed ==
    \A g \in 1 .. MaxCalls :
        g \in Generations /\ Stoppers(g) # {}
            ~> g \in Generations /\ ~sess[g].dir /\ sess[g].proc \in {"done", "failed"}

(* Ensure looks again after every stop, and others may create, take over   *)
(* or evict sessions while it stops one.  It answers all the same once the *)
(* calls of others come to an end (there are MaxCalls of them): no turn of *)
(* its loop repeats unless another call has put a session in its way.      *)
(* With calls for another variant that never end the loop need not either. *)
EnsureAnswers == \A t \in Clients : pc[t] = "ensure" ~> pc[t] = "idle"

(* README: "If neither playback activity nor HLS access arrives before     *)
(* idle_timeout_seconds, the idle reaper stops the session."  What the     *)
(* reaper takes out is, at that moment, idle or done.                      *)
ReapsOnlyIdle ==
    [][pc[Reaper] = "reap" /\ pc'[Reaper] = "stop" =>
          \A i \in Present : sessions'[i] = 0 => Reapable(i)]_vars

=============================================================================
