--------------------------- MODULE BufferControl ---------------------------
(***************************************************************************)
(* Pausing FFmpeg while it is far ahead of playback: bufferActionLocked    *)
(* and applyBufferAction (internal/transcode/manager.go) with the process  *)
(* side, Pause, Resume and StopWithGrace (manager_process_unix.go).        *)
(*                                                                         *)
(* One session.  A goroutine that records a segment request, a check-in or *)
(* a ready segment, or reconciles on a timer, decides under m.mu and       *)
(* applies its decision after the unlock, in steps that interleave with    *)
(* those of others: look at the paused flag, signal, set the flag.         *)
(* Positions and lengths count segments from the session's first one.      *)
(*                                                                         *)
(* A definition named D_X is D with a plausible bug in it.                 *)
(***************************************************************************)
EXTENDS Naturals, FiniteSetsExt

CONSTANTS
    Handlers,       \* goroutines serving segment requests and check-ins
    Reaper,         \* the goroutine of StartReaper
    PauseAt,        \* BufferPauseThreshold
    ResumeAt,       \* BufferResumeThreshold
    Forward,        \* segmentForwardWindow
    Last            \* segments FFmpeg will write, a bound

ASSUME BufferAssumption ==
    /\ {PauseAt, ResumeAt, Forward, Last} \subseteq Nat
    /\ Reaper \notin Handlers

VARIABLES
    made,       \* segments written so far
    seen,       \* HighestSegmentSeen
    position,   \* PositionTicks
    buffered,   \* session.bufferPaused: the manager's view
    proc,       \* the process: "stopped" after SIGSTOP
    flag,       \* execProcess.paused
    doing,      \* what each goroutine is about to do
    stop,       \* the goroutine in StopWithGrace, once the session is taken out
    calm        \* history: decisions, up to 2, since one was made while another
                \* was being applied

playVars == <<made, seen, position>>
bufferVars == <<playVars, buffered, proc, flag, doing, stop, calm>>

Actors == Handlers \cup {Reaper}

BufferTypeOK ==
    /\ {made, seen, position} \subseteq 0 .. Last
    /\ buffered \in BOOLEAN /\ flag \in BOOLEAN
    /\ proc \in {"running", "stopped", "exited"}
    /\ doing \in [Actors -> {"idle", "pause", "SIGSTOP", "set",
                             "resume", "SIGCONT", "clear"}]
    /\ stop \in {"none", "begin", "SIGCONT", "clear", "quit", "grace", "gone"}
    /\ calm \in 0 .. 2

BufferInit ==
    /\ made = 0 /\ seen = 0 /\ position = 0
    /\ buffered = FALSE /\ flag = FALSE
    /\ proc = "running"
    /\ doing = [a \in Actors |-> "idle"]
    /\ stop = "none"
    /\ calm = 2

Applied == \A a \in Actors : doing[a] = "idle"

-----------------------------------------------------------------------------
(* Deciding, under the lock *)

(* sessionBufferTicks: every segment written is counted, and what was      *)
(* asked for counts as played.                                             *)
Buffer(s, p) == LET played == Max({s, p}) IN IF made > played THEN made - played ELSE 0

(* What a decision to pause or resume makes of calm *)
Calmer == IF Applied THEN Min({calm + 1, 2}) ELSE 0

(* bufferActionLocked, after the playhead moved to s and p.  Nothing keeps *)
(* it waiting for an earlier decision to be applied.                       *)
Decide(a, s, p) ==
    /\ doing[a] = "idle" /\ stop = "none"
    /\ seen' = s /\ position' = p
    /\ LET resume == buffered /\ Buffer(s, p) < ResumeAt
           pause == ~buffered /\ Buffer(s, p) > PauseAt
       IN  /\ buffered' = (pause \/ (buffered /\ ~resume))
           /\ doing' = [doing EXCEPT ![a] = IF pause THEN "pause"
                                     ELSE IF resume THEN "resume" ELSE "idle"]
           /\ calm' = IF pause \/ resume THEN Calmer ELSE calm
    /\ UNCHANGED <<made, proc, flag, stop>>

HighestSeen(n) == Max({seen, n})

(* A segment that exists or lies in the forward window *)
RecordSegmentRequest(a) ==
    \E n \in 0 .. Last :
        /\ n < made \/ n <= seen + Forward
        /\ Decide(a, HighestSeen(n), position)

(* A segment was waited for and found; the count sees it anyway. *)
RecordSegmentReady(a) == Decide(a, seen, position)

RecordProgress(a) == \E p \in 0 .. Last : Decide(a, seen, p)

ReconcileBuffers == Decide(Reaper, seen, position)

-----------------------------------------------------------------------------
(* Applying, without the lock: Pause and Resume of the process.  Done()    *)
(* may still be FALSE for a process that has exited.                       *)

Step(a, label) == doing' = [doing EXCEPT ![a] = label]

PauseLooks(a) ==
    /\ doing[a] = "pause"
    /\ \/ (proc = "exited" \/ flag) /\ Step(a, "idle")
       \/ ~flag /\ Step(a, "SIGSTOP")
    /\ UNCHANGED <<playVars, buffered, proc, flag, stop, calm>>

ResumeLooks_Inverted(a) ==
    /\ doing[a] = "resume"
    /\ \/ (proc = "exited" \/ flag) /\ Step(a, "idle")
       \/ ~flag /\ Step(a, "SIGCONT")
    /\ UNCHANGED <<playVars, buffered, proc, flag, stop, calm>>

ResumeLooks(a) ==
    /\ doing[a] = "resume"
    /\ \/ (proc = "exited" \/ ~flag) /\ Step(a, "idle")
       \/ flag /\ Step(a, "SIGCONT")
    /\ UNCHANGED <<playVars, buffered, proc, flag, stop, calm>>

(* SIGSTOP or SIGCONT; to a process that is gone, an error is returned, or *)
(* not if it was not yet waited for.                                       *)
Signal(a) ==
    /\ doing[a] \in {"SIGSTOP", "SIGCONT"}
    /\ LET next == IF doing[a] = "SIGSTOP" THEN "set" ELSE "clear"
       IN  IF proc = "exited"
           THEN UNCHANGED proc /\ \E l \in {next, "idle"} : Step(a, l)
           ELSE /\ proc' = IF doing[a] = "SIGSTOP" THEN "stopped" ELSE "running"
                /\ Step(a, next)
    /\ UNCHANGED <<playVars, buffered, flag, stop, calm>>

StoreFlag_Unset(a) ==
    /\ doing[a] \in {"set", "clear"}
    /\ Step(a, "idle")
    /\ UNCHANGED <<playVars, buffered, proc, flag, stop, calm>>

StoreFlag(a) ==
    /\ doing[a] \in {"set", "clear"}
    /\ flag' = (doing[a] = "set")
    /\ Step(a, "idle")
    /\ UNCHANGED <<playVars, buffered, proc, stop, calm>>

Apply(a) == PauseLooks(a) \/ ResumeLooks(a) \/ Signal(a) \/ StoreFlag(a)

-----------------------------------------------------------------------------
(* StopWithGrace, by whoever took the session out of the map *)

Stopping(from, to) ==
    /\ stop = from /\ stop' = to
    /\ UNCHANGED <<playVars, buffered, doing, calm>>

TakenOut == Stopping("none", "begin") /\ UNCHANGED <<proc, flag>>

StopLooks ==
    /\ \/ proc = "exited" /\ Stopping("begin", "gone")
       \/ flag /\ Stopping("begin", "SIGCONT")
       \/ ~flag /\ Stopping("begin", "quit")
    /\ UNCHANGED <<proc, flag>>

StopWakes ==
    /\ Stopping("SIGCONT", "clear")
    /\ proc' = IF proc = "exited" THEN proc ELSE "running"
    /\ UNCHANGED flag

StopClears == Stopping("clear", "quit") /\ flag' = FALSE /\ UNCHANGED proc

WriteQuit == Stopping("quit", "grace") /\ UNCHANGED <<proc, flag>>

StopSeesEnd == Stopping("grace", "gone") /\ proc = "exited" /\ UNCHANGED <<proc, flag>>

GraceExpires_NoKill == Stopping("grace", "grace") /\ UNCHANGED <<proc, flag>>

(* Process.Kill, which a stopped process obeys too *)
GraceExpires == Stopping("grace", "gone") /\ proc' = "exited" /\ UNCHANGED flag

Stop == StopLooks \/ StopWakes \/ StopClears \/ WriteQuit \/ StopSeesEnd \/ GraceExpires

-----------------------------------------------------------------------------
(* FFmpeg *)

WriteSegment ==
    /\ proc = "running" /\ made < Last
    /\ made' = made + 1
    /\ UNCHANGED <<seen, position, buffered, proc, flag, doing, stop, calm>>

(* At the end of the input, of its own accord, or having read "q" *)
Exit ==
    /\ proc = "running"
    /\ proc' = "exited"
    /\ UNCHANGED <<playVars, buffered, flag, doing, stop, calm>>

Over == stop = "gone" /\ proc = "exited" /\ Applied /\ UNCHANGED bufferVars

BufferNext ==
    \/ \E a \in Handlers :
           RecordSegmentRequest(a) \/ RecordSegmentReady(a) \/ RecordProgress(a)
    \/ ReconcileBuffers
    \/ \E a \in Actors : Apply(a)
    \/ TakenOut \/ Stop
    \/ WriteSegment \/ Exit
    \/ Over

BufferSpec == BufferInit /\ [][BufferNext]_bufferVars

(* Goroutines are scheduled; the reaper's ticker fires again and again and *)
(* it gets the lock.  Nothing obliges FFmpeg to go on or a client to ask.  *)
BufferFairSpec ==
    /\ BufferSpec
    /\ \A a \in Actors : WF_bufferVars(Apply(a))
    /\ SF_bufferVars(ReconcileBuffers)
    /\ WF_bufferVars(Stop)

-----------------------------------------------------------------------------
(* Properties *)

(* Decisions are applied after the unlock and may overtake each other.     *)
(* What that leaves behind is repaired by the next two: whenever nobody is *)
(* at work, one decision that met no other brings the flag, which later    *)
(* ones rely on, back to what the manager believes, and a second one the   *)
(* process.  Where decisions never meet they agree all the time.           *)
Settled ==
    Applied /\ stop = "none" /\ proc # "exited" =>
        /\ calm >= 1 => (flag <=> buffered)
        /\ calm = 2 => (proc = "stopped" <=> buffered)

Low == Buffer(seen, position) < ResumeAt

(* README: "When buffered media falls back under buffer_resume_seconds,    *)
(* FFmpeg resumes": it does not stay stopped with an empty buffer.  That   *)
(* is not so once two decisions met.                                       *)
ResumesWhenLow == proc = "stopped" /\ Low ~> proc # "stopped" \/ ~Low

(* It is so until then, or again after two decisions that met no other:    *)
(* FFmpeg is woken, unless a decision is made while another is applied.    *)
ResumesUnlessCrossed ==
    proc = "stopped" /\ Low /\ calm = 2 ~> proc # "stopped" \/ ~Low \/ calm = 0

(* A session that is given up ends, even if a belated pause stops FFmpeg   *)
(* after it was woken to read "q".                                         *)
StopEnds == stop = "begin" ~> stop = "gone" /\ proc = "exited"

=============================================================================
