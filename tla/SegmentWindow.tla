--------------------------- MODULE SegmentWindow ---------------------------
(***************************************************************************)
(* The segments of one id: the HLS handler (internal/transcode/handler.go) *)
(* with the parts of the manager that decide whether a request fits the    *)
(* FFmpeg that runs (shouldRestart, touchSession), count what was written  *)
(* (refreshReadySegments) and delete what was played (RecordProgress,      *)
(* cleanupOldSegments).                                                    *)
(*                                                                         *)
(* Positions are in segments: a request for segment n carries the start of *)
(* segment n, and the StartTimeTicks of the playlist it was taken from.    *)
(* Requests ask for the same input and audio stream: what else makes a     *)
(* session fit, and the limit on sessions, are SessionManager's.  Each     *)
(* step is one critical section of m.mu, or what happens between two.      *)
(*                                                                         *)
(* A definition named D_X is D with a plausible bug in it.                 *)
(***************************************************************************)
EXTENDS Naturals, Sequences, FiniteSets

CONSTANTS
    Clients,    \* requests being served at once
    Final,       \* the last segment of the media
    Starts,     \* StartTimeTicks a playlist may be asked for
    Forward,    \* segmentForwardWindow
    Retention,  \* SegmentRetention
    MaxSessions,\* bound on the generations a process starts
    MaxRestarts \* bound on the restarts of the process

ASSUME WindowAssumption ==
    /\ {Final, Forward, Retention, MaxSessions, MaxRestarts} \subseteq Nat
    /\ Starts \subseteq 0 .. Final

Segments == 0 .. Final

VARIABLES
    cur,        \* the generation in m.sessions, 0 for none
    sess,       \* what the manager knows of it
    dirs,       \* of every generation: its FFmpeg and its directory
    tasks,      \* segment cleanups decided and not yet carried out
    req,        \* what each client asks for, and where its handler is
    left,       \* generation -> what its directory holds since before the start
    restarts    \* restarts so far

diskVars == <<left, restarts>>
windowVars == <<cur, sess, dirs, tasks, req, diskVars>>

(* SegmentStartIndex, RequestedStartTimeTicks, OldestSegmentKept,          *)
(* HighestSegmentSeen and, of ReadySegmentCount, whether it is above 0     *)
Sessions == [start : Segments, asked : Segments, oldest : Segments,
             seen : Segments, ready : BOOLEAN]

(* A generation: base is where its FFmpeg began, made what it writes next. *)
Dirs == [base : Segments, made : 0 .. Final + 1, files : SUBSET Segments,
         ffmpeg : {"running", "done"}]
NoDir == [base |-> 0, made |-> 0, files |-> {}, ffmpeg |-> "stopped"]

Requests == [at : {"idle", "ensure", "stop", "record", "wait", "window", "first", "again"},
             segment : BOOLEAN, n : Segments, asked : Segments, given : 0 .. MaxSessions]
NoRequest == [at |-> "idle", segment |-> FALSE, n |-> 0, asked |-> 0, given |-> 0]

Fresh(r) == [start |-> r.n, asked |-> r.asked, oldest |-> r.n, seen |-> r.n, ready |-> FALSE]
NoSession == Fresh(NoRequest)

SegTypeOK ==
    /\ dirs \in Seq(Dirs \cup {NoDir}) /\ Len(dirs) <= MaxSessions
    /\ cur \in 0 .. Len(dirs)
    /\ sess \in Sessions /\ (cur = 0 => sess = NoSession)
    /\ cur # 0 => dirs[cur] # NoDir /\ sess.oldest >= sess.start
    /\ \A t \in tasks : t.generation \in DOMAIN dirs /\ t.before \in Segments
    /\ \A c \in DOMAIN req : req[c] \in Requests
    /\ \A g \in DOMAIN left : left[g] \subseteq Segments

WindowInit ==
    /\ cur = 0 /\ sess = NoSession /\ dirs = <<>>
    /\ tasks = {}
    /\ req = [c \in Clients |-> NoRequest]
    /\ left = [g \in 1 .. MaxSessions |-> {}]
    /\ restarts = 0

-----------------------------------------------------------------------------
(* What the handler and the manager look at *)

Larger(a, b) == IF a < b THEN b ELSE a

(* segmentReusable *)
Reusable_ForgetsDeleted(n) ==
    n >= sess.start /\ (n \in dirs[cur].files \/ n <= Larger(sess.seen, sess.start) + Forward)
Reusable(n) ==
    /\ n >= sess.oldest /\ n >= sess.start
    /\ n \in dirs[cur].files \/ n <= Larger(sess.seen, sess.start) + Forward

(* shouldRestart, and playlistSeekChanged for a playlist *)
ShouldRestart(r) ==
    \/ r.asked # sess.asked
    \/ r.segment /\ (r.n # sess.start \/ (sess.oldest > sess.start /\ r.n < sess.oldest))

(* refreshReadySegments, which counts the segments from the first one on:  *)
(* once there is one, the count is above 0 for good.                       *)
Refreshed == [sess EXCEPT !.ready = @ \/ sess.start \in dirs[cur].files]

Refresh == sess' = IF cur = 0 THEN sess ELSE Refreshed

(* touchSession: the session takes over the request's position *)
Touched_KeepsOldest(r) == [sess EXCEPT !.start = r.n, !.asked = r.asked, !.seen = Larger(@, r.n)]
Touched(r) == [sess EXCEPT !.start = r.n, !.asked = r.asked,
                           !.oldest = Larger(@, r.n), !.seen = Larger(@, r.n)]

-----------------------------------------------------------------------------
(* The handler *)

(* A segment: without StartTimeTicks in its query the session's requested  *)
(* start is the segment's own.  sessionForSegment finds the session under  *)
(* the lock and reads its fields without it.                               *)
AskSegment(c) ==
    /\ req[c].at = "idle"
    /\ \E n \in Segments : \E x \in {n} \cup (Starts \ {0}) :
          LET hit == cur # 0 /\ dirs[cur].ffmpeg = "running" /\ Reusable(n)
              r == [NoRequest EXCEPT !.segment = TRUE, !.n = n]
          IN  req' = [req EXCEPT ![c] =
                  IF hit THEN [r EXCEPT !.at = "record", !.given = cur]
                  ELSE [r EXCEPT !.at = "ensure", !.asked = x]]
    /\ UNCHANGED <<cur, sess, dirs, tasks, diskVars>>

AskPlaylist(c) ==
    /\ req[c].at = "idle"
    /\ \E x \in Starts :
          req' = [req EXCEPT ![c] = [NoRequest EXCEPT !.at = "ensure", !.n = x, !.asked = x]]
    /\ UNCHANGED <<cur, sess, dirs, tasks, diskVars>>

(* Ensure hands the handler a session. *)
Given(c, g) ==
    req' = [req EXCEPT ![c].at = IF req[c].segment THEN "record" ELSE "window",
                       ![c].n = IF req[c].segment THEN @ ELSE 0,
                       ![c].asked = 0, ![c].given = g]

(* Ensure: the session that runs fits, and takes the request's position    *)
EnsureReuses(c) ==
    /\ req[c].at = "ensure" /\ cur # 0
    /\ dirs[cur].ffmpeg = "running" /\ ~ShouldRestart(req[c])
    /\ sess' = Touched(req[c])
    /\ Given(c, cur)
    /\ UNCHANGED <<cur, dirs, tasks, diskVars>>

(* ... or is taken out and stopped first *)
EnsureTakesOut(c) ==
    /\ req[c].at = "ensure" /\ cur # 0
    /\ dirs[cur].ffmpeg = "done" \/ ShouldRestart(req[c])
    /\ cur' = 0 /\ sess' = NoSession
    /\ req' = [req EXCEPT ![c].at = "stop", ![c].given = cur]
    /\ UNCHANGED <<dirs, tasks, diskVars>>

EnsureStopped(c) ==
    /\ req[c].at = "stop" /\ dirs[req[c].given] = NoDir
    /\ req' = [req EXCEPT ![c].at = "ensure", ![c].given = 0]
    /\ UNCHANGED <<cur, sess, dirs, tasks, diskVars>>

(* MkdirAll takes the directory as it finds it. *)
EnsureCreates(c) ==
    /\ req[c].at = "ensure" /\ cur = 0
    /\ Len(dirs) < MaxSessions
    /\ cur' = Len(dirs) + 1
    /\ sess' = Fresh(req[c])
    /\ dirs' = Append(dirs, [base |-> req[c].n, made |-> req[c].n, files |-> left[cur'],
                             ffmpeg |-> "running"])
    /\ left' = [left EXCEPT ![cur'] = {}]
    /\ Given(c, cur')
    /\ UNCHANGED <<tasks, restarts>>

(* The limit on sessions, or FFmpeg does not start *)
EnsureFails(c) ==
    /\ req[c].at = "ensure" /\ cur = 0
    /\ req' = [req EXCEPT ![c] = NoRequest]
    /\ UNCHANGED <<cur, sess, dirs, tasks, diskVars>>

(* RecordSegmentRequest: whatever session the id denotes by now *)
RecordSegmentRequest(c) ==
    /\ req[c].at = "record"
    /\ sess' = IF cur = 0 THEN sess ELSE [Refreshed EXCEPT !.seen = Larger(@, req[c].n)]
    /\ req' = [req EXCEPT ![c].at = "wait"]
    /\ UNCHANGED <<cur, dirs, tasks, diskVars>>

(* waitForFile finds the segment in the directory of the session the       *)
(* request was given; RecordSegmentReady, by id, counts it.                *)
SegmentFound(c) ==
    /\ req[c].at \in {"wait", "first"}
    /\ req[c].n \in dirs[req[c].given].files
    /\ Refresh
    /\ req' = [req EXCEPT ![c] = IF @.segment THEN NoRequest ELSE [NoRequest EXCEPT !.at = "again"]]
    /\ UNCHANGED <<cur, dirs, tasks, diskVars>>

(* StartupWait ran out, or the client left *)
WaitEnds(c) ==
    /\ req[c].at \in {"wait", "first"}
    /\ req' = [req EXCEPT ![c] = NoRequest]
    /\ UNCHANGED <<cur, sess, dirs, tasks, diskVars>>

(* PlaylistWindow, again by id.  If nothing is ready the first segment is  *)
(* waited for, in the session the request was given, and the window is     *)
(* read again.                                                             *)
PlaylistWindow(c) ==
    /\ req[c].at \in {"window", "again"}
    /\ Refresh
    /\ req' = [req EXCEPT ![c] = IF @.at = "window" /\ ~sess'.ready
                                 THEN [@ EXCEPT !.at = "first", !.n = sess'.start]
                                 ELSE NoRequest]
    /\ UNCHANGED <<cur, dirs, tasks, diskVars>>

-----------------------------------------------------------------------------
(* Playback reports its position; segments played long ago are deleted     *)
(* after the unlock.                                                       *)

Cutoff(p) == IF p > Retention THEN p - Retention ELSE 0

RecordProgress(cutoff) ==
    /\ cur # 0
    /\ LET old == cutoff > sess.oldest
       IN  /\ sess' = IF old THEN [Refreshed EXCEPT !.oldest = cutoff] ELSE Refreshed
           /\ tasks' = IF old THEN tasks \cup {[generation |-> cur, before |-> cutoff]} ELSE tasks
    /\ UNCHANGED <<cur, dirs, req, diskVars>>

Deleted_Cutoff(t) == 0 .. t.before
Deleted(t) == {n \in Segments : n < t.before}

CleanupOldSegments(t) ==
    /\ tasks' = tasks \ {t}
    /\ dirs' = [dirs EXCEPT ![t.generation].files = @ \ Deleted(t)]
    /\ UNCHANGED <<cur, sess, req, diskVars>>

(* FFmpeg writes a segment, or ends after the last one. *)
Write(g) ==
    /\ dirs[g].ffmpeg = "running" /\ dirs[g].made <= Final
    /\ dirs' = [dirs EXCEPT ![g].files = @ \cup {dirs[g].made}, ![g].made = @ + 1]
    /\ UNCHANGED <<cur, sess, tasks, req, diskVars>>

Finish(g) ==
    /\ dirs[g].ffmpeg = "running" /\ dirs[g].made = Final + 1
    /\ dirs' = [dirs EXCEPT ![g].ffmpeg = "done"]
    /\ UNCHANGED <<cur, sess, tasks, req, diskVars>>

(* Stop, StopPlayback, ReapIdle and Close take the session out; whoever    *)
(* took a session out ends its FFmpeg and removes its directory.  (A       *)
(* cleanup that finds no directory does nothing.)                          *)
Stop ==
    /\ cur # 0
    /\ cur' = 0 /\ sess' = NoSession
    /\ UNCHANGED <<dirs, tasks, req, diskVars>>

StopEnds(g) ==
    /\ g # cur /\ dirs[g] # NoDir
    /\ dirs' = [dirs EXCEPT ![g] = NoDir]
    /\ tasks' = {t \in tasks : t.generation # g}
    /\ UNCHANGED <<cur, sess, req, diskVars>>

(* The process exits, asked to by the dashboard or in a crash, and starts  *)
(* anew: no session is closed, its FFmpegs end with its container, and the *)
(* directories stay although generations are numbered from 1 again.        *)
Restart ==
    /\ restarts < MaxRestarts
    /\ cur' = 0 /\ sess' = NoSession /\ dirs' = <<>> /\ tasks' = {}
    /\ req' = [c \in Clients |-> NoRequest]
    /\ left' = [g \in DOMAIN left |-> IF g \in DOMAIN dirs THEN dirs[g].files ELSE left[g]]
    /\ restarts' = restarts + 1

Handle(c) ==
    \/ AskSegment(c) \/ AskPlaylist(c)
    \/ EnsureReuses(c) \/ EnsureTakesOut(c) \/ EnsureStopped(c) \/ EnsureCreates(c) \/ EnsureFails(c)
    \/ RecordSegmentRequest(c) \/ SegmentFound(c) \/ WaitEnds(c) \/ PlaylistWindow(c)

WindowNext ==
    \/ \E c \in Clients : Handle(c)
    \/ \E cutoff \in {Cutoff(p) : p \in Segments} : RecordProgress(cutoff)
    \/ \E t \in tasks : CleanupOldSegments(t)
    \/ \E g \in DOMAIN dirs : Write(g) \/ Finish(g) \/ StopEnds(g)
    \/ Stop \/ Restart

WindowSpec == WindowInit /\ [][WindowNext]_windowVars

-----------------------------------------------------------------------------
(* Properties *)

(* What the manager believes to be kept is kept: a segment that the        *)
(* current FFmpeg wrote and that is not older than OldestSegmentKept is in *)
(* its directory, whatever cleanups are under way.                         *)
KeptOnDisk ==
    cur # 0 => \A n \in Segments :
        n >= sess.oldest /\ n >= dirs[cur].base /\ n < dirs[cur].made => n \in dirs[cur].files

(* Nobody waits for a segment that FFmpeg has passed by: as long as the    *)
(* session a segment request was given is current, the segment is one its  *)
(* FFmpeg writes, although a playlist request may have moved the session's *)
(* start below FFmpeg's.                                                   *)
WaitsForWritten ==
    \A c \in DOMAIN req :
        req[c].segment /\ req[c].at \in {"record", "wait"} /\ req[c].given = cur /\ cur # 0
            => req[c].n >= dirs[cur].base

(* A segment request is answered with what the FFmpeg of its own session   *)
(* wrote.  A directory left by an earlier process breaks this.             *)
ServesOwn ==
    \A c \in DOMAIN req : req[c].at = "wait" =>
        LET d == dirs[req[c].given]
        IN  req[c].n \in d.files => d.base <= req[c].n /\ req[c].n < d.made

=============================================================================
