------------------------ MODULE SegmentWindowProofs ------------------------
(***************************************************************************)
(* Proofs about SegmentWindow, for any clients, length of the media,       *)
(* playlists, forward window, retention and number of generations and      *)
(* restarts: WindowInv is inductive; from it follow SegTypeOK, KeptOnDisk  *)
(* and WaitsForWritten.                                                    *)
(***************************************************************************)
EXTENDS SegmentWindow, SequenceTheorems, TLAPS

(* The types, with the domains of the functions *)
WindowTypes ==
    /\ dirs \in Seq(Dirs \cup {NoDir}) /\ Len(dirs) <= MaxSessions
    /\ cur \in 0 .. Len(dirs)
    /\ sess \in Sessions /\ (cur = 0 => sess = NoSession)
    /\ tasks \subseteq [generation : 1 .. Len(dirs), before : Segments]
    /\ req \in [Clients -> Requests]
    /\ left \in [1 .. MaxSessions -> SUBSET Segments]

(* The current generation has its directory; what counts as deleted ends   *)
(* where its FFmpeg began or later, although requests move the start.      *)
CurrentFits ==
    cur # 0 => /\ dirs[cur] # NoDir
               /\ sess.oldest >= sess.start
               /\ sess.oldest >= dirs[cur].base

(* A cleanup was decided with OldestSegmentKept, which only grows.         *)
TasksPast == \A t \in tasks : t.generation = cur => t.before <= sess.oldest

(* Requests were given generations that were made. *)
GivenMade == \A c \in Clients : req[c].given <= Len(dirs)

WindowInv ==
    /\ WindowTypes
    /\ CurrentFits
    /\ TasksPast
    /\ GivenMade
    /\ KeptOnDisk
    /\ WaitsForWritten

-----------------------------------------------------------------------------
(* The parameters and the records the steps are made of *)

LEMMA Bounds ==
    /\ Final \in Nat /\ MaxSessions \in Nat /\ Forward \in Nat /\ Retention \in Nat
    /\ Starts \subseteq Segments /\ Segments \subseteq Nat /\ 0 \in Segments
BY WindowAssumption DEF Segments

LEMMA SimpleTypes == NoRequest \in Requests /\ NoSession \in Sessions
BY Bounds DEF NoRequest, Requests, NoSession, Fresh, Sessions

(* A request moves on. *)
Moved(q, at, g) == [q EXCEPT !.at = at, !.given = g]

LEMMA MovedType ==
    ASSUME NEW q \in Requests, NEW at \in {"ensure", "stop", "wait"}, NEW g \in 0 .. MaxSessions
    PROVE  /\ Moved(q, at, g) \in Requests
           /\ Moved(q, at, g).given = g /\ Moved(q, at, g).at = at
           /\ Moved(q, at, g).segment = q.segment /\ Moved(q, at, g).n = q.n
<1>1. g \in Nat /\ g <= MaxSessions
  BY Bounds
<1> QED
  BY <1>1 DEF Moved, Requests

LEMMA LargerOf ==
    ASSUME NEW a \in Segments, NEW b \in Segments
    PROVE  Larger(a, b) \in Segments /\ Larger(a, b) >= a /\ Larger(a, b) >= b
BY Bounds DEF Larger

(* The directory of the current generation *)
LEMMA CurrentDir ==
    ASSUME WindowInv, cur # 0
    PROVE  dirs[cur] \in Dirs /\ cur \in 1 .. Len(dirs)
<1>1. Len(dirs) \in Nat /\ cur \in 1 .. Len(dirs)
  BY DEF WindowInv, WindowTypes
<1>2. dirs[cur] \in Dirs \cup {NoDir}
  BY <1>1, ElementOfSeq DEF WindowInv, WindowTypes
<1> QED
  BY <1>1, <1>2 DEF WindowInv, CurrentFits

(* What a refresh does to the session *)
LEMMA RefreshedOf ==
    ASSUME WindowInv
    PROVE  /\ Refreshed \in Sessions
           /\ Refreshed.oldest = sess.oldest /\ Refreshed.start = sess.start
BY DEF Refreshed, Sessions, WindowInv, WindowTypes

(* A session goes on as one that keeps at most what it kept. *)
Grows(new) ==
    /\ new \in Sessions
    /\ cur = 0 => new = sess
    /\ cur # 0 => new.oldest >= sess.oldest /\ new.oldest >= new.start

LEMMA RefreshGrows ==
    ASSUME WindowInv, Refresh
    PROVE  Grows(sess')
<1>1. sess \in Sessions /\ sess.oldest \in Nat /\ (cur # 0 => sess.oldest >= sess.start)
  BY Bounds DEF WindowInv, WindowTypes, CurrentFits, Sessions
<1> QED
  BY <1>1, RefreshedOf DEF Refresh, Grows

(* What keeps a waiting request good *)
WaitFits(r) ==
    r.segment /\ r.at \in {"record", "wait"} /\ r.given = cur /\ cur # 0
        => r.n >= dirs[cur].base

-----------------------------------------------------------------------------
(* Two kinds of steps *)

(* A handler's step: it changes its own request, and of the manager's      *)
(* state only the session, which grows.                                    *)
LEMMA HandlerStep ==
    ASSUME WindowInv, NEW c \in Clients, NEW r,
           UNCHANGED <<cur, dirs, tasks, left>>,
           Grows(sess'), req' = [req EXCEPT ![c] = r],
           r \in Requests, r.given <= Len(dirs), WaitFits(r)
    PROVE  WindowInv'
<1> USE DEF WindowInv
<1>0. sess \in Sessions /\ sess.oldest \in Nat /\ sess'.oldest \in Nat /\ sess'.start \in Nat
  BY Bounds DEF WindowTypes, Grows, Sessions
<1>1. WindowTypes'
  BY DEF WindowTypes, Grows
<1>2. CurrentFits'
  <2>1. SUFFICES ASSUME cur # 0
                 PROVE  sess'.oldest >= sess'.start /\ sess'.oldest >= dirs[cur].base
    BY DEF CurrentFits
  <2>2. dirs[cur].base \in Nat
    BY <2>1, CurrentDir, Bounds DEF Dirs
  <2> QED
    BY <1>0, <2>1, <2>2 DEF Grows, CurrentFits
<1>3. TasksPast'
  <2>1. \A t \in tasks : t.before \in Nat
    BY Bounds DEF WindowTypes
  <2>2. cur = 0 => \A t \in tasks : t.generation # cur
    BY DEF WindowTypes
  <2> QED
    BY <1>0, <2>1, <2>2 DEF TasksPast, Grows
<1>4. GivenMade'
  BY DEF GivenMade, WindowTypes
<1>5. KeptOnDisk'
  <2>1. \A n \in Segments : cur # 0 /\ n >= sess'.oldest => n >= sess.oldest
    BY <1>0, Bounds DEF Grows
  <2> QED
    BY <2>1 DEF KeptOnDisk
<1>6. WaitsForWritten'
  BY DEF WaitsForWritten, WaitFits, WindowTypes
<1> QED
  BY <1>1, <1>2, <1>3, <1>4, <1>5, <1>6

(* A step on one directory.  That of the current generation stays, keeps   *)
(* its base and holds what KeptOnDisk asks for.                            *)
LEMMA DirStep ==
    ASSUME WindowInv, NEW g \in 1 .. Len(dirs), NEW d \in Dirs \cup {NoDir},
           dirs' = [dirs EXCEPT ![g] = d], tasks' \subseteq tasks,
           UNCHANGED <<cur, sess, req, left>>,
           g = cur => /\ d # NoDir
                      /\ d.base = dirs[cur].base
                      /\ \A n \in Segments :
                            n >= sess.oldest /\ n >= d.base /\ n < d.made => n \in d.files
    PROVE  WindowInv'
<1> USE DEF WindowInv
<1>1. /\ dirs' \in Seq(Dirs \cup {NoDir}) /\ Len(dirs') = Len(dirs)
      /\ cur # 0 => dirs'[cur] = IF g = cur THEN d ELSE dirs[cur]
  <2>1. /\ dirs' \in Seq(Dirs \cup {NoDir}) /\ Len(dirs') = Len(dirs)
        /\ \A j \in 1 .. Len(dirs) : dirs'[j] = IF j = g THEN d ELSE dirs[j]
    BY ExceptSeq DEF WindowTypes
  <2> QED
    BY <2>1, CurrentDir
<1>2. WindowTypes'
  BY <1>1 DEF WindowTypes
<1>3. CurrentFits'
  BY <1>1 DEF CurrentFits
<1>4. TasksPast' /\ GivenMade'
  BY <1>1 DEF TasksPast, GivenMade
<1>5. KeptOnDisk'
  BY <1>1 DEF KeptOnDisk
<1>6. WaitsForWritten'
  BY <1>1 DEF WaitsForWritten
<1> QED
  BY <1>2, <1>3, <1>4, <1>5, <1>6

-----------------------------------------------------------------------------
(* The initial state, and an id without a session *)

LEMMA WindowInitially ==
    ASSUME WindowInit
    PROVE  WindowInv
<1>1. dirs \in Seq(Dirs \cup {NoDir}) /\ Len(dirs) = 0
  BY DEF WindowInit
<1>2. WindowTypes
  BY <1>1, Bounds, SimpleTypes DEF WindowInit, WindowTypes
<1>3. GivenMade
  BY <1>1 DEF GivenMade, WindowInit, NoRequest
<1> QED
  BY <1>2, <1>3 DEF WindowInit, WindowInv, CurrentFits, TasksPast, KeptOnDisk, WaitsForWritten,
                    NoRequest

(* The session is taken out: by a stop, or by the request of a client.     *)
LEMMA TakenOut ==
    ASSUME WindowInv, cur' = 0, sess' = NoSession,
           UNCHANGED <<dirs, tasks, left>>,
           req' \in [Clients -> Requests], \A c \in Clients : req'[c].given <= Len(dirs)
    PROVE  WindowInv'
<1> USE DEF WindowInv
<1>1. WindowTypes'
  BY SimpleTypes DEF WindowTypes
<1>2. \A t \in tasks : t.generation # 0
  BY DEF WindowTypes
<1> QED
  BY <1>1, <1>2 DEF CurrentFits, TasksPast, GivenMade, KeptOnDisk, WaitsForWritten

-----------------------------------------------------------------------------
(* The handler's steps *)

LEMMA RequestOf ==
    ASSUME WindowInv, NEW c \in Clients
    PROVE  /\ req[c] \in Requests /\ req[c].n \in Segments /\ req[c].asked \in Segments
           /\ req[c].given \in Nat /\ req[c].given <= Len(dirs)
BY Bounds DEF WindowInv, WindowTypes, GivenMade, Requests

LEMMA SameSession ==
    ASSUME WindowInv, UNCHANGED sess
    PROVE  Grows(sess')
<1>1. sess \in Sessions /\ sess.oldest \in Nat /\ (cur # 0 => sess.oldest >= sess.start)
  BY Bounds DEF WindowInv, WindowTypes, CurrentFits, Sessions
<1> QED
  BY <1>1 DEF Grows

(* A hit lies above what counts as deleted, hence above FFmpeg's start.    *)
LEMMA AskSegmentStep ==
    ASSUME WindowInv, NEW c \in Clients, AskSegment(c)
    PROVE  WindowInv'
<1>1. PICK n \in Segments, x \in Segments :
          LET hit == cur # 0 /\ dirs[cur].ffmpeg = "running" /\ Reusable(n)
              r == [NoRequest EXCEPT !.segment = TRUE, !.n = n]
          IN  req' = [req EXCEPT ![c] =
                  IF hit THEN [r EXCEPT !.at = "record", !.given = cur]
                  ELSE [r EXCEPT !.at = "ensure", !.asked = x]]
  BY Bounds DEF AskSegment
<1> DEFINE hit == cur # 0 /\ dirs[cur].ffmpeg = "running" /\ Reusable(n)
           r == [NoRequest EXCEPT !.segment = TRUE, !.n = n]
           new == IF hit THEN [r EXCEPT !.at = "record", !.given = cur]
                  ELSE [r EXCEPT !.at = "ensure", !.asked = x]
<1>2. req' = [req EXCEPT ![c] = new] /\ UNCHANGED <<cur, sess, dirs, tasks, left>>
  BY <1>1 DEF AskSegment, diskVars
<1>3. cur \in 0 .. MaxSessions /\ cur <= Len(dirs) /\ Len(dirs) \in Nat
  BY Bounds DEF WindowInv, WindowTypes
<1>0. n \in Segments /\ x \in Segments /\ 0 \in Segments
  BY <1>1, Bounds
<1>4. new \in Requests /\ new.given <= Len(dirs)
  <2>1. /\ NoRequest \in Requests /\ NoRequest.given = 0 /\ 0 <= Len(dirs)
    BY <1>3, SimpleTypes DEF NoRequest
  <2>2. r \in Requests /\ r.given = 0
    BY <1>0, <2>1 DEF Requests
  <2> HIDE DEF r
  <2>3. CASE hit
    BY <1>3, <2>2, <2>3 DEF Requests
  <2>4. CASE ~hit
    BY <1>0, <2>1, <2>2, <2>4 DEF Requests
  <2> QED
    BY <2>3, <2>4
<1>5. WaitFits(new)
  <2>1. SUFFICES ASSUME hit
                 PROVE  n >= dirs[cur].base
    BY DEF WaitFits, NoRequest
  <2>2. n >= sess.oldest /\ sess.oldest >= dirs[cur].base
    BY <2>1 DEF Reusable, WindowInv, CurrentFits
  <2>3. n \in Nat /\ sess.oldest \in Nat /\ dirs[cur].base \in Nat
    BY <1>0, <2>1, CurrentDir, Bounds DEF WindowInv, WindowTypes, Sessions, Dirs
  <2> QED
    BY <2>2, <2>3
<1> HIDE DEF new
<1> QED
  BY <1>2, <1>4, <1>5, SameSession, HandlerStep

LEMMA AskPlaylistStep ==
    ASSUME WindowInv, NEW c \in Clients, AskPlaylist(c)
    PROVE  WindowInv'
<1>1. PICK x \in Starts :
          req' = [req EXCEPT ![c] = [NoRequest EXCEPT !.at = "ensure", !.n = x, !.asked = x]]
  BY DEF AskPlaylist
<1> DEFINE new == [NoRequest EXCEPT !.at = "ensure", !.n = x, !.asked = x]
<1>2. UNCHANGED <<cur, sess, dirs, tasks, left>> /\ Len(dirs) \in Nat
  BY DEF AskPlaylist, diskVars, WindowInv, WindowTypes
<1>3. new \in Requests /\ new.given <= Len(dirs) /\ WaitFits(new)
  <2>1. /\ NoRequest \in Requests /\ NoRequest.given = 0 /\ ~NoRequest.segment
        /\ 0 <= Len(dirs) /\ x \in Segments
    BY <1>1, <1>2, Bounds, SimpleTypes DEF NoRequest
  <2>2. new \in Requests /\ new.given = 0 /\ ~new.segment
    BY <2>1 DEF Requests
  <2> QED
    BY <2>1, <2>2 DEF WaitFits
<1>4. req' = [req EXCEPT ![c] = new]
  BY <1>1
<1> HIDE DEF new
<1> QED
  BY <1>2, <1>3, <1>4, SameSession, HandlerStep

(* What Ensure hands over: a session for a segment that it writes *)
LEMMA GivenOf ==
    ASSUME WindowInv, NEW c \in Clients, NEW g \in 0 .. MaxSessions, Given(c, g)
    PROVE  \E r \in Requests :
              /\ req' = [req EXCEPT ![c] = r]
              /\ r.given = g /\ r.segment = req[c].segment
              /\ r.segment => r.n = req[c].n
<1> DEFINE q == req[c]
           r == [q EXCEPT !.at = IF q.segment THEN "record" ELSE "window",
                          !.n = IF q.segment THEN q.n ELSE 0,
                          !.asked = 0, !.given = g]
<1>1. q \in Requests
  BY RequestOf
<1>2. r \in Requests /\ r.given = g /\ r.segment = q.segment /\ (r.segment => r.n = q.n)
  BY <1>1, Bounds DEF Requests
<1>3. req' = [req EXCEPT ![c] = r]
  BY DEF Given, WindowInv, WindowTypes
<1> HIDE DEF r
<1> QED
  BY <1>2, <1>3

(* A request that fits starts where the session does, and what starts      *)
(* there is not deleted.                                                   *)
LEMMA EnsureReusesStep ==
    ASSUME WindowInv, NEW c \in Clients, EnsureReuses(c)
    PROVE  WindowInv'
<1>1. cur # 0 /\ UNCHANGED <<cur, dirs, tasks, left>> /\ sess' = Touched(req[c])
  BY DEF EnsureReuses, diskVars
<1>2. cur \in 0 .. MaxSessions /\ cur <= Len(dirs)
  BY Bounds DEF WindowInv, WindowTypes
<1>3. PICK r \in Requests :
          /\ req' = [req EXCEPT ![c] = r]
          /\ r.given = cur /\ r.segment = req[c].segment
          /\ r.segment => r.n = req[c].n
  BY <1>2, GivenOf DEF EnsureReuses
<1>4. sess \in Sessions /\ {sess.oldest, sess.start, sess.seen} \subseteq Segments
  BY DEF WindowInv, WindowTypes, Sessions
<1>5. Grows(sess')
  <2>1. /\ Larger(sess.oldest, req[c].n) \in Segments /\ Larger(sess.seen, req[c].n) \in Segments
        /\ Larger(sess.oldest, req[c].n) >= sess.oldest
        /\ Larger(sess.oldest, req[c].n) >= req[c].n
    BY <1>4, RequestOf, LargerOf
  <2>2. sess' \in Sessions /\ sess'.start = req[c].n /\ sess'.oldest = Larger(sess.oldest, req[c].n)
    BY <1>1, <1>4, <2>1, RequestOf DEF Touched, Sessions
  <2> QED
    BY <1>1, <2>1, <2>2 DEF Grows
<1>6. WaitFits(r)
  <2>1. SUFFICES ASSUME r.segment
                 PROVE  r.n >= dirs[cur].base
    BY DEF WaitFits
  <2>2. r.n = sess.start /\ ~(sess.oldest > sess.start /\ r.n < sess.oldest)
    BY <1>3, <2>1 DEF EnsureReuses, ShouldRestart
  <2>3. sess.oldest \in Nat /\ sess.start \in Nat /\ dirs[cur].base \in Nat
    BY <1>1, <1>4, CurrentDir, Bounds DEF Dirs
  <2>4. sess.oldest >= dirs[cur].base
    BY <1>1 DEF WindowInv, CurrentFits
  <2> QED
    BY <2>2, <2>3, <2>4
<1> QED
  BY <1>1, <1>2, <1>3, <1>5, <1>6, HandlerStep

LEMMA EnsureTakesOutStep ==
    ASSUME WindowInv, NEW c \in Clients, EnsureTakesOut(c)
    PROVE  WindowInv'
<1>1. /\ cur' = 0 /\ sess' = NoSession /\ UNCHANGED <<dirs, tasks, left>>
      /\ req' = [req EXCEPT ![c] = [req[c] EXCEPT !.at = "stop", !.given = cur]]
  BY DEF EnsureTakesOut, diskVars, WindowInv, WindowTypes
<1>2. cur \in 0 .. MaxSessions /\ cur <= Len(dirs)
  BY Bounds DEF WindowInv, WindowTypes
<1> DEFINE new == Moved(req[c], "stop", cur)
<1>3. new \in Requests /\ new.given = cur
  BY <1>2, RequestOf, MovedType
<1>5. req' = [req EXCEPT ![c] = new]
  BY <1>1 DEF Moved
<1> HIDE DEF new
<1>4. req' \in [Clients -> Requests] /\ \A q \in Clients : req'[q].given <= Len(dirs)
  BY <1>2, <1>3, <1>5 DEF WindowInv, WindowTypes, GivenMade
<1> QED
  BY <1>1, <1>4, TakenOut

(* Of a new generation nothing is deleted, and no request was given it.    *)
LEMMA EnsureCreatesStep ==
    ASSUME WindowInv, NEW c \in Clients, EnsureCreates(c)
    PROVE  WindowInv'
<1> DEFINE g == Len(dirs) + 1
           d == [base |-> req[c].n, made |-> req[c].n, files |-> left[g], ffmpeg |-> "running"]
<1>1. /\ cur = 0 /\ Len(dirs) < MaxSessions /\ cur' = g
      /\ sess' = Fresh(req[c]) /\ dirs' = Append(dirs, d)
      /\ left' = [left EXCEPT ![g] = {}] /\ Given(c, g) /\ UNCHANGED tasks
  BY DEF EnsureCreates
<1>2. /\ Len(dirs) \in Nat /\ g \in 1 .. MaxSessions /\ g \in 0 .. MaxSessions
      /\ g > Len(dirs) /\ g # 0
  BY <1>1, Bounds DEF WindowInv, WindowTypes
<1>3. req[c].n \in Segments /\ req[c].asked \in Segments /\ req[c].n \in 0 .. Final + 1
  BY RequestOf, Bounds DEF Segments
<1>4. d \in Dirs
  BY <1>2, <1>3 DEF Dirs, WindowInv, WindowTypes
<1>5. d # NoDir /\ d.base = req[c].n /\ d.made = req[c].n
  BY DEF NoDir
<1> HIDE DEF d
<1>6. /\ dirs' \in Seq(Dirs \cup {NoDir}) /\ Len(dirs') = g /\ dirs'[g] = d
  BY <1>1, <1>2, <1>4, AppendProperties DEF WindowInv, WindowTypes
<1>7. /\ sess' \in Sessions /\ sess'.oldest = req[c].n /\ sess'.start = req[c].n
  BY <1>1, <1>3 DEF Fresh, Sessions
<1>8. PICK r \in Requests :
          /\ req' = [req EXCEPT ![c] = r]
          /\ r.given = g /\ r.segment = req[c].segment
          /\ r.segment => r.n = req[c].n
  BY <1>1, <1>2, GivenOf
<1> HIDE DEF g
<1>9. WindowTypes'
  <2>1. g <= MaxSessions /\ g \in 0 .. g
    BY <1>2
  <2>2. tasks' \subseteq [generation : 1 .. g, before : Segments]
    BY <1>1, <1>2 DEF WindowInv, WindowTypes
  <2>3. left' \in [1 .. MaxSessions -> SUBSET Segments]
    BY <1>1, <1>2 DEF WindowInv, WindowTypes
  <2>4. req' \in [Clients -> Requests]
    BY <1>8 DEF WindowInv, WindowTypes
  <2> QED
    BY <1>1, <1>2, <1>6, <1>7, <2>1, <2>2, <2>3, <2>4 DEF WindowTypes
<1>10. CurrentFits'
  BY <1>1, <1>3, <1>5, <1>6, <1>7, Bounds DEF CurrentFits
<1>11. TasksPast'
  BY <1>1, <1>2 DEF TasksPast, WindowInv, WindowTypes
<1>12. GivenMade'
  <2>1. \A q \in Clients : req[q].given \in Nat /\ req[q].given <= Len(dirs)
    BY RequestOf
  <2> QED
    BY <1>2, <1>6, <1>8, <2>1 DEF GivenMade, WindowInv, WindowTypes
<1>13. KeptOnDisk'
  BY <1>1, <1>3, <1>5, <1>6, Bounds DEF KeptOnDisk
<1>14. WaitsForWritten'
  <2> SUFFICES ASSUME NEW q \in Clients, req'[q].segment, req'[q].given = g
               PROVE  req'[q].n >= dirs'[g].base
    BY <1>1, <1>8 DEF WaitsForWritten, WindowInv, WindowTypes
  <2>1. q # c => req'[q].given <= Len(dirs) /\ req'[q].given \in Nat
    BY <1>8, RequestOf DEF WindowInv, WindowTypes
  <2>2. q = c
    BY <1>2, <2>1
  <2> QED
    BY <1>3, <1>5, <1>6, <1>8, <2>2, Bounds DEF WindowInv, WindowTypes
<1> QED
  BY <1>9, <1>10, <1>11, <1>12, <1>13, <1>14 DEF WindowInv

(* The other steps of a handler move its request on, in at, n and given,   *)
(* or end it.                                                              *)
LEMMA HandlerEnds ==
    ASSUME WindowInv, NEW c \in Clients,
           EnsureFails(c) \/ WaitEnds(c)
    PROVE  WindowInv'
<1>1. UNCHANGED <<cur, sess, dirs, tasks, left>> /\ req' = [req EXCEPT ![c] = NoRequest]
  BY DEF EnsureFails, WaitEnds, diskVars
<1>2. NoRequest \in Requests /\ NoRequest.given <= Len(dirs) /\ WaitFits(NoRequest)
  BY SimpleTypes DEF WindowInv, WindowTypes, NoRequest, WaitFits
<1> QED
  BY <1>1, <1>2, SameSession, HandlerStep

LEMMA EnsureStoppedStep ==
    ASSUME WindowInv, NEW c \in Clients, EnsureStopped(c)
    PROVE  WindowInv'
<1> DEFINE new == Moved(req[c], "ensure", 0)
<1>1. UNCHANGED <<cur, sess, dirs, tasks, left>> /\ req' = [req EXCEPT ![c] = new]
  BY DEF EnsureStopped, diskVars, WindowInv, WindowTypes, Moved
<1>2. new \in Requests /\ new.given = 0 /\ new.at = "ensure"
  <2>1. 0 \in 0 .. MaxSessions
    BY Bounds
  <2> QED
    BY <2>1, RequestOf, MovedType
<1>3. Len(dirs) \in Nat
  BY DEF WindowInv, WindowTypes
<1> HIDE DEF new
<1>4. new.given <= Len(dirs) /\ WaitFits(new)
  BY <1>2, <1>3 DEF WaitFits
<1> QED
  BY <1>1, <1>2, <1>4, SameSession, HandlerStep

(* RecordSegmentRequest may update another session than the request's own. *)
LEMMA RecordSegmentRequestStep ==
    ASSUME WindowInv, NEW c \in Clients, RecordSegmentRequest(c)
    PROVE  WindowInv'
<1> DEFINE new == [req[c] EXCEPT !.at = "wait"]
<1>1. UNCHANGED <<cur, dirs, tasks, left>> /\ req' = [req EXCEPT ![c] = new]
  BY DEF RecordSegmentRequest, diskVars, WindowInv, WindowTypes
<1>2. new \in Requests /\ new.given <= Len(dirs)
  BY RequestOf DEF Requests
<1>3. WaitFits(new)
  BY RequestOf DEF RecordSegmentRequest, WaitFits, Requests, WindowInv, WaitsForWritten, WindowTypes
<1> HIDE DEF new
<1>4. Grows(sess')
  <2>1. CASE cur = 0
    BY <2>1, SameSession DEF RecordSegmentRequest
  <2>2. CASE cur # 0
    <3>1. sess' = [Refreshed EXCEPT !.seen = Larger(Refreshed.seen, req[c].n)]
      BY <2>2 DEF RecordSegmentRequest
    <3>2. Refreshed.seen \in Segments
      BY RefreshedOf DEF Sessions
    <3>3. Larger(Refreshed.seen, req[c].n) \in Segments
      BY <3>2, RequestOf, LargerOf
    <3>4. sess' \in Sessions /\ sess'.oldest = sess.oldest /\ sess'.start = sess.start
      BY <3>1, <3>3, RefreshedOf DEF Sessions
    <3>5. sess.oldest \in Nat /\ sess.oldest >= sess.start
      BY <2>2, Bounds DEF WindowInv, WindowTypes, CurrentFits, Sessions
    <3> QED
      BY <2>2, <3>4, <3>5 DEF Grows
  <2> QED
    BY <2>1, <2>2
<1> QED
  BY <1>1, <1>2, <1>3, <1>4, HandlerStep

(* What a request goes on with after a refresh *)
LEMMA RefreshStep ==
    ASSUME WindowInv, NEW c \in Clients, NEW r \in Requests,
           UNCHANGED <<cur, dirs, tasks, left>>,
           Refresh, req' = [req EXCEPT ![c] = r],
           r.given = 0 \/ r.given = req[c].given, r.at \notin {"record", "wait"}
    PROVE  WindowInv'
<1>1. r.given <= Len(dirs) /\ WaitFits(r)
  BY RequestOf DEF WaitFits, WindowInv, WindowTypes
<1> QED
  BY <1>1, RefreshGrows, HandlerStep

LEMMA SegmentFoundStep ==
    ASSUME WindowInv, NEW c \in Clients, SegmentFound(c)
    PROVE  WindowInv'
<1> DEFINE again == [NoRequest EXCEPT !.at = "again"]
           new == IF req[c].segment THEN NoRequest ELSE again
<1>1. UNCHANGED <<cur, dirs, tasks, left>> /\ Refresh /\ req' = [req EXCEPT ![c] = new]
  BY DEF SegmentFound, diskVars, WindowInv, WindowTypes
<1>2. /\ NoRequest \in Requests /\ NoRequest.given = 0 /\ NoRequest.at = "idle"
      /\ again \in Requests /\ again.given = 0 /\ again.at = "again"
  <2>1. NoRequest \in Requests /\ NoRequest.given = 0 /\ NoRequest.at = "idle"
    BY SimpleTypes DEF NoRequest
  <2> QED
    BY <2>1 DEF Requests
<1>3. new \in Requests /\ new.given = 0 /\ new.at \notin {"record", "wait"}
  BY <1>2
<1> HIDE DEF new
<1> QED
  BY <1>1, <1>3, RefreshStep

LEMMA PlaylistWindowStep ==
    ASSUME WindowInv, NEW c \in Clients, PlaylistWindow(c)
    PROVE  WindowInv'
<1> DEFINE first == [req[c] EXCEPT !.at = "first", !.n = sess'.start]
           new == IF req[c].at = "window" /\ ~sess'.ready THEN first ELSE NoRequest
<1>1. UNCHANGED <<cur, dirs, tasks, left>> /\ Refresh /\ req' = [req EXCEPT ![c] = new]
  BY DEF PlaylistWindow, diskVars, WindowInv, WindowTypes
<1>2. sess'.start \in Segments
  BY <1>1, RefreshGrows DEF Grows, Sessions
<1>3. first \in Requests /\ first.given = req[c].given /\ first.at = "first"
  BY <1>2, RequestOf DEF Requests
<1>4. NoRequest \in Requests /\ NoRequest.given = 0 /\ NoRequest.at = "idle"
  BY SimpleTypes DEF NoRequest
<1>5. /\ new \in Requests /\ (new.given = 0 \/ new.given = req[c].given)
      /\ new.at \notin {"record", "wait"}
  BY <1>3, <1>4
<1> HIDE DEF new
<1> QED
  BY <1>1, <1>5, RefreshStep

-----------------------------------------------------------------------------
(* Playback, cleanups, FFmpeg, stops and restarts *)

LEMMA CutoffType ==
    ASSUME NEW p \in Segments
    PROVE  Cutoff(p) \in Segments
<1>1. p \in Nat /\ p <= Final /\ Final \in Nat /\ Retention \in Nat
  BY Bounds DEF Segments
<1> QED
  BY <1>1 DEF Cutoff, Segments

(* A cleanup is decided only together with the cutoff it deletes up to.    *)
LEMMA RecordProgressStep ==
    ASSUME WindowInv, NEW cutoff \in Segments, RecordProgress(cutoff)
    PROVE  WindowInv'
<1> DEFINE old == cutoff > sess.oldest
<1>1. /\ cur # 0 /\ UNCHANGED <<cur, dirs, req, left>>
      /\ sess' = IF old THEN [Refreshed EXCEPT !.oldest = cutoff] ELSE Refreshed
      /\ tasks' = IF old THEN tasks \cup {[generation |-> cur, before |-> cutoff]} ELSE tasks
  BY DEF RecordProgress, diskVars
<1>2. /\ sess.oldest \in Nat /\ sess.start \in Nat /\ cutoff \in Nat
      /\ dirs[cur].base \in Nat /\ dirs[cur] # NoDir
      /\ sess.oldest >= sess.start /\ sess.oldest >= dirs[cur].base
      /\ cur \in 1 .. Len(dirs)
  BY <1>1, CurrentDir, Bounds DEF WindowInv, WindowTypes, CurrentFits, Sessions, Dirs
<1>3. /\ sess' \in Sessions /\ sess'.start = sess.start
      /\ sess'.oldest = IF old THEN cutoff ELSE sess.oldest
  BY <1>1, RefreshedOf DEF Sessions
<1>4. sess'.oldest \in Nat /\ sess'.oldest >= sess.oldest
  BY <1>2, <1>3
<1>5. tasks' \subseteq [generation : 1 .. Len(dirs), before : Segments]
  BY <1>1, <1>2 DEF WindowInv, WindowTypes
<1>6. WindowTypes'
  BY <1>1, <1>3, <1>5 DEF WindowInv, WindowTypes
<1>7. CurrentFits'
  BY <1>1, <1>2, <1>3, <1>4 DEF CurrentFits
<1>8. TasksPast'
  <2> SUFFICES ASSUME NEW t \in tasks', t.generation = cur
               PROVE  t.before <= sess'.oldest
    BY <1>1 DEF TasksPast
  <2>1. CASE t \in tasks
    <3>1. t.before \in Nat /\ t.before <= sess.oldest
      BY <2>1, Bounds DEF WindowInv, WindowTypes, TasksPast
    <3> QED
      BY <1>2, <1>4, <3>1
  <2>2. CASE t \notin tasks
    BY <1>1, <1>2, <1>3, <2>2
  <2> QED
    BY <2>1, <2>2
<1>9. KeptOnDisk'
  <2>1. \A n \in Nat : n >= sess'.oldest => n >= sess.oldest
    BY <1>2, <1>4
  <2> QED
    BY <1>1, <2>1, Bounds DEF WindowInv, KeptOnDisk
<1>10. GivenMade' /\ WaitsForWritten'
  BY <1>1 DEF WindowInv, GivenMade, WaitsForWritten
<1> QED
  BY <1>6, <1>7, <1>8, <1>9, <1>10 DEF WindowInv

LEMMA CleanupStep ==
    ASSUME WindowInv, NEW t \in tasks, CleanupOldSegments(t)
    PROVE  WindowInv'
<1> DEFINE g == t.generation
           d == [dirs[g] EXCEPT !.files = @ \ Deleted(t)]
<1>1. /\ UNCHANGED <<cur, sess, req, left>> /\ tasks' \subseteq tasks
      /\ dirs' = [dirs EXCEPT ![g] = d]
  BY DEF CleanupOldSegments, diskVars
<1>2. g \in 1 .. Len(dirs) /\ t.before \in Segments
  BY DEF WindowInv, WindowTypes
<1>3. dirs[g] \in Dirs \cup {NoDir}
  BY <1>2, ElementOfSeq DEF WindowInv, WindowTypes
<1>4. d \in Dirs \cup {NoDir}
  <2>1. CASE dirs[g] \in Dirs
    BY <2>1 DEF Dirs
  <2>2. CASE dirs[g] = NoDir
    BY <2>2 DEF NoDir
  <2> QED
    BY <1>3, <2>1, <2>2
<1>5. ASSUME g = cur
      PROVE  /\ d # NoDir /\ d.base = dirs[cur].base
             /\ \A n \in Segments :
                   n >= sess.oldest /\ n >= d.base /\ n < d.made => n \in d.files
  <2>1. cur # 0 /\ dirs[cur] \in Dirs /\ t.before <= sess.oldest
    BY <1>2, <1>5, CurrentDir DEF WindowInv, TasksPast
  <2>2. /\ d.base = dirs[cur].base /\ d.made = dirs[cur].made
        /\ d.ffmpeg = dirs[cur].ffmpeg /\ d.files = dirs[cur].files \ Deleted(t)
    BY <1>5, <2>1 DEF Dirs
  <2>3. d # NoDir
    BY <2>1, <2>2 DEF Dirs, NoDir
  <2>4. \A n \in Segments : n >= sess.oldest => n \notin Deleted(t)
    <3>1. sess.oldest \in Nat /\ t.before \in Nat
      BY <1>2, Bounds DEF WindowInv, WindowTypes, Sessions
    <3>2. \A n \in Nat : n >= sess.oldest => ~(n < t.before)
      BY <2>1, <3>1
    <3> QED
      BY <3>2, Bounds DEF Deleted
  <2> QED
    BY <2>1, <2>2, <2>3, <2>4 DEF WindowInv, KeptOnDisk
<1> HIDE DEF d
<1> QED
  BY <1>1, <1>2, <1>4, <1>5, DirStep

LEMMA FFmpegStep ==
    ASSUME WindowInv, NEW g \in 1 .. Len(dirs), Write(g) \/ Finish(g)
    PROVE  WindowInv'
<1>1. dirs[g] \in Dirs
  <2>1. dirs[g] \in Dirs \cup {NoDir}
    BY ElementOfSeq DEF WindowInv, WindowTypes
  <2> QED
    BY <2>1 DEF Write, Finish, NoDir
<1>2. dirs[g].made \in Nat /\ Final \in Nat
  BY <1>1, Bounds DEF Dirs
<1>3. CASE Write(g)
  <2> DEFINE d == [dirs[g] EXCEPT !.files = @ \cup {dirs[g].made}, !.made = @ + 1]
  <2>1. /\ dirs' = [dirs EXCEPT ![g] = d] /\ UNCHANGED <<cur, sess, req, left, tasks>>
        /\ dirs[g].made <= Final
    BY <1>3 DEF Write, diskVars
  <2>2. dirs[g].made \in Segments /\ dirs[g].made + 1 \in 0 .. Final + 1
    BY <1>2, <2>1 DEF Segments
  <2>3. /\ d \in Dirs /\ d.base = dirs[g].base /\ d.made = dirs[g].made + 1
        /\ d.files = dirs[g].files \cup {dirs[g].made}
    BY <1>1, <2>2 DEF Dirs
  <2>4. d # NoDir
    BY <2>3 DEF Dirs, NoDir
  <2>5. ASSUME g = cur, NEW n \in Segments, n >= sess.oldest, n >= d.base, n < d.made
        PROVE  n \in d.files
    <3>1. n \in Nat /\ (n = dirs[g].made \/ n < dirs[g].made)
      BY <1>2, <2>3, <2>5, Bounds
    <3>2. CASE n < dirs[g].made
      BY <2>3, <2>5, <3>2 DEF WindowInv, KeptOnDisk, WindowTypes
    <3> QED
      BY <2>3, <3>1, <3>2
  <2> HIDE DEF d
  <2> QED
    BY <2>1, <2>3, <2>4, <2>5, DirStep
<1>4. CASE Finish(g)
  <2> DEFINE d == [dirs[g] EXCEPT !.ffmpeg = "done"]
  <2>1. dirs' = [dirs EXCEPT ![g] = d] /\ UNCHANGED <<cur, sess, req, left, tasks>>
    BY <1>4 DEF Finish, diskVars
  <2>2. /\ d \in Dirs /\ d.base = dirs[g].base /\ d.made = dirs[g].made
        /\ d.files = dirs[g].files
    BY <1>1 DEF Dirs
  <2>3. d # NoDir
    BY <2>2 DEF Dirs, NoDir
  <2>4. g = cur => \A n \in Segments :
            n >= sess.oldest /\ n >= d.base /\ n < d.made => n \in d.files
    BY <2>2 DEF WindowInv, KeptOnDisk
  <2> HIDE DEF d
  <2> QED
    BY <2>1, <2>2, <2>3, <2>4, DirStep
<1> QED
  BY <1>3, <1>4

LEMMA StopEndsStep ==
    ASSUME WindowInv, NEW g \in 1 .. Len(dirs), StopEnds(g)
    PROVE  WindowInv'
<1>1. /\ dirs' = [dirs EXCEPT ![g] = NoDir] /\ tasks' \subseteq tasks
      /\ UNCHANGED <<cur, sess, req, left>> /\ g # cur
  BY DEF StopEnds, diskVars
<1> QED
  BY <1>1, DirStep

(* Only the directories survive. *)
LEMMA RestartStep ==
    ASSUME WindowInv, Restart
    PROVE  WindowInv'
<1>1. \A g \in DOMAIN dirs : dirs[g].files \subseteq Segments
  <2>1. \A g \in DOMAIN dirs : dirs[g] \in Dirs \cup {NoDir}
    BY ElementOfSeq DEF WindowInv, WindowTypes
  <2> QED
    BY <2>1 DEF Dirs, NoDir
<1>2. left' \in [1 .. MaxSessions -> SUBSET Segments]
  BY <1>1 DEF Restart, WindowInv, WindowTypes
<1>3. dirs' \in Seq(Dirs \cup {NoDir}) /\ Len(dirs') = 0
  BY DEF Restart
<1>4. WindowTypes'
  BY <1>2, <1>3, Bounds, SimpleTypes DEF Restart, WindowTypes
<1> QED
  BY <1>3, <1>4 DEF Restart, WindowInv, CurrentFits, TasksPast, GivenMade, KeptOnDisk,
                    WaitsForWritten, NoRequest

-----------------------------------------------------------------------------
(* The theorems *)

LEMMA WindowStep ==
    ASSUME WindowInv, [WindowNext]_windowVars
    PROVE  WindowInv'
<1> DOMAIN dirs = 1 .. Len(dirs)
  BY DEF WindowInv, WindowTypes
<1>1. ASSUME NEW c \in Clients, Handle(c)
      PROVE  WindowInv'
  BY <1>1, AskSegmentStep, AskPlaylistStep, EnsureReusesStep, EnsureTakesOutStep,
     EnsureStoppedStep, EnsureCreatesStep, HandlerEnds, RecordSegmentRequestStep,
     SegmentFoundStep, PlaylistWindowStep DEF Handle
<1>2. ASSUME NEW p \in Segments, RecordProgress(Cutoff(p))
      PROVE  WindowInv'
  BY <1>2, CutoffType, RecordProgressStep
<1>3. ASSUME NEW t \in tasks, CleanupOldSegments(t)
      PROVE  WindowInv'
  BY <1>3, CleanupStep
<1>4. ASSUME NEW g \in DOMAIN dirs, Write(g) \/ Finish(g) \/ StopEnds(g)
      PROVE  WindowInv'
  BY <1>4, FFmpegStep, StopEndsStep
<1>5. CASE Stop
  <2>1. /\ cur' = 0 /\ sess' = NoSession /\ UNCHANGED <<dirs, tasks, left>>
        /\ req' \in [Clients -> Requests] /\ \A c \in Clients : req'[c].given <= Len(dirs)
    BY <1>5 DEF Stop, diskVars, WindowInv, WindowTypes, GivenMade
  <2> QED
    BY <2>1, TakenOut
<1>6. CASE Restart
  BY <1>6, RestartStep
<1>7. CASE UNCHANGED windowVars
  BY <1>7 DEF windowVars, diskVars, WindowInv, WindowTypes, CurrentFits, TasksPast, GivenMade,
              KeptOnDisk, WaitsForWritten
<1> QED
  BY <1>1, <1>2, <1>3, <1>4, <1>5, <1>6, <1>7 DEF WindowNext

(* The inductive invariant of the segment window: through seeks, playlist  *)
(* requests that move a session's start, cleanups carried out late,        *)
(* sessions that replace one another, and restarts of the process.         *)
THEOREM WindowInvariant == WindowSpec => []WindowInv
<1>1. WindowInit => WindowInv
  BY WindowInitially
<1>2. WindowInv /\ [WindowNext]_windowVars => WindowInv'
  BY WindowStep
<1> QED
  BY <1>1, <1>2, PTL DEF WindowSpec

(* Type correctness: a session's oldest segment is never before its start, *)
(* and every cleanup and request names a generation that was made.         *)
THEOREM TypesHold == WindowSpec => []SegTypeOK
<1>1. WindowInv => SegTypeOK
  BY DEF WindowInv, WindowTypes, CurrentFits, SegTypeOK
<1> QED
  BY <1>1, WindowInvariant, PTL

(* A segment that the current FFmpeg wrote and that is not older than      *)
(* OldestSegmentKept is on disk, whatever cleanups are under way           *)
(* (cleanupOldSegments deletes after the unlock).                          *)
THEOREM SegmentsKept == WindowSpec => []KeptOnDisk
<1>1. WindowInv => KeptOnDisk
  BY DEF WindowInv
<1> QED
  BY <1>1, WindowInvariant, PTL

(* No segment request waits for a segment its session's FFmpeg has passed  *)
(* by (sessionForSegment decides outside the manager's lock).              *)
THEOREM WaitsAreServed == WindowSpec => []WaitsForWritten
<1>1. WindowInv => WaitsForWritten
  BY DEF WindowInv
<1> QED
  BY <1>1, WindowInvariant, PTL

=============================================================================
