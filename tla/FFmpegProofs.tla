---------------------------- MODULE FFmpegProofs ----------------------------
(*****************************************************************************)
(* Proofs about what runs FFmpeg: BufferControl, for any goroutines,         *)
(* thresholds and number of segments (type correctness and Settled,          *)
(* whatever decisions overtake each other), and Playback, for any devices,   *)
(* catalogs, session                                                         *)
(* limits and faults (PlaybackInv is inductive; from it follow the types,    *)
(* HearsChoice and FallbackKept, and RestartedForCause for every step).      *)
(*****************************************************************************)
EXTENDS BufferControl, Playback, TLAPS

-----------------------------------------------------------------------------
(*****************************************************************************)
(* BufferControl                                                             *)
(*****************************************************************************)

-----------------------------------------------------------------------------
(* Positions *)

LEMMA MaxOfTwo ==
    ASSUME NEW x \in 0 .. Last, NEW y \in 0 .. Last
    PROVE  Max({x, y}) \in 0 .. Last
<1>1. Last \in Nat /\ x \in Nat /\ y \in Nat
  BY BufferAssumption
<1>2. \E z \in {x, y} : \A w \in {x, y} : z >= w
  <2>1. CASE x >= y
    BY <1>1, <2>1
  <2>2. CASE y >= x
    BY <1>1, <2>2
  <2> QED
    BY <1>1, <2>1, <2>2
<1>3. Max({x, y}) = CHOOSE z \in {x, y} : \A w \in {x, y} : z >= w
  BY DEF Max
<1>4. (CHOOSE z \in {x, y} : \A w \in {x, y} : z >= w) \in {x, y}
  BY <1>2
<1> QED
  BY <1>3, <1>4

-----------------------------------------------------------------------------
(* Types *)

LEMMA InitialTypes ==
    ASSUME BufferInit
    PROVE  BufferTypeOK
<1>1. Last \in Nat
  BY BufferAssumption
<1>2. 0 \in 0 .. Last
  BY <1>1
<1>3. {made, seen, position} \subseteq 0 .. Last
  BY <1>2 DEF BufferInit
<1>4. calm \in 0 .. 2
  BY DEF BufferInit
<1> QED
  BY <1>3, <1>4 DEF BufferInit, BufferTypeOK

Places == {"idle", "pause", "SIGSTOP", "set", "resume", "SIGCONT", "clear"}

LEMMA CalmerIs ==
    ASSUME calm \in 0 .. 2
    PROVE  /\ Calmer \in 0 .. 2
           /\ ~Applied => Calmer = 0
           /\ Applied => (Calmer = 2 <=> calm >= 1)
<1>1. \E z \in {calm + 1, 2} : \A w \in {calm + 1, 2} : z <= w
  <2>1. CASE calm = 2
    BY <2>1
  <2>2. CASE calm # 2
    <3>1. calm + 1 <= 2
      BY <2>2
    <3> QED
      BY <3>1
  <2> QED
    BY <2>1, <2>2
<1> DEFINE least == CHOOSE z \in {calm + 1, 2} : \A w \in {calm + 1, 2} : z <= w
<1>2. Min({calm + 1, 2}) = least
  BY DEF Min
<1>3. least \in {calm + 1, 2} /\ least <= calm + 1 /\ least <= 2
  BY <1>1
<1> HIDE DEF least
<1> QED
  BY <1>2, <1>3 DEF Calmer

LEMMA DecideTypes ==
    ASSUME BufferTypeOK, NEW a \in Actors, NEW s \in 0 .. Last, NEW p \in 0 .. Last,
           Decide(a, s, p)
    PROVE  BufferTypeOK'
<1> DEFINE resume == buffered /\ Buffer(s, p) < ResumeAt
           pause == ~buffered /\ Buffer(s, p) > PauseAt
           place == IF pause THEN "pause" ELSE IF resume THEN "resume" ELSE "idle"
<1>1. /\ seen' = s /\ position' = p /\ UNCHANGED <<made, proc, flag, stop>>
      /\ buffered' = (pause \/ (buffered /\ ~resume))
      /\ doing' = [doing EXCEPT ![a] = place]
  BY DEF Decide
<1>2. place \in Places
  BY DEF Places
<1> HIDE DEF pause, resume, place
<1>3. buffered' \in BOOLEAN
  BY <1>1
<1>4. doing' \in [Actors -> Places]
  BY <1>1, <1>2 DEF BufferTypeOK, Places
<1>5. calm' \in 0 .. 2
  BY CalmerIs DEF Decide, BufferTypeOK
<1> QED
  BY <1>1, <1>3, <1>4, <1>5 DEF BufferTypeOK, Places

LEMMA ApplyTypes ==
    ASSUME BufferTypeOK, NEW a \in Actors, Apply(a)
    PROVE  BufferTypeOK'
BY DEF Apply, PauseLooks, ResumeLooks, Signal, StoreFlag, Step, BufferTypeOK, playVars

LEMMA StopTypes ==
    ASSUME BufferTypeOK, TakenOut \/ Stop
    PROVE  BufferTypeOK'
BY DEF TakenOut, Stop, StopLooks, StopWakes, StopClears, WriteQuit, StopSeesEnd, GraceExpires,
       Stopping, BufferTypeOK, playVars

LEMMA FFmpegTypes ==
    ASSUME BufferTypeOK, WriteSegment \/ Exit \/ Over \/ UNCHANGED bufferVars
    PROVE  BufferTypeOK'
<1>1. CASE WriteSegment
  <2>1. made + 1 \in 0 .. Last
    BY <1>1, BufferAssumption DEF WriteSegment, BufferTypeOK
  <2> QED
    BY <1>1, <2>1 DEF WriteSegment, BufferTypeOK
<1>2. CASE Exit \/ Over \/ UNCHANGED bufferVars
  BY <1>2 DEF Exit, Over, bufferVars, playVars, BufferTypeOK
<1> QED
  BY <1>1, <1>2

(* Every step is a decision, or a step of the other three kinds.           *)
Decided ==
    \E a \in Actors, s \in 0 .. Last, p \in 0 .. Last : Decide(a, s, p)

LEMMA BufferSteps ==
    ASSUME BufferTypeOK, [BufferNext]_bufferVars
    PROVE  \/ Decided
           \/ \E a \in Actors : Apply(a)
           \/ TakenOut \/ Stop
           \/ WriteSegment \/ Exit \/ Over \/ UNCHANGED bufferVars
<1>1. seen \in 0 .. Last /\ position \in 0 .. Last
  BY DEF BufferTypeOK
<1>2. ASSUME NEW a \in Handlers, RecordSegmentRequest(a) \/ RecordSegmentReady(a) \/ RecordProgress(a)
      PROVE  Decided
  <2>1. a \in Actors
    BY DEF Actors
  <2>2. CASE RecordSegmentRequest(a)
    <3>1. PICK n \in 0 .. Last : Decide(a, HighestSeen(n), position)
      BY <2>2 DEF RecordSegmentRequest
    <3>2. HighestSeen(n) \in 0 .. Last
      BY <1>1, MaxOfTwo DEF HighestSeen
    <3> QED
      BY <1>1, <2>1, <3>1, <3>2 DEF Decided
  <2>3. CASE RecordSegmentReady(a)
    BY <1>1, <2>1, <2>3 DEF RecordSegmentReady, Decided
  <2>4. CASE RecordProgress(a)
    BY <1>1, <2>1, <2>4 DEF RecordProgress, Decided
  <2> QED
    BY <1>2, <2>2, <2>3, <2>4
<1>3. CASE ReconcileBuffers
  BY <1>1, <1>3 DEF ReconcileBuffers, Decided, Actors
<1> QED
  BY <1>2, <1>3 DEF BufferNext

(* Type correctness of the buffer control *)
THEOREM BufferTypesHold == BufferSpec => []BufferTypeOK
<1>1. BufferInit => BufferTypeOK
  BY InitialTypes
<1>2. BufferTypeOK /\ [BufferNext]_bufferVars => BufferTypeOK'
  BY BufferSteps, DecideTypes, ApplyTypes, StopTypes, FFmpegTypes DEF Decided
<1> QED
  BY <1>1, <1>2, PTL DEF BufferSpec

-----------------------------------------------------------------------------
(* What one decision that met no other repairs, and what two do *)

OneAtATime == \A a, b \in Actors : doing[a] # "idle" /\ doing[b] # "idle" => a = b

(* As long as the process is not given up: a goroutine on its way knows    *)
(* which of the flag ...                                                   *)
FlagOnTheWay(a) ==
    /\ doing[a] \in {"SIGSTOP", "set"} => buffered /\ ~flag
    /\ doing[a] \in {"SIGCONT", "clear"} => ~buffered /\ flag
    /\ doing[a] = "pause" => buffered
    /\ doing[a] = "resume" => ~buffered

(* ... and the process, if flag and process agreed before the decision, it *)
(* has brought into agreement with the manager's belief.                   *)
ProcessOnTheWay(a) ==
    /\ doing[a] = "pause" => ~flag
    /\ doing[a] = "resume" => flag
    /\ doing[a] = "set" => proc = "stopped"
    /\ doing[a] = "clear" => proc = "running"

Coherent ==
    stop = "none" /\ proc # "exited" =>
        /\ calm >= 1 => /\ Applied => (flag <=> buffered)
                        /\ \A a \in Actors : FlagOnTheWay(a)
        /\ calm = 2 => /\ Applied => (proc = "stopped" <=> buffered)
                       /\ \A a \in Actors : ProcessOnTheWay(a)

BufferInv ==
    /\ BufferTypeOK
    /\ calm >= 1 => OneAtATime
    /\ Coherent

(* A decision to pause or resume starts from agreement if it met no other. *)
LEMMA DecideCoheres ==
    ASSUME BufferInv, NEW a \in Actors, NEW s \in 0 .. Last, NEW p \in 0 .. Last,
           Decide(a, s, p)
    PROVE  (calm' >= 1 => OneAtATime') /\ Coherent'
<1> DEFINE resume == buffered /\ Buffer(s, p) < ResumeAt
           pause == ~buffered /\ Buffer(s, p) > PauseAt
           place == IF pause THEN "pause" ELSE IF resume THEN "resume" ELSE "idle"
<1>1. /\ UNCHANGED <<proc, flag, stop>> /\ doing[a] = "idle" /\ stop = "none"
      /\ buffered' = (pause \/ (buffered /\ ~resume))
      /\ doing' = [doing EXCEPT ![a] = place]
      /\ calm' = IF pause \/ resume THEN Calmer ELSE calm
  BY DEF Decide
<1>2. pause => ~resume /\ ~buffered
  OBVIOUS
<1>3. resume => buffered
  OBVIOUS
<1> HIDE DEF pause, resume
<1>4. buffered \in BOOLEAN /\ flag \in BOOLEAN /\ calm \in 0 .. 2 /\ doing \in [Actors -> Places]
  BY DEF BufferInv, BufferTypeOK, Places
<1>5. CASE ~pause /\ ~resume
  <2>1. place = "idle" /\ buffered' = buffered /\ calm' = calm
    BY <1>1, <1>4, <1>5
  <2>2. doing' = doing
    BY <1>1, <1>4, <2>1
  <2> QED
    BY <1>1, <2>1, <2>2
       DEF BufferInv, OneAtATime, Coherent, Applied, FlagOnTheWay, ProcessOnTheWay
<1>6. CASE (pause \/ resume) /\ ~Applied
  <2>1. calm' = 0
    BY <1>1, <1>4, <1>6, CalmerIs
  <2> QED
    BY <2>1 DEF Coherent
<1>7. CASE (pause \/ resume) /\ Applied
  <2>1. calm' \in 0 .. 2 /\ (calm' = 2 => calm >= 1)
    BY <1>1, <1>4, <1>7, CalmerIs
  <2>2. doing'[a] = place /\ place # "idle" /\ \A b \in Actors : b # a => doing'[b] = "idle"
    BY <1>1, <1>4, <1>7 DEF Applied
  <2>3. OneAtATime'
    BY <2>2 DEF OneAtATime
  <2>4. ~Applied'
    BY <2>2 DEF Applied
  <2>5. FlagOnTheWay(a)'
    <3>1. CASE pause
      <4>1. place = "pause" /\ buffered'
        BY <1>1, <3>1
      <4> QED
        BY <2>2, <4>1 DEF FlagOnTheWay
    <3>2. CASE ~pause /\ resume
      <4>1. place = "resume" /\ ~buffered'
        BY <1>1, <1>3, <3>2
      <4> QED
        BY <2>2, <4>1 DEF FlagOnTheWay
    <3> QED
      BY <1>7, <3>1, <3>2
  <2>6. ASSUME calm' = 2, proc # "exited"
        PROVE  ProcessOnTheWay(a)'
    <3>1. flag <=> buffered
      BY <1>1, <1>7, <2>1, <2>6 DEF BufferInv, Coherent
    <3>2. CASE pause
      <4>1. place = "pause" /\ ~flag'
        BY <1>1, <1>2, <3>1, <3>2
      <4> QED
        BY <2>2, <4>1 DEF ProcessOnTheWay
    <3>3. CASE ~pause /\ resume
      <4>1. place = "resume" /\ flag'
        BY <1>1, <1>3, <3>1, <3>3
      <4> QED
        BY <2>2, <4>1 DEF ProcessOnTheWay
    <3> QED
      BY <1>7, <3>2, <3>3
  <2>7. \A b \in Actors : b # a => FlagOnTheWay(b)' /\ ProcessOnTheWay(b)'
    BY <2>2 DEF FlagOnTheWay, ProcessOnTheWay
  <2> QED
    BY <1>1, <2>3, <2>4, <2>5, <2>6, <2>7 DEF Coherent
<1> QED
  BY <1>5, <1>6, <1>7

(* One step of a goroutine that applies a decision *)
LEMMA ApplyCoheres ==
    ASSUME BufferInv, NEW a \in Actors, Apply(a)
    PROVE  (calm' >= 1 => OneAtATime') /\ Coherent'
<1>1. /\ doing[a] # "idle" /\ UNCHANGED <<buffered, stop, calm>>
      /\ doing'[a] \in Places
      /\ \A b \in Actors : b # a => doing'[b] = doing[b]
  BY DEF Apply, PauseLooks, ResumeLooks, Signal, StoreFlag, Step, BufferInv, BufferTypeOK,
         playVars, Places
<1> SUFFICES ASSUME calm >= 1
             PROVE  OneAtATime' /\ Coherent'
  BY <1>1 DEF Coherent, BufferInv, BufferTypeOK
<1>2. \A b \in Actors : b # a => doing[b] = "idle" /\ doing'[b] = "idle"
  BY <1>1 DEF BufferInv, OneAtATime
<1>3. OneAtATime'
  BY <1>2 DEF OneAtATime
<1>4. \A b \in Actors : b # a => FlagOnTheWay(b)' /\ ProcessOnTheWay(b)'
  BY <1>2 DEF FlagOnTheWay, ProcessOnTheWay
<1>5. ASSUME stop = "none", proc' # "exited"
      PROVE  /\ (Applied' => (flag' <=> buffered')) /\ FlagOnTheWay(a)'
             /\ calm = 2 => (Applied' => (proc' = "stopped" <=> buffered')) /\ ProcessOnTheWay(a)'
  <2>1. /\ proc # "exited" /\ proc \in {"running", "stopped"}
        /\ FlagOnTheWay(a) /\ (calm = 2 => ProcessOnTheWay(a))
        /\ flag \in BOOLEAN /\ buffered \in BOOLEAN
    BY <1>5 DEF Apply, PauseLooks, ResumeLooks, Signal, StoreFlag, BufferInv, BufferTypeOK, Coherent
  <2>2. CASE PauseLooks(a)
    <3>1. /\ doing[a] = "pause" /\ UNCHANGED <<proc, flag>>
          /\ \/ flag /\ doing'[a] = "idle"
             \/ ~flag /\ doing'[a] = "SIGSTOP"
      BY <2>1, <2>2 DEF PauseLooks, Step, BufferInv, BufferTypeOK
    <3> QED
      BY <1>1, <2>1, <3>1 DEF FlagOnTheWay, ProcessOnTheWay, Applied
  <2>3. CASE ResumeLooks(a)
    <3>1. /\ doing[a] = "resume" /\ UNCHANGED <<proc, flag>>
          /\ \/ ~flag /\ doing'[a] = "idle"
             \/ flag /\ doing'[a] = "SIGCONT"
      BY <2>1, <2>3 DEF ResumeLooks, Step, BufferInv, BufferTypeOK
    <3> QED
      BY <1>1, <2>1, <3>1 DEF FlagOnTheWay, ProcessOnTheWay, Applied
  <2>4. CASE Signal(a)
    <3>1. \/ doing[a] = "SIGSTOP" /\ doing'[a] = "set" /\ proc' = "stopped" /\ UNCHANGED flag
          \/ doing[a] = "SIGCONT" /\ doing'[a] = "clear" /\ proc' = "running" /\ UNCHANGED flag
      BY <2>1, <2>4 DEF Signal, Step, BufferInv, BufferTypeOK
    <3> QED
      BY <1>1, <2>1, <3>1 DEF FlagOnTheWay, ProcessOnTheWay, Applied
  <2>5. CASE StoreFlag(a)
    <3>1. /\ doing'[a] = "idle" /\ UNCHANGED proc /\ flag' = (doing[a] = "set")
          /\ doing[a] \in {"set", "clear"}
      BY <2>5 DEF StoreFlag, Step, BufferInv, BufferTypeOK
    <3>2. CASE doing[a] = "set"
      BY <1>1, <2>1, <3>1, <3>2 DEF FlagOnTheWay, ProcessOnTheWay
    <3>3. CASE doing[a] = "clear"
      BY <1>1, <2>1, <3>1, <3>3 DEF FlagOnTheWay, ProcessOnTheWay
    <3> QED
      BY <3>1, <3>2, <3>3
  <2> QED
    BY <2>2, <2>3, <2>4, <2>5 DEF Apply
<1> QED
  BY <1>1, <1>3, <1>4, <1>5 DEF Coherent

(* The other steps end the obligation or leave the three views alone.      *)
LEMMA OthersCohere ==
    ASSUME BufferInv,
           \/ TakenOut \/ Stop
           \/ WriteSegment \/ Exit \/ Over \/ UNCHANGED bufferVars
    PROVE  (calm' >= 1 => OneAtATime') /\ Coherent'
<1>1. CASE TakenOut \/ Stop
  <2>1. UNCHANGED <<doing, calm>> /\ stop' # "none"
    BY <1>1 DEF TakenOut, Stop, StopLooks, StopWakes, StopClears, WriteQuit, StopSeesEnd,
                GraceExpires, Stopping
  <2> QED
    BY <2>1 DEF BufferInv, OneAtATime, Coherent
<1>2. CASE Exit
  BY <1>2 DEF Exit, BufferInv, OneAtATime, Coherent
<1>3. CASE WriteSegment \/ Over \/ UNCHANGED bufferVars
  <2>1. UNCHANGED <<buffered, proc, flag, doing, stop, calm>>
    BY <1>3 DEF WriteSegment, Over, bufferVars
  <2> QED
    BY <2>1 DEF BufferInv, OneAtATime, Coherent, Applied, FlagOnTheWay, ProcessOnTheWay
<1> QED
  BY <1>1, <1>2, <1>3

LEMMA BufferInvariant == BufferSpec => []BufferInv
<1>1. BufferInit => BufferInv
  BY InitialTypes
     DEF BufferInit, BufferInv, OneAtATime, Coherent, Applied, FlagOnTheWay, ProcessOnTheWay
<1>2. BufferInv /\ [BufferNext]_bufferVars => BufferInv'
  <2> SUFFICES ASSUME BufferInv, [BufferNext]_bufferVars
               PROVE  BufferInv'
    OBVIOUS
  <2>1. CASE Decided
    BY <2>1, DecideTypes, DecideCoheres DEF Decided, BufferInv
  <2>2. ASSUME NEW a \in Actors, Apply(a)
        PROVE  BufferInv'
    BY <2>2, ApplyTypes, ApplyCoheres DEF BufferInv
  <2>3. CASE TakenOut \/ Stop \/ WriteSegment \/ Exit \/ Over \/ UNCHANGED bufferVars
    BY <2>3, StopTypes, FFmpegTypes, OthersCohere DEF BufferInv
  <2> QED
    BY <2>1, <2>2, <2>3, BufferSteps DEF BufferInv
<1> QED
  BY <1>1, <1>2, PTL DEF BufferSpec

(* However decisions overtake each other (bufferActionLocked decides,      *)
(* applyBufferAction, Pause and Resume follow after the unlock): whenever  *)
(* nobody is at work, one decision that met no other has brought the flag  *)
(* back to what the manager believes, and two the process.                 *)
THEOREM BuffersSettle == BufferSpec => []Settled
<1>1. BufferInv => Settled
  BY DEF BufferInv, Coherent, Settled
<1> QED
  BY <1>1, BufferInvariant, PTL

-----------------------------------------------------------------------------
(*****************************************************************************)
(* Playback                                                                  *)
(*****************************************************************************)

(* A session that failed, decoding in hardware *)
Failed == playing # Absent /\ playing.ffmpeg = "done" /\ playing.pipeline # "encode"

(* Such an end is remembered in fallback, or still to be found by Ensure.  *)
FailureKept ==
    /\ Failed => ended
    /\ ended /\ ~forgotten => fallback \/ Failed

(* What clients ask for is a choice that a reply gave them.                *)
ChoicesOnly ==
    /\ \A c \in Devices : url[c] # Absent => url[c] \in ChoicesOf(url[c].version)
    /\ \A c \in Devices : wish[c].at # "idle" => wish[c].want \in ChoicesOf(wish[c].want.version)

(* The stream that FFmpeg maps is the one of its session, and what was     *)
(* served comes from a session of the stream asked for.                    *)
MapsOwnStream ==
    /\ playing # Absent /\ playing.known /\ OneVersion => playing.map = AudioMap(1, playing.audio)
    /\ \A c \in Devices : wish[c].at = "served" =>
          (wish[c].got.known /\ OneVersion => wish[c].got.map = AudioMap(1, wish[c].want.audio))

(* Inputs are made for a client that asked, from a version or from the     *)
(* audio stream of the request.                                            *)
MadeFor(i, audio) ==
    /\ i.device \in asked /\ i.version \in DOMAIN catalog
    /\ IF i.direct THEN i.audio = 0 /\ catalog[i.version].direct
       ELSE i.audio = audio /\ i.psid = 0
InputsMade ==
    /\ \A c \in Devices : info[c] # NoInfo => c \in asked
    /\ media # Absent /\ media.input # Absent => media.input.direct /\ MadeFor(media.input, 0)
    /\ \A c \in Devices :
          wish[c].at # "idle" => c \in asked /\ MadeFor(wish[c].input, wish[c].want.audio)
    /\ playing # Absent => MadeFor(playing.input, playing.audio)

(* Once FFmpeg or a request has the DirectStreamUrl of the only version,   *)
(* every later request of the client has it.                               *)
DirectSeen ==
    \/ playing # Absent /\ playing.input.direct
    \/ \E c \in Devices : wish[c].at # "idle" /\ wish[c].input.direct
DirectKept ==
    OneVersion =>
        /\ DirectSeen => media # Absent /\ media.input # Absent
        /\ playing # Absent /\ playing.input.direct =>
              \A c \in Devices : asked = {c} /\ wish[c].at # "idle" => wish[c].input.direct

PlaybackInv ==
    /\ PlaybackTypeOK /\ FailureKept /\ FallbackKept /\ ChoicesOnly /\ MapsOwnStream
    /\ InputsMade /\ DirectKept

-----------------------------------------------------------------------------
(* Catalogs, choices and audio streams *)

LEMMA CatalogShape ==
    ASSUME PlaybackTypeOK
    PROVE  /\ Len(catalog) \in Nat \ {0} /\ DOMAIN catalog = 1 .. Len(catalog)
           /\ \A k \in DOMAIN catalog :
                 /\ catalog[k] \in Versions
                 /\ DOMAIN catalog[k].audio = 1 .. Len(catalog[k].audio)
                 /\ \A i \in DOMAIN catalog[k].audio : catalog[k].audio[i] \in Nat \ {0}
<1>1. catalog \in Seq(Versions) /\ catalog # <<>>
  BY PlaybackAssumption DEF PlaybackTypeOK
<1>2. \A k \in DOMAIN catalog : catalog[k] \in Versions
  BY <1>1
<1>3. \A k \in DOMAIN catalog : catalog[k].audio \in Seq(Nat \ {0})
  BY <1>2 DEF Versions
<1> QED
  BY <1>1, <1>2, <1>3

LEMMA PreferredType ==
    ASSUME PlaybackTypeOK, NEW k \in DOMAIN catalog
    PROVE  \/ Preferred(catalog[k]) = 0
           \/ \E i \in DOMAIN catalog[k].audio : catalog[k].audio[i] = Preferred(catalog[k])
<1>1. CASE \E i \in DOMAIN catalog[k].audio : catalog[k].audio[i] = catalog[k].default
  BY <1>1 DEF Preferred
<1>2. CASE ~ \E i \in DOMAIN catalog[k].audio : catalog[k].audio[i] = catalog[k].default
  <2>1. Preferred(catalog[k]) = IF Len(catalog[k].audio) = 1 THEN catalog[k].audio[1] ELSE 0
    BY <1>2 DEF Preferred
  <2>2. Len(catalog[k].audio) = 1 => 1 \in DOMAIN catalog[k].audio
    BY CatalogShape
  <2> QED
    BY <2>1, <2>2
<1> QED
  BY <1>1, <1>2

LEMMA ChoiceTypes ==
    ASSUME PlaybackTypeOK, NEW k \in DOMAIN catalog, NEW w \in ChoicesOf(k)
    PROVE  /\ w \in Wants /\ w.version = k
           /\ w.audio = 0 \/ \E i \in DOMAIN catalog[k].audio : catalog[k].audio[i] = w.audio
<1>1. w \in [version : {k}, audio : {catalog[k].audio[i] : i \in DOMAIN catalog[k].audio}
                                        \cup {Preferred(catalog[k])}]
  BY DEF ChoicesOf
<1>2. w.audio = 0 \/ \E i \in DOMAIN catalog[k].audio : catalog[k].audio[i] = w.audio
  BY <1>1, PreferredType
<1>3. w.audio \in Nat
  BY <1>2, CatalogShape
<1>4. w = [version |-> w.version, audio |-> w.audio] /\ w.version = k
  BY <1>1
<1> QED
  BY <1>2, <1>3, <1>4 DEF Wants

LEMMA AudioMapType ==
    ASSUME PlaybackTypeOK, NEW m \in 0 .. Len(catalog), NEW a
    PROVE  AudioMap(m, a) \in Nat \ {0}
<1>1. CASE m # 0 /\ \E i \in DOMAIN catalog[m].audio : catalog[m].audio[i] = a
  <2>1. m \in DOMAIN catalog
    BY <1>1, CatalogShape
  <2>2. AudioMap(m, a) \in DOMAIN catalog[m].audio
    BY <1>1 DEF AudioMap
  <2>3. DOMAIN catalog[m].audio = 1 .. Len(catalog[m].audio)
    BY <2>1, CatalogShape
  <2> QED
    BY <2>2, <2>3
<1>2. CASE ~(m # 0 /\ \E i \in DOMAIN catalog[m].audio : catalog[m].audio[i] = a)
  BY <1>2 DEF AudioMap
<1> QED
  BY <1>1, <1>2

(* AudioMap finds the stream that a choice of the version names.           *)
LEMMA AudioMapFinds ==
    ASSUME PlaybackTypeOK, OneVersion, NEW w \in ChoicesOf(1)
    PROVE  IF w.audio = 0 THEN AudioMap(1, w.audio) = 1
           ELSE /\ AudioMap(1, w.audio) \in DOMAIN catalog[1].audio
                /\ catalog[1].audio[AudioMap(1, w.audio)] = w.audio
<1>1. 1 \in DOMAIN catalog
  BY CatalogShape DEF OneVersion
<1>2. w.audio = 0 \/ \E i \in DOMAIN catalog[1].audio : catalog[1].audio[i] = w.audio
  BY <1>1, ChoiceTypes
<1>3. CASE w.audio = 0
  <2>1. ~ \E i \in DOMAIN catalog[1].audio : catalog[1].audio[i] = w.audio
    BY <1>1, <1>3, CatalogShape
  <2> QED
    BY <1>3, <2>1 DEF AudioMap
<1>4. CASE w.audio # 0
  BY <1>2, <1>4 DEF AudioMap
<1> QED
  BY <1>3, <1>4

LEMMA InputURLType ==
    ASSUME PlaybackTypeOK, NEW c \in Devices, url[c] # Absent
    PROVE  InputURL(c) \in Inputs
<1>1. url[c] \in Wants
  BY DEF PlaybackTypeOK
<1>2. url[c].version \in Nat /\ url[c].audio \in Nat
  BY <1>1, CatalogShape DEF Wants
<1>3. media # Absent => media.input \in Inputs \cup {Absent}
  BY DEF PlaybackTypeOK
<1> QED
  BY <1>2, <1>3 DEF InputURL, Inputs

-----------------------------------------------------------------------------
(* Requests *)

LEMMA CatalogKept ==
    ASSUME [PlaybackNext]_playbackVars
    PROVE  catalog' = catalog /\ Wants' = Wants /\ Wishes' = Wishes
<1>1. catalog' = catalog
  BY DEF PlaybackNext, playbackVars, PlaybackInfo, Remember, AskFor, ReadMedia, Look, Delivered,
         EnsureReuses, EnsureTakesOut, EnsureCreates, FFmpegEnds, TakenAway, Restart
<1> QED
  BY <1>1 DEF Wants, Wishes

LEMMA WishChanged ==
    ASSUME PlaybackTypeOK, NEW c \in Devices, NEW w, wish' = [wish EXCEPT ![c] = w]
    PROVE  /\ wish'[c] = w
           /\ \A d \in Devices : d # c => wish'[d] = wish[d]
           /\ DOMAIN wish' = Devices
BY DEF PlaybackTypeOK

LEMMA WishTypes ==
    ASSUME PlaybackTypeOK, NEW c \in Devices, NEW w \in Wishes, wish' = [wish EXCEPT ![c] = w],
           w.at # "idle" => w.want \in Wants /\ w.input \in Inputs
    PROVE  /\ wish' \in [Devices -> Wishes]
           /\ \A d \in Devices :
                 wish'[d].at # "idle" => wish'[d].want \in Wants /\ wish'[d].input \in Inputs
BY DEF PlaybackTypeOK

LEMMA NoRequestType == ASSUME PlaybackTypeOK PROVE NoRequest \in Wishes
<1>1. 0 \in 0 .. Len(catalog)
  BY CatalogShape
<1> QED
  BY <1>1 DEF NoRequest, Wishes

(* What each operation makes of the request of a client *)
LEMMA AskMakes ==
    ASSUME PlaybackTypeOK, NEW c \in Devices, AskFor(c)
    PROVE  \E w \in Wishes :
              /\ wish' = [wish EXCEPT ![c] = w]
              /\ w.at \in {"media", "ensure"} /\ w.want = url[c] /\ w.input = InputURL(c)
              /\ url[c] # Absent /\ url[c] \in Wants /\ InputURL(c) \in Inputs
<1> DEFINE W(segment, seek) ==
               [at |-> IF segment THEN "media" ELSE "ensure", want |-> url[c], segment |-> segment,
                seek |-> seek, input |-> InputURL(c), media |-> 0, got |-> Absent]
<1>1. PICK segment \in BOOLEAN, seek \in BOOLEAN : wish' = [wish EXCEPT ![c] = W(segment, seek)]
  BY DEF AskFor
<1> DEFINE w == W(segment, seek)
<1>2. wish' = [wish EXCEPT ![c] = w]
  BY <1>1
<1>3. url[c] # Absent /\ url[c] \in Wants /\ InputURL(c) \in Inputs
  BY InputURLType DEF AskFor, PlaybackTypeOK
<1>4. w \in Wishes
  <2>1. 0 \in 0 .. Len(catalog)
    BY CatalogShape
  <2> QED
    BY <1>3, <2>1 DEF Wishes
<1> QED
  BY <1>2, <1>3, <1>4

LEMMA ReadMediaMakes ==
    ASSUME PlaybackTypeOK, NEW c \in Devices, ReadMedia(c)
    PROVE  \E w \in Wishes :
              /\ wish' = [wish EXCEPT ![c] = w]
              /\ wish[c].at = "media" /\ w.at = "look"
              /\ w.want = wish[c].want /\ w.input = wish[c].input
<1> DEFINE m == IF media = Absent THEN 0 ELSE media.version
           w == [wish[c] EXCEPT !.at = "look", !.media = m]
<1>1. wish[c] \in Wishes
  BY DEF PlaybackTypeOK
<1>2. m \in 0 .. Len(catalog)
  BY CatalogShape DEF PlaybackTypeOK
<1> HIDE DEF m
<1>3. w \in Wishes /\ w.at = "look" /\ w.want = wish[c].want /\ w.input = wish[c].input
  BY <1>1, <1>2 DEF Wishes
<1>4. wish' = [wish EXCEPT ![c] = w]
  BY DEF ReadMedia, m, PlaybackTypeOK
<1> QED
  BY <1>3, <1>4 DEF ReadMedia

LEMMA GivenMakes ==
    ASSUME PlaybackTypeOK, NEW c \in Devices, NEW s \in FFmpegs, Given(c, s)
    PROVE  \E w \in Wishes :
              /\ wish' = [wish EXCEPT ![c] = w]
              /\ w.at = "served" /\ w.got = [known |-> s.known, map |-> s.map]
              /\ w.want = wish[c].want /\ w.input = wish[c].input
<1> DEFINE w == [wish[c] EXCEPT !.at = "served", !.got = [known |-> s.known, map |-> s.map]]
<1>1. wish[c] \in Wishes
  BY DEF PlaybackTypeOK
<1>2. [known |-> s.known, map |-> s.map] \in [known : BOOLEAN, map : Nat \ {0}]
  BY DEF FFmpegs
<1>3. w \in Wishes /\ w.at = "served" /\ w.got = [known |-> s.known, map |-> s.map]
      /\ w.want = wish[c].want /\ w.input = wish[c].input
  BY <1>1, <1>2 DEF Wishes
<1>4. wish' = [wish EXCEPT ![c] = w]
  BY DEF Given, PlaybackTypeOK
<1> QED
  BY <1>3, <1>4

LEMMA LookMakes ==
    ASSUME PlaybackTypeOK, NEW c \in Devices, Look(c),
           ~(/\ playing # Absent /\ playing.ffmpeg = "running"
             /\ Compatible(wish[c]) /\ playing.audio = wish[c].want.audio /\ ~wish[c].seek)
    PROVE  \E w \in Wishes :
              /\ wish' = [wish EXCEPT ![c] = w]
              /\ wish[c].at = "look" /\ w.at = "ensure"
              /\ w.want = wish[c].want /\ w.input = wish[c].input
<1> DEFINE w == [wish[c] EXCEPT !.at = "ensure"]
<1>1. wish[c] \in Wishes
  BY DEF PlaybackTypeOK
<1>2. w \in Wishes /\ w.at = "ensure" /\ w.want = wish[c].want /\ w.input = wish[c].input
  BY <1>1 DEF Wishes
<1>3. wish' = [wish EXCEPT ![c] = w]
  BY DEF Look, PlaybackTypeOK
<1> QED
  BY <1>2, <1>3 DEF Look

-----------------------------------------------------------------------------
(* Types *)

LEMMA RememberTypes ==
    ASSUME PlaybackTypeOK, NEW c \in Devices, Remember(c)
    PROVE  /\ info[c].next \in DOMAIN catalog /\ info[c].psid \in Nat
           /\ media' \in [version : DOMAIN catalog, input : Inputs \cup {Absent}]
           /\ info' \in [Devices -> {NoInfo} \cup [next : DOMAIN catalog, psid : Nat]]
           /\ url' \in [Devices -> Wants \cup {Absent}]
<1>1. info[c].next \in DOMAIN catalog /\ info[c].psid \in Nat
      /\ info[c] \in [next : DOMAIN catalog, psid : Nat]
  BY DEF Remember, PlaybackTypeOK
<1>2. info[c].next \in 1 .. Len(catalog)
  BY <1>1, CatalogShape
<1> DEFINE k == info[c].next
           direct == [direct |-> TRUE, version |-> k, device |-> c, audio |-> 0, psid |-> info[c].psid]
<1>3. direct \in Inputs
  BY <1>1, <1>2 DEF Inputs
<1>4. media' = [version |-> k, input |-> IF catalog[k].direct THEN direct ELSE Absent]
  BY DEF Remember
<1>5. media' \in [version : DOMAIN catalog, input : Inputs \cup {Absent}]
  <2> HIDE DEF k, direct
  <2>1. k \in DOMAIN catalog
    BY <1>1 DEF k
  <2> QED
    BY <1>3, <1>4, <2>1
<1>6. CASE k < Len(catalog)
  <2>1. info' = [info EXCEPT ![c].next = k + 1] /\ url' = url
    BY <1>6 DEF Remember
  <2>2. k + 1 \in DOMAIN catalog
    BY <1>2, <1>6, CatalogShape
  <2> HIDE DEF k
  <2> QED
    BY <1>1, <1>5, <2>1, <2>2 DEF PlaybackTypeOK, k
<1>7. CASE ~(k < Len(catalog))
  <2>1. info' = [info EXCEPT ![c] = NoInfo]
    BY <1>7 DEF Remember
  <2>2. PICK v \in DOMAIN catalog : \E w \in ChoicesOf(v) : url' = [url EXCEPT ![c] = w]
    BY <1>7 DEF Remember
  <2>3. PICK w \in ChoicesOf(v) : url' = [url EXCEPT ![c] = w]
    BY <2>2
  <2>4. w \in Wants
    BY ChoiceTypes
  <2> QED
    BY <1>1, <1>5, <2>1, <2>3, <2>4 DEF PlaybackTypeOK
<1> QED
  BY <1>6, <1>7

(* A session whose media change is the same session otherwise. *)
LEMMA MediaOnly ==
    ASSUME NEW s \in FFmpegs, NEW m \in Nat
    PROVE  LET t == [s EXCEPT !.media = m]
           IN  /\ t \in FFmpegs /\ t # Absent /\ t.media = m
               /\ t.input = s.input /\ t.audio = s.audio /\ t.want = s.want /\ t.known = s.known
               /\ t.map = s.map /\ t.pipeline = s.pipeline /\ t.ffmpeg = s.ffmpeg
<1>1. [s EXCEPT !.media = m] \in FFmpegs
  BY DEF FFmpegs
<1> QED
  BY <1>1, PlaybackAssumption DEF FFmpegs

LEMMA EndedOnly ==
    ASSUME NEW s \in FFmpegs
    PROVE  LET t == [s EXCEPT !.ffmpeg = "done"]
           IN  /\ t \in FFmpegs /\ t # Absent /\ t.media = s.media
               /\ t.input = s.input /\ t.audio = s.audio /\ t.want = s.want /\ t.known = s.known
               /\ t.map = s.map /\ t.pipeline = s.pipeline /\ t.ffmpeg = "done"
<1>1. [s EXCEPT !.ffmpeg = "done"] \in FFmpegs
  BY DEF FFmpegs
<1> QED
  BY <1>1, PlaybackAssumption DEF FFmpegs

LEMMA CreatesTypes ==
    ASSUME PlaybackTypeOK, NEW c \in Devices, EnsureCreates(c)
    PROVE  /\ playing' \in FFmpegs /\ playing' # Absent
           /\ playing'.media \in 0 .. Len(catalog)
           /\ playing'.want = wish[c].want /\ playing'.want \in Wants
           /\ playing'.audio = wish[c].want.audio /\ playing'.input = wish[c].input
           /\ playing'.known <=> playing'.media # 0
           /\ playing'.map = AudioMap(playing'.media, playing'.audio)
           /\ playing'.pipeline = Pipeline(playing'.media) /\ playing'.ffmpeg = "running"
<1> DEFINE r == wish[c]
           m == IF r.media # 0 THEN r.media ELSE IF media = Absent THEN 0 ELSE media.version
           s == [input |-> r.input, media |-> m, audio |-> r.want.audio, want |-> r.want,
                 known |-> m # 0, map |-> AudioMap(m, r.want.audio),
                 pipeline |-> Pipeline(m), ffmpeg |-> "running"]
<1>1. playing' = s
  BY DEF EnsureCreates
<1>2. r \in Wishes /\ r.want \in Wants /\ r.input \in Inputs
  BY DEF PlaybackTypeOK, EnsureCreates
<1>3. m \in 0 .. Len(catalog)
  <2>1. r.media \in 0 .. Len(catalog)
    BY <1>2 DEF Wishes
  <2>2. media # Absent => media.version \in 1 .. Len(catalog)
    BY CatalogShape DEF PlaybackTypeOK
  <2>3. 0 \in 0 .. Len(catalog) /\ \A v \in 1 .. Len(catalog) : v \in 0 .. Len(catalog)
    BY CatalogShape
  <2> HIDE DEF r
  <2> QED
    BY <2>1, <2>2, <2>3
<1>4. m \in Nat
  BY <1>3, CatalogShape
<1> HIDE DEF r, m
<1>5. r.want.audio \in Nat /\ r.want \in [version : Nat, audio : Nat]
  BY <1>2, CatalogShape DEF Wants
<1>6. AudioMap(m, r.want.audio) \in Nat \ {0}
  BY <1>3, AudioMapType
<1>7. Pipeline(m) \in {"full", "hybrid", "encode"}
  BY DEF Pipeline
<1>8. s \in FFmpegs
  BY <1>2, <1>4, <1>5, <1>6, <1>7 DEF FFmpegs
<1> QED
  BY <1>1, <1>2, <1>3, <1>8, PlaybackAssumption DEF r

LEMMA RememberSession ==
    ASSUME PlaybackTypeOK, NEW c \in Devices, Remember(c)
    PROVE  \/ playing = Absent /\ playing' = Absent
           \/ playing # Absent /\ playing' = [playing EXCEPT !.media = info[c].next]
BY DEF Remember

LEMMA TypesStep ==
    ASSUME PlaybackTypeOK, FailureKept, [PlaybackNext]_playbackVars
    PROVE  PlaybackTypeOK'
<1> DEFINE WishesOK == /\ wish' \in [Devices -> Wishes]
                       /\ \A d \in Devices : wish'[d].at # "idle" =>
                             wish'[d].want \in Wants /\ wish'[d].input \in Inputs
           PlayingOK == /\ playing' \in FFmpegs \cup {Absent}
                        /\ playing' # Absent => playing'.media \in 0 .. Len(catalog) /\ playing'.want \in Wants
<1>1. catalog' = catalog /\ Wants' = Wants /\ Wishes' = Wishes
  BY CatalogKept
<1>2. UNCHANGED wish => WishesOK
  BY DEF PlaybackTypeOK
<1>3. UNCHANGED playing \/ playing' = Absent => PlayingOK
  BY DEF PlaybackTypeOK
<1>4. ASSUME NEW m \in 0 .. Len(catalog), playing # Absent, playing' = [playing EXCEPT !.media = m]
      PROVE  PlayingOK
  <2>1. m \in Nat /\ playing \in FFmpegs /\ playing.want \in Wants
    BY <1>4, CatalogShape DEF PlaybackTypeOK
  <2> QED
    BY <1>4, <2>1, MediaOnly
<1>5. ASSUME WishesOK, PlayingOK,
             media' \in {Absent} \cup [version : DOMAIN catalog, input : Inputs \cup {Absent}],
             info' \in [Devices -> {NoInfo} \cup [next : DOMAIN catalog, psid : Nat]],
             url' \in [Devices -> Wants \cup {Absent}],
             fallback' \in BOOLEAN, ended' \in BOOLEAN, forgotten' \in BOOLEAN,
             fallback' => ended', asked' \subseteq Devices,
             infos' \in 0 .. MaxInfos, restarts' \in 0 .. MaxRestarts
      PROVE  PlaybackTypeOK'
  BY <1>1, <1>5 DEF PlaybackTypeOK
<1> HIDE DEF WishesOK, PlayingOK
<1>6. /\ MaxInfos \in Nat /\ MaxRestarts \in Nat
      /\ media \in {Absent} \cup [version : DOMAIN catalog, input : Inputs \cup {Absent}]
      /\ info \in [Devices -> {NoInfo} \cup [next : DOMAIN catalog, psid : Nat]]
      /\ url \in [Devices -> Wants \cup {Absent}]
      /\ fallback \in BOOLEAN /\ ended \in BOOLEAN /\ forgotten \in BOOLEAN
      /\ (fallback => ended) /\ asked \subseteq Devices
      /\ infos \in 0 .. MaxInfos /\ restarts \in 0 .. MaxRestarts
  BY PlaybackAssumption DEF PlaybackTypeOK
<1>a. ASSUME NEW c \in Devices, PlaybackInfo(c)
      PROVE  PlaybackTypeOK'
  <2>1. infos' \in 0 .. MaxInfos /\ infos' \in Nat
    BY <1>6, <1>a DEF PlaybackInfo
  <2>2. 1 \in DOMAIN catalog
    BY CatalogShape
  <2>3. [next |-> 1, psid |-> infos'] \in [next : DOMAIN catalog, psid : Nat]
    BY <2>1, <2>2
  <2>4. info' \in [Devices -> {NoInfo} \cup [next : DOMAIN catalog, psid : Nat]]
    BY <1>6, <1>a, <2>3 DEF PlaybackInfo
  <2> QED
    BY <1>2, <1>3, <1>5, <1>6, <1>a, <2>1, <2>4 DEF PlaybackInfo
<1>b. ASSUME NEW c \in Devices, Remember(c)
      PROVE  PlaybackTypeOK'
  <2>1. info[c].next \in 0 .. Len(catalog)
    BY <1>b, RememberTypes, CatalogShape
  <2>2. PlayingOK
    BY <1>3, <1>4, <1>b, <2>1, RememberSession
  <2> QED
    BY <1>2, <1>5, <1>6, <1>b, <2>2, RememberTypes
    DEF Remember, playbackBounds, playbackHistory
<1>c. ASSUME NEW c \in Devices, AskFor(c)
      PROVE  PlaybackTypeOK'
  <2>1. WishesOK
    BY <1>c, AskMakes, WishTypes DEF WishesOK
  <2> QED
    BY <1>3, <1>5, <1>6, <1>c, <2>1 DEF AskFor, playbackBounds
<1>d. ASSUME NEW c \in Devices, ReadMedia(c)
      PROVE  PlaybackTypeOK'
  <2>1. wish[c].want \in Wants /\ wish[c].input \in Inputs
    BY <1>d DEF ReadMedia, PlaybackTypeOK
  <2>2. WishesOK
    BY <1>d, <2>1, ReadMediaMakes, WishTypes DEF WishesOK
  <2> QED
    BY <1>3, <1>5, <1>6, <1>d, <2>2 DEF ReadMedia, playbackBounds, playbackHistory
<1>e. ASSUME NEW c \in Devices, Look(c)
      PROVE  PlaybackTypeOK'
  <2>1. wish[c].want \in Wants /\ wish[c].input \in Inputs
    BY <1>e DEF Look, PlaybackTypeOK
  <2>2. CASE /\ playing # Absent /\ playing.ffmpeg = "running"
             /\ Compatible(wish[c]) /\ playing.audio = wish[c].want.audio /\ ~wish[c].seek
    <3>1. Given(c, playing) /\ playing \in FFmpegs
      BY <1>e, <2>2 DEF Look, PlaybackTypeOK
    <3>2. WishesOK
      <4>1. PICK w \in Wishes :
                  /\ wish' = [wish EXCEPT ![c] = w]
                  /\ w.want = wish[c].want /\ w.input = wish[c].input
        BY <3>1, GivenMakes
      <4> QED
        BY <2>1, <4>1, WishTypes DEF WishesOK
    <3> QED
      BY <1>3, <1>5, <1>6, <1>e, <3>2 DEF Look, playbackBounds, playbackHistory
  <2>3. CASE ~(/\ playing # Absent /\ playing.ffmpeg = "running"
               /\ Compatible(wish[c]) /\ playing.audio = wish[c].want.audio /\ ~wish[c].seek)
    <3>1. WishesOK
      BY <1>e, <2>1, <2>3, LookMakes, WishTypes DEF WishesOK
    <3> QED
      BY <1>3, <1>5, <1>6, <1>e, <3>1 DEF Look, playbackBounds, playbackHistory
  <2> QED
    BY <2>2, <2>3
<1>f. ASSUME NEW c \in Devices, Delivered(c)
      PROVE  PlaybackTypeOK'
  <2>1. NoRequest.at = "idle"
    BY DEF NoRequest
  <2>2. WishesOK
    BY <1>f, <2>1, NoRequestType, WishTypes DEF WishesOK, Delivered
  <2> QED
    BY <1>3, <1>5, <1>6, <1>f, <2>2 DEF Delivered, playbackBounds, playbackHistory
<1>g. ASSUME NEW c \in Devices, EnsureReuses(c)
      PROVE  PlaybackTypeOK'
  <2>1. wish[c].want \in Wants /\ wish[c].input \in Inputs /\ wish[c] \in Wishes
    BY <1>g DEF EnsureReuses, PlaybackTypeOK
  <2>2. playing \in FFmpegs /\ playing # Absent /\ Given(c, playing)
    BY <1>g DEF EnsureReuses, PlaybackTypeOK
  <2>3. WishesOK
    <3>1. PICK w \in Wishes :
                /\ wish' = [wish EXCEPT ![c] = w]
                /\ w.want = wish[c].want /\ w.input = wish[c].input
      BY <2>2, GivenMakes
    <3> QED
      BY <2>1, <3>1, WishTypes DEF WishesOK
  <2> DEFINE m == IF wish[c].media = 0 THEN playing.media ELSE wish[c].media
  <2>4. playing' = [playing EXCEPT !.media = m]
    BY <1>g DEF EnsureReuses
  <2>5. m \in 0 .. Len(catalog)
    BY <2>1, <2>2 DEF Wishes, PlaybackTypeOK
  <2> HIDE DEF m
  <2>6. PlayingOK
    BY <1>4, <2>2, <2>4, <2>5
  <2> QED
    BY <1>5, <1>6, <1>g, <2>3, <2>6 DEF EnsureReuses, playbackBounds, playbackHistory
<1>h. ASSUME NEW c \in Devices, EnsureTakesOut(c)
      PROVE  PlaybackTypeOK'
  <2>1. fallback' \in BOOLEAN /\ (fallback' => ended)
    BY <1>6, <1>h DEF EnsureTakesOut, FallsBack, FailureKept, Failed
  <2> QED
    BY <1>2, <1>3, <1>5, <1>6, <1>h, <2>1 DEF EnsureTakesOut, playbackBounds, playbackHistory
<1>i. ASSUME NEW c \in Devices, EnsureCreates(c)
      PROVE  PlaybackTypeOK'
  <2>1. wish[c].want \in Wants /\ wish[c].input \in Inputs
    BY <1>i DEF EnsureCreates, PlaybackTypeOK
  <2>2. PlayingOK
    BY <1>i, CreatesTypes DEF PlayingOK
  <2>3. Given(c, playing')
    BY <1>i DEF EnsureCreates
  <2>4. WishesOK
    <3>1. PICK w \in Wishes :
                /\ wish' = [wish EXCEPT ![c] = w]
                /\ w.want = wish[c].want /\ w.input = wish[c].input
      BY <2>3, GivenMakes, <1>i, CreatesTypes
    <3> QED
      BY <2>1, <3>1, WishTypes DEF WishesOK
  <2> QED
    BY <1>5, <1>6, <1>i, <2>2, <2>4 DEF EnsureCreates, playbackBounds, playbackHistory
<1>j. ASSUME FFmpegEnds
      PROVE  PlaybackTypeOK'
  <2>1. playing \in FFmpegs /\ playing # Absent /\ playing' = [playing EXCEPT !.ffmpeg = "done"]
    BY <1>j DEF FFmpegEnds, PlaybackTypeOK
  <2>2. PlayingOK
    BY <2>1, EndedOnly DEF PlayingOK, PlaybackTypeOK
  <2>3. ended' \in BOOLEAN /\ (fallback => ended')
    BY <1>6, <1>j DEF FFmpegEnds
  <2> QED
    BY <1>2, <1>5, <1>6, <1>j, <2>2, <2>3 DEF FFmpegEnds, playbackBounds
<1>k. ASSUME TakenAway
      PROVE  PlaybackTypeOK'
  <2>1. forgotten' \in BOOLEAN
    BY <1>6, <1>k DEF TakenAway
  <2> QED
    BY <1>2, <1>3, <1>5, <1>6, <1>k, <2>1 DEF TakenAway, playbackBounds
<1>l. ASSUME Restart
      PROVE  PlaybackTypeOK'
  <2>1. WishesOK
    BY <1>l, NoRequestType DEF Restart, WishesOK, NoRequest
  <2>2. restarts' \in 0 .. MaxRestarts /\ infos' \in 0 .. MaxInfos
    BY <1>6, <1>l DEF Restart
  <2> QED
    BY <1>3, <1>5, <1>6, <1>l, <2>1, <2>2 DEF Restart
<1>m. ASSUME UNCHANGED playbackVars
      PROVE  PlaybackTypeOK'
  BY <1>2, <1>3, <1>5, <1>6, <1>m DEF playbackVars, playbackBounds, playbackHistory
<1> QED
  BY <1>a, <1>b, <1>c, <1>d, <1>e, <1>f, <1>g, <1>h, <1>i, <1>j, <1>k, <1>l, <1>m DEF PlaybackNext

-----------------------------------------------------------------------------
(* What a step does to the session *)

(* Nothing, but for the media the code takes it to play *)
Continues ==
    IF playing = Absent THEN playing' = Absent
    ELSE /\ playing' # Absent
         /\ playing'.input = playing.input /\ playing'.audio = playing.audio
         /\ playing'.known = playing.known /\ playing'.map = playing.map
         /\ playing'.pipeline = playing.pipeline /\ playing'.ffmpeg = playing.ffmpeg

LEMMA SessionStep ==
    ASSUME PlaybackTypeOK, [PlaybackNext]_playbackVars
    PROVE  \/ /\ Continues
              /\ UNCHANGED <<fallback, ended, forgotten>>
           \/ \E c \in Devices : EnsureTakesOut(c)
           \/ \E c \in Devices : EnsureCreates(c)
           \/ FFmpegEnds
           \/ TakenAway
           \/ Restart
<1>0. playing \in FFmpegs \cup {Absent}
  BY DEF PlaybackTypeOK
<1>1. UNCHANGED playing => Continues
  BY DEF Continues
<1>2. ASSUME NEW m \in Nat, playing # Absent, playing' = [playing EXCEPT !.media = m]
      PROVE  Continues
  BY <1>0, <1>2, MediaOnly DEF Continues
<1>3. ASSUME NEW c \in Devices, Remember(c)
      PROVE  Continues /\ UNCHANGED <<fallback, ended, forgotten>>
  <2>1. info[c].next \in Nat
    BY <1>3, RememberTypes, CatalogShape
  <2>2. Continues
    BY <1>2, <1>3, <2>1, RememberSession DEF Continues
  <2> QED
    BY <1>3, <2>2 DEF Remember, playbackHistory
<1>4. ASSUME NEW c \in Devices, EnsureReuses(c)
      PROVE  Continues /\ UNCHANGED <<fallback, ended, forgotten>>
  <2>1. wish[c].media \in Nat
    BY CatalogShape DEF PlaybackTypeOK, Wishes
  <2>2. playing # Absent /\ playing.media \in Nat
    BY <1>0, <1>4 DEF EnsureReuses, FFmpegs
  <2> DEFINE m == IF wish[c].media = 0 THEN playing.media ELSE wish[c].media
  <2>3. playing' = [playing EXCEPT !.media = m]
    BY <1>4 DEF EnsureReuses
  <2>4. m \in Nat
    BY <2>1, <2>2
  <2> HIDE DEF m
  <2>5. Continues
    BY <1>2, <2>2, <2>3, <2>4
  <2> QED
    BY <1>4, <2>5 DEF EnsureReuses, playbackHistory
<1>5. ASSUME NEW c \in Devices,
             PlaybackInfo(c) \/ AskFor(c) \/ ReadMedia(c) \/ Look(c) \/ Delivered(c)
      PROVE  Continues /\ UNCHANGED <<fallback, ended, forgotten>>
  <2>1. UNCHANGED <<playing, fallback, ended, forgotten>>
    BY <1>5 DEF PlaybackInfo, AskFor, ReadMedia, Look, Delivered, playbackHistory
  <2> QED
    BY <1>1, <2>1
<1>6. ASSUME UNCHANGED playbackVars
      PROVE  Continues /\ UNCHANGED <<fallback, ended, forgotten>>
  BY <1>1, <1>6 DEF playbackVars, playbackHistory
<1> QED
  BY <1>3, <1>4, <1>5, <1>6 DEF PlaybackNext

LEMMA FailureStep ==
    ASSUME PlaybackTypeOK, FailureKept, FallbackKept, [PlaybackNext]_playbackVars
    PROVE  FailureKept' /\ FallbackKept'
<1>0. /\ fallback \in BOOLEAN /\ ended \in BOOLEAN /\ forgotten \in BOOLEAN
      /\ playing # Absent => playing.ffmpeg \in {"running", "done"}
  BY DEF PlaybackTypeOK, FFmpegs
<1>1. CASE Continues /\ UNCHANGED <<fallback, ended, forgotten>>
  <2>1. Failed' <=> Failed
    BY <1>1 DEF Continues, Failed
  <2>2. FallbackKept'
    BY <1>1 DEF Continues, FallbackKept
  <2> QED
    BY <1>1, <2>1, <2>2 DEF FailureKept
<1>2. ASSUME NEW c \in Devices, EnsureTakesOut(c)
      PROVE  FailureKept' /\ FallbackKept'
  <2>1. /\ playing # Absent /\ playing' = Absent /\ ended' = ended /\ forgotten' = forgotten
        /\ fallback' = (fallback \/ (playing.ffmpeg = "done" /\ playing.pipeline # "encode"))
    BY <1>2 DEF EnsureTakesOut, FallsBack, playbackHistory
  <2>2. FallbackKept' /\ ~Failed'
    BY <2>1 DEF FallbackKept, Failed
  <2>3. fallback \/ Failed => fallback'
    BY <2>1 DEF Failed
  <2> QED
    BY <2>1, <2>2, <2>3 DEF FailureKept
<1>3. ASSUME NEW c \in Devices, EnsureCreates(c)
      PROVE  FailureKept' /\ FallbackKept'
  <2>1. playing = Absent /\ UNCHANGED <<fallback, ended, forgotten>>
    BY <1>3 DEF EnsureCreates, playbackHistory
  <2>2. playing'.ffmpeg = "running" /\ playing'.pipeline = Pipeline(playing'.media)
    BY <1>3, CreatesTypes
  <2>3. ended /\ ~forgotten => fallback
    BY <2>1 DEF FailureKept, Failed
  <2>4. fallback => playing'.pipeline = "encode"
    BY <2>2 DEF Pipeline
  <2>5. ~Failed'
    BY <2>2 DEF Failed
  <2> QED
    BY <2>1, <2>3, <2>4, <2>5 DEF FailureKept, FallbackKept
<1>4. CASE FFmpegEnds
  <2>1. /\ playing # Absent /\ playing.ffmpeg = "running" /\ playing \in FFmpegs
        /\ playing' = [playing EXCEPT !.ffmpeg = "done"]
        /\ ended' = (ended \/ playing.pipeline # "encode")
        /\ UNCHANGED <<fallback, forgotten>>
    BY <1>4 DEF FFmpegEnds, PlaybackTypeOK
  <2>2. playing' # Absent /\ playing'.ffmpeg = "done" /\ playing'.pipeline = playing.pipeline
    BY <2>1, EndedOnly
  <2>3. FallbackKept'
    BY <2>2 DEF FallbackKept
  <2>4. Failed' <=> playing.pipeline # "encode"
    BY <2>2 DEF Failed
  <2>5. ~Failed
    BY <2>1 DEF Failed
  <2> QED
    BY <2>1, <2>3, <2>4, <2>5 DEF FailureKept
<1>5. CASE TakenAway
  <2>1. /\ playing # Absent /\ playing' = Absent
        /\ forgotten' = (forgotten \/ playing.ffmpeg = "done")
        /\ UNCHANGED <<fallback, ended>>
    BY <1>5 DEF TakenAway
  <2>2. FallbackKept' /\ ~Failed'
    BY <2>1 DEF FallbackKept, Failed
  <2>3. ~forgotten' => ~forgotten /\ ~Failed
    BY <2>1 DEF Failed
  <2> QED
    BY <2>1, <2>2, <2>3 DEF FailureKept
<1>6. CASE Restart
  BY <1>6 DEF Restart, FailureKept, FallbackKept, Failed
<1> QED
  BY <1>1, <1>2, <1>3, <1>4, <1>5, <1>6, SessionStep

-----------------------------------------------------------------------------
(* What a step does to the request of a client *)

Goes(c) ==
    /\ wish[c].at # "idle"
    /\ wish'[c].want = wish[c].want /\ wish'[c].input = wish[c].input
Serves(c, s) ==
    /\ Goes(c) /\ s.audio = wish[c].want.audio
    /\ wish'[c].at = "served" /\ wish'[c].got = [known |-> s.known, map |-> s.map]
Begins(c) ==
    /\ AskFor(c) /\ url[c] # Absent
    /\ wish'[c].at \in {"media", "ensure"}
    /\ wish'[c].want = url[c] /\ wish'[c].input = InputURL(c)

LEMMA WishStep ==
    ASSUME PlaybackTypeOK, [PlaybackNext]_playbackVars, NEW c \in Devices
    PROVE  \/ wish'[c] = wish[c]
           \/ wish'[c].at = "idle"
           \/ Begins(c)
           \/ Goes(c) /\ wish'[c].at \in {"look", "ensure"}
           \/ playing # Absent /\ Serves(c, playing)
           \/ EnsureCreates(c) /\ Serves(c, playing')
<1> DEFINE Goal == \/ wish'[c] = wish[c]
                   \/ wish'[c].at = "idle"
                   \/ Begins(c)
                   \/ Goes(c) /\ wish'[c].at \in {"look", "ensure"}
                   \/ playing # Absent /\ Serves(c, playing)
                   \/ EnsureCreates(c) /\ Serves(c, playing')
<1>0. playing # Absent => playing \in FFmpegs
  BY DEF PlaybackTypeOK
<1>1. ASSUME NEW d \in Devices, AskFor(d)
      PROVE  Goal
  <2>1. PICK w \in Wishes :
              /\ wish' = [wish EXCEPT ![d] = w]
              /\ w.at \in {"media", "ensure"} /\ w.want = url[d] /\ w.input = InputURL(d)
              /\ url[d] # Absent
    BY <1>1, AskMakes
  <2>2. CASE d = c
    BY <1>1, <2>1, <2>2, WishChanged DEF Begins
  <2>3. CASE d # c
    BY <2>1, <2>3, WishChanged
  <2> QED
    BY <2>2, <2>3
<1>2. ASSUME NEW d \in Devices, ReadMedia(d)
      PROVE  Goal
  <2>1. PICK w \in Wishes :
              /\ wish' = [wish EXCEPT ![d] = w]
              /\ wish[d].at = "media" /\ w.at = "look"
              /\ w.want = wish[d].want /\ w.input = wish[d].input
    BY <1>2, ReadMediaMakes
  <2>2. CASE d = c
    BY <2>1, <2>2, WishChanged DEF Goes
  <2>3. CASE d # c
    BY <2>1, <2>3, WishChanged
  <2> QED
    BY <2>2, <2>3
<1>3. ASSUME NEW d \in Devices, wish[d].at # "idle", Given(d, playing), playing \in FFmpegs,
             playing # Absent, playing.audio = wish[d].want.audio
      PROVE  Goal
  <2>1. PICK w \in Wishes :
              /\ wish' = [wish EXCEPT ![d] = w]
              /\ w.at = "served" /\ w.got = [known |-> playing.known, map |-> playing.map]
              /\ w.want = wish[d].want /\ w.input = wish[d].input
    BY <1>3, GivenMakes
  <2>2. CASE d = c
    BY <1>3, <2>1, <2>2, WishChanged DEF Goes, Serves
  <2>3. CASE d # c
    BY <2>1, <2>3, WishChanged
  <2> QED
    BY <2>2, <2>3
<1>4. ASSUME NEW d \in Devices, Look(d)
      PROVE  Goal
  <2>1. CASE /\ playing # Absent /\ playing.ffmpeg = "running"
             /\ Compatible(wish[d]) /\ playing.audio = wish[d].want.audio /\ ~wish[d].seek
    BY <1>0, <1>3, <1>4, <2>1 DEF Look
  <2>2. CASE ~(/\ playing # Absent /\ playing.ffmpeg = "running"
               /\ Compatible(wish[d]) /\ playing.audio = wish[d].want.audio /\ ~wish[d].seek)
    <3>1. PICK w \in Wishes :
              /\ wish' = [wish EXCEPT ![d] = w]
              /\ wish[d].at = "look" /\ w.at = "ensure"
              /\ w.want = wish[d].want /\ w.input = wish[d].input
      BY <1>4, <2>2, LookMakes
    <3>2. CASE d = c
      BY <3>1, <3>2, WishChanged DEF Goes
    <3>3. CASE d # c
      BY <3>1, <3>3, WishChanged
    <3> QED
      BY <3>2, <3>3
  <2> QED
    BY <2>1, <2>2
<1>5. ASSUME NEW d \in Devices, Delivered(d)
      PROVE  Goal
  <2>1. wish' = [wish EXCEPT ![d] = NoRequest] /\ NoRequest.at = "idle"
    BY <1>5 DEF Delivered, NoRequest
  <2>2. CASE d = c
    BY <2>1, <2>2, WishChanged
  <2>3. CASE d # c
    BY <2>1, <2>3, WishChanged
  <2> QED
    BY <2>2, <2>3
<1>6. ASSUME NEW d \in Devices, EnsureReuses(d)
      PROVE  Goal
  <2>1. /\ wish[d].at # "idle" /\ Given(d, playing) /\ playing # Absent
        /\ playing.audio = wish[d].want.audio
    BY <1>6 DEF EnsureReuses, RestartsFor
  <2> QED
    BY <1>0, <1>3, <2>1
<1>7. ASSUME NEW d \in Devices, EnsureCreates(d)
      PROVE  Goal
  <2>1. /\ wish[d].at # "idle" /\ Given(d, playing') /\ playing' \in FFmpegs
        /\ playing'.audio = wish[d].want.audio
    BY <1>7, CreatesTypes DEF EnsureCreates
  <2>2. PICK w \in Wishes :
              /\ wish' = [wish EXCEPT ![d] = w]
              /\ w.at = "served" /\ w.got = [known |-> playing'.known, map |-> playing'.map]
              /\ w.want = wish[d].want /\ w.input = wish[d].input
    BY <2>1, GivenMakes
  <2>3. CASE d = c
    BY <1>7, <2>1, <2>2, <2>3, WishChanged DEF Goes, Serves
  <2>4. CASE d # c
    BY <2>2, <2>4, WishChanged
  <2> QED
    BY <2>3, <2>4
<1>8. CASE Restart
  BY <1>8 DEF Restart, NoRequest
<1>9. CASE UNCHANGED wish
  BY <1>9
<1>10. \/ \E d \in Devices :
             \/ AskFor(d) \/ ReadMedia(d) \/ Look(d) \/ Delivered(d) \/ EnsureReuses(d)
             \/ EnsureCreates(d)
       \/ Restart
       \/ UNCHANGED wish
  BY DEF PlaybackNext, playbackVars, PlaybackInfo, Remember, EnsureTakesOut, FFmpegEnds, TakenAway
<1> QED
  BY <1>1, <1>2, <1>4, <1>5, <1>6, <1>7, <1>8, <1>9, <1>10

-----------------------------------------------------------------------------
(* Choices and streams *)

LEMMA ChoicesStep ==
    ASSUME PlaybackTypeOK, ChoicesOnly, [PlaybackNext]_playbackVars
    PROVE  ChoicesOnly'
<1>0. \A k : ChoicesOf(k)' = ChoicesOf(k)
  BY CatalogKept DEF ChoicesOf
<1>1. ASSUME NEW c \in Devices, url'[c] # Absent
      PROVE  url'[c] \in ChoicesOf(url'[c].version)
  <2>1. CASE url'[c] = url[c]
    BY <1>1, <2>1 DEF ChoicesOnly
  <2>2. CASE url'[c] # url[c]
    <3>1. PICK d \in Devices : Remember(d)
      BY <2>2 DEF PlaybackNext, playbackVars, PlaybackInfo, AskFor, ReadMedia, Look, Delivered,
                  EnsureReuses, EnsureTakesOut, EnsureCreates, FFmpegEnds, TakenAway, Restart
    <3>2. PICK v \in DOMAIN catalog : \E w \in ChoicesOf(v) : url' = [url EXCEPT ![d] = w]
      BY <2>2, <3>1 DEF Remember
    <3>3. PICK w \in ChoicesOf(v) : url' = [url EXCEPT ![d] = w]
      BY <3>2
    <3>4. url'[c] = w
      BY <2>2, <3>3 DEF PlaybackTypeOK
    <3>5. w.version = v
      BY ChoiceTypes
    <3> QED
      BY <3>4, <3>5
  <2> QED
    BY <2>1, <2>2
<1>2. ASSUME NEW c \in Devices, wish'[c].at # "idle"
      PROVE  wish'[c].want \in ChoicesOf(wish'[c].want.version)
  <2>1. CASE wish'[c] = wish[c]
    BY <1>2, <2>1 DEF ChoicesOnly
  <2>2. CASE Begins(c)
    BY <2>2 DEF Begins, ChoicesOnly
  <2>3. CASE Goes(c)
    BY <2>3 DEF Goes, ChoicesOnly
  <2> QED
    BY <1>2, <2>1, <2>2, <2>3, WishStep DEF Serves
<1> QED
  BY <1>0, <1>1, <1>2 DEF ChoicesOnly

LEMMA MapsStep ==
    ASSUME PlaybackTypeOK, MapsOwnStream, [PlaybackNext]_playbackVars
    PROVE  MapsOwnStream'
<1>0. OneVersion' = OneVersion /\ \A m, a : AudioMap(m, a)' = AudioMap(m, a)
  BY CatalogKept DEF OneVersion, AudioMap
<1>1. ASSUME NEW c \in Devices, EnsureCreates(c), playing'.known, OneVersion
      PROVE  playing'.map = AudioMap(1, playing'.audio)
  <2>1. playing'.media \in 0 .. 1 /\ playing'.media # 0
    BY <1>1, CreatesTypes DEF OneVersion
  <2>2. playing'.media = 1
    BY <2>1
  <2> QED
    BY <1>1, <2>2, CreatesTypes
<1>2. playing' # Absent /\ playing'.known /\ OneVersion => playing'.map = AudioMap(1, playing'.audio)
  <2>1. CASE Continues
    BY <2>1 DEF Continues, MapsOwnStream
  <2>2. CASE FFmpegEnds
    <3>1. playing # Absent /\ playing \in FFmpegs /\ playing' = [playing EXCEPT !.ffmpeg = "done"]
      BY <2>2 DEF FFmpegEnds, PlaybackTypeOK
    <3>2. playing'.known = playing.known /\ playing'.map = playing.map /\ playing'.audio = playing.audio
      BY <3>1, EndedOnly
    <3> QED
      BY <3>1, <3>2 DEF MapsOwnStream
  <2>3. (\E c \in Devices : EnsureTakesOut(c)) \/ TakenAway \/ Restart => playing' = Absent
    BY DEF EnsureTakesOut, TakenAway, Restart
  <2> QED
    BY <1>1, <2>1, <2>2, <2>3, SessionStep
<1>3. ASSUME NEW c \in Devices, wish'[c].at = "served"
      PROVE  wish'[c].got.known /\ OneVersion => wish'[c].got.map = AudioMap(1, wish'[c].want.audio)
  <2>1. CASE wish'[c] = wish[c]
    BY <1>3, <2>1 DEF MapsOwnStream
  <2>2. CASE playing # Absent /\ Serves(c, playing)
    BY <2>2 DEF Serves, Goes, MapsOwnStream
  <2>3. CASE EnsureCreates(c) /\ Serves(c, playing')
    BY <1>1, <2>3 DEF Serves, Goes
  <2> QED
    BY <1>3, <2>1, <2>2, <2>3, WishStep DEF Begins
<1> QED
  BY <1>0, <1>2, <1>3 DEF MapsOwnStream
-----------------------------------------------------------------------------
(* Inputs *)

LEMMA AskedGrows ==
    ASSUME [PlaybackNext]_playbackVars, ~Restart
    PROVE  asked \subseteq asked'
BY DEF PlaybackNext, playbackVars, playbackHistory, PlaybackInfo, Remember, AskFor, ReadMedia, Look,
       Delivered, EnsureReuses, EnsureTakesOut, EnsureCreates, FFmpegEnds, TakenAway

LEMMA MediaChanges ==
    ASSUME PlaybackTypeOK, [PlaybackNext]_playbackVars
    PROVE  \/ media' = media \/ Restart
           \/ \E c \in Devices :
                 /\ Remember(c) /\ info[c] # NoInfo /\ info[c].next \in DOMAIN catalog
                 /\ media'.input =
                       IF catalog[info[c].next].direct
                       THEN [direct |-> TRUE, version |-> info[c].next, device |-> c, audio |-> 0,
                             psid |-> info[c].psid]
                       ELSE Absent
<1>1. ASSUME NEW c \in Devices, Remember(c)
      PROVE  /\ info[c] # NoInfo /\ info[c].next \in DOMAIN catalog
             /\ media'.input =
                   IF catalog[info[c].next].direct
                   THEN [direct |-> TRUE, version |-> info[c].next, device |-> c, audio |-> 0,
                         psid |-> info[c].psid]
                   ELSE Absent
  BY <1>1, RememberTypes DEF Remember
<1>2. \/ media' = media \/ Restart
      \/ \E c \in Devices : Remember(c)
  BY DEF PlaybackNext, playbackVars, PlaybackInfo, AskFor, ReadMedia, Look, Delivered, EnsureReuses,
         EnsureTakesOut, EnsureCreates, FFmpegEnds, TakenAway
<1> QED
  BY <1>1, <1>2

LEMMA InfoChanges ==
    ASSUME PlaybackTypeOK, [PlaybackNext]_playbackVars, NEW c \in Devices, info'[c] # NoInfo
    PROVE  info[c] # NoInfo \/ PlaybackInfo(c)
<1>1. ASSUME NEW d \in Devices, Remember(d)
      PROVE  info[c] # NoInfo
  <2>1. CASE d = c
    BY <1>1, <2>1 DEF Remember
  <2>2. CASE d # c
    BY <1>1, <2>2 DEF Remember, PlaybackTypeOK
  <2> QED
    BY <2>1, <2>2
<1>2. ASSUME NEW d \in Devices, PlaybackInfo(d), d # c
      PROVE  info[c] # NoInfo
  BY <1>2 DEF PlaybackInfo, PlaybackTypeOK
<1>3. ~Restart
  BY DEF Restart, NoInfo
<1>4. \/ info' = info
      \/ \E d \in Devices : PlaybackInfo(d) \/ Remember(d)
  BY <1>3 DEF PlaybackNext, playbackVars, AskFor, ReadMedia, Look, Delivered, EnsureReuses,
              EnsureTakesOut, EnsureCreates, FFmpegEnds, TakenAway
<1> QED
  BY <1>1, <1>2, <1>4

LEMMA InputsStep ==
    ASSUME PlaybackTypeOK, InputsMade, [PlaybackNext]_playbackVars
    PROVE  InputsMade'
<1> DEFINE Made(i, audio) ==
               /\ i.device \in asked' /\ i.version \in DOMAIN catalog
               /\ IF i.direct THEN i.audio = 0 /\ catalog[i.version].direct
                  ELSE i.audio = audio /\ i.psid = 0
<1>1. CASE Restart
  BY <1>1 DEF Restart, InputsMade, NoRequest
<1>2. CASE ~Restart
  <2>0. asked \subseteq asked'
    BY <1>2, AskedGrows
  <2>1. \A i, audio : MadeFor(i, audio) => Made(i, audio)
    BY <2>0 DEF MadeFor
  <2>2. \A i, audio, other : Made(i, audio) /\ i.direct => Made(i, other)
    OBVIOUS
  <2> HIDE DEF Made
  <2>3. ASSUME NEW c \in Devices, info'[c] # NoInfo
        PROVE  c \in asked'
    BY <2>0, <2>3, InfoChanges DEF InputsMade, PlaybackInfo
  <2>4. ASSUME media' # Absent, media'.input # Absent
        PROVE  media'.input.direct /\ Made(media'.input, 0)
    <3>1. CASE media' = media
      BY <2>1, <2>4, <3>1 DEF InputsMade
    <3>2. ASSUME NEW c \in Devices, Remember(c), info[c] # NoInfo, info[c].next \in DOMAIN catalog,
                 media'.input =
                       IF catalog[info[c].next].direct
                       THEN [direct |-> TRUE, version |-> info[c].next, device |-> c, audio |-> 0,
                             psid |-> info[c].psid]
                       ELSE Absent
          PROVE  media'.input.direct /\ Made(media'.input, 0)
      <4>1. c \in asked'
        BY <2>0, <3>2 DEF InputsMade
      <4>2. catalog[info[c].next].direct
        BY <2>4, <3>2
      <4> QED
        BY <3>2, <4>1, <4>2 DEF Made
    <3> QED
      BY <1>2, <3>1, <3>2, MediaChanges
  <2>5. ASSUME NEW c \in Devices, wish'[c].at # "idle"
        PROVE  c \in asked' /\ Made(wish'[c].input, wish'[c].want.audio)
    <3>1. CASE wish'[c] = wish[c]
      BY <2>0, <2>1, <2>5, <3>1 DEF InputsMade
    <3>2. CASE Goes(c)
      BY <2>0, <2>1, <3>2 DEF InputsMade, Goes
    <3>3. CASE Begins(c)
      <4>1. c \in asked' /\ url[c] \in Wants
        BY <3>3 DEF Begins, AskFor, PlaybackTypeOK
      <4>2. CASE media # Absent /\ media.input # Absent
        <5>1. MadeFor(media.input, 0) /\ media.input.direct /\ wish'[c].input = media.input
          BY <3>3, <4>2 DEF Begins, InputURL, InputsMade
        <5> QED
          BY <2>1, <2>2, <4>1, <5>1
      <4>3. CASE ~(media # Absent /\ media.input # Absent)
        <5>1. wish'[c].input = [direct |-> FALSE, version |-> url[c].version, device |-> c,
                                audio |-> url[c].audio, psid |-> 0]
          BY <3>3, <4>3 DEF Begins, InputURL
        <5>2. url[c].version \in DOMAIN catalog
          BY <4>1 DEF Wants
        <5> QED
          BY <3>3, <4>1, <5>1, <5>2 DEF Made, Begins
      <4> QED
        BY <4>2, <4>3
    <3> QED
      BY <2>5, <3>1, <3>2, <3>3, WishStep DEF Serves
  <2>6. ASSUME playing' # Absent
        PROVE  Made(playing'.input, playing'.audio)
    <3>1. CASE Continues
      BY <2>1, <2>6, <3>1 DEF Continues, InputsMade
    <3>2. CASE FFmpegEnds
      <4>1. playing # Absent /\ playing \in FFmpegs /\ playing' = [playing EXCEPT !.ffmpeg = "done"]
        BY <3>2 DEF FFmpegEnds, PlaybackTypeOK
      <4>2. playing'.input = playing.input /\ playing'.audio = playing.audio
        BY <4>1, EndedOnly
      <4> QED
        BY <2>1, <4>1, <4>2 DEF InputsMade
    <3>3. ASSUME NEW c \in Devices, EnsureCreates(c)
          PROVE  Made(playing'.input, playing'.audio)
      <4>1. wish[c].at # "idle"
        BY <3>3 DEF EnsureCreates
      <4>2. playing'.input = wish[c].input /\ playing'.audio = wish[c].want.audio
        BY <3>3, CreatesTypes
      <4> QED
        BY <2>1, <4>1, <4>2 DEF InputsMade
    <3>4. (\E c \in Devices : EnsureTakesOut(c)) \/ TakenAway => playing' = Absent
      BY DEF EnsureTakesOut, TakenAway
    <3> QED
      BY <1>2, <2>6, <3>1, <3>2, <3>3, <3>4, SessionStep
  <2>7. catalog' = catalog
    BY CatalogKept
  <2> QED
    BY <2>3, <2>4, <2>5, <2>6, <2>7 DEF Made, MadeFor, InputsMade
<1> QED
  BY <1>1, <1>2

(* The DirectStreamUrl of the only version, once known, stays known.       *)
LEMMA DirectStays ==
    ASSUME PlaybackTypeOK, [PlaybackNext]_playbackVars, ~Restart, OneVersion, catalog[1].direct,
           media # Absent, media.input # Absent
    PROVE  media' # Absent /\ media'.input # Absent
<1>1. ASSUME NEW c \in Devices, Remember(c), info[c].next \in DOMAIN catalog,
             media'.input =
                   IF catalog[info[c].next].direct
                   THEN [direct |-> TRUE, version |-> info[c].next, device |-> c, audio |-> 0,
                         psid |-> info[c].psid]
                   ELSE Absent
      PROVE  media' # Absent /\ media'.input # Absent
  <2>1. info[c].next \in Nat /\ info[c].next = 1 /\ info[c].psid \in Nat
    BY <1>1, CatalogShape, RememberTypes DEF OneVersion
  <2>2. media'.input \in Inputs
    BY <1>1, <2>1 DEF Inputs
  <2>3. media' \in Remembered
    BY <1>1, RememberTypes, CatalogShape DEF Remembered
  <2> QED
    BY <2>2, <2>3, PlaybackAssumption
<1> QED
  BY <1>1, MediaChanges

LEMMA DirectStep ==
    ASSUME PlaybackTypeOK, InputsMade, InputsMade', DirectKept, [PlaybackNext]_playbackVars
    PROVE  DirectKept'
<1>1. CASE Restart
  BY <1>1 DEF Restart, DirectKept, DirectSeen, NoRequest
<1>2. ASSUME ~Restart, OneVersion
      PROVE  /\ DirectSeen' => media' # Absent /\ media'.input # Absent
             /\ playing' # Absent /\ playing'.input.direct =>
                   \A c \in Devices : asked' = {c} /\ wish'[c].at # "idle" => wish'[c].input.direct
  <2>0. asked \subseteq asked' /\ catalog' = catalog
    BY <1>2, AskedGrows, CatalogKept
  <2>1. \A i, audio : MadeFor(i, audio) /\ i.direct => catalog[1].direct
    <3>1. \A k \in DOMAIN catalog : k = 1
      BY <1>2, CatalogShape DEF OneVersion
    <3> QED
      BY <3>1 DEF MadeFor
  <2>2. DirectSeen => catalog[1].direct
    BY <2>1 DEF DirectSeen, InputsMade
  <2>3. media # Absent /\ media.input # Absent => catalog[1].direct
    BY <2>1 DEF InputsMade
  <2>4. media # Absent /\ media.input # Absent => media' # Absent /\ media'.input # Absent
    BY <1>2, <2>3, DirectStays
  <2>5. ASSUME NEW c \in Devices, wish'[c].at # "idle", wish'[c].input.direct
        PROVE  media # Absent /\ media.input # Absent
    <3>1. CASE wish'[c] = wish[c] \/ Goes(c)
      <4>1. wish[c].at # "idle" /\ wish[c].input.direct
        BY <2>5, <3>1 DEF Goes
      <4> QED
        BY <1>2, <4>1 DEF DirectKept, DirectSeen
    <3>2. CASE Begins(c)
      BY <2>5, <3>2 DEF Begins, InputURL
    <3> QED
      BY <2>5, <3>1, <3>2, WishStep DEF Serves
  <2>6. ASSUME playing' # Absent
        PROVE  \/ playing # Absent /\ playing'.input = playing.input
               \/ \E c \in Devices :
                     /\ EnsureCreates(c) /\ wish[c].at # "idle" /\ playing'.input = wish[c].input
                     /\ wish'[c].input = wish[c].input
    <3>1. CASE Continues
      BY <2>6, <3>1 DEF Continues
    <3>2. CASE FFmpegEnds
      <4>1. playing # Absent /\ playing \in FFmpegs /\ playing' = [playing EXCEPT !.ffmpeg = "done"]
        BY <3>2 DEF FFmpegEnds, PlaybackTypeOK
      <4> QED
        BY <4>1, EndedOnly
    <3>3. ASSUME NEW c \in Devices, EnsureCreates(c)
          PROVE  /\ wish[c].at # "idle" /\ playing'.input = wish[c].input
                 /\ wish'[c].input = wish[c].input
      <4>1. wish[c].at # "idle" /\ playing'.input = wish[c].input
        BY <3>3, CreatesTypes DEF EnsureCreates
      <4>2. Given(c, playing') /\ playing' \in FFmpegs
        BY <3>3, CreatesTypes DEF EnsureCreates
      <4>3. PICK w \in Wishes : wish' = [wish EXCEPT ![c] = w] /\ w.input = wish[c].input
        BY <4>2, GivenMakes
      <4> QED
        BY <4>1, <4>3, WishChanged
    <3>4. (\E c \in Devices : EnsureTakesOut(c)) \/ TakenAway => playing' = Absent
      BY DEF EnsureTakesOut, TakenAway
    <3> QED
      BY <1>2, <2>6, <3>1, <3>2, <3>3, <3>4, SessionStep
  <2>7. DirectSeen' => media # Absent /\ media.input # Absent
    <3>1. ASSUME playing' # Absent, playing'.input.direct
          PROVE  DirectSeen
      BY <2>6, <3>1 DEF DirectSeen
    <3> QED
      BY <1>2, <2>5, <3>1 DEF DirectKept, DirectSeen
  <2>8. ASSUME playing' # Absent, playing'.input.direct, NEW c \in Devices, asked' = {c},
               wish'[c].at # "idle"
        PROVE  wish'[c].input.direct
    <3>1. CASE playing # Absent /\ playing'.input = playing.input
      <4>1. playing.input.direct /\ playing.input.device \in asked
        BY <2>8, <3>1 DEF InputsMade, MadeFor
      <4>2. asked = {c}
        BY <2>0, <2>8, <4>1
      <4>3. CASE wish'[c] = wish[c] \/ Goes(c)
        BY <1>2, <2>8, <3>1, <4>1, <4>2, <4>3 DEF DirectKept, Goes
      <4>4. CASE Begins(c)
        <5>1. media # Absent /\ media.input # Absent
          BY <1>2, <3>1, <4>1 DEF DirectKept, DirectSeen
        <5>2. media.input.direct
          BY <5>1 DEF InputsMade
        <5> QED
          BY <4>4, <5>1, <5>2 DEF Begins, InputURL
      <4> QED
        BY <2>8, <4>3, <4>4, WishStep DEF Serves
    <3>2. ASSUME NEW d \in Devices, EnsureCreates(d), wish[d].at # "idle",
                 playing'.input = wish[d].input, wish'[d].input = wish[d].input
          PROVE  wish'[c].input.direct
      <4>1. d \in asked'
        BY <2>0, <3>2 DEF InputsMade
      <4>2. d = c
        BY <2>8, <4>1
      <4> QED
        BY <2>8, <3>2, <4>2
    <3> QED
      BY <2>6, <2>8, <3>1, <3>2
  <2> QED
    BY <2>4, <2>7, <2>8
<1>3. OneVersion' = OneVersion
  BY CatalogKept DEF OneVersion
<1> QED
  BY <1>1, <1>2, <1>3 DEF DirectKept

-----------------------------------------------------------------------------
(* The theorems *)

LEMMA PlaybackInductive ==
    /\ PlaybackInit => PlaybackInv
    /\ PlaybackInv /\ [PlaybackNext]_playbackVars => PlaybackInv'
<1>1. ASSUME PlaybackInit
      PROVE  PlaybackInv
  <2>1. catalog \in Seq(Versions) /\ 0 \in 0 .. Len(catalog)
    BY <1>1, PlaybackAssumption DEF PlaybackInit
  <2>2. NoRequest \in Wishes /\ NoRequest.at = "idle"
    BY <2>1 DEF NoRequest, Wishes
  <2>3. PlaybackTypeOK
    <3>1. infos \in 0 .. MaxInfos /\ restarts \in 0 .. MaxRestarts
      BY <1>1, PlaybackAssumption DEF PlaybackInit
    <3>2. /\ wish \in [Devices -> Wishes]
          /\ \A c \in Devices : wish[c].at = "idle"
      BY <1>1, <2>2 DEF PlaybackInit
    <3> QED
      BY <1>1, <3>1, <3>2 DEF PlaybackInit, PlaybackTypeOK
  <2>4. /\ FailureKept /\ FallbackKept /\ ChoicesOnly /\ MapsOwnStream
        /\ InputsMade /\ DirectKept
    BY <1>1, <2>2 DEF PlaybackInit, FailureKept, Failed, FallbackKept, ChoicesOnly, MapsOwnStream,
                      InputsMade, DirectKept, DirectSeen
  <2> QED
    BY <2>3, <2>4 DEF PlaybackInv
<1>2. ASSUME PlaybackInv, [PlaybackNext]_playbackVars
      PROVE  PlaybackInv'
  <2>1. PlaybackTypeOK'
    BY <1>2, TypesStep DEF PlaybackInv
  <2>2. FailureKept' /\ FallbackKept'
    BY <1>2, FailureStep DEF PlaybackInv
  <2>3. ChoicesOnly' /\ MapsOwnStream'
    BY <1>2, ChoicesStep, MapsStep DEF PlaybackInv
  <2>4. InputsMade' /\ DirectKept'
    BY <1>2, InputsStep, DirectStep DEF PlaybackInv
  <2> QED
    BY <2>1, <2>2, <2>3, <2>4 DEF PlaybackInv
<1> QED
  BY <1>1, <1>2

LEMMA PlaybackAlways == PlaybackSpec => []PlaybackInv
BY PlaybackInductive, PTL DEF PlaybackSpec

(* The records of the registry, the requests and the session are what the  *)
(* code makes of them, for any catalog and number of clients.              *)
THEOREM PlaybackTypesHold == PlaybackSpec => []PlaybackTypeOK
<1>1. PlaybackInv => PlaybackTypeOK
  BY DEF PlaybackInv
<1> QED
  BY <1>1, PlaybackAlways, PTL

(* Whoever is served hears the stream of its url (sessionForSegment,       *)
(* Ensure, audioMapArg), whatever the other clients of the item ask for.   *)
THEOREM ChoiceHeard == PlaybackSpec => []HearsChoice
<1>1. ASSUME PlaybackInv
      PROVE  HearsChoice
  <2>1. ASSUME NEW c \in Devices, wish[c].at = "served", wish[c].got.known, OneVersion
        PROVE  IF wish[c].want.audio = 0 THEN wish[c].got.map = 1
               ELSE /\ wish[c].got.map \in DOMAIN catalog[1].audio
                    /\ catalog[1].audio[wish[c].got.map] = wish[c].want.audio
    <3>1. wish[c].got.map = AudioMap(1, wish[c].want.audio)
      BY <1>1, <2>1 DEF PlaybackInv, MapsOwnStream
    <3>2. wish[c].want \in Wants /\ wish[c].want \in ChoicesOf(wish[c].want.version)
      BY <1>1, <2>1 DEF PlaybackInv, PlaybackTypeOK, ChoicesOnly
    <3>3. wish[c].want.version = 1
      BY <1>1, <2>1, <3>2, CatalogShape DEF Wants, OneVersion, PlaybackInv
    <3> QED
      BY <1>1, <2>1, <3>1, <3>2, <3>3, AudioMapFinds DEF PlaybackInv
  <2> QED
    BY <2>1 DEF HearsChoice
<1> QED
  BY <1>1, PlaybackAlways, PTL

(* A hardware pipeline that failed is not tried again                      *)
(* (shouldFallbackToVAAPIEncode), however requests, ends of FFmpeg and     *)
(* replies to PlaybackInfo are interleaved.                                *)
THEOREM FallbackHolds == PlaybackSpec => []FallbackKept
<1>1. PlaybackInv => FallbackKept
  BY DEF PlaybackInv
<1> QED
  BY <1>1, PlaybackAlways, PTL

(* While one device plays an item of one version, only a seek or another   *)
(* audio stream takes its running FFmpeg out (shouldRestart): a new        *)
(* PlaySessionId does not.                                                 *)
THEOREM RestartsCaused == PlaybackSpec => RestartedForCause
<1>1. ASSUME PlaybackInv, NEW c \in Devices, EnsureTakesOut(c), playing.ffmpeg = "running",
             PlaysAlone(c), ~wish[c].seek, playing.audio = wish[c].want.audio
      PROVE  FALSE
  <2>1. /\ OneVersion /\ asked = {c} /\ playing.input.direct = catalog[1].direct
        /\ playing # Absent /\ wish[c].at = "ensure" /\ ~Compatible(wish[c])
    BY <1>1 DEF PlaysAlone, EnsureTakesOut, RestartsFor
  <2> DEFINE i == playing.input
             j == wish[c].input
  <2>2. i \in Inputs /\ j \in Inputs
    BY <1>1, <2>1 DEF PlaybackInv, PlaybackTypeOK, FFmpegs
  <2>3. MadeFor(i, playing.audio) /\ MadeFor(j, playing.audio)
    BY <1>1, <2>1 DEF PlaybackInv, InputsMade
  <2>4. \A k \in DOMAIN catalog : k = 1
    BY <1>1, <2>1, CatalogShape DEF PlaybackInv, OneVersion
  <2>5. i.device = c /\ j.device = c /\ i.version = 1 /\ j.version = 1
    BY <2>1, <2>3, <2>4 DEF MadeFor
  <2>6. i.direct => j.direct
    BY <1>1, <2>1 DEF PlaybackInv, DirectKept
  <2>7. j.direct => catalog[1].direct
    BY <2>3, <2>5 DEF MadeFor
  <2>8. i.direct = j.direct
    BY <2>1, <2>2, <2>6, <2>7 DEF Inputs
  <2>9. i.audio = j.audio
    BY <2>3, <2>8 DEF MadeFor
  <2>10. \A x \in Inputs : Fingerprint(x) = [direct |-> x.direct, version |-> x.version,
                                             device |-> x.device, audio |-> x.audio, psid |-> 0]
    BY DEF Fingerprint, Inputs
  <2>11. Fingerprint(i) = Fingerprint(j)
    BY <2>2, <2>5, <2>8, <2>9, <2>10
  <2> QED
    BY <2>1, <2>11 DEF Compatible
<1>2. PlaybackInv => RestartsForCause
  BY <1>1 DEF RestartsForCause
<1> QED
  BY <1>2, PlaybackAlways, PTL DEF RestartedForCause

=============================================================================
