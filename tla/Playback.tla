------------------------------ MODULE Playback ------------------------------
(***************************************************************************)
(* From PlaybackInfo to FFmpeg, for one item: the rewriting of the reply   *)
(* (internal/emby/playback.go), what RememberMedia keeps of it, the input  *)
(* and the audio stream a playlist or segment request stands for, and how  *)
(* Ensure turns them into the FFmpeg that runs (manager.go).               *)
(*                                                                         *)
(* The registry of media and the sessions are keyed by the item alone: its *)
(* versions and all clients share an entry.  What else makes a request     *)
(* restart FFmpeg, positions (SegmentWindow) and the client's play session *)
(* (SessionManager), is one bit here: a request may be a seek.             *)
(*                                                                         *)
(* A definition named D_X is D with a plausible bug in it.                 *)
(***************************************************************************)
EXTENDS Naturals, Sequences

CONSTANTS
    Devices,    \* each is a device
    Catalogs,   \* what Emby may know of the item: its versions
    MaxInfos,   \* bound on PlaybackInfo calls to one process; they number
                \* the PlaySessionIds of the replies
    MaxRestarts,\* bound on restarts of the process
    Absent      \* no value

(* A version: the numbers of its audio streams, the default one (0 if      *)
(* none), its video, and whether the reply has a DirectStreamUrl.          *)
Versions == [audio : Seq(Nat \ {0}), default : Nat,
             video : {"h264", "hevc10", "hevc4k"}, direct : BOOLEAN]

(* Two requests have the same input if their urls differ in playback       *)
(* options only (removeLocalAndPlaybackOnlyQuery).                         *)
Inputs == [direct : BOOLEAN, version : Nat, device : Devices, audio : Nat, psid : Nat]
Fingerprint_Whole(i) == i
Fingerprint(i) == [i EXCEPT !.psid = 0]

(* What the registry keeps of an item *)
Remembered == [version : Nat, input : Inputs \cup {Absent}]

(* An FFmpeg: what it was started for, the media that the code takes it to *)
(* play, and what the catalog knew of them when it was started             *)
FFmpegs == [input : Inputs, media : Nat, audio : Nat, want : [version : Nat, audio : Nat],
            known : BOOLEAN, map : Nat \ {0}, pipeline : {"full", "hybrid", "encode"},
            ffmpeg : {"running", "done"}]

ASSUME PlaybackAssumption ==
    /\ Catalogs \subseteq Seq(Versions) \ {<<>>}
    /\ {MaxInfos, MaxRestarts} \subseteq Nat
    /\ Absent \notin Inputs \cup Remembered \cup FFmpegs

VARIABLES
    catalog,    \* the versions of the item
    media,      \* m.media: version and input, Absent if unknown
    info,       \* client -> its PlaybackInfo call
    url,        \* client -> the version and audio stream of the url it plays
    wish,       \* client -> its playlist or segment request
    playing,    \* the session of the item, Absent if there is none
    fallback,   \* m.vaapiEncodeFallback
    infos, restarts,
    asked,      \* the clients that sent a request since the start
    ended,      \* an FFmpeg that decodes in hardware ended since the start,
    forgotten   \* ... and was taken out by somebody else than Ensure

playbackHistory == <<asked, ended, forgotten>>
playbackBounds == <<infos, restarts>>
playbackVars ==
    <<catalog, media, info, url, wish, playing, fallback, playbackBounds, playbackHistory>>

NoInfo == [next |-> 0, psid |-> 0]
NoRequest == [at |-> "idle", want |-> Absent, segment |-> FALSE, seek |-> FALSE,
              input |-> Absent, media |-> 0, got |-> Absent]

Wants == [version : DOMAIN catalog, audio : Nat]
Wishes == [at : {"idle", "media", "look", "ensure", "served"}, want : Wants \cup {Absent},
           segment : BOOLEAN, seek : BOOLEAN, input : Inputs \cup {Absent},
           media : 0 .. Len(catalog), got : [known : BOOLEAN, map : Nat \ {0}] \cup {Absent}]

PlaybackTypeOK ==
    /\ catalog \in Catalogs
    /\ media \in {Absent} \cup [version : DOMAIN catalog, input : Inputs \cup {Absent}]
    /\ info \in [Devices -> {NoInfo} \cup [next : DOMAIN catalog, psid : Nat]]
    /\ url \in [Devices -> Wants \cup {Absent}]
    /\ wish \in [Devices -> Wishes]
    /\ \A c \in Devices :
          wish[c].at # "idle" => wish[c].want \in Wants /\ wish[c].input \in Inputs
    /\ playing \in FFmpegs \cup {Absent}
    /\ playing # Absent => playing.media \in 0 .. Len(catalog) /\ playing.want \in Wants
    /\ {fallback, ended, forgotten} \subseteq BOOLEAN /\ (fallback => ended)
    /\ asked \subseteq Devices
    /\ infos \in 0 .. MaxInfos /\ restarts \in 0 .. MaxRestarts

PlaybackInit ==
    /\ catalog \in Catalogs
    /\ media = Absent /\ playing = Absent /\ fallback = FALSE
    /\ info = [c \in Devices |-> NoInfo]
    /\ url = [c \in Devices |-> Absent]
    /\ wish = [c \in Devices |-> NoRequest]
    /\ infos = 0 /\ restarts = 0
    /\ asked = {} /\ ended = FALSE /\ forgotten = FALSE

-----------------------------------------------------------------------------
(* handlePlaybackInfo *)

(* preferredAudioStream: 0 leaves the stream out of the url *)
Preferred(v) ==
    LET has(a) == \E i \in DOMAIN v.audio : v.audio[i] = a
    IN  IF has(v.default) THEN v.default ELSE IF Len(v.audio) = 1 THEN v.audio[1] ELSE 0

(* The client asks for a stream of its own, or leaves it to the reply. *)
ChoicesOf(k) == [version : {k}, audio : {catalog[k].audio[i] : i \in DOMAIN catalog[k].audio}
                                             \cup {Preferred(catalog[k])}]

PlaybackInfo(c) ==
    /\ info[c] = NoInfo /\ infos < MaxInfos
    /\ infos' = infos + 1
    /\ info' = [info EXCEPT ![c] = [next |-> 1, psid |-> infos']]
    /\ asked' = asked \cup {c}
    /\ UNCHANGED <<catalog, media, url, wish, playing, fallback, restarts, ended, forgotten>>

(* RememberMedia, once for each version of the reply; then the client gets *)
(* the reply and plays one of them.                                        *)
Remember(c) ==
    /\ info[c] # NoInfo
    /\ LET k == info[c].next
           direct == [direct |-> TRUE, version |-> k, device |-> c, audio |-> 0,
                      psid |-> info[c].psid]
       IN  /\ media' = [version |-> k, input |-> IF catalog[k].direct THEN direct ELSE Absent]
           /\ playing' = IF playing = Absent THEN Absent ELSE [playing EXCEPT !.media = k]
           /\ IF k < Len(catalog)
              THEN info' = [info EXCEPT ![c].next = k + 1] /\ UNCHANGED url
              ELSE /\ info' = [info EXCEPT ![c] = NoInfo]
                   /\ \E v \in DOMAIN catalog : \E w \in ChoicesOf(v) : url' = [url EXCEPT ![c] = w]
    /\ UNCHANGED <<catalog, wish, fallback, playbackBounds, playbackHistory>>

-----------------------------------------------------------------------------
(* The handler *)

(* InputURLForID: the DirectStreamUrl remembered last, else /Videos/id with *)
(* the query of the request                                                *)
InputURL(c) ==
    IF media # Absent /\ media.input # Absent THEN media.input
    ELSE [direct |-> FALSE, version |-> url[c].version, device |-> c,
          audio |-> url[c].audio, psid |-> 0]

AskFor(c) ==
    /\ wish[c].at = "idle" /\ url[c] # Absent
    /\ \E segment \in BOOLEAN, seek \in BOOLEAN :
          wish' = [wish EXCEPT ![c] =
              [at |-> IF segment THEN "media" ELSE "ensure", want |-> url[c], segment |-> segment,
               seek |-> seek, input |-> InputURL(c), media |-> 0, got |-> Absent]]
    /\ asked' = asked \cup {c}
    /\ UNCHANGED <<catalog, media, info, url, playing, fallback, playbackBounds, ended, forgotten>>

(* A segment request reads the registry a second time. *)
ReadMedia(c) ==
    /\ wish[c].at = "media"
    /\ wish' = [wish EXCEPT ![c].at = "look",
                            ![c].media = IF media = Absent THEN 0 ELSE media.version]
    /\ UNCHANGED <<catalog, media, info, url, playing, fallback, playbackBounds, playbackHistory>>

Compatible(r) == Fingerprint(playing.input) = Fingerprint(r.input)
Given(c, s) == wish' = [wish EXCEPT ![c] = [@ EXCEPT !.at = "served",
                                                   !.got = [known |-> s.known, map |-> s.map]]]

(* sessionForSegment: the session is found to fit, or Ensure decides *)
Look(c) ==
    /\ wish[c].at = "look"
    /\ IF /\ playing # Absent /\ playing.ffmpeg = "running"
          /\ Compatible(wish[c]) /\ playing.audio = wish[c].want.audio /\ ~wish[c].seek
       THEN Given(c, playing)
       ELSE wish' = [wish EXCEPT ![c].at = "ensure"]
    /\ UNCHANGED <<catalog, media, info, url, playing, fallback, playbackBounds, playbackHistory>>

Delivered(c) ==
    /\ wish[c].at = "served"
    /\ wish' = [wish EXCEPT ![c] = NoRequest]
    /\ UNCHANGED <<catalog, media, info, url, playing, fallback, playbackBounds, playbackHistory>>

-----------------------------------------------------------------------------
(* Ensure *)

RestartsFor(r) == r.seek \/ playing.audio # r.want.audio \/ ~Compatible(r)

EnsureReuses(c) ==
    /\ wish[c].at = "ensure" /\ playing # Absent
    /\ playing.ffmpeg = "running" /\ ~RestartsFor(wish[c])
    /\ playing' = [playing EXCEPT !.media = IF wish[c].media = 0 THEN @ ELSE wish[c].media]
    /\ Given(c, playing)
    /\ UNCHANGED <<catalog, media, info, url, fallback, playbackBounds, playbackHistory>>

(* shouldFallbackToVAAPIEncode *)
FallsBack_Never == FALSE
FallsBack_Always == TRUE
FallsBack == playing.pipeline # "encode"

EnsureTakesOut(c) ==
    /\ wish[c].at = "ensure" /\ playing # Absent
    /\ playing.ffmpeg = "done" \/ RestartsFor(wish[c])
    /\ fallback' = (fallback \/ (playing.ffmpeg = "done" /\ FallsBack))
    /\ playing' = Absent
    /\ UNCHANGED <<catalog, media, info, url, wish, playbackBounds, playbackHistory>>

(* selectHardwarePipeline, with VAAPI configured *)
Pipeline(m) ==
    IF fallback THEN "encode"
    ELSE IF m = 0 \/ catalog[m].video = "h264" THEN "full"
    ELSE IF catalog[m].video = "hevc10" THEN "hybrid" ELSE "encode"

(* audioMapArg: the stream's place among the audio streams, or the first *)
AudioMap_Number(m, a) == IF a = 0 THEN 1 ELSE a
AudioMap(m, a) ==
    IF m # 0 /\ \E i \in DOMAIN catalog[m].audio : catalog[m].audio[i] = a
    THEN CHOOSE i \in DOMAIN catalog[m].audio : catalog[m].audio[i] = a
    ELSE 1

EnsureCreates(c) ==
    /\ wish[c].at = "ensure" /\ playing = Absent
    /\ LET r == wish[c]
           m == IF r.media # 0 THEN r.media ELSE IF media = Absent THEN 0 ELSE media.version
       IN  playing' = [input |-> r.input, media |-> m, audio |-> r.want.audio, want |-> r.want,
                    known |-> m # 0, map |-> AudioMap(m, r.want.audio),
                    pipeline |-> Pipeline(m), ffmpeg |-> "running"]
    /\ Given(c, playing')
    /\ UNCHANGED <<catalog, media, info, url, fallback, playbackBounds, playbackHistory>>

-----------------------------------------------------------------------------
(* FFmpeg fails or finishes: the code does not tell the two apart. *)
FFmpegEnds ==
    /\ playing # Absent /\ playing.ffmpeg = "running"
    /\ playing' = [playing EXCEPT !.ffmpeg = "done"]
    /\ ended' = (ended \/ playing.pipeline # "encode")
    /\ UNCHANGED <<catalog, media, info, url, wish, fallback, playbackBounds, asked, forgotten>>

(* The reaper, a report that playback stopped, or Ensure for another item  *)
(* takes the session out, without a word on why it ended.                  *)
TakenAway ==
    /\ playing # Absent
    /\ playing' = Absent
    /\ forgotten' = (forgotten \/ playing.ffmpeg = "done")
    /\ UNCHANGED <<catalog, media, info, url, wish, fallback, playbackBounds, asked, ended>>

(* The process exits and starts anew; the clients go on with their urls. *)
Restart ==
    /\ restarts < MaxRestarts
    /\ restarts' = restarts + 1 /\ infos' = 0
    /\ media' = Absent /\ playing' = Absent /\ fallback' = FALSE
    /\ info' = [c \in Devices |-> NoInfo]
    /\ wish' = [c \in Devices |-> NoRequest]
    /\ asked' = {} /\ ended' = FALSE /\ forgotten' = FALSE
    /\ UNCHANGED <<catalog, url>>

PlaybackNext ==
    \/ \E c \in Devices :
          \/ PlaybackInfo(c) \/ Remember(c)
          \/ AskFor(c) \/ ReadMedia(c) \/ Look(c) \/ Delivered(c)
          \/ EnsureReuses(c) \/ EnsureTakesOut(c) \/ EnsureCreates(c)
    \/ FFmpegEnds \/ TakenAway \/ Restart

PlaybackSpec == PlaybackInit /\ [][PlaybackNext]_playbackVars

-----------------------------------------------------------------------------
(* Properties *)

OneVersion == Len(catalog) = 1

(* Whoever is served hears the stream of its url, or the first where the   *)
(* url names none, although clients with other streams replace the session *)
(* in between.  (Unless FFmpeg was started before the media were known: in *)
(* a new process, for a url of an earlier one.)                            *)
HearsChoice ==
    \A c \in Devices :
        wish[c].at = "served" /\ wish[c].got.known /\ OneVersion =>
            LET streams == catalog[1].audio
                want == wish[c].want.audio
            IN  IF want = 0 THEN wish[c].got.map = 1
                ELSE wish[c].got.map \in DOMAIN streams /\ streams[wish[c].got.map] = want

(* A pipeline that failed is not tried again, unless the failed session    *)
(* was taken out by somebody else than Ensure.                             *)
FallbackKept ==
    ended /\ ~forgotten /\ playing # Absent /\ playing.ffmpeg = "running"
        => playing.pipeline = "encode"

(* While one device plays, asking for PlaybackInfo again does not restart  *)
(* its FFmpeg: the new DirectStreamUrl differs in its PlaySessionId only.  *)
(* Seeks and other audio streams do, and so does learning of the            *)
(* DirectStreamUrl.                                                        *)
PlaysAlone(c) == OneVersion /\ asked = {c} /\ playing.input.direct = catalog[1].direct

RestartsForCause ==
    \A c \in Devices :
        EnsureTakesOut(c) /\ playing.ffmpeg = "running" /\ PlaysAlone(c)
            => wish[c].seek \/ playing.audio # wish[c].want.audio

RestartedForCause == [][RestartsForCause]_playbackVars

(* FFmpeg reads the version its request asked for. *)
OwnVersion == playing # Absent => playing.input.version = playing.want.version

=============================================================================
