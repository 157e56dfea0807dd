---------------------------- MODULE MCSessions -----------------------------
(* Five parts of the program that share no state, each by itself: an       *)
(* initial state picks the part, the variables of the others stay as they  *)
(* are.  SessionManager, Settings and Failover; Playback, with two devices *)
(* ("pair") or one and a restart ("alone"); Upstream, with two sources and *)
(* two slots.                                                              *)
EXTENDS MCSessionManager, Playback, Settings, Failover, Upstream, TLC

CONSTANTS a, b, aa, c, old, new, b1, b2, q1, q2, s1, s2

VARIABLE part

Version(as, d, v, direct) == [audio |-> as, default |-> d, video |-> v, direct |-> direct]
MCCatalogs == {
    <<Version(<<1, 3>>, 3, "h264", TRUE)>>,
    <<Version(<<1, 2>>, 0, "hevc10", FALSE)>>,
    <<Version(<<1, 2>>, 1, "hevc4k", FALSE), Version(<<2>>, 0, "h264", FALSE)>>}

Body(p, u, us, f, m, t) == [password |-> p, url |-> u, urls |-> us, field |-> f, mode |-> m, text |-> t]
MCBodies == {
    Body("", Missing, <<b, NoUrl, a>>, "acceleration", "vaapi", FALSE),
    Body(new, NoUrl, <<a, aa>>, "decode", "vaapi", TRUE),
    Body("", Missing, <<NoUrl>>, "decode", "off", TRUE),
    Body("", Missing, <<a, c>>, "none", "", FALSE),
    Body(new, NoUrl, <<>>, "none", "", FALSE),
    Body("", b, <<>>, "decode", "qsv", TRUE)}
MCFirst == Body(old, a, <<>>, "none", "", FALSE)
MCPath == [u \in {a, b, aa, c} |-> IF u = c THEN "emby" ELSE ""]
MCSame == {<<a, aa>>, <<aa, a>>}

(* What callers send: a playlist, a PlaybackInfo call whose body is in     *)
(* memory, an upload that is passed through, and a method never sent twice *)
Playlist == [method |-> "read", body |-> "none"]
MCOutgoing == {Playlist, [method |-> "write", body |-> "replayable"],
               [method |-> "write", body |-> "stream"], [method |-> "other", body |-> "none"]}

(* The routes of the two sources: they share one. *)
MCRoutes == s1 :> {a, b} @@ s2 :> {a}

NoPlayback == PlaybackInit /\ \E v \in DOMAIN catalog : catalog[v].direct
NoDash == SettingsInit /\ renames

(* No request is under way. *)
NoWeb ==
    /\ preferred = 0 /\ working = {} /\ changes = 0
    /\ trip = [t \in Callers |-> "returned"] /\ req = [t \in Callers |-> Playlist]
    /\ start = [t \in Callers |-> 0] /\ offset = [t \in Callers |-> 0]
    /\ result = [t \in Callers |-> "ok"]
    /\ tried = [t \in Callers |-> {}] /\ steady = [t \in Callers |-> {}]

SumInit ==
    /\ Init /\ UpstreamInit
    /\ \/ part \in {"sessions", "senders"} /\ NoPlayback /\ NoDash /\ NoWeb
       \/ part \in {"pair", "alone"} /\ PlaybackInit /\ NoDash /\ NoWeb
       \/ part = "dash" /\ SettingsInit /\ NoPlayback /\ NoWeb
       \/ part = "web" /\ FailoverInit /\ NoPlayback /\ NoDash

sumVars == <<part, vars, playbackVars, settingsVars, failoverVars, upstreamVars>>

(* At most one device has asked for the item. *)
OneDevice == Cardinality({d \in Devices : info[d] # NoInfo \/ url[d] # Absent}) <= 1

(* A step of a part: the others keep their variables. *)
Others(mine) ==
    /\ UNCHANGED part
    /\ mine # "sessions" => UNCHANGED vars
    /\ mine # "playback" => UNCHANGED playbackVars
    /\ mine # "dash" => UNCHANGED settingsVars
    /\ mine # "web" => UNCHANGED failoverVars
    /\ mine # "senders" => UNCHANGED upstreamVars

SumNext ==
    \/ part = "sessions" /\ Next /\ Others("sessions")
    \/ part = "pair" /\ PlaybackNext /\ restarts' = 0 /\ Others("playback")
    \/ part = "alone" /\ PlaybackNext /\ OneDevice' /\ Others("playback")
    \/ part = "dash" /\ SettingsNext /\ Others("dash")
    \/ part = "web" /\ FailoverNext /\ Others("web")
    \/ part = "senders" /\ UpstreamNext /\ Others("senders")

SumSpec == SumInit /\ [][SumNext]_sumVars

(* What the modules promise *)
PartsTypeOK == TypeOK /\ PlaybackTypeOK /\ SettingsTypeOK /\ FailoverTypeOK /\ UpstreamTypeOK

=============================================================================
