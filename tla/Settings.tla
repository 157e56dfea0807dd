------------------------------ MODULE Settings ------------------------------
(***************************************************************************)
(* The configuration (internal/config) and the dashboard that edits it     *)
(* (internal/proxy/dashboard.go): logins, the PUT of a configuration, the  *)
(* ways config.Save writes the file, the restart, and what a start accepts *)
(* (config.Load, then proxy.New and NewManagerStrict).                     *)
(*                                                                         *)
(* A document is what a JSON text says of the dashboard password, of the   *)
(* entrances and of hardware acceleration; the other fields are copied or  *)
(* replaced by a default when they are not positive.                       *)
(*                                                                         *)
(* A definition named D_X is D with a plausible bug in it.                 *)
(***************************************************************************)
EXTENDS Naturals, Sequences

CONSTANTS
    Browsers,   \* browsers that show the dashboard
    Passwords,  \* not empty
    Bodies,     \* the documents a browser may save
    First,      \* the document of the first start
    NoUrl,      \* an empty url
    DefaultUrl, \* upstream.url of Default()
    Path,       \* url -> base path
    Same,       \* pairs of urls that differ in case only
    HasVAAPI,   \* the probe of the device succeeds
    MaxSaves,   \* bound on the documents accepted
    MaxFaults,  \* bound on failed writes and exits
    Missing     \* no value

(* "off" stands for false, none and off, "qsv" for what is not supported.  *)
Modes == {"", "off", "vaapi", "qsv"}
Addresses == DOMAIN Path

(* The mode may be a boolean or, in the legacy hardware_decode, a text.    *)
Docs == [password : Passwords \cup {""}, url : Addresses \cup {NoUrl, Missing},
         urls : Seq(Addresses \cup {NoUrl}), field : {"acceleration", "decode", "none"},
         mode : Modes, text : BOOLEAN]

-----------------------------------------------------------------------------
(* What a text means, and how a configuration is written *)

Known(kept, u) == \E i \in DOMAIN kept : kept[i] = u \/ <<kept[i], u>> \in Same

(* normalize *)
Keep(kept, u) == IF u = NoUrl \/ Known(kept, u) THEN kept ELSE Append(kept, u)
Normalized(urls) ==
    LET kept[n \in 0 .. Len(urls)] == IF n = 0 THEN <<>> ELSE Keep(kept[n - 1], urls[n])
    IN  kept[Len(urls)]

(* validateAndNormalize *)
Checked(cfg) ==
    LET urls == Normalized(IF cfg.urls = <<>> /\ cfg.url # NoUrl THEN <<cfg.url>> ELSE cfg.urls)
    IN  [password |-> cfg.password, urls |-> urls,
         url |-> IF urls = <<>> THEN cfg.url ELSE urls[1], mode |-> cfg.mode]

(* Parse and Load: UnmarshalJSON over Default() *)
Parse(d) ==
    Checked([password |-> d.password, urls |-> d.urls,
             url |-> IF d.url = Missing THEN DefaultUrl ELSE d.url,
             mode |-> IF d.field = "none" THEN "" ELSE d.mode])

Parses(d) ==
    /\ d # Missing
    /\ ~(d.field = "acceleration" /\ d.text)
    /\ Parse(d).url # NoUrl

(* MarshalJSON: false, true, or the text that HardwareDecode is *)
IsText_Always(mode) == TRUE
IsText(mode) == mode = "qsv"

(* Save *)
Marshal(cfg) ==
    LET valid == Checked(cfg)
    IN  [password |-> valid.password, urls |-> valid.urls,
         url |-> IF valid.urls = <<>> THEN valid.url ELSE NoUrl, field |-> "acceleration",
         mode |-> IF valid.mode = "" THEN "off" ELSE valid.mode, text |-> IsText(valid.mode)]

(* configuredUpstreams: the entrances of a configuration *)
Entrances(cfg) == IF cfg.urls = <<>> THEN <<cfg.url>> ELSE cfg.urls

(* New accepts a configuration. *)
Starts(cfg) ==
    /\ \A i \in DOMAIN Entrances(cfg) : Path[Entrances(cfg)[i]] = Path[Entrances(cfg)[1]]
    /\ cfg.mode = "vaapi" => HasVAAPI
    /\ cfg.mode # "qsv"

(* The first start succeeds. *)
ASSUME SettingsAssumption ==
    /\ Missing \notin Docs
    /\ Bodies \cup {First} \subseteq Docs /\ First.password # ""
    /\ Parses(First)
    /\ DefaultUrl \in Addresses /\ NoUrl \notin Addresses \cup {Missing} /\ Same \subseteq Addresses \X Addresses
    /\ HasVAAPI \in BOOLEAN /\ {MaxSaves, MaxFaults} \subseteq Nat

(* What two configurations have in common when the program behaves alike *)
Effect(cfg) == [password |-> cfg.password, entrances |-> Entrances(cfg),
                vaapi |-> cfg.mode = "vaapi"]

-----------------------------------------------------------------------------
VARIABLES
    file,       \* the configuration file: its document, Missing if it is
                \* not JSON, and its length
    renames,    \* the file may be replaced by a rename; a file that is itself
                \* a mount may not
    run,        \* s.cfg, or Missing while the service is down
    login,      \* browser -> whether s.dashboard.sessions has its cookie
    put,        \* browser -> its PUT
    saves, faults,
    acked,      \* the configuration saved last
    hurt        \* writes in place overlapped or were cut short since

settingsHistory == <<acked, hurt>>
settingsBounds == <<saves, faults>>
settingsVars == <<file, renames, run, login, put, settingsBounds, settingsHistory>>

Length(d) == 2 + Len(d.urls)
Text(d) == [doc |-> d, length |-> Length(d)]
Empty == [doc |-> Missing, length |-> 0]
NoPut == [at |-> "idle", cfg |-> Missing, blank |-> FALSE]

Configs == {Parse(d) : d \in {b \in Bodies \cup {First} : Parses(b)}}
Filled == {[c EXCEPT !.password = p] : c \in Configs, p \in Passwords}

SettingsTypeOK ==
    /\ file.doc # Missing => file = Text(file.doc)
    /\ run \in Filled \cup {Parse(Marshal(c)) : c \in Filled} \cup {Missing}
    /\ acked \in Filled
    /\ login \in [Browsers -> BOOLEAN]
    /\ put \in [Browsers -> {NoPut} \cup [at : {"save", "write"}, cfg : Filled, blank : BOOLEAN]]
    /\ run = Missing => put = [b \in Browsers |-> NoPut]
    /\ {renames, hurt} \subseteq BOOLEAN
    /\ saves \in 0 .. MaxSaves /\ faults \in 0 .. MaxFaults

SettingsInit ==
    /\ renames \in BOOLEAN
    /\ file = Text(First)
    /\ run = Parse(First) /\ acked = run
    /\ login = [b \in Browsers |-> FALSE]
    /\ put = [b \in Browsers |-> NoPut]
    /\ hurt = FALSE
    /\ saves = 0 /\ faults = 0

-----------------------------------------------------------------------------
(* The dashboard *)

(* The login succeeds with the password of s.cfg. *)
Login(b) ==
    /\ run # Missing /\ run.password # "" /\ ~login[b]
    /\ login' = [login EXCEPT ![b] = TRUE]
    /\ UNCHANGED <<file, renames, run, put, settingsBounds, settingsHistory>>

(* dashboardLogout, or the session is found expired *)
Logout(b) ==
    /\ login[b]
    /\ login' = [login EXCEPT ![b] = FALSE]
    /\ UNCHANGED <<file, renames, run, put, settingsBounds, settingsHistory>>

(* The page shows no password; a PUT without one keeps that of s.cfg. *)
Fill(cfg) == IF cfg.password = "" THEN [cfg EXCEPT !.password = run.password] ELSE cfg

Put(b, d) ==
    /\ run # Missing /\ login[b] /\ put[b].at = "idle" /\ saves < MaxSaves
    /\ Parses(d)
    /\ put' = [put EXCEPT ![b] = [at |-> "save", cfg |-> Fill(Parse(d)), blank |-> d.password = ""]]
    /\ saves' = saves + 1
    /\ UNCHANGED <<file, renames, run, login, faults, settingsHistory>>

(* Save: a temporary file, renamed *)
Writing == {b \in Browsers : put[b].at = "write"}

SaveRenames(b) ==
    /\ put[b].at = "save" /\ renames
    /\ file' = Text(Marshal(put[b].cfg))
    /\ acked' = put[b].cfg /\ hurt' = FALSE
    /\ put' = [put EXCEPT ![b] = NoPut]
    /\ UNCHANGED <<renames, run, login, settingsBounds>>

(* ... or, where that fails, os.WriteFile: the file is truncated, then     *)
(* written.  What another write left behind the end stays.                 *)
SaveTruncates(b) ==
    /\ put[b].at = "save" /\ ~renames
    /\ file' = Empty
    /\ hurt' = (Writing # {})
    /\ put' = [put EXCEPT ![b].at = "write"]
    /\ UNCHANGED <<renames, run, login, settingsBounds, acked>>

Over(old, new) == IF old.length > new.length THEN [doc |-> Missing, length |-> old.length] ELSE new

SaveWrites(b) ==
    /\ put[b].at = "write"
    /\ file' = Over(file, Text(Marshal(put[b].cfg)))
    /\ acked' = put[b].cfg
    /\ put' = [put EXCEPT ![b] = NoPut]
    /\ UNCHANGED <<renames, run, login, settingsBounds, hurt>>

(* The write fails part of the way. *)
SaveFails(b) ==
    /\ put[b].at = "write" /\ faults < MaxFaults
    /\ file' = Over(file, [doc |-> Missing, length |-> 1])
    /\ hurt' = TRUE
    /\ put' = [put EXCEPT ![b] = NoPut]
    /\ faults' = faults + 1
    /\ UNCHANGED <<renames, run, login, saves, acked>>

-----------------------------------------------------------------------------
(* The process *)

(* dashboardRestart: os.Exit(0), 250 ms later, whatever the handlers are   *)
(* doing; a crash does no more.                                            *)
Exit ==
    /\ run # Missing /\ faults < MaxFaults
    /\ run' = Missing
    /\ login' = [b \in Browsers |-> FALSE]
    /\ put' = [b \in Browsers |-> NoPut]
    /\ hurt' = (hurt \/ Writing # {})
    /\ faults' = faults + 1
    /\ UNCHANGED <<file, renames, saves, acked>>

Start ==
    /\ run = Missing
    /\ Parses(file.doc) /\ Starts(Parse(file.doc))
    /\ run' = Parse(file.doc)
    /\ UNCHANGED <<file, renames, login, put, settingsBounds, settingsHistory>>

(* A service that does not start is started again until somebody corrects  *)
(* the file.                                                               *)
Repair ==
    /\ run = Missing
    /\ ~(Parses(file.doc) /\ Starts(Parse(file.doc)))
    /\ file' = Text(First) /\ acked' = Parse(First) /\ hurt' = FALSE
    /\ UNCHANGED <<renames, run, login, put, settingsBounds>>

SettingsNext ==
    \/ \E b \in Browsers :
          \/ Login(b) \/ Logout(b)
          \/ \E d \in Bodies : Put(b, d)
          \/ SaveRenames(b) \/ SaveTruncates(b) \/ SaveWrites(b) \/ SaveFails(b)
    \/ Exit \/ Start \/ Repair

SettingsSpec == SettingsInit /\ [][SettingsNext]_settingsVars

-----------------------------------------------------------------------------
(* Properties *)

(* The next start runs what was saved last: whatever legacy field or       *)
(* repeated or missing url the saved text had, what config.Save wrote reads *)
(* back to the same behaviour, and the file is whole unless writes in place *)
(* overlapped or were cut short.  (A mode no start supports is the          *)
(* exception: it is written as a text that Load refuses.)                  *)
SavedIsRun ==
    Writing = {} /\ ~hurt /\ acked.mode # "qsv" =>
        Parses(file.doc) /\ Effect(Parse(file.doc)) = Effect(acked)

(* A save that leaves the password empty keeps the password in the file.   *)
BlankKeeps ==
    [][\A b \in Browsers :
          put[b].blank /\ (SaveRenames(b) \/ SaveWrites(b)) /\ file'.doc # Missing
              => file'.doc.password = acked.password]_settingsVars

=============================================================================
