---------------------------- MODULE MCInputProxy ----------------------------
(* Parts of the input proxy, each by itself: an initial state picks        *)
(* the part, the variables of the others stay as they are.                 *)
(*   ChunkCache                                                            *)
(*   RoutePool over three entrances, with two requests and one failure     *)
(*   ("askers"), with one request and two failures ("faults"), or in       *)
(*   failover mode while other sources come and go, with two downloads at  *)
(*   once or one failure ("shared")                                        *)
(*   RouteAssignments: two sources and three entrances, two of them on one *)
(*   host ("two"); three sources, two entrances and one failure ("three")  *)
EXTENDS MCChunkCache, RoutePool, RouteAssignments

CONSTANTS a, b, c, f1, f2, q1, q2

VARIABLE part

MCUrls == <<a, b, c>>
Film == [size |-> 1, etag |-> "", modified |-> "", head |-> "film", bytes |-> "film"]
At(h, s) == [host |-> h, size |-> s.size, etag |-> s.etag, modified |-> s.modified,
             head |-> s.head, bytes |-> s.bytes]
Twin == [Film EXCEPT !.bytes = "twin"]
Tagged(s, t) == [s EXCEPT !.etag = t]

MCWorlds == {
    [mode |-> "parallel",
     site |-> a :> At("h1", Film) @@ b :> At("h2", Twin) @@ c :> At("h2", Film)],
    [mode |-> "failover",
     site |-> a :> At("h1", Tagged(Film, "x")) @@ b :> At("h2", Film)
                                               @@ c :> At("h3", Tagged(Film, "x"))]}

MCHostOf == <<"h1", "h2", "h1">>

SumInit ==
    /\ Init /\ PoolInit /\ ShareInit
    /\ pinned = FALSE
    /\ \/ part \in {"askers", "faults"}
       \/ part = "shared" /\ mode = "failover"
       \/ part \in {"cache", "two", "three"} /\ mode = "parallel"

sumVars == <<part, vars, poolVars, shareVars>>

(* One source and one download at a time. *)
Alone == pinned' = FALSE /\ fetch'[f2] = NoFetch

(* Two downloads at a time, or one and a failure. *)
Together ==
    /\ faults' <= (IF fetch'[f2] = NoFetch THEN 1 ELSE 0)
    /\ req'[q2] = "idle" /\ ~round'.failed

(* Of three sources two are used, and they are gone. *)
BothGone == sources = <<"gone", "gone", "new">> /\ UNCHANGED shareVars

SumNext ==
    /\ UNCHANGED part
    /\ \/ part = "cache" /\ Next /\ UNCHANGED <<poolVars, shareVars>>
       \/ part = "askers" /\ PoolNext /\ faults' <= 1 /\ Alone /\ UNCHANGED <<vars, shareVars>>
       \/ part = "faults" /\ PoolNext /\ req'[q2] = "idle" /\ Alone /\ UNCHANGED <<vars, shareVars>>
       \/ part = "shared" /\ PoolNext /\ Together /\ UNCHANGED <<vars, shareVars>>
       \/ part = "two" /\ (ShareNext \/ BothGone) /\ sources'[3] = "new" /\ UNCHANGED <<vars, poolVars>>
       \/ /\ part = "three" /\ ShareNext /\ failures' <= 1
          /\ \A s \in Registrants : \A i \in DOMAIN routes'[s] : routes'[s][i].url # 3
          /\ UNCHANGED <<vars, poolVars>>

SumSpec == SumInit /\ [][SumNext]_sumVars

(* What the modules promise *)
PartsTypeOK == TypeOK /\ RouteTypeOK /\ AssignmentTypeOK

=============================================================================
