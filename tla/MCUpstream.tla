---------------------------- MODULE MCUpstream -----------------------------
(* What must happen in the end, in three parts of the program that share   *)
(* no state: an initial state picks the part, the variables of the others  *)
(* stay as they are, and the fairness is that of the part at work.         *)
(* Upstream and BufferControl are extended; Web is an instance of          *)
(* Failover: a playlist, a PlaybackInfo call whose body is in memory, an   *)
(* upload passed through, a method never sent twice.                       *)
EXTENDS Upstream, BufferControl, TLC

CONSTANTS s1, a, b, k1, k2

VARIABLES part,
    preferred, working, trip, req, start, offset, result, tried, steady, changes

MCRoutes == s1 :> {a, b}

Playlist == [method |-> "read", body |-> "none"]
Web == INSTANCE Failover WITH
    N <- 2, Callers <- {k1, k2}, MaxChanges <- 1,
    Outgoing <- {Playlist,
                 [method |-> "write", body |-> "replayable"],
                 [method |-> "write", body |-> "stream"],
                 [method |-> "other", body |-> "none"]}

ASSUME Web!FailoverAssumption

webVars == <<preferred, working, trip, req, start, offset, result, tried, steady, changes>>
sumVars == <<part, upstreamVars, bufferVars, webVars>>

(* No request is under way. *)
Callers == {k1, k2}
NoWeb ==
    /\ preferred = 0 /\ working = {} /\ changes = 0
    /\ trip = [t \in Callers |-> "returned"] /\ req = [t \in Callers |-> Playlist]
    /\ start = [t \in Callers |-> 0] /\ offset = [t \in Callers |-> 0]
    /\ result = [t \in Callers |-> "ok"]
    /\ tried = [t \in Callers |-> {}] /\ steady = [t \in Callers |-> {}]

SumInit ==
    /\ UpstreamInit /\ BufferInit
    /\ \/ part \in {"upstream", "buffer"} /\ NoWeb
       \/ part = "web" /\ Web!FailoverInit

(* A step of a part. *)
UpstreamOnly == part = "upstream" /\ UNCHANGED <<part, bufferVars, webVars>>
BufferOnly == part = "buffer" /\ UNCHANGED <<part, upstreamVars, webVars>>
WebOnly == part = "web" /\ UNCHANGED <<part, upstreamVars, bufferVars>>

SumNext ==
    \/ UpstreamOnly /\ UpstreamNext
    \/ BufferOnly /\ BufferNext
    \/ WebOnly /\ Web!FailoverNext

(* The fairness of each module, as long as it is at work *)
SumFairness ==
    /\ \A r \in Senders :
          /\ SF_sumVars(UpstreamOnly /\ AcquireRoute(r)) /\ SF_sumVars(UpstreamOnly /\ Acquire(r))
          /\ WF_sumVars(UpstreamOnly /\ Ends(r)) /\ WF_sumVars(UpstreamOnly /\ Release(r))
    /\ \A t \in Actors : WF_sumVars(BufferOnly /\ Apply(t))
    /\ SF_sumVars(BufferOnly /\ ReconcileBuffers) /\ WF_sumVars(BufferOnly /\ Stop)
    /\ \A t \in {k1, k2} : WF_sumVars(WebOnly /\ Web!RoundTrip(t))

SumSpec == SumInit /\ [][SumNext]_sumVars /\ SumFairness

(* What the modules promise: the types, *)
PartsTypeOK == UpstreamTypeOK /\ BufferTypeOK /\ (part = "web" => Web!FailoverTypeOK)
(* ... and that every request to the upstreams is answered *)
Answered == Web!Answered

=============================================================================
