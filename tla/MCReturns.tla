----------------------------- MODULE MCReturns -----------------------------
(* What must happen in the end, in two parts of the program that share no  *)
(* state: an initial state picks the part, the variables of the other stay *)
(* as they are, and the fairness is that of the part at work.              *)
(*   SessionManager is extended: seeks of clients that name no session,    *)
(*   two calls of any kind ("manager"), or "rivals" that ask for one id    *)
(*   with different variants, so that a session may be created for another *)
(*   variant each time that a call has stopped one                         *)
(*   Cache is an instance of ChunkCache: two streams of one worker each    *)
EXTENDS MCSessionManager

CONSTANTS i1, wide, narrow, c1, x1, x2

VARIABLES part, file, onDisk, entry, rec, stream, cPc, job, held, res

Cache == INSTANCE ChunkCache WITH
    Streams <- {wide, narrow}, LanesOf <- (wide :> {1}) @@ (narrow :> {1}), Chunks <- {c1},
    Routes <- {x1, x2}, NoJob <- None, pc <- cPc

cacheVars == <<file, onDisk, entry, rec, stream, cPc, job, held, res>>
sumVars == <<part, vars, cacheVars>>

SumInit == part \in {"manager", "rivals", "cache"} /\ Init /\ Cache!Init

(* A step of a part. *)
ManagerOnly == part \in {"manager", "rivals"} /\ UNCHANGED <<part, cacheVars>>
CacheOnly == part = "cache" /\ UNCHANGED <<part, vars>>

(* What the clients of the part call *)
Asks ==
    IF part = "manager" THEN calls' <= 2
    ELSE calls' > calls => \E t \in Clients : arg[t] = None /\ arg'[t] # None /\ arg'[t].id = i1

SumNext == (ManagerOnly /\ Next /\ Asks) \/ (CacheOnly /\ Cache!Next)

(* The fairness of each module, as long as it is at work *)
SumFairness ==
    /\ \A t \in Threads : WF_sumVars(ManagerOnly /\ ThreadStep(t))
    /\ WF_sumVars(ManagerOnly /\ ReapScan) /\ WF_sumVars(ManagerOnly /\ ReapStop)
    /\ WF_sumVars(ManagerOnly /\ ReapEnd)
    /\ \A g \in 1 .. MaxCalls : WF_sumVars(ManagerOnly /\ WaitEnds(g))
    /\ \A w \in Cache!Workers : WF_sumVars(CacheOnly /\ (Cache!WorkerStep(w) \/ Cache!Return(w)))

SumSpec == SumInit /\ [][SumNext]_sumVars /\ SumFairness

CallReturns == Cache!CallReturns

=============================================================================
