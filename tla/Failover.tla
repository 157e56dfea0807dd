------------------------------ MODULE Failover ------------------------------
(***************************************************************************)
(* failoverTransport (internal/proxy/upstream_transport.go): a request is  *)
(* sent to the preferred upstream and, when that fails and the request can *)
(* be sent again, to the others in turn.  Requests run concurrently and    *)
(* share the preference.  With one upstream there is no such transport.    *)
(* Left out: a client that gives up (every further attempt then fails at   *)
(* once) and a GetBody that fails.                                         *)
(*                                                                         *)
(* A definition named D_X is D with a plausible bug in it.                 *)
(***************************************************************************)
EXTENDS Naturals, FiniteSets

CONSTANTS
    N,          \* len(t.upstreams)
    Callers,    \* goroutines with a request
    Outgoing,   \* the requests they may have
    MaxChanges  \* bound on how often upstreams fail or come back

(* "read" stands for GET, HEAD and OPTIONS, "write" for POST, PUT, PATCH   *)
(* and DELETE; a body without GetBody ("stream") can be read once.         *)
ASSUME FailoverAssumption ==
    /\ N \in Nat \ {0, 1}
    /\ MaxChanges \in Nat
    /\ Outgoing \subseteq [method : {"read", "write", "other"},
                           body : {"none", "replayable", "stream"}]

Upstreams == 0 .. N - 1

VARIABLES
    preferred,  \* t.preferred
    working,    \* upstreams that answer; the others give 502..504 or an error
    trip,       \* where each RoundTrip is
    req,        \* its request
    start,      \* the preference it read
    offset,     \* attempts before this one
    result,     \* of its last attempt, or what it returned
    tried,      \* upstreams the request was sent to
    steady,     \* history: upstreams that worked all the time since it began
    changes     \* failures and recoveries so far

callVars == <<trip, req, start, offset, result, tried>>
failoverVars == <<preferred, working, callVars, steady, changes>>

FailoverTypeOK ==
    /\ preferred \in Upstreams
    /\ working \subseteq Upstreams
    /\ trip \in [Callers -> {"new", "send", "settle", "returned"}]
    /\ req \in [Callers -> Outgoing]
    /\ start \in [Callers -> Upstreams] /\ offset \in [Callers -> Upstreams]
    /\ result \in [Callers -> {"none", "ok", "status", "error", "unsendable"}]
    /\ tried \in [Callers -> SUBSET Upstreams]
    /\ steady \in [Callers -> SUBSET Upstreams]
    /\ changes \in 0 .. MaxChanges

FailoverInit ==
    /\ preferred = 0
    /\ working \in SUBSET Upstreams
    /\ trip = [c \in Callers |-> "new"]
    /\ req \in [Callers -> Outgoing]
    /\ start = [c \in Callers |-> 0] /\ offset = [c \in Callers |-> 0]
    /\ result = [c \in Callers |-> "none"]
    /\ tried = [c \in Callers |-> {}]
    /\ steady = [c \in Callers |-> {}]
    /\ changes = 0

Retryable_AnyBody(r) == r.method # "other"
Retryable(r) == r.method # "other" /\ r.body # "stream"

Index_FromFirst(c) == offset[c]
Index(c) == (start[c] + offset[c]) % N

LastTry_OneShort(c) == offset[c] = N - 2
LastTry(c) == offset[c] = N - 1

Begin(c) ==
    /\ trip[c] = "new"
    /\ start' = [start EXCEPT ![c] = preferred]
    /\ steady' = [steady EXCEPT ![c] = working]
    /\ trip' = [trip EXCEPT ![c] = "send"]
    /\ UNCHANGED <<preferred, working, req, offset, result, tried, changes>>

(* requestForUpstream, then base.RoundTrip *)
Send(c) ==
    /\ trip[c] = "send"
    /\ IF offset[c] > 0 /\ req[c].body = "stream"
       THEN /\ result' = [result EXCEPT ![c] = "unsendable"]
            /\ trip' = [trip EXCEPT ![c] = "returned"]
            /\ UNCHANGED tried
       ELSE /\ tried' = [tried EXCEPT ![c] = @ \cup {Index(c)}]
            /\ \E o \in IF Index(c) \in working THEN {"ok"} ELSE {"status", "error"} :
                  result' = [result EXCEPT ![c] = o]
            /\ trip' = [trip EXCEPT ![c] = "settle"]
    /\ UNCHANGED <<preferred, working, req, start, offset, steady, changes>>

Choose(c) == IF result[c] = "ok" /\ Index(c) # start[c] THEN Index(c) ELSE preferred

(* A success elsewhere than at the start becomes the preference; a failure *)
(* is returned if it is the last or the request cannot be sent again.      *)
Return(c) ==
    /\ trip[c] = "settle"
    /\ result[c] = "ok" \/ ~Retryable(req[c]) \/ LastTry(c)
    /\ preferred' = Choose(c)
    /\ trip' = [trip EXCEPT ![c] = "returned"]
    /\ UNCHANGED <<working, req, start, offset, result, tried, steady, changes>>

Following_Stays(n) == n
Following(n) == n + 1

Retry(c) ==
    /\ trip[c] = "settle"
    /\ result[c] # "ok" /\ Retryable(req[c]) /\ ~LastTry(c)
    /\ offset' = [offset EXCEPT ![c] = Following(@)]
    /\ trip' = [trip EXCEPT ![c] = "send"]
    /\ UNCHANGED <<preferred, working, req, start, result, tried, steady, changes>>

Change(u) ==
    /\ changes < MaxChanges
    /\ changes' = changes + 1
    /\ working' = IF u \in working THEN working \ {u} ELSE working \cup {u}
    /\ steady' = [c \in Callers |-> steady[c] \cap working']
    /\ UNCHANGED <<preferred, callVars>>

RoundTrip(c) == Begin(c) \/ Send(c) \/ Return(c) \/ Retry(c)

Returned == (\A c \in Callers : trip[c] = "returned") /\ UNCHANGED failoverVars

FailoverNext ==
    \/ \E c \in Callers : RoundTrip(c)
    \/ \E u \in Upstreams : Change(u)
    \/ Returned

(* The base transport answers or fails: it has timeouts, and the request a *)
(* context.                                                                *)
FailoverSpec ==
    /\ FailoverInit /\ [][FailoverNext]_failoverVars
    /\ \A c \in Callers : WF_failoverVars(RoundTrip(c))

-----------------------------------------------------------------------------
(* Properties *)

(* README: "For safely retryable GET, HEAD, and OPTIONS requests, a         *)
(* connection error or 502/503/504 response switches the service to a      *)
(* working backup route": such a request fails only if no upstream worked  *)
(* all the while.  Whatever the preference, and whoever changes it         *)
(* meanwhile, every upstream is asked before giving up.                    *)
SafeToRepeat(r) == r.method = "read" /\ r.body # "stream"

FailsOnlyAlone ==
    \A c \in Callers :
        trip[c] = "returned" /\ result[c] # "ok" /\ SafeToRepeat(req[c]) => steady[c] = {}

(* README: "Non-idempotent requests such as POST are not replayed,         *)
(* preventing duplicate operations": none is sent to two upstreams, the    *)
(* first of which may have carried it out.                                 *)
NotReplayed == \A c \in Callers : req[c].method = "write" => Cardinality(tried[c]) <= 1

(* A request that can be read once is never found to be unsendable half    *)
(* way: its one failure is the upstream's.                                 *)
NeverUnsendable == \A c \in Callers : result[c] # "unsendable"

(* Every request is answered. *)
Answered == \A c \in Callers : trip[c] # "returned" ~> trip[c] = "returned"

=============================================================================
