----------------------------- MODULE ChunkStore -----------------------------
(***************************************************************************)
(* What the chunk cache of a source promises, without goroutines, records  *)
(* or contexts: a chunk is fetched by at most one download at a time and,  *)
(* once stored, is never fetched again, until the cache is closed for good. *)
(***************************************************************************)
CONSTANT Chunks

VARIABLES
    open,   \* the source still has its cache file
    phase   \* chunk -> "absent", "fetching" or "stored"

store == <<open, phase>>

StoreInit ==
    /\ open = TRUE
    /\ phase = [c \in Chunks |-> "absent"]

Fetch(c) ==
    /\ open
    /\ phase[c] = "absent"
    /\ phase' = [phase EXCEPT ![c] = "fetching"]
    /\ UNCHANGED open

(* The fetch ends: the chunk is stored, or may be fetched again. *)
Settle(c) ==
    /\ phase[c] = "fetching"
    /\ \E outcome \in {"stored", "absent"} :
          phase' = [phase EXCEPT ![c] = outcome]
    /\ UNCHANGED open

Shut ==
    /\ open
    /\ open' = FALSE
    /\ phase' = [c \in Chunks |-> "absent"]

StoreNext == (\E c \in Chunks : Fetch(c) \/ Settle(c)) \/ Shut

StoreSpec == StoreInit /\ [][StoreNext]_store
=============================================================================
