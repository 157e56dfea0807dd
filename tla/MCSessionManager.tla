------------------------- MODULE MCSessionManager -------------------------
(* Instances of SessionManager for TLC. *)
EXTENDS SessionManager, TLC

Asked(p, v, i, e) == [play |-> p, variant |-> v, input |-> i, early |-> e]

(* Two players of one item; one of them goes back to a segment that may be *)
(* gone; a request without an input URL.                                   *)
CONSTANTS p1, p2, v1, v2
TwoPlayers == {Asked(p1, v1, TRUE, FALSE), Asked(p2, v1, TRUE, TRUE),
               Asked(None, v1, FALSE, FALSE)}

(* Seeks and changes of the audio stream by clients that name no session *)
Seeks == {Asked(None, v1, TRUE, FALSE), Asked(None, v2, TRUE, FALSE)}

OneRequest == {Asked(None, v1, TRUE, FALSE)}

MCSymmetry == Permutations(Ids) \cup Permutations(Clients)
=============================================================================
