------------------------ MODULE MCRouteAssignments -------------------------
(* Instance of RouteAssignments for TLC: every url on a host of its own. *)
EXTENDS RouteAssignments

MCHostOf == [u \in Mirrors |-> u]
=============================================================================
