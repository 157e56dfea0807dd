---------------------------- MODULE MCDelivery -----------------------------
(* What FFmpeg reads and what it writes, in two parts of the program that  *)
(* share no state: an initial state picks the part, the variables of the   *)
(* other stay as they are.                                                 *)
(*   StreamRanges is extended: one stream over a longer range              *)
(*   SegmentWindow is extended: two clients; Reboot is an instance of it:  *)
(*   one client, and a restart of the process                              *)
EXTENDS MCStreamRanges, SegmentWindow

CONSTANTS c1, c2

VARIABLE part

Reboot == INSTANCE SegmentWindow WITH Clients <- {c1}, MaxSessions <- 1, MaxRestarts <- 1

ASSUME Reboot!WindowAssumption

sumVars == <<part, allVars, windowVars>>

SumInit ==
    /\ part \in {"ranges", "window", "reboot"}
    /\ RangeInit
    /\ IF part = "reboot" THEN Reboot!WindowInit ELSE WindowInit

SumNext ==
    /\ UNCHANGED part
    /\ \/ part = "ranges" /\ RangeNext /\ UNCHANGED windowVars
       \/ part = "window" /\ WindowNext /\ UNCHANGED allVars
       \/ part = "reboot" /\ Reboot!WindowNext /\ UNCHANGED allVars

SumSpec == SumInit /\ [][SumNext]_sumVars

Symmetry == Permutations(Clients)

=============================================================================
