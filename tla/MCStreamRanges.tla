-------------------------- MODULE MCStreamRanges --------------------------
(* Instances of StreamRanges for TLC: one stream over a longer range, and   *)
(* two streams that overlap (FFmpeg seeks while its first read is served).  *)
EXTENDS StreamRanges, TLC

CONSTANTS long, seek

OneLanesOf == long :> {1, 2}
OneRange == long :> <<1, 4>>

TwoLanesOf == (long :> {1, 2}) @@ (seek :> {1})
TwoRange == (long :> <<1, 2>>) @@ (seek :> <<1, 1>>)
=============================================================================
