--------------------------- MODULE MCChunkCache ---------------------------
(* Instance of ChunkCache for TLC. *)
EXTENDS ChunkCache, TLC

CONSTANTS wide, narrow

(* FFmpeg's long read and the short one it abandons when it seeks *)
MCLanesOf == (wide :> {1, 2}) @@ (narrow :> {1})
MCSymmetry == Permutations(Routes)
=============================================================================
