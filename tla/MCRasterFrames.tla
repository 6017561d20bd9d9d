--------------------------- MODULE MCRasterFrames ---------------------------
(* Two presenters, one machine and frames of two rows; four frames, so that *)
(* slots are used again while readers are late, and all three can be held. *)
EXTENDS RasterFrames, TLC

Symmetric == Permutations(Reader)

=============================================================================
