--------------------------- MODULE MCReplayWriter ---------------------------
(* Instances of ReplayWriter: a ring of a few bytes, so that commands wrap, *)
(* fill it and are refused within a few calls.                              *)
EXTENDS ReplayWriter
=============================================================================
