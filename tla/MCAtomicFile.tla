---------------------------- MODULE MCAtomicFile ----------------------------
(* Two concurrent callers, two images, and two addresses so that a later   *)
(* caller can meet the temporary an earlier one left under its own name.   *)
EXTENDS AtomicFile

=============================================================================
