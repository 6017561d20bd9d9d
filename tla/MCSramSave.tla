----------------------------- MODULE MCSramSave -----------------------------
(* Three images, so that committed, in-flight and live memory can differ.  *)
EXTENDS SramSave

=============================================================================
