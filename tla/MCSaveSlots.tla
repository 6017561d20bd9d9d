---------------------------- MODULE MCSaveSlots ----------------------------
(* One slot with a preview and one other path, two requests and two frames *)
(* of patience: both requests can meet on the slot, the second while the   *)
(* first is pending, being written or failed.                               *)
EXTENDS SaveSlots

=============================================================================
