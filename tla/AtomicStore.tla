---------------------------- MODULE AtomicStore ----------------------------
(***************************************************************************)
(* What runner/host_atomic_file.h promises about one path: a store either  *)
(* replaces the whole file or leaves it alone ("Failure preserves the      *)
(* prior destination"), whatever other stores are in progress, and a loss  *)
(* of power leaves a whole image behind.  The rename is not followed by a  *)
(* synchronisation of the directory, so a loss of power may undo it.       *)
(***************************************************************************)
CONSTANTS Writer, Image, None

VARIABLES file,     \* the image the path holds
          prior,    \* the image it held before the last replacement
          request   \* the image each writer is storing, or None

vars == <<file, prior, request>>

Init ==
  /\ file \in Image
  /\ prior = file
  /\ request = [w \in Writer |-> None]

Start(w, d) ==
  /\ request[w] = None
  /\ request' = [request EXCEPT ![w] = d]
  /\ UNCHANGED <<file, prior>>

Commit(w) ==
  /\ request[w] # None
  /\ file' = request[w]
  /\ prior' = file
  /\ request' = [request EXCEPT ![w] = None]

Abort(w) ==
  /\ request[w] # None
  /\ request' = [request EXCEPT ![w] = None]
  /\ UNCHANGED <<file, prior>>

PowerLoss ==
  /\ file' \in {file, prior}
  /\ prior' = file'
  /\ request' = [w \in Writer |-> None]

Next ==
  \/ \E w \in Writer : Commit(w) \/ Abort(w) \/ \E d \in Image : Start(w, d)
  \/ PowerLoss

Spec == Init /\ [][Next]_vars

=============================================================================
