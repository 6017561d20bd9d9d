---------------------------- MODULE MCGateArray ----------------------------
(***************************************************************************)
(* The gate array's two jobs around the memories: transfers of CD data,    *)
(* and the views of the memories.  A behaviour is about one of them and    *)
(* the other stays as it started.  Transfers of one to six bytes: odd      *)
(* counts, one word, several words with the FIFO full and draining, and    *)
(* places that wrap around the buffer.  Addresses: the edges of every      *)
(* aperture, and a point every 8 KiB of the Word RAM views from which the  *)
(* whole 1M view is walked.                                                *)
(***************************************************************************)
EXTENDS CdcTransfer

CONSTANTS Points, Protections, Banks, Priorities

VARIABLES part, r, a

V == INSTANCE MemoryViews

MCPoints ==
  {0, 112, 114, 116, 131070, 131072, 262142, 262144, 524286, 15872, 15874, 16384, 16386, 16646144, 16662526, 16711680, 16728062,
   2097150, 2359296}
  \cup {524288 + 8192 * k : k \in 0..48} \cup {2097152 + 8192 * k : k \in 0..31}

-----------------------------------------------------------------------------
all == <<part, vars, r, a>>

MCInit ==
  /\ part \in {"transfer", "views"}
  /\ Init /\ V!Init
  /\ part = "transfer" => a = 0

MCNext ==
  \/ part = "transfer" /\ Next /\ UNCHANGED <<part, r, a>>
  \/ part = "views" /\ V!Next /\ UNCHANGED <<part, vars>>

MCSpec == MCInit /\ [][MCNext]_all

\* One program sees one memory whichever path its access takes: OneMemory of
\* MemoryViews, in the behaviours in which the views change.
OneMemory == part = "views" => V!OneMemory

\* Word RAM holds every byte once: WordRamPartition of MemoryViews.
WordRamPartition == part = "views" => V!WordRamPartition
=============================================================================
