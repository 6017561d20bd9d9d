--------------------------- MODULE MCBatterySaves ---------------------------
(***************************************************************************)
(* The two frame loops over a battery save writer.  A behaviour is about   *)
(* the cartridge's memory or about the Sega CD's backup memory; the other  *)
(* program is not running.  Three images, so that committed, in-flight and *)
(* live memory can differ.                                                 *)
(***************************************************************************)
EXTENDS SramSave

CONSTANTS Period, MaxCrashes

VARIABLES
  part,  \* the program a behaviour is about: "cartridge" or "cd"
  cdDisk, cdWriter, cdJob, backup, persisted, frames, exit_code, cdPc, crashes

B == INSTANCE BackupSave WITH disk <- cdDisk, w <- cdWriter, job <- cdJob, pc <- cdPc

-----------------------------------------------------------------------------
cd == <<cdDisk, cdWriter, cdJob, backup, persisted, frames, exit_code, cdPc, crashes>>
all == <<part, vars, cd>>

MCInit ==
  /\ part \in {"cartridge", "cd"}
  /\ Init /\ B!Init
  /\ part = "cd" => disk = (CHOOSE d \in Image : TRUE) /\ w = NULL /\ role = "offline"
  /\ part = "cartridge" => cdDisk = (CHOOSE d \in Image : TRUE) /\ cdWriter = NULL

Cartridge(A) == part = "cartridge" /\ A /\ UNCHANGED <<part, cd>>

MCNext ==
  \/ part = "cartridge" /\ Next /\ UNCHANGED <<part, cd>>
  \/ part = "cd" /\ B!Next /\ UNCHANGED <<part, vars>>

\* The fairness of SramSave.
MCSpec ==
  /\ MCInit /\ [][MCNext]_all
  /\ WF_all(Cartridge(JobStep)) /\ WF_all(Cartridge(LoopStep))
  /\ SF_all(Cartridge(GuestFrame \/ Quit)) /\ SF_all(Cartridge(Tick)) /\ SF_all(Cartridge(StoreSucceeds))

\* Exit code 0 of the CD program promises that the last backup memory is in
\* the file and that no write lands later (CleanExitSaved of BackupSave).
CleanExitSaved == B!CleanExitSaved
=============================================================================
