----------------------------- MODULE BackupSave -----------------------------
(***************************************************************************)
(* The frame loop of runner/cd/standalone.c and the Sega CD backup memory  *)
(* it keeps on disk through a PersistWriter: poll at the top of every      *)
(* frame, submit every Period-th emulated frame, flush and destroy on the  *)
(* way out; without a writer the file is stored synchronously.  The        *)
(* process may be killed between any two steps and started again.          *)
(***************************************************************************)
EXTENDS PersistWriter

CONSTANTS
  Period,       \* 60 in the code
  MaxCrashes    \* bound on the times the process is killed

VARIABLES
  backup,       \* machine.devices.backup
  persisted,    \* the copy the loop compares with when it has no writer
  frames,       \* machine.frames, modulo Period
  exit_code,
  pc,           \* where the loop is
  crashes       \* how often the process was killed so far

vars == <<disk, w, job, backup, persisted, frames, exit_code, pc, crashes>>
loop == <<backup, persisted, frames, crashes>>

\* segacd_backup_load, genesis_persist_create and the entry into the loop.
Boot ==
  /\ backup' = disk /\ persisted' = disk
  /\ w' \in {Created(disk), NULL}
  /\ job' = "none" /\ frames' = 0 /\ exit_code' = 0 /\ pc' = "top"
  /\ UNCHANGED disk

Init ==
  /\ disk \in Image
  /\ backup = disk /\ persisted = disk
  /\ w \in {Created(disk), NULL}
  /\ job = "none" /\ frames = 0 /\ exit_code = 0 /\ pc = "top"
  /\ crashes = 0

\* The poll at the top of the loop.
Top ==
  /\ pc = "top"
  /\ \/ /\ w = NULL /\ pc' = "events" /\ UNCHANGED <<w, exit_code>>
     \/ /\ w # NULL /\ w' = Polled(w)
        /\ \/ w'.failed = 1 /\ exit_code' = 4 /\ pc' = "drain"
           \/ w'.failed = 0 /\ pc' = "events" /\ UNCHANGED exit_code
  /\ UNCHANGED <<disk, job, loop>>

\* The loop ends (0) or stops for another error (2 or 3), or the frame is a
\* paused or a running one.
Quit ==
  /\ pc \in {"top", "events"}
  /\ exit_code' \in {0, 2, 3}
  /\ pc' = "drain"
  /\ UNCHANGED <<disk, w, job, loop>>

Paused ==
  /\ pc = "events"
  /\ pc' = "top"
  /\ UNCHANGED <<disk, w, job, exit_code, loop>>

RunFrame ==
  /\ pc = "events"
  /\ backup' \in Image
  /\ frames' = (frames + 1) % Period
  /\ pc' = IF frames' = 0 THEN "submit" ELSE "top"
  /\ UNCHANGED <<disk, w, job, exit_code, persisted, crashes>>

\* Every Period-th frame: submit, whose second poll is a step of its own.
Submit ==
  /\ pc = "submit" /\ w # NULL
  /\ LET x == Polled(w) IN
       \/ /\ Refused(x, backup, FALSE)
          /\ w' = x
          /\ \/ x.failed = 1 /\ exit_code' = 4 /\ pc' = "drain"
             \/ x.failed = 0 /\ pc' = "top" /\ UNCHANGED exit_code
          /\ UNCHANGED <<disk, job>>
       \/ /\ ~Refused(x, backup, FALSE)
          /\ Start(x, backup)
          /\ pc' = "submitted"
          /\ UNCHANGED exit_code
  /\ UNCHANGED loop

Submitted ==
  /\ pc = "submitted"
  /\ w' = Polled(w)
  /\ \/ w'.failed = 1 /\ exit_code' = 4 /\ pc' = "drain"
     \/ w'.failed = 0 /\ pc' = "top" /\ UNCHANGED exit_code
  /\ UNCHANGED <<disk, job, loop>>

\* The fallback without a writer.
SubmitSync ==
  /\ pc = "submit" /\ w = NULL
  /\ \/ persisted = backup /\ pc' = "top" /\ UNCHANGED <<disk, persisted, exit_code>>
     \/ /\ persisted # backup
        /\ \E ok \in {0, 1} :
             /\ Stored(backup, ok)
             /\ \/ ok = 1 /\ persisted' = backup /\ pc' = "top" /\ UNCHANGED exit_code
                \/ ok = 0 /\ exit_code' = 4 /\ pc' = "drain" /\ UNCHANGED persisted
  /\ UNCHANGED <<w, job, backup, frames, crashes>>

\* Mutant: submits before the join, so the latest image meets an older one in
\* flight and is refused.
Drain_NoJoin ==
  /\ pc = "drain" /\ w # NULL
  /\ \/ exit_code # 0 /\ pc' = "destroy" /\ UNCHANGED <<disk, w, job, exit_code>>
     \/ /\ exit_code = 0
        /\ LET x == Polled(w) IN
             \/ Refused(x, backup, FALSE) /\ w' = x /\ UNCHANGED <<disk, job>>
             \/ ~Refused(x, backup, FALSE) /\ Start(x, backup)
        /\ pc' = "flush"
        /\ UNCHANGED exit_code
  /\ UNCHANGED loop

\* After the loop.  genesis_persist_flush joins, polls, submits the latest
\* image, joins and polls again; it is skipped when the loop ended in error.
Drain ==
  /\ pc = "drain" /\ w # NULL
  /\ \/ exit_code # 0 /\ pc' = "destroy" /\ UNCHANGED <<disk, w, job, exit_code>>
     \/ /\ exit_code = 0 /\ ~Running
        /\ LET x == Polled(w) IN
             \/ /\ Refused(x, backup, FALSE)
                /\ w' = x
                /\ exit_code' = IF x.failed = 1 THEN 4 ELSE 0
                /\ pc' = "destroy"
                /\ UNCHANGED <<disk, job>>
             \/ /\ ~Refused(x, backup, FALSE)
                /\ Start(x, backup)
                /\ pc' = "flush"
                /\ UNCHANGED exit_code
  /\ UNCHANGED loop

\* The poll inside submit may already see the answer; its outcome is the
\* same as that of the poll after the join.
Flush ==
  /\ pc = "flush" /\ ~Running
  /\ w' = Polled(w)
  /\ exit_code' = IF w'.failed = 1 THEN 4 ELSE 0
  /\ pc' = "destroy"
  /\ UNCHANGED <<disk, job, loop>>

\* genesis_persist_destroy.
Destroy ==
  /\ pc = "destroy" /\ ~Running
  /\ w' = Polled(w)
  /\ exit_code' = IF w'.failed = 1 /\ exit_code = 0 THEN 4 ELSE exit_code
  /\ pc' = "exited"
  /\ UNCHANGED <<disk, job, loop>>

DrainSync ==
  /\ pc = "drain" /\ w = NULL
  /\ \/ /\ exit_code # 0 \/ persisted = backup
        /\ UNCHANGED <<disk, exit_code>>
     \/ /\ exit_code = 0 /\ persisted # backup
        /\ \E ok \in {0, 1} : Stored(backup, ok) /\ exit_code' = IF ok = 1 THEN 0 ELSE 4
  /\ pc' = "exited"
  /\ UNCHANGED <<w, job, loop>>

\* The user kills the process, or ends it normally, and starts it again.
Crash ==
  /\ pc # "exited" /\ crashes < MaxCrashes
  /\ crashes' = crashes + 1
  /\ Boot

Restart ==
  /\ pc = "exited"
  /\ Boot
  /\ UNCHANGED crashes

-----------------------------------------------------------------------------
JobStep == (JobWrite \/ JobDone) /\ UNCHANGED <<exit_code, pc, loop>>

LoopStep ==
  \/ Top \/ Quit \/ Paused \/ RunFrame \/ Submit \/ Submitted \/ SubmitSync
  \/ Drain \/ Flush \/ Destroy \/ DrainSync

Next == LoopStep \/ JobStep \/ Crash \/ Restart

Spec == Init /\ [][Next]_vars

-----------------------------------------------------------------------------
\* Exit code 0 is a promise: the last backup memory is in the file, and no
\* write lands after the process has reported.  The flush must supersede what
\* was accepted before: an older image still in flight must neither land after
\* the latest one nor make it look already committed.
CleanExitSaved == pc = "exited" => ~Running /\ (exit_code = 0 => disk = backup)
=============================================================================
