--------------------------- MODULE PersistWriter ----------------------------
(***************************************************************************)
(* runner/persist_writer.c: the writer that separates the accepted, the    *)
(* in-flight and the committed image of one battery save.  This module has *)
(* its state and operations; SramSave and BackupSave are the two frame     *)
(* loops that use it.  The worker is the serial worker of SerialWorker     *)
(* (start, busy and join are atomic, the job runs beside the owner) and    *)
(* the write callback is the atomic store of AtomicStore: it replaces the  *)
(* file with the pending image and answers 1, or leaves it and answers 0.  *)
(***************************************************************************)
EXTENDS Integers

CONSTANTS
  Image,      \* contents of the battery memory
  NULL        \* a writer that could not be created

VARIABLES
  disk,       \* the file: what the next start loads (an absent file is a fresh image)
  w,          \* the GenesisPersistWriter, or NULL
  job         \* its worker: "none", "queued", or "written" but not yet done

\* genesis_persist_create: the worker is created by the first submission.
Created(initial) ==
  [committed |-> initial, pending |-> initial,
   inflight |-> 0, job_ok |-> 0, failed |-> 0, worker |-> "unattempted"]

Writers ==
  [committed : Image, pending : Image, inflight : {0, 1}, job_ok : {0, 1},
   failed : {0, 1}, worker : {"unattempted", "live", "null"}]

\* genesis_worker_busy; genesis_worker_join returns when this is false.
Running == job # "none"

\* genesis_persist_poll.  Answered: there is a finished job to acknowledge;
\* the completion callback runs when that job succeeded.
Answered(x) == x.inflight = 1 /\ ~Running

Polled(x) ==
  IF ~Answered(x) THEN x
  ELSE IF x.job_ok = 0 THEN [x EXCEPT !.inflight = 0, !.failed = 1]
  ELSE [x EXCEPT !.inflight = 0, !.committed = x.pending]

Completes(x) == Answered(x) /\ x.job_ok = 1

\* The tests of submit() that end it early, on the writer after its poll: the
\* writer has failed, a job is in flight, or the image is the committed one.
Refused(x, d, force) ==
  x.failed = 1 \/ x.inflight = 1 \/ (~force /\ x.committed = d)

\* The atomic store: the whole image or nothing.
Stored(d, ok) == disk' = IF ok = 1 THEN d ELSE disk

\* The rest of submit() up to its second poll: publish a copy of d.  Without
\* a worker the job runs before genesis_worker_start returns.
Start(x, d) ==
  \/ /\ x.worker # "null"
     /\ w' = [x EXCEPT !.pending = d, !.job_ok = 0, !.inflight = 1, !.worker = "live"]
     /\ job' = "queued"
     /\ UNCHANGED disk
  \/ /\ x.worker # "live"
     /\ \E ok \in {0, 1} :
          /\ w' = [x EXCEPT !.pending = d, !.job_ok = ok, !.inflight = 1, !.worker = "null"]
          /\ Stored(d, ok)
     /\ UNCHANGED job

\* persist_job on the worker thread, and the completion of the job.
JobWrite ==
  /\ job = "queued"
  /\ \E ok \in {0, 1} : Stored(w.pending, ok) /\ w' = [w EXCEPT !.job_ok = ok]
  /\ job' = "written"

JobDone ==
  /\ job = "written"
  /\ job' = "none"
  /\ UNCHANGED <<disk, w>>

=============================================================================
