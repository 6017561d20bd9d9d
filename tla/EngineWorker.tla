---------------------------- MODULE EngineWorker ----------------------------
(***************************************************************************)
(* runner/engine_worker.c: one persistent host thread that runs one job at *)
(* a time for one owner.  Every field is guarded by one mutex, so a step   *)
(* of the model is one critical section, from SDL_LockMutex (or the return *)
(* of SDL_CondWait) to SDL_UnlockMutex (or the next SDL_CondWait).  Owner  *)
(* and worker sleep on the same condition variable; a wakeup may be        *)
(* spurious.  genesis_worker_start and _destroy release the mutex between  *)
(* the join and the publication: that gap is a state of the model.         *)
(***************************************************************************)
EXTENDS Integers, Sequences, FiniteSets

CONSTANT MaxJobs          \* bound on the jobs an owner hands over

ASSUME MaxJobsAssumption == MaxJobs \in Nat

NULL == 0

VARIABLES
  worker,     \* the owner's handle: "none" before create, "null", "live", "gone"
  task,       \* w->task: NULL or the number of the published job
  stop,       \* w->stop
  completed,  \* w->completed
  asleep,     \* threads inside SDL_CondWait
  wpc,        \* worker thread: "check" (holds or awaits the mutex), "run", "finish", "exited"
  opc,        \* owner thread: where it is inside a call, "idle" between calls
  accepted,   \* history: jobs handed over so far
  executed,   \* history: jobs in the order they ran
  synced      \* history: the owner's last answer said no job is outstanding

vars == <<worker, task, stop, completed, asleep, wpc, opc, accepted, executed, synced>>

Threads == {"owner", "worker"}
OwnerCalls == {"join", "start", "destroy"}   \* calls that begin with genesis_worker_join

Init ==
  /\ worker = "none" /\ task = NULL /\ stop = 0 /\ completed = 0
  /\ asleep = {} /\ wpc = "exited" /\ opc = "idle"
  /\ accepted = 0 /\ executed = <<>> /\ synced = 1

\* SDL_CondSignal wakes one sleeper if there is one, SDL_CondBroadcast all.
CondSignal ==
  IF asleep = {} THEN UNCHANGED asleep
                 ELSE \E t \in asleep : asleep' = asleep \ {t}

-----------------------------------------------------------------------------
\* The owner's calls.

\* genesis_worker_create: NULL on a single CPU or when an allocation fails.
Create ==
  /\ opc = "idle" /\ worker \in {"none", "gone"}
  /\ \/ /\ worker' = "null"
        /\ UNCHANGED <<task, stop, completed, asleep, wpc>>
     \/ /\ worker' = "live"
        /\ task' = NULL /\ stop' = 0 /\ completed' = 0 /\ asleep' = {}
        /\ wpc' = "check"
  /\ UNCHANGED <<opc, accepted, executed, synced>>

\* genesis_worker_start on a NULL worker runs the task before it returns.
StartInline ==
  /\ opc = "idle" /\ worker = "null" /\ accepted < MaxJobs
  /\ accepted' = accepted + 1
  /\ executed' = Append(executed, accepted + 1)
  /\ UNCHANGED <<worker, task, stop, completed, asleep, wpc, opc, synced>>

\* genesis_worker_join, _start and _destroy all begin by joining.
Call(c) ==
  /\ opc = "idle" /\ worker = "live"
  /\ c = "start" => accepted < MaxJobs
  /\ opc' = c
  /\ UNCHANGED <<worker, task, stop, completed, asleep, wpc, accepted, executed, synced>>

\* Mutant: join does not wait for the task.
JoinStep_NoWait(c) ==
  /\ opc = c /\ "owner" \notin asleep
  /\ opc' = CASE c = "join" -> "idle" [] c = "start" -> "publish" [] c = "destroy" -> "stop"
  /\ synced' = 1
  /\ UNCHANGED <<worker, task, stop, completed, asleep, wpc, accepted, executed>>

\* The wait loop of genesis_worker_join; when it ends the mutex is released
\* and the call goes on to its second critical section, if it has one.
JoinStep(c) ==
  /\ opc = c /\ "owner" \notin asleep
  /\ \/ /\ task # NULL
        /\ asleep' = asleep \cup {"owner"}
        /\ UNCHANGED <<opc, synced>>
     \/ /\ task = NULL
        /\ opc' = CASE c = "join" -> "idle" [] c = "start" -> "publish" [] c = "destroy" -> "stop"
        /\ synced' = 1
        /\ UNCHANGED asleep
  /\ UNCHANGED <<worker, task, stop, completed, wpc, accepted, executed>>

\* Second critical section of genesis_worker_start.
Publish ==
  /\ opc = "publish"
  /\ accepted' = accepted + 1 /\ task' = accepted + 1
  /\ CondSignal
  /\ opc' = "idle" /\ synced' = 0
  /\ UNCHANGED <<worker, stop, completed, wpc, executed>>

\* Mutant: try_start does not look at w->task.
TryStart_IgnoresBusy ==
  /\ opc = "idle" /\ worker = "live" /\ accepted < MaxJobs /\ stop = 0
  /\ accepted' = accepted + 1 /\ task' = accepted + 1
  /\ CondSignal
  /\ synced' = 0
  /\ UNCHANGED <<worker, stop, completed, wpc, opc, executed>>

\* genesis_worker_try_start: nothing happens when the worker is busy or NULL.
TryStart ==
  /\ opc = "idle" /\ worker = "live" /\ accepted < MaxJobs
  /\ task = NULL /\ stop = 0
  /\ accepted' = accepted + 1 /\ task' = accepted + 1
  /\ CondSignal
  /\ synced' = 0
  /\ UNCHANGED <<worker, stop, completed, wpc, opc, executed>>

\* genesis_worker_busy: an answer of 0 tells the owner the job is complete.
Busy ==
  /\ opc = "idle" /\ worker = "live"
  /\ synced' = IF task = NULL THEN 1 ELSE synced
  /\ UNCHANGED <<worker, task, stop, completed, asleep, wpc, opc, accepted, executed>>

\* Second critical section of genesis_worker_destroy, then SDL_WaitThread.
SetStop ==
  /\ opc = "stop"
  /\ stop' = 1
  /\ CondSignal
  /\ opc' = "waitthread"
  /\ UNCHANGED <<worker, task, completed, wpc, accepted, executed, synced>>

WaitThread ==
  /\ opc = "waitthread" /\ wpc = "exited"
  /\ worker' = "gone" /\ opc' = "idle"
  /\ UNCHANGED <<task, stop, completed, asleep, wpc, accepted, executed, synced>>

\* genesis_worker_destroy on a NULL worker returns at once.
DestroyNull ==
  /\ opc = "idle" /\ worker = "null"
  /\ worker' = "gone"
  /\ UNCHANGED <<task, stop, completed, asleep, wpc, opc, accepted, executed, synced>>

-----------------------------------------------------------------------------
\* The worker thread.

\* The head of the loop: sleep, leave, or take the task and unlock.
WorkerCheck ==
  /\ wpc = "check" /\ "worker" \notin asleep
  /\ \/ /\ task = NULL /\ stop = 0
        /\ asleep' = asleep \cup {"worker"}
        /\ UNCHANGED wpc
     \/ /\ stop = 1
        /\ wpc' = "exited"
        /\ UNCHANGED asleep
     \/ /\ stop = 0 /\ task # NULL
        /\ wpc' = "run"
        /\ UNCHANGED asleep
  /\ UNCHANGED <<worker, task, stop, completed, opc, accepted, executed, synced>>

\* task(context), without the mutex.
RunTask ==
  /\ wpc = "run"
  /\ executed' = Append(executed, task)
  /\ wpc' = "finish"
  /\ UNCHANGED <<worker, task, stop, completed, asleep, opc, accepted, synced>>

\* Mutants: completion wakes nobody, forgets to clear the task, or counts down.
Finish_NoBroadcast ==
  /\ wpc = "finish"
  /\ completed' = completed + 1
  /\ task' = NULL
  /\ asleep' = IF stop = 1 THEN asleep ELSE asleep \cup {"worker"}
  /\ wpc' = IF stop = 1 THEN "exited" ELSE "check"
  /\ UNCHANGED <<worker, stop, opc, accepted, executed, synced>>

Finish_KeepsTask ==
  /\ wpc = "finish"
  /\ completed' = completed + 1
  /\ asleep' = {}
  /\ wpc' = IF stop = 1 THEN "exited" ELSE "run"
  /\ UNCHANGED <<worker, task, stop, opc, accepted, executed, synced>>

\* Completion and broadcast; the mutex is kept, so the thread reaches the
\* head of the loop in the same critical section and sleeps or leaves.
Finish ==
  /\ wpc = "finish"
  /\ completed' = completed + 1
  /\ task' = NULL
  /\ asleep' = IF stop = 1 THEN {} ELSE {"worker"}
  /\ wpc' = IF stop = 1 THEN "exited" ELSE "check"
  /\ UNCHANGED <<worker, stop, opc, accepted, executed, synced>>

SpuriousWakeup(t) ==
  /\ t \in asleep
  /\ asleep' = asleep \ {t}
  /\ UNCHANGED <<worker, task, stop, completed, wpc, opc, accepted, executed, synced>>

-----------------------------------------------------------------------------
WorkerStep == WorkerCheck \/ RunTask \/ Finish

OwnerStep == (\E c \in OwnerCalls : JoinStep(c)) \/ Publish \/ SetStop \/ WaitThread

Next ==
  \/ Create \/ StartInline \/ TryStart \/ Busy \/ DestroyNull
  \/ \E c \in OwnerCalls : Call(c)
  \/ OwnerStep
  \/ WorkerStep
  \/ \E t \in Threads : SpuriousWakeup(t)

\* Both threads keep running; nothing obliges the owner to make a call, and
\* nothing obliges a spurious wakeup to happen.
Spec == Init /\ [][Next]_vars /\ WF_vars(WorkerStep) /\ WF_vars(OwnerStep)

-----------------------------------------------------------------------------
TypeOK ==
  /\ worker \in {"none", "null", "live", "gone"}
  /\ task \in Nat /\ stop \in {0, 1} /\ completed \in Nat
  /\ asleep \subseteq Threads
  /\ wpc \in {"check", "run", "finish", "exited"}
  /\ opc \in OwnerCalls \cup {"idle", "publish", "stop", "waitthread"}
  /\ accepted \in Nat /\ executed \in Seq(Nat) /\ synced \in {0, 1}

\* "publishes this one exactly once" (engine_worker.h): the jobs that ran are
\* the accepted jobs, each once and in order, whichever of start (on a live
\* or a NULL worker) and try_start accepted them.
ExactlyOnceInOrder ==
  /\ Len(executed) <= accepted
  /\ \A i \in 1..Len(executed) : executed[i] = i

\* "busy()==0 synchronizes completed job writes with the owner": once join or
\* busy has told the owner so, every accepted job has run and the worker
\* thread is not inside one, until the owner hands over the next.
SyncedMeansComplete ==
  synced = 1 => /\ Len(executed) = accepted
            /\ wpc \notin {"run", "finish"}

\* genesis_worker_destroy frees a worker that owes nothing: when the thread is
\* told to stop, and when it is gone, no accepted job is left unexecuted.
StopOwesNothing ==
  (stop = 1 \/ worker = "gone") => task = NULL /\ Len(executed) = accepted

\* Every call the owner makes returns: no wakeup is lost between a job that
\* completes and an owner that joins, or between destroy and the thread.
CallsReturn == (opc # "idle") ~> (opc = "idle")

\* The refinement: what the owner can observe is a serial worker.
Abstract == INSTANCE SerialWorker WITH pending <- task

RefinesSerialWorker == Abstract!Spec

\* Its safety part: every step is a step of the serial worker or unseen by it.
SerialSteps == Abstract!Init /\ [][Abstract!Next]_(Abstract!vars)

=============================================================================
