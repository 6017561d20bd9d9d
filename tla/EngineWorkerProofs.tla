------------------------- MODULE EngineWorkerProofs -------------------------
(***************************************************************************)
(* Theorems about EngineWorker for any number of jobs.  The argument: the  *)
(* only accepted job that may not have run yet is the one in w->task, and  *)
(* every call that acts on an idle worker (start, destroy) reaches its     *)
(* second critical section with w->task still NULL because one owner makes *)
(* all the calls.                                                          *)
(***************************************************************************)
EXTENDS EngineWorker, TLAPS

\* Where the worker thread is decides how much of the accepted work has run.
Progress ==
  /\ task = NULL => Len(executed) = accepted /\ wpc \in {"check", "exited"}
  /\ task # NULL =>
       /\ task = accepted
       /\ worker = "live"
       /\ stop = 0
       /\ wpc \in {"check", "run"} => Len(executed) + 1 = accepted
       /\ wpc = "finish" => Len(executed) = accepted

\* What the owner's position inside a call says about the shared fields.
OwnerPosition ==
  /\ opc \in {"publish", "stop", "waitthread"} => task = NULL
  /\ worker # "live" => opc = "idle" /\ task = NULL
  /\ worker = "live" /\ opc # "waitthread" => stop = 0
  /\ worker = "live" /\ stop = 0 => wpc # "exited"
  /\ synced = 1 => task = NULL
  /\ opc \in {"start", "publish"} => accepted < MaxJobs

InOrder == \A i \in 1..Len(executed) : executed[i] = i

IndInv == TypeOK /\ Progress /\ OwnerPosition /\ InOrder

-----------------------------------------------------------------------------
LEMMA IndInvInit == Init => IndInv
  BY DEF Init, IndInv, TypeOK, Progress, OwnerPosition, InOrder, NULL, OwnerCalls

\* Appending the next number keeps a sequence equal to its own indices.
LEMMA AppendInOrder ==
  ASSUME NEW s \in Seq(Nat), \A i \in 1..Len(s) : s[i] = i
  PROVE  \A i \in 1..Len(Append(s, Len(s) + 1)) : Append(s, Len(s) + 1)[i] = i
  OBVIOUS

LEMMA IndInvNext == IndInv /\ [Next]_vars => IndInv'
<1> SUFFICES ASSUME IndInv, [Next]_vars PROVE IndInv'
  OBVIOUS
<1> USE DEF IndInv, TypeOK, Progress, OwnerPosition, InOrder, NULL, OwnerCalls, Threads
<1>0. CondSignal => asleep' \subseteq Threads
  BY DEF CondSignal
<1>1. CASE Create
  BY <1>1 DEF Create
<1>2. CASE StartInline
  <2>1. /\ executed' = Append(executed, accepted + 1)
        /\ accepted' = accepted + 1
        /\ task = 0 /\ Len(executed) = accepted
    BY <1>2 DEF StartInline
  <2>2. /\ executed' \in Seq(Nat)
        /\ Len(executed') = accepted'
    BY <2>1
  <2>3. InOrder'
    BY <2>1, <2>2, AppendInOrder
  <2>4. QED BY <1>2, <2>2, <2>3 DEF StartInline
<1>3. CASE TryStart
  BY <1>0, <1>3 DEF TryStart
<1>4. CASE Busy
  BY <1>4 DEF Busy
<1>5. CASE DestroyNull
  BY <1>5 DEF DestroyNull
<1>6. ASSUME NEW c \in OwnerCalls, Call(c) PROVE IndInv'
  BY <1>6 DEF Call
<1>7. ASSUME NEW c \in OwnerCalls, JoinStep(c) PROVE IndInv'
  <2>1. CASE task # NULL
    BY <1>7, <2>1 DEF JoinStep
  <2>2. CASE task = NULL
    <3>1. opc' \in {"idle", "publish", "stop"}
      BY <1>7, <2>2 DEF JoinStep
    <3>2. QED BY <1>7, <2>2, <3>1 DEF JoinStep
  <2>3. QED BY <2>1, <2>2
<1>8. CASE Publish
  BY <1>0, <1>8 DEF Publish
<1>9. CASE SetStop
  BY <1>0, <1>9 DEF SetStop
<1>10. CASE WaitThread
  BY <1>10 DEF WaitThread
<1>11. CASE WorkerCheck
  <2>1. asleep' \subseteq Threads
    BY <1>11 DEF WorkerCheck
  <2>2. UNCHANGED <<worker, task, stop, completed, opc, accepted, executed, synced>>
    BY <1>11 DEF WorkerCheck
  <2>3. /\ wpc = "check" /\ wpc' \in {"check", "exited", "run"}
        /\ wpc' = "exited" => stop = 1
        /\ wpc' = "run" => task # 0
    BY <1>11 DEF WorkerCheck
  <2>4. QED BY <2>1, <2>2, <2>3
<1>12. CASE RunTask
  <2>1. /\ executed' = Append(executed, accepted)
        /\ task # 0 /\ task = accepted
        /\ Len(executed) + 1 = accepted
    BY <1>12 DEF RunTask
  <2>2. /\ executed' \in Seq(Nat)
        /\ Len(executed') = accepted
    BY <2>1
  <2>3. InOrder'
    BY <2>1, <2>2, AppendInOrder
  <2>4. QED BY <1>12, <2>1, <2>2, <2>3 DEF RunTask
<1>13. CASE Finish
  BY <1>13 DEF Finish
<1>14. ASSUME NEW t \in Threads, SpuriousWakeup(t) PROVE IndInv'
  BY <1>14 DEF SpuriousWakeup
<1>15. CASE UNCHANGED vars
  BY <1>15 DEF vars
<1>16. QED
  BY <1>1, <1>2, <1>3, <1>4, <1>5, <1>6, <1>7, <1>8, <1>9, <1>10, <1>11, <1>12, <1>13, <1>14, <1>15
  DEF Next, OwnerStep, WorkerStep

\* The inductive invariant holds in every reachable state.
THEOREM Inductive == Spec => []IndInv
  BY IndInvInit, IndInvNext, PTL DEF Spec

\* Every accepted job runs exactly once and in order (genesis_worker_start,
\* genesis_worker_try_start), for any number of jobs.
THEOREM JobsRunOnce == Spec => []ExactlyOnceInOrder
<1>1. IndInv => ExactlyOnceInOrder
  BY DEF IndInv, TypeOK, Progress, OwnerPosition, InOrder, ExactlyOnceInOrder, NULL
<1>2. QED BY <1>1, Inductive, PTL

\* An owner told by join or busy that nothing is outstanding may use the
\* job's buffers: the worker thread is outside every job.
THEOREM AnswersAreSafe == Spec => []SyncedMeansComplete
<1>1. IndInv => SyncedMeansComplete
  BY DEF IndInv, TypeOK, Progress, OwnerPosition, SyncedMeansComplete, NULL
<1>2. QED BY <1>1, Inductive, PTL

\* genesis_worker_destroy never leaves an accepted job behind.
THEOREM NothingOwedAtStop == Spec => []StopOwesNothing
<1>1. IndInv => StopOwesNothing
  BY DEF IndInv, TypeOK, Progress, OwnerPosition, StopOwesNothing, NULL
<1>2. QED BY <1>1, Inductive, PTL

-----------------------------------------------------------------------------
\* Each step of the threads, seen through w->task, the accepted and the
\* executed jobs, is a step of the serial worker or changes none of them.
LEMMA StepSimulation == IndInv /\ [Next]_vars => [Abstract!Next]_(Abstract!vars)
<1> SUFFICES ASSUME IndInv, [Next]_vars PROVE [Abstract!Next]_(Abstract!vars)
  OBVIOUS
<1> USE DEF IndInv, TypeOK, Progress, OwnerPosition, NULL, Abstract!vars
<1>1. CASE StartInline
  <2>1. Abstract!Inline
    BY <1>1 DEF StartInline, Abstract!Inline
  <2>2. QED BY <2>1 DEF Abstract!Next
<1>2. CASE TryStart
  <2>1. Abstract!Accept
    BY <1>2 DEF TryStart, Abstract!Accept
  <2>2. QED BY <2>1 DEF Abstract!Next
<1>3. CASE Publish
  <2>1. Abstract!Accept
    BY <1>3 DEF Publish, Abstract!Accept
  <2>2. QED BY <2>1 DEF Abstract!Next
<1>4. CASE RunTask
  <2>1. Abstract!Execute
    BY <1>4 DEF RunTask, Abstract!Execute
  <2>2. QED BY <2>1 DEF Abstract!Next
<1>5. CASE Finish
  <2>1. Abstract!Complete
    BY <1>5 DEF Finish, Abstract!Complete
  <2>2. QED BY <2>1 DEF Abstract!Next
<1>6. CASE Create
  BY <1>6 DEF Create
<1>7. CASE Busy \/ DestroyNull \/ SetStop \/ WaitThread \/ WorkerCheck \/ UNCHANGED vars
  BY <1>7 DEF Busy, DestroyNull, SetStop, WaitThread, WorkerCheck, vars
<1>8. ASSUME NEW c \in OwnerCalls, Call(c) \/ JoinStep(c) PROVE UNCHANGED <<accepted, task, executed>>
  BY <1>8 DEF Call, JoinStep
<1>9. ASSUME NEW t \in Threads, SpuriousWakeup(t) PROVE UNCHANGED <<accepted, task, executed>>
  BY <1>9 DEF SpuriousWakeup
<1>10. QED
  BY <1>1, <1>2, <1>3, <1>4, <1>5, <1>6, <1>7, <1>8, <1>9 DEF Next, OwnerStep, WorkerStep

\* The safety part of the refinement: whatever the interleaving of owner,
\* worker and wakeups, engine_worker.c takes only steps its header allows.
THEOREM ImplementsSerialWorker == Spec => SerialSteps
<1>1. Init => Abstract!Init
  BY DEF Init, Abstract!Init, NULL
<1>2. QED BY <1>1, StepSimulation, Inductive, PTL DEF Spec, SerialSteps

=============================================================================
