---------------------------- MODULE SerialWorker ----------------------------
(***************************************************************************)
(* What runner/engine_worker.h promises its owner, without mutexes or      *)
(* condition variables: one job at a time, every accepted job executed     *)
(* once, in order of acceptance, and no job pending once the worker is     *)
(* gone.  Jobs are named by their order of acceptance.                     *)
(***************************************************************************)
EXTENDS Naturals, Sequences

CONSTANT MaxJobs        \* bound on the jobs an owner hands over

VARIABLES accepted,     \* number of jobs accepted so far
          pending,      \* 0, or the accepted job that is not complete
          executed      \* the jobs that ran, in the order they ran

vars == <<accepted, pending, executed>>

Init ==
  /\ accepted = 0
  /\ pending = 0
  /\ executed = <<>>

Accept ==
  /\ pending = 0
  /\ accepted < MaxJobs
  /\ accepted' = accepted + 1
  /\ pending' = accepted + 1
  /\ UNCHANGED executed

Execute ==
  /\ pending # 0
  /\ Len(executed) < pending
  /\ executed' = Append(executed, pending)
  /\ UNCHANGED <<accepted, pending>>

Complete ==
  /\ pending # 0
  /\ Len(executed) = pending
  /\ pending' = 0
  /\ UNCHANGED <<accepted, executed>>

\* A NULL worker executes the job before the call returns.
Inline ==
  /\ pending = 0
  /\ accepted < MaxJobs
  /\ accepted' = accepted + 1
  /\ executed' = Append(executed, accepted + 1)
  /\ UNCHANGED pending

Next == Accept \/ Execute \/ Complete \/ Inline

Spec == Init /\ [][Next]_vars /\ WF_vars(Execute \/ Complete)

=============================================================================
