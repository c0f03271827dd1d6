--------------------------- MODULE JobQueueProofs ---------------------------
(***************************************************************************)
(* Theorems about JobQueue and QueueOrder for every set of jobs and        *)
(* workers, every retry budget and every number of faults.                 *)
(***************************************************************************)
EXTENDS QueueOrder, FiniteSetTheorems, TLAPS

USE JobsAssumption, WorkersAssumption, BudgetAssumption

-----------------------------------------------------------------------------
(***************************************************************************)
(* The type invariant.                                                     *)
(***************************************************************************)
\* A worker that is past its lease names a job of the table.
LEMMA BusyWorkerHasJob ==
  ASSUME TypeOK, NEW w \in Workers, workers[w].phase # "idle"
  PROVE  workers[w].job \in Jobs
  BY DEF TypeOK, WorkersTypeOK, WorkerState

\* Releasing a job, as CompleteJob and FailJob do, keeps the table's type.
LEMMA ReleaseTypeOK ==
  ASSUME JobsTypeOK, NEW j \in Jobs, NEW s \in {"completed", "failed", "retryable"}, Release(j, s)
  PROVE  JobsTypeOK'
<1> USE DEF Release
<1>1. jobs' \in [Jobs -> JobRow]
  BY DEF JobsTypeOK, JobRow, JobState, Active, Settled
<1>2. \A i \in Jobs : jobs'[i].leasedBy # NoWorker <=> jobs'[i].state = "leased"
  BY DEF JobsTypeOK, JobRow
<1>3. \A i \in Jobs : jobs'[i].state \in {"absent", "queued"} => jobs'[i].attempts = 0
  BY DEF JobsTypeOK, JobRow
<1>4. due' \subseteq Jobs /\ ahead' \subseteq due' \X due'
  BY DEF JobsTypeOK, Leaves
<1>5. lapsed' \subseteq {i \in Jobs : jobs'[i].state = "leased"}
  BY DEF JobsTypeOK, JobRow
<1> QED
  BY <1>1, <1>2, <1>3, <1>4, <1>5 DEF JobsTypeOK

\* TypeOK is inductive: every row and worker state keeps its type, and
\* leased_by and leased_until are set exactly while the row is leased.
LEMMA TypeOKStep == TypeOK /\ [Next]_vars => TypeOK'
<1> SUFFICES ASSUME TypeOK, [Next]_vars PROVE TypeOK'
  OBVIOUS
<1> USE DEF TypeOK, JobsTypeOK, WorkersTypeOK, JobRow, JobState, Active, Settled, WorkerState, Phase
<1>1. ASSUME NEW j \in Jobs, Enqueue(j) PROVE TypeOK'
  BY <1>1 DEF Enqueue, Joins
<1>2. ASSUME NEW j \in Jobs, BackoffEnds(j) PROVE TypeOK'
  BY <1>2 DEF BackoffEnds, Joins
<1>3. ASSUME NEW j \in Jobs, OrphanLapses(j) PROVE TypeOK'
  BY <1>3 DEF OrphanLapses, line
<1>4. ASSUME NEW j \in Jobs, LeaseOutlived(j) PROVE TypeOK'
  BY <1>4 DEF LeaseOutlived, Fault, line
<1>5. ASSUME NEW w \in Workers, LeaseNextJob(w) PROVE TypeOK'
  BY <1>5 DEF LeaseNextJob, line
<1>6. ASSUME NEW w \in Workers, CompleteJob(w) PROVE TypeOK'
  <2>1. workers[w].job \in Jobs
    BY <1>6, BusyWorkerHasJob DEF CompleteJob
  <2>2. JobsTypeOK'
    BY <1>6, <2>1, ReleaseTypeOK DEF CompleteJob, line
  <2>3. WorkersTypeOK'
    BY <1>6, <2>1 DEF CompleteJob, Idle
  <2> QED
    BY <2>2, <2>3
<1>7. ASSUME NEW w \in Workers, FailJob(w) PROVE TypeOK'
  <2>1. workers[w].job \in Jobs
    BY <1>7, BusyWorkerHasJob DEF FailJob
  <2>2. JobsTypeOK'
    BY <1>7, <2>1, ReleaseTypeOK DEF FailJob, line
  <2>3. WorkersTypeOK'
    BY <1>7, <2>1 DEF FailJob, Idle
  <2> QED
    BY <2>2, <2>3
<1>8. ASSUME NEW w \in Workers, MarkDocumentFailed(w) PROVE TypeOK'
  BY <1>8 DEF MarkDocumentFailed, Idle, line
<1>9. ASSUME NEW w \in Workers, Crash(w) PROVE TypeOK'
  BY <1>9 DEF Crash, Fault, Idle, line
<1>10. ASSUME NEW w \in Workers, NEW ok \in BOOLEAN, ProcessReturns(w, ok) PROVE TypeOK'
  BY <1>10 DEF ProcessReturns, line
<1>11. CASE UNCHANGED vars
  BY <1>11 DEF vars
<1> QED
  BY <1>1, <1>2, <1>3, <1>4, <1>5, <1>6, <1>7, <1>8, <1>9, <1>10, <1>11 DEF Next

\* The type invariant of the jobs table and the worker loop.
THEOREM TypeCorrect == Spec => []TypeOK
<1>1. Init => TypeOK
  BY DEF Init, TypeOK, JobsTypeOK, WorkersTypeOK, NoRow, Idle, JobRow, JobState, Active, Settled, WorkerState, Phase
<1> QED
  BY <1>1, TypeOKStep, PTL DEF Spec

-----------------------------------------------------------------------------
(***************************************************************************)
(* The retry budget.  FailJob trusts the worker's copy of attempts, so the *)
(* budget claim needs the copies to be related to the row.                 *)
(***************************************************************************)
BudgetInv == CopiesAreOld /\ FailedSpentBudget

\* BudgetInv is inductive: leases count attempts up in the row and in the copy,
\* and FailJob fails a row only from a copy that has reached the budget.
LEMMA BudgetStep == TypeOK /\ BudgetInv /\ [Next]_vars => BudgetInv'
<1> SUFFICES ASSUME TypeOK, BudgetInv, [Next]_vars PROVE BudgetInv'
  OBVIOUS
<1> USE DEF TypeOK, JobsTypeOK, WorkersTypeOK, JobRow, WorkerState,
            BudgetInv, CopiesAreOld, FailedSpentBudget
<1>1. ASSUME NEW j \in Jobs, Enqueue(j) PROVE BudgetInv'
  <2>1. \A w \in Workers : workers[w].phase # "idle" => workers[w].job # j
    BY <1>1 DEF Enqueue
  <2> QED
    BY <1>1, <2>1 DEF Enqueue
<1>2. ASSUME NEW j \in Jobs, BackoffEnds(j) \/ OrphanLapses(j) \/ LeaseOutlived(j)
      PROVE  BudgetInv'
  BY <1>2 DEF BackoffEnds, OrphanLapses, LeaseOutlived
<1>3. ASSUME NEW w \in Workers, LeaseNextJob(w) PROVE BudgetInv'
  BY <1>3 DEF LeaseNextJob
<1>4. ASSUME NEW w \in Workers, CompleteJob(w) PROVE BudgetInv'
  BY <1>4, BusyWorkerHasJob DEF CompleteJob, Release, Idle
<1>5. ASSUME NEW w \in Workers, FailJob(w) PROVE BudgetInv'
  BY <1>5, BusyWorkerHasJob DEF FailJob, Release, Terminal, Idle
<1>6. ASSUME NEW w \in Workers, MarkDocumentFailed(w) \/ Crash(w) PROVE BudgetInv'
  BY <1>6 DEF MarkDocumentFailed, Crash, Idle
<1>7. ASSUME NEW w \in Workers, NEW ok \in BOOLEAN, ProcessReturns(w, ok) PROVE BudgetInv'
  BY <1>7 DEF ProcessReturns
<1>8. CASE UNCHANGED vars
  BY <1>8 DEF vars
<1> QED
  BY <1>1, <1>2, <1>3, <1>4, <1>5, <1>6, <1>7, <1>8 DEF Next

\* CopiesAreOld and FailedSpentBudget hold for every budget and any faults: a
\* job is failed only after max_attempts leases of its row.
THEOREM BudgetSpent == Spec => [](CopiesAreOld /\ FailedSpentBudget)
<1>1. Init => BudgetInv
  BY DEF Init, BudgetInv, CopiesAreOld, FailedSpentBudget, NoRow, Idle
<1>2. BudgetInv => CopiesAreOld /\ FailedSpentBudget
  BY DEF BudgetInv
<1> QED
  BY <1>1, <1>2, BudgetStep, TypeCorrect, PTL DEF Spec

-----------------------------------------------------------------------------
(***************************************************************************)
(* Settled rows stay as they are, and the refinement of DurableTasks.      *)
(***************************************************************************)
\* No step moves a settled row: CompleteJob and FailJob match leased rows only,
\* and LeaseNextJob active ones.
LEMMA SettledStep ==
  ASSUME TypeOK, [Next]_vars, NEW j \in Jobs, jobs[j].state \in Settled
  PROVE  jobs'[j] = jobs[j]
<1> USE DEF TypeOK, JobsTypeOK, Settled
<1>1. ASSUME NEW i \in Jobs, Enqueue(i) PROVE jobs'[j] = jobs[j]
  BY <1>1 DEF Enqueue
<1>2. ASSUME NEW i \in Jobs, BackoffEnds(i) \/ OrphanLapses(i) \/ LeaseOutlived(i)
      PROVE  jobs'[j] = jobs[j]
  BY <1>2 DEF BackoffEnds, OrphanLapses, LeaseOutlived
<1>3. ASSUME NEW w \in Workers, LeaseNextJob(w) PROVE jobs'[j] = jobs[j]
  BY <1>3 DEF LeaseNextJob, NextJob, Leasable
<1>4. ASSUME NEW w \in Workers, CompleteJob(w) PROVE jobs'[j] = jobs[j]
  BY <1>4 DEF CompleteJob, Releasable, Release
<1>5. ASSUME NEW w \in Workers, FailJob(w) PROVE jobs'[j] = jobs[j]
  BY <1>5 DEF FailJob, Releasable, Release
<1>6. ASSUME NEW w \in Workers, MarkDocumentFailed(w) \/ Crash(w) PROVE jobs'[j] = jobs[j]
  BY <1>6 DEF MarkDocumentFailed, Crash
<1>7. ASSUME NEW w \in Workers, NEW ok \in BOOLEAN, ProcessReturns(w, ok)
      PROVE  jobs'[j] = jobs[j]
  BY <1>7 DEF ProcessReturns
<1>8. CASE UNCHANGED vars
  BY <1>8 DEF vars
<1> QED
  BY <1>1, <1>2, <1>3, <1>4, <1>5, <1>6, <1>7, <1>8 DEF Next

\* TerminalIsFinal: a completed or failed row never changes again, although no
\* update of the table checks which worker makes it.
THEOREM SettledForEver == Spec => TerminalIsFinal
<1>1. TypeOK /\ [Next]_vars => [\A j \in Jobs : jobs[j].state \in Settled => jobs'[j] = jobs[j]]_vars
  BY SettledStep
<1> QED
  BY <1>1, TypeCorrect, PTL DEF Spec, TerminalIsFinal

\* Writing one row changes one task.
LEMMA RowWrite ==
  ASSUME TypeOK, NEW j \in Jobs, NEW r, jobs' = [jobs EXCEPT ![j] = r]
  PROVE  /\ taskStatus' = [taskStatus EXCEPT ![j] = TaskStatus(r.state)]
         /\ taskRuns' = [taskRuns EXCEPT ![j] = r.attempts]
         /\ taskStatus[j] = TaskStatus(jobs[j].state)
         /\ taskRuns[j] = jobs[j].attempts
  BY DEF TypeOK, JobsTypeOK, taskStatus, taskRuns

\* Writing a row without changing its task's status or runs changes no task.
LEMMA SameTask ==
  ASSUME NEW j \in Jobs
  PROVE  /\ [taskStatus EXCEPT ![j] = taskStatus[j]] = taskStatus
         /\ [taskRuns EXCEPT ![j] = taskRuns[j]] = taskRuns
  BY DEF taskStatus, taskRuns

\* The task status that each state of a job stands for.
LEMMA StatusOf ==
  /\ \A s \in Active : TaskStatus(s) = "pending"
  /\ TaskStatus("completed") = "done" /\ TaskStatus("failed") = "dead"
  /\ TaskStatus("absent") = "absent"
  BY DEF TaskStatus, Active

\* Every step of the queue is a step of DurableTasks or leaves it unchanged.
LEMMA RefinementStep == TypeOK /\ BudgetInv /\ [Next]_vars => [DT!Next]_(DT!vars)
<1> SUFFICES ASSUME TypeOK, BudgetInv, [Next]_vars PROVE [DT!Next]_(DT!vars)
  OBVIOUS
<1>1. ASSUME NEW j \in Jobs, Enqueue(j) PROVE DT!Submit(j)
  <2>1. jobs[j].state = "absent" /\ jobs[j].attempts = 0
    BY <1>1 DEF Enqueue, TypeOK, JobsTypeOK
  <2> DEFINE r == [state |-> "queued", attempts |-> 0, leasedBy |-> NoWorker]
  <2>2. jobs' = [jobs EXCEPT ![j] = r]
    BY <1>1 DEF Enqueue
  <2>3. /\ taskStatus' = [taskStatus EXCEPT ![j] = TaskStatus(r.state)]
        /\ taskRuns' = [taskRuns EXCEPT ![j] = r.attempts]
        /\ taskStatus[j] = "absent" /\ taskRuns[j] = 0
    BY <2>1, <2>2, RowWrite, StatusOf
  <2> QED
    BY <2>1, <2>3, SameTask, StatusOf DEF Active, DT!Submit
<1>2. ASSUME UNCHANGED jobs PROVE UNCHANGED DT!vars
  BY <1>2 DEF taskStatus, taskRuns, DT!vars
<1>3. ASSUME NEW w \in Workers, LeaseNextJob(w) PROVE \E j \in Jobs : DT!HandOut(j)
  <2> DEFINE r(j) == [state |-> "leased", attempts |-> jobs[j].attempts + 1, leasedBy |-> w]
  <2>1. PICK j \in Jobs : jobs[j].state \in Active /\ jobs' = [jobs EXCEPT ![j] = r(j)]
    BY <1>3 DEF LeaseNextJob, NextJob, Leasable, Active
  <2>2. /\ taskStatus' = [taskStatus EXCEPT ![j] = TaskStatus(r(j).state)]
        /\ taskRuns' = [taskRuns EXCEPT ![j] = r(j).attempts]
        /\ taskStatus[j] = "pending" /\ taskRuns[j] = jobs[j].attempts
    BY <2>1, RowWrite, StatusOf
  <2>3. DT!HandOut(j)
    BY <2>2, SameTask, StatusOf DEF Active, DT!HandOut
  <2> QED
    BY <2>3
<1>4. ASSUME NEW w \in Workers, CompleteJob(w)
      PROVE  [DT!Next]_(DT!vars)
  <2> DEFINE j == workers[w].job
  <2>1. j \in Jobs /\ jobs[j].attempts > 0
    BY <1>4, BusyWorkerHasJob DEF CompleteJob, BudgetInv, CopiesAreOld,
         TypeOK, JobsTypeOK, WorkersTypeOK, JobRow, WorkerState
  <2>2. CASE Releasable(j)
    <3>1. DT!Finish(j)
      BY <1>4, <2>1, <2>2, RowWrite, SameTask, StatusOf
         DEF CompleteJob, Releasable, Release, Active, DT!Finish
    <3> QED
      BY <2>1, <3>1 DEF DT!Next
  <2>3. CASE ~Releasable(j)
    BY <1>2, <1>4, <2>3 DEF CompleteJob
  <2> QED
    BY <2>2, <2>3
<1>5. ASSUME NEW w \in Workers, FailJob(w)
      PROVE  [DT!Next]_(DT!vars)
  <2> DEFINE j == workers[w].job
  <2>1. j \in Jobs /\ (Terminal(w) => jobs[j].attempts >= MaxAttempts)
    BY <1>5, BusyWorkerHasJob DEF FailJob, Terminal, BudgetInv, CopiesAreOld,
         TypeOK, JobsTypeOK, WorkersTypeOK, JobRow, WorkerState
  <2>2. CASE Releasable(j) /\ Terminal(w)
    <3>1. DT!GiveUp(j)
      BY <1>5, <2>1, <2>2, RowWrite, SameTask, StatusOf
         DEF FailJob, Releasable, Release, Active, DT!GiveUp
    <3> QED
      BY <2>1, <3>1 DEF DT!Next
  <2>3. CASE Releasable(j) /\ ~Terminal(w)
    BY <1>5, <2>1, <2>3, RowWrite, SameTask, StatusOf
       DEF FailJob, Releasable, Release, Active, DT!vars
  <2>4. CASE ~Releasable(j)
    BY <1>2, <1>5, <2>4 DEF FailJob
  <2> QED
    BY <2>2, <2>3, <2>4
<1>6. ASSUME NEW j \in Jobs, BackoffEnds(j) \/ OrphanLapses(j) \/ LeaseOutlived(j)
      PROVE  UNCHANGED jobs
  BY <1>6 DEF BackoffEnds, OrphanLapses, LeaseOutlived
<1>7. ASSUME NEW w \in Workers, MarkDocumentFailed(w) \/ Crash(w) PROVE UNCHANGED jobs
  BY <1>7 DEF MarkDocumentFailed, Crash
<1>8. ASSUME NEW w \in Workers, NEW ok \in BOOLEAN, ProcessReturns(w, ok)
      PROVE  UNCHANGED jobs
  BY <1>8 DEF ProcessReturns
<1>9. CASE UNCHANGED vars
  BY <1>2, <1>9 DEF vars
<1>10. ASSUME NEW j \in Jobs, DT!Submit(j) \/ DT!HandOut(j) PROVE DT!Next
  BY <1>10 DEF DT!Next
<1> QED
  BY <1>1, <1>2, <1>3, <1>4, <1>5, <1>6, <1>7, <1>8, <1>9, <1>10 DEF Next

\* The queue implements DurableTasks: tasks settle once, are finished only after
\* a hand-out, and are given up only when their budget is spent.
THEOREM QueueImplementsDurableTasks == Spec => ImplementsDurableTasks
<1>1. Init => DT!Init
  BY DEF Init, DT!Init, taskStatus, taskRuns, TaskStatus, NoRow, Active
<1>2. Init => BudgetInv
  BY DEF Init, BudgetInv, CopiesAreOld, FailedSpentBudget, NoRow, Idle
<1> QED
  BY <1>1, <1>2, BudgetStep, RefinementStep, TypeCorrect, PTL
     DEF Spec, ImplementsDurableTasks, DT!Spec

-----------------------------------------------------------------------------
(***************************************************************************)
(* Leases that outlast the work: no premature lapse among the faults.      *)
(***************************************************************************)
LeaseOutlastsWork == "lapse" \notin Faults

\* LeaseIsExclusive is inductive when no lease is outlived: a job is leased again
\* only after its lease lapsed, and then nobody holds it.
LEMMA ExclusiveStep ==
  ASSUME LeaseOutlastsWork
  PROVE  TypeOK /\ LeaseIsExclusive /\ [Next]_vars => LeaseIsExclusive'
<1> SUFFICES ASSUME TypeOK, LeaseIsExclusive, [Next]_vars PROVE LeaseIsExclusive'
  OBVIOUS
<1> USE DEF TypeOK, JobsTypeOK, WorkersTypeOK, JobRow, WorkerState, LeaseIsExclusive, Holds
<1>1. ASSUME NEW j \in Jobs, Enqueue(j) PROVE LeaseIsExclusive'
  BY <1>1 DEF Enqueue
<1>2. ASSUME NEW j \in Jobs, BackoffEnds(j) PROVE LeaseIsExclusive'
  BY <1>2 DEF BackoffEnds
<1>3. ASSUME NEW j \in Jobs, OrphanLapses(j) PROVE LeaseIsExclusive'
  BY <1>3 DEF OrphanLapses, Held
<1>4. ASSUME NEW j \in Jobs, LeaseOutlived(j) PROVE LeaseIsExclusive'
  BY <1>4, LeaseOutlastsWork DEF LeaseOutlived, Fault, LeaseOutlastsWork
<1>5. ASSUME NEW w \in Workers, LeaseNextJob(w) PROVE LeaseIsExclusive'
  BY <1>5 DEF LeaseNextJob, NextJob, Leasable
<1>6. ASSUME NEW w \in Workers, CompleteJob(w) PROVE LeaseIsExclusive'
  BY <1>6, BusyWorkerHasJob DEF CompleteJob, Release, Idle
<1>7. ASSUME NEW w \in Workers, FailJob(w) PROVE LeaseIsExclusive'
  BY <1>7, BusyWorkerHasJob DEF FailJob, Release, Idle
<1>8. ASSUME NEW w \in Workers, MarkDocumentFailed(w) \/ Crash(w) PROVE LeaseIsExclusive'
  BY <1>8 DEF MarkDocumentFailed, Crash, Idle
<1>9. ASSUME NEW w \in Workers, NEW ok \in BOOLEAN, ProcessReturns(w, ok)
      PROVE  LeaseIsExclusive'
  BY <1>9 DEF ProcessReturns
<1>10. CASE UNCHANGED vars
  BY <1>10 DEF vars
<1> QED
  BY <1>1, <1>2, <1>3, <1>4, <1>5, <1>6, <1>7, <1>8, <1>9, <1>10 DEF Next

\* LeaseIsExclusive: if no lease is outlived, at most one worker acts on a job,
\* the one its row names, whatever crashes.
THEOREM ExclusiveLease == ASSUME LeaseOutlastsWork PROVE Spec => []LeaseIsExclusive
<1>1. Init => LeaseIsExclusive
  BY DEF Init, LeaseIsExclusive, Holds, Idle
<1> QED
  BY <1>1, ExclusiveStep, TypeCorrect, PTL DEF Spec

(***************************************************************************)
(* With exclusive leases the attempts can be counted.  A job that nobody   *)
(* works on although it is leased has had a fault the others have not.     *)
(***************************************************************************)
OrphanHadFault ==
  \A j \in Jobs : jobs[j].state = "leased" /\ ~Held(j) => jobs[j].attempts < MaxAttempts + faults

CountInv == RetryLeavesBudget /\ AttemptsBounded /\ OrphanHadFault

\* CountInv is inductive when no lease is outlived: FailJob puts a job back only
\* below the budget, and only a crash leaves a lease without its holder.
LEMMA CountStep ==
  TypeOK /\ LeaseIsExclusive /\ CountInv /\ [Next]_vars => CountInv'
<1> SUFFICES ASSUME TypeOK, LeaseIsExclusive, CountInv, [Next]_vars PROVE CountInv'
  OBVIOUS
<1> USE DEF TypeOK, JobsTypeOK, WorkersTypeOK, JobRow, WorkerState,
            CountInv, RetryLeavesBudget, AttemptsBounded, OrphanHadFault, Held, Holds
<1>1. ASSUME NEW j \in Jobs, Enqueue(j) PROVE CountInv'
  BY <1>1 DEF Enqueue
<1>2. ASSUME NEW j \in Jobs, BackoffEnds(j) \/ OrphanLapses(j) PROVE CountInv'
  BY <1>2 DEF BackoffEnds, OrphanLapses
<1>3. ASSUME NEW j \in Jobs, LeaseOutlived(j) PROVE CountInv'
  BY <1>3 DEF LeaseOutlived, Fault
<1>4. ASSUME NEW w \in Workers, LeaseNextJob(w) PROVE CountInv'
  <2>1. PICK j \in Jobs :
          /\ Leasable(j)
          /\ jobs' = [jobs EXCEPT ![j] = [state |-> "leased", attempts |-> jobs[j].attempts + 1,
                                          leasedBy |-> w]]
          /\ workers' = [workers EXCEPT ![w] = [phase |-> "process", job |-> j,
                                                attempts |-> jobs[j].attempts + 1]]
    BY <1>4 DEF LeaseNextJob, NextJob
  <2>2. jobs[j].attempts < MaxAttempts + faults
    BY <2>1 DEF Leasable, LeaseIsExclusive
  <2>3. faults' = faults /\ workers[w].phase = "idle"
    BY <1>4 DEF LeaseNextJob
  <2> QED
    BY <2>1, <2>2, <2>3
<1>5. ASSUME NEW w \in Workers, CompleteJob(w) PROVE CountInv'
  <2> DEFINE j == workers[w].job
  <2>1. j \in Jobs /\ Releasable(j) /\ jobs[j].attempts = workers[w].attempts
    BY <1>5, BusyWorkerHasJob DEF CompleteJob, Releasable, LeaseIsExclusive
  <2>2. \E s \in {"completed", "failed", "retryable"} :
          /\ jobs' = [jobs EXCEPT ![j] = [state |-> s, attempts |-> jobs[j].attempts,
                                          leasedBy |-> NoWorker]]
          /\ s = "retryable" => jobs[j].attempts < MaxAttempts
    BY <1>5, <2>1 DEF CompleteJob, Release, Terminal
  <2>3. faults' = faults /\ \A i \in Jobs \ {j} : Held(i) => Held(i)'
    BY <1>5 DEF CompleteJob
  <2> QED
    BY <2>1, <2>2, <2>3
<1>6. ASSUME NEW w \in Workers, FailJob(w) PROVE CountInv'
  <2> DEFINE j == workers[w].job
  <2>1. j \in Jobs /\ Releasable(j) /\ jobs[j].attempts = workers[w].attempts
    BY <1>6, BusyWorkerHasJob DEF FailJob, Releasable, LeaseIsExclusive
  <2>2. \E s \in {"completed", "failed", "retryable"} :
          /\ jobs' = [jobs EXCEPT ![j] = [state |-> s, attempts |-> jobs[j].attempts,
                                          leasedBy |-> NoWorker]]
          /\ s = "retryable" => jobs[j].attempts < MaxAttempts
    BY <1>6, <2>1 DEF FailJob, Release, Terminal
  <2>3. faults' = faults /\ \A i \in Jobs \ {j} : Held(i) => Held(i)'
    BY <1>6 DEF FailJob
  <2> QED
    BY <2>1, <2>2, <2>3
<1>7. ASSUME NEW w \in Workers, MarkDocumentFailed(w) PROVE CountInv'
  BY <1>7 DEF MarkDocumentFailed, Idle
<1>8. ASSUME NEW w \in Workers, Crash(w) PROVE CountInv'
  BY <1>8 DEF Crash, Fault, Idle
<1>9. ASSUME NEW w \in Workers, NEW ok \in BOOLEAN, ProcessReturns(w, ok) PROVE CountInv'
  BY <1>9 DEF ProcessReturns
<1>10. CASE UNCHANGED vars
  BY <1>10 DEF vars
<1> QED
  BY <1>1, <1>2, <1>3, <1>4, <1>5, <1>6, <1>7, <1>8, <1>9, <1>10 DEF Next

\* RetryLeavesBudget and AttemptsBounded: if no lease is outlived, a job goes
\* back only with an attempt left, and is leased at most max_attempts times plus
\* once per crash.
THEOREM LeasesBounded ==
  ASSUME LeaseOutlastsWork PROVE Spec => [](RetryLeavesBudget /\ AttemptsBounded)
<1>1. Init => CountInv
  BY DEF Init, CountInv, RetryLeavesBudget, AttemptsBounded, OrphanHadFault, NoRow
<1>2. CountInv => RetryLeavesBudget /\ AttemptsBounded
  BY DEF CountInv
<1> QED
  BY <1>1, <1>2, CountStep, ExclusiveLease, TypeCorrect, PTL DEF Spec

-----------------------------------------------------------------------------
(***************************************************************************)
(* Leases, also when leases are outlived and several workers act on a job. *)
(* A lease needs a chance: the job is new, FailJob put it back, or its     *)
(* lease is lost.  FailJob puts a job back only for a worker leased below  *)
(* the budget, and there is one such worker for each of the first leases.  *)
(* A lease is lost only by a fault.                                        *)
(***************************************************************************)
\* The workers that may still put the job back.
Retriers(j) ==
  {w \in Workers : /\ workers[w].job = j /\ workers[w].phase \in {"process", "fail"}
                   /\ workers[w].attempts < MaxAttempts}

\* The leases below the budget that are still to come.
LeasesBelow(j) ==
  IF jobs[j].attempts < MaxAttempts - 1 THEN MaxAttempts - 1 - jobs[j].attempts ELSE 0

\* The job can be leased, now or once its row is there, its backoff ends or its
\* lapse is noticed.
Available(j) ==
  \/ jobs[j].state \in {"absent", "queued", "retryable"}
  \/ jobs[j].state = "leased" /\ (j \in lapsed \/ ~Held(j))

Chance(j) == IF Available(j) THEN 1 ELSE 0

Spent(j) == jobs[j].attempts + LeasesBelow(j)

LeasesCounted(j) ==
  /\ IsFiniteSet(Retriers(j))
  /\ Spent(j) + Cardinality(Retriers(j)) + Chance(j) <= MaxAttempts + faults

LeaseBudget == \A j \in Jobs : LeasesCounted(j)

\* One element more, or less.
LEMMA OneMore ==
  ASSUME NEW S, IsFiniteSet(S), NEW x, NEW T, T = S \cup {x}
  PROVE  IsFiniteSet(T) /\ Cardinality(T) \in Nat /\ Cardinality(T) <= Cardinality(S) + 1
<1>1. Cardinality(S) \in Nat
  BY FS_CardinalityType
<1>2. IsFiniteSet(T) /\ Cardinality(T) = IF x \in S THEN Cardinality(S) ELSE Cardinality(S) + 1
  BY FS_AddElement
<1> QED
  BY <1>1, <1>2

LEMMA OneLess ==
  ASSUME NEW S, IsFiniteSet(S), NEW x, NEW T, T = S \ {x}
  PROVE  /\ IsFiniteSet(T) /\ Cardinality(T) \in Nat /\ Cardinality(T) <= Cardinality(S)
         /\ x \in S => Cardinality(T) + 1 = Cardinality(S)
<1>1. Cardinality(S) \in Nat
  BY FS_CardinalityType
<1>2. IsFiniteSet(T) /\ Cardinality(T) = IF x \in S THEN Cardinality(S) - 1 ELSE Cardinality(S)
  BY FS_RemoveElement
<1>3. Cardinality(T) \in Nat
  BY <1>2, FS_CardinalityType
<1> QED
  BY <1>1, <1>2, <1>3

\* What a step may do to the terms of the sum: spent leases, retriers and chance.
LeaseCountStep(j) ==
  \/ /\ Spent(j)' = Spent(j) /\ Retriers(j)' = Retriers(j)          \* nobody starts or stops
     /\ Chance(j)' <= Chance(j) + (faults' - faults) /\ faults <= faults'
  \/ /\ Spent(j)' = Spent(j) /\ faults' = faults                    \* leased below the budget
     /\ \E w : Retriers(j)' = Retriers(j) \cup {w}
     /\ Chance(j) = 1 /\ Chance(j)' = 0
  \/ /\ Spent(j)' = Spent(j) + 1 /\ faults' = faults                \* leased beyond it
     /\ Retriers(j)' = Retriers(j)
     /\ Chance(j) = 1 /\ Chance(j)' = 0
  \/ /\ Spent(j)' = Spent(j) /\ faults' = faults                    \* failed, put back
     /\ \E w \in Retriers(j) : Retriers(j)' = Retriers(j) \ {w}
  \/ /\ Spent(j)' = Spent(j)                                        \* gone: done or crashed
     /\ \E w : Retriers(j)' = Retriers(j) \ {w}
     /\ Chance(j)' <= Chance(j) + (faults' - faults) /\ faults <= faults'

LEMMA LeaseCountStepKeeps ==
  ASSUME NEW j \in Jobs, LeasesCounted(j), LeaseCountStep(j),
         faults \in Nat, faults' \in Nat, Spent(j) \in Nat
  PROVE  LeasesCounted(j)'
<1>1. /\ Chance(j) \in {0, 1} /\ Chance(j)' \in {0, 1}
      /\ IsFiniteSet(Retriers(j)) /\ Cardinality(Retriers(j)) \in Nat
      /\ Spent(j) + Cardinality(Retriers(j)) + Chance(j) <= MaxAttempts + faults
  BY FS_CardinalityType DEF LeasesCounted, Chance
<1> SUFFICES /\ IsFiniteSet(Retriers(j)')
             /\ Spent(j)' + Cardinality(Retriers(j)') + Chance(j)' <= MaxAttempts + faults'
  BY DEF LeasesCounted
<1>2. CASE /\ Spent(j)' = Spent(j) /\ Retriers(j)' = Retriers(j)
           /\ Chance(j)' <= Chance(j) + (faults' - faults) /\ faults <= faults'
  BY <1>1, <1>2
<1>3. CASE /\ Spent(j)' = Spent(j) /\ faults' = faults
           /\ \E w : Retriers(j)' = Retriers(j) \cup {w}
           /\ Chance(j) = 1 /\ Chance(j)' = 0
  <2>1. /\ IsFiniteSet(Retriers(j)') /\ Cardinality(Retriers(j)') \in Nat
        /\ Cardinality(Retriers(j)') <= Cardinality(Retriers(j)) + 1
    BY <1>1, <1>3, OneMore
  <2> QED
    BY <1>1, <1>3, <2>1
<1>4. CASE /\ Spent(j)' = Spent(j) + 1 /\ faults' = faults
           /\ Retriers(j)' = Retriers(j)
           /\ Chance(j) = 1 /\ Chance(j)' = 0
  BY <1>1, <1>4
<1>5. CASE /\ Spent(j)' = Spent(j) /\ faults' = faults
           /\ \E w \in Retriers(j) : Retriers(j)' = Retriers(j) \ {w}
  <2>1. /\ IsFiniteSet(Retriers(j)') /\ Cardinality(Retriers(j)') \in Nat
        /\ Cardinality(Retriers(j)') + 1 = Cardinality(Retriers(j))
    BY <1>1, <1>5, OneLess
  <2> QED
    BY <1>1, <1>5, <2>1
<1>6. CASE /\ Spent(j)' = Spent(j)
           /\ \E w : Retriers(j)' = Retriers(j) \ {w}
           /\ Chance(j)' <= Chance(j) + (faults' - faults) /\ faults <= faults'
  <2>1. /\ IsFiniteSet(Retriers(j)') /\ Cardinality(Retriers(j)') \in Nat
        /\ Cardinality(Retriers(j)') <= Cardinality(Retriers(j))
    BY <1>1, <1>6, OneLess
  <2> QED
    BY <1>1, <1>6, <2>1
<1> QED
  BY <1>2, <1>3, <1>4, <1>5, <1>6 DEF LeaseCountStep

\* The row of another job: nothing counted for this one changes.
LEMMA OtherJobCount ==
  ASSUME TypeOK, NEW j \in Jobs, NEW w \in Workers, workers[w].job # j, workers'[w].job # j,
         \A v \in Workers \ {w} : workers'[v] = workers[v],
         jobs'[j] = jobs[j], j \in lapsed' <=> j \in lapsed, faults' = faults \/ faults' = faults + 1
  PROVE  LeaseCountStep(j)
<1>1. Retriers(j)' = Retriers(j) /\ Spent(j)' = Spent(j)
  BY DEF Retriers, Spent, LeasesBelow
<1>2. \A v \in Workers : Holds(v, j)' <=> Holds(v, j)
  BY DEF Holds
<1>3. Chance(j)' = Chance(j) /\ Chance(j) \in {0, 1} /\ faults \in Nat
  BY <1>2 DEF Chance, Available, Held, TypeOK, WorkersTypeOK
<1> QED
  BY <1>1, <1>3 DEF LeaseCountStep

LEMMA LeaseCount ==
  ASSUME TypeOK, NEW j \in Jobs, NEW w \in Workers, LeaseNextJob(w)
  PROVE  LeaseCountStep(j)
<1> USE DEF TypeOK, JobsTypeOK, WorkersTypeOK, JobRow, WorkerState
<1>1. PICK i \in Jobs :
        /\ NextJob(i)
        /\ jobs' = [jobs EXCEPT ![i] = [state |-> "leased", attempts |-> jobs[i].attempts + 1,
                                        leasedBy |-> w]]
        /\ lapsed' = lapsed \ {i}
        /\ workers' = [workers EXCEPT ![w] =
                         [phase |-> "process", job |-> i, attempts |-> jobs[i].attempts + 1]]
  BY DEF LeaseNextJob
<1>2. faults' = faults /\ workers[w].job # j
  BY DEF LeaseNextJob
<1>3. CASE i # j
  BY <1>1, <1>2, <1>3, OtherJobCount
<1>4. CASE i = j
  <2>1. Chance(j) = 1
    BY <1>1, <1>4 DEF Chance, Available, NextJob, Leasable
  <2>2. jobs'[j].state = "leased" /\ j \notin lapsed' /\ Holds(w, j)'
    BY <1>1, <1>4 DEF Holds
  <2>3. Chance(j)' = 0
    BY <2>2 DEF Chance, Available, Held
  <2>4. jobs'[j].attempts = jobs[j].attempts + 1 /\ jobs[j].attempts \in Nat
    BY <1>1, <1>4
  <2>5. CASE jobs[j].attempts + 1 < MaxAttempts
    <3>1. Retriers(j)' = Retriers(j) \cup {w}
      BY <1>1, <1>2, <1>4, <2>5 DEF Retriers
    <3>2. Spent(j)' = Spent(j)
      BY <2>4, <2>5 DEF Spent, LeasesBelow
    <3> QED
      BY <1>2, <2>1, <2>3, <3>1, <3>2 DEF LeaseCountStep
  <2>6. CASE ~(jobs[j].attempts + 1 < MaxAttempts)
    <3>1. Retriers(j)' = Retriers(j)
      BY <1>1, <1>2, <1>4, <2>6 DEF Retriers
    <3>2. Spent(j)' = Spent(j) + 1
      BY <2>4, <2>6 DEF Spent, LeasesBelow
    <3> QED
      BY <1>2, <2>1, <2>3, <3>1, <3>2 DEF LeaseCountStep
  <2> QED
    BY <2>5, <2>6
<1> QED
  BY <1>3, <1>4

LEMMA ReleaseCount ==
  ASSUME TypeOK, NEW j \in Jobs, NEW w \in Workers, CompleteJob(w) \/ FailJob(w)
  PROVE  LeaseCountStep(j)
<1> USE DEF TypeOK, JobsTypeOK, WorkersTypeOK, JobRow, WorkerState
<1>0. /\ workers[w].phase \in {"complete", "fail"} /\ faults' = faults /\ faults \in Nat
      /\ \A v \in Workers \ {w} : workers'[v] = workers[v]
      /\ workers'[w].phase \in {"idle", "mark"} /\ workers'[w].job \in {NoJob, workers[w].job}
      /\ Chance(j) \in {0, 1} /\ Chance(j)' \in {0, 1}
  BY DEF CompleteJob, FailJob, Idle, Chance
<1>1. CASE workers[w].job # j
  <2>1. jobs'[j] = jobs[j] /\ (j \in lapsed' <=> j \in lapsed)
    BY <1>1 DEF CompleteJob, FailJob, Release
  <2> QED
    BY <1>0, <1>1, <2>1, OtherJobCount
<1>2. CASE workers[w].job = j
  <2>1. Spent(j)' = Spent(j)
    BY <1>2 DEF CompleteJob, FailJob, Release, Spent, LeasesBelow
  <2>2. Retriers(j)' = Retriers(j) \ {w}
    BY <1>0 DEF Retriers
  <2>3. CASE FailJob(w) /\ ~Terminal(w)
    <3>1. w \in Retriers(j)
      BY <1>2, <2>3 DEF FailJob, Terminal, Retriers
    <3> QED
      BY <1>0, <2>1, <2>2, <3>1 DEF LeaseCountStep
  <2>4. CASE CompleteJob(w) \/ Terminal(w)
    <3>1. \/ jobs'[j].state \in {"completed", "failed"}
          \/ jobs[j].state # "leased" /\ jobs' = jobs
      BY <1>2, <2>4 DEF CompleteJob, FailJob, Release, Releasable
    <3>2. Chance(j)' <= Chance(j)
      BY <1>0, <3>1 DEF Chance, Available
    <3> QED
      BY <1>0, <2>1, <2>2, <3>2 DEF LeaseCountStep
  <2> QED
    BY <2>3, <2>4
<1> QED
  BY <1>1, <1>2

LEMMA LeaseBudgetStep ==
  ASSUME TypeOK, LeaseBudget, [Next]_vars
  PROVE  LeaseBudget'
<1> SUFFICES ASSUME NEW j \in Jobs PROVE LeasesCounted(j)'
  BY DEF LeaseBudget
<1>0. /\ faults \in Nat /\ Chance(j) \in {0, 1} /\ Chance(j)' \in {0, 1}
      /\ jobs \in [Jobs -> JobRow] /\ workers \in [Workers -> WorkerState]
  BY DEF TypeOK, JobsTypeOK, WorkersTypeOK, Chance
<1>1. ASSUME NEW i \in Jobs, Enqueue(i) PROVE LeaseCountStep(j)
  <2>1. /\ UNCHANGED <<lapsed, workers, faults>> /\ jobs[i].state = "absent" /\ jobs[i].attempts = 0
        /\ jobs' = [jobs EXCEPT ![i] = [state |-> "queued", attempts |-> 0, leasedBy |-> NoWorker]]
    BY <1>1 DEF Enqueue, TypeOK, JobsTypeOK
  <2>2. jobs'[j].attempts = jobs[j].attempts
    BY <1>0, <2>1 DEF JobRow
  <2>3. Retriers(j)' = Retriers(j) /\ Spent(j)' = Spent(j)
    BY <2>1, <2>2 DEF Retriers, Spent, LeasesBelow
  <2>4. Chance(j)' <= Chance(j)
    BY <1>0, <2>1 DEF Chance, Available, Held, Holds, JobRow
  <2> QED
    BY <1>0, <2>1, <2>3, <2>4 DEF LeaseCountStep
<1>2. ASSUME UNCHANGED <<jobs, workers>>,
             \/ faults' = faults + 1
             \/ faults' = faults /\ (j \in lapsed' => j \in lapsed \/ ~Held(j))
      PROVE  LeaseCountStep(j)
  <2>1. Retriers(j)' = Retriers(j) /\ Spent(j)' = Spent(j)
    BY <1>2 DEF Retriers, Spent, LeasesBelow
  <2>2. faults' = faults => Chance(j)' <= Chance(j)
    BY <1>0, <1>2 DEF Chance, Available, Held, Holds
  <2>3. Chance(j)' <= Chance(j) + (faults' - faults) /\ faults <= faults'
    BY <1>0, <1>2, <2>2
  <2> QED
    BY <2>1, <2>3 DEF LeaseCountStep
<1>3. ASSUME NEW i \in Jobs, BackoffEnds(i) \/ OrphanLapses(i) \/ LeaseOutlived(i)
      PROVE  LeaseCountStep(j)
  <2>1. /\ UNCHANGED <<jobs, workers>>
        /\ \/ faults' = faults + 1
           \/ faults' = faults /\ (j \in lapsed' => j \in lapsed \/ ~Held(j))
    BY <1>3 DEF BackoffEnds, OrphanLapses, LeaseOutlived, Fault
  <2> QED
    BY <1>2, <2>1
<1>4. ASSUME NEW w \in Workers, NEW ok \in BOOLEAN, ProcessReturns(w, ok) PROVE LeaseCountStep(j)
  <2>1. /\ UNCHANGED <<jobs, lapsed, faults>> /\ workers[w].phase = "process"
        /\ workers'[w].phase \in {"complete", "fail"}
        /\ workers'[w].job = workers[w].job /\ workers'[w].attempts = workers[w].attempts
        /\ \A v \in Workers \ {w} : workers'[v] = workers[v]
    BY <1>0, <1>4 DEF ProcessReturns, WorkerState
  <2>2. Spent(j)' = Spent(j)
    BY <2>1 DEF Spent, LeasesBelow
  <2>3. \A v \in Workers : Holds(v, j)' <=> Holds(v, j)
    BY <2>1 DEF Holds
  <2>4. Chance(j)' = Chance(j)
    BY <2>1, <2>3 DEF Chance, Available, Held
  <2>5. Retriers(j)' = Retriers(j) \/ Retriers(j)' = Retriers(j) \ {w}
    BY <2>1 DEF Retriers
  <2>6. Chance(j)' <= Chance(j) + (faults' - faults) /\ faults <= faults'
    BY <1>0, <2>1, <2>4
  <2> QED
    BY <2>2, <2>5, <2>6 DEF LeaseCountStep
<1>5. ASSUME NEW w \in Workers, MarkDocumentFailed(w) \/ Crash(w) PROVE LeaseCountStep(j)
  <2>1. /\ UNCHANGED <<jobs, lapsed>> /\ workers' = [workers EXCEPT ![w] = Idle]
        /\ (faults' = faults /\ workers[w].phase = "mark") \/ faults' = faults + 1
    BY <1>5 DEF MarkDocumentFailed, Crash, Fault
  <2>2. Spent(j)' = Spent(j)
    BY <2>1 DEF Spent, LeasesBelow
  <2>3. Retriers(j)' = Retriers(j) \ {w}
    BY <1>0, <2>1 DEF Retriers, Idle
  <2>4. workers[w].phase = "mark" => \A v \in Workers : Holds(v, j)' <=> Holds(v, j)
    BY <1>0, <2>1 DEF Holds, Idle
  <2>5. Chance(j)' <= Chance(j) + (faults' - faults) /\ faults <= faults'
    BY <1>0, <2>1, <2>4 DEF Chance, Available, Held
  <2> QED
    BY <2>2, <2>3, <2>5 DEF LeaseCountStep
<1>6. ASSUME UNCHANGED vars PROVE LeaseCountStep(j)
  BY <1>2, <1>6 DEF vars
<1>7. LeaseCountStep(j)
  BY <1>1, <1>3, <1>4, <1>5, <1>6, LeaseCount, ReleaseCount DEF Next
<1>8. faults' \in Nat
  BY TypeOKStep DEF TypeOK, WorkersTypeOK
<1>9. Spent(j) \in Nat
  BY <1>0 DEF Spent, LeasesBelow, JobRow
<1> QED
  BY <1>0, <1>7, <1>8, <1>9, LeaseCountStepKeeps DEF LeaseBudget

\* AttemptsBounded: a job is leased at most max_attempts times plus once per crash or
\* outlived lease, although the lease query never looks at max_attempts and workers
\* decide from old copies of it.
THEOREM LeasesAlwaysBounded == Spec => []AttemptsBounded
<1>1. Init => LeaseBudget
  <2> SUFFICES ASSUME Init, NEW j \in Jobs PROVE LeasesCounted(j)
    BY DEF LeaseBudget
  <2>1. Retriers(j) = {} /\ faults = 0 /\ Chance(j) = 1
    BY DEF Init, NoRow, Idle, Retriers, Chance, Available
  <2>2. Spent(j) = MaxAttempts - 1
    BY DEF Init, NoRow, Spent, LeasesBelow
  <2> QED
    BY <2>1, <2>2, FS_EmptySet DEF LeasesCounted
<1>2. TypeOK /\ LeaseBudget => AttemptsBounded
  <2> SUFFICES ASSUME TypeOK, LeaseBudget, NEW j \in Jobs
               PROVE  jobs[j].attempts <= MaxAttempts + faults
    BY DEF AttemptsBounded
  <2>1. /\ Spent(j) \in Nat /\ jobs[j].attempts \in Nat /\ faults \in Nat /\ Chance(j) \in Nat
        /\ jobs[j].attempts <= Spent(j)
    BY DEF Spent, LeasesBelow, TypeOK, JobsTypeOK, WorkersTypeOK, JobRow, Chance
  <2>2. /\ Cardinality(Retriers(j)) \in Nat
        /\ Spent(j) + Cardinality(Retriers(j)) + Chance(j) <= MaxAttempts + faults
    BY FS_CardinalityType DEF LeaseBudget, LeasesCounted
  <2> QED
    BY <2>1, <2>2
<1> QED
  BY <1>1, <1>2, LeaseBudgetStep, TypeCorrect, PTL DEF Spec

-----------------------------------------------------------------------------
(***************************************************************************)
(* Order.                                                                  *)
(***************************************************************************)
\* Only a job that waits for its backoff, or is settled, is out of line.
LineInv == \A j \in Jobs : jobs[j].state \in {"queued", "leased"} => j \in due

\* j could be leased, now or when its lapse is noticed, before i is.
MayPass(i, j) ==
  /\ <<i, j>> \notin ahead
  /\ \/ jobs[j].state \in {"queued", "retryable"} /\ j \in due
     \/ jobs[j].state = "leased" /\ (j \in lapsed \/ ~Held(j))

PassChance(i, j) == IF MayPass(i, j) THEN 1 ELSE 0

PassedOK(i, j) ==
  /\ passed[i][j] \in Nat
  /\ passed[i][j] <= 1 + faults
  /\ i # j /\ Leasable(i) => passed[i][j] + PassChance(i, j) <= 1 + faults
  /\ i = j => passed[i][j] = 0

OrderInv ==
  /\ passed \in [Jobs -> [Jobs -> Nat]]
  /\ LineInv
  /\ \A i, j \in Jobs : PassedOK(i, j)

\* How a step treats a job's place: it keeps it, is the one leased, or leaves the line.
LEMMA LineStep ==
  ASSUME TypeOK, LineInv, [Next]_vars
  PROVE  LineInv'
<1> USE DEF TypeOK, JobsTypeOK, WorkersTypeOK, JobRow, WorkerState, LineInv
<1>1. ASSUME NEW j \in Jobs, Enqueue(j) \/ BackoffEnds(j) \/ OrphanLapses(j) \/ LeaseOutlived(j)
      PROVE  LineInv'
  BY <1>1 DEF Enqueue, BackoffEnds, OrphanLapses, LeaseOutlived, Joins, line
<1>2. ASSUME NEW w \in Workers, LeaseNextJob(w) PROVE LineInv'
  BY <1>2 DEF LeaseNextJob, NextJob, Leasable, line
<1>3. ASSUME NEW w \in Workers, CompleteJob(w) \/ FailJob(w) PROVE LineInv'
  <2>1. workers[w].job \in Jobs
    BY <1>3, BusyWorkerHasJob DEF CompleteJob, FailJob
  <2>2. \/ UNCHANGED <<jobs, due>>
        \/ /\ due' = due \ {workers[w].job}
           /\ \E s \in {"completed", "failed", "retryable"} :
                jobs' = [jobs EXCEPT ![workers[w].job] = [state |-> s, attempts |-> jobs[workers[w].job].attempts,
                                                          leasedBy |-> NoWorker]]
    BY <1>3 DEF CompleteJob, FailJob, Release, Leaves, line
  <2> QED
    BY <2>1, <2>2
<1>4. ASSUME NEW w \in Workers, \/ MarkDocumentFailed(w) \/ Crash(w)
                                \/ \E ok \in BOOLEAN : ProcessReturns(w, ok)
      PROVE  LineInv'
  BY <1>4 DEF MarkDocumentFailed, Crash, ProcessReturns, line
<1>5. CASE UNCHANGED vars
  BY <1>5 DEF vars
<1> QED
  BY <1>1, <1>2, <1>3, <1>4, <1>5 DEF Next

\* Only LeaseNextJob counts attempts up.
LEMMA LeasedByLease ==
  ASSUME TypeOK, Next, NEW j \in Jobs
  PROVE  /\ Leased(j) => \E w \in Workers : LeaseNextJob(w) /\ NextJob(j) /\ Holds(w, j)'
                                            /\ jobs'[j].state = "leased" /\ j \notin lapsed'
         /\ ~Leased(j) => jobs'[j].attempts = jobs[j].attempts
<1> USE DEF TypeOK, JobsTypeOK, WorkersTypeOK, JobRow, WorkerState, Leased
<1>1. ASSUME NEW w \in Workers, LeaseNextJob(w)
      PROVE  /\ Leased(j) => /\ NextJob(j) /\ Holds(w, j)'
                             /\ jobs'[j].state = "leased" /\ j \notin lapsed'
             /\ ~Leased(j) => jobs'[j].attempts = jobs[j].attempts
  BY <1>1 DEF LeaseNextJob, Holds
<1>2. ASSUME ~\E w \in Workers : LeaseNextJob(w) PROVE jobs'[j].attempts = jobs[j].attempts
  <2>1. ASSUME NEW i \in Jobs, Enqueue(i) \/ BackoffEnds(i) \/ OrphanLapses(i) \/ LeaseOutlived(i)
        PROVE  jobs'[j].attempts = jobs[j].attempts
    BY <2>1 DEF Enqueue, BackoffEnds, OrphanLapses, LeaseOutlived
  <2>2. ASSUME NEW w \in Workers, CompleteJob(w) \/ FailJob(w) PROVE jobs'[j].attempts = jobs[j].attempts
    BY <2>2 DEF CompleteJob, FailJob, Release
  <2>3. ASSUME NEW w \in Workers, \/ MarkDocumentFailed(w) \/ Crash(w)
                                  \/ \E ok \in BOOLEAN : ProcessReturns(w, ok)
        PROVE  jobs'[j].attempts = jobs[j].attempts
    BY <2>3 DEF MarkDocumentFailed, Crash, ProcessReturns
  <2> QED
    BY <1>2, <2>1, <2>2, <2>3 DEF Next
<1>3. jobs[j].attempts \in Nat
  OBVIOUS
<1> QED
  BY <1>1, <1>2, <1>3

\* A job that is not leased in this step gets in front of a waiting one only by a
\* fault: who joins the line joins behind, and who is put back leaves it first.
LEMMA PassChanceStep ==
  ASSUME TypeOK, LineInv, Next, NEW i \in Jobs, NEW j \in Jobs, i # j, Leasable(i), Leasable(i)'
  PROVE  PassChance(i, j)' <= PassChance(i, j) + (faults' - faults) \/ Leased(i) \/ Leased(j)
<1> USE DEF TypeOK, JobsTypeOK, WorkersTypeOK, JobRow, WorkerState
<1> SUFFICES ASSUME ~Leased(i), ~Leased(j)
             PROVE  PassChance(i, j)' <= PassChance(i, j) + (faults' - faults)
  OBVIOUS
<1>0. /\ PassChance(i, j) \in {0, 1} /\ PassChance(i, j)' \in {0, 1} /\ faults \in Nat
      /\ i \in due
  BY DEF PassChance, Leasable, LineInv
<1>1. ASSUME faults' = faults + 1 PROVE PassChance(i, j)' <= PassChance(i, j) + (faults' - faults)
  BY <1>0, <1>1
<1>2. ASSUME faults' = faults, MayPass(i, j)' => MayPass(i, j)
      PROVE  PassChance(i, j)' <= PassChance(i, j) + (faults' - faults)
  BY <1>0, <1>2 DEF PassChance
<1>3. ASSUME NEW k \in Jobs, Enqueue(k) \/ BackoffEnds(k)
      PROVE  faults' = faults /\ (MayPass(i, j)' => MayPass(i, j))
  <2>1. /\ ahead' = ahead \cup {<<m, k>> : m \in due \ {k}} /\ due' = due \cup {k}
        /\ UNCHANGED <<lapsed, workers, faults>>
    BY <1>3 DEF Enqueue, BackoffEnds, Joins
  <2>2. CASE k = j
    BY <1>0, <2>1, <2>2 DEF MayPass
  <2>3. CASE k # j
    <3>1. jobs'[j] = jobs[j]
      BY <1>3, <2>3 DEF Enqueue, BackoffEnds
    <3> QED
      BY <2>1, <2>3, <3>1 DEF MayPass, Held, Holds
  <2> QED
    BY <2>1, <2>2, <2>3
<1>4. ASSUME NEW k \in Jobs, OrphanLapses(k)
      PROVE  faults' = faults /\ (MayPass(i, j)' => MayPass(i, j))
  BY <1>4 DEF OrphanLapses, line, MayPass, Held, Holds
<1>5. ASSUME NEW k \in Jobs, LeaseOutlived(k) PROVE faults' = faults + 1
  BY <1>5 DEF LeaseOutlived, Fault
<1>6. ASSUME NEW w \in Workers, LeaseNextJob(w)
      PROVE  faults' = faults /\ (MayPass(i, j)' => MayPass(i, j))
  <2>1. PICK k \in Jobs :
          /\ jobs' = [jobs EXCEPT ![k] = [state |-> "leased", attempts |-> jobs[k].attempts + 1,
                                          leasedBy |-> w]]
          /\ lapsed' = lapsed \ {k}
          /\ workers' = [workers EXCEPT ![w] =
                           [phase |-> "process", job |-> k, attempts |-> jobs[k].attempts + 1]]
    BY <1>6 DEF LeaseNextJob
  <2>2. UNCHANGED <<due, ahead, faults>> /\ workers[w].phase = "idle"
    BY <1>6 DEF LeaseNextJob, line
  <2>3. k # j
    BY <2>1 DEF Leased
  <2>4. jobs'[j] = jobs[j] /\ \A v \in Workers : Holds(v, j)' <=> Holds(v, j)
    BY <2>1, <2>2, <2>3 DEF Holds
  <2> QED
    BY <2>1, <2>2, <2>3, <2>4 DEF MayPass, Held
<1>7. ASSUME NEW w \in Workers, CompleteJob(w) \/ FailJob(w)
      PROVE  faults' = faults /\ (MayPass(i, j)' => MayPass(i, j))
  <2> DEFINE k == workers[w].job
  <2>1. /\ faults' = faults /\ workers[w].phase \in {"complete", "fail"}
        /\ \A v \in Workers \ {w} : workers'[v] = workers[v]
        /\ workers'[w].job \in {NoJob, k} /\ workers'[w].phase \in {"idle", "mark"}
    BY <1>7 DEF CompleteJob, FailJob, Idle
  <2>2. k \in Jobs
    BY <2>1, BusyWorkerHasJob
  <2>3. CASE ~Releasable(k)
    <3>1. UNCHANGED <<jobs, due, ahead, lapsed>>
      BY <1>7, <2>3 DEF CompleteJob, FailJob, line
    <3>2. CASE k = j
      BY <2>1, <2>3, <3>1, <3>2 DEF MayPass, Releasable
    <3>3. CASE k # j
      <4>1. \A v \in Workers : Holds(v, j)' <=> Holds(v, j)
        BY <2>1, <3>3 DEF Holds
      <4> QED
        BY <2>1, <3>1, <4>1 DEF MayPass, Held
    <3> QED
      BY <3>2, <3>3
  <2>4. CASE Releasable(k)
    <3>1. \E s \in {"completed", "failed", "retryable"} : Release(k, s)
      BY <1>7, <2>4 DEF CompleteJob, FailJob
    <3>2. /\ due' = due \ {k} /\ ahead' = {p \in ahead : p[1] # k /\ p[2] # k}
          /\ lapsed' = lapsed \ {k} /\ jobs'[k].state \in {"completed", "failed", "retryable"}
          /\ \A m \in Jobs \ {k} : jobs'[m] = jobs[m]
      BY <2>2, <3>1 DEF Release, Leaves
    <3>3. k # i
      BY <3>2 DEF Leasable
    <3>4. CASE k = j
      BY <2>1, <3>2, <3>4 DEF MayPass
    <3>5. CASE k # j
      <4>1. \A v \in Workers : Holds(v, j)' <=> Holds(v, j)
        BY <2>1, <3>5 DEF Holds
      <4>2. <<i, j>> \in ahead' <=> <<i, j>> \in ahead
        BY <3>2, <3>3, <3>5
      <4>3. jobs'[j] = jobs[j] /\ (j \in due' <=> j \in due) /\ (j \in lapsed' <=> j \in lapsed)
        BY <3>2, <3>5
      <4> QED
        BY <2>1, <4>1, <4>2, <4>3 DEF MayPass, Held
    <3> QED
      BY <3>4, <3>5
  <2> QED
    BY <2>3, <2>4
<1>8. ASSUME NEW w \in Workers, NEW ok \in BOOLEAN, ProcessReturns(w, ok)
      PROVE  faults' = faults /\ (MayPass(i, j)' => MayPass(i, j))
  <2>1. /\ UNCHANGED <<jobs, due, ahead, lapsed, faults>> /\ workers[w].phase = "process"
        /\ workers'[w].phase \in {"complete", "fail"} /\ workers'[w].job = workers[w].job
        /\ \A v \in Workers \ {w} : workers'[v] = workers[v]
    BY <1>8 DEF ProcessReturns, line
  <2>2. \A v \in Workers : Holds(v, j)' <=> Holds(v, j)
    BY <2>1 DEF Holds
  <2> QED
    BY <2>1, <2>2 DEF MayPass, Held
<1>9. ASSUME NEW w \in Workers, MarkDocumentFailed(w)
      PROVE  faults' = faults /\ (MayPass(i, j)' => MayPass(i, j))
  <2>1. /\ UNCHANGED <<jobs, due, ahead, lapsed, faults>> /\ workers[w].phase = "mark"
        /\ workers' = [workers EXCEPT ![w] = Idle]
    BY <1>9 DEF MarkDocumentFailed, line
  <2>2. \A v \in Workers : Holds(v, j)' <=> Holds(v, j)
    BY <2>1 DEF Holds, Idle
  <2> QED
    BY <2>1, <2>2 DEF MayPass, Held
<1>10. ASSUME NEW w \in Workers, Crash(w) PROVE faults' = faults + 1
  BY <1>10 DEF Crash, Fault
<1> QED
  BY <1>1, <1>2, <1>3, <1>4, <1>5, <1>6, <1>7, <1>8, <1>9, <1>10 DEF Next

LEMMA FaultsGrow ==
  ASSUME TypeOK, [Next]_vars
  PROVE  faults \in Nat /\ faults' \in Nat /\ faults <= faults'
<1>1. faults' = faults \/ faults' = faults + 1
  BY DEF Next, vars, Enqueue, BackoffEnds, OrphanLapses, LeaseOutlived, LeaseNextJob, CompleteJob,
         FailJob, MarkDocumentFailed, Crash, ProcessReturns, Fault
<1> QED
  BY <1>1 DEF TypeOK, WorkersTypeOK

LEMMA OrderStep ==
  ASSUME TypeOK, OrderInv, OrderNext
  PROVE  OrderInv'
<1>0. Next /\ Count /\ [Next]_vars
  BY DEF OrderNext
<1>1. /\ passed \in [Jobs -> [Jobs -> Nat]] /\ faults \in Nat /\ faults' \in Nat /\ faults <= faults'
      /\ LineInv
  BY <1>0, FaultsGrow DEF OrderInv
<1>2. passed' \in [Jobs -> [Jobs -> Nat]]
  BY <1>0, <1>1 DEF Count
<1>3. ASSUME NEW i \in Jobs, NEW j \in Jobs PROVE PassedOK(i, j)'
  <2>0. /\ PassedOK(i, j) /\ passed[i][j] \in Nat /\ passed'[i][j] \in Nat
        /\ PassChance(i, j) \in {0, 1} /\ PassChance(i, j)' \in {0, 1}
    BY <1>1, <1>2 DEF OrderInv, PassChance
  <2>1. passed'[i][j] = IF Leased(i) \/ ~Leasable(i) THEN 0
                        ELSE IF Leased(j) THEN passed[i][j] + 1 ELSE passed[i][j]
    BY <1>0 DEF Count
  <2>2. CASE Leased(i) \/ ~Leasable(i)
    BY <1>1, <2>0, <2>1, <2>2 DEF PassedOK
  <2>3. CASE ~Leased(i) /\ Leasable(i) /\ Leased(j)
    <3>1. PICK w \in Workers : /\ NextJob(j) /\ Holds(w, j)' /\ LeaseNextJob(w)
                               /\ jobs'[j].state = "leased" /\ j \notin lapsed'
      BY <1>0, <2>3, LeasedByLease
    <3>2. i # j
      BY <2>3
    <3>3. MayPass(i, j)
      BY <2>3, <3>1 DEF MayPass, NextJob, Leasable
    <3>4. PassChance(i, j) = 1
      BY <3>3 DEF PassChance
    <3>5. ~MayPass(i, j)'
      BY <3>1 DEF MayPass, Held
    <3>6. PassChance(i, j)' = 0
      BY <3>5 DEF PassChance
    <3>7. passed[i][j] + 1 <= 1 + faults
      BY <2>0, <2>3, <3>2, <3>4 DEF PassedOK
    <3> QED
      BY <1>1, <2>0, <2>1, <2>3, <3>2, <3>6, <3>7 DEF PassedOK
  <2>4. CASE ~Leased(i) /\ Leasable(i) /\ ~Leased(j)
    <3>1. passed'[i][j] = passed[i][j]
      BY <2>1, <2>4
    <3>2. i # j /\ Leasable(i)' => PassChance(i, j)' <= PassChance(i, j) + (faults' - faults)
      BY <1>0, <1>1, <2>4, PassChanceStep
    <3>3. i # j => passed[i][j] + PassChance(i, j) <= 1 + faults
      BY <2>0, <2>4 DEF PassedOK
    <3>4. passed[i][j] <= 1 + faults /\ (i = j => passed[i][j] = 0)
      BY <2>0 DEF PassedOK
    <3> QED
      BY <1>1, <2>0, <3>1, <3>2, <3>3, <3>4 DEF PassedOK
  <2> QED
    BY <2>2, <2>3, <2>4
<1>4. LineInv'
  BY <1>0, <1>1, LineStep
<1> QED
  BY <1>2, <1>3, <1>4 DEF OrderInv

\* BoundedOvertaking: a waiting job is passed by each other job at most once, plus
\* once per crash or outlived lease, however many jobs and workers there are.
THEOREM OvertakingIsBounded == OrderSpec => []BoundedOvertaking
<1>1. OrderInit => TypeOK /\ OrderInv
  <2> SUFFICES ASSUME OrderInit PROVE TypeOK /\ OrderInv
    OBVIOUS
  <2>1. TypeOK
    BY DEF OrderInit, Init, TypeOK, JobsTypeOK, WorkersTypeOK, NoRow, Idle, JobRow, JobState, Active,
           Settled, WorkerState, Phase
  <2>2. /\ \A j \in Jobs : jobs[j].state = "absent" /\ ~Leasable(j)
        /\ \A i, j \in Jobs : passed[i][j] = 0
        /\ faults = 0 /\ passed \in [Jobs -> [Jobs -> Nat]]
    BY DEF OrderInit, Init, NoRow, Leasable
  <2> QED
    BY <2>1, <2>2 DEF OrderInv, LineInv, PassedOK
<1>2. TypeOK /\ OrderInv /\ [OrderNext]_orderVars => TypeOK' /\ OrderInv'
  <2> SUFFICES ASSUME TypeOK, OrderInv, [OrderNext]_orderVars PROVE TypeOK' /\ OrderInv'
    OBVIOUS
  <2>1. CASE OrderNext
    BY <2>1, TypeOKStep, OrderStep DEF OrderNext
  <2>2. CASE UNCHANGED orderVars
    <3>1. UNCHANGED vars /\ UNCHANGED passed
      BY <2>2 DEF orderVars
    <3>2. TypeOK'
      BY <3>1, TypeOKStep
    <3>3. OrderInv'
      BY <3>1 DEF vars, OrderInv, LineInv, PassedOK, PassChance, MayPass, Leasable, Held, Holds
    <3> QED
      BY <3>2, <3>3
  <2> QED
    BY <2>1, <2>2
<1>3. OrderInv => BoundedOvertaking
  BY DEF OrderInv, PassedOK, BoundedOvertaking
<1> QED
  BY <1>1, <1>2, <1>3, PTL DEF OrderSpec
=============================================================================
