------------------------------ MODULE JobQueue ------------------------------
(***************************************************************************)
(* The jobs table (internal/store/store.go) and the worker loop that       *)
(* drains it (internal/jobs/worker.go).  What a job does is abstract here: *)
(* processing returns success or an error.  ExtractionPipeline and         *)
(* BacktestPipeline give it its steps and instantiate this module.         *)
(*                                                                         *)
(* Time is kept only as the two comparisons the SQL makes: `due` is        *)
(* available_at <= now(), `lapsed` is leased_until <= now().  The order by *)
(* (available_at, created_at) is the relation `ahead`.                     *)
(***************************************************************************)
EXTENDS Naturals

CONSTANTS Jobs,          \* job ids
          Workers,       \* worker processes, each with its own WORKER_ID
          NoJob,         \* "this worker has no job"
          NoWorker,      \* leased_by IS NULL
          MaxAttempts,   \* jobs.max_attempts, the retry budget
          DocumentJobs,  \* jobs whose processing returns a document id
          Faults,        \* the kinds of fault that may occur
          MaxFaults      \* how many faults may occur in one behaviour

ASSUME JobsAssumption == NoJob \notin Jobs /\ DocumentJobs \subseteq Jobs
ASSUME WorkersAssumption == NoWorker \notin Workers
ASSUME BudgetAssumption == MaxAttempts \in Nat \ {0} /\ MaxFaults \in Nat

VARIABLES jobs,     \* the rows of the jobs table
          due,      \* the jobs that wait in line: available_at <= now()
          ahead,    \* <<i, j>>: both are in line and i comes before j
          lapsed,   \* the leased jobs with leased_until <= now()
          workers,  \* where each worker is in runOne, and its copy of the job
          faults    \* faults so far

line == <<due, ahead>>
vars == <<jobs, due, ahead, lapsed, workers, faults>>

(***************************************************************************)
(* Rows and worker states.                                                 *)
(***************************************************************************)
Active == {"queued", "leased", "retryable"}
Settled == {"completed", "failed"}
JobState == {"absent"} \cup Active \cup Settled
Phase == {"idle", "process", "complete", "fail", "mark"}

JobRow == [state : JobState, attempts : Nat, leasedBy : Workers \cup {NoWorker}]
WorkerState == [phase : Phase, job : Jobs \cup {NoJob}, attempts : Nat]

NoRow == [state |-> "absent", attempts |-> 0, leasedBy |-> NoWorker]
Idle == [phase |-> "idle", job |-> NoJob, attempts |-> 0]

\* Between its lease and the end of runOne's CompleteJob or FailJob call a
\* worker acts as the holder of its job, whatever the row says by then.
Holds(w, j) == workers[w].job = j /\ workers[w].phase \in {"process", "complete", "fail"}
Held(j) == \E w \in Workers : Holds(w, j)

\* available_at becomes now(), the latest of the jobs in line.
JoinsAtFront(j) ==
  /\ due' = due \cup {j}
  /\ ahead' = ahead \cup {<<j, i>> : i \in due \ {j}}

Joins(j) ==
  /\ due' = due \cup {j}
  /\ ahead' = ahead \cup {<<i, j>> : i \in due \ {j}}

\* available_at moves into the future, or the row is settled.
Leaves(j) ==
  /\ due' = due \ {j}
  /\ ahead' = {p \in ahead : p[1] # j /\ p[2] # j}

(***************************************************************************)
(* LeaseNextJob's WHERE and ORDER BY: due and not leased, or leased with   *)
(* the lease run out; the least (available_at, created_at) of those.       *)
(***************************************************************************)
LeasableIgnoringExpiry(j) == jobs[j].state \in {"queued", "retryable", "leased"} /\ j \in due
LeasableNeverReclaimed(j) == jobs[j].state \in {"queued", "retryable"} /\ j \in due

Leasable(j) ==
  \/ jobs[j].state \in {"queued", "retryable"} /\ j \in due
  \/ jobs[j].state = "leased" /\ j \in lapsed

NextJob(j) ==
  /\ Leasable(j)
  /\ \A i \in Jobs : Leasable(i) => <<i, j>> \notin ahead

-----------------------------------------------------------------------------
Init ==
  /\ jobs = [j \in Jobs |-> NoRow]
  /\ due = {} /\ ahead = {} /\ lapsed = {}
  /\ workers = [w \in Workers |-> Idle]
  /\ faults = 0

\* insertJob: the row's defaults are queued, no attempts, available now.
Enqueue(j) ==
  /\ jobs[j].state = "absent"
  /\ jobs' = [jobs EXCEPT ![j] = [state |-> "queued", attempts |-> 0, leasedBy |-> NoWorker]]
  /\ Joins(j)
  /\ UNCHANGED <<lapsed, workers, faults>>

\* One transaction; rows other lease transactions hold are skipped, so it is
\* atomic here.  The worker keeps the attempts the row had when it was leased.
LeaseNextJob(w) ==
  /\ workers[w].phase = "idle"
  /\ \E j \in Jobs :
       /\ NextJob(j)
       /\ jobs' = [jobs EXCEPT ![j] = [state |-> "leased", attempts |-> jobs[j].attempts + 1,
                                       leasedBy |-> w]]
       /\ lapsed' = lapsed \ {j}
       /\ workers' = [workers EXCEPT ![w] =
                        [phase |-> "process", job |-> j, attempts |-> jobs[j].attempts + 1]]
  /\ UNCHANGED <<line, faults>>

\* process returns: nil leads to CompleteJob, an error to FailJob.
ProcessReturns(w, ok) ==
  /\ workers[w].phase = "process"
  /\ workers' = [workers EXCEPT ![w].phase = IF ok THEN "complete" ELSE "fail"]
  /\ UNCHANGED <<jobs, line, lapsed, faults>>

\* WHERE id = $1 AND state = 'leased': anyone's lease will do.
ReleasableAlways(j) == TRUE

Releasable(j) == jobs[j].state = "leased"

\* What CompleteJob and FailJob write: leased_until and leased_by become NULL.
\* A retryable row is out of line until its backoff ends, a settled one for ever.
ReleaseKeepingHolder(j, state) ==
  /\ jobs' = [jobs EXCEPT ![j] = [@ EXCEPT !.state = state]]
  /\ Leaves(j)
  /\ UNCHANGED lapsed

Release(j, state) ==
  /\ jobs' = [jobs EXCEPT ![j] = [state |-> state, attempts |-> jobs[j].attempts,
                                  leasedBy |-> NoWorker]]
  /\ Leaves(j)
  /\ lapsed' = lapsed \ {j}

\* When no row matches, runOne only logs "job is not leased".
CompleteJob(w) ==
  LET j == workers[w].job IN
  /\ workers[w].phase = "complete"
  /\ IF Releasable(j) THEN Release(j, "completed") ELSE UNCHANGED <<jobs, line, lapsed>>
  /\ workers' = [workers EXCEPT ![w] = Idle]
  /\ UNCHANGED faults

\* FailJob compares the attempts the worker was handed with its lease.
TerminalOneEarly(w) == workers[w].attempts + 1 >= MaxAttempts
TerminalOneLate(w) == workers[w].attempts > MaxAttempts

Terminal(w) == workers[w].attempts >= MaxAttempts

\* After a terminal failure runOne goes on to SetDocumentStatus when
\* processing named a document.
FailJob(w) ==
  LET j == workers[w].job IN
  /\ workers[w].phase = "fail"
  /\ IF Releasable(j)
     THEN Release(j, IF Terminal(w) THEN "failed" ELSE "retryable")
     ELSE UNCHANGED <<jobs, line, lapsed>>
  /\ workers' = [workers EXCEPT ![w] =
                   IF Releasable(j) /\ Terminal(w) /\ j \in DocumentJobs
                   THEN [phase |-> "mark", job |-> j, attempts |-> workers[w].attempts]
                   ELSE Idle]
  /\ UNCHANGED faults

\* runOne's SetDocumentStatus(documentID, "failed"); the document is not here.
MarkDocumentFailed(w) ==
  /\ workers[w].phase = "mark"
  /\ workers' = [workers EXCEPT ![w] = Idle]
  /\ UNCHANGED <<jobs, line, lapsed, faults>>

\* retryDelay after the failure: available_at is reached.
BackoffEnds(j) ==
  /\ jobs[j].state = "retryable" /\ j \notin due
  /\ Joins(j)
  /\ UNCHANGED <<jobs, lapsed, workers, faults>>

\* leased_until is reached and nobody is working on the job any more.
OrphanLapses(j) ==
  /\ jobs[j].state = "leased" /\ j \notin lapsed /\ ~Held(j)
  /\ lapsed' = lapsed \cup {j}
  /\ UNCHANGED <<jobs, line, workers, faults>>

(***************************************************************************)
(* Faults.  A crash is the end of the process and its restart by compose,  *)
(* a shutdown that cancels the context, or a store call of runOne that     *)
(* returns an error: in each the worker is back at the lease and the row   *)
(* stays as it is.  A premature lapse is a job that outlives its lease.    *)
(***************************************************************************)
Fault(kind) == kind \in Faults /\ faults < MaxFaults /\ faults' = faults + 1

Crash(w) ==
  /\ Fault("crash")
  /\ workers[w].phase # "idle"
  /\ workers' = [workers EXCEPT ![w] = Idle]
  /\ UNCHANGED <<jobs, line, lapsed>>

LeaseOutlived(j) ==
  /\ Fault("lapse")
  /\ jobs[j].state = "leased" /\ j \notin lapsed /\ Held(j)
  /\ lapsed' = lapsed \cup {j}
  /\ UNCHANGED <<jobs, line, workers>>

Next ==
  \/ \E j \in Jobs : Enqueue(j) \/ BackoffEnds(j) \/ OrphanLapses(j) \/ LeaseOutlived(j)
  \/ \E w \in Workers :
       \/ LeaseNextJob(w) \/ CompleteJob(w) \/ FailJob(w) \/ MarkDocumentFailed(w) \/ Crash(w)
       \/ \E ok \in BOOLEAN : ProcessReturns(w, ok)

Spec == Init /\ [][Next]_vars

(***************************************************************************)
(* Fairness.  Run polls for ever, so a worker that can take a step takes   *)
(* it; the call to the quant service is bounded by QUANT_TIMEOUT, so       *)
(* processing returns; and time passes, so backoffs and leases end.        *)
(* Nothing is assumed of faults or of clients.                             *)
(***************************************************************************)
Fairness ==
  /\ \A j \in Jobs : WF_vars(BackoffEnds(j)) /\ WF_vars(OrphanLapses(j))
  /\ \A w \in Workers :
       /\ WF_vars(LeaseNextJob(w)) /\ WF_vars(CompleteJob(w)) /\ WF_vars(FailJob(w))
       /\ WF_vars(MarkDocumentFailed(w))
       /\ WF_vars(\E ok \in BOOLEAN : ProcessReturns(w, ok))

-----------------------------------------------------------------------------
(***************************************************************************)
(* Properties.                                                             *)
(***************************************************************************)
\* The jobs table, with the agreement of columns the SQL keeps: leased_by is set
\* exactly while the row is leased, only a leased row can have lapsed, and a row
\* that was never leased has no attempts.
JobsTypeOK ==
  /\ jobs \in [Jobs -> JobRow]
  /\ \A j \in Jobs : jobs[j].leasedBy # NoWorker <=> jobs[j].state = "leased"
  /\ \A j \in Jobs : jobs[j].state \in {"absent", "queued"} => jobs[j].attempts = 0
  /\ due \subseteq Jobs /\ ahead \subseteq due \X due
  /\ lapsed \subseteq {j \in Jobs : jobs[j].state = "leased"}

WorkersTypeOK ==
  /\ workers \in [Workers -> WorkerState]
  /\ \A w \in Workers : workers[w].phase = "idle" <=> workers[w].job = NoJob
  /\ faults \in Nat

\* Type invariant.
TypeOK == JobsTypeOK /\ WorkersTypeOK

\* store.go's CompleteJob and FailJob are not fenced by leased_by, yet no late
\* worker may move a row that is completed or failed.
TerminalIsFinal == [][\A j \in Jobs : jobs[j].state \in Settled => jobs'[j] = jobs[j]]_vars

\* The copy of a job that runOne works from is never ahead of the row: it was
\* taken at a lease, and only later leases count attempts up.
CopiesAreOld ==
  \A w \in Workers : workers[w].phase # "idle" =>
    workers[w].attempts >= 1 /\ jobs[workers[w].job].attempts >= workers[w].attempts

\* FailJob decides from the worker's own, possibly old, copy of attempts; even
\* so a job is given up only after max_attempts leases of its row.
FailedSpentBudget == \A j \in Jobs : jobs[j].state = "failed" => jobs[j].attempts >= MaxAttempts

\* A job is leased at most max_attempts times, plus once for every crash or
\* outlived lease: nothing in LeaseNextJob itself looks at max_attempts.
AttemptsBounded == \A j \in Jobs : jobs[j].attempts <= MaxAttempts + faults

\* While leases outlast the work (config.go asks for it), at most one worker
\* acts on a job: the one the row names, with the attempts the row has.
LeaseIsExclusive ==
  \A w \in Workers, j \in Jobs :
    Holds(w, j) => /\ jobs[j].state = "leased" /\ jobs[j].leasedBy = w
                   /\ j \notin lapsed
                   /\ jobs[j].attempts = workers[w].attempts

\* Then a job FailJob puts back always has an attempt left.
RetryLeavesBudget == \A j \in Jobs : jobs[j].state = "retryable" => jobs[j].attempts < MaxAttempts

\* Every enqueued job settles, whichever worker crashes or is overtaken: a lost
\* lease is reclaimed and a failure is retried until the budget is spent.
EveryJobSettles == \A j \in Jobs : jobs[j].state = "queued" ~> jobs[j].state \in Settled

\* The jobs table is a set of durable tasks.
TaskStatus(state) ==
  IF state \in Active THEN "pending"
  ELSE IF state = "completed" THEN "done"
  ELSE IF state = "failed" THEN "dead"
  ELSE "absent"

taskStatus == [j \in Jobs |-> TaskStatus(jobs[j].state)]
taskRuns == [j \in Jobs |-> jobs[j].attempts]

DT == INSTANCE DurableTasks
        WITH Tasks <- Jobs, Budget <- MaxAttempts, status <- taskStatus, runs <- taskRuns

\* The queue implements DurableTasks: a task settles once, is finished only
\* after it was handed out, and is given up only when its budget is spent.
ImplementsDurableTasks == DT!Spec
=============================================================================
