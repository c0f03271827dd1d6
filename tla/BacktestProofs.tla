--------------------------- MODULE BacktestProofs ---------------------------
(***************************************************************************)
(* Theorems about BacktestPipeline for any runs, workers, symbols, budget  *)
(* and faults: crashes, outlived leases, lost commit answers and failing   *)
(* store calls included.                                                   *)
(***************************************************************************)
EXTENDS BacktestPipeline, TLAPS

-----------------------------------------------------------------------------
(***************************************************************************)
(* The jobs of the pipeline follow JobQueue.                               *)
(***************************************************************************)
\* Each step of a task is a step of the queue or leaves the queue alone.
LEMMA QueueStep == [Next]_vars => [Q!Next]_(Q!vars)
<1> SUFFICES ASSUME [Next]_vars PROVE [Q!Next]_(Q!vars)
  OBVIOUS
<1>0. ASSUME UNCHANGED queueVars PROVE UNCHANGED Q!vars
  BY <1>0 DEF queueVars, Q!vars
<1>1. ASSUME NEW r \in Jobs, CreateBacktest(r) \/ BackoffEnds(r) \/ OrphanLapses(r) \/ LeaseOutlived(r)
      PROVE  Q!Next
  BY <1>1 DEF CreateBacktest, BackoffEnds, OrphanLapses, LeaseOutlived, Q!Next
<1>2. ASSUME NEW w \in Workers, LeaseNextJob(w) \/ CompleteJob(w) \/ FailJob(w) \/ Crash(w)
      PROVE  Q!Next
  BY <1>2 DEF LeaseNextJob, CompleteJob, FailJob, Crash, Q!Next
<1>3. ASSUME NEW w \in Workers, NEW ok \in BOOLEAN, Returns(w, ok) PROVE Q!Next
  BY <1>3 DEF Returns, Q!Next
<1>4. ASSUME NEW w \in Workers, ReadRun(w) PROVE [Q!Next]_(Q!vars)
  BY <1>4, <1>0, <1>3 DEF ReadRun, Goto
<1>5. ASSUME NEW w \in Workers, SetRunning(w) \/ SaveArtifact(w) \/ CallFails(w) \/ CompleteReplyLost(w)
      PROVE  UNCHANGED queueVars
  BY <1>5 DEF SetRunning, SaveArtifact, CallFails, CompleteReplyLost, Goto
<1>6. ASSUME NEW w \in Workers, NEW proposed \in SUBSET Symbols, Simulate(w, proposed)
      PROVE  UNCHANGED queueVars
  BY <1>6 DEF Simulate
<1>7. ASSUME NEW w \in Workers, CompleteBacktest(w) PROVE [Q!Next]_(Q!vars)
  BY <1>7, <1>0, <1>3 DEF CompleteBacktest, Goto
<1>8. ASSUME NEW w \in Workers, FailIfTerminal(w) PROVE Q!Next
  BY <1>8, <1>3 DEF FailIfTerminal
<1>9. ASSUME AttachEvidence \/ \E r \in Jobs : ListRanking(r) PROVE UNCHANGED queueVars
  BY <1>9 DEF AttachEvidence, ListRanking
<1>10. CASE UNCHANGED vars
  BY <1>10, <1>0 DEF vars
<1> QED
  BY <1>0, <1>1, <1>2, <1>4, <1>5, <1>6, <1>7, <1>8, <1>9, <1>10 DEF Next, Worker

\* Whatever a backtest does between its lease and its settlement, its job behaves
\* as JobQueue says, so what is proved of JobQueue's jobs holds of backtest jobs.
THEOREM BacktestFollowsJobQueue == Spec => FollowsJobQueue
<1>1. Init => Q!Init
  BY DEF Init
<1> QED
  BY <1>1, QueueStep, PTL DEF Spec, FollowsJobQueue, Q!Spec

-----------------------------------------------------------------------------
(***************************************************************************)
(* Types.  What JobQueueProofs shows of the queue's type invariant is used *)
(* through its instance; Q and QP are the same definitions.                *)
(***************************************************************************)
\* Overtaking is not counted here.
QP == INSTANCE JobQueueProofs WITH DocumentJobs <- {}, passed <- {}

\* The queue's type invariant, with the agreement of its columns, is inductive
\* for the jobs of the pipeline.
LEMMA QueueTypeStep == Q!TypeOK /\ [Q!Next]_(Q!vars) => Q!TypeOK'
  BY QueueAssumption, QP!TypeOKStep
  DEF Q!line, Q!vars, Q!Active, Q!Settled, Q!JobState, Q!Phase, Q!JobRow, Q!WorkerState, Q!Idle,
      Q!Holds, Q!Held, Q!Joins, Q!Leaves, Q!Leasable, Q!NextJob, Q!Enqueue, Q!LeaseNextJob,
      Q!ProcessReturns, Q!Releasable, Q!Release, Q!CompleteJob, Q!Terminal, Q!FailJob,
      Q!MarkDocumentFailed, Q!BackoffEnds, Q!OrphanLapses, Q!Fault, Q!Crash,
      Q!LeaseOutlived, Q!Next, Q!JobsTypeOK, Q!WorkersTypeOK, Q!TypeOK, QP!line, QP!vars,
      QP!Active, QP!Settled, QP!JobState, QP!Phase, QP!JobRow, QP!WorkerState, QP!Idle,
      QP!Holds, QP!Held, QP!Joins, QP!Leaves, QP!Leasable, QP!NextJob, QP!Enqueue,
      QP!LeaseNextJob, QP!ProcessReturns, QP!Releasable, QP!Release, QP!CompleteJob,
      QP!Terminal, QP!FailJob, QP!MarkDocumentFailed, QP!BackoffEnds, QP!OrphanLapses,
      QP!Fault, QP!Crash, QP!LeaseOutlived, QP!Next, QP!JobsTypeOK, QP!WorkersTypeOK,
      QP!TypeOK

\* Initially every job is absent and every worker idle.
LEMMA QueueTypeInit == Q!Init => Q!TypeOK
  BY QueueAssumption
  DEF Q!Init, Q!TypeOK, Q!JobsTypeOK, Q!WorkersTypeOK, Q!NoRow, Q!Idle, Q!JobRow, Q!JobState,
      Q!Active, Q!Settled, Q!WorkerState, Q!Phase

-----------------------------------------------------------------------------
(***************************************************************************)
(* The inductive invariant.  CandidatesBacked says nothing of the work in  *)
(* progress: what a task past its checks is about to record.               *)
(***************************************************************************)
\* A worker inside processBacktest holds an attempt at a job that exists; past the
\* universe check its proposal is authorized, and past Save its artifact is on disk.
TaskInv ==
  \A w \in Workers :
    /\ task[w].step # "read" => workers[w].phase = "process"
    /\ workers[w].phase = "process" =>
         /\ workers[w].job \in Jobs /\ workers[w].attempts # 0
         /\ jobs[workers[w].job].state # "absent"
    /\ task[w].step \in {"save", "record"} => task[w].proposed \subseteq Universe
    /\ task[w].step = "record" => <<workers[w].job, workers[w].attempts>> \in artifacts

\* A run whose job is not created yet has no result.
FreshRuns == \A r \in Jobs : jobs[r].state = "absent" => runs[r].result = 0

\* The type invariant without the queue's part and the listing's.
RunsTypeOK ==
  /\ runs \in [Jobs -> [status : RunStatus, result : Nat]]
  /\ \A r \in Jobs : /\ runs[r].status = "completed" => runs[r].result # 0
                     /\ runs[r].status \in {"absent", "queued"} => runs[r].result = 0
  /\ candidates \in [Jobs -> SUBSET (Symbols \X Nat)]
  /\ artifacts \subseteq Jobs \X Nat
  /\ task \in [Workers -> [step : Step, proposed : SUBSET Symbols]]

RunInv == RunsTypeOK /\ TaskInv /\ FreshRuns /\ CandidatesBacked

\* Rows of the jobs table are never deleted, and a worker in processing has one.
LEMMA RowsStay ==
  Q!TypeOK /\ [Q!Next]_(Q!vars) =>
    \A j \in Jobs : jobs'[j].state = "absent" => jobs[j].state = "absent"
<1> SUFFICES ASSUME Q!TypeOK, [Q!Next]_(Q!vars) PROVE
      \A j \in Jobs : jobs'[j].state = "absent" => jobs[j].state = "absent"
  OBVIOUS
<1> USE DEF Q!TypeOK, Q!JobsTypeOK, Q!WorkersTypeOK, Q!JobRow, Q!WorkerState
<1>1. CASE UNCHANGED Q!vars
  BY <1>1 DEF Q!vars
<1>2. CASE \E j \in Jobs : Q!Enqueue(j) \/ Q!BackoffEnds(j) \/ Q!OrphanLapses(j) \/ Q!LeaseOutlived(j)
  BY <1>2 DEF Q!Enqueue, Q!BackoffEnds, Q!OrphanLapses, Q!LeaseOutlived
<1>3. CASE \E w \in Workers : Q!LeaseNextJob(w)
  BY <1>3 DEF Q!LeaseNextJob
<1>4. CASE \E w \in Workers : Q!CompleteJob(w) \/ Q!FailJob(w)
  BY <1>4 DEF Q!CompleteJob, Q!FailJob, Q!Release, Q!Releasable, Q!line
<1>5. CASE \E w \in Workers : \/ Q!MarkDocumentFailed(w) \/ Q!Crash(w)
                             \/ \E ok \in BOOLEAN : Q!ProcessReturns(w, ok)
  BY <1>5 DEF Q!MarkDocumentFailed, Q!Crash, Q!ProcessReturns
<1> QED
  BY <1>1, <1>2, <1>3, <1>4, <1>5 DEF Q!Next

\* A step of the queue that leaves the runs alone and moves one worker, which is
\* then at the start of a task or has none.
LEMMA WorkerMoves ==
  ASSUME Q!TypeOK, RunInv, [Q!Next]_(Q!vars), NEW w \in Workers,
         \A v \in Workers \ {w} : workers'[v] = workers[v],
         workers'[w].phase = "process" =>
           /\ workers'[w].job \in Jobs /\ workers'[w].attempts # 0
           /\ jobs'[workers'[w].job].state # "absent",
         \/ task' = [task EXCEPT ![w] = NoTask]
         \/ UNCHANGED task /\ task[w].step = "read",
         UNCHANGED runVars
  PROVE  RunInv'
<1> USE DEF RunInv, runVars
<1>0. \A j \in Jobs : jobs'[j].state = "absent" => jobs[j].state = "absent"
  BY RowsStay
<1>1. RunsTypeOK'
  BY DEF RunsTypeOK, NoTask, Step
<1>2. TaskInv'
  <2>1. ASSUME NEW v \in Workers \ {w}
        PROVE  workers'[v] = workers[v] /\ task'[v] = task[v] /\ artifacts' = artifacts
    BY <2>1 DEF RunsTypeOK
  <2>2. task'[w].step = "read"
    BY DEF RunsTypeOK, NoTask
  <2> QED
    BY <1>0, <2>1, <2>2 DEF TaskInv
<1>3. FreshRuns' /\ CandidatesBacked'
  BY <1>0 DEF FreshRuns, CandidatesBacked
<1> QED
  BY <1>1, <1>2, <1>3

\* A step that leaves the workers alone: a job is created, or time passes.
LEMMA ClientStep ==
  ASSUME Q!TypeOK, RunInv, NEW r \in Jobs,
         CreateBacktest(r) \/ BackoffEnds(r) \/ OrphanLapses(r) \/ LeaseOutlived(r)
  PROVE  RunInv'
<1> USE DEF RunInv, runVars, RunStatus
<1>1. UNCHANGED <<workers, task, candidates, artifacts>>
  BY DEF CreateBacktest, BackoffEnds, OrphanLapses, LeaseOutlived, Q!Enqueue, Q!BackoffEnds,
         Q!OrphanLapses, Q!LeaseOutlived
<1>2. CASE CreateBacktest(r)
  <2>1. /\ jobs[r].state = "absent"
        /\ jobs' = [jobs EXCEPT ![r] = [state |-> "queued", attempts |-> 0, leasedBy |-> NoWorker]]
        /\ runs' = [runs EXCEPT ![r] = [status |-> "queued", result |-> 0]]
    BY <1>2 DEF CreateBacktest, Q!Enqueue
  <2>2. runs[r].result = 0
    BY <2>1 DEF FreshRuns
  <2>3. RunsTypeOK'
    BY <1>1, <2>1 DEF RunsTypeOK
  <2>4. TaskInv'
    BY <1>1, <2>1 DEF TaskInv, Q!TypeOK, Q!JobsTypeOK
  <2>5. FreshRuns' /\ CandidatesBacked'
    BY <1>1, <2>1, <2>2 DEF FreshRuns, CandidatesBacked, RunsTypeOK, Q!TypeOK, Q!JobsTypeOK
  <2> QED
    BY <2>3, <2>4, <2>5
<1>3. CASE BackoffEnds(r) \/ OrphanLapses(r) \/ LeaseOutlived(r)
  <2>1. UNCHANGED <<jobs, runs>>
    BY <1>3 DEF BackoffEnds, OrphanLapses, LeaseOutlived, Q!BackoffEnds, Q!OrphanLapses,
                Q!LeaseOutlived
  <2> QED
    BY <1>1, <2>1 DEF RunsTypeOK, TaskInv, FreshRuns, CandidatesBacked
<1> QED
  BY <1>2, <1>3

\* A step inside processBacktest that leaves the queue alone and the proposal.
LEMMA TaskMoves ==
  ASSUME RunInv, NEW w \in Workers, NEW s \in Step, workers[w].phase = "process",
         s = "save" => task[w].step = "save",
         s = "record" => task[w].step = "save" /\ <<workers[w].job, workers[w].attempts>> \in artifacts',
         Goto(w, s), artifacts \subseteq artifacts'
  PROVE  TaskInv' /\ task' \in [Workers -> [step : Step, proposed : SUBSET Symbols]]
  BY DEF RunInv, TaskInv, RunsTypeOK, Goto, queueVars

\* The commit of CompleteBacktest keeps what the run, its ranking and the files say.
LEMMA RecordKeeps ==
  ASSUME Q!TypeOK, RunInv, NEW w \in Workers, At(w, "record"), RecordResult(w), UNCHANGED jobs
  PROVE  /\ runs' \in [Jobs -> [status : RunStatus, result : Nat]]
         /\ \A r \in Jobs : /\ runs'[r].status = "completed" => runs'[r].result # 0
                            /\ runs'[r].status \in {"absent", "queued"} => runs'[r].result = 0
         /\ candidates' \in [Jobs -> SUBSET (Symbols \X Nat)]
         /\ artifacts' = artifacts
         /\ FreshRuns' /\ CandidatesBacked'
<1> DEFINE r == workers[w].job
           n == workers[w].attempts
<1>1. /\ r \in Jobs /\ n \in Nat /\ n # 0 /\ jobs[r].state # "absent"
      /\ task[w].proposed \subseteq Universe /\ <<r, n>> \in artifacts
  BY DEF RunInv, TaskInv, At, Q!TypeOK, Q!WorkersTypeOK, Q!WorkerState
<1>2. /\ runs' = [runs EXCEPT ![r] = [status |-> "completed", result |-> n]]
      /\ candidates' = [candidates EXCEPT ![r] = task[w].proposed \X {n}]
      /\ artifacts' = artifacts
  BY DEF RecordResult, Ranking
<1> HIDE DEF r, n
<1>3. task[w].proposed \X {n} \in SUBSET (Symbols \X Nat)
  BY <1>1, UniverseAssumption
<1>4. candidates' \in [Jobs -> SUBSET (Symbols \X Nat)]
  BY <1>2, <1>3 DEF RunInv, RunsTypeOK
<1>5. task[w].proposed \X {n} \subseteq Universe \X {n}
  BY <1>1
<1>6. CandidatesBacked'
  BY <1>1, <1>2, <1>5 DEF RunInv, RunsTypeOK, CandidatesBacked
<1> QED
  BY <1>1, <1>2, <1>4, <1>6 DEF RunInv, RunsTypeOK, FreshRuns, RunStatus

\* Every step of a task inside processBacktest preserves the invariant.
LEMMA ProcessStep ==
  ASSUME Q!TypeOK, Q!TypeOK', RunInv, NEW w \in Workers,
         \/ ReadRun(w) \/ SetRunning(w) \/ SaveArtifact(w) \/ CompleteBacktest(w)
         \/ CompleteReplyLost(w) \/ CallFails(w) \/ FailIfTerminal(w)
         \/ \E proposed \in SUBSET Symbols : Simulate(w, proposed)
  PROVE  RunInv'
<1> USE DEF RunInv
<1>1. ASSUME NEW ok \in BOOLEAN, Returns(w, ok), artifacts' = artifacts
      PROVE  /\ TaskInv' /\ UNCHANGED jobs
             /\ task' \in [Workers -> [step : Step, proposed : SUBSET Symbols]]
  BY <1>1 DEF Returns, Q!ProcessReturns, TaskInv, RunsTypeOK, NoTask, Step, Q!TypeOK,
              Q!WorkersTypeOK, Q!WorkerState
<1>2. ASSUME NEW s \in {"mark", "failing"}, At(w, "read") \/ workers[w].phase = "process",
             Goto(w, s), artifacts' = artifacts
      PROVE  /\ TaskInv' /\ UNCHANGED jobs
             /\ task' \in [Workers -> [step : Step, proposed : SUBSET Symbols]]
  <2>1. s \in Step /\ workers[w].phase = "process"
    BY <1>2 DEF At, Step
  <2> QED
    BY <1>2, <2>1, TaskMoves DEF Goto, queueVars
<1>3. CASE ReadRun(w)
  <2>1. UNCHANGED runVars
    BY <1>3 DEF ReadRun
  <2>2. /\ TaskInv' /\ UNCHANGED jobs
        /\ task' \in [Workers -> [step : Step, proposed : SUBSET Symbols]]
    BY <1>1, <1>2, <1>3, <2>1 DEF ReadRun, runVars
  <2> QED
    BY <2>1, <2>2 DEF runVars, RunsTypeOK, FreshRuns, CandidatesBacked
<1>4. CASE SetRunning(w)
  <2>1. /\ workers[w].phase = "process" /\ Goto(w, "simulate") /\ UNCHANGED <<candidates, artifacts>>
        /\ runs' = [runs EXCEPT ![workers[w].job].status = "running"]
    BY <1>4 DEF SetRunning, At
  <2>2. TaskInv' /\ task' \in [Workers -> [step : Step, proposed : SUBSET Symbols]]
    BY <2>1, TaskMoves DEF Step
  <2>3. workers[w].job \in Jobs /\ UNCHANGED jobs
    BY <2>1 DEF TaskInv, Goto, queueVars
  <2> QED
    BY <2>1, <2>2, <2>3 DEF RunsTypeOK, FreshRuns, CandidatesBacked, RunStatus
<1>5. CASE SaveArtifact(w)
  <2>1. /\ workers[w].phase = "process" /\ task[w].step = "save" /\ Goto(w, "record")
        /\ artifacts' = artifacts \cup {<<workers[w].job, workers[w].attempts>>}
        /\ UNCHANGED <<runs, candidates>>
    BY <1>5 DEF SaveArtifact, At
  <2>2. TaskInv' /\ task' \in [Workers -> [step : Step, proposed : SUBSET Symbols]]
    BY <2>1, TaskMoves DEF Step
  <2>3. workers[w].job \in Jobs /\ workers[w].attempts \in Nat /\ UNCHANGED jobs
    BY <2>1 DEF TaskInv, Goto, queueVars, Q!TypeOK, Q!WorkersTypeOK, Q!WorkerState
  <2> QED
    BY <2>1, <2>2, <2>3 DEF RunsTypeOK, FreshRuns, CandidatesBacked
<1>6. CASE CompleteBacktest(w) \/ CompleteReplyLost(w)
  <2>1. At(w, "record")
    BY <1>6 DEF CompleteBacktest, CompleteReplyLost
  <2>2. CASE RecordResult(w) /\ (Returns(w, TRUE) \/ Goto(w, "failing"))
    <3>1. artifacts' = artifacts
      BY <2>2 DEF RecordResult
    <3>2. /\ TaskInv' /\ UNCHANGED jobs
          /\ task' \in [Workers -> [step : Step, proposed : SUBSET Symbols]]
      BY <1>1, <1>2, <2>1, <2>2, <3>1 DEF At
    <3> QED
      BY <2>1, <2>2, <3>1, <3>2, RecordKeeps DEF RunsTypeOK
  <2>3. CASE UNCHANGED runVars /\ Goto(w, "failing")
    <3>1. /\ TaskInv' /\ UNCHANGED jobs
          /\ task' \in [Workers -> [step : Step, proposed : SUBSET Symbols]]
      BY <1>2, <2>1, <2>3 DEF At, runVars
    <3> QED
      BY <2>3, <3>1 DEF runVars, RunsTypeOK, FreshRuns, CandidatesBacked
  <2> QED
    BY <1>6, <2>2, <2>3 DEF CompleteBacktest, CompleteReplyLost
<1>7. CASE CallFails(w)
  <2>1. workers[w].phase = "process" /\ Goto(w, "failing") /\ UNCHANGED runVars
    BY <1>7 DEF CallFails
  <2>2. /\ TaskInv' /\ UNCHANGED jobs
        /\ task' \in [Workers -> [step : Step, proposed : SUBSET Symbols]]
    BY <1>2, <2>1 DEF runVars
  <2> QED
    BY <2>1, <2>2 DEF runVars, RunsTypeOK, FreshRuns, CandidatesBacked
<1>8. CASE FailIfTerminal(w)
  <2>1. /\ Returns(w, FALSE) /\ UNCHANGED <<candidates, artifacts>> /\ workers[w].phase = "process"
        /\ runs' = [runs EXCEPT ![workers[w].job].status = "failed"] \/ UNCHANGED runs
    BY <1>8 DEF FailIfTerminal, MarkFailed, At
  <2>2. /\ TaskInv' /\ UNCHANGED jobs
        /\ task' \in [Workers -> [step : Step, proposed : SUBSET Symbols]]
    BY <1>1, <2>1
  <2>3. CASE UNCHANGED runs
    BY <2>1, <2>2, <2>3 DEF RunsTypeOK, FreshRuns, CandidatesBacked
  <2>4. CASE runs' = [runs EXCEPT ![workers[w].job].status = "failed"]
    <3>1. workers[w].job \in Jobs
      BY <2>1 DEF TaskInv
    <3> QED
      BY <2>1, <2>2, <2>4, <3>1 DEF RunsTypeOK, FreshRuns, CandidatesBacked, RunStatus
  <2> QED
    BY <2>1, <2>3, <2>4
<1>9. ASSUME NEW proposed \in SUBSET Symbols, Simulate(w, proposed) PROVE RunInv'
  <2>1. workers[w].phase = "process" /\ UNCHANGED <<queueVars, runVars>>
    BY <1>9 DEF Simulate, At
  <2>2. task' \in [Workers -> [step : Step, proposed : SUBSET Symbols]]
    BY <1>9 DEF Simulate, RunsTypeOK, Step
  <2>3. TaskInv'
    BY <1>9, <2>1 DEF Simulate, TaskInv, RunsTypeOK, Unauthorized, queueVars, runVars
  <2> QED
    BY <2>1, <2>2, <2>3 DEF queueVars, runVars, RunsTypeOK, FreshRuns, CandidatesBacked
<1> QED
  BY <1>3, <1>4, <1>5, <1>6, <1>7, <1>8, <1>9

\* Every step of the pipeline preserves the invariant.
LEMMA RunInvStep == Q!TypeOK /\ RunInv /\ [Next]_vars => RunInv'
<1> SUFFICES ASSUME Q!TypeOK, RunInv, [Next]_vars PROVE RunInv'
  OBVIOUS
<1>1. [Q!Next]_(Q!vars) /\ Q!TypeOK'
  BY QueueStep, QueueTypeStep
<1>2. ASSUME UNCHANGED <<queueVars, runVars, task>> PROVE RunInv'
  BY <1>2 DEF RunInv, RunsTypeOK, TaskInv, FreshRuns, CandidatesBacked, queueVars, runVars
<1> USE DEF Q!TypeOK, Q!JobsTypeOK, Q!WorkersTypeOK, Q!WorkerState, Q!JobRow
<1>3. ASSUME NEW w \in Workers, LeaseNextJob(w) PROVE RunInv'
  <2>1. PICK j \in Jobs :
          /\ jobs' = [jobs EXCEPT ![j] = [state |-> "leased", attempts |-> jobs[j].attempts + 1,
                                          leasedBy |-> w]]
          /\ workers' = [workers EXCEPT ![w] =
                           [phase |-> "process", job |-> j, attempts |-> jobs[j].attempts + 1]]
    BY <1>3 DEF LeaseNextJob, Q!LeaseNextJob
  <2>2. workers[w].phase # "process" /\ UNCHANGED <<runVars, task>>
    BY <1>3 DEF LeaseNextJob, Q!LeaseNextJob
  <2>3. task[w].step = "read"
    BY <2>2 DEF RunInv, TaskInv
  <2>4. /\ \A v \in Workers \ {w} : workers'[v] = workers[v]
        /\ workers'[w].job \in Jobs /\ workers'[w].attempts # 0
        /\ jobs'[workers'[w].job].state # "absent"
    BY <2>1
  <2> QED
    BY <1>1, <2>2, <2>3, <2>4, WorkerMoves
<1>4. ASSUME NEW w \in Workers, CompleteJob(w) \/ FailJob(w) \/ Crash(w) PROVE RunInv'
  <2>1. /\ \A v \in Workers \ {w} : workers'[v] = workers[v]
        /\ workers'[w].phase # "process"
        /\ UNCHANGED runVars
    BY <1>4 DEF CompleteJob, FailJob, Crash, Q!CompleteJob, Q!FailJob, Q!Crash, Q!Idle
  <2>2. \/ task' = [task EXCEPT ![w] = NoTask]
        \/ UNCHANGED task /\ workers[w].phase # "process"
    BY <1>4 DEF CompleteJob, FailJob, Crash, Q!CompleteJob, Q!FailJob
  <2>3. \/ task' = [task EXCEPT ![w] = NoTask]
        \/ UNCHANGED task /\ task[w].step = "read"
    BY <2>2 DEF RunInv, TaskInv
  <2> QED
    BY <1>1, <2>1, <2>3, WorkerMoves
<1>5. CASE UNCHANGED vars \/ AttachEvidence \/ \E r \in Jobs : ListRanking(r)
  BY <1>2, <1>5 DEF vars, AttachEvidence, ListRanking
<1> QED
  BY <1>1, <1>3, <1>4, <1>5, ClientStep, ProcessStep DEF Next, Worker

\* Initially there is no run, no ranking and no file.
LEMMA RunInvInit == Init => RunInv
  BY DEF Init, Q!Init, Q!Idle, Q!NoRow, RunInv, RunsTypeOK, TaskInv, FreshRuns, CandidatesBacked,
         NoRun, NoTask, RunStatus, Step

-----------------------------------------------------------------------------
(***************************************************************************)
(* What a client is listing.                                               *)
(***************************************************************************)
\* The rows being served and those shown with evidence are rows of the table.
ListingTypeOK == listing \in [step : {"ranked", "served"}, rows : SUBSET Row, evidence : SUBSET Row]

\* The rows stored for a run are typed.
LEMMA RowsStored == ASSUME RunInv, NEW r \in Jobs PROVE Rows(r) \subseteq Row
<1>1. candidates[r] \subseteq Symbols \X Nat
  BY DEF RunInv, RunsTypeOK
<1> QED
  BY <1>1 DEF Rows, Row

\* Only the two queries of ListCandidates touch the listing.
LEMMA ListingSteps ==
  ASSUME [Next]_vars
  PROVE  UNCHANGED listing \/ AttachEvidence \/ \E r \in Jobs : ListRanking(r)
<1>1. ASSUME NEW r \in Jobs,
             CreateBacktest(r) \/ BackoffEnds(r) \/ OrphanLapses(r) \/ LeaseOutlived(r)
      PROVE  UNCHANGED listing
  BY <1>1 DEF CreateBacktest, BackoffEnds, OrphanLapses, LeaseOutlived
<1>2. ASSUME NEW w \in Workers, Worker(w) \/ CompleteReplyLost(w) \/ Crash(w)
      PROVE  UNCHANGED listing
  BY <1>2 DEF Worker, LeaseNextJob, ReadRun, SetRunning, SaveArtifact, CompleteBacktest, CallFails,
              FailIfTerminal, CompleteJob, FailJob, Simulate, CompleteReplyLost, Crash, Goto, Returns
<1> QED
  BY <1>1, <1>2 DEF Next, vars

LEMMA ListingTypeStep == RunInv /\ ListingTypeOK /\ [Next]_vars => ListingTypeOK'
<1> SUFFICES ASSUME RunInv, ListingTypeOK, [Next]_vars PROVE ListingTypeOK'
  OBVIOUS
<1>1. CASE UNCHANGED listing
  BY <1>1 DEF ListingTypeOK
<1>2. ASSUME NEW r \in Jobs, ListRanking(r) PROVE ListingTypeOK'
  <2>1. Selected(r) \subseteq Row
    BY RowsStored DEF Selected
  <2>2. listing' = [step |-> IF Selected(r) = {} THEN "served" ELSE "ranked",
                    rows |-> Selected(r), evidence |-> {}]
    BY <1>2 DEF ListRanking
  <2> QED
    BY <2>1, <2>2 DEF ListingTypeOK
<1>3. CASE AttachEvidence
  BY <1>3 DEF AttachEvidence, EvidenceOf, ListingTypeOK
<1> QED
  BY <1>1, <1>2, <1>3, ListingSteps

-----------------------------------------------------------------------------
\* The invariant of the tables.
PipelineInv == Q!TypeOK /\ RunInv /\ ListingTypeOK

LEMMA PipelineInvariant == Spec => []PipelineInv
<1>1. Init => PipelineInv
  <2>1. Init => Q!TypeOK
    BY QueueTypeInit DEF Init
  <2>2. Init => ListingTypeOK
    BY DEF Init, NoListing, ListingTypeOK
  <2> QED
    BY <2>1, <2>2, RunInvInit DEF PipelineInv
<1>2. PipelineInv /\ [Next]_vars => PipelineInv'
  BY QueueStep, QueueTypeStep, RunInvStep, ListingTypeStep DEF PipelineInv
<1> QED
  BY <1>1, <1>2, PTL DEF Spec

\* Every row, file, task and listing has its type, and a completed run has a result.
THEOREM BacktestTypeCorrect == Spec => []TypeOK
<1>1. PipelineInv => TypeOK
  BY DEF PipelineInv, RunInv, RunsTypeOK, ListingTypeOK, TypeOK
<1> QED
  BY <1>1, PipelineInvariant, PTL

\* Whatever faults occur and however many workers race on one run, a stored ranking
\* comes from the execution the run records, whose artifact is on disk, and holds
\* only authorized symbols.
THEOREM RankingsBacked == Spec => []CandidatesBacked
<1>1. PipelineInv => CandidatesBacked
  BY DEF PipelineInv, RunInv
<1> QED
  BY <1>1, PipelineInvariant, PTL

-----------------------------------------------------------------------------
(***************************************************************************)
(* Listings under every fault.  A run completed again must not store rows  *)
(* that a listing has seen: the execution being recorded is none of those  *)
(* whose rows are stored or listed, because every lease counts attempts up *)
(* and no two workers hold the same one.                                   *)
(***************************************************************************)
\* The execution n of run r is in the table or in what is being listed.
Shown(r, n) ==
  \/ \E c \in candidates[r] : c[2] = n
  \/ \E row \in listing.rows : row[1] = r /\ row[2][2] = n

Executing(w) == workers[w].phase = "process" /\ task[w].step # "failing"

FreshInv ==
  /\ \A w \in Workers : workers[w].phase = "process" =>
       workers[w].attempts <= jobs[workers[w].job].attempts
  /\ \A v, w \in Workers : v # w /\ workers[v].phase = "process" /\ workers[w].phase = "process"
       /\ workers[v].job = workers[w].job => workers[v].attempts # workers[w].attempts
  /\ \A r \in Jobs, n \in Nat : Shown(r, n) => n <= jobs[r].attempts
  /\ \A w \in Workers : Executing(w) => ~Shown(workers[w].job, workers[w].attempts)

\* What was listed is the whole ranking of a run, or all of it is gone.
SnapshotInv ==
  /\ \/ \E r \in Jobs : listing.rows = Rows(r)
     \/ listing.rows \cap StoredRows = {}
  /\ ListingNeverPartial

\* A ranking changes only where CompleteBacktest commits.
Records(w) ==
  /\ At(w, "record") /\ RecordResult(w)
  /\ Returns(w, TRUE) \/ Goto(w, "failing")

LEMMA CandidateSteps ==
  ASSUME [Next]_vars
  PROVE  UNCHANGED candidates \/ \E w \in Workers : Records(w)
<1>1. ASSUME NEW r \in Jobs, \/ CreateBacktest(r) \/ BackoffEnds(r) \/ OrphanLapses(r)
                            \/ LeaseOutlived(r) \/ ListRanking(r)
      PROVE  UNCHANGED candidates
  BY <1>1 DEF CreateBacktest, BackoffEnds, OrphanLapses, LeaseOutlived, ListRanking, runVars
<1>2. ASSUME NEW w \in Workers, Worker(w) \/ CompleteReplyLost(w) \/ Crash(w)
      PROVE  UNCHANGED candidates \/ Records(w)
  <2>1. CASE CompleteBacktest(w) \/ CompleteReplyLost(w)
    BY <2>1 DEF CompleteBacktest, CompleteReplyLost, Records, runVars
  <2>2. CASE ~(CompleteBacktest(w) \/ CompleteReplyLost(w))
    BY <1>2, <2>2 DEF Worker, LeaseNextJob, ReadRun, SetRunning, SaveArtifact, CallFails,
                      FailIfTerminal, CompleteJob, FailJob, Simulate, Crash, runVars
  <2> QED
    BY <2>1, <2>2
<1>3. CASE AttachEvidence \/ UNCHANGED vars
  BY <1>3 DEF AttachEvidence, vars, runVars
<1> QED
  BY <1>1, <1>2, <1>3 DEF Next

\* Only a lease counts attempts, and it counts up.
LEMMA AttemptsGrow ==
  ASSUME Q!TypeOK, [Next]_vars
  PROVE  \A j \in Jobs : jobs[j].attempts \in Nat /\ jobs'[j].attempts \in Nat
                         /\ jobs[j].attempts <= jobs'[j].attempts
<1> USE DEF Q!TypeOK, Q!JobsTypeOK, Q!WorkersTypeOK, Q!JobRow, Q!WorkerState
<1>0. [Q!Next]_(Q!vars)
  BY QueueStep
<1>1. CASE UNCHANGED Q!vars
  BY <1>1 DEF Q!vars
<1>2. CASE \E j \in Jobs : Q!Enqueue(j) \/ Q!BackoffEnds(j) \/ Q!OrphanLapses(j) \/ Q!LeaseOutlived(j)
  BY <1>2 DEF Q!Enqueue, Q!BackoffEnds, Q!OrphanLapses, Q!LeaseOutlived
<1>3. CASE \E w \in Workers : Q!LeaseNextJob(w)
  BY <1>3 DEF Q!LeaseNextJob
<1>4. CASE \E w \in Workers : Q!CompleteJob(w) \/ Q!FailJob(w)
  BY <1>4 DEF Q!CompleteJob, Q!FailJob, Q!Release, Q!Releasable, Q!line
<1>5. CASE \E w \in Workers : \/ Q!MarkDocumentFailed(w) \/ Q!Crash(w)
                             \/ \E ok \in BOOLEAN : Q!ProcessReturns(w, ok)
  BY <1>5 DEF Q!MarkDocumentFailed, Q!Crash, Q!ProcessReturns
<1> QED
  BY <1>0, <1>1, <1>2, <1>3, <1>4, <1>5 DEF Q!Next

\* A worker in processBacktest was there before, unless it has just leased.
Continues(w) ==
  workers'[w].phase = "process" =>
    /\ workers[w].phase = "process"
    /\ workers'[w].job = workers[w].job /\ workers'[w].attempts = workers[w].attempts
    /\ task[w].step = "failing" => task'[w].step = "failing"

LEMMA WorkersContinue ==
  ASSUME Q!TypeOK, RunInv, [Next]_vars, \A w \in Workers : ~LeaseNextJob(w)
  PROVE  \A w \in Workers : Continues(w)
<1> USE DEF Q!TypeOK, Q!WorkersTypeOK, Q!WorkerState, RunInv, RunsTypeOK, Continues
<1>1. CASE UNCHANGED <<workers, task>>
  BY <1>1
<1>2. ASSUME NEW w \in Workers, NEW ok \in BOOLEAN, Returns(w, ok) PROVE \A v \in Workers : Continues(v)
  BY <1>2 DEF Returns, Q!ProcessReturns
<1>3. ASSUME NEW w \in Workers, NEW s \in Step, task[w].step # "failing", Goto(w, s)
      PROVE  \A v \in Workers : Continues(v)
  BY <1>3 DEF Goto, queueVars
<1>4. ASSUME NEW w \in Workers, CompleteJob(w) \/ FailJob(w) \/ Crash(w)
      PROVE  \A v \in Workers : Continues(v)
  BY <1>4 DEF CompleteJob, FailJob, Crash, Q!CompleteJob, Q!FailJob, Q!Crash, Q!Idle
<1>5. ASSUME NEW w \in Workers, NEW proposed \in SUBSET Symbols, Simulate(w, proposed)
      PROVE  \A v \in Workers : Continues(v)
  BY <1>5 DEF Simulate, At, queueVars
<1>6. ASSUME NEW w \in Workers,
             \/ ReadRun(w) \/ SetRunning(w) \/ SaveArtifact(w) \/ CompleteBacktest(w)
             \/ CompleteReplyLost(w) \/ CallFails(w) \/ FailIfTerminal(w)
      PROVE  \A v \in Workers : Continues(v)
  <2>1. \/ \E ok \in BOOLEAN : Returns(w, ok)
        \/ \E s \in Step : task[w].step # "failing" /\ Goto(w, s)
    BY <1>6 DEF ReadRun, SetRunning, SaveArtifact, CompleteBacktest, CompleteReplyLost, CallFails,
                FailIfTerminal, At, Step
  <2> QED
    BY <1>2, <1>3, <2>1
<1>7. ASSUME NEW r \in Jobs, \/ CreateBacktest(r) \/ BackoffEnds(r) \/ OrphanLapses(r)
                            \/ LeaseOutlived(r) \/ ListRanking(r)
      PROVE  UNCHANGED <<workers, task>>
  BY <1>7 DEF CreateBacktest, BackoffEnds, OrphanLapses, LeaseOutlived, ListRanking, Q!Enqueue,
              Q!BackoffEnds, Q!OrphanLapses, Q!LeaseOutlived, queueVars
<1>8. CASE AttachEvidence \/ UNCHANGED vars
  BY <1>1, <1>8 DEF AttachEvidence, vars, queueVars
<1> QED
  BY <1>1, <1>4, <1>5, <1>6, <1>7, <1>8 DEF Next, Worker

\* What is listed is taken from what is stored.
LEMMA NothingElseShown ==
  ASSUME [Next]_vars, UNCHANGED candidates, NEW r \in Jobs, NEW n \in Nat, Shown(r, n)'
  PROVE  Shown(r, n)
<1>1. CASE UNCHANGED listing
  BY <1>1 DEF Shown
<1>2. CASE AttachEvidence
  <2>1. listing'.rows = listing.rows
    BY <1>2 DEF AttachEvidence
  <2> QED
    BY <2>1 DEF Shown
<1>3. ASSUME NEW q \in Jobs, ListRanking(q) PROVE Shown(r, n)
  <2>1. listing'.rows \subseteq Rows(q)
    BY <1>3 DEF ListRanking, Selected
  <2>2. ASSUME NEW row \in listing'.rows, row[1] = r, row[2][2] = n PROVE Shown(r, n)
    <3>1. PICK c \in candidates[q] : row = <<q, c>>
      BY <2>1, <2>2 DEF Rows
    <3> QED
      BY <2>2, <3>1 DEF Shown
  <2> QED
    BY <2>2 DEF Shown
<1> QED
  BY <1>1, <1>2, <1>3, ListingSteps

\* The commit shows its own execution and hides that of the earlier rows.
LEMMA RecordShows ==
  ASSUME Q!TypeOK, RunInv, NEW w \in Workers, Records(w)
  PROVE  /\ workers[w].job \in Jobs /\ workers[w].attempts \in Nat /\ Executing(w)
         /\ candidates' = [candidates EXCEPT ![workers[w].job] = task[w].proposed \X {workers[w].attempts}]
         /\ UNCHANGED <<jobs, listing>> /\ ~Executing(w)'
         /\ \A r \in Jobs, n \in Nat : Shown(r, n)' =>
              Shown(r, n) \/ (r = workers[w].job /\ n = workers[w].attempts)
<1>1. workers[w].job \in Jobs /\ workers[w].attempts \in Nat /\ Executing(w)
  BY DEF Records, At, Executing, RunInv, TaskInv, Q!TypeOK, Q!WorkersTypeOK, Q!WorkerState
<1>2. candidates' = [candidates EXCEPT ![workers[w].job] = task[w].proposed \X {workers[w].attempts}]
  BY DEF Records, RecordResult, Ranking
<1>3. UNCHANGED <<jobs, listing>>
  BY DEF Records, Returns, Goto, queueVars, Q!ProcessReturns
<1>4. ~Executing(w)'
  <2>1. CASE Returns(w, TRUE)
    BY <2>1 DEF Returns, Q!ProcessReturns, Executing, Q!TypeOK, Q!WorkersTypeOK, Q!WorkerState
  <2>2. CASE Goto(w, "failing")
    BY <2>2 DEF Goto, Executing, RunInv, RunsTypeOK
  <2> QED
    BY <2>1, <2>2 DEF Records
<1>5. ASSUME NEW r \in Jobs, NEW n \in Nat, Shown(r, n)'
      PROVE  Shown(r, n) \/ (r = workers[w].job /\ n = workers[w].attempts)
  <2>1. CASE \E row \in listing'.rows : row[1] = r /\ row[2][2] = n
    BY <1>3, <2>1 DEF Shown
  <2>2. ASSUME NEW c \in candidates'[r], c[2] = n
        PROVE  Shown(r, n) \/ (r = workers[w].job /\ n = workers[w].attempts)
    <3>1. candidates \in [Jobs -> SUBSET (Symbols \X Nat)]
      BY DEF RunInv, RunsTypeOK
    <3>2. CASE r = workers[w].job
      BY <1>2, <2>2, <3>1, <3>2
    <3>3. CASE r # workers[w].job
      <4>1. c \in candidates[r]
        BY <1>2, <2>2, <3>1, <3>3
      <4> QED
        BY <2>2, <4>1 DEF Shown
    <3> QED
      BY <3>2, <3>3
  <2> QED
    BY <1>5, <2>1, <2>2 DEF Shown
<1> QED
  BY <1>1, <1>2, <1>3, <1>4, <1>5

LEMMA FreshStep == PipelineInv /\ FreshInv /\ [Next]_vars => FreshInv'
<1> SUFFICES ASSUME PipelineInv, FreshInv, [Next]_vars PROVE FreshInv'
  OBVIOUS
<1>0. Q!TypeOK /\ RunInv /\ Q!TypeOK'
  BY QueueStep, QueueTypeStep DEF PipelineInv
<1>1. \A j \in Jobs : /\ jobs[j].attempts \in Nat /\ jobs'[j].attempts \in Nat
                      /\ jobs[j].attempts <= jobs'[j].attempts
  BY <1>0, AttemptsGrow
<1>2. ASSUME NEW w \in Workers
      PROVE  /\ workers[w].phase = "process" => workers[w].job \in Jobs
             /\ workers[w].attempts \in Nat /\ workers'[w].attempts \in Nat
  BY <1>0 DEF RunInv, TaskInv, Q!TypeOK, Q!WorkersTypeOK, Q!WorkerState
<1>s. ASSUME NEW v \in Workers, NEW r \in Jobs, NEW n \in Nat,
             workers'[v].job = r, workers'[v].attempts = n
      PROVE  Shown(workers[v].job, workers[v].attempts)' <=> Shown(r, n)'
  BY <1>s DEF Shown
<1>3. ASSUME NEW w \in Workers, LeaseNextJob(w) PROVE FreshInv'
  <2>1. PICK j \in Jobs :
          /\ jobs' = [jobs EXCEPT ![j] = [state |-> "leased", attempts |-> jobs[j].attempts + 1,
                                          leasedBy |-> w]]
          /\ workers' = [workers EXCEPT ![w] =
                           [phase |-> "process", job |-> j, attempts |-> jobs[j].attempts + 1]]
    BY <1>3 DEF LeaseNextJob, Q!LeaseNextJob
  <2>2. UNCHANGED <<candidates, task, listing>>
    BY <1>3 DEF LeaseNextJob, runVars
  <2>3. /\ workers'[w] = [phase |-> "process", job |-> j, attempts |-> jobs[j].attempts + 1]
        /\ \A v \in Workers \ {w} : workers'[v] = workers[v]
        /\ jobs'[j].attempts = jobs[j].attempts + 1
    BY <1>0, <2>1 DEF Q!TypeOK, Q!WorkersTypeOK, Q!JobsTypeOK
  <2>4. ~(jobs[j].attempts + 1 <= jobs[j].attempts) /\ jobs[j].attempts + 1 \in Nat
    BY <1>1
  <2>5. ASSUME NEW v \in Workers, workers'[v].phase = "process"
        PROVE  workers'[v].attempts <= jobs'[workers'[v].job].attempts
    <3>1. CASE v = w
      BY <1>1, <2>3, <2>4, <3>1
    <3>2. CASE v # w
      <4>1. /\ workers'[v] = workers[v] /\ workers[v].job \in Jobs
            /\ workers[v].attempts <= jobs[workers[v].job].attempts
        BY <1>2, <2>3, <2>5, <3>2 DEF FreshInv
      <4> QED
        BY <1>1, <1>2, <4>1
    <3> QED
      BY <3>1, <3>2
  <2>6. ASSUME NEW u \in Workers, NEW v \in Workers, u # v, workers'[u].phase = "process",
               workers'[v].phase = "process", workers'[u].job = workers'[v].job
        PROVE  workers'[u].attempts # workers'[v].attempts
    <3>1. ASSUME NEW x \in Workers \ {w}, workers'[x].phase = "process", workers'[x].job = j
          PROVE  workers'[x].attempts # jobs[j].attempts + 1
      <4>1. workers[x].attempts <= jobs[j].attempts /\ workers'[x] = workers[x]
        BY <2>3, <3>1 DEF FreshInv
      <4> QED
        BY <2>4, <4>1
    <3>2. CASE u = w \/ v = w
      BY <2>3, <2>6, <3>1, <3>2
    <3>3. CASE u # w /\ v # w
      BY <2>3, <2>6, <3>3 DEF FreshInv
    <3> QED
      BY <3>2, <3>3
  <2>7. \A r \in Jobs, n \in Nat : Shown(r, n)' <=> Shown(r, n)
    BY <2>2 DEF Shown
  <2>8. ASSUME NEW r \in Jobs, NEW n \in Nat, Shown(r, n)' PROVE n <= jobs'[r].attempts
    <3>1. n <= jobs[r].attempts
      BY <2>7, <2>8 DEF FreshInv
    <3> QED
      BY <1>1, <3>1
  <2>9. ASSUME NEW v \in Workers, Executing(v)' PROVE ~Shown(workers[v].job, workers[v].attempts)'
    <3>1. CASE v = w
      <4>1. PICK n \in Nat : n = jobs[j].attempts + 1
        BY <2>4
      <4>2. ~Shown(j, n)
        BY <2>4, <4>1 DEF FreshInv
      <4> QED
        BY <1>s, <2>3, <2>7, <3>1, <4>1, <4>2
    <3>2. CASE v # w
      <4>1. Executing(v) /\ workers'[v] = workers[v]
        BY <2>2, <2>3, <2>9, <3>2 DEF Executing
      <4>2. PICK r \in Jobs, n \in Nat : r = workers[v].job /\ n = workers[v].attempts
        BY <1>2, <4>1 DEF Executing
      <4>3. ~Shown(r, n)
        BY <4>1, <4>2 DEF FreshInv
      <4> QED
        BY <1>s, <2>7, <4>1, <4>2, <4>3
    <3> QED
      BY <3>1, <3>2
  <2> QED
    BY <2>5, <2>6, <2>8, <2>9 DEF FreshInv
<1>4. ASSUME \A w \in Workers : Continues(w),
             \A r \in Jobs, n \in Nat : Shown(r, n)' =>
               \/ Shown(r, n)
               \/ \E w \in Workers : /\ Executing(w) /\ ~Executing(w)'
                                     /\ r = workers[w].job /\ n = workers[w].attempts
      PROVE  FreshInv'
  <2>1. ASSUME NEW v \in Workers, workers'[v].phase = "process"
        PROVE  /\ workers[v].phase = "process" /\ workers'[v].job = workers[v].job
               /\ workers'[v].attempts = workers[v].attempts /\ workers[v].job \in Jobs
    BY <1>2, <1>4, <2>1 DEF Continues
  <2>2. ASSUME NEW v \in Workers, workers'[v].phase = "process"
        PROVE  workers'[v].attempts <= jobs'[workers'[v].job].attempts
    <3>1. workers[v].attempts <= jobs[workers[v].job].attempts
      BY <2>1, <2>2 DEF FreshInv
    <3> QED
      BY <1>1, <1>2, <2>1, <2>2, <3>1
  <2>3. ASSUME NEW u \in Workers, NEW v \in Workers, u # v, workers'[u].phase = "process",
               workers'[v].phase = "process", workers'[u].job = workers'[v].job
        PROVE  workers'[u].attempts # workers'[v].attempts
    BY <2>1, <2>3 DEF FreshInv
  <2>4. ASSUME NEW r \in Jobs, NEW n \in Nat, Shown(r, n)' PROVE n <= jobs'[r].attempts
    <3>1. CASE Shown(r, n)
      <4>1. n <= jobs[r].attempts
        BY <3>1 DEF FreshInv
      <4> QED
        BY <1>1, <4>1
    <3>2. ASSUME NEW w \in Workers, Executing(w), r = workers[w].job, n = workers[w].attempts
          PROVE  n <= jobs'[r].attempts
      <4>1. n <= jobs[r].attempts
        BY <3>2 DEF FreshInv, Executing
      <4> QED
        BY <1>1, <4>1
    <3> QED
      BY <1>4, <2>4, <3>1, <3>2
  <2>5. ASSUME NEW v \in Workers, Executing(v)', Shown(workers[v].job, workers[v].attempts)'
        PROVE  FALSE
    <3>1. /\ Executing(v) /\ workers'[v].job = workers[v].job /\ workers[v].phase = "process"
          /\ workers'[v].attempts = workers[v].attempts /\ workers[v].job \in Jobs
      BY <1>4, <2>1, <2>5 DEF Executing, Continues
    <3>2. PICK r \in Jobs, n \in Nat : r = workers[v].job /\ n = workers[v].attempts
      BY <1>2, <3>1
    <3>3. ~Shown(r, n)
      BY <3>1, <3>2 DEF FreshInv
    <3>4. Shown(r, n)'
      BY <1>s, <2>5, <3>1, <3>2
    <3>5. PICK w \in Workers : /\ Executing(w) /\ ~Executing(w)'
                               /\ r = workers[w].job /\ n = workers[w].attempts
      BY <1>4, <3>3, <3>4
    <3>6. w # v
      BY <2>5, <3>5
    <3> QED
      BY <3>1, <3>2, <3>5, <3>6 DEF FreshInv, Executing
  <2> QED
    BY <2>2, <2>3, <2>4, <2>5 DEF FreshInv
<1>5. CASE \A w \in Workers : ~LeaseNextJob(w)
  <2>1. \A w \in Workers : Continues(w)
    BY <1>0, <1>5, WorkersContinue
  <2>2. CASE UNCHANGED candidates
    BY <1>4, <2>1, <2>2, NothingElseShown
  <2>3. ASSUME NEW w \in Workers, Records(w) PROVE FreshInv'
    <3>1. /\ Executing(w) /\ ~Executing(w)'
          /\ \A r \in Jobs, n \in Nat : Shown(r, n)' =>
               Shown(r, n) \/ (r = workers[w].job /\ n = workers[w].attempts)
      BY <1>0, <2>3, RecordShows
    <3> QED
      BY <1>4, <2>1, <3>1
  <2> QED
    BY <2>2, <2>3, CandidateSteps
<1> QED
  BY <1>3, <1>5

LEMMA SnapshotStep == PipelineInv /\ FreshInv /\ SnapshotInv /\ [Next]_vars => SnapshotInv'
<1> SUFFICES ASSUME PipelineInv, FreshInv, SnapshotInv, [Next]_vars PROVE SnapshotInv'
  OBVIOUS
<1>1. CASE UNCHANGED <<candidates, listing>>
  BY <1>1 DEF SnapshotInv, ListingNeverPartial, StoredRows, Rows
<1>2. ASSUME NEW r \in Jobs, ListRanking(r) PROVE SnapshotInv'
  <2>1. listing' = [step |-> IF Selected(r) = {} THEN "served" ELSE "ranked",
                    rows |-> Selected(r), evidence |-> {}]
    BY <1>2 DEF ListRanking
  <2>2. UNCHANGED candidates
    BY <1>2 DEF ListRanking, runVars
  <2>3. Selected(r) = Rows(r) \/ Selected(r) = {}
    BY DEF Selected
  <2>4. Rows(r)' = Rows(r)
    BY <2>2 DEF Rows
  <2> QED
    BY <2>1, <2>3, <2>4 DEF SnapshotInv, ListingNeverPartial
<1>3. CASE AttachEvidence
  <2>1. /\ listing'.step = "served" /\ listing'.rows = listing.rows
        /\ listing'.evidence = listing.rows \cap StoredRows
    BY <1>3 DEF AttachEvidence, EvidenceOf, PipelineInv, ListingTypeOK
  <2>2. UNCHANGED candidates
    BY <1>3 DEF AttachEvidence, runVars
  <2>3. StoredRows' = StoredRows /\ \A r \in Jobs : Rows(r)' = Rows(r)
    BY <2>2 DEF StoredRows, Rows
  <2>4. ASSUME NEW r \in Jobs, listing.rows = Rows(r) PROVE listing.rows \subseteq StoredRows
    BY <2>4 DEF StoredRows
  <2> QED
    BY <2>1, <2>3, <2>4 DEF SnapshotInv, ListingNeverPartial
<1>4. ASSUME NEW w \in Workers, Records(w) PROVE SnapshotInv'
  <2>1. PICK q \in Jobs, n \in Nat :
          /\ q = workers[w].job /\ n = workers[w].attempts /\ Executing(w) /\ UNCHANGED listing
          /\ candidates' = [candidates EXCEPT ![q] = task[w].proposed \X {n}]
    BY <1>4, RecordShows DEF PipelineInv
  <2>2. ~Shown(q, n)
    BY <2>1 DEF FreshInv
  <2>3. candidates'[q] = task[w].proposed \X {n} /\ \A r \in Jobs \ {q} : candidates'[r] = candidates[r]
    BY <2>1 DEF PipelineInv, RunInv, RunsTypeOK
  <2>4. listing.rows \cap Rows(q)' = {}
    <3>1. ASSUME NEW row \in Rows(q)' PROVE row[1] = q /\ row[2][2] = n
      <4>1. PICK c \in candidates'[q] : row = <<q, c>>
        BY <3>1 DEF Rows
      <4> QED
        BY <2>3, <4>1
    <3> QED
      BY <2>2, <3>1 DEF Shown
  <2>5. \A r \in Jobs \ {q} : Rows(r)' = Rows(r)
    BY <2>3 DEF Rows
  <2>6. StoredRows' = Rows(q)' \cup UNION {Rows(r) : r \in Jobs \ {q}}
    <3>1. StoredRows' = UNION {Rows(r)' : r \in Jobs}
      BY DEF StoredRows
    <3>2. \A r \in Jobs : r = q \/ Rows(r)' = Rows(r)
      BY <2>5
    <3> QED
      BY <2>1, <2>5, <3>1, <3>2
  <2>7. \A r \in Jobs : \A row \in Rows(r) : row[1] = r
    BY DEF Rows
  <2>8. CASE listing.rows \cap StoredRows = {}
    <3>1. listing.rows \cap StoredRows' = {}
      BY <2>4, <2>6, <2>8 DEF StoredRows
    <3> QED
      BY <2>1, <3>1 DEF SnapshotInv, ListingNeverPartial
  <2>9. ASSUME NEW r \in Jobs, listing.rows = Rows(r) PROVE SnapshotInv'
    <3>1. listing.step = "served" => listing.rows = listing.evidence \/ listing.rows \cap StoredRows = {}
      BY DEF SnapshotInv, ListingNeverPartial
    <3>2. CASE r = q
      <4>1. listing.rows \cap StoredRows' = {}
        BY <2>4, <2>6, <2>7, <2>9, <3>2
      <4> QED
        BY <2>1, <4>1 DEF SnapshotInv, ListingNeverPartial
    <3>3. CASE r # q
      BY <2>1, <2>5, <2>8, <2>9, <3>1, <3>3 DEF SnapshotInv, ListingNeverPartial
    <3> QED
      BY <3>2, <3>3
  <2> QED
    BY <2>8, <2>9 DEF SnapshotInv
<1>5. UNCHANGED listing \/ AttachEvidence \/ \E r \in Jobs : ListRanking(r)
  BY ListingSteps
<1> QED
  BY <1>1, <1>2, <1>3, <1>4, <1>5, CandidateSteps

\* However often a run is completed again while it is listed, by whichever workers
\* and under whichever faults, a listing is never shown in part: each position comes
\* with its evidence, or none does and none is stored any more.
THEOREM ListingsNeverPartial == Spec => []ListingNeverPartial
<1>1. Init => FreshInv /\ SnapshotInv
  BY DEF Init, Q!Init, Q!Idle, Q!NoRow, NoListing, FreshInv, SnapshotInv, ListingNeverPartial,
         Shown, Executing
<1>2. PipelineInv /\ FreshInv /\ SnapshotInv /\ [Next]_vars => (FreshInv /\ SnapshotInv)'
  BY FreshStep, SnapshotStep
<1>3. SnapshotInv => ListingNeverPartial
  BY DEF SnapshotInv
<1> QED
  BY <1>1, <1>2, <1>3, PipelineInvariant, PTL DEF Spec

-----------------------------------------------------------------------------
(***************************************************************************)
(* Runs without outlived leases, lost answers and failing store calls.     *)
(* Workers may still crash anywhere, and the engine may fail.              *)
(***************************************************************************)
OnlyCrashes == Faults \subseteq {"crash"}

LEMMA QueueExclusiveStep ==
  ASSUME OnlyCrashes
  PROVE  Q!TypeOK /\ Q!LeaseIsExclusive /\ [Q!Next]_(Q!vars) => Q!LeaseIsExclusive'
<1>1. QP!LeaseOutlastsWork
  BY DEF OnlyCrashes, QP!LeaseOutlastsWork
<1> QED
  BY <1>1, QueueAssumption, QP!ExclusiveStep
  DEF Q!line, Q!vars, Q!Active, Q!Settled, Q!JobState, Q!Phase, Q!JobRow, Q!WorkerState, Q!Idle,
      Q!Holds, Q!Held, Q!Joins, Q!Leaves, Q!Leasable, Q!NextJob, Q!Enqueue, Q!LeaseNextJob,
      Q!ProcessReturns, Q!Releasable, Q!Release, Q!CompleteJob, Q!Terminal, Q!FailJob,
      Q!MarkDocumentFailed, Q!BackoffEnds, Q!OrphanLapses, Q!Fault, Q!Crash,
      Q!LeaseOutlived, Q!Next, Q!JobsTypeOK, Q!WorkersTypeOK, Q!TypeOK, QP!line, QP!vars,
      QP!Active, QP!Settled, QP!JobState, QP!Phase, QP!JobRow, QP!WorkerState, QP!Idle,
      QP!Holds, QP!Held, QP!Joins, QP!Leaves, QP!Leasable, QP!NextJob, QP!Enqueue,
      QP!LeaseNextJob, QP!ProcessReturns, QP!Releasable, QP!Release, QP!CompleteJob,
      QP!Terminal, QP!FailJob, QP!MarkDocumentFailed, QP!BackoffEnds, QP!OrphanLapses,
      QP!Fault, QP!Crash, QP!LeaseOutlived, QP!Next, QP!JobsTypeOK, QP!WorkersTypeOK,
      QP!TypeOK,
      Q!LeaseIsExclusive, QP!LeaseIsExclusive

\* What the exclusive holder of a job knows of its run: past the first read the
\* run is not completed, CompleteJob follows a completed run, and the last FailJob
\* a failed one.
HolderInv ==
  \A w \in Workers :
    /\ task[w].step # "read" => runs[workers[w].job].status # "completed"
    /\ workers[w].phase = "complete" => runs[workers[w].job].status = "completed"
    /\ workers[w].phase = "fail" /\ Q!Terminal(w) => runs[workers[w].job].status = "failed"

\* A listed ranking is still stored, and a served one has its evidence.
ListedInv ==
  /\ listing.step = "ranked" => listing.rows \subseteq StoredRows
  /\ ListingWhole

CrashInv == Q!LeaseIsExclusive /\ HolderInv /\ RankingHasCompletedRun /\ SettledTogether

\* A worker that acts on a run is the only one with its job, and the job is leased.
LEMMA OnlyHolder ==
  ASSUME Q!TypeOK, Q!LeaseIsExclusive, RunInv, NEW w \in Workers,
         workers[w].phase \in {"process", "complete", "fail"}
  PROVE  /\ workers[w].job \in Jobs
         /\ jobs[workers[w].job].state = "leased"
         /\ \A v \in Workers \ {w} : workers[v].phase \in {"process", "complete", "fail"} =>
              workers[v].job # workers[w].job
         /\ \A v \in Workers \ {w} : task[v].step # "read" => workers[v].job # workers[w].job
<1>1. workers[w].job \in Jobs
  BY DEF Q!TypeOK, Q!WorkersTypeOK, Q!WorkerState
<1>2. \A v \in Workers : workers[v].phase \in {"process", "complete", "fail"}
                           /\ workers[v].job = workers[w].job => v = w
  BY <1>1 DEF Q!LeaseIsExclusive, Q!Holds
<1>3. jobs[workers[w].job].state = "leased"
  BY <1>1 DEF Q!LeaseIsExclusive, Q!Holds
<1> QED
  BY <1>1, <1>2, <1>3 DEF RunInv, TaskInv

\* A step of a task changes at most the status of the worker's own run.
LEMMA HolderWrites ==
  ASSUME Q!TypeOK, RunInv, CrashInv, NEW w \in Workers, workers[w].phase = "process",
         UNCHANGED jobs,
         \A r \in Jobs \ {workers[w].job} :
           runs'[r] = runs[r] /\ candidates'[r] = candidates[r],
         candidates'[workers[w].job] # {} => runs'[workers[w].job].status = "completed",
         \A v \in Workers \ {w} : workers'[v] = workers[v] /\ task'[v] = task[v],
         workers'[w].job = workers[w].job, workers'[w].attempts = workers[w].attempts,
         task'[w].step # "read" => runs'[workers[w].job].status # "completed",
         workers'[w].phase = "complete" => runs'[workers[w].job].status = "completed",
         workers'[w].phase = "fail" /\ Q!Terminal(w) => runs'[workers[w].job].status = "failed"
  PROVE  HolderInv' /\ RankingHasCompletedRun' /\ SettledTogether'
<1>1. /\ workers[w].job \in Jobs
      /\ jobs[workers[w].job].state = "leased"
      /\ \A v \in Workers \ {w} : workers[v].phase \in {"process", "complete", "fail"} =>
           workers[v].job # workers[w].job
      /\ \A v \in Workers \ {w} : task[v].step # "read" => workers[v].job # workers[w].job
  BY OnlyHolder DEF CrashInv
<1>2. \A v \in Workers \ {w} :
        v \in Workers /\ (workers[v].phase \in {"process", "complete", "fail"} => workers[v].job \in Jobs)
  BY DEF Q!TypeOK, Q!WorkersTypeOK, Q!WorkerState
<1>3. HolderInv'
  <2>1. ASSUME NEW v \in Workers \ {w}
        PROVE  /\ task'[v].step # "read" => runs'[workers'[v].job].status # "completed"
               /\ workers'[v].phase = "complete" => runs'[workers'[v].job].status = "completed"
               /\ workers'[v].phase = "fail" /\ Q!Terminal(v)' =>
                    runs'[workers'[v].job].status = "failed"
    <3>1. workers'[v] = workers[v] /\ task'[v] = task[v]
      BY <2>1
    <3>2. task[v].step # "read" => workers[v].phase = "process"
      BY <2>1 DEF RunInv, TaskInv
    <3> QED
      BY <1>1, <1>2, <2>1, <3>1, <3>2 DEF CrashInv, HolderInv, Q!Terminal
  <2> QED
    BY <2>1 DEF HolderInv, Q!Terminal
<1>4. RankingHasCompletedRun'
  BY <1>1 DEF CrashInv, RankingHasCompletedRun
<1>5. SettledTogether'
  BY <1>1 DEF CrashInv, SettledTogether
<1> QED
  BY <1>3, <1>4, <1>5
\* Every step of a task inside processBacktest keeps what the holder knows.
LEMMA HolderProcessStep ==
  ASSUME OnlyCrashes, Q!TypeOK, RunInv, CrashInv, NEW w \in Workers,
         \/ ReadRun(w) \/ SetRunning(w) \/ SaveArtifact(w) \/ CompleteBacktest(w)
         \/ CompleteReplyLost(w) \/ CallFails(w) \/ FailIfTerminal(w)
         \/ \E proposed \in SUBSET Symbols : Simulate(w, proposed)
  PROVE  HolderInv' /\ RankingHasCompletedRun' /\ SettledTogether'
<1> DEFINE r == workers[w].job
           others == \A v \in Workers \ {w} : workers'[v] = workers[v] /\ task'[v] = task[v]
           sameRuns == UNCHANGED <<runs, candidates>>
<1>0. /\ workers \in [Workers -> Q!WorkerState] /\ r \in Jobs /\ workers[w].phase = "process"
      /\ task \in [Workers -> [step : Step, proposed : SUBSET Symbols]]
      /\ runs \in [Jobs -> [status : RunStatus, result : Nat]]
      /\ candidates \in [Jobs -> SUBSET (Symbols \X Nat)]
  <2>1. workers[w].phase = "process"
    BY DEF ReadRun, SetRunning, SaveArtifact, CompleteBacktest, CompleteReplyLost, CallFails,
           FailIfTerminal, Simulate, At
  <2> QED
    BY <2>1 DEF RunInv, RunsTypeOK, TaskInv, Q!TypeOK, Q!WorkersTypeOK
<1>1. task[w].step # "read" => runs[r].status # "completed" /\ candidates[r] = {}
  BY <1>0 DEF CrashInv, HolderInv, RankingHasCompletedRun
<1>2. candidates[r] # {} => runs[r].status = "completed"
  BY <1>0 DEF CrashInv, RankingHasCompletedRun
<1>3. ASSUME NEW s \in Step, Goto(w, s)
      PROVE  /\ UNCHANGED <<jobs, workers>> /\ others
             /\ task'[w].step = s
  BY <1>0, <1>3 DEF Goto, queueVars
<1>4. ASSUME NEW ok \in BOOLEAN, Returns(w, ok)
      PROVE  /\ UNCHANGED jobs /\ others
             /\ task'[w].step = "read"
             /\ workers'[w].job = r /\ workers'[w].attempts = workers[w].attempts
             /\ workers'[w].phase = IF ok THEN "complete" ELSE "fail"
  BY <1>0, <1>4 DEF Returns, Q!ProcessReturns, NoTask, Q!WorkerState
<1>5. CASE ReadRun(w)
  <2>1. UNCHANGED <<runs, candidates>>
    BY <1>5 DEF ReadRun, runVars
  <2>2. CASE AlreadyCompleted(w) /\ Returns(w, TRUE)
    BY <1>0, <1>2, <1>4, <2>1, <2>2, HolderWrites DEF AlreadyCompleted
  <2>3. CASE ~AlreadyCompleted(w) /\ Goto(w, "mark")
    <3>1. "mark" \in Step
      BY DEF Step
    <3> QED
      BY <1>0, <1>2, <1>3, <2>1, <2>3, <3>1, HolderWrites DEF AlreadyCompleted
  <2> QED
    BY <1>5, <2>2, <2>3 DEF ReadRun
<1>6. CASE SetRunning(w)
  <2>1. /\ task[w].step # "read" /\ Goto(w, "simulate") /\ UNCHANGED candidates /\ "simulate" \in Step
        /\ runs' = [runs EXCEPT ![r].status = "running"]
    BY <1>6 DEF SetRunning, At, Step
  <2> QED
    BY <1>0, <1>1, <1>3, <2>1, HolderWrites
<1>7. CASE SaveArtifact(w)
  <2>1. task[w].step # "read" /\ Goto(w, "record") /\ UNCHANGED <<runs, candidates>> /\ "record" \in Step
    BY <1>7 DEF SaveArtifact, At, Step
  <2> QED
    BY <1>0, <1>1, <1>3, <2>1, HolderWrites
<1>8. CASE CompleteBacktest(w)
  <2>1. task[w].step # "read" /\ "failing" \in Step
    BY <1>8 DEF CompleteBacktest, At, Step
  <2>2. CASE RecordResult(w) /\ Returns(w, TRUE)
    <3>1. /\ \A q \in Jobs \ {r} : runs'[q] = runs[q] /\ candidates'[q] = candidates[q]
          /\ runs'[r].status = "completed"
      BY <1>0, <2>2 DEF RecordResult
    <3> QED
      BY <1>0, <1>4, <2>2, <3>1, HolderWrites
  <2>3. CASE UNCHANGED runVars /\ Goto(w, "failing")
    BY <1>0, <1>1, <1>3, <2>1, <2>3, HolderWrites DEF runVars
  <2> QED
    BY <1>8, <2>2, <2>3 DEF CompleteBacktest
<1>9. CASE CallFails(w)
  <2>1. task[w].step # "read" /\ Goto(w, "failing") /\ UNCHANGED <<runs, candidates>> /\ "failing" \in Step
    BY <1>9 DEF CallFails, OnlyCrashes, runVars, Step
  <2> QED
    BY <1>0, <1>1, <1>3, <2>1, HolderWrites
<1>10. CASE FailIfTerminal(w)
  <2>1. /\ task[w].step # "read" /\ Returns(w, FALSE) /\ UNCHANGED candidates
        /\ runs' = MarkFailed(w)
    BY <1>10 DEF FailIfTerminal, At, OnlyCrashes
  <2>2. /\ \A q \in Jobs \ {r} : runs'[q] = runs[q]
        /\ Q!Terminal(w) => runs'[r].status = "failed"
    BY <1>0, <2>1 DEF MarkFailed
  <2> QED
    BY <1>0, <1>1, <1>4, <2>1, <2>2, HolderWrites
<1>11. ASSUME NEW proposed \in SUBSET Symbols, Simulate(w, proposed)
       PROVE  HolderInv' /\ RankingHasCompletedRun' /\ SettledTogether'
  <2>1. /\ task[w].step # "read" /\ UNCHANGED <<jobs, workers, runs, candidates>>
        /\ others
    BY <1>0, <1>11 DEF Simulate, At, queueVars, runVars
  <2> QED
    BY <1>0, <1>1, <2>1, HolderWrites
<1>12. ~CompleteReplyLost(w)
  BY DEF CompleteReplyLost, OnlyCrashes
<1> QED
  BY <1>5, <1>6, <1>7, <1>8, <1>9, <1>10, <1>11, <1>12

\* Every step keeps it: the jobs settle as their runs did.
LEMMA CrashInvStep ==
  ASSUME OnlyCrashes
  PROVE  PipelineInv /\ CrashInv /\ [Next]_vars => CrashInv'
<1> SUFFICES ASSUME PipelineInv, CrashInv, [Next]_vars PROVE CrashInv'
  OBVIOUS
<1>0. Q!TypeOK /\ RunInv /\ Q!LeaseIsExclusive'
  BY QueueStep, QueueExclusiveStep DEF PipelineInv, CrashInv
<1> USE DEF Q!TypeOK, Q!JobsTypeOK, Q!WorkersTypeOK, Q!WorkerState, Q!JobRow
<1>1. ASSUME UNCHANGED <<jobs, workers, runs, candidates, task>> PROVE CrashInv'
  BY <1>0, <1>1 DEF CrashInv, HolderInv, RankingHasCompletedRun, SettledTogether, Q!Terminal
<1>2. ASSUME NEW r \in Jobs, CreateBacktest(r) PROVE CrashInv'
  <2>1. /\ jobs[r].state = "absent"
        /\ jobs' = [jobs EXCEPT ![r] = [state |-> "queued", attempts |-> 0, leasedBy |-> NoWorker]]
        /\ runs' = [runs EXCEPT ![r] = [status |-> "queued", result |-> 0]]
        /\ UNCHANGED <<workers, task, candidates>>
    BY <1>2 DEF CreateBacktest, Q!Enqueue
  <2>2. runs[r].status # "completed" /\ candidates[r] = {}
    BY <1>0, <2>1 DEF RunInv, RunsTypeOK, FreshRuns, CrashInv, RankingHasCompletedRun
  <2>3. \A w \in Workers : workers[w].phase \in {"process", "complete", "fail"} =>
          workers[w].job \in Jobs /\ workers[w].job # r
    BY <1>0, <2>1, OnlyHolder DEF CrashInv
  <2>4. \A w \in Workers : task[w].step # "read" => workers[w].phase = "process"
    BY <1>0 DEF RunInv, TaskInv
  <2>5. HolderInv'
    BY <1>0, <2>1, <2>3, <2>4 DEF CrashInv, HolderInv, Q!Terminal, RunInv, RunsTypeOK
  <2>6. RankingHasCompletedRun' /\ SettledTogether'
    BY <1>0, <2>1, <2>2 DEF CrashInv, RankingHasCompletedRun, SettledTogether, RunInv, RunsTypeOK
  <2> QED
    BY <1>0, <2>5, <2>6 DEF CrashInv
<1>3. ASSUME NEW r \in Jobs, BackoffEnds(r) \/ OrphanLapses(r) \/ LeaseOutlived(r) PROVE CrashInv'
  BY <1>1, <1>3 DEF BackoffEnds, OrphanLapses, LeaseOutlived, Q!BackoffEnds, Q!OrphanLapses,
                    Q!LeaseOutlived, runVars
<1>4. ASSUME NEW w \in Workers, LeaseNextJob(w) PROVE CrashInv'
  <2>1. PICK j \in Jobs :
          /\ jobs[j].state \notin {"completed", "failed"}
          /\ jobs' = [jobs EXCEPT ![j] = [state |-> "leased", attempts |-> jobs[j].attempts + 1,
                                          leasedBy |-> w]]
          /\ workers' = [workers EXCEPT ![w] =
                           [phase |-> "process", job |-> j, attempts |-> jobs[j].attempts + 1]]
    BY <1>4 DEF LeaseNextJob, Q!LeaseNextJob, Q!NextJob, Q!Leasable
  <2>2. workers[w].phase # "process" /\ UNCHANGED <<runs, candidates, task>>
    BY <1>4 DEF LeaseNextJob, Q!LeaseNextJob, runVars
  <2>3. task[w].step = "read"
    BY <1>0, <2>2 DEF RunInv, TaskInv
  <2>4. HolderInv'
    BY <1>0, <2>1, <2>2, <2>3 DEF CrashInv, HolderInv, Q!Terminal
  <2>5. RankingHasCompletedRun' /\ SettledTogether'
    BY <1>0, <2>1, <2>2 DEF CrashInv, RankingHasCompletedRun, SettledTogether
  <2> QED
    BY <1>0, <2>4, <2>5 DEF CrashInv
<1>5. ASSUME NEW w \in Workers, CompleteJob(w) \/ FailJob(w) \/ Crash(w) PROVE CrashInv'
  <2>1. /\ \A v \in Workers \ {w} : workers'[v] = workers[v] /\ task'[v] = task[v]
        /\ workers'[w].phase = "idle"
        /\ UNCHANGED <<runs, candidates>>
    BY <1>0, <1>5 DEF CompleteJob, FailJob, Crash, Q!CompleteJob, Q!FailJob, Q!Crash, Q!Idle,
                      RunInv, RunsTypeOK, runVars
  <2>2. task'[w].step = "read"
    <3>1. CASE Crash(w)
      BY <1>0, <3>1 DEF Crash, NoTask, RunInv, RunsTypeOK
    <3>2. CASE CompleteJob(w) \/ FailJob(w)
      <4>1. UNCHANGED task /\ workers[w].phase # "process"
        BY <3>2 DEF CompleteJob, FailJob, Q!CompleteJob, Q!FailJob
      <4> QED
        BY <1>0, <4>1 DEF RunInv, TaskInv
    <3> QED
      BY <1>5, <3>1, <3>2
  <2>3. HolderInv'
    <3>1. ASSUME NEW v \in Workers \ {w} PROVE workers'[v] = workers[v] /\ task'[v] = task[v]
      BY <2>1, <3>1
    <3> QED
      BY <2>1, <2>2, <3>1 DEF CrashInv, HolderInv, Q!Terminal
  <2>4. SettledTogether'
    <3>1. CASE UNCHANGED jobs
      BY <2>1, <3>1 DEF CrashInv, SettledTogether
    <3>2. CASE CompleteJob(w) /\ Q!Release(workers[w].job, "completed")
      BY <1>0, <2>1, <3>2 DEF CompleteJob, Q!CompleteJob, Q!Release, CrashInv, HolderInv,
                              SettledTogether
    <3>3. CASE FailJob(w) /\ Q!Release(workers[w].job, IF Q!Terminal(w) THEN "failed" ELSE "retryable")
      BY <1>0, <2>1, <3>3 DEF FailJob, Q!FailJob, Q!Release, CrashInv, HolderInv, SettledTogether
    <3> QED
      BY <1>5, <3>1, <3>2, <3>3 DEF CompleteJob, FailJob, Crash, Q!CompleteJob, Q!FailJob, Q!Crash
  <2> QED
    BY <1>0, <2>1, <2>3, <2>4 DEF CrashInv, RankingHasCompletedRun
<1>6. ASSUME NEW w \in Workers,
             \/ ReadRun(w) \/ SetRunning(w) \/ SaveArtifact(w) \/ CompleteBacktest(w)
             \/ CompleteReplyLost(w) \/ CallFails(w) \/ FailIfTerminal(w)
             \/ \E proposed \in SUBSET Symbols : Simulate(w, proposed)
      PROVE  CrashInv'
  BY <1>0, <1>6, HolderProcessStep DEF CrashInv
<1>7. CASE UNCHANGED vars \/ AttachEvidence \/ \E r \in Jobs : ListRanking(r)
  BY <1>1, <1>7 DEF vars, AttachEvidence, ListRanking, queueVars, runVars
<1> QED
  BY <1>2, <1>3, <1>4, <1>5, <1>6, <1>7 DEF Next, Worker
\* Initially nobody holds a job.
LEMMA CrashInvInit == Init => CrashInv
  BY DEF Init, Q!Init, Q!Idle, Q!NoRow, NoRun, NoTask, CrashInv, HolderInv, RankingHasCompletedRun,
         SettledTogether, Q!LeaseIsExclusive, Q!Holds

\* A stored ranking is never replaced: only a run in progress is completed, and it
\* has no ranking yet.
LEMMA RankingStays ==
  ASSUME OnlyCrashes, PipelineInv, CrashInv, [Next]_vars
  PROVE  StoredRows \subseteq StoredRows'
<1> SUFFICES \A r \in Jobs : candidates[r] \subseteq candidates'[r]
  BY DEF StoredRows, Rows
<1>1. CASE UNCHANGED candidates
  BY <1>1
<1>2. ASSUME NEW w \in Workers, At(w, "record"), RecordResult(w)
      PROVE  \A r \in Jobs : candidates[r] \subseteq candidates'[r]
  <2>1. workers[w].job \in Jobs /\ runs[workers[w].job].status # "completed"
    BY <1>2 DEF At, PipelineInv, RunInv, TaskInv, CrashInv, HolderInv
  <2>2. candidates[workers[w].job] = {}
    BY <2>1 DEF CrashInv, RankingHasCompletedRun
  <2> QED
    BY <1>2, <2>2 DEF RecordResult, PipelineInv, RunInv, RunsTypeOK
<1> QED
  BY <1>1, <1>2, CandidateSteps DEF Records

LEMMA ListedStep ==
  ASSUME OnlyCrashes
  PROVE  PipelineInv /\ CrashInv /\ ListedInv /\ [Next]_vars => ListedInv'
<1> SUFFICES ASSUME PipelineInv, CrashInv, ListedInv, [Next]_vars PROVE ListedInv'
  OBVIOUS
<1> USE DEF ListedInv, ListingWhole
<1>1. StoredRows \subseteq StoredRows'
  BY RankingStays
<1>2. CASE UNCHANGED listing
  BY <1>1, <1>2
<1>3. ASSUME NEW r \in Jobs, ListRanking(r) PROVE ListedInv'
  <2>1. Selected(r) \subseteq StoredRows
    BY DEF Selected, StoredRows
  <2>2. listing' = [step |-> IF Selected(r) = {} THEN "served" ELSE "ranked",
                    rows |-> Selected(r), evidence |-> {}]
    BY <1>3 DEF ListRanking
  <2> QED
    BY <1>1, <2>1, <2>2
<1>4. CASE AttachEvidence
  <2>1. listing.rows \subseteq StoredRows
    BY <1>4 DEF AttachEvidence
  <2>2. listing.rows = EvidenceOf(listing.rows)
    BY <2>1 DEF EvidenceOf
  <2>3. listing' = [listing EXCEPT !.step = "served", !.evidence = EvidenceOf(listing.rows)]
    BY <1>4 DEF AttachEvidence
  <2> QED
    BY <2>2, <2>3 DEF PipelineInv, ListingTypeOK
<1> QED
  BY <1>2, <1>3, <1>4, ListingSteps

LEMMA CrashInvariant == ASSUME OnlyCrashes PROVE Spec => [](CrashInv /\ ListedInv)
<1>1. Init => CrashInv /\ ListedInv
  BY CrashInvInit DEF Init, NoListing, ListedInv, ListingWhole
<1>2. PipelineInv /\ CrashInv /\ ListedInv /\ [Next]_vars => (CrashInv /\ ListedInv)'
  BY CrashInvStep, ListedStep
<1> QED
  BY <1>1, <1>2, PipelineInvariant, PTL DEF Spec

\* While leases outlast the work and the store answers, no ranking is stored without
\* the completed run behind it, whichever workers crash.
THEOREM RankingsProven == ASSUME OnlyCrashes PROVE Spec => []RankingHasCompletedRun
<1>1. CrashInv => RankingHasCompletedRun
  BY DEF CrashInv
<1> QED
  BY <1>1, CrashInvariant, PTL

\* Under the same assumption no crash separates the outcome of a run from that of
\* its job.
THEOREM RunsSettleWithJobs == ASSUME OnlyCrashes PROVE Spec => []SettledTogether
<1>1. CrashInv => SettledTogether
  BY DEF CrashInv
<1> QED
  BY <1>1, CrashInvariant, PTL

\* Under the same assumption the two queries of a listing see one ranking.
THEOREM ListingsWhole == ASSUME OnlyCrashes PROVE Spec => []ListingWhole
<1>1. ListedInv => ListingWhole
  BY DEF ListedInv
<1> QED
  BY <1>1, CrashInvariant, PTL
=============================================================================
