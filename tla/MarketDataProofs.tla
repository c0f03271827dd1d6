-------------------------- MODULE MarketDataProofs --------------------------
(***************************************************************************)
(* Theorems about MarketDataPipeline for any requests, workers, budget and *)
(* faults.                                                                 *)
(***************************************************************************)
EXTENDS MarketDataPipeline, FiniteSetTheorems, TLAPS

\* Overtaking is not counted here.
QP == INSTANCE JobQueueProofs WITH DocumentJobs <- {}, passed <- {}

LEMMA QueueTypeStep == Q!TypeOK /\ [Q!Next]_(Q!vars) => Q!TypeOK'
  BY QueueAssumption, QP!TypeOKStep
  DEF Q!line, Q!vars, Q!Active, Q!Settled, Q!JobState, Q!Phase, Q!JobRow, Q!WorkerState, Q!Idle,
      Q!Holds, Q!Held, Q!Joins, Q!Leaves, Q!Leasable, Q!NextJob, Q!Enqueue, Q!LeaseNextJob,
      Q!ProcessReturns, Q!Releasable, Q!Release, Q!CompleteJob, Q!Terminal, Q!FailJob,
      Q!MarkDocumentFailed, Q!BackoffEnds, Q!OrphanLapses, Q!Fault, Q!Crash,
      Q!LeaseOutlived, Q!Next, Q!JobsTypeOK, Q!WorkersTypeOK, Q!TypeOK, QP!line, QP!vars,
      QP!Active, QP!Settled, QP!JobState, QP!Phase, QP!JobRow, QP!WorkerState, QP!Idle,
      QP!Holds, QP!Held, QP!Joins, QP!Leaves, QP!Leasable, QP!NextJob, QP!Enqueue,
      QP!LeaseNextJob, QP!ProcessReturns, QP!Releasable, QP!Release, QP!CompleteJob,
      QP!Terminal, QP!FailJob, QP!MarkDocumentFailed, QP!BackoffEnds, QP!OrphanLapses,
      QP!Fault, QP!Crash, QP!LeaseOutlived, QP!Next, QP!JobsTypeOK, QP!WorkersTypeOK,
      QP!TypeOK

\* The steps of the task are steps of the queue or leave it alone; a lost answer of
\* the insert, which the queue does not know of, only changes a worker's phase and
\* the count of faults.
LEMMA QueueTypeInvariant ==
  ASSUME Q!TypeOK, [Next]_vars
  PROVE  Q!TypeOK'
<1>1. CASE \E w \in Workers : InsertReplyLost(w)
  <2>1. PICK w \in Workers : InsertReplyLost(w)
    BY <1>1
  <2>2. /\ workers[w].phase = "process" /\ workers' = [workers EXCEPT ![w].phase = "fail"]
        /\ UNCHANGED <<jobs, due, ahead, lapsed>> /\ faults' = faults + 1
    BY <2>1 DEF InsertReplyLost, At, Q!Fault
  <2>3. Q!JobsTypeOK'
    BY <2>2 DEF Q!TypeOK, Q!JobsTypeOK
  <2>4. Q!WorkersTypeOK'
    BY <2>2 DEF Q!TypeOK, Q!WorkersTypeOK, Q!WorkerState, Q!Phase
  <2> QED
    BY <2>3, <2>4 DEF Q!TypeOK
<1>2. CASE ~\E w \in Workers : InsertReplyLost(w)
  <2>0. ASSUME UNCHANGED queueVars PROVE UNCHANGED Q!vars
    BY <2>0 DEF queueVars, Q!vars
  <2>1. ASSUME NEW j \in Jobs, RequestSnapshot(j) PROVE Q!Next
    BY <2>1 DEF RequestSnapshot, Q!Next
  <2>2. ASSUME NEW w \in Workers, LeaseNextJob(w) \/ CompleteJob(w) \/ FailJob(w) \/ Crash(w)
        PROVE  Q!Next
    BY <2>2 DEF LeaseNextJob, CompleteJob, FailJob, Crash, Q!Next
  <2>3. ASSUME NEW w \in Workers, InsertSnapshot(w) \/ FetchFails(w) PROVE Q!Next
    <3>1. \E ok \in BOOLEAN : Q!ProcessReturns(w, ok)
      BY <2>3 DEF InsertSnapshot, FetchFails, Returns
    <3> QED
      BY <3>1 DEF Q!Next
  <2>4. ASSUME NEW w \in Workers, FetchAndSave(w) PROVE UNCHANGED queueVars
    BY <2>4 DEF FetchAndSave
  <2>5. CASE TimePasses
    <3>1. Q!Next
      BY <2>5 DEF TimePasses, Q!Next
    <3> QED
      BY <3>1, QueueTypeStep
  <2>6. CASE UNCHANGED vars
    BY <2>0, <2>6, QueueTypeStep DEF vars
  <2> QED
    BY <1>2, <2>0, <2>1, <2>2, <2>3, <2>4, <2>5, <2>6, QueueTypeStep DEF Next
<1> QED
  BY <1>1, <1>2

LEMMA QueueTypeInit == Q!Init => Q!TypeOK
  BY QueueAssumption
  DEF Q!Init, Q!TypeOK, Q!JobsTypeOK, Q!WorkersTypeOK, Q!NoRow, Q!Idle, Q!JobRow, Q!JobState,
      Q!Active, Q!Settled, Q!WorkerState, Q!Phase

-----------------------------------------------------------------------------
(***************************************************************************)
(* CompletedHasSnapshot.  Between the file, the row and the settlement of  *)
(* the job lie three steps; the invariant says what each relies on.        *)
(***************************************************************************)
\* Only a worker inside FetchSnapshot is past its file, and that file is there; who
\* is about to complete a job has stored a row for it.
TaskOf(w) ==
  /\ step[w] = "insert" => workers[w].phase = "process" /\ Key(w) \in files
  /\ workers[w].phase = "complete" => RowsOf(workers[w].job) # {}
  /\ workers[w].phase # "mark"

TaskInv == step \in [Workers -> {"fetch", "insert"}] /\ \A w \in Workers : TaskOf(w)

DataInv == Q!TypeOK /\ TaskInv /\ CompletedHasSnapshot

\* Rows and files are only added.
LEMMA RowsStay ==
  ASSUME [Next]_vars
  PROVE  snapshots \subseteq snapshots' /\ files \subseteq files'
  BY DEF Next, vars, RequestSnapshot, LeaseNextJob, FetchAndSave, Saved, InsertSnapshot, Inserted,
         InsertReplyLost, FetchFails, CompleteJob, FailJob, Crash, TimePasses

LEMMA DataInvStep ==
  ASSUME DataInv, [Next]_vars
  PROVE  TaskInv' /\ CompletedHasSnapshot'
<1> USE DEF DataInv, Q!TypeOK, Q!WorkersTypeOK, Q!WorkerState, Q!JobsTypeOK, Q!JobRow
<1>0. \A j : RowsOf(j) # {} => RowsOf(j)' # {}
  BY RowsStay DEF RowsOf
<1>1. ASSUME UNCHANGED <<workers, snapshots, files, step>>,
             \A j \in Jobs : jobs'[j].state = "completed" => jobs[j].state = "completed"
      PROVE  TaskInv' /\ CompletedHasSnapshot'
  BY <1>1 DEF TaskInv, TaskOf, CompletedHasSnapshot, RowsOf, Key
<1>2. ASSUME NEW j \in Jobs, RequestSnapshot(j) PROVE TaskInv' /\ CompletedHasSnapshot'
  <2>1. /\ UNCHANGED <<workers, snapshots, files, step>>
        /\ jobs' = [jobs EXCEPT ![j] = [state |-> "queued", attempts |-> 0, leasedBy |-> NoWorker]]
    BY <1>2 DEF RequestSnapshot, Q!Enqueue
  <2> QED
    BY <1>1, <2>1
<1>3. CASE TimePasses \/ UNCHANGED vars
  <2>1. UNCHANGED <<jobs, workers, snapshots, files, step>>
    BY <1>3 DEF TimePasses, Q!BackoffEnds, Q!OrphanLapses, Q!LeaseOutlived, vars, queueVars
  <2> QED
    BY <1>1, <2>1
<1>4. ASSUME NEW w \in Workers, LeaseNextJob(w) PROVE TaskInv' /\ CompletedHasSnapshot'
  <2>1. /\ workers[w].phase = "idle" /\ UNCHANGED <<snapshots, files, step>>
        /\ \A v \in Workers \ {w} : workers'[v] = workers[v]
        /\ workers'[w].phase = "process"
        /\ \A j \in Jobs : jobs'[j].state = "completed" => jobs[j].state = "completed"
    BY <1>4 DEF LeaseNextJob, Q!LeaseNextJob
  <2>2. step[w] = "fetch"
    BY <2>1 DEF TaskInv, TaskOf
  <2>3. TaskInv'
    BY <2>1, <2>2 DEF TaskInv, TaskOf, Key, RowsOf
  <2> QED
    BY <2>1, <2>3 DEF CompletedHasSnapshot, RowsOf
<1>5. ASSUME NEW w \in Workers, FetchAndSave(w) PROVE TaskInv' /\ CompletedHasSnapshot'
  <2>1. /\ workers[w].phase = "process" /\ UNCHANGED <<jobs, workers, snapshots>>
        /\ step' = [step EXCEPT ![w] = "insert"] /\ files' = files \cup {Key(w)}
    BY <1>5 DEF FetchAndSave, At, Saved, queueVars
  <2>2. TaskInv'
    BY <2>1 DEF TaskInv, TaskOf, Key, RowsOf
  <2> QED
    BY <2>1, <2>2 DEF CompletedHasSnapshot, RowsOf
<1>6. ASSUME NEW w \in Workers, InsertSnapshot(w) \/ InsertReplyLost(w)
      PROVE  TaskInv' /\ CompletedHasSnapshot'
  <2>1. /\ workers[w].phase = "process" /\ step[w] = "insert" /\ UNCHANGED <<jobs, files>>
        /\ snapshots' = snapshots \cup {Key(w)} /\ step' = [step EXCEPT ![w] = "fetch"]
    BY <1>6 DEF InsertSnapshot, InsertReplyLost, At, Inserted, Returns, Q!ProcessReturns
  <2>2. /\ \A v \in Workers \ {w} : workers'[v] = workers[v]
        /\ workers'[w].job = workers[w].job /\ workers'[w].phase \in {"complete", "fail"}
    BY <1>6 DEF InsertSnapshot, InsertReplyLost, Returns, Q!ProcessReturns
  <2>3. Key(w) \in snapshots' /\ Key(w)[1] = workers'[w].job
    BY <2>1, <2>2 DEF Key
  <2>4. Key(w) \in files
    BY <2>1 DEF TaskInv, TaskOf
  <2>5. ASSUME NEW v \in Workers PROVE TaskOf(v)'
    <3>1. CASE v = w
      BY <2>1, <2>2, <2>3, <3>1 DEF TaskInv, TaskOf, RowsOf
    <3>2. CASE v # w
      BY <2>1, <2>2, <3>2 DEF TaskInv, TaskOf, Key, RowsOf
    <3> QED
      BY <3>1, <3>2
  <2>6. TaskInv'
    BY <2>1, <2>5 DEF TaskInv
  <2> QED
    BY <1>0, <2>1, <2>4, <2>6 DEF CompletedHasSnapshot
<1>7. ASSUME NEW w \in Workers, FetchFails(w) \/ Crash(w) PROVE TaskInv' /\ CompletedHasSnapshot'
  <2>1. /\ UNCHANGED <<jobs, snapshots, files>> /\ step' = [step EXCEPT ![w] = "fetch"]
        /\ \A v \in Workers \ {w} : workers'[v] = workers[v]
        /\ workers'[w].phase \in {"fail", "idle"}
    BY <1>7 DEF FetchFails, Crash, Returns, Q!ProcessReturns, Q!Crash, Q!Idle
  <2>2. TaskInv'
    BY <2>1 DEF TaskInv, TaskOf, Key, RowsOf
  <2> QED
    BY <2>1, <2>2 DEF CompletedHasSnapshot, RowsOf
<1>8. ASSUME NEW w \in Workers, CompleteJob(w) \/ FailJob(w) PROVE TaskInv' /\ CompletedHasSnapshot'
  <2>1. /\ UNCHANGED <<snapshots, files, step>> /\ workers' = [workers EXCEPT ![w] = Q!Idle]
        /\ workers[w].phase \in {"complete", "fail"}
    BY <1>8 DEF CompleteJob, FailJob, Q!CompleteJob, Q!FailJob
  <2>2. step[w] = "fetch"
    BY <2>1 DEF TaskInv, TaskOf
  <2>3. TaskInv'
    BY <2>1, <2>2 DEF TaskInv, TaskOf, Key, RowsOf, Q!Idle
  <2>4. ASSUME NEW j \in Jobs, jobs'[j].state = "completed"
        PROVE  \/ jobs[j].state = "completed"
               \/ workers[w].phase = "complete" /\ workers[w].job = j
    BY <1>8, <2>4 DEF CompleteJob, FailJob, Q!CompleteJob, Q!FailJob, Q!Release
  <2>5. \A j \in Jobs : jobs'[j].state = "completed" => RowsOf(j) # {}
    BY <2>4 DEF TaskInv, TaskOf, CompletedHasSnapshot
  <2> QED
    BY <1>0, <2>1, <2>3, <2>5 DEF CompletedHasSnapshot
<1> QED
  BY <1>2, <1>3, <1>4, <1>5, <1>6, <1>7, <1>8 DEF Next

LEMMA DataInvariant == Spec => []DataInv
<1>1. Init => DataInv
  <2> SUFFICES ASSUME Init PROVE DataInv
    OBVIOUS
  <2>1. Q!TypeOK
    BY QueueTypeInit DEF Init
  <2>2. /\ \A w \in Workers : workers[w].phase = "idle" /\ step[w] = "fetch"
        /\ \A j \in Jobs : jobs[j].state = "absent"
        /\ snapshots = {} /\ step = [w \in Workers |-> "fetch"]
    BY DEF Init, Q!Init, Q!NoRow, Q!Idle
  <2> QED
    BY <2>1, <2>2 DEF DataInv, TaskInv, TaskOf, CompletedHasSnapshot
<1>2. DataInv /\ [Next]_vars => DataInv'
  BY QueueTypeInvariant, DataInvStep DEF DataInv
<1> QED
  BY <1>1, <1>2, PTL DEF Spec

\* A completed request has a snapshot and every snapshot its file, whichever worker
\* completed the job and however late.
THEOREM CompletedIsUsable == Spec => []CompletedHasSnapshot
<1>1. DataInv => CompletedHasSnapshot
  BY DEF DataInv
<1> QED
  BY <1>1, DataInvariant, PTL

-----------------------------------------------------------------------------
(***************************************************************************)
(* DuplicatesNeedFaults.  A row is stored by a worker at work on the job,  *)
(* a worker starts when the job can be leased, and a job can be leased     *)
(* again only when the one at work gives up or a fault intervenes.  The    *)
(* sum of the three is bounded; each alone is not inductive.               *)
(***************************************************************************)
AtWork(j) == {w \in Workers : workers[w].job = j /\ workers[w].phase \in {"process", "fail"}}

\* The job can be leased, now or when its row or its lapse comes.
Available(j) ==
  \/ jobs[j].state \in {"absent", "queued", "retryable"}
  \/ jobs[j].state = "leased" /\ (j \in lapsed \/ ~Q!Held(j))

Chance(j) == IF Available(j) THEN 1 ELSE 0

RowsCounted(j) ==
  /\ IsFiniteSet(RowsOf(j)) /\ IsFiniteSet(AtWork(j))
  /\ Cardinality(RowsOf(j)) + Cardinality(AtWork(j)) + Chance(j) <= 1 + faults

RowsBudget == \A j \in Jobs : RowsCounted(j)

\* What a step may do to the three terms of the sum: rows, workers and chance.
CountStep(j) ==
  \/ /\ RowsOf(j)' = RowsOf(j) /\ AtWork(j)' = AtWork(j)         \* nothing stored or started
     /\ Chance(j)' <= Chance(j) + (faults' - faults) /\ faults <= faults'
  \/ /\ RowsOf(j)' = RowsOf(j) /\ faults' = faults               \* leased
     /\ \E w : AtWork(j)' = AtWork(j) \cup {w}
     /\ Chance(j) = 1 /\ Chance(j)' = 0
  \/ /\ RowsOf(j)' = RowsOf(j) /\ faults' = faults               \* given up
     /\ \E w \in AtWork(j) : AtWork(j)' = AtWork(j) \ {w}
  \/ /\ RowsOf(j)' = RowsOf(j) /\ faults' = faults + 1           \* crashed
     /\ \E w : AtWork(j)' = AtWork(j) \ {w}
  \/ /\ \E key : RowsOf(j)' = RowsOf(j) \cup {key}               \* stored
     /\ \E w \in AtWork(j) : AtWork(j)' = AtWork(j) \ {w}
     /\ Chance(j)' = Chance(j) /\ faults' = faults
  \/ /\ \E key : RowsOf(j)' = RowsOf(j) \cup {key}               \* stored, answer lost
     /\ AtWork(j)' = AtWork(j)
     /\ Chance(j)' = Chance(j) /\ faults' = faults + 1

\* One element more, or less.
LEMMA OneMore ==
  ASSUME NEW S, IsFiniteSet(S), NEW x, NEW T, T = S \cup {x}
  PROVE  IsFiniteSet(T) /\ Cardinality(T) \in Nat /\ Cardinality(T) <= Cardinality(S) + 1
<1>1. Cardinality(S) \in Nat
  BY FS_CardinalityType
<1>2. IsFiniteSet(T) /\ Cardinality(T) = IF x \in S THEN Cardinality(S) ELSE Cardinality(S) + 1
  BY FS_AddElement
<1> QED
  BY <1>1, <1>2

LEMMA OneLess ==
  ASSUME NEW S, IsFiniteSet(S), NEW x, NEW T, T = S \ {x}
  PROVE  /\ IsFiniteSet(T) /\ Cardinality(T) \in Nat /\ Cardinality(T) <= Cardinality(S)
         /\ x \in S => Cardinality(T) + 1 = Cardinality(S)
<1>1. Cardinality(S) \in Nat
  BY FS_CardinalityType
<1>2. IsFiniteSet(T) /\ Cardinality(T) = IF x \in S THEN Cardinality(S) - 1 ELSE Cardinality(S)
  BY FS_RemoveElement
<1>3. Cardinality(T) \in Nat
  BY <1>2, FS_CardinalityType
<1> QED
  BY <1>1, <1>2, <1>3

LEMMA CountStepKeeps ==
  ASSUME NEW j \in Jobs, RowsCounted(j), CountStep(j), faults \in Nat, faults' \in Nat
  PROVE  RowsCounted(j)'
<1> DEFINE Sum(r, a) == r + a + Chance(j)' <= 1 + faults'
<1>1. /\ Chance(j) \in {0, 1} /\ Chance(j)' \in {0, 1}
      /\ IsFiniteSet(RowsOf(j)) /\ IsFiniteSet(AtWork(j))
      /\ Cardinality(RowsOf(j)) \in Nat /\ Cardinality(AtWork(j)) \in Nat
      /\ Cardinality(RowsOf(j)) + Cardinality(AtWork(j)) + Chance(j) <= 1 + faults
  BY FS_CardinalityType DEF RowsCounted, Chance
<1> SUFFICES /\ IsFiniteSet(RowsOf(j)') /\ IsFiniteSet(AtWork(j)')
             /\ Sum(Cardinality(RowsOf(j)'), Cardinality(AtWork(j)'))
  BY DEF RowsCounted
<1>2. CASE /\ RowsOf(j)' = RowsOf(j) /\ AtWork(j)' = AtWork(j)
           /\ Chance(j)' <= Chance(j) + (faults' - faults) /\ faults <= faults'
  BY <1>1, <1>2
<1>3. CASE /\ RowsOf(j)' = RowsOf(j) /\ faults' = faults
           /\ \E w : AtWork(j)' = AtWork(j) \cup {w}
           /\ Chance(j) = 1 /\ Chance(j)' = 0
  <2>1. /\ IsFiniteSet(AtWork(j)') /\ Cardinality(AtWork(j)') \in Nat
        /\ Cardinality(AtWork(j)') <= Cardinality(AtWork(j)) + 1
    BY <1>1, <1>3, OneMore
  <2> QED
    BY <1>1, <1>3, <2>1
<1>4. CASE /\ RowsOf(j)' = RowsOf(j) /\ faults' = faults
           /\ \E w \in AtWork(j) : AtWork(j)' = AtWork(j) \ {w}
  <2>1. /\ IsFiniteSet(AtWork(j)') /\ Cardinality(AtWork(j)') \in Nat
        /\ Cardinality(AtWork(j)') + 1 = Cardinality(AtWork(j))
    BY <1>1, <1>4, OneLess
  <2> QED
    BY <1>1, <1>4, <2>1
<1>5. CASE /\ RowsOf(j)' = RowsOf(j) /\ faults' = faults + 1
           /\ \E w : AtWork(j)' = AtWork(j) \ {w}
  <2>1. /\ IsFiniteSet(AtWork(j)') /\ Cardinality(AtWork(j)') \in Nat
        /\ Cardinality(AtWork(j)') <= Cardinality(AtWork(j))
    BY <1>1, <1>5, OneLess
  <2> QED
    BY <1>1, <1>5, <2>1
<1>6. CASE /\ \E key : RowsOf(j)' = RowsOf(j) \cup {key}
           /\ \E w \in AtWork(j) : AtWork(j)' = AtWork(j) \ {w}
           /\ Chance(j)' = Chance(j) /\ faults' = faults
  <2>1. /\ IsFiniteSet(AtWork(j)') /\ Cardinality(AtWork(j)') \in Nat
        /\ Cardinality(AtWork(j)') + 1 = Cardinality(AtWork(j))
    BY <1>1, <1>6, OneLess
  <2>2. /\ IsFiniteSet(RowsOf(j)') /\ Cardinality(RowsOf(j)') \in Nat
        /\ Cardinality(RowsOf(j)') <= Cardinality(RowsOf(j)) + 1
    BY <1>1, <1>6, OneMore
  <2>3. Chance(j)' = Chance(j) /\ faults' = faults
    BY <1>6
  <2> QED
    BY <1>1, <2>1, <2>2, <2>3
<1>7. CASE /\ \E key : RowsOf(j)' = RowsOf(j) \cup {key}
           /\ AtWork(j)' = AtWork(j)
           /\ Chance(j)' = Chance(j) /\ faults' = faults + 1
  <2>1. /\ IsFiniteSet(RowsOf(j)') /\ Cardinality(RowsOf(j)') \in Nat
        /\ Cardinality(RowsOf(j)') <= Cardinality(RowsOf(j)) + 1
    BY <1>1, <1>7, OneMore
  <2>2. AtWork(j)' = AtWork(j) /\ Chance(j)' = Chance(j) /\ faults' = faults + 1
    BY <1>7
  <2> QED
    BY <1>1, <2>1, <2>2
<1> QED
  BY <1>2, <1>3, <1>4, <1>5, <1>6, <1>7 DEF CountStep

\* Of other jobs' rows and workers a step of a worker touches nothing.
LEMMA WorkerCountStep ==
  ASSUME DataInv, NEW j \in Jobs, NEW w \in Workers,
         \/ LeaseNextJob(w) \/ FetchAndSave(w) \/ InsertSnapshot(w) \/ InsertReplyLost(w)
         \/ FetchFails(w) \/ CompleteJob(w) \/ FailJob(w) \/ Crash(w)
  PROVE  CountStep(j)
<1> USE DEF DataInv, Q!TypeOK, Q!WorkersTypeOK, Q!WorkerState, Q!JobsTypeOK, Q!JobRow
<1>0. NoJob # j /\ faults \in Nat /\ Chance(j) \in {0, 1} /\ Chance(j)' \in {0, 1}
  BY QueueAssumption DEF Chance
<1>1. CASE LeaseNextJob(w)
  <2>1. PICK i \in Jobs :
          /\ Q!NextJob(i)
          /\ jobs' = [jobs EXCEPT ![i] = [state |-> "leased", attempts |-> jobs[i].attempts + 1,
                                          leasedBy |-> w]]
          /\ lapsed' = lapsed \ {i}
          /\ workers' = [workers EXCEPT ![w] =
                           [phase |-> "process", job |-> i, attempts |-> jobs[i].attempts + 1]]
    BY <1>1 DEF LeaseNextJob, Q!LeaseNextJob
  <2>2. UNCHANGED <<snapshots, faults>> /\ workers[w].phase = "idle" /\ workers[w].job # j
    BY <1>0, <1>1 DEF LeaseNextJob, Q!LeaseNextJob
  <2>3. RowsOf(j)' = RowsOf(j)
    BY <2>2 DEF RowsOf
  <2>4. CASE i = j
    <3>1. AtWork(j)' = AtWork(j) \cup {w}
      BY <2>1, <2>2, <2>4 DEF AtWork
    <3>2. Chance(j) = 1
      BY <2>1, <2>4 DEF Chance, Available, Q!NextJob, Q!Leasable
    <3>3. jobs'[j].state = "leased" /\ j \notin lapsed' /\ Q!Holds(w, j)'
      BY <2>1, <2>4 DEF Q!Holds
    <3>4. Chance(j)' = 0
      BY <3>3 DEF Chance, Available, Q!Held
    <3> QED
      BY <2>2, <2>3, <3>1, <3>2, <3>4 DEF CountStep
  <2>5. CASE i # j
    <3>1. AtWork(j)' = AtWork(j)
      BY <2>1, <2>2, <2>5 DEF AtWork
    <3>2. /\ jobs'[j] = jobs[j] /\ (j \in lapsed' <=> j \in lapsed)
          /\ \A v \in Workers : Q!Holds(v, j)' <=> Q!Holds(v, j)
      BY <2>1, <2>2, <2>5 DEF Q!Holds
    <3>3. Chance(j)' = Chance(j)
      BY <3>2 DEF Chance, Available, Q!Held
    <3> QED
      BY <1>0, <2>2, <2>3, <3>1, <3>3 DEF CountStep
  <2> QED
    BY <2>4, <2>5
<1>2. CASE FetchAndSave(w)
  <2>1. UNCHANGED <<jobs, lapsed, workers, snapshots, faults>>
    BY <1>2 DEF FetchAndSave, queueVars
  <2>2. RowsOf(j)' = RowsOf(j) /\ AtWork(j)' = AtWork(j) /\ Chance(j)' = Chance(j)
    BY <2>1 DEF RowsOf, AtWork, Chance, Available, Q!Held, Q!Holds
  <2> QED
    BY <1>0, <2>1, <2>2 DEF CountStep
<1>3. CASE InsertSnapshot(w) \/ InsertReplyLost(w) \/ FetchFails(w)
  <2>1. /\ workers[w].phase = "process" /\ UNCHANGED <<jobs, lapsed>>
        /\ \A v \in Workers \ {w} : workers'[v] = workers[v]
        /\ workers'[w].job = workers[w].job
        /\ InsertSnapshot(w) => /\ workers'[w].phase = "complete" /\ faults' = faults
                                /\ snapshots' = snapshots \cup {Key(w)}
        /\ InsertReplyLost(w) => /\ workers'[w].phase = "fail" /\ faults' = faults + 1
                                 /\ snapshots' = snapshots \cup {Key(w)}
        /\ FetchFails(w) => workers'[w].phase = "fail" /\ UNCHANGED <<snapshots, faults>>
    BY <1>3 DEF InsertSnapshot, InsertReplyLost, FetchFails, At, Inserted, Returns, Q!ProcessReturns,
                Q!Fault
  <2>2. \A v \in Workers : Q!Holds(v, j)' <=> Q!Holds(v, j)
    BY <1>3, <2>1 DEF Q!Holds
  <2>3. Chance(j)' = Chance(j)
    BY <2>1, <2>2 DEF Chance, Available, Q!Held
  <2>4. CASE workers[w].job = j /\ InsertSnapshot(w)
    <3>1. w \in AtWork(j) /\ AtWork(j)' = AtWork(j) \ {w}
      BY <2>1, <2>4 DEF AtWork
    <3>2. RowsOf(j)' = RowsOf(j) \cup {Key(w)}
      BY <2>1, <2>4 DEF RowsOf, Key
    <3> QED
      BY <2>1, <2>3, <2>4, <3>1, <3>2 DEF CountStep
  <2>5. CASE workers[w].job = j /\ InsertReplyLost(w)
    <3>1. AtWork(j)' = AtWork(j)
      BY <2>1, <2>5 DEF AtWork
    <3>2. RowsOf(j)' = RowsOf(j) \cup {Key(w)}
      BY <2>1, <2>5 DEF RowsOf, Key
    <3> QED
      BY <2>1, <2>3, <2>5, <3>1, <3>2 DEF CountStep
  <2>6. CASE workers[w].job # j \/ FetchFails(w)
    <3>1. AtWork(j)' = AtWork(j)
      BY <1>3, <2>1, <2>6 DEF AtWork
    <3>2. RowsOf(j)' = RowsOf(j)
      BY <1>3, <2>1, <2>6 DEF RowsOf, Key
    <3>3. faults' = faults \/ faults' = faults + 1
      BY <1>3, <2>1
    <3> QED
      BY <1>0, <2>3, <3>1, <3>2, <3>3 DEF CountStep
  <2> QED
    BY <1>3, <2>4, <2>5, <2>6
<1>4. CASE CompleteJob(w) \/ FailJob(w)
  <2>1. /\ UNCHANGED <<snapshots, faults>> /\ workers' = [workers EXCEPT ![w] = Q!Idle]
        /\ workers[w].phase = IF CompleteJob(w) THEN "complete" ELSE "fail"
    BY <1>4 DEF CompleteJob, FailJob, Q!CompleteJob, Q!FailJob
  <2>2. RowsOf(j)' = RowsOf(j)
    BY <2>1 DEF RowsOf
  <2>3. CASE workers[w].job # j
    <3>1. /\ jobs'[j] = jobs[j] /\ (j \in lapsed' <=> j \in lapsed)
      BY <1>4, <2>3 DEF CompleteJob, FailJob, Q!CompleteJob, Q!FailJob, Q!Release
    <3>2. /\ AtWork(j)' = AtWork(j)
          /\ \A v \in Workers : Q!Holds(v, j)' <=> Q!Holds(v, j)
      BY <1>0, <2>1, <2>3 DEF AtWork, Q!Holds, Q!Idle
    <3>3. Chance(j)' = Chance(j)
      BY <3>1, <3>2 DEF Chance, Available, Q!Held
    <3> QED
      BY <1>0, <2>1, <2>2, <3>2, <3>3 DEF CountStep
  <2>4. CASE workers[w].job = j /\ CompleteJob(w)
    <3>1. AtWork(j)' = AtWork(j)
      BY <1>0, <2>1, <2>4 DEF AtWork, Q!Idle
    <3>2. \/ jobs'[j].state = "completed"
          \/ UNCHANGED <<jobs, lapsed>> /\ jobs[j].state # "leased"
      BY <2>4 DEF CompleteJob, Q!CompleteJob, Q!Release, Q!Releasable
    <3>3. Chance(j)' <= Chance(j)
      BY <1>0, <3>2 DEF Chance, Available
    <3> QED
      BY <1>0, <2>1, <2>2, <3>1, <3>3 DEF CountStep
  <2>5. CASE workers[w].job = j /\ ~CompleteJob(w)
    <3>1. w \in AtWork(j) /\ AtWork(j)' = AtWork(j) \ {w}
      BY <1>0, <2>1, <2>5 DEF AtWork, Q!Idle
    <3> QED
      BY <2>1, <2>2, <3>1 DEF CountStep
  <2> QED
    BY <2>3, <2>4, <2>5
<1>5. CASE Crash(w)
  <2>1. UNCHANGED snapshots /\ workers' = [workers EXCEPT ![w] = Q!Idle] /\ faults' = faults + 1
    BY <1>5 DEF Crash, Q!Crash, Q!Fault
  <2>2. RowsOf(j)' = RowsOf(j) /\ AtWork(j)' = AtWork(j) \ {w}
    BY <1>0, <2>1 DEF RowsOf, AtWork, Q!Idle
  <2> QED
    BY <2>1, <2>2 DEF CountStep
<1> QED
  BY <1>1, <1>2, <1>3, <1>4, <1>5

LEMMA RowsBudgetStep ==
  ASSUME DataInv, RowsBudget, [Next]_vars
  PROVE  RowsBudget'
<1> SUFFICES ASSUME NEW j \in Jobs PROVE RowsCounted(j)'
  BY DEF RowsBudget
<1>0. faults \in Nat /\ RowsCounted(j) /\ Chance(j) \in {0, 1} /\ Chance(j)' \in {0, 1}
  BY DEF DataInv, Q!TypeOK, Q!WorkersTypeOK, RowsBudget, Chance
<1>1. ASSUME UNCHANGED <<workers, snapshots>>,
             Chance(j)' <= Chance(j) + (faults' - faults), faults <= faults'
      PROVE  CountStep(j)
  <2>1. RowsOf(j)' = RowsOf(j) /\ AtWork(j)' = AtWork(j)
    BY <1>1 DEF RowsOf, AtWork
  <2> QED
    BY <1>1, <2>1 DEF CountStep
<1>2. ASSUME NEW i \in Jobs, RequestSnapshot(i) PROVE CountStep(j)
  <2>1. /\ UNCHANGED <<workers, snapshots, lapsed, faults>> /\ jobs[i].state = "absent"
        /\ jobs' = [jobs EXCEPT ![i] = [state |-> "queued", attempts |-> 0, leasedBy |-> NoWorker]]
    BY <1>2 DEF RequestSnapshot, Q!Enqueue
  <2>2. Chance(j)' <= Chance(j)
    BY <1>0, <2>1 DEF Chance, Available, Q!Held, Q!Holds, DataInv, Q!TypeOK, Q!JobsTypeOK, Q!JobRow
  <2> QED
    BY <1>0, <1>1, <2>1, <2>2
<1>3. ASSUME TimePasses \/ UNCHANGED vars PROVE CountStep(j)
  <2>1. /\ UNCHANGED <<jobs, workers, snapshots>>
        /\ \/ faults' = faults + 1
           \/ faults' = faults /\ (j \in lapsed' => j \in lapsed \/ ~Q!Held(j))
    BY <1>3 DEF TimePasses, Q!BackoffEnds, Q!OrphanLapses, Q!LeaseOutlived, Q!Fault, vars, queueVars
  <2>2. faults' = faults => Chance(j)' <= Chance(j)
    BY <1>0, <2>1 DEF Chance, Available, Q!Held, Q!Holds
  <2> QED
    BY <1>0, <1>1, <2>1, <2>2
<1>4. CountStep(j)
  BY <1>2, <1>3, WorkerCountStep DEF Next
<1>5. faults' \in Nat
  BY QueueTypeInvariant DEF DataInv, Q!TypeOK, Q!WorkersTypeOK
<1> QED
  BY <1>0, <1>4, <1>5, CountStepKeeps

\* A retry after a stored row stores another; still a request has at most one
\* snapshot more than there were crashes, outlived leases and lost answers.
THEOREM DuplicatesAreCounted == Spec => []DuplicatesNeedFaults
<1>1. Init => RowsBudget
  <2> SUFFICES ASSUME Init, NEW j \in Jobs PROVE RowsCounted(j)
    BY DEF RowsBudget
  <2>1. RowsOf(j) = {} /\ AtWork(j) = {} /\ faults = 0 /\ Chance(j) = 1
    BY QueueAssumption DEF Init, Q!Init, Q!NoRow, Q!Idle, RowsOf, AtWork, Chance, Available
  <2> QED
    BY <2>1, FS_EmptySet DEF RowsCounted
<1>2. DataInv /\ RowsBudget => DuplicatesNeedFaults
  <2> SUFFICES ASSUME DataInv, RowsBudget, NEW j \in Jobs PROVE Cardinality(RowsOf(j)) <= 1 + faults
    BY DEF DuplicatesNeedFaults
  <2>1. /\ Cardinality(RowsOf(j)) \in Nat /\ Cardinality(AtWork(j)) \in Nat
        /\ Chance(j) \in Nat /\ faults \in Nat
        /\ Cardinality(RowsOf(j)) + Cardinality(AtWork(j)) + Chance(j) <= 1 + faults
    BY FS_CardinalityType
    DEF RowsBudget, RowsCounted, Chance, DataInv, Q!TypeOK, Q!WorkersTypeOK
  <2> QED
    BY <2>1
<1> QED
  BY <1>1, <1>2, RowsBudgetStep, DataInvariant, PTL DEF Spec
=============================================================================
