-------------------------- MODULE ExtractionProofs --------------------------
(***************************************************************************)
(* Theorems about ExtractionPipeline for any documents, workers, claims,   *)
(* budget and faults.                                                      *)
(***************************************************************************)
EXTENDS ExtractionPipeline, FiniteSetTheorems, TLAPS

\* Whether a retry of extraction, a review or a citation: each step is a step of the
\* queue or leaves the queue alone.
LEMMA QueueStep == [Next]_vars => [Q!Next]_(Q!vars)
<1> SUFFICES ASSUME [Next]_vars PROVE [Q!Next]_(Q!vars)
  OBVIOUS
<1>0. ASSUME UNCHANGED queueVars PROVE UNCHANGED Q!vars
  BY <1>0 DEF queueVars, Q!vars
<1>1. ASSUME NEW d \in Jobs, CreateDocument(d) PROVE Q!Next
  BY <1>1 DEF CreateDocument, Q!Next
<1>2. ASSUME NEW w \in Workers,
             LeaseNextJob(w) \/ CompleteJob(w) \/ FailJob(w) \/ MarkDocumentFailed(w) \/ Crash(w)
      PROVE  Q!Next
  BY <1>2 DEF LeaseNextJob, CompleteJob, FailJob, MarkDocumentFailed, Crash, Q!Next
<1>3. ASSUME NEW w \in Workers, NEW ok \in BOOLEAN, Returns(w, ok) PROVE Q!Next
  BY <1>3 DEF Returns, Q!Next
<1>4. ASSUME NEW w \in Workers, NEW slots \in SUBSET Slots,
             ReplaceExtraction(w, slots) \/ ReplaceReplyLost(w, slots)
      PROVE  Q!Next
  BY <1>3, <1>4 DEF ReplaceExtraction, ReplaceReplyLost
<1>5. CASE TimePasses
  BY <1>5 DEF TimePasses, Q!Next
<1>6. ASSUME NEW w \in Workers, SetProcessing(w) PROVE UNCHANGED queueVars
  BY <1>6 DEF SetProcessing
<1>7. ASSUME NEW d \in Jobs, UploadAgain(d) PROVE UNCHANGED queueVars
  BY <1>7 DEF UploadAgain, AnswersExisting, vars
<1>8. ASSUME NEW c \in claims, NEW accept \in BOOLEAN, ReviewClaim(c, accept)
      PROVE  UNCHANGED queueVars
  BY <1>8 DEF ReviewClaim
<1>9. InsertCitations => UNCHANGED queueVars
  BY DEF InsertCitations
<1>10. CASE UNCHANGED vars
  BY <1>0, <1>10 DEF vars
<1>11. ASSUME NEW w \in Workers, ProcessFails(w) PROVE Q!Next
  BY <1>3, <1>11 DEF ProcessFails
<1>12. ASSUME NEW c \in claims, VerifyCitations(c) PROVE UNCHANGED queueVars
  BY <1>12 DEF VerifyCitations
<1> QED
  BY <1>0, <1>1, <1>2, <1>4, <1>5, <1>6, <1>7, <1>8, <1>9, <1>10, <1>11, <1>12 DEF Next, Worker

\* Extraction jobs behave as JobQueue says.
THEOREM ExtractionFollowsJobQueue == Spec => FollowsJobQueue
<1>1. Init => Q!Init
  BY DEF Init
<1> QED
  BY <1>1, QueueStep, PTL DEF Spec, FollowsJobQueue, Q!Spec

-----------------------------------------------------------------------------
\* Overtaking is not counted here.
QP == INSTANCE JobQueueProofs WITH DocumentJobs <- Jobs, passed <- {}

LEMMA QueueTypeStep == Q!TypeOK /\ [Q!Next]_(Q!vars) => Q!TypeOK'
  BY QueueAssumption, QP!TypeOKStep
  DEF Q!line, Q!vars, Q!Active, Q!Settled, Q!JobState, Q!Phase, Q!JobRow, Q!WorkerState, Q!Idle,
      Q!Holds, Q!Held, Q!Joins, Q!Leaves, Q!Leasable, Q!NextJob, Q!Enqueue, Q!LeaseNextJob,
      Q!ProcessReturns, Q!Releasable, Q!Release, Q!CompleteJob, Q!Terminal, Q!FailJob,
      Q!MarkDocumentFailed, Q!BackoffEnds, Q!OrphanLapses, Q!Fault, Q!Crash,
      Q!LeaseOutlived, Q!Next, Q!JobsTypeOK, Q!WorkersTypeOK, Q!TypeOK, QP!line, QP!vars,
      QP!Active, QP!Settled, QP!JobState, QP!Phase, QP!JobRow, QP!WorkerState, QP!Idle,
      QP!Holds, QP!Held, QP!Joins, QP!Leaves, QP!Leasable, QP!NextJob, QP!Enqueue,
      QP!LeaseNextJob, QP!ProcessReturns, QP!Releasable, QP!Release, QP!CompleteJob,
      QP!Terminal, QP!FailJob, QP!MarkDocumentFailed, QP!BackoffEnds, QP!OrphanLapses,
      QP!Fault, QP!Crash, QP!LeaseOutlived, QP!Next, QP!JobsTypeOK, QP!WorkersTypeOK,
      QP!TypeOK

LEMMA QueueTypeInit == Q!Init => Q!TypeOK
  BY QueueAssumption
  DEF Q!Init, Q!TypeOK, Q!JobsTypeOK, Q!WorkersTypeOK, Q!NoRow, Q!Idle, Q!JobRow, Q!JobState,
      Q!Active, Q!Settled, Q!WorkerState, Q!Phase

\* The type invariant without the queue's part.
ClaimsTypeOK ==
  /\ documents \in [Jobs -> DocumentStatus]
  /\ serial \in [Jobs -> Nat]
  /\ claims \subseteq ClaimId
  /\ accepted \subseteq claims /\ rejected \subseteq claims /\ accepted \cap rejected = {}
  /\ cited \subseteq ClaimId /\ checked \subseteq ClaimId
  /\ step \in [Workers -> {"start", "extract"}]
  /\ lost \subseteq Jobs

\* The ReplaceExtraction transaction: new rows of this document for its old ones.
LEMMA StoreKeeps ==
  ASSUME ClaimsTypeOK, NEW d \in Jobs, NEW slots \in SUBSET Slots, Replaceable(d),
         StoreExtraction(d, slots)
  PROVE  /\ documents' \in [Jobs -> DocumentStatus]
         /\ serial' \in [Jobs -> Nat]
         /\ claims' \subseteq ClaimId
         /\ accepted' \subseteq claims' /\ rejected' \subseteq claims' /\ accepted' \cap rejected' = {}
         /\ cited \subseteq claims => cited \subseteq claims'
<1>1. documents' = [documents EXCEPT ![d] = "ready"] /\ serial' = [serial EXCEPT ![d] = @ + 1]
  BY DEF StoreExtraction, StatusReady
<1>2. documents' \in [Jobs -> DocumentStatus] /\ serial' \in [Jobs -> Nat]
  BY <1>1 DEF ClaimsTypeOK, DocumentStatus
<1>3. \A s \in slots : <<d, serial[d] + 1, s>> \in ClaimId
  BY DEF ClaimsTypeOK, ClaimId
<1>4. claims' \subseteq ClaimId
  BY <1>3 DEF StoreExtraction, ClaimsTypeOK
<1>5. accepted' \subseteq claims' /\ rejected' \subseteq claims' /\ accepted' \cap rejected' = {}
  BY DEF StoreExtraction, ClaimsTypeOK
<1>6. cited \subseteq claims => cited \subseteq claims'
  BY DEF StoreExtraction, Replaceable
<1> QED
  BY <1>2, <1>4, <1>5, <1>6

\* Every step keeps the tables' types and, with them, the rows that are cited.
LEMMA ClaimsStep ==
  Q!TypeOK /\ ClaimsTypeOK /\ CitationsResolve /\ [Next]_vars => ClaimsTypeOK' /\ CitationsResolve'
<1> SUFFICES ASSUME Q!TypeOK, ClaimsTypeOK, CitationsResolve, [Next]_vars
             PROVE  ClaimsTypeOK' /\ CitationsResolve'
  OBVIOUS
<1> USE DEF claimVars, citeVars, CitationsResolve
<1>0. \A w \in Workers : workers[w].phase # "idle" => workers[w].job \in Jobs
  BY DEF Q!TypeOK, Q!WorkersTypeOK, Q!WorkerState
<1>1. ASSUME NEW d \in Jobs, CreateDocument(d) PROVE ClaimsTypeOK' /\ CitationsResolve'
  BY <1>1 DEF CreateDocument, ClaimsTypeOK, DocumentStatus
<1>2. ASSUME UNCHANGED <<documents, claimVars, citeVars, lost>>,
             UNCHANGED step \/ \E w \in Workers : step' = [step EXCEPT ![w] = "start"]
      PROVE  ClaimsTypeOK' /\ CitationsResolve'
  BY <1>2 DEF ClaimsTypeOK
<1>3. ASSUME NEW w \in Workers, SetProcessing(w) PROVE ClaimsTypeOK' /\ CitationsResolve'
  BY <1>0, <1>3 DEF SetProcessing, ClaimsTypeOK, DocumentStatus
<1>4. ASSUME NEW w \in Workers, MarkDocumentFailed(w) PROVE ClaimsTypeOK' /\ CitationsResolve'
  BY <1>0, <1>4 DEF MarkDocumentFailed, Q!MarkDocumentFailed, ClaimsTypeOK, DocumentStatus
<1>5. ASSUME NEW w \in Workers, NEW slots \in SUBSET Slots,
             ReplaceExtraction(w, slots) \/ ReplaceReplyLost(w, slots)
      PROVE  ClaimsTypeOK' /\ CitationsResolve'
  <2>1. /\ workers[w].phase = "process" /\ Replaceable(workers[w].job)
        /\ StoreExtraction(workers[w].job, slots)
        /\ step' = [step EXCEPT ![w] = "start"] /\ UNCHANGED citeVars
        /\ lost' = lost \/ lost' = lost \cup {workers[w].job}
    BY <1>5 DEF ReplaceExtraction, ReplaceReplyLost, Returns, Q!ProcessReturns
  <2>2. workers[w].job \in Jobs
    BY <1>0, <2>1
  <2>3. lost' \subseteq Jobs /\ step' \in [Workers -> {"start", "extract"}]
    BY <2>1, <2>2 DEF ClaimsTypeOK
  <2> QED
    BY <2>1, <2>2, <2>3, StoreKeeps DEF ClaimsTypeOK
<1>6. ASSUME NEW w \in Workers, LeaseNextJob(w) \/ CompleteJob(w) \/ FailJob(w)
      PROVE  ClaimsTypeOK' /\ CitationsResolve'
  BY <1>2, <1>6 DEF LeaseNextJob, CompleteJob, FailJob
<1>7. ASSUME NEW w \in Workers, ProcessFails(w) \/ Crash(w)
      PROVE  ClaimsTypeOK' /\ CitationsResolve'
  BY <1>2, <1>7 DEF ProcessFails, Crash, Returns
<1>8. ASSUME NEW d \in Jobs, UploadAgain(d) PROVE ClaimsTypeOK' /\ CitationsResolve'
  BY <1>2, <1>8 DEF UploadAgain, AnswersExisting, vars
<1>9. CASE TimePasses \/ UNCHANGED vars
  BY <1>2, <1>9 DEF TimePasses, vars
<1>10. ASSUME NEW c \in claims, NEW accept \in BOOLEAN, ReviewClaim(c, accept)
       PROVE  ClaimsTypeOK' /\ CitationsResolve'
  BY <1>10 DEF ReviewClaim, ClaimsTypeOK
<1>11. ASSUME NEW c \in claims, VerifyCitations(c) PROVE ClaimsTypeOK' /\ CitationsResolve'
  BY <1>11 DEF VerifyCitations, ClaimsTypeOK
<1>12. CASE InsertCitations
  BY <1>12 DEF InsertCitations, ClaimsTypeOK
<1> QED
  BY <1>1, <1>3, <1>4, <1>5, <1>6, <1>7, <1>8, <1>9, <1>10, <1>11, <1>12 DEF Next, Worker

\* The inductive invariant.
ExtractionInv == Q!TypeOK /\ ClaimsTypeOK /\ CitationsResolve

LEMMA ExtractionInvariant == Spec => []ExtractionInv
<1>1. Init => ExtractionInv
  <2>1. Init => Q!TypeOK
    BY QueueTypeInit DEF Init
  <2>2. Init => ClaimsTypeOK /\ CitationsResolve
    BY DEF Init, ClaimsTypeOK, CitationsResolve, DocumentStatus
  <2> QED
    BY <2>1, <2>2 DEF ExtractionInv
<1>2. ExtractionInv /\ [Next]_vars => ExtractionInv'
  BY QueueStep, QueueTypeStep, ClaimsStep DEF ExtractionInv
<1> QED
  BY <1>1, <1>2, PTL DEF Spec

\* Every table has its type; in particular no claim is both accepted and rejected.
THEOREM ExtractionTypeCorrect == Spec => []TypeOK
<1>1. ExtractionInv => TypeOK
  BY DEF ExtractionInv, ClaimsTypeOK, TypeOK
<1> QED
  BY <1>1, ExtractionInvariant, PTL

\* However often an extraction is replaced, and whichever workers are overtaken or
\* crash, a cited claim keeps its row.
THEOREM CitedClaimsStay == Spec => []CitationsResolve
<1>1. ExtractionInv => CitationsResolve
  BY DEF ExtractionInv
<1> QED
  BY <1>1, ExtractionInvariant, PTL

-----------------------------------------------------------------------------
\* What RestIsFinal says of one step.
Untouched(d) == documents'[d] = documents[d] /\ {c \in claims' : c[1] = d} = ClaimsOf(d)

LEMMA RestStep ==
  ASSUME ExtractionInv, [Next]_vars, NEW d \in Jobs, AtRest(d)
  PROVE  Untouched(d)
<1>0. /\ jobs[d].state # "absent" /\ \A w \in Workers : workers[w].job # d
      /\ documents \in [Jobs -> DocumentStatus]
  BY DEF AtRest, Q!Settled, ExtractionInv, ClaimsTypeOK
<1> USE DEF Untouched, ClaimsOf
<1>1. CASE UNCHANGED <<documents, claims>>
  BY <1>1
<1>2. ASSUME NEW e \in Jobs, CreateDocument(e) PROVE Untouched(d)
  <2>1. e # d
    BY <1>0, <1>2 DEF CreateDocument, Q!Enqueue
  <2> QED
    BY <1>0, <1>2, <2>1 DEF CreateDocument, claimVars
<1>3. ASSUME NEW w \in Workers, SetProcessing(w) \/ MarkDocumentFailed(w) PROVE Untouched(d)
  BY <1>0, <1>3 DEF SetProcessing, MarkDocumentFailed, claimVars
<1>4. ASSUME NEW w \in Workers, NEW slots \in SUBSET Slots,
             ReplaceExtraction(w, slots) \/ ReplaceReplyLost(w, slots)
      PROVE  Untouched(d)
  <2>1. StoreExtraction(workers[w].job, slots) /\ workers[w].job # d
    BY <1>0, <1>4 DEF ReplaceExtraction, ReplaceReplyLost
  <2>2. documents'[d] = documents[d]
    BY <1>0, <2>1 DEF StoreExtraction, StatusReady
  <2>3. \A s \in slots : <<workers[w].job, serial[workers[w].job] + 1, s>>[1] # d
    BY <2>1
  <2>4. \A c : c \in claims' /\ c[1] = d <=> c \in claims /\ c[1] = d
    BY <2>1, <2>3 DEF StoreExtraction
  <2> QED
    BY <2>2, <2>4
<1>5. ASSUME NEW w \in Workers,
             LeaseNextJob(w) \/ CompleteJob(w) \/ FailJob(w) \/ ProcessFails(w) \/ Crash(w)
      PROVE  UNCHANGED <<documents, claims>>
  BY <1>5 DEF LeaseNextJob, CompleteJob, FailJob, ProcessFails, Crash, claimVars
<1>6. ASSUME NEW e \in Jobs, UploadAgain(e) PROVE UNCHANGED <<documents, claims>>
  BY <1>6 DEF UploadAgain, AnswersExisting, vars, claimVars
<1>7. ASSUME NEW c \in claims, VerifyCitations(c) \/ \E accept \in BOOLEAN : ReviewClaim(c, accept)
      PROVE  UNCHANGED <<documents, claims>>
  BY <1>7 DEF VerifyCitations, ReviewClaim, claimVars
<1>8. CASE TimePasses \/ InsertCitations \/ UNCHANGED vars
  BY <1>1, <1>8 DEF TimePasses, InsertCitations, vars, claimVars
<1> QED
  BY <1>1, <1>2, <1>3, <1>4, <1>5, <1>6, <1>7, <1>8 DEF Next, Worker

\* A document whose job is settled and that no worker still has is never written
\* again: neither its status nor its claims.
THEOREM DocumentsRest == Spec => RestIsFinal
<1>1. ExtractionInv /\ [Next]_vars =>
        [\A d \in Jobs :
           AtRest(d) => documents'[d] = documents[d] /\ {c \in claims' : c[1] = d} = ClaimsOf(d)]_vars
  BY RestStep DEF Untouched
<1> QED
  BY <1>1, ExtractionInvariant, PTL DEF Spec, RestIsFinal

-----------------------------------------------------------------------------
(***************************************************************************)
(* The two counts, StatusTellsOutcome and StoredWorkSurvives.  A document  *)
(* is in order while its one holder, its job and its status agree.  Every  *)
(* step but a crash or an outlived lease keeps a document in order, and    *)
(* these two put at most one out of order and count a fault for it.        *)
(***************************************************************************)
HasJob(w, d) == workers[w].job = d

\* The lease and the workers: whoever has the document is alone with it, and the
\* row is leased exactly while someone acts as its holder.
HeldInOrder(d) ==
  /\ \A v, w \in Workers : HasJob(v, d) /\ HasJob(w, d) => v = w
  /\ jobs[d].state = "leased" <=> Q!Held(d)
  /\ d \notin lapsed
  /\ \A w \in Workers : HasJob(w, d) /\ workers[w].phase = "mark" => jobs[d].state = "failed"

\* The status: ready once the extraction is stored by a worker that knows it,
\* failed once the job failed and nobody is about to say so.
StatusInOrder(d) ==
  /\ \A w \in Workers : HasJob(w, d) /\ workers[w].phase = "complete" => documents[d] = "ready"
  /\ jobs[d].state = "completed" => documents[d] = "ready"
  /\ jobs[d].state = "failed" /\ (\A w \in Workers : ~HasJob(w, d)) => documents[d] = "failed"

\* A stored extraction whose answer arrived is complete, or about to be.
StoredInOrder(d) ==
  \/ d \in lost \/ serial[d] = 0 \/ jobs[d].state = "completed"
  \/ \E w \in Workers : HasJob(w, d) /\ workers[w].phase = "complete"

InOrder(d) == HeldInOrder(d) /\ StatusInOrder(d) /\ StoredInOrder(d)

OutOfOrder == {d \in Jobs : ~InOrder(d)}

OutOfOrderCounted == IsFiniteSet(OutOfOrder) /\ Cardinality(OutOfOrder) <= faults

\* What a step may not change of a document to leave its order alone.
SameView(d) ==
  /\ jobs'[d] = jobs[d] /\ documents'[d] = documents[d] /\ serial'[d] = serial[d]
  /\ d \in lapsed' => d \in lapsed
  /\ d \in lost => d \in lost'
  /\ \A w \in Workers : /\ workers'[w].job = d <=> workers[w].job = d
                        /\ workers[w].job = d => workers'[w].phase = workers[w].phase

LEMMA SameViewKeepsOrder ==
  ASSUME NEW d \in Jobs, InOrder(d), SameView(d)
  PROVE  InOrder(d)'
<1> USE DEF SameView, HasJob
<1>1. HeldInOrder(d)'
  BY DEF InOrder, HeldInOrder, Q!Held, Q!Holds
<1>2. StatusInOrder(d)'
  BY DEF InOrder, StatusInOrder
<1>3. StoredInOrder(d)'
  BY DEF InOrder, StoredInOrder
<1> QED
  BY <1>1, <1>2, <1>3 DEF InOrder

\* A worker that is not idle has a job, and a step of it changes no other document.
LEMMA OthersKeepOrder ==
  ASSUME ExtractionInv, NEW w \in Workers, NEW d \in Jobs, InOrder(d), workers[w].job # d,
         \/ SetProcessing(w) \/ ProcessFails(w) \/ CompleteJob(w) \/ FailJob(w)
         \/ MarkDocumentFailed(w) \/ Crash(w)
         \/ \E slots \in SUBSET Slots : ReplaceExtraction(w, slots) \/ ReplaceReplyLost(w, slots)
  PROVE  InOrder(d)'
<1> USE DEF ExtractionInv, ClaimsTypeOK, Q!TypeOK, Q!JobsTypeOK, Q!WorkersTypeOK, Q!WorkerState,
            claimVars, queueVars
<1>0. NoJob # d
  BY QueueAssumption
<1>1. CASE SetProcessing(w)
  <2>1. SameView(d)
    BY <1>1 DEF SetProcessing, SameView
  <2> QED
    BY <2>1, SameViewKeepsOrder
<1>2. CASE ProcessFails(w)
  <2>1. SameView(d)
    BY <1>2 DEF ProcessFails, Returns, Q!ProcessReturns, Q!line, SameView
  <2> QED
    BY <2>1, SameViewKeepsOrder
<1>3. CASE CompleteJob(w)
  <2>1. workers' = [workers EXCEPT ![w] = Q!Idle] /\ UNCHANGED <<documents, serial, lost>>
    BY <1>3 DEF CompleteJob, Q!CompleteJob
  <2>2. jobs'[d] = jobs[d] /\ (d \in lapsed' => d \in lapsed)
    BY <1>3 DEF CompleteJob, Q!CompleteJob, Q!Release
  <2>3. SameView(d)
    BY <1>0, <2>1, <2>2 DEF SameView, Q!Idle
  <2> QED
    BY <2>3, SameViewKeepsOrder
<1>4. CASE FailJob(w)
  <2>1. /\ \A v \in Workers \ {w} : workers'[v] = workers[v]
        /\ workers'[w] = Q!Idle \/ workers'[w].job = workers[w].job
        /\ UNCHANGED <<documents, serial, lost>>
    BY <1>4 DEF FailJob, Q!FailJob
  <2>2. jobs'[d] = jobs[d] /\ (d \in lapsed' => d \in lapsed)
    BY <1>4 DEF FailJob, Q!FailJob, Q!Release
  <2>3. SameView(d)
    BY <1>0, <2>1, <2>2 DEF SameView, Q!Idle
  <2> QED
    BY <2>3, SameViewKeepsOrder
<1>5. CASE MarkDocumentFailed(w) \/ Crash(w)
  <2>1. /\ workers' = [workers EXCEPT ![w] = Q!Idle] /\ documents'[d] = documents[d]
        /\ UNCHANGED <<jobs, lapsed, serial, lost>>
    BY <1>5 DEF MarkDocumentFailed, Q!MarkDocumentFailed, Crash, Q!Crash
  <2>2. SameView(d)
    BY <1>0, <2>1 DEF SameView, Q!Idle
  <2> QED
    BY <2>2, SameViewKeepsOrder
<1>6. ASSUME NEW slots \in SUBSET Slots, ReplaceExtraction(w, slots) \/ ReplaceReplyLost(w, slots)
      PROVE  InOrder(d)'
  <2>1. /\ \E p \in {"complete", "fail"} : workers' = [workers EXCEPT ![w].phase = p]
        /\ UNCHANGED <<jobs, lapsed>> /\ StoreExtraction(workers[w].job, slots)
        /\ lost \subseteq lost'
    BY <1>6 DEF ReplaceExtraction, ReplaceReplyLost, Returns, Q!ProcessReturns
  <2>2. documents'[d] = documents[d] /\ serial'[d] = serial[d]
    BY <2>1 DEF StoreExtraction, StatusReady
  <2>3. SameView(d)
    BY <2>1, <2>2 DEF SameView
  <2> QED
    BY <2>3, SameViewKeepsOrder
<1> QED
  BY <1>1, <1>2, <1>3, <1>4, <1>5, <1>6

\* Whoever holds a document in order holds it alone, and its row is leased.
LEMMA HolderInOrder ==
  ASSUME NEW d \in Jobs, InOrder(d), NEW w \in Workers, workers[w].job = d
  PROVE  /\ \A v \in Workers \ {w} : workers[v].job # d
         /\ workers[w].phase \in {"process", "complete", "fail"} => jobs[d].state = "leased"
         /\ workers[w].phase = "mark" => jobs[d].state = "failed"
         /\ workers[w].phase = "complete" => documents[d] = "ready"
  BY DEF InOrder, HeldInOrder, StatusInOrder, HasJob, Q!Held, Q!Holds

\* LeaseNextJob: only a document nobody has is leased, for its row is not leased.
LEMMA LeaseKeepsOrder ==
  ASSUME ExtractionInv, NEW w \in Workers, NEW d \in Jobs, InOrder(d), LeaseNextJob(w)
  PROVE  InOrder(d)'
<1> USE DEF ExtractionInv, ClaimsTypeOK, Q!TypeOK, Q!JobsTypeOK, Q!WorkersTypeOK, Q!WorkerState, Q!JobRow,
            claimVars
<1>1. PICK j \in Jobs :
        /\ Q!NextJob(j)
        /\ jobs' = [jobs EXCEPT ![j] = [state |-> "leased", attempts |-> jobs[j].attempts + 1,
                                        leasedBy |-> w]]
        /\ lapsed' = lapsed \ {j}
        /\ workers' = [workers EXCEPT ![w] =
                         [phase |-> "process", job |-> j, attempts |-> jobs[j].attempts + 1]]
  BY DEF LeaseNextJob, Q!LeaseNextJob
<1>2. UNCHANGED <<documents, serial, lost>> /\ workers[w].job = NoJob /\ NoJob # d
  BY QueueAssumption DEF LeaseNextJob, Q!LeaseNextJob
<1>3. CASE j # d
  <2>1. SameView(d)
    BY <1>1, <1>2, <1>3 DEF SameView
  <2> QED
    BY <2>1, SameViewKeepsOrder
<1>4. CASE j = d
  <2>1. jobs[d].state \in {"queued", "retryable"}
    BY <1>1, <1>4 DEF Q!NextJob, Q!Leasable, InOrder, HeldInOrder
  <2>2. \A v \in Workers : workers[v].job # d
    <3>1. ASSUME NEW v \in Workers, workers[v].job = d PROVE FALSE
      <4>1. workers[v].phase \in {"process", "complete", "fail", "mark"}
        BY <3>1, QueueAssumption DEF Q!Phase
      <4> QED
        BY <2>1, <3>1, <4>1, HolderInOrder
    <3> QED
      BY <3>1
  <2>3. /\ \A v \in Workers \ {w} : workers'[v].job # d
        /\ workers'[w].job = d /\ workers'[w].phase = "process" /\ jobs'[d].state = "leased"
        /\ d \notin lapsed'
    BY <1>1, <1>4, <2>2
  <2>4. HeldInOrder(d)'
    BY <2>3 DEF HeldInOrder, HasJob, Q!Held, Q!Holds
  <2>5. StatusInOrder(d)'
    BY <2>3 DEF StatusInOrder, HasJob
  <2>6. StoredInOrder(d)'
    BY <1>2, <2>1, <2>2 DEF InOrder, StoredInOrder, HasJob
  <2> QED
    BY <2>4, <2>5, <2>6 DEF InOrder
<1> QED
  BY <1>3, <1>4

\* processExtraction: the holder of a document in order stores its first extraction,
\* or one whose answer was lost before.
LEMMA ProcessKeepsOrder ==
  ASSUME ExtractionInv, NEW w \in Workers, NEW d \in Jobs, InOrder(d), workers[w].job = d,
         \/ SetProcessing(w) \/ ProcessFails(w)
         \/ \E slots \in SUBSET Slots : ReplaceExtraction(w, slots) \/ ReplaceReplyLost(w, slots)
  PROVE  InOrder(d)'
<1> USE DEF ExtractionInv, ClaimsTypeOK, Q!TypeOK, Q!JobsTypeOK, Q!WorkersTypeOK, Q!WorkerState,
            claimVars, queueVars
<1>1. /\ workers[w].phase = "process" /\ UNCHANGED <<jobs, lapsed>>
      /\ \E p \in {"process", "complete", "fail"} : workers' = [workers EXCEPT ![w].phase = p]
      /\ lost \subseteq lost'
  BY DEF SetProcessing, ProcessFails, ReplaceExtraction, ReplaceReplyLost, Returns, Q!ProcessReturns
<1>2. /\ \A v \in Workers \ {w} : workers[v].job # d /\ workers'[v].job # d
      /\ workers'[w].job = d /\ workers'[w].phase \in {"process", "complete", "fail"}
      /\ jobs'[d].state = "leased" /\ d \notin lapsed'
  BY <1>1, HolderInOrder DEF InOrder, HeldInOrder
<1>3. HeldInOrder(d)'
  BY <1>2 DEF HeldInOrder, HasJob, Q!Held, Q!Holds
<1>4. workers'[w].phase = "complete" => documents'[d] = "ready"
  BY <1>1 DEF SetProcessing, ProcessFails, ReplaceExtraction, ReplaceReplyLost, Returns,
              Q!ProcessReturns, StoreExtraction, StatusReady
<1>5. StatusInOrder(d)'
  BY <1>2, <1>4 DEF StatusInOrder, HasJob
<1>6. \/ serial' = serial \/ workers'[w].phase = "complete" \/ d \in lost'
  BY <1>1 DEF SetProcessing, ProcessFails, ReplaceExtraction, ReplaceReplyLost, Returns,
              Q!ProcessReturns
<1>7. d \in lost \/ serial[d] = 0
  BY <1>1, <1>2 DEF InOrder, StoredInOrder, HasJob
<1>8. StoredInOrder(d)'
  BY <1>1, <1>2, <1>6, <1>7 DEF StoredInOrder, HasJob
<1> QED
  BY <1>3, <1>5, <1>8 DEF InOrder

\* The end of runOne: the row is leased, so CompleteJob and FailJob write it, and
\* after a terminal failure the worker has the document until it is marked failed.
LEMMA ReleaseKeepsOrder ==
  ASSUME ExtractionInv, NEW w \in Workers, NEW d \in Jobs, InOrder(d), workers[w].job = d,
         CompleteJob(w) \/ FailJob(w) \/ MarkDocumentFailed(w)
  PROVE  InOrder(d)'
<1> USE DEF ExtractionInv, ClaimsTypeOK, Q!TypeOK, Q!JobsTypeOK, Q!WorkersTypeOK, Q!WorkerState,
            claimVars
<1>0. NoJob # d
  BY QueueAssumption
<1>1. \A v \in Workers \ {w} : workers[v].job # d
  BY HolderInOrder
<1>2. UNCHANGED <<serial, lost>>
  BY DEF CompleteJob, FailJob, MarkDocumentFailed
<1>3. CASE CompleteJob(w)
  <2>1. /\ workers[w].phase = "complete" /\ jobs[d].state = "leased" /\ documents[d] = "ready"
        /\ UNCHANGED documents
    BY <1>3, HolderInOrder DEF CompleteJob, Q!CompleteJob
  <2>2. Q!Release(d, "completed") /\ workers' = [workers EXCEPT ![w] = Q!Idle]
    BY <1>3, <2>1 DEF CompleteJob, Q!CompleteJob, Q!Releasable
  <2>3. jobs'[d].state = "completed" /\ d \notin lapsed' /\ \A v \in Workers : workers'[v].job # d
    BY <1>0, <1>1, <2>2 DEF Q!Release, Q!Idle
  <2> QED
    BY <2>1, <2>3
    DEF InOrder, HeldInOrder, StatusInOrder, StoredInOrder, HasJob, Q!Held, Q!Holds
<1>4. CASE FailJob(w)
  <2>1. workers[w].phase = "fail" /\ jobs[d].state = "leased"
    BY <1>4, HolderInOrder DEF FailJob, Q!FailJob
  <2>2. /\ Q!Release(d, IF Q!Terminal(w) THEN "failed" ELSE "retryable")
        /\ workers' = [workers EXCEPT ![w] =
             IF Q!Terminal(w) THEN [phase |-> "mark", job |-> d, attempts |-> workers[w].attempts]
             ELSE Q!Idle]
    BY <1>4, <2>1 DEF FailJob, Q!FailJob, Q!Releasable
  <2>3. /\ jobs'[d].state = IF Q!Terminal(w) THEN "failed" ELSE "retryable"
        /\ d \notin lapsed'
    BY <2>2 DEF Q!Release
  <2>4. /\ \A v \in Workers \ {w} : workers'[v].job # d
        /\ Q!Terminal(w) => workers'[w].job = d /\ workers'[w].phase = "mark"
        /\ ~Q!Terminal(w) => workers'[w].job # d
    BY <1>0, <1>1, <2>2 DEF Q!Idle
  <2>5. HeldInOrder(d)'
    BY <2>3, <2>4 DEF HeldInOrder, HasJob, Q!Held, Q!Holds
  <2>6. StatusInOrder(d)'
    BY <2>3, <2>4 DEF StatusInOrder, HasJob
  <2>7. StoredInOrder(d)'
    BY <1>1, <1>2, <2>1 DEF InOrder, StoredInOrder, HasJob
  <2> QED
    BY <2>5, <2>6, <2>7 DEF InOrder
<1>5. CASE MarkDocumentFailed(w)
  <2>1. /\ workers[w].phase = "mark" /\ workers' = [workers EXCEPT ![w] = Q!Idle]
        /\ documents'[d] = "failed" /\ UNCHANGED <<jobs, lapsed>>
    BY <1>5 DEF MarkDocumentFailed, Q!MarkDocumentFailed
  <2>2. \A v \in Workers : workers'[v].job # d
    BY <1>0, <1>1, <2>1 DEF Q!Idle
  <2>3. jobs'[d].state = "failed" /\ d \notin lapsed'
    BY <2>1, HolderInOrder DEF InOrder, HeldInOrder
  <2>4. StoredInOrder(d)'
    BY <1>1, <1>2, <2>1, <2>3 DEF InOrder, StoredInOrder, HasJob
  <2> QED
    BY <2>1, <2>2, <2>3, <2>4
    DEF InOrder, HeldInOrder, StatusInOrder, HasJob, Q!Held, Q!Holds
<1> QED
  BY <1>3, <1>4, <1>5

\* CreateDocument and the passing of time.
LEMMA ClockKeepsOrder ==
  ASSUME ExtractionInv, NEW e \in Jobs, NEW d \in Jobs, InOrder(d),
         \/ CreateDocument(e)
         \/ Q!BackoffEnds(e) /\ UNCHANGED <<documents, claimVars, citeVars, step, lost>>
         \/ Q!OrphanLapses(e) /\ UNCHANGED <<documents, claimVars, citeVars, step, lost>>
         \/ /\ Q!LeaseOutlived(e) /\ e # d
            /\ UNCHANGED <<documents, claimVars, citeVars, step, lost>>
  PROVE  InOrder(d)'
<1> USE DEF ExtractionInv, ClaimsTypeOK, Q!TypeOK, Q!JobsTypeOK, claimVars
<1>1. CASE CreateDocument(e)
  <2>1. UNCHANGED <<workers, lapsed, serial, lost>> /\ jobs[e].state = "absent"
    BY <1>1 DEF CreateDocument, Q!Enqueue
  <2>2. CASE e # d
    <3>1. SameView(d)
      BY <1>1, <2>1, <2>2 DEF CreateDocument, Q!Enqueue, SameView
    <3> QED
      BY <3>1, SameViewKeepsOrder
  <2>3. CASE e = d
    <3>1. jobs'[d].state = "queued"
      BY <1>1, <2>3 DEF CreateDocument, Q!Enqueue
    <3> QED
      BY <2>1, <2>3, <3>1
      DEF InOrder, HeldInOrder, StatusInOrder, StoredInOrder, HasJob, Q!Held, Q!Holds
  <2> QED
    BY <2>2, <2>3
<1>2. CASE ~CreateDocument(e)
  <2>1. UNCHANGED <<jobs, workers, documents, serial, lost>>
    BY <1>2 DEF Q!BackoffEnds, Q!OrphanLapses, Q!LeaseOutlived
  <2>2. d \in lapsed' => d \in lapsed
    BY <1>2 DEF Q!BackoffEnds, Q!OrphanLapses, Q!LeaseOutlived, InOrder, HeldInOrder
  <2>3. SameView(d)
    BY <2>1, <2>2 DEF SameView
  <2> QED
    BY <2>3, SameViewKeepsOrder
<1> QED
  BY <1>1, <1>2

\* A document leaves its order only by a crash of the worker that has it or when its
\* lease is outlived.
LEMMA OrderStep ==
  ASSUME ExtractionInv, [Next]_vars, NEW d \in Jobs, InOrder(d),
         \A w \in Workers : Crash(w) => workers[w].job # d,
         ~Q!LeaseOutlived(d)
  PROVE  InOrder(d)'
<1>1. ASSUME NEW w \in Workers, Worker(w) \/ Crash(w) PROVE InOrder(d)'
  <2>1. CASE LeaseNextJob(w)
    BY <2>1, LeaseKeepsOrder
  <2>2. CASE workers[w].job # d /\ ~LeaseNextJob(w)
    BY <1>1, <2>2, OthersKeepOrder DEF Worker
  <2>3. CASE workers[w].job = d /\ ~LeaseNextJob(w)
    BY <1>1, <2>3, ProcessKeepsOrder, ReleaseKeepsOrder DEF Worker
  <2> QED
    BY <2>1, <2>2, <2>3
<1>2. ASSUME NEW w \in Workers, NEW slots \in SUBSET Slots, ReplaceReplyLost(w, slots)
      PROVE  InOrder(d)'
  BY <1>2, OthersKeepOrder, ProcessKeepsOrder
<1>3. CASE TimePasses \/ \E e \in Jobs : CreateDocument(e)
  BY <1>3, ClockKeepsOrder DEF TimePasses
<1>4. ASSUME UNCHANGED <<queueVars, documents, serial, lost>> PROVE InOrder(d)'
  <2>1. SameView(d)
    BY <1>4 DEF queueVars, SameView
  <2> QED
    BY <2>1, SameViewKeepsOrder
<1>5. ASSUME NEW e \in Jobs, UploadAgain(e) PROVE InOrder(d)'
  BY <1>4, <1>5 DEF UploadAgain, AnswersExisting, vars, claimVars
<1>6. ASSUME NEW c \in claims, VerifyCitations(c) \/ \E accept \in BOOLEAN : ReviewClaim(c, accept)
      PROVE  InOrder(d)'
  BY <1>4, <1>6 DEF VerifyCitations, ReviewClaim, claimVars
<1>7. CASE InsertCitations \/ UNCHANGED vars
  BY <1>4, <1>7 DEF InsertCitations, vars, claimVars
<1> QED
  BY <1>1, <1>2, <1>3, <1>5, <1>6, <1>7 DEF Next

\* A crash and an outlived lease count a fault; no other step of the pipeline does,
\* and none counts down.
LEMMA FaultStep ==
  ASSUME ExtractionInv, [Next]_vars
  PROVE  /\ faults \in Nat /\ faults' \in Nat /\ faults <= faults'
         /\ \A w \in Workers : Crash(w) => faults' = faults + 1
         /\ \A j \in Jobs : Q!LeaseOutlived(j) => faults' = faults + 1
<1>1. faults \in Nat
  BY DEF ExtractionInv, Q!TypeOK, Q!WorkersTypeOK
<1>2. faults' = faults \/ faults' = faults + 1
  <2>1. [Q!Next]_(Q!vars)
    BY QueueStep
  <2> QED
    BY <2>1 DEF Q!Next, Q!vars, Q!Enqueue, Q!BackoffEnds, Q!OrphanLapses, Q!LeaseOutlived,
         Q!LeaseNextJob, Q!CompleteJob, Q!FailJob, Q!MarkDocumentFailed, Q!Crash,
         Q!ProcessReturns, Q!Fault
<1> QED
  BY <1>1, <1>2 DEF Crash, Q!Crash, Q!LeaseOutlived, Q!Fault

LEMMA OutOfOrderStep ==
  ASSUME ExtractionInv, [Next]_vars, OutOfOrderCounted
  PROVE  OutOfOrderCounted'
<1>1. \/ \E x : OutOfOrder' \subseteq OutOfOrder \cup {x} /\ faults' = faults + 1
      \/ OutOfOrder' \subseteq OutOfOrder
  <2>1. ASSUME NEW w \in Workers, Crash(w)
        PROVE  OutOfOrder' \subseteq OutOfOrder \cup {workers[w].job} /\ faults' = faults + 1
    <3>1. ASSUME NEW d \in Jobs, InOrder(d), d # workers[w].job PROVE InOrder(d)'
      BY <2>1, <3>1, OthersKeepOrder
    <3> QED
      BY <2>1, <3>1, FaultStep DEF OutOfOrder
  <2>2. ASSUME NEW e \in Jobs, Q!LeaseOutlived(e), \A w \in Workers : ~Crash(w)
        PROVE  OutOfOrder' \subseteq OutOfOrder \cup {e} /\ faults' = faults + 1
    <3>1. ASSUME NEW d \in Jobs, InOrder(d), d # e PROVE InOrder(d)'
      <4>1. ~Q!LeaseOutlived(d)
        <5>1. ASSUME Q!LeaseOutlived(d) PROVE FALSE
          <6>1. lapsed' = lapsed \cup {d} /\ d \notin lapsed /\ lapsed' = lapsed \cup {e} /\ e \notin lapsed
            BY <2>2, <5>1 DEF Q!LeaseOutlived
          <6> QED
            BY <3>1, <6>1
        <5> QED
          BY <5>1
      <4> QED
        BY <2>2, <3>1, <4>1, OrderStep
    <3> QED
      BY <2>2, <3>1, FaultStep DEF OutOfOrder
  <2>3. ASSUME \A w \in Workers : ~Crash(w), \A e \in Jobs : ~Q!LeaseOutlived(e)
        PROVE  OutOfOrder' \subseteq OutOfOrder
    BY <2>3, OrderStep DEF OutOfOrder
  <2> QED
    BY <2>1, <2>2, <2>3
<1>2. IsFiniteSet(OutOfOrder) /\ Cardinality(OutOfOrder) \in Nat /\ Cardinality(OutOfOrder) <= faults
  BY FS_CardinalityType DEF OutOfOrderCounted
<1>3. CASE OutOfOrder' \subseteq OutOfOrder
  <2>1. IsFiniteSet(OutOfOrder') /\ Cardinality(OutOfOrder') <= Cardinality(OutOfOrder)
    BY <1>2, <1>3, FS_Subset
  <2>2. Cardinality(OutOfOrder') \in Nat
    BY <2>1, FS_CardinalityType
  <2>3. Cardinality(OutOfOrder') <= faults'
    BY <1>2, <2>1, <2>2, FaultStep
  <2> QED
    BY <2>1, <2>3 DEF OutOfOrderCounted
<1>4. ASSUME NEW x, OutOfOrder' \subseteq OutOfOrder \cup {x}, faults' = faults + 1
      PROVE  OutOfOrderCounted'
  <2> DEFINE U == OutOfOrder \cup {x}
  <2>1. IsFiniteSet(U) /\ Cardinality(U) \in Nat /\ Cardinality(U) <= Cardinality(OutOfOrder) + 1
    BY <1>2, FS_AddElement, FS_CardinalityType
  <2>2. IsFiniteSet(OutOfOrder') /\ Cardinality(OutOfOrder') <= Cardinality(U)
    BY <1>4, <2>1, FS_Subset
  <2>3. Cardinality(OutOfOrder') \in Nat
    BY <2>2, FS_CardinalityType
  <2> HIDE DEF U
  <2>4. Cardinality(OutOfOrder') <= faults'
    BY <1>2, <1>4, <2>1, <2>2, <2>3, FaultStep
  <2> QED
    BY <2>2, <2>4 DEF OutOfOrderCounted
<1> QED
  BY <1>1, <1>3, <1>4

LEMMA OutOfOrderInit == Init => OutOfOrderCounted
<1> SUFFICES ASSUME Init PROVE OutOfOrderCounted
  OBVIOUS
<1>1. ASSUME NEW d \in Jobs PROVE InOrder(d)
  <2>1. /\ jobs[d].state = "absent" /\ lapsed = {} /\ serial[d] = 0 /\ faults = 0
        /\ \A w \in Workers : workers[w].job # d
    BY QueueAssumption DEF Init, Q!Init, Q!NoRow, Q!Idle
  <2> QED
    BY <2>1 DEF InOrder, HeldInOrder, StatusInOrder, StoredInOrder, HasJob, Q!Held, Q!Holds
<1>2. OutOfOrder = {}
  BY <1>1 DEF OutOfOrder
<1> QED
  BY <1>2, FS_EmptySet DEF OutOfOrderCounted, Init, Q!Init

LEMMA OutOfOrderBound == Spec => []OutOfOrderCounted
<1>1. ExtractionInv /\ OutOfOrderCounted /\ [Next]_vars => OutOfOrderCounted'
  BY OutOfOrderStep
<1> QED
  BY <1>1, OutOfOrderInit, ExtractionInvariant, PTL DEF Spec

\* A part of the documents out of order is no larger than the number of faults.
LEMMA CountedPart ==
  ASSUME ExtractionInv, OutOfOrderCounted, NEW S \in SUBSET OutOfOrder
  PROVE  Cardinality(S) <= faults
<1>1. /\ IsFiniteSet(OutOfOrder) /\ Cardinality(OutOfOrder) \in Nat /\ faults \in Nat
      /\ Cardinality(OutOfOrder) <= faults
  BY FS_CardinalityType DEF OutOfOrderCounted, ExtractionInv, Q!TypeOK, Q!WorkersTypeOK
<1>2. IsFiniteSet(S) /\ Cardinality(S) <= Cardinality(OutOfOrder)
  BY <1>1, FS_Subset
<1>3. Cardinality(S) \in Nat
  BY <1>2, FS_CardinalityType
<1> QED
  BY <1>1, <1>2, <1>3

\* However documents, retries and workers interleave, at most one document at rest
\* per crash or outlived lease shows a status other than its job's outcome.
THEOREM StatusIsTrusted == Spec => []StatusTellsOutcome
<1>1. ExtractionInv /\ OutOfOrderCounted => StatusTellsOutcome
  <2> SUFFICES ASSUME ExtractionInv, OutOfOrderCounted PROVE StatusTellsOutcome
    OBVIOUS
  <2>1. ASSUME NEW d \in Misstated PROVE d \in OutOfOrder
    BY <2>1 DEF Misstated, AtRest, OutOfOrder, InOrder, StatusInOrder, HasJob, Q!Settled
  <2> QED
    BY <2>1, CountedPart DEF StatusTellsOutcome
<1> QED
  BY <1>1, ExtractionInvariant, OutOfOrderBound, PTL

\* A stored extraction whose answer arrived is lost to a failed status only through
\* a crash or an outlived lease, one document for each.
THEOREM StoredWorkIsKept == Spec => []StoredWorkSurvives
<1>1. ExtractionInv /\ OutOfOrderCounted => StoredWorkSurvives
  <2> SUFFICES ASSUME ExtractionInv, OutOfOrderCounted PROVE StoredWorkSurvives
    OBVIOUS
  <2>1. ASSUME NEW d \in ExtractedYetFailed PROVE d \in OutOfOrder
    BY <2>1 DEF ExtractedYetFailed, OutOfOrder, InOrder, StatusInOrder, StoredInOrder, HasJob,
         ExtractionInv, ClaimsTypeOK
  <2> QED
    BY <2>1, CountedPart DEF StoredWorkSurvives
<1> QED
  BY <1>1, ExtractionInvariant, OutOfOrderBound, PTL
=============================================================================
