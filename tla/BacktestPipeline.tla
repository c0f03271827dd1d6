-------------------------- MODULE BacktestPipeline --------------------------
(***************************************************************************)
(* Backtests: the backtest_runs and portfolio_candidates tables, the       *)
(* equity-curve artifacts and the run_backtest task of the worker.  The    *)
(* jobs and the worker loop are JobQueue's.  A run and its one job are     *)
(* created together and share an id here.  The engine is abstract: an      *)
(* execution is named by the attempt that made it and proposes some        *)
(* symbols.                                                                *)
(***************************************************************************)
EXTENDS Naturals

CONSTANTS Jobs, Workers, NoJob, NoWorker, MaxAttempts, Faults, MaxFaults,
          Symbols,    \* symbols the engine might propose
          Universe    \* those the strategy's spec authorizes

ASSUME UniverseAssumption == Universe \subseteq Symbols

\* What JobQueue assumes of its constants.
ASSUME QueueAssumption ==
  NoJob \notin Jobs /\ NoWorker \notin Workers /\ MaxAttempts \in Nat \ {0} /\ MaxFaults \in Nat

VARIABLES jobs, due, ahead, lapsed, workers, faults,
          runs,        \* backtest_runs: status, and the execution it records
          candidates,  \* portfolio_candidates: <<symbol, execution>> per run
          artifacts,   \* files under backtests/: <<run, execution>>
          task,        \* where a worker is in processBacktest, and its result
          listing      \* the ranking a client is listing, and the rows shown with evidence

Q == INSTANCE JobQueue WITH DocumentJobs <- {}

queueVars == <<jobs, due, ahead, lapsed, workers, faults>>
runVars == <<runs, candidates, artifacts>>
vars == <<queueVars, runVars, task, listing>>

RunStatus == {"absent", "queued", "running", "completed", "failed"}
Step == {"read", "mark", "simulate", "save", "record", "failing"}

NoRun == [status |-> "absent", result |-> 0]
NoTask == [step |-> "read", proposed |-> {}]
NoListing == [step |-> "served", rows |-> {}, evidence |-> {}]

-----------------------------------------------------------------------------
Init ==
  /\ Q!Init
  /\ runs = [r \in Jobs |-> NoRun]
  /\ candidates = [r \in Jobs |-> {}]
  /\ artifacts = {}
  /\ task = [w \in Workers |-> NoTask]
  /\ listing = NoListing

\* CreateBacktestWithRunJob: the queued run and its job in one transaction.
CreateBacktest(r) ==
  /\ Q!Enqueue(r)
  /\ runs' = [runs EXCEPT ![r] = [status |-> "queued", result |-> 0]]
  /\ UNCHANGED <<candidates, artifacts, task, listing>>

LeaseNextJob(w) == Q!LeaseNextJob(w) /\ UNCHANGED <<runVars, task, listing>>

(***************************************************************************)
(* processBacktest.                                                        *)
(***************************************************************************)
At(w, step) == workers[w].phase = "process" /\ task[w].step = step
Goto(w, step) == task' = [task EXCEPT ![w].step = step] /\ UNCHANGED <<queueVars, listing>>
Returns(w, ok) ==
  Q!ProcessReturns(w, ok) /\ task' = [task EXCEPT ![w] = NoTask] /\ UNCHANGED listing

\* GetBacktestRun: a completed run needs no work, the job just completes.
SkipIfNever(w) == FALSE

AlreadyCompleted(w) == runs[workers[w].job].status = "completed"

ReadRun(w) ==
  /\ At(w, "read")
  /\ IF AlreadyCompleted(w) THEN Returns(w, TRUE) ELSE Goto(w, "mark")
  /\ UNCHANGED runVars

\* The strategy, its citations, the snapshot and the signals are read; then
\* SetBacktestStatus(run.ID, "running"), whatever the status is by now.
SetRunning(w) ==
  /\ At(w, "mark")
  /\ runs' = [runs EXCEPT ![workers[w].job].status = "running"]
  /\ Goto(w, "simulate")
  /\ UNCHANGED <<candidates, artifacts>>

\* RunBacktest answers; a proposal outside the universe is an error.
Unauthorized(proposed) == ~(proposed \subseteq Universe)

Simulate(w, proposed) ==
  /\ At(w, "simulate")
  /\ task' = [task EXCEPT ![w] =
                IF Unauthorized(proposed) THEN [step |-> "failing", proposed |-> {}]
                ELSE [step |-> "save", proposed |-> proposed]]
  /\ UNCHANGED <<queueVars, runVars, listing>>

\* Artifacts.Save: a new file under a random name.
SaveArtifact(w) ==
  /\ At(w, "save")
  /\ artifacts' = artifacts \cup {<<workers[w].job, workers[w].attempts>>}
  /\ Goto(w, "record")
  /\ UNCHANGED <<runs, candidates>>

\* CompleteBacktest's WHERE status IN ('queued', 'running').
InProgress(r) == runs[r].status \in {"queued", "running"}

\* insertCandidates: the run's earlier rows are deleted first.
RankingAdded(r, proposed, execution) == candidates[r] \cup (proposed \X {execution})

RankingMerged(r, proposed, execution) ==
  LET kept == {c \in candidates[r] : c[1] \in proposed}
  IN kept \cup ((proposed \ {c[1] : c \in kept}) \X {execution})

Ranking(r, proposed, execution) == proposed \X {execution}

RecordResultStatusOnly(w) ==
  LET r == workers[w].job
  IN /\ runs' = [runs EXCEPT ![r].status = "completed"]
     /\ candidates' = [candidates EXCEPT ![r] = Ranking(r, task[w].proposed, workers[w].attempts)]
     /\ UNCHANGED artifacts

RecordResult(w) ==
  LET r == workers[w].job
      n == workers[w].attempts
  IN /\ runs' = [runs EXCEPT ![r] = [status |-> "completed", result |-> n]]
     /\ candidates' = [candidates EXCEPT ![r] = Ranking(r, task[w].proposed, n)]
     /\ UNCHANGED artifacts

CompleteBacktest(w) ==
  /\ At(w, "record")
  /\ IF InProgress(workers[w].job)
     THEN RecordResult(w) /\ Returns(w, TRUE)
     ELSE UNCHANGED runVars /\ Goto(w, "failing")

\* The commit is applied but its answer is lost: the worker sees an error.
CompleteReplyLost(w) ==
  /\ "reply" \in Faults
  /\ At(w, "record")
  /\ InProgress(workers[w].job)
  /\ RecordResult(w)
  /\ Goto(w, "failing")

\* The engine, the file store or the database fails.  A failure of the first
\* read, GetBacktestRun, is a fault of its own: the worker then does not know
\* whether the run is completed.
CallFails(w) ==
  /\ workers[w].phase = "process" /\ task[w].step # "failing"
  /\ task[w].step = "read" => "store" \in Faults
  /\ Goto(w, "failing")
  /\ UNCHANGED runVars

\* failIfTerminal: on the last attempt SetBacktestStatus(id, "failed"), whatever
\* the status is; that call may itself fail, then only the error is returned.
MarkFailedNever(w) == runs

MarkFailed(w) ==
  IF Q!Terminal(w) THEN [runs EXCEPT ![workers[w].job].status = "failed"] ELSE runs

FailIfTerminalDropsJob(w) ==
  /\ At(w, "failing")
  /\ runs' = MarkFailed(w)
  /\ workers' = [workers EXCEPT ![w] = Q!Idle]
  /\ task' = [task EXCEPT ![w] = NoTask]
  /\ UNCHANGED <<jobs, due, ahead, lapsed, faults, candidates, artifacts, listing>>

FailIfTerminal(w) ==
  /\ At(w, "failing")
  /\ \/ runs' = MarkFailed(w)
     \/ "store" \in Faults /\ UNCHANGED runs
  /\ Returns(w, FALSE)
  /\ UNCHANGED <<candidates, artifacts>>

CompleteJob(w) == Q!CompleteJob(w) /\ UNCHANGED <<runVars, task, listing>>

FailJob(w) == Q!FailJob(w) /\ UNCHANGED <<runVars, task, listing>>

Crash(w) ==
  /\ Q!Crash(w)
  /\ task' = [task EXCEPT ![w] = NoTask]
  /\ UNCHANGED <<runVars, listing>>

BackoffEnds(j) == Q!BackoffEnds(j) /\ UNCHANGED <<runVars, task, listing>>
OrphanLapses(j) == Q!OrphanLapses(j) /\ UNCHANGED <<runVars, task, listing>>
LeaseOutlived(j) == Q!LeaseOutlived(j) /\ UNCHANGED <<runVars, task, listing>>

(***************************************************************************)
(* ListCandidates: two queries, outside any transaction.  Every row of     *)
(* portfolio_candidates has a fresh id, here its run, symbol and           *)
(* execution, and is inserted and deleted together with its evidence in    *)
(* candidate_claims.  Rows without evidence, LIMIT and the choice of a     *)
(* strategy's latest run are left out: r is the run selected.              *)
(***************************************************************************)
Rows(r) == {<<r, c>> : c \in candidates[r]}
StoredRows == UNION {Rows(r) : r \in Jobs}

\* Only completed runs are selected; an empty ranking is returned at once.
Selected(r) == IF runs[r].status = "completed" THEN Rows(r) ELSE {}

ListRanking(r) ==
  /\ listing.step = "served"
  /\ listing' = [step |-> IF Selected(r) = {} THEN "served" ELSE "ranked",
                 rows |-> Selected(r), evidence |-> {}]
  /\ UNCHANGED <<queueVars, runVars, task>>

\* attachCandidateEvidence: by now there is evidence for those of the ids that are
\* still stored; its rows are named like the positions they belong to.
EvidenceOf(rows) == rows \cap StoredRows

AttachEvidence ==
  /\ listing.step = "ranked"
  /\ listing' = [listing EXCEPT !.step = "served", !.evidence = EvidenceOf(listing.rows)]
  /\ UNCHANGED <<queueVars, runVars, task>>

Worker(w) ==
  \/ LeaseNextJob(w) \/ ReadRun(w) \/ SetRunning(w) \/ SaveArtifact(w)
  \/ CompleteBacktest(w) \/ CallFails(w) \/ FailIfTerminal(w) \/ CompleteJob(w) \/ FailJob(w)
  \/ \E proposed \in SUBSET Symbols : Simulate(w, proposed)

Next ==
  \/ \E r \in Jobs : CreateBacktest(r) \/ BackoffEnds(r) \/ OrphanLapses(r) \/ LeaseOutlived(r)
  \/ \E w \in Workers : Worker(w) \/ CompleteReplyLost(w) \/ Crash(w)
  \/ \E r \in Jobs : ListRanking(r)
  \/ AttachEvidence

Spec == Init /\ [][Next]_vars

\* As in JobQueue: workers keep running, calls return, time passes.
Fairness ==
  /\ \A w \in Workers : WF_vars(Worker(w))
  /\ \A j \in Jobs : WF_vars(BackoffEnds(j)) /\ WF_vars(OrphanLapses(j))

FairSpec == Spec /\ Fairness

-----------------------------------------------------------------------------
Row == Jobs \X (Symbols \X Nat)

\* Type invariant, with the agreement of the run's columns: a completed run has a
\* result and a run nobody has started has none.
TypeOK ==
  /\ Q!TypeOK
  /\ runs \in [Jobs -> [status : RunStatus, result : Nat]]
  /\ \A r \in Jobs : /\ runs[r].status = "completed" => runs[r].result # 0
                     /\ runs[r].status \in {"absent", "queued"} => runs[r].result = 0
  /\ candidates \in [Jobs -> SUBSET (Symbols \X Nat)]
  /\ artifacts \subseteq Jobs \X Nat
  /\ task \in [Workers -> [step : Step, proposed : SUBSET Symbols]]
  /\ listing \in [step : {"ranked", "served"}, rows : SUBSET Row, evidence : SUBSET Row]

\* Whoever completes a run and however often, its stored ranking comes from the
\* one execution whose checksum and artifact the run records, the artifact is on
\* disk, and every symbol of the ranking is in the universe (worker.go: "an
\* unauthorized position can never reach portfolio_candidates").
CandidatesBacked ==
  \A r \in Jobs :
    /\ runs[r].result # 0 => <<r, runs[r].result>> \in artifacts
    /\ candidates[r] \subseteq Universe \X {runs[r].result}

\* worker.go: "a ranking can never exist without the completed run that proves it".
RankingHasCompletedRun ==
  \A r \in Jobs : candidates[r] # {} => runs[r].status = "completed"

\* backtest.go on CompleteBacktest: "It only advances an in-progress run, so a
\* retried job cannot overwrite a finished one".
FinishedNotOverwritten ==
  [][\A r \in Jobs : runs[r].result # 0 => runs'[r].result = runs[r].result]_vars

\* While leases outlast the work, a run and its job settle alike: failIfTerminal
\* marks the run before FailJob settles the job, so no crash separates them.
SettledTogether ==
  \A r \in Jobs : /\ jobs[r].state = "completed" => runs[r].status = "completed"
                  /\ jobs[r].state = "failed" => runs[r].status = "failed"

\* Every run is eventually completed or failed, for good.
RunSettles ==
  \A r \in Jobs : runs[r].status = "queued" ~> [](runs[r].status \in {"completed", "failed"})

\* ListCandidates: "Evidence is loaded in a second query and stitched on".  Whatever
\* overtakes a listing between its two queries, it never shows a part of its
\* positions with evidence and a part without.  All come with theirs, or none does
\* and none is stored any more: the run was completed again meanwhile, which
\* replaces all its rows at once and under fresh ids.
ListingNeverPartial ==
  listing.step = "served" =>
    \/ listing.rows = listing.evidence
    \/ listing.evidence = {} /\ listing.rows \cap StoredRows = {}

\* While leases outlast the work and the store answers, the two queries see one
\* ranking: every served position comes with its evidence, although retries run.
ListingWhole ==
  listing.step = "served" => listing.rows = listing.evidence

\* The pipeline's jobs follow JobQueue.
FollowsJobQueue == Q!Spec
=============================================================================
