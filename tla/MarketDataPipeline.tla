------------------------- MODULE MarketDataPipeline -------------------------
(***************************************************************************)
(* Market data: the market_data_snapshots table, the CSV files beneath     *)
(* market-data/ and the fetch_market_data task of the worker.  The jobs    *)
(* and the worker loop are JobQueue's.  A file is named by the lease that  *)
(* wrote it: job and attempt.                                              *)
(***************************************************************************)
EXTENDS Naturals, FiniteSets

CONSTANTS Jobs, Workers, NoJob, NoWorker, MaxAttempts, Faults, MaxFaults

\* What JobQueue assumes of its constants.
ASSUME QueueAssumption ==
  NoJob \notin Jobs /\ NoWorker \notin Workers /\ MaxAttempts \in Nat \ {0} /\ MaxFaults \in Nat

VARIABLES jobs, due, ahead, lapsed, workers, faults,
          files,      \* the CSV files on the volume
          snapshots,  \* storage_key of the rows of market_data_snapshots
          step        \* where a worker is inside FetchSnapshot

Q == INSTANCE JobQueue WITH DocumentJobs <- {}

queueVars == <<jobs, due, ahead, lapsed, workers, faults>>
vars == <<queueVars, files, snapshots, step>>

Key(w) == <<workers[w].job, workers[w].attempts>>
RowsOf(j) == {key \in snapshots : key[1] = j}

-----------------------------------------------------------------------------
Init ==
  /\ Q!Init
  /\ files = {} /\ snapshots = {}
  /\ step = [w \in Workers |-> "fetch"]

\* RequestSnapshot of a valid request: only the job is stored.
RequestSnapshot(j) == Q!Enqueue(j) /\ UNCHANGED <<files, snapshots, step>>

LeaseNextJob(w) == Q!LeaseNextJob(w) /\ UNCHANGED <<files, snapshots, step>>

At(w, s) == workers[w].phase = "process" /\ step[w] = s
Returns(w, ok) == Q!ProcessReturns(w, ok) /\ step' = [step EXCEPT ![w] = "fetch"]

\* FetchMarketData answers with bars and SnapshotStore.Save writes them: the file
\* has its name only when it is complete.
Saved(w) == files \cup {Key(w)}

FetchAndSave(w) ==
  /\ At(w, "fetch")
  /\ files' = Saved(w)
  /\ step' = [step EXCEPT ![w] = "insert"]
  /\ UNCHANGED <<queueVars, snapshots>>

\* InsertMarketDataSnapshot: always a new row; processMarketData then returns.
Inserted(w) == snapshots \cup {Key(w)}

InsertSnapshot(w) ==
  /\ At(w, "insert")
  /\ snapshots' = Inserted(w)
  /\ Returns(w, TRUE)
  /\ UNCHANGED files

\* The row is stored but the worker sees an error.
InsertReplyLost(w) ==
  /\ Q!Fault("reply")
  /\ At(w, "insert")
  /\ snapshots' = Inserted(w)
  /\ workers' = [workers EXCEPT ![w].phase = "fail"]
  /\ step' = [step EXCEPT ![w] = "fetch"]
  /\ UNCHANGED <<jobs, due, ahead, lapsed, files>>

\* The provider, the volume or the insert fails, or there are no bars.
FetchEmptyAsDone(w) == Returns(w, TRUE) /\ UNCHANGED <<files, snapshots>>

FetchFails(w) == Returns(w, FALSE) /\ UNCHANGED <<files, snapshots>>

CompleteJob(w) == Q!CompleteJob(w) /\ UNCHANGED <<files, snapshots, step>>

FailJob(w) == Q!FailJob(w) /\ UNCHANGED <<files, snapshots, step>>

Crash(w) ==
  /\ Q!Crash(w)
  /\ step' = [step EXCEPT ![w] = "fetch"]
  /\ UNCHANGED <<files, snapshots>>

TimePasses ==
  /\ \E j \in Jobs : Q!BackoffEnds(j) \/ Q!OrphanLapses(j) \/ Q!LeaseOutlived(j)
  /\ UNCHANGED <<files, snapshots, step>>

Next ==
  \/ \E j \in Jobs : RequestSnapshot(j)
  \/ \E w \in Workers : \/ LeaseNextJob(w) \/ FetchAndSave(w) \/ InsertSnapshot(w)
                        \/ InsertReplyLost(w) \/ FetchFails(w)
                        \/ CompleteJob(w) \/ FailJob(w) \/ Crash(w)
  \/ TimePasses

Spec == Init /\ [][Next]_vars

-----------------------------------------------------------------------------
\* Whichever worker completes the job, and however late, a completed request has
\* a snapshot a backtest can name, and every snapshot has its file.
CompletedHasSnapshot ==
  /\ \A j \in Jobs : jobs[j].state = "completed" => RowsOf(j) # {}
  /\ snapshots \subseteq files

\* Nothing makes the insert idempotent: a retry after a stored row stores another.
\* Still each fault (a crash, an outlived lease, a lost answer) adds one at most.
DuplicatesNeedFaults == \A j \in Jobs : Cardinality(RowsOf(j)) <= 1 + faults
=============================================================================
