# Signal Ledger: TLA+ models, model checking and proofs

Models of the durable core of Signal Ledger: the job queue in PostgreSQL and the
worker that drains it, the three tasks the worker runs, the API operations that
share their tables, the way from claims to a strategy to a run, and the simulator
with its book. Run everything from this directory:

    tlc -config queue.cfg QueueOrder     # one run; PROJECT.json lists all
    tlapm JobQueueProofs.tla             # the proofs of a module

`PROJECT.json` maps every definition to the lines of source it stands for, and
lists runs, mutants, findings, hazards and theorems.

## 1. The system

A Go API and any number of Go workers share PostgreSQL and a document volume; a
stateless Python service does extraction, market-data retrieval and backtests.

| component | state | operations | what makes it hard | what makes it correct |
|---|---|---|---|---|
| job queue (`store/store.go`) | `jobs`: state, attempts, available_at, leased_until, leased_by | insertJob, LeaseNextJob, CompleteJob, FailJob | crashes, leases that run out, updates that check `state = 'leased'` but not `leased_by` | a job settles once, after work or after its whole budget; none is lost or starved |
| worker loop (`jobs/worker.go`) | its copy of the leased job | Run, runOne, process | the copy is stale once the job is leased again | one worker per job while leases outlast the work |
| extraction task | `documents.status`, `document_pages`, `research_claims` | SetDocumentStatus, ReplaceExtraction | a retry replaces claims that people review and cite | cited claims keep their rows; the status tells the job's outcome |
| claim review, strategies (`store/claims.go`, `store/strategies.go`) | `validation_status`, `strategies`, `strategy_claims`, the advisory lock | SetClaimValidationStatus, CreateStrategyWithCitations | check-then-act over several statements, concurrent submissions | gapless versions, only reviewed claims cited |
| backtest task (`store/backtest.go`) | `backtest_runs`, `portfolio_candidates`, artifacts | CreateBacktestWithRunJob, SetBacktestStatus, CompleteBacktest | status written from stale reads, commits whose answer is lost | a ranking is that of the run's recorded execution; run and job settle alike |
| upload (`documents/`) | files, `documents` | Save, CreateDocumentWithExtractionJob, Delete | file and row are stored separately | a row keeps its file, no file is lost track of |
| market data (`marketdata/`) | files, `market_data_snapshots` | RequestSnapshot, FetchSnapshot | a retry is not idempotent | a completed fetch has a stored snapshot |
| signals (`strategies/signals.go`) | none | BuildSignals | claims reviewed after they were cited | only accepted research before the cutoff tilts a run |
| candidate listing (`store/candidates.go`) | none | ListCandidates | two queries outside a transaction, while a run is completed again | the evidence served is that of all the positions served, or of none |
| drafting and validation (`strategies/`) | none | Draft, BuildDraft, Validate, Create | separate reads, reviews before the commit, rules kept in step by hand in Go and in Python | a draft can be committed and run, and runs with the support it was built from |
| backtest admission (`httpapi/backtest.go`, `_engine_params`) | none | backtests handler, parameter and universe checks | the early check sees requested symbols, the engine columns | the early check refuses nothing that could run |
| backtest engine (`backtest.py`) | within a run: cash, positions, orders in flight | run_backtest | exits and rebalances that cross; off-by-one at windows and fills; charges, caps and missing bars | no look-ahead, the stop loss stays armed, proposals are answerable, the book balances |
| extractors, provider, HTTP layers, configuration | none | conversions and calls | | not modelled (section 6) |

Interactions: the API inserts a resource and its job in one transaction; a worker
leases the job, calls Python, writes the resource and settles the job in separate
transactions. Everything a crash, a lost answer or a second worker can spoil lies
between those transactions, and so do the hazards in `PROJECT.json`.

## 2. Modules

* `DurableTasks`: the abstract promise of the queue. A submitted task is handed
  out some number of times and settles once: finished after a hand-out, or given
  up after its whole budget.
* `JobQueue`: the jobs table and the worker loop. `jobs` are the rows, `workers`
  where each worker is in `runOne` with its copy of job and attempts. Time appears
  only as the comparisons the SQL makes: `due` (available_at <= now), `lapsed`
  (leased_until <= now), and `ahead` (the order by available_at, created_at).
  One action per store call; processing returns success or an error.
* `QueueOrder`: JobQueue with a history variable that counts overtaking.
* `ExtractionPipeline`, `BacktestPipeline`, `MarketDataPipeline`: the three tasks.
  Each instantiates JobQueue over its own variables, replaces "processing
  returns" by the steps of the task, and adds the API operations on the same
  tables. A resource and its one job share an id. `FollowsJobQueue` says that the
  jobs of the first two behave as JobQueue says. ExtractionPipeline also uploads a
  document again at any time; its `lost` is a history of lost commit answers. BacktestPipeline also lists a ranking in its two queries, with
  candidate rows named by run, symbol and execution.
* `StrategyVersions`: CreateStrategyWithCitations statement by statement under
  READ COMMITTED, several requests at once, with reviews and rollbacks. The
  advisory lock is external and modelled from how it is used: it waits, and it
  ends with its transaction.
* `StrategyDrafts`: a draft request with its reads, one query after the other,
  BuildDraft, Validate and Create, while claims are reviewed and documents
  extracted again. A claim is its ticker, the themes its text mentions, a sign and
  a confidence in thousandths. A client submits the draft with filters dropped or
  one added. The create transaction, open in StrategyVersions, is one step here.
* `BacktestAdmission` extends it up to a run: the snapshot check of the backtests
  handler, the worker's signals, and the engine's checks of parameters and
  universe.
* `DocumentUpload`: Upload with its file store and its transaction.
* `BacktestEngine`: the day loop of `_simulate_drift` with the signals the worker
  sends: the schedule, selection by ranked momentum and live claims, stop and
  rebalance orders in flight, fills, and the proposed portfolio. The book is the
  set of symbols held. Bars are drawn one day ahead, so that a decision that read
  tomorrow's close would be seen. The calendar is a nondeterministic start of a period.
* `BookAccounting` extends it with money: marking to market, costs, cash, the
  weight cap. Each step of the day is BacktestEngine's with the amounts added, and
  BookIsHeld shows that the two books agree. Amounts are integers; in the instance
  the capital is 2^24, prices and the cost rate are powers of two, so that nothing
  is rounded.
* Theorems: `JobQueueProofs` (JobQueue and QueueOrder), `ExtractionProofs`,
  `BacktestProofs`, `MarketDataProofs`, `UploadProofs`, `StrategyVersionsProofs`,
  `AdmissionProofs` (StrategyDrafts and BacktestAdmission) and `EngineProofs`
  (BacktestEngine and BookAccounting). `MC...`: TLC instances.

Operators such as `LeasableIgnoringExpiry` just before a definition are plausible
mistakes in it. `PROJECT.json` pairs each property of a passing run with one that
must break it; no specification uses them.

Faults are chosen per run by the constant `Faults` (DocumentUpload has all of its
own and counts them by kind):

| fault | what it stands for |
|---|---|
| crash | the process ends and restarts, the context is cancelled, or a store call of runOne fails: the worker is back at the lease and the row stays |
| lapse | a job outlives its lease while its worker still works on it |
| reply | a commit is applied but the caller sees an error |
| store | a backtest's first read, or the write of its failed status, fails |
| delete | deleting an uploaded file fails; the code ignores that |

## 3. Runs

| run | bounds | shows |
|---|---|---|
| queue | 2 jobs, 2 workers, 3 attempts, 3 crashes or outlived leases | with two workers on one job: a failed job spent its budget, leases are bounded, DurableTasks is implemented, a waiting job is overtaken at most once by each other job plus once per fault, every job settles |
| extraction | 2 documents, 2 workers, 2 attempts, a crash or outlived lease, any lost answers | cited claims keep their rows; a document at rest tells the outcome of its job, except for one per fault; a stored extraction ends failed at most once per fault; a document at rest never changes again |
| extraction_review_lost | a crash | violation: a retry deletes reviewed claims |
| backtest_exclusive | 1 run, 2 workers, 3 attempts, 3 crashes | rankings have their completed run and are listed whole, run and job settle alike, every run settles |
| backtest_unfenced | 2 attempts, 2 faults of all kinds, 3 symbols of which 2 authorized | the stored ranking is of the recorded execution, its artifact exists, its symbols are authorized; a listing serves the evidence of all its positions or of none; the jobs follow JobQueue |
| backtest_overwritten | an outlived lease | violation: a finished result is overwritten |
| engine | 2 symbols, 6 days of 5 kinds, 3 claims, lags 0, 1 and 2 | crossing exits and rebalances keep one exit per position and the stop armed, decisions use no later bar or claim, a day ends with the latest decision due as the proposal and the research of its day behind it, no better symbol is left out |
| accounting | 2 symbols, 4 kinds of days, days 0 to 4, lags 0, 1 and 2 | equity is cash plus positions, nothing is borrowed, no trade is free, positions follow their prices |
| market_data | 2 jobs, 2 workers, 2 faults of all kinds | a completed fetch has a snapshot with its file; duplicates need faults |
| strategy_versions | 3 requests, 2 slugs, 1 claim, MaxVersions 3 | gapless versions, no conflict, nothing unreviewed cited, no submission waits for ever |
| drafting | 3 claims of 7 kinds in 2 documents, 1 pending, 1 change, 7 request bodies, 3 added filters, 8 backtest requests with cutoffs before and after the claims, 3 trading days | a draft commits and runs, with net positive support behind its symbols on every day, and nothing refused early that would run, but for the exceptions of section 4 |
| upload_files | 3 requests, 2 contents, 5 uploads, 2 faults of all kinds | only lost answers cost a row its file; strays need crashes or failed deletes |

Why the bounds are enough to be interesting: two workers are what it takes for one
to be overtaken; with three attempts a job fails first, in the middle and last,
and a worker's copy can be two leases old; three faults crash or overtake every
attempt. Two jobs let a worker be busy elsewhere and compete for a place in line
(BoundedOvertaking also holds with three jobs and two faults); two documents let
one be unharmed while a fault spoils the other's status. Six days let an exit fall
due after a rebalance that dropped its symbol, and the symbol be bought again; four
steps let money be marked, stopped out and rebalanced twice. The claims of
`drafting` cancel, cancel when one is counted twice, are not whole hundredths,
mention a theme beside their ticker, name the proxy of a theme as their ticker, and
take effect or expire inside the trading days, those for a symbol before and after
those against it; its backtest requests have cutoffs before, among and after the
claims, override parameters, the default horizon too, miss a symbol or a column, and
name each engine version and an unknown one. In `engine` a claim expires and another
takes effect between a decision and its fill. The
bounds are `MaxAttempts` (jobs.max_attempts, default 3), `MaxFaults`,
`MaxVersions`, `MaxUploads`, `LastDay`, `MaxPending` and `MaxReviews`; versions,
uploads and reviews cap what people start. `NameRoom` stands for the 120 characters
of a strategy's name. Deadlock is not checked: once every job has settled and
clients stop, the system rests. Symmetry is used in safety runs only.

The exclusive runs assume what the configuration asks for ("the job lease must
outlast a full document pass", config.go): no `lapse`. `backtest_exclusive` also
assumes that the first read of the run succeeds: after a crash past
CompleteBacktest, a failing read on the last attempt would let failIfTerminal
mark a completed run failed.

Fairness: `Run` loops for ever and every store or quant call ends (QUANT_TIMEOUT,
database errors), so each worker's steps are weakly fair; time passes, so backoffs
end and the leases of dead workers run out. Faults, clients and reviewers are
never fair. In StrategyVersions the lock is strongly fair, since PostgreSQL queues
its waiters.

## 4. Findings

Each is a violation run against a sentence of the repository; PROJECT.json quotes
it.

1. A worker that crashes after ReplaceExtraction and before CompleteJob is
   retried, and the retry deletes the reviews made meanwhile.
2. SetBacktestStatus(running) from a stale read reopens a completed run, which
   CompleteBacktest then overwrites.

More behaviours the models reach, without a run of their own. Properties that have
to allow for one of them say so as an exception.

* CompleteJob is not fenced by leased_by: the completion of a worker that outlived
  its lease succeeds and the current holder's fails, while docs/roadmap.md says
  "the first one's completion fails". TerminalIsFinal and DurableTasks hold anyway.
* After the crash of finding 1, if a claim was cited meanwhile, every retry fails
  on the RESTRICT and the document ends failed although its extraction is stored.
  Uploading it again changes nothing.
* With `reply` among the faults of backtest_exclusive, RankingHasCompletedRun does
  not hold: a lost commit answer on the last attempt makes failIfTerminal mark a
  completed run failed, and its ranking stays. ListCandidates reads completed runs
  only, so it is hidden rather than served.
* With outlived leases a listing may serve positions without their evidence: the
  run was completed again between the two queries. All of it is missing then, never a
  part (ListingNeverPartial).
* A claim rejected between the COUNT and the commit of a submission is cited (ADR
  0002: "only claims whose `validation_status` is `accepted` may be cited").
  BuildSignals looks at the status again when a backtest runs.
* A claim given by id and again through its document counts twice in the draft,
  can turn a net negative symbol positive, and is listed twice; that list is
  refused as not citable.
* A claim with a ticker counts for the themes its text mentions when drafting, and
  never as a signal for them: a macro draft can run without net support.
* Drafting nets tickers and themes apart, and a run counts claims of both kinds for
  a symbol. When a claim names the proxy of a theme as its ticker (`_TICKER_PATTERN`
  in llm_extractor.py lets "USO" through as well as a company), a macro draft for
  "oil" may buy USO although a stronger ticker claim speaks against it, or an equity
  draft may buy it against the oil claims: the run's net support is negative.
  DraftSupported excepts such symbols (`SpokenOfTwice`).
* A draft is net positive over all its claims, but a run counts a claim only from its
  effective_at, up to its horizon and within the run's document cutoff. A cutoff or a
  horizon that leaves out a claim for a symbol and not the one against it runs the
  draft with net negative support; DraftSupported excepts such days
  (`SupportLeftOut`).
* The name of an equity draft lists its tickers and may exceed the 120 characters
  Validate allows.
* The API checks the names of filters, not their values: claim_signal_weight 9 is
  committed and can never run. An operator the engine does not read ("top_n gt")
  does nothing, silently, which spec.go wants to prevent.
* A draft's cash_policy "extend" has to be overridden to run it under v3.
* The move of a price across a missing bar is never made up in a position's value.
* A position bought on a day its symbol has no bar gets no entry price and so no stop
  until the next rebalance; Breached, and with it StopStaysArmed, takes the code's
  view that there is nothing to compare with.

## 5. Proofs

The theorems hold for any sets of jobs, workers, requests, slugs, claims and
symbols, any budgets and any number of faults. They assume only the named ASSUMEs
of the modules, which TLC evaluates on every run:

* the "nothing" values are not members of the sets, budgets and bounds are
  natural numbers, what people upload, claims and the universe are finite, and the
  authorized symbols are among those the engine may propose;
* prices, windows and weights are natural numbers, a lag is 0 to 5 days (what
  `_engine_params` accepts), the cost rate is at most 1000 bps, the weight cap lies
  between 0 (excluded) and 1, and `FullBook` is the number of positions that fill
  it. `ParametersAssumption` allows a claim weight of 0, as the API does;
* a claim's confidence is between 0 and 1 and its sign one of -1, 0, 1 (the CHECKs
  of the migration and `signedConfidence`), its themes are themes of `macroThemes`,
  no symbol is listed under two of them, a request lists stored claims, and a
  snapshot has columns only for symbols it was asked for;
* a book starts with a positive capital.

The three task modules reuse the queue's lemmas through an instance of
`JobQueueProofs`.

`JobQueueProofs`

* `TypeCorrect`. TypeOK is inductive because it includes the agreement of the
  columns: leased_by is set exactly while the row is leased, and only a leased
  row has lapsed.
* `BudgetSpent`. FailedSpentBudget alone is not inductive, as FailJob decides from
  the worker's copy. CopiesAreOld, that a copy is never ahead of the row, is the
  strengthening; leases only count up.
* `SettledForEver`. Each update matches leased or active rows only.
* `QueueImplementsDurableTasks`. A job's states map to pending, done and dead, its
  attempts to runs. FailJob maps to GiveUp by BudgetSpent, CompleteJob to Finish
  because a leased row has been leased.
* `ExclusiveLease`, assuming no `lapse` fault. A lapsed lease then has no holder,
  so a new lease cannot create a second one.
* `LeasesBounded`, under the same assumption: a retry leaves an attempt. The
  strengthening is that a leased job nobody holds has had a crash that is not yet
  used up in its attempts.
* `LeasesAlwaysBounded`, with every fault. Attempts alone are not inductive: a
  worker that outlived its lease puts the job back from an old copy. Bounded is the
  sum `LeasesCounted`: the attempts, the leases below the budget still to come, the
  workers whose copy would still put the job back, and 1 if the job can be leased
  now. A lease moves one from the last term to the first two or to the third; only
  a fault adds.
* `OvertakingIsBounded`, for QueueOrder. By `PassedOK`, for a job that can be
  leased the times another passed it, plus one if the other may still do so, are at
  most one plus the faults. Whoever joins the line joins it behind; a fault is what
  brings a job back into an old place.

`StrategyVersionsProofs`

* `StrategyTypeCorrect`, `Gapless`, `NumberNeverTaken`. One inductive invariant:
  the type invariant with the lock discipline, "the versions of a slug are 1..n",
  and "a number taken is still the next one". Two transactions of one slug cannot
  both be past the wait, so a commit cannot invalidate another's number.
* `CitationsReviewed`. The strengthening is that a transaction past the gate has
  only reviewed claims; reviews never return to pending.

`BacktestProofs`, with every fault unless said otherwise

* `BacktestFollowsJobQueue`. Each step of a task is a step of JobQueue or leaves
  its variables alone, so JobQueue's theorems hold of backtest jobs. The lemmas of
  JobQueueProofs are used through an instance of it.
* `BacktestTypeCorrect`, `RankingsBacked`. CandidatesBacked says
  nothing of work in progress; the strengthening is what a worker is about to
  record: inside a task it has an attempt of a job that exists, past the universe
  check its proposal is authorized, past Save its artifact is on disk.
* `ListingsNeverPartial`. Two invariants. FreshInv: a ranking carries the
  attempt that stored it, every lease counts the attempts of a job up, and no two
  workers hold the same attempt, so whoever stores a ranking next has an attempt no
  stored or listed row has. SnapshotInv: hence the rows of a listing between its
  queries are either exactly those stored or have nothing in common with them, and
  the second query finds the evidence of all or of none.
* `RankingsProven`, `RunsSettleWithJobs`, `ListingsWhole`, assuming crashes are the
  only faults. Leases are then exclusive, so what the holder of a job has read of
  its run stays true: past the first read the run is not completed, CompleteJob
  follows a completed run and the last FailJob a failed one. A run that is
  completed has no ranking yet, so rankings are never replaced and the two queries
  of a listing agree.

`ExtractionProofs`, with every fault

* `ExtractionFollowsJobQueue`, `ExtractionTypeCorrect`.
* `CitedClaimsStay`. Inductive as it stands: the RESTRICT and the foreign key are
  checked in the transactions that delete and insert.
* `DocumentsRest`. Every write of a document's status or claims is made by a worker
  that has its job, or creates it.
* `StatusIsTrusted`, `StoredWorkIsKept`. `InOrder` says of one document how the row
  of its job, its status and the phases of the workers that have it fit together
  when nothing has gone wrong; each step keeps it for every document, except that a
  crash or an outlived lease may spoil the one it hits. So the documents out of
  order are never more than the faults, and both properties count among those.

`MarketDataProofs`, with every fault

* `CompletedIsUsable`. The strengthening is what a worker is about to record: past
  Save its file is on disk, before CompleteJob a row of its request is stored.
* `DuplicatesAreCounted`. Neither rows nor workers are bounded alone; the rows of a
  request, the workers at it and 1 if its job can be leased are together at most
  one plus the faults.

`UploadProofs`, with crashes, lost answers and failed deletes

* `FilesAreKept`. FilesInv says which file each request owns in each phase: a key is
  drawn anew, so no other request or row has it. Documents without their file, and
  those whose own upload is about to remove it because it took the commit for an
  error, are at most as many as the lost answers.
* `StraysAreCounted`. A crash leaves at most one file per request in flight, a
  failed delete one; everything else that leaves a row or a phase removes its file.

`AdmissionProofs`

* `DraftsCommit`. ReadInv: a claim read is as it was read, or has been touched
  since. DraftInv: an answered request carries a draft of at least one symbol, the
  three proposed filters with values in range, and the ids of what was read as
  accepted. So whatever filters are dropped the spec is valid if its name fits, and
  the claims are citable unless one was touched or is listed twice.
* `EarlyRefusalsAreRight`, `DraftsRun`. A refused run asked for a universe its
  snapshot cannot have columns for. A committed spec holds only proposed filters,
  or an added one; every subset of the proposed ones, overridden or not by the run's
  parameters, passes each check of `_engine_params`, save "extend" under v3.
* `DraftsAreSupported`, for every cutoff, horizon and day. ProposalInv ties the committed spec to the draft and the
  draft to the claims read; SignalsInv ties what a finished run recorded to the
  reviews, which no longer change. In such a state: the floor, a minimum rounded
  down, is under every cited confidence, so it silences none (`FloorIsKept`); the
  claims that speak of a symbol in the run are those whose net put it into the draft
  (`SameClaimsSpeak`, where disjoint themes and the exception are needed); and the
  draft's sum over the places of a list and the run's sum over signals are both the
  sum over those claims (`Reindexed`: sums may be given other indices and terms of 0,
  used once for a list without repetitions and once for neutral claims). Of a day on
  which the cutoff or the horizons leave claims out, all those left out speak against
  the symbol, unless the property's exception applies, and the sum without them is no
  smaller (`SumIsMonotone`).

`EngineProofs`, for every universe, price history, set of claims, lag and stop

* `ProposalsAreAnswerable`. OrdersInv says of each order in flight that it is due
  its lag after its decision and that a rebalance cites exactly the signals whose
  window holds that day. ScheduleInv adds the order: the rebalances in flight are
  listed by the days of their decisions, all later than that of the proposal, and
  every decision taken is in flight or not later than the proposal. As all carry the
  same lag, the first order due is the earliest rebalance, so a fill skips none; and
  a day ends with nothing due, so the proposal is the latest decision whose lag has
  passed. `decided`, the days of the decisions, is a history variable.
* `ExitsAreSingle`. `exit_pending` and the exits in flight are the same set, each
  once, whatever rebalances drop or buy back.
* `StopsStayArmed`. Past the stops of a day, every breached position has an exit on
  the way: a fill removes an exit only together with its position, and a rebalance
  enters at today's close, which is above its own stop.
* `NothingAheadIsRead`. Today's pending decision is `Select` of the bars and claims;
  every window Select reads ends today, and claims not yet in effect have no score.
* `TheBetterIsChosen`. Ranks follow momentum, scores follow ranks and support, and
  Select takes scores from the top: lemmas on the rank fraction (compared by cross
  multiplication), on the ranking's ties, and on selection by score.
* `BookFollowsEngine`. Each step of BookAccounting is a step of BacktestEngine with
  amounts, so the theorems above hold of the book as well.
* `TheBookBalances`. MoneyInv: cash and positions are natural numbers and add up to
  the equity. No money is borrowed because the targets fit into the equity, the
  turnover is at most twice the equity, and 1000 bps of that leave a rest. Sums over
  the universe are the work here: the definition of `Total` is recursive over sets,
  and its unfolding, monotonicity and the change of one term are derived by
  induction stated with sets (`SubsetInduction`: a collection of subsets that has
  the empty one and is closed under adding an element has all), which the provers
  can instantiate where they cannot instantiate an operator.
* `NothingTradesFree`. Amounts are whole units and quotients round down, so the
  statement allows one unit per position and one for the charge.
* `MoneyFollowsPrices`. BookIsHeld and MarkedToMarket are equations, and rounding to
  units may break them. For every price their one-sided forms are proved: no money
  is in a symbol the engine does not hold, and no position is worth more than what
  was paid for it times its price.
* `HeldIsWhatHasMoney`, `MarksAreExact`: the equations, of every behaviour of BookSpec
  in which no mark is rounded and a rebalance leaves a unit for each position
  (`NothingRounded`, an assumption on the steps and not on the constants). ExactInv
  is inductive under it: the mark of a positive position is positive, the charge is
  at most a fifth of the equity, and the product that MarkedToMarket compares cancels
  the old price. So only the loss of units can part the money from the engine's
  book. Every step of the instance `accounting` satisfies NothingRounded (TLC checks
  it as an action property when it is added to that run), so there the equations
  hold outright.

Only model-checked:

* EveryJobSettles, RunSettles and SubmissionEnds: liveness under fairness and
  ENABLED are beyond the prover. So are the findings, which are counterexamples.

TerminalIsFinal, CopiesAreOld, LeaseIsExclusive and RetryLeavesBudget of JobQueue
are proved and have no run of their own.

## 6. Not modelled

Text extraction and the LLM gate, the provider, the HTTP clients of the quant
service, HTTP decoding and rendering, configuration, and migrations beyond the
constraints the models use: stateless conversions without a protocol of their own.
The v3 simulator (`_simulate_constant_weights`) is frozen code kept to reproduce
old runs. Benchmarks and floating-point metrics are out of TLC's reach; so is the
residue floating-point sums leave when confidences should cancel. CanonicalCSV and
the validation of market-data requests are text handling. Job types other than the
three have no producer. The hash collisions of the advisory lock only serialize
more.

## 7. Plan

Done: the core (JobQueue with DurableTasks and QueueOrder), the three tasks,
the candidate listing, StrategyVersions, StrategyDrafts and BacktestAdmission,
DocumentUpload, BacktestEngine and BookAccounting, with proofs about all of them.

Next, in order:

1. A lower bound for MarkedToMarket when marks are rounded: the units a position can
   lose, one for each close it was marked at.
2. A composition of StrategyVersions with ExtractionPipeline's claims, so that
   citations and re-extractions meet with several requests open.
