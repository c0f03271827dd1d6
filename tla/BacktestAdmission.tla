------------------------- MODULE BacktestAdmission --------------------------
(***************************************************************************)
(* From a committed draft to a run: POST /v1/backtests checks the snapshot *)
(* against the spec's universe, the worker projects the citations onto it  *)
(* (internal/strategies/signals.go), and the engine checks everything      *)
(* again (_engine_params, _universe_symbols, _require_universe_coverage).  *)
(* The job between request and run is BacktestPipeline's.                  *)
(***************************************************************************)
EXTENDS StrategyDrafts

CONSTANTS BacktestRequests,  \* what a backtest may be asked with: the symbols requested for
                             \* the snapshot and the columns its CSV has, document_cutoff_at,
                             \* in half days, the run's parameters and engine_version
          TradingDays        \* the days of the snapshots' bars

\* A provider may have no bars for a requested symbol, and never has others.
ASSUME ColumnsAssumption == \A r \in BacktestRequests : r.columns \subseteq r.symbols

VARIABLES backtest     \* the run, what it was asked with and how far it got

vars == <<draftVars, backtest>>

NoAsked == [symbols |-> {}, columns |-> {}, cutoff |-> 0, parameters |-> <<>>, version |-> "v4"]
NoBacktest == [status |-> "none", asked |-> NoAsked, signals |-> {}, current |-> FALSE]

Init == DraftInit /\ backtest = NoBacktest

\* Until the run ends: nothing reads the claims afterwards.
Drafting ==
  /\ backtest.status \in {"none", "queued"}
  /\ DraftNext
  /\ UNCHANGED backtest

(***************************************************************************)
(* The backtests handler: MissingSymbols of the universe in the symbols    *)
(* that were requested for the snapshot.                                   *)
(***************************************************************************)
MissingSwapped(required, available) == available \ required

Missing(required, available) == required \ available

RequestBacktest(asked) ==
  /\ submission.answer = "created" /\ backtest.status = "none"
  /\ backtest' = [NoBacktest EXCEPT
       !.status = IF Missing(submission.spec.universe, asked.symbols) = {}
                  THEN "queued" ELSE "snapshot_universe_mismatch",
       !.asked = asked]
  /\ UNCHANGED draftVars

(***************************************************************************)
(* _engine_params.  Defaults, then the last filter of a field whose        *)
(* operator the engine reads, then the run's parameters.                   *)
(***************************************************************************)
\* top_n has none: it stands for 1, the least the engine would choose.
Defaults(version) ==
  [lookback_months |-> Number(6000), top_n |-> Number(1000), claim_horizon_days |-> Number(90000),
   claim_signal_weight |-> Number(IF version = "v3" THEN 100 ELSE 250),
   execution_lag_days |-> Number(IF version = "v3" THEN 0 ELSE 1000),
   claim_confidence |-> Number(0), risk_free_rate |-> Number(0), cash_policy |-> Text("cash")]

ReadOperators(field) ==
  CASE field = "claim_confidence" -> {"gt", "gte"}
    [] field = "momentum" -> {"gt", "gte", "lt", "lte"}
    [] OTHER -> {"eq"}

Read(filters, field) ==
  {i \in DOMAIN filters : filters[i].field = field /\ filters[i].operator \in ReadOperators(field)}

Setting(filters, parameters, version, field) ==
  IF field \in DOMAIN parameters THEN parameters[field]
  ELSE IF Read(filters, field) = {} THEN Defaults(version)[field]
  ELSE filters[Max(Read(filters, field))].value

\* int() and float() refuse a word, wherever it is read.
Converts(field, value) ==
  field \in {"require_claim_support", "cash_policy", "benchmark_symbol"} \/ value.kind = "number"

Whole(value) == value.of \div 1000

CashOnly == {Text("cash")}

CashPolicies == {Text("cash"), Text("extend")}

InRange(field, value) ==
  CASE field \in {"lookback_months", "top_n", "claim_horizon_days"} -> Whole(value) >= 1
    [] field = "claim_signal_weight" -> value.of \in 0 .. 5000
    [] field \in {"claim_confidence", "risk_free_rate"} -> value.of \in 0 .. One
    [] field = "execution_lag_days" -> Whole(value) \in 0 .. 5
    [] field = "cash_policy" -> value \in CashPolicies

\* The previous accounting runs only what it could have run then.
PreviousCouldRun(lag, cash) == lag = Number(0) /\ cash = Text("cash")

EngineParams(filters, parameters, version) ==
  LET Set(field) == Setting(filters, parameters, version, field)
  IN /\ version \in {"v3", "v4"}
     /\ \A field \in FilterFields : \A i \in Read(filters, field) : Converts(field, filters[i].value)
     /\ \A field \in DOMAIN parameters : Converts(field, parameters[field])
     /\ \A field \in DOMAIN Defaults(version) : InRange(field, Set(field))
     /\ version = "v3" => PreviousCouldRun(Set("execution_lag_days"), Set("cash_policy"))

\* _universe_symbols and _require_universe_coverage, of the CSV's own columns.
Covers(spec, columns) == spec.universe # {} /\ spec.universe \subseteq columns

EngineAccepts(asked) ==
  /\ EngineParams(submission.spec.filters, asked.parameters, asked.version)
  /\ Covers(submission.spec, asked.columns)

(***************************************************************************)
(* backtestSignals: ClaimSymbols, BuildSignals and the engine's confidence *)
(* filter, with the reviews as they are when the job runs.                 *)
(***************************************************************************)
ClaimSymbols(c) ==
  IF says[c].ticker # NoTicker THEN {says[c].ticker} ELSE UNION {Proxies[t] : t \in says[c].themes}

\* The look-ahead gate: no claim that took effect after the run's cutoff.
BeforeCutoff(c) == says[c].effective <= backtest.asked.cutoff

Signals(minimum) ==
  {e \in ToSet(submission.ids) \X submission.spec.universe :
     /\ review[e[1]] = "accepted" /\ says[e[1]].sign # 0
     /\ BeforeCutoff(e[1])
     /\ e[2] \in ClaimSymbols(e[1])
     /\ says[e[1]].confidence >= minimum}

\* A setting of the run.
Asked(field) ==
  Setting(submission.spec.filters, backtest.asked.parameters, backtest.asked.version, field)

RunBacktest ==
  LET asked == backtest.asked
      minimum == Asked("claim_confidence")
  IN /\ backtest.status = "queued"
     /\ backtest' = [backtest EXCEPT
          !.status = IF EngineAccepts(asked) THEN "simulated" ELSE "refused",
          !.signals = IF EngineAccepts(asked) THEN Signals(minimum.of) ELSE {},
          !.current = \A c \in ToSet(submission.ids) : review[c] = "accepted"]
     /\ UNCHANGED draftVars

Next ==
  \/ Drafting
  \/ \E asked \in BacktestRequests : RequestBacktest(asked)
  \/ RunBacktest

Spec == Init /\ [][Next]_vars

\* _active_claims: a signal is live from the UTC date of effective_at until its
\* horizon ends, the claim's own or else claim_horizon_days.
Horizon(c) ==
  IF says[c].horizon # 0 THEN says[c].horizon ELSE Whole(Asked("claim_horizon_days"))

Live(c, day) ==
  LET effective == says[c].effective \div 2
  IN effective <= day /\ day < effective + Horizon(c)

ActiveClaims(s, day) == {c \in Claims : <<c, s>> \in backtest.signals /\ Live(c, day)}

\* _claim_scores, of a symbol; it clamps the sum.
Support(s, day) == SumFunction([c \in ActiveClaims(s, day) |-> Signed(c)])

-----------------------------------------------------------------------------
Edited == ToSet(submission.spec.filters) \cap ExtraFilters # {}

\* signals.go: "Drafting (builder.go) asks which symbols a body of research points
\* at once [...]; this file asks the same question per claim, per day".  The
\* answers agree: run while its claims stand, a committed draft has net positive
\* research behind every symbol of its universe on every day on which all the
\* cited claims that speak for the symbol count, none of them under the draft's
\* own confidence floor.  The cutoff and the horizons turn a draft around only by
\* leaving out a claim for the symbol, never by leaving out one against it.
\* Beyond that there are two exceptions: a draft that counted a claim twice, and a
\* symbol spoken of as a ticker and as the proxy of a theme.  A signal of either
\* kind counts for it, while drafting nets tickers and themes apart; and claims
\* that name a ticker count for the themes their text mentions in a macro draft,
\* and never as signals for those themes.
SpokenOfTwice(s) ==
  \E t \in Themes, c \in ToSet(submission.ids) :
    /\ s \in Proxies[t] /\ says[c].ticker # NoTicker
    /\ \/ says[c].ticker = s
       \/ request.draft.kind = "macro" /\ t \in says[c].themes

SupportLeftOut(s, day) ==
  \E c \in ToSet(submission.ids) :
    /\ s \in ClaimSymbols(c) /\ says[c].sign = 1
    /\ ~(BeforeCutoff(c) /\ Live(c, day))

DraftSupported ==
  backtest.status = "simulated" /\ backtest.current /\ ~Edited
  /\ "claim_confidence" \notin DOMAIN backtest.asked.parameters
  => \/ \A s \in submission.spec.universe, day \in TradingDays :
          Support(s, day) > 0 \/ SupportLeftOut(s, day) \/ SpokenOfTwice(s)
     \/ Repeats(request.draft.claims)

\* backtest.go (httpapi): "The engine is the authoritative check [...] but failing
\* here turns a job that dies minutes later in the worker into an answerable error":
\* the early check refuses nothing that the engine would have run.
RefusedCouldNotRun ==
  backtest.status = "snapshot_universe_mismatch" =>
    ~EngineAccepts(backtest.asked)

\* What builder.go proposes and spec.go lets through, _engine_params takes: the run
\* of a committed draft, whatever filters were dropped, fails its checks only for a
\* column the provider left out, for the run's own parameters, or, under the
\* previous accounting, for the proposed cash_policy "extend".
DraftRuns ==
  backtest.status = "refused" /\ ~Edited =>
    \/ ~(submission.spec.universe \subseteq backtest.asked.columns)
    \/ ~EngineParams(<<>>, backtest.asked.parameters, backtest.asked.version)
    \/ backtest.asked.version = "v3" /\ \E f \in ToSet(submission.spec.filters) : f.field = "cash_policy"
=============================================================================
