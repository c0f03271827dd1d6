--------------------------- MODULE BacktestEngine ---------------------------
(***************************************************************************)
(* The drift simulator of python/quant_service/backtest.py with the        *)
(* research signals the Go worker sends it (internal/strategies/           *)
(* signals.go): which orders a simulated book decides, when they fill, and *)
(* which prices and claims they rest on.  Amounts of money are left out:   *)
(* the book is the set of symbols it holds.  The steps of a day are those  *)
(* numbered in _simulate_drift.  Bars are drawn day by day, the next day's *)
(* one ahead of time, so that a decision could read tomorrow's close.      *)
(***************************************************************************)
EXTENDS Integers, Sequences, FiniteSets, FiniteSetsExt, SequencesExt

CONSTANTS Universe,       \* symbols the spec authorizes: numbers, in sort order
          Prices,         \* closes a symbol may have
          Bars,           \* the closes of all symbols a day may have
          ClaimPool,      \* claims the strategy may cite
          Cutoff,         \* document_cutoff_at, in half days
          Lookback,       \* trailing days of momentum
          TopN,           \* top_n
          Extend,         \* cash_policy = "extend"
          FullBook,       \* positions that fill the book: ceil(1 / max_position_weight)
          Gates,          \* momentum gates, each with threshold 0
          RequireSupport, \* require_claim_support
          MinConfidence,  \* claim_confidence, in units of 0.5
          DefaultHorizon, \* claim_horizon_days, of claims without their own
          SignalWeight,   \* claim_signal_weight, in percent
          StopLoss,       \* stop_loss_pct, in percent; 0 is none
          Lags,           \* execution_lag_days of the runs considered
          LastDay         \* bound: index of the last trading day

NoBar == 0           \* the snapshot has no close for a symbol that day
Certain == 2         \* a confidence of 1.0, in units of 0.5

ASSUME PricesAssumption == Prices \subseteq Nat \ {NoBar}
ASSUME BarsAssumption == Bars \subseteq [Universe -> Prices \cup {NoBar}]
ASSUME UniverseAssumption == Universe \subseteq Nat /\ IsFiniteSet(Universe)
ASSUME LagAssumption == Lags \subseteq 0 .. 5
ASSUME ClaimsAssumption ==
  /\ IsFiniteSet(ClaimPool)
  /\ \A c \in ClaimPool : c.sign \in {-1, 0, 1} /\ c.confidence \in 0 .. Certain
ASSUME ParametersAssumption == {Lookback, TopN, FullBook, SignalWeight, StopLoss} \subseteq Nat

VARIABLES claims,     \* the strategy's cited claims, as reviewed when the run starts
          lag,        \* execution_lag_days
          today,      \* index of the day
          newPeriod,  \* today's schedule key differs from yesterday's
          bars,       \* closes by day, relative to today
          phase,      \* the step of the day
          held,       \* symbols in values
          entry,      \* entry_price, NoBar where there is none
          pending,    \* orders decided and not filled, in decision order
          exits,      \* exit_pending
          proposed,   \* the last rebalance that filled
          decided     \* history: the days on which a rebalance was decided

vars == <<claims, lag, today, newPeriod, bars, phase, held, entry, pending, exits, proposed,
          decided>>
inputs == <<claims, lag, today, newPeriod, bars>>

Window == (-Lookback) .. 1

-----------------------------------------------------------------------------
(***************************************************************************)
(* BuildSignals and _normalize_signals: one signal per claim and symbol.   *)
(***************************************************************************)
Signals(cited) ==
  {e \in cited \X Universe : LET c == e[1] IN /\ c.status = "accepted" /\ c.sign # 0
                                            /\ c.effective <= Cutoff
                                            /\ c.confidence >= MinConfidence
                                            /\ e[2] \in c.symbols}

\* _active_claims: live from the UTC date of effective_at until the horizon ends.
EffectiveDate(c) == c.effective \div 2

Horizon(c) == IF c.horizon = 0 THEN DefaultHorizon ELSE c.horizon

Live(c, day) == EffectiveDate(c) <= day /\ day < EffectiveDate(c) + Horizon(c)

ActiveClaims(cited, s, day) == {c \in cited : <<c, s>> \in Signals(cited) /\ Live(c, day)}

\* The confidence of the claims with a sign, as so many units of it.
Units(active, sign) ==
  {u \in active \X (1 .. Certain) : u[1].sign = sign /\ u[2] <= u[1].confidence}

\* _claim_scores: net signed confidence, clamped.  Its sum is what speaks for the
\* symbol less what speaks against it.
ClaimScore(cited, s, day) ==
  LET active == ActiveClaims(cited, s, day)
      net    == Cardinality(Units(active, 1)) - Cardinality(Units(active, -1))
  IN Max({-Certain, Min({Certain, net})})

(***************************************************************************)
(* _select.  Momentum is the fraction now / past - 1; fractions are        *)
(* compared by cross-multiplication.                                       *)
(***************************************************************************)
Tomorrow(view, s) == view[1][s]

Now(view, s) == view[0][s]

Past(view, s) == view[-Lookback][s]

PassesGates(view, s) ==
  LET n == Now(view, s)
      p == Past(view, s)
  IN /\ "gt" \in Gates => n > p
     /\ "gte" \in Gates => n >= p
     /\ "lt" \in Gates => n < p
     /\ "lte" \in Gates => n <= p

Eligible(view, cited, day) ==
  {s \in Universe : /\ Now(view, s) # NoBar /\ Past(view, s) # NoBar
                    /\ PassesGates(view, s)
                    /\ RequireSupport => ClaimScore(cited, s, day) > 0}

Slower(view, s, t) == Now(view, s) * Past(view, t) < Now(view, t) * Past(view, s)

\* _momentum_ranks: ranks spread over [-1, 1], ties share the average; here times
\* the number of steps between the lowest and the highest.
Spread(pool) == Max({1, Cardinality(pool) - 1})

MomentumRank(view, pool, s) ==
  LET below == Cardinality({t \in pool : Slower(view, t, s)})
      tied  == Cardinality({t \in pool : ~Slower(view, t, s) /\ ~Slower(view, s, t)})
  IN 2 * below + tied - Cardinality(pool)

\* The rank tilted by the claims, times a common positive factor.
Score(view, pool, cited, s, day) ==
  100 * Certain * MomentumRank(view, pool, s) + SignalWeight * Spread(pool) * ClaimScore(cited, s, day)

\* _position_count.
PositionCount(n) ==
  LET count == Min({n, TopN})
  IN IF ~Extend \/ count = 0 THEN count ELSE Min({n, Max({count, FullBook})})

\* Score descending, then symbol ascending.
AheadByScoreReversed(view, pool, cited, t, s, day) ==
  \/ Score(view, pool, cited, t, day) < Score(view, pool, cited, s, day)
  \/ Score(view, pool, cited, t, day) = Score(view, pool, cited, s, day) /\ t < s

AheadByScore(view, pool, cited, t, s, day) ==
  \/ Score(view, pool, cited, t, day) > Score(view, pool, cited, s, day)
  \/ Score(view, pool, cited, t, day) = Score(view, pool, cited, s, day) /\ t < s

Select(view, cited, day) ==
  LET pool == Eligible(view, cited, day)
  IN {s \in pool : Cardinality({t \in pool : AheadByScore(view, pool, cited, t, s, day)})
                     < PositionCount(Cardinality(pool))}

-----------------------------------------------------------------------------
Order(kind, symbols, evidence) ==
  [kind |-> kind, decided |-> today, executeAt |-> today + lag,
   symbols |-> symbols, evidence |-> evidence]

Init ==
  /\ claims \in SUBSET ClaimPool
  /\ lag \in Lags
  /\ today = 0
  /\ newPeriod = TRUE
  /\ \E first, second \in Bars :
       bars = [k \in Window |-> CASE k = 0 -> first [] k = 1 -> second
                                  [] OTHER -> [s \in Universe |-> NoBar]]
  /\ phase = "stops"
  /\ held = {} /\ exits = {} /\ pending = <<>>
  /\ entry = [s \in Universe |-> NoBar]
  /\ proposed = [asOf |-> -1, symbols |-> {}, evidence |-> {}]
  /\ decided = {}

\* Step 2: one exit per position that closes StopLoss below its entry price.
Breached(s) ==
  /\ StopLoss # 0 /\ s \in held
  /\ bars[0][s] # NoBar /\ entry[s] # NoBar
  /\ 100 * (entry[s] - bars[0][s]) >= StopLoss * entry[s]

TriggeredAgain == {s \in held : Breached(s)}

Triggered == {s \in held : Breached(s) /\ s \notin exits}

SendStops ==
  /\ phase = "stops"
  /\ \E order \in SetToSeqs(Triggered) :
       pending' = pending \o [i \in DOMAIN order |-> Order("stop_exit", {order[i]}, {})]
  /\ exits' = exits \cup Triggered
  /\ phase' = "decide"
  /\ UNCHANGED <<inputs, held, entry, proposed, decided>>

\* _rebalance_indices: the first day with enough history, then the first of each
\* week, month or quarter.
RebalanceToday == today >= Lookback /\ (today = Lookback \/ newPeriod)

\* Step 3: the scheduled decision, with the claims behind it.
Evidence(symbols) == {e \in claims \X symbols : e[1] \in ActiveClaims(claims, e[2], today)}

Decide ==
  /\ phase = "decide"
  /\ LET chosen == Select(bars, claims, today)
     IN pending' = IF RebalanceToday
                   THEN Append(pending, Order("rebalance", chosen, Evidence(chosen)))
                   ELSE pending
  /\ decided' = IF RebalanceToday THEN decided \cup {today} ELSE decided
  /\ phase' = "fill"
  /\ UNCHANGED <<inputs, held, entry, exits, proposed>>

DueLate(order) == order.executeAt < today

\* Step 4: orders due today fill in the order they were decided.
Due(order) == order.executeAt <= today

FirstDue(i) == Due(pending[i]) /\ \A j \in 1 .. i - 1 : ~Due(pending[j])

\* exit_pending is cleared whether or not the position is still there.
ExitsAfterSale(s) == IF s \in held THEN exits \ {s} ELSE exits

ExitsAfter(s) == exits \ {s}

EntryAfter(s) == [entry EXCEPT ![s] = NoBar]

FillExit(i) ==
  /\ phase = "fill" /\ FirstDue(i) /\ pending[i].kind = "stop_exit"
  /\ \E s \in pending[i].symbols :
       /\ exits' = ExitsAfter(s)
       /\ held' = held \ {s}
       /\ entry' = IF s \in held THEN EntryAfter(s) ELSE entry
  /\ pending' = RemoveAt(pending, i)
  /\ UNCHANGED <<inputs, phase, proposed, decided>>

\* The order replaces the whole book, pays today's closes and becomes the
\* portfolio the run proposes.
FillRebalance(i) ==
  /\ phase = "fill" /\ FirstDue(i) /\ pending[i].kind = "rebalance"
  /\ held' = pending[i].symbols
  /\ entry' = [s \in Universe |-> IF s \in held' THEN bars[0][s] ELSE NoBar]
  /\ proposed' = [asOf |-> pending[i].decided, symbols |-> pending[i].symbols,
                  evidence |-> pending[i].evidence]
  /\ pending' = RemoveAt(pending, i)
  /\ UNCHANGED <<inputs, phase, exits, decided>>

DayDone == phase = "fill" /\ \A i \in DOMAIN pending : ~Due(pending[i])

\* The next day of the panel; its schedule key is the calendar's.
NextDay ==
  /\ DayDone /\ today < LastDay
  /\ today' = today + 1
  /\ newPeriod' \in BOOLEAN
  /\ \E bar \in Bars : bars' = [k \in Window |-> IF k = 1 THEN bar ELSE bars[k + 1]]
  /\ phase' = "stops"
  /\ UNCHANGED <<claims, lag, held, entry, pending, exits, proposed, decided>>

Next ==
  \/ SendStops \/ Decide \/ NextDay
  \/ \E i \in DOMAIN pending : FillExit(i) \/ FillRebalance(i)

Spec == Init /\ [][Next]_vars

-----------------------------------------------------------------------------
Orders == {pending[i] : i \in DOMAIN pending}

\* "One exit per position stays in flight, so a position that keeps falling is not
\* sold repeatedly": exit_pending names exactly the symbols with a pending exit,
\* also when a rebalance drops or buys the symbol in between.
ExitOrders(s) == {i \in DOMAIN pending : pending[i].kind = "stop_exit" /\ s \in pending[i].symbols}

OneExitInFlight ==
  \A s \in Universe : Cardinality(ExitOrders(s)) = (IF s \in exits THEN 1 ELSE 0)

\* Crossing orders never disarm a stop: at the end of a day every position with an
\* entry price that closed below its stop has an exit on the way, whatever exits and
\* rebalances crossed.  (Bought on a missing bar, a position has no entry price.)
StopStaysArmed == DayDone => \A s \in held : Breached(s) => ExitOrders(s) # {}

\* "A price decision uses only bars at or before that day, and a claim only counts
\* from its effective_at": today's decision would be the same had the later bars
\* and the claims not yet effective never existed.
KnownBars == [bars EXCEPT ![1] = [s \in Universe |-> NoBar]]
KnownClaims == {c \in claims : EffectiveDate(c) <= today}

NoLookAhead ==
  \A o \in Orders : o.kind = "rebalance" /\ o.decided = today =>
    o.symbols = Select(KnownBars, KnownClaims, today)

\* "Every order carries the same lag, so decision order is fill order", "the most
\* recent filled rebalance is the paper portfolio the run proposes" and "the research
\* support behind each holding, as of the day it was decided": at the end of a day the
\* proposal is that of the latest decision whose lag has passed, so no rebalance fills
\* late, early, out of order or never; every position is explained by it; and it cites
\* all the signals whose window held the day of the decision, whatever took effect or
\* expired before it filled, and no others.
LastDue == Max({-1} \cup {d \in decided : d + lag <= today})

Citable(day, symbols) ==
  {e \in Signals(claims) : /\ e[2] \in symbols
                           /\ EffectiveDate(e[1]) <= day
                           /\ day < EffectiveDate(e[1]) + Horizon(e[1])}

ProposalAnswerable ==
  /\ DayDone => proposed.asOf = LastDue
  /\ held \subseteq proposed.symbols
  /\ proposed.evidence = Citable(proposed.asOf, proposed.symbols)

\* A symbol is never passed over for one with no more momentum and no more
\* support, whatever their names; support counts unless its weight is 0.
NoBetterLeftOut ==
  \A o \in Orders : o.kind = "rebalance" /\ o.decided = today =>
    \A t \in o.symbols, s \in Eligible(bars, claims, today) \ o.symbols :
      /\ ~(Slower(bars, t, s) /\ ClaimScore(claims, s, today) >= ClaimScore(claims, t, today))
      /\ SignalWeight # 0 =>
           ~(~Slower(bars, s, t) /\ ClaimScore(claims, s, today) > ClaimScore(claims, t, today))
=============================================================================
