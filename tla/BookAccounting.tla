--------------------------- MODULE BookAccounting ---------------------------
(***************************************************************************)
(* The money of the drift simulator: BacktestEngine decides which symbols  *)
(* the book holds, and here each step of its day also moves cash, market   *)
(* values and equity as _simulate_drift and _apply_target do.  Amounts     *)
(* are whole units and quotients are rounded down; with a power of two for *)
(* the capital the amounts of an instance are exact.                       *)
(***************************************************************************)
EXTENDS BacktestEngine

CONSTANTS Capital,           \* equity 1.0, in units
          CostNum, CostDen,  \* transaction_cost_bps / 10_000
          CapNum, CapDen     \* max_position_weight

ASSUME CapitalAssumption == Capital \in Nat \ {0}
\* spec.go: at most 1000 bps
ASSUME CostAssumption == CostNum \in Nat /\ CostDen \in Nat \ {0} /\ 10 * CostNum <= CostDen
ASSUME CapAssumption == CapNum \in Nat \ {0} /\ CapDen \in Nat /\ CapNum <= CapDen
ASSUME FullBookAssumption == FullBook = (CapDen + CapNum - 1) \div CapNum

VARIABLES cash,
          value,    \* market value of each position, 0 where there is none
          equity,
          bought,   \* history: what each position was worth when it was filled
          gapped    \* history: positions that missed a bar since they were filled

money == <<cash, value, equity, bought, gapped>>
bookVars == <<vars, money>>

Nothing == [s \in Universe |-> 0]
Total(amounts) == MapThenSumSet(LAMBDA s : amounts[s], Universe)
Cost(amount) == (CostNum * amount) \div CostDen

BookInit ==
  /\ Init
  /\ cash = Capital /\ equity = Capital
  /\ value = Nothing /\ bought = Nothing /\ gapped = {}

(***************************************************************************)
(* Step 1: a position follows its price when both closes are there.        *)
(***************************************************************************)
Priced(s) == bars[0][s] # NoBar /\ bars[1][s] # NoBar

MarkedUp(amounts) ==
  [s \in Universe |-> IF Priced(s) /\ bars[1][s] > bars[0][s]
                      THEN (amounts[s] * bars[1][s]) \div bars[0][s] ELSE amounts[s]]

Marked(amounts) ==
  [s \in Universe |-> IF Priced(s) THEN (amounts[s] * bars[1][s]) \div bars[0][s] ELSE amounts[s]]

BookNextDay ==
  /\ NextDay
  /\ value' = Marked(value)
  /\ equity' = cash + Total(value')
  /\ gapped' = gapped \cup {s \in held : ~Priced(s)}
  /\ UNCHANGED <<cash, bought>>

BookSendStops == SendStops /\ UNCHANGED money
BookDecide == Decide /\ UNCHANGED money

(***************************************************************************)
(* Step 4: fills.                                                          *)
(***************************************************************************)
\* A stop exit sells the whole position and pays for it; an exit of a position
\* that is gone changes nothing.
ExitProceeds(s) == value[s] - Cost(value[s])

SellNothing(s) == UNCHANGED <<cash, value, equity>>

SellAll(s) ==
  IF value[s] <= 0 \/ equity <= 0 THEN UNCHANGED <<cash, value, equity>>
  ELSE /\ value' = [value EXCEPT ![s] = 0]
       /\ cash' = cash + ExitProceeds(s)
       /\ equity' = equity - Cost(value[s])

BookFillExit(i) ==
  /\ FillExit(i)
  /\ \E s \in pending[i].symbols : SellAll(s) /\ gapped' = gapped \ {s}
  /\ UNCHANGED bought

\* _select: min(1 / n, max_position_weight) of the equity, for each position.
Weighted(symbols, amount) ==
  [s \in Universe |-> IF s \notin symbols THEN 0
                      ELSE Min({amount \div Cardinality(symbols), (amount * CapNum) \div CapDen})]

\* _apply_target: turnover is measured against the marked book and charged before
\* the new positions are sized; what they leave is cash.
Distance(a, b) == IF a < b THEN b - a ELSE a - b

TradedSales(symbols) ==
  LET target == Weighted(symbols, equity)
  IN Total([s \in Universe |-> Max({0, value[s] - target[s]})])

Traded(symbols) ==
  LET target == Weighted(symbols, equity)
  IN Total([s \in Universe |-> Distance(target[s], value[s])])

CashAfterOld(symbols, after) == after - Total(Weighted(symbols, equity))

CashAfter(symbols, after) == after - Total(Weighted(symbols, after))

ApplyTarget(symbols) ==
  LET after == equity - Cost(Traded(symbols))
  IN /\ value' = IF equity <= 0 THEN Nothing ELSE Weighted(symbols, after)
     /\ cash' = IF equity <= 0 THEN cash ELSE CashAfter(symbols, after)
     /\ equity' = IF equity <= 0 THEN equity ELSE after

BookFillRebalance(i) ==
  /\ FillRebalance(i)
  /\ ApplyTarget(pending[i].symbols)
  /\ bought' = value'
  /\ gapped' = {s \in held' : bars[0][s] = NoBar}

BookNext ==
  \/ BookSendStops \/ BookDecide \/ BookNextDay
  \/ \E i \in DOMAIN pending : BookFillExit(i) \/ BookFillRebalance(i)

BookSpec == BookInit /\ [][BookNext]_bookVars

-----------------------------------------------------------------------------
\* The book balances: equity, which every fill charges on its own, is what the
\* cash and the marked positions add up to, and nothing is ever borrowed.
BookBalances == equity = cash + Total(value) /\ cash >= 0

\* The early returns for a worthless position or book are never taken, so the
\* engine's set of held symbols is the set of positions with a value: at most
\* 1000 bps of at most twice the equity cannot ruin a book of positive prices.
BookIsHeld == equity > 0 /\ held = {s \in Universe : value[s] > 0}

\* backtest.py: "A simulated book is only worth reading if what it charges matches
\* what it does": between two closes no value moves unless equity falls by the cost
\* of moving it (measured before the charge itself shrinks the positions), whether
\* a rebalance or a stop exit moves it.  Whole units cost the charge one unit of
\* rounding, and each position one.
Moved == Total([s \in Universe |-> Distance(value'[s], value[s])])

NoFreeTrade ==
  [][today' = today =>
       (CostDen + CostNum) * (equity - equity')
         >= CostNum * (Moved - Cardinality(Universe)) - CostDen]_bookVars

\* "v4 marks each holding to market": a position is worth what was paid times the
\* change of its price since, unless a bar was missing meanwhile: then the move
\* across the gap is never made up.
MarkedToMarket ==
  \A s \in held \ gapped : value[s] * entry[s] = bought[s] * bars[0][s]
=============================================================================
