-------------------------- MODULE MCBacktestEngine --------------------------
(***************************************************************************)
(* An instance of BacktestEngine for TLC: the claims a strategy may cite.  *)
(***************************************************************************)
EXTENDS BacktestEngine

Claim(symbols, sign, confidence, effective, horizon, status) ==
  [symbols |-> symbols, sign |-> sign, confidence |-> confidence, effective |-> effective,
   horizon |-> horizon, status |-> status]

\* A claim for symbol 2 that takes effect and expires inside the panel, one for
\* symbol 1 that was rejected since it was cited, and one beyond the cutoff.
Pool == {Claim({2}, 1, 2, 5, 0, "accepted"), Claim({1, 9}, 1, 2, 5, 2, "rejected"),
         Claim({1}, 1, 1, 8, 3, "accepted")}

\* Either symbol may fall by half, or have no bar.
Days == {<<1, 1>>, <<1, 2>>, <<2, 1>>, <<2, 2>>, <<NoBar, 2>>}
=============================================================================
