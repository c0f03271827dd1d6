------------------------ MODULE MCBacktestAdmission -------------------------
(***************************************************************************)
(* An instance of BacktestAdmission for TLC.                               *)
(***************************************************************************)
EXTENDS BacktestAdmission, TLC

CONSTANTS c1, c2, c3, d1, d2, dNone

Says(ticker, themes, sign, confidence, effective, horizon) ==
  [ticker |-> ticker, themes |-> themes, sign |-> sign, confidence |-> confidence,
   effective |-> effective, horizon |-> horizon]

\* Confidences that cancel, that do when one is counted twice, and that are no
\* whole hundredths; a ticker claim that mentions a theme, and ticker claims about
\* the proxy of one.  Claims for a symbol that expire or take effect before those
\* against it, and after them.
Data == {Says("A", {}, 1, 505, 2, 0), Says("A", {}, -1, 700, 3, 1), Says("A", {"oil"}, 1, 300, 5, 0),
         Says("U", {}, 1, 200, 4, 0), Says("U", {}, -1, 700, 2, 0),
         Says(NoTicker, {"oil"}, 1, 505, 3, 2), Says(NoTicker, {"oil", "fx"}, -1, 300, 2, 0)}

OfDocument == c1 :> d1 @@ c2 :> d1 @@ c3 :> d2
ProxySymbols == "oil" :> {"U", "X"} @@ "fx" :> {"D"}

Body(claims, documents) == [claims |-> claims, documents |-> documents]

Bodies == {Body(<<>>, <<>>), Body(<<c1, c3>>, <<>>), Body(<<c1, c1>>, <<>>), Body(<<>>, <<d1, d2>>),
           Body(<<c1>>, <<d1>>), Body(<<c2>>, <<d2>>), Body(<<c3>>, <<dNone>>)}

\* A knob the engine refuses, one it ignores, and one the API refuses.
Extras == {Filter("claim_signal_weight", "eq", Number(9000)), Filter("top_n", "gt", Text("two")),
           Filter("topn", "eq", Number(2000))}

AsksFor(symbols, columns, cutoff, parameters, version) ==
  [symbols |-> symbols, columns |-> columns, cutoff |-> cutoff, parameters |-> parameters,
   version |-> version]

Everything == {"A", "U", "X", "D"}
Stocks == {"A", "U"}

\* Overrides, a cutoff before the last claims, a snapshot of other symbols, one with
\* a column missing, and versions.
Asks == {AsksFor(Everything, Everything, 9, <<>>, "v4"),
         AsksFor(Everything, Everything, 9, "claim_confidence" :> Number(600), "v4"),
         AsksFor(Everything, Everything, 4, "claim_horizon_days" :> Number(2000), "v4"),
         AsksFor(Stocks, Stocks, 9, <<>>, "v4"), AsksFor(Everything, {"U"}, 9, <<>>, "v4"),
         AsksFor(Everything, Everything, 3, <<>>, "v3"),
         AsksFor(Stocks, Stocks, 9, "cash_policy" :> Text("cash"), "v3"),
         AsksFor(Everything, Everything, 9, <<>>, "v2")}
=============================================================================
