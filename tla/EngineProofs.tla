---------------------------- MODULE EngineProofs ----------------------------
(***************************************************************************)
(* The drift simulator, for every universe and price history, every set of *)
(* cited claims and every parameter the engine takes: its orders and stop  *)
(* exits, what a decision rests on, which symbols it prefers, and its      *)
(* money.                                                                  *)
(***************************************************************************)
EXTENDS BookAccounting, FiniteSetTheorems, SequenceTheorems, WellFoundedInduction, TLAPS

-----------------------------------------------------------------------------
(***************************************************************************)
(* The list of pending orders.                                             *)
(***************************************************************************)
LEMMA Removed ==
  ASSUME NEW S, NEW q \in Seq(S), NEW i \in DOMAIN q
  PROVE  /\ RemoveAt(q, i) \in Seq(S)
         /\ Len(RemoveAt(q, i)) = Len(q) - 1
         /\ \A j \in DOMAIN RemoveAt(q, i) : RemoveAt(q, i)[j] = IF j < i THEN q[j] ELSE q[j + 1]
<1> DEFINE front == SubSeq(q, 1, i - 1)
           back  == SubSeq(q, i + 1, Len(q))
<1>1. i \in 1 .. Len(q) /\ Len(q) \in Nat
  OBVIOUS
<1>2. front \in Seq(S) /\ Len(front) = i - 1 /\ \A j \in 1 .. i - 1 : front[j] = q[j]
  BY <1>1
<1>3. back \in Seq(S) /\ Len(back) = Len(q) - i /\ \A j \in 1 .. Len(q) - i : back[j] = q[i + j]
  BY <1>1
<1> HIDE DEF front, back
<1>4. /\ front \o back \in Seq(S) /\ Len(front \o back) = Len(front) + Len(back)
      /\ \A j \in 1 .. Len(front) + Len(back) :
           (front \o back)[j] = IF j <= Len(front) THEN front[j] ELSE back[j - Len(front)]
  BY <1>2, <1>3, ConcatProperties
<1>5. \A j \in 1 .. Len(q) - 1 : (front \o back)[j] = IF j < i THEN q[j] ELSE q[j + 1]
  <2> SUFFICES ASSUME NEW j \in 1 .. Len(q) - 1
               PROVE  (front \o back)[j] = IF j < i THEN q[j] ELSE q[j + 1]
    OBVIOUS
  <2> DEFINE k == j - (i - 1)
  <2>1. (front \o back)[j] = IF j <= i - 1 THEN front[j] ELSE back[k]
    <3>1. Len(front) + Len(back) = Len(q) - 1
      BY <1>1, <1>2, <1>3
    <3>2. (front \o back)[j] = IF j <= Len(front) THEN front[j] ELSE back[j - Len(front)]
      BY <1>4, <3>1
    <3> QED
      BY <1>2, <3>2
  <2>2. ASSUME j < i PROVE j <= i - 1 /\ front[j] = q[j]
    BY <1>1, <1>2, <2>2
  <2>3. ASSUME ~(j < i) PROVE ~(j <= i - 1) /\ back[k] = q[j + 1]
    <3>1. k \in 1 .. Len(q) - i /\ i + k = j + 1 /\ ~(j <= i - 1)
      BY <1>1, <2>3
    <3> HIDE DEF k
    <3> QED
      BY <1>3, <3>1
  <2> HIDE DEF k
  <2> QED
    BY <2>1, <2>2, <2>3
<1>6. RemoveAt(q, i) = front \o back
  BY DEF RemoveAt, front, back
<1>7. Len(front \o back) = Len(q) - 1 /\ DOMAIN (front \o back) = 1 .. Len(q) - 1
  BY <1>1, <1>2, <1>3, <1>4, SMTT(30)
<1> QED
  BY <1>4, <1>5, <1>6, <1>7

LEMMA Appended ==
  ASSUME NEW S, NEW q \in Seq(S), NEW o \in S
  PROVE  /\ Append(q, o) \in Seq(S)
         /\ DOMAIN Append(q, o) = DOMAIN q \cup {Len(q) + 1} /\ Len(q) + 1 \notin DOMAIN q
         /\ \A i \in DOMAIN q : Append(q, o)[i] = q[i]
         /\ Append(q, o)[Len(q) + 1] = o
<1>1. Len(q) \in Nat /\ DOMAIN q = 1 .. Len(q)
  OBVIOUS
<1>2. Append(q, o) \in Seq(S) /\ Len(Append(q, o)) = Len(q) + 1
  BY AppendProperties
<1>3. DOMAIN Append(q, o) = 1 .. Len(q) + 1
  BY <1>2
<1> QED
  BY <1>1, <1>2, <1>3, AppendProperties

LEMMA Concatenated ==
  ASSUME NEW S, NEW p \in Seq(S), NEW q \in Seq(S)
  PROVE  /\ p \o q \in Seq(S) /\ Len(p \o q) = Len(p) + Len(q)
         /\ \A i \in 1 .. Len(p) + Len(q) : (p \o q)[i] = IF i <= Len(p) THEN p[i] ELSE q[i - Len(p)]
  BY ConcatProperties

LEMMA IsSequence ==
  ASSUME NEW S, NEW n \in Nat, NEW g \in [1 .. n -> S]
  PROVE  g \in Seq(S) /\ Len(g) = n
  OBVIOUS

\* A permutation of a finite set lists all of it, and nothing twice.
LEMMA Listed ==
  ASSUME NEW S, IsFiniteSet(S), NEW f \in SetToSeqs(S)
  PROVE  /\ f \in [1 .. Cardinality(S) -> S] /\ Cardinality(S) \in Nat
         /\ \A i, j \in 1 .. Cardinality(S) : f[i] = f[j] => i = j
         /\ \A s \in S : \E i \in 1 .. Cardinality(S) : f[i] = s
<1>1. Cardinality(S) \in Nat
  BY FS_CardinalityType
<1>2. /\ f \in [1 .. Cardinality(S) -> S]
      /\ \A i, j \in 1 .. Cardinality(S) : i # j => f[i] # f[j]
  BY DEF SetToSeqs
<1>3. f \in Injection(1 .. Cardinality(S), S)
  BY <1>2 DEF Injection, IsInjective
<1>4. Cardinality(1 .. Cardinality(S)) = Cardinality(S)
  BY <1>1, FS_Interval
<1>5. f \in Surjection(1 .. Cardinality(S), S)
  BY <1>3, <1>4, FS_Injection
<1>6. \A s \in S : \E i \in 1 .. Cardinality(S) : f[i] = s
  BY <1>5 DEF Surjection
<1> QED
  BY <1>1, <1>2, <1>6

-----------------------------------------------------------------------------
(***************************************************************************)
(* The state of the simulator, and the orders.                             *)
(***************************************************************************)
USE PricesAssumption, BarsAssumption, UniverseAssumption, LagAssumption, ParametersAssumption
USE DEF NoBar

Closes == [Universe -> Prices \cup {NoBar}]

OrderSet == [kind : {"stop_exit", "rebalance"}, decided : Nat, executeAt : Nat,
             symbols : SUBSET Universe, evidence : SUBSET (ClaimPool \X Universe)]

EngineTypeOK ==
  /\ claims \subseteq ClaimPool
  /\ lag \in Nat /\ today \in Nat
  /\ bars \in [Window -> Closes]
  /\ phase \in {"stops", "decide", "fill"}
  /\ held \subseteq Universe /\ exits \subseteq Universe
  /\ entry \in Closes
  /\ pending \in Seq(OrderSet)
  /\ proposed \in [asOf : Int, symbols : SUBSET Universe, evidence : SUBSET (ClaimPool \X Universe)]
  /\ decided \subseteq Nat

\* The research behind a decision is that whose window holds its day, all of it.
Grounded(cited, day, symbols, evidence) ==
  evidence = {e \in Signals(cited) : /\ e[2] \in symbols
                                     /\ EffectiveDate(e[1]) <= day
                                     /\ day < EffectiveDate(e[1]) + Horizon(e[1])}

OrderOK(o, cited, wait, day) ==
  /\ o.executeAt = o.decided + wait /\ o.decided <= day
  /\ o.kind = "stop_exit" => \E s \in Universe : o.symbols = {s}
  /\ o.kind = "rebalance" => Grounded(cited, o.decided, o.symbols, o.evidence)

OrdersInv == \A i \in DOMAIN pending : OrderOK(pending[i], claims, lag, today)

\* Inductive with OrdersInv: what the run proposes is one of its filled orders.
ProposalInv ==
  /\ held \subseteq proposed.symbols
  /\ proposed.asOf >= 0 => proposed.asOf + lag <= today
  /\ Grounded(claims, proposed.asOf, proposed.symbols, proposed.evidence)

BookInv == EngineTypeOK /\ OrdersInv /\ ProposalInv

\* exit_pending and the pending exits, one of each per symbol.
Exiting(i, s) == pending[i].kind = "stop_exit" /\ s \in pending[i].symbols

ExitsInv ==
  /\ \A i \in DOMAIN pending, s \in Universe : Exiting(i, s) => s \in exits
  /\ \A s \in exits : \E i \in DOMAIN pending : Exiting(i, s)
  /\ \A i, j \in DOMAIN pending, s \in Universe : Exiting(i, s) /\ Exiting(j, s) => i = j

\* Once today's stops were sent, a position below its stop is on the way out: a
\* fill takes away an exit only together with its position, and a rebalance pays
\* today's closes.
StopsInv == phase # "stops" => \A s \in held : Breached(s) => s \in exits

\* Today's decision is the selection; the orders of earlier days are older.
DecisionInv ==
  \A i \in DOMAIN pending : pending[i].kind = "rebalance" /\ pending[i].decided = today =>
                               pending[i].symbols = Select(bars, claims, today)

LEMMA WindowHas == 0 \in Window /\ 1 \in Window /\ -Lookback \in Window /\ -Lookback # 1
  BY DEF Window

LEMMA SelectedAreTraded ==
  ASSUME NEW view, NEW cited, NEW day
  PROVE  Select(view, cited, day) \subseteq Universe
  BY DEF Select, Eligible

LEMMA EvidenceIsGrounded ==
  ASSUME claims \subseteq ClaimPool, NEW symbols \in SUBSET Universe
  PROVE  /\ Evidence(symbols) \in SUBSET (ClaimPool \X Universe)
         /\ Grounded(claims, today, symbols, Evidence(symbols))
<1>1. Signals(claims) \subseteq claims \X Universe
  BY DEF Signals
<1>2. ASSUME NEW c \in claims, NEW s \in Universe
      PROVE  c \in ActiveClaims(claims, s, today) <=> <<c, s>> \in Signals(claims) /\ Live(c, today)
  BY DEF ActiveClaims
<1>3. ASSUME NEW c \in claims, NEW s \in Universe
      PROVE  <<c, s>> \in Evidence(symbols) <=>
               /\ <<c, s>> \in Signals(claims) /\ s \in symbols
               /\ EffectiveDate(c) <= today /\ today < EffectiveDate(c) + Horizon(c)
  BY <1>2 DEF Evidence, Live
<1>4. Evidence(symbols) \subseteq claims \X Universe
  BY DEF Evidence
<1> DEFINE window == {e \in Signals(claims) : /\ e[2] \in symbols
                                              /\ EffectiveDate(e[1]) <= today
                                              /\ today < EffectiveDate(e[1]) + Horizon(e[1])}
<1>5. ASSUME NEW c \in claims, NEW s \in Universe
      PROVE  <<c, s>> \in window <=>
               /\ <<c, s>> \in Signals(claims) /\ s \in symbols
               /\ EffectiveDate(c) <= today /\ today < EffectiveDate(c) + Horizon(c)
  OBVIOUS
<1>6. window \subseteq claims \X Universe
  BY <1>1
<1> HIDE DEF window
<1>7. Evidence(symbols) = window
  <2>1. ASSUME NEW e \in claims \X Universe PROVE e \in Evidence(symbols) <=> e \in window
    <3>1. e[1] \in claims /\ e[2] \in Universe /\ e = <<e[1], e[2]>>
      OBVIOUS
    <3>2. <<e[1], e[2]>> \in Evidence(symbols) <=> <<e[1], e[2]>> \in window
      BY <1>3, <1>5, <3>1
    <3> QED
      BY <3>1, <3>2
  <2> QED
    BY <1>4, <1>6, <2>1
<1> QED
  BY <1>4, <1>7 DEF Grounded, window

\* A filled order leaves the list, the others stay.
LEMMA Filled ==
  ASSUME pending \in Seq(OrderSet), NEW i \in DOMAIN pending, pending' = RemoveAt(pending, i)
  PROVE  /\ pending' \in Seq(OrderSet)
         /\ \E old \in [DOMAIN pending' -> DOMAIN pending \ {i}] :
              /\ \A j \in DOMAIN pending' : pending'[j] = pending[old[j]]
              /\ \A j, k \in DOMAIN pending' : old[j] = old[k] => j = k
              /\ \A k \in DOMAIN pending \ {i} : \E j \in DOMAIN pending' : old[j] = k
              /\ \A j, k \in DOMAIN pending' : j < k => old[j] < old[k]
<1>1. /\ pending' \in Seq(OrderSet) /\ Len(pending') = Len(pending) - 1
      /\ \A j \in DOMAIN pending' : pending'[j] = IF j < i THEN pending[j] ELSE pending[j + 1]
  BY Removed
<1>2. /\ Len(pending) \in Nat /\ DOMAIN pending = 1 .. Len(pending)
      /\ DOMAIN pending' = 1 .. Len(pending) - 1
  BY <1>1
<1> DEFINE old == [j \in DOMAIN pending' |-> IF j < i THEN j ELSE j + 1]
<1>3. old \in [DOMAIN pending' -> DOMAIN pending \ {i}]
  BY <1>2
<1>4. \A j \in DOMAIN pending' : pending'[j] = pending[old[j]]
  BY <1>1
<1>5. \A j, k \in DOMAIN pending' : old[j] = old[k] => j = k
  BY <1>2
<1>7. \A j, k \in DOMAIN pending' : j < k => old[j] < old[k]
  BY <1>2
<1>6. \A k \in DOMAIN pending \ {i} : \E j \in DOMAIN pending' : old[j] = k
  <2> SUFFICES ASSUME NEW k \in DOMAIN pending \ {i}
               PROVE  \E j \in DOMAIN pending' : old[j] = k
    OBVIOUS
  <2>1. CASE k < i
    BY <1>2, <2>1
  <2>2. CASE k > i
    <3>1. k - 1 \in DOMAIN pending' /\ ~(k - 1 < i) /\ (k - 1) + 1 = k
      BY <1>2, <2>2
    <3> QED
      BY <3>1
  <2> QED
    BY <1>2, <2>1, <2>2
<1> HIDE DEF old
<1> QED
  BY <1>1, <1>3, <1>4, <1>5, <1>6, <1>7

\* The exits sent are appended, one for each position that triggered.
LEMMA Sent ==
  ASSUME EngineTypeOK, SendStops
  PROVE  \E n \in Nat : \E f \in [1 .. n -> Triggered] :
           /\ pending' \in Seq(OrderSet)
           /\ Len(pending') = Len(pending) + n
           /\ \A i \in 1 .. Len(pending) : pending'[i] = pending[i]
           /\ \A k \in 1 .. n : pending'[Len(pending) + k] = Order("stop_exit", {f[k]}, {})
           /\ \A j, k \in 1 .. n : f[j] = f[k] => j = k
           /\ \A s \in Triggered : \E k \in 1 .. n : f[k] = s
<1>1. Triggered \subseteq Universe /\ IsFiniteSet(Triggered)
  <2>1. Triggered \in SUBSET Universe
    BY DEF Triggered, EngineTypeOK
  <2> QED
    BY <2>1, FS_Subset
<1>2. PICK f \in SetToSeqs(Triggered) :
        pending' = pending \o [i \in DOMAIN f |-> Order("stop_exit", {f[i]}, {})]
  BY DEF SendStops
<1> DEFINE n == Cardinality(Triggered)
           sent == [i \in 1 .. n |-> Order("stop_exit", {f[i]}, {})]
<1>3. /\ f \in [1 .. n -> Triggered] /\ n \in Nat
      /\ \A i, j \in 1 .. n : f[i] = f[j] => i = j
      /\ \A s \in Triggered : \E i \in 1 .. n : f[i] = s
  BY <1>1, Listed
<1>4. \A s \in Universe : Order("stop_exit", {s}, {}) \in OrderSet
  BY DEF Order, OrderSet, EngineTypeOK
<1>5. sent \in Seq(OrderSet) /\ Len(sent) = n
  <2>1. \A i \in 1 .. n : Order("stop_exit", {f[i]}, {}) \in OrderSet
    BY <1>1, <1>3, <1>4
  <2>2. sent \in [1 .. n -> OrderSet]
    BY <2>1
  <2> HIDE DEF sent, n
  <2> QED
    BY <1>3, <2>2, IsSequence
<1>6. pending' = pending \o sent
  BY <1>2, <1>3
<1>7. /\ pending' \in Seq(OrderSet) /\ Len(pending') = Len(pending) + Len(sent)
      /\ \A i \in 1 .. Len(pending) + Len(sent) :
           pending'[i] = IF i <= Len(pending) THEN pending[i] ELSE sent[i - Len(pending)]
  <2> HIDE DEF sent, n
  <2>1. pending \in Seq(OrderSet)
    BY DEF EngineTypeOK
  <2>2. \A p, q \in Seq(OrderSet) :
          /\ p \o q \in Seq(OrderSet) /\ Len(p \o q) = Len(p) + Len(q)
          /\ \A i \in 1 .. Len(p) + Len(q) : (p \o q)[i] = IF i <= Len(p) THEN p[i] ELSE q[i - Len(p)]
    BY Concatenated
  <2>3. sent \in Seq(OrderSet)
    BY <1>5
  <2> QED
    BY <1>6, <2>1, <2>2, <2>3, Zenon
<1>8. Len(pending) \in Nat
  BY DEF EngineTypeOK
<1>9. ASSUME NEW i \in 1 .. Len(pending) PROVE pending'[i] = pending[i]
  <2> HIDE DEF sent, n
  <2>1. i \in 1 .. Len(pending) + Len(sent) /\ i <= Len(pending)
    BY <1>3, <1>5, <1>8
  <2> QED
    BY <1>7, <2>1
<1>10. ASSUME NEW k \in 1 .. n PROVE pending'[Len(pending) + k] = Order("stop_exit", {f[k]}, {})
  <2>1. /\ Len(pending) + k \in 1 .. Len(pending) + Len(sent) /\ ~(Len(pending) + k <= Len(pending))
        /\ (Len(pending) + k) - Len(pending) = k
    BY <1>3, <1>5, <1>8
  <2>2. pending'[Len(pending) + k] = sent[k]
    BY <1>7, <2>1
  <2> QED
    BY <2>2
<1> HIDE DEF n, sent
<1> QED
  BY <1>3, <1>5, <1>7, <1>9, <1>10

-----------------------------------------------------------------------------
(***************************************************************************)
(* The orders and what is proposed.                                        *)
(***************************************************************************)
LEMMA InitBook == Init => BookInv
<1> SUFFICES ASSUME Init PROVE BookInv
  OBVIOUS
<1> USE DEF Init
<1>1. PICK first, second \in Bars :
        bars = [k \in Window |-> CASE k = 0 -> first [] k = 1 -> second
                                   [] OTHER -> [s \in Universe |-> NoBar]]
  OBVIOUS
<1>2. first \in Closes /\ second \in Closes /\ [s \in Universe |-> NoBar] \in Closes
  BY DEF Closes
<1>3. bars \in [Window -> Closes]
  <2> HIDE DEF Init
  <2>1. ASSUME NEW k \in Window
        PROVE  (CASE k = 0 -> first [] k = 1 -> second
                  [] OTHER -> [s \in Universe |-> NoBar]) \in Closes
    BY <1>2
  <2> QED
    BY <1>1, <2>1
<1>4. lag \in Nat
  <2> HIDE DEF Init
  <2>1. lag \in Lags
    BY DEF Init
  <2> QED
    BY <2>1
<1>5. pending \in Seq(OrderSet) /\ DOMAIN pending = {}
  OBVIOUS
<1>6. proposed \in [asOf : Int, symbols : SUBSET Universe, evidence : SUBSET (ClaimPool \X Universe)]
  OBVIOUS
<1>7. EngineTypeOK
  BY <1>2, <1>3, <1>4, <1>5, <1>6 DEF EngineTypeOK
<1>8. OrdersInv
  BY <1>5 DEF OrdersInv
<1>9. ProposalInv
  BY DEF ProposalInv, Grounded
<1> QED
  BY <1>7, <1>8, <1>9 DEF BookInv

LEMMA SendStopsBook == ASSUME BookInv, SendStops PROVE BookInv'
<1> USE DEF BookInv
<1>1. PICK n \in Nat : \E f \in [1 .. n -> Triggered] :
           /\ pending' \in Seq(OrderSet)
           /\ Len(pending') = Len(pending) + n
           /\ \A i \in 1 .. Len(pending) : pending'[i] = pending[i]
           /\ \A k \in 1 .. n : pending'[Len(pending) + k] = Order("stop_exit", {f[k]}, {})
  BY Sent
<1>2. PICK f \in [1 .. n -> Triggered] :
           /\ pending' \in Seq(OrderSet)
           /\ Len(pending') = Len(pending) + n
           /\ \A i \in 1 .. Len(pending) : pending'[i] = pending[i]
           /\ \A k \in 1 .. n : pending'[Len(pending) + k] = Order("stop_exit", {f[k]}, {})
  BY <1>1
<1>3. Triggered \subseteq Universe
  BY DEF Triggered, EngineTypeOK
<1>4. UNCHANGED <<claims, lag, today, newPeriod, bars, held, entry, proposed, decided>> /\ phase' = "decide"
      /\ exits' = exits \cup Triggered
  BY DEF SendStops, inputs
<1>5. EngineTypeOK'
  BY <1>2, <1>3, <1>4 DEF EngineTypeOK
<1>6. ASSUME NEW s \in Universe PROVE OrderOK(Order("stop_exit", {s}, {}), claims, lag, today)
  BY DEF OrderOK, Order, EngineTypeOK
<1>8. OrdersInv'
  <2> SUFFICES ASSUME NEW i \in DOMAIN pending' PROVE OrderOK(pending'[i], claims, lag, today)
    BY <1>4 DEF OrdersInv
  <2>1. Len(pending) \in Nat /\ DOMAIN pending = 1 .. Len(pending) /\ i \in 1 .. Len(pending) + n
    BY <1>2 DEF EngineTypeOK
  <2>2. CASE i <= Len(pending)
    <3>1. i \in DOMAIN pending /\ pending'[i] = pending[i]
      BY <1>2, <2>1, <2>2
    <3> QED
      BY <3>1 DEF OrdersInv
  <2>3. CASE i > Len(pending)
    <3>1. PICK k \in 1 .. n : i = Len(pending) + k
      <4>1. i - Len(pending) \in 1 .. n /\ i = Len(pending) + (i - Len(pending))
        BY <2>1, <2>3
      <4> QED
        BY <4>1
    <3>2. pending'[i] = Order("stop_exit", {f[k]}, {}) /\ f[k] \in Universe
      BY <1>2, <1>3, <3>1
    <3> QED
      BY <1>6, <3>2
  <2> QED
    BY <2>1, <2>2, <2>3
<1>9. ProposalInv'
  BY <1>4 DEF ProposalInv
<1> QED
  BY <1>5, <1>8, <1>9

LEMMA DecideBook == ASSUME BookInv, Decide PROVE BookInv'
<1> USE DEF BookInv
<1> DEFINE chosen == Select(bars, claims, today)
           order == Order("rebalance", chosen, Evidence(chosen))
<1>1. UNCHANGED <<claims, lag, today, newPeriod, bars, held, entry, exits, proposed>> /\ phase' = "fill"
  BY DEF Decide, inputs
<1>2. pending' = pending \/ pending' = Append(pending, order)
  BY DEF Decide
<1>3. chosen \in SUBSET Universe
  BY SelectedAreTraded
<1>4. Evidence(chosen) \in SUBSET (ClaimPool \X Universe) /\ Grounded(claims, today, chosen, Evidence(chosen))
  BY <1>3, EvidenceIsGrounded DEF EngineTypeOK
<1> HIDE DEF chosen
<1>5. order \in OrderSet
  BY <1>3, <1>4 DEF Order, OrderSet, EngineTypeOK
<1>6. OrderOK(order, claims, lag, today)
  BY <1>4 DEF Order, OrderOK, EngineTypeOK
<1> HIDE DEF order
<1>8. pending \in Seq(OrderSet)
  BY DEF EngineTypeOK
<1>9. pending' \in Seq(OrderSet) /\ \A i \in DOMAIN pending' :
        pending'[i] = order \/ (i \in DOMAIN pending /\ pending'[i] = pending[i])
  <2>1. ASSUME pending' = Append(pending, order)
        PROVE  /\ pending' \in Seq(OrderSet)
               /\ \A i \in DOMAIN pending' :
                    pending'[i] = order \/ (i \in DOMAIN pending /\ pending'[i] = pending[i])
    BY <1>5, <1>8, <2>1, Appended
  <2> QED
    BY <1>2, <1>8, <2>1
<1>10. EngineTypeOK'
  <2>1. decided' \subseteq Nat
    BY DEF Decide, EngineTypeOK
  <2> QED
    BY <1>1, <1>9, <2>1 DEF EngineTypeOK
<1>11. OrdersInv'
  BY <1>1, <1>6, <1>9 DEF OrdersInv
<1>12. ProposalInv'
  BY <1>1 DEF ProposalInv
<1> QED
  BY <1>10, <1>11, <1>12

LEMMA FillExitBook ==
  ASSUME BookInv, NEW i \in DOMAIN pending, FillExit(i)
  PROVE  BookInv'
<1> USE DEF BookInv
<1>1. /\ UNCHANGED <<claims, lag, today, newPeriod, bars, phase, proposed, decided>>
      /\ pending' = RemoveAt(pending, i)
  BY DEF FillExit, inputs
<1>2. PICK s \in pending[i].symbols :
        /\ exits' = exits \ {s} /\ held' = held \ {s}
        /\ entry' = IF s \in held THEN EntryAfter(s) ELSE entry
  BY DEF FillExit, ExitsAfter
<1>3. pending \in Seq(OrderSet)
  BY DEF EngineTypeOK
<1>4. pending' \in Seq(OrderSet) /\ \E old \in [DOMAIN pending' -> DOMAIN pending \ {i}] :
        \A j \in DOMAIN pending' : pending'[j] = pending[old[j]]
  BY <1>1, <1>3, Filled
<1>5. entry' \in Closes
  BY <1>2 DEF EngineTypeOK, Closes, EntryAfter
<1>6. EngineTypeOK'
  BY <1>1, <1>2, <1>4, <1>5 DEF EngineTypeOK
<1>7. OrdersInv'
  BY <1>1, <1>4 DEF OrdersInv
<1>8. ProposalInv'
  BY <1>1, <1>2 DEF ProposalInv
<1> QED
  BY <1>6, <1>7, <1>8

LEMMA FillRebalanceBook ==
  ASSUME BookInv, NEW i \in DOMAIN pending, FillRebalance(i)
  PROVE  BookInv'
<1> USE DEF BookInv
<1> DEFINE o == pending[i]
<1>1. /\ UNCHANGED <<claims, lag, today, newPeriod, bars, phase, exits, decided>>
      /\ pending' = RemoveAt(pending, i) /\ held' = o.symbols
      /\ entry' = [s \in Universe |-> IF s \in held' THEN bars[0][s] ELSE NoBar]
      /\ proposed' = [asOf |-> o.decided, symbols |-> o.symbols, evidence |-> o.evidence]
      /\ Due(o)
  BY DEF FillRebalance, inputs, FirstDue
<1>2. pending \in Seq(OrderSet) /\ o \in OrderSet /\ o.kind = "rebalance" /\ OrderOK(o, claims, lag, today)
  BY DEF EngineTypeOK, OrdersInv, FillRebalance
<1> HIDE DEF o
<1>3. /\ o.symbols \in SUBSET Universe /\ o.evidence \in SUBSET (ClaimPool \X Universe)
      /\ o.decided \in Nat /\ o.executeAt \in Nat
  BY <1>2 DEF OrderSet
<1>4. pending' \in Seq(OrderSet) /\ \E old \in [DOMAIN pending' -> DOMAIN pending \ {i}] :
        \A j \in DOMAIN pending' : pending'[j] = pending[old[j]]
  BY <1>1, <1>2, Filled, SMTT(30)
<1>5. bars[0] \in Closes
  BY WindowHas DEF EngineTypeOK
<1>6. entry' \in Closes
  BY <1>1, <1>5 DEF Closes
<1>7. EngineTypeOK'
  BY <1>1, <1>3, <1>4, <1>6 DEF EngineTypeOK
<1>8. OrdersInv'
  BY <1>1, <1>4 DEF OrdersInv
<1>9. /\ proposed'.asOf = o.decided /\ proposed'.symbols = o.symbols
      /\ proposed'.evidence = o.evidence
  BY <1>1
<1>10. o.decided + lag <= today
  BY <1>1, <1>2 DEF Due, OrderOK
<1>11. ProposalInv'
  BY <1>1, <1>2, <1>9, <1>10 DEF ProposalInv, OrderOK
<1> QED
  BY <1>7, <1>8, <1>11

LEMMA NextDayBook == ASSUME BookInv, NextDay PROVE BookInv'
<1> USE DEF BookInv
<1>1. /\ UNCHANGED <<claims, lag, held, entry, pending, exits, proposed, decided>>
      /\ today' = today + 1 /\ phase' = "stops" /\ today \in Nat
  BY DEF NextDay, EngineTypeOK
<1>2. bars' \in [Window -> Closes]
  <2>1. PICK bar \in Bars : bars' = [k \in Window |-> IF k = 1 THEN bar ELSE bars[k + 1]]
    BY DEF NextDay
  <2>2. \A k \in Window : k # 1 => k + 1 \in Window
    BY DEF Window
  <2>3. bar \in Closes
    BY DEF Closes
  <2> QED
    BY <2>1, <2>2, <2>3 DEF EngineTypeOK
<1>3. EngineTypeOK'
  BY <1>1, <1>2 DEF EngineTypeOK
<1>4. OrdersInv'
  <2>1. ASSUME NEW i \in DOMAIN pending PROVE OrderOK(pending[i], claims, lag, today + 1)
    <3> pending \in Seq(OrderSet)
      BY DEF EngineTypeOK
    <3>1. pending[i] \in OrderSet /\ OrderOK(pending[i], claims, lag, today)
      BY DEF OrdersInv
    <3>2. pending[i].decided \in Nat
      BY <3>1 DEF OrderSet
    <3>3. pending[i].decided <= today + 1
      BY <1>1, <3>1, <3>2 DEF OrderOK
    <3> QED
      BY <3>1, <3>3, Zenon DEF OrderOK
  <2> QED
    BY <1>1, <2>1 DEF OrdersInv
<1>5. ProposalInv'
  <2>1. proposed.asOf \in Int /\ lag \in Nat
    BY DEF EngineTypeOK
  <2> QED
    BY <1>1, <2>1 DEF ProposalInv
<1> QED
  BY <1>3, <1>4, <1>5

LEMMA BookStep == BookInv /\ [Next]_vars => BookInv'
<1> SUFFICES ASSUME BookInv, [Next]_vars PROVE BookInv'
  OBVIOUS
<1>1. CASE SendStops
  BY <1>1, SendStopsBook
<1>2. CASE Decide
  BY <1>2, DecideBook
<1>3. CASE NextDay
  BY <1>3, NextDayBook
<1>4. ASSUME NEW i \in DOMAIN pending, FillExit(i) PROVE BookInv'
  BY <1>4, FillExitBook
<1>5. ASSUME NEW i \in DOMAIN pending, FillRebalance(i) PROVE BookInv'
  BY <1>5, FillRebalanceBook
<1>6. CASE UNCHANGED vars
  BY <1>6 DEF vars, BookInv, EngineTypeOK, OrdersInv, ProposalInv
<1> QED
  BY <1>1, <1>2, <1>3, <1>4, <1>5, <1>6 DEF Next

LEMMA BookAlways == Spec => []BookInv
  BY InitBook, BookStep, PTL DEF Spec

-----------------------------------------------------------------------------
(***************************************************************************)
(* The schedule of rebalances.                                             *)
(***************************************************************************)
Rebalance(i) == pending[i].kind = "rebalance"

\* The decisions are those the proposal has reached and those still pending, which
\* wait in the order of their days.
ScheduleInv ==
  /\ \A d \in decided : d <= today /\ (phase # "fill" => d # today)
  /\ proposed.asOf = -1 \/ proposed.asOf \in decided
  /\ \A i \in DOMAIN pending : Rebalance(i) =>
       pending[i].decided \in decided /\ proposed.asOf < pending[i].decided
  /\ \A i, j \in DOMAIN pending : Rebalance(i) /\ Rebalance(j) /\ i < j =>
       pending[i].decided < pending[j].decided
  /\ \A d \in decided : \/ d <= proposed.asOf
                        \/ \E i \in DOMAIN pending : Rebalance(i) /\ pending[i].decided = d

LEMMA InitSchedule == Init => ScheduleInv
  BY DEF Init, ScheduleInv

\* Exits are appended and move no rebalance.
LEMMA SendStopsSchedule == ASSUME BookInv, ScheduleInv, SendStops PROVE ScheduleInv'
<1> EngineTypeOK
  BY DEF BookInv
<1>1. PICK n \in Nat : \E f \in [1 .. n -> Triggered] :
           /\ pending' \in Seq(OrderSet)
           /\ Len(pending') = Len(pending) + n
           /\ \A i \in 1 .. Len(pending) : pending'[i] = pending[i]
           /\ \A k \in 1 .. n : pending'[Len(pending) + k] = Order("stop_exit", {f[k]}, {})
  BY Sent
<1>2. PICK f \in [1 .. n -> Triggered] :
           /\ pending' \in Seq(OrderSet)
           /\ Len(pending') = Len(pending) + n
           /\ \A i \in 1 .. Len(pending) : pending'[i] = pending[i]
           /\ \A k \in 1 .. n : pending'[Len(pending) + k] = Order("stop_exit", {f[k]}, {})
  BY <1>1
<1>3. UNCHANGED <<today, proposed, decided>> /\ phase # "fill" /\ phase' # "fill"
  BY DEF SendStops, inputs
<1>0. PICK m \in Nat : m = Len(pending)
  BY DEF EngineTypeOK
<1>4. DOMAIN pending = 1 .. m /\ DOMAIN pending' = 1 .. m + n
  BY <1>0, <1>2 DEF EngineTypeOK
<1>5. ASSUME NEW i \in 1 .. m PROVE i \in DOMAIN pending' /\ pending'[i] = pending[i]
  BY <1>0, <1>2, <1>4
<1>6. ASSUME NEW i \in DOMAIN pending', Rebalance(i)' PROVE i \in 1 .. m
  <2>1. CASE i > m
    <3>1. PICK k \in 1 .. n : i = m + k
      <4>1. i - m \in 1 .. n /\ i = m + (i - m)
        BY <1>4, <2>1
      <4> QED
        BY <4>1
    <3>2. pending'[i] = Order("stop_exit", {f[k]}, {})
      BY <1>0, <1>2, <3>1
    <3> QED
      BY <1>6, <3>2 DEF Rebalance, Order
  <2> QED
    BY <1>4, <2>1
<1>7. \A i \in 1 .. m : Rebalance(i)' <=> Rebalance(i)
  BY <1>5 DEF Rebalance
<1> QED
  BY <1>3, <1>4, <1>5, <1>6, <1>7 DEF ScheduleInv

\* Today's decision is later than every earlier one and goes to the end of the list.
LEMMA DecideSchedule == ASSUME BookInv, ScheduleInv, Decide PROVE ScheduleInv'
<1> EngineTypeOK
  BY DEF BookInv
<1> DEFINE chosen == Select(bars, claims, today)
           order == Order("rebalance", chosen, Evidence(chosen))
<1>1. UNCHANGED <<today, proposed>> /\ phase = "decide"
  BY DEF Decide, inputs
<1>2. CASE ~RebalanceToday
  <2>1. pending' = pending /\ decided' = decided
    BY <1>2 DEF Decide
  <2> QED
    BY <1>1, <2>1 DEF ScheduleInv, Rebalance
<1>3. CASE RebalanceToday
  <2>1. pending' = Append(pending, order) /\ decided' = decided \cup {today}
    BY <1>3 DEF Decide
  <2>2. order.kind = "rebalance" /\ order.decided = today
    BY DEF Order
  <2>3. chosen \in SUBSET Universe
    BY SelectedAreTraded
  <2> HIDE DEF chosen
  <2>4. Evidence(chosen) \in SUBSET (ClaimPool \X Universe)
    BY <2>3, EvidenceIsGrounded DEF EngineTypeOK
  <2>5. order \in OrderSet
    BY <2>3, <2>4 DEF Order, OrderSet, EngineTypeOK
  <2> HIDE DEF order
  <2>6. PICK m \in Nat : m = Len(pending)
    BY DEF EngineTypeOK
  <2>7. /\ DOMAIN pending = 1 .. m /\ DOMAIN pending' = 1 .. m + 1
        /\ \A i \in 1 .. m : pending'[i] = pending[i]
        /\ pending'[m + 1] = order
    <3>1. pending \in Seq(OrderSet)
      BY DEF EngineTypeOK
    <3> QED
      BY <2>1, <2>5, <2>6, <3>1, Appended
  <2>8. /\ \A i \in 1 .. m : Rebalance(i)' <=> Rebalance(i)
        /\ Rebalance(m + 1)'
    BY <2>2, <2>7 DEF Rebalance
  <2>9. today \in Nat /\ (\A d \in decided : d \in Nat /\ d < today) /\ proposed.asOf < today
    BY <1>1 DEF ScheduleInv, EngineTypeOK
  <2>10. \A i \in 1 .. m : Rebalance(i) => pending[i].decided < today
    BY <2>7, <2>9 DEF ScheduleInv
  <2>11. \A d \in decided' : d <= today' /\ (phase' # "fill" => d # today')
    <3>1. phase' = "fill"
      BY DEF Decide
    <3> QED
      BY <1>1, <2>1, <2>9, <3>1
  <2>12. proposed'.asOf = -1 \/ proposed'.asOf \in decided'
    BY <1>1, <2>1 DEF ScheduleInv
  <2>13. ASSUME NEW i \in DOMAIN pending', Rebalance(i)'
         PROVE  pending'[i].decided \in decided' /\ proposed'.asOf < pending'[i].decided
    <3>1. CASE i \in 1 .. m
      BY <1>1, <2>1, <2>7, <2>8, <2>13, <3>1 DEF ScheduleInv
    <3>2. CASE i = m + 1
      BY <1>1, <2>1, <2>2, <2>7, <2>9, <3>2
    <3> QED
      BY <2>7, <3>1, <3>2
  <2>14. ASSUME NEW i \in DOMAIN pending', NEW j \in DOMAIN pending',
                Rebalance(i)', Rebalance(j)', i < j
         PROVE  pending'[i].decided < pending'[j].decided
    <3>1. i \in 1 .. m
      BY <2>7, <2>14
    <3>2. CASE j \in 1 .. m
      BY <2>7, <2>8, <2>14, <3>1, <3>2 DEF ScheduleInv
    <3>3. CASE j = m + 1
      BY <2>2, <2>7, <2>8, <2>10, <2>14, <3>1, <3>3
    <3> QED
      BY <2>7, <3>2, <3>3
  <2>15. ASSUME NEW d \in decided', ~(d <= proposed'.asOf)
         PROVE  \E i \in DOMAIN pending' : Rebalance(i)' /\ pending'[i].decided = d
    <3>1. CASE d \in decided
      BY <1>1, <2>7, <2>8, <2>15, <3>1 DEF ScheduleInv
    <3>2. CASE d = today
      <4>1. m + 1 \in DOMAIN pending'
        BY <2>7
      <4> QED
        BY <2>2, <2>7, <2>8, <3>2, <4>1
    <3> QED
      BY <2>1, <3>1, <3>2
  <2> QED
    BY <2>11, <2>12, <2>13, <2>14, <2>15 DEF ScheduleInv
<1> QED
  BY <1>2, <1>3

LEMMA FillExitSchedule ==
  ASSUME BookInv, ScheduleInv, NEW i \in DOMAIN pending, FillExit(i)
  PROVE  ScheduleInv'
<1>1. /\ UNCHANGED <<today, phase, proposed, decided>>
      /\ pending' = RemoveAt(pending, i) /\ ~Rebalance(i)
  BY DEF FillExit, inputs, Rebalance
<1>2. PICK old \in [DOMAIN pending' -> DOMAIN pending \ {i}] :
        /\ \A j \in DOMAIN pending' : pending'[j] = pending[old[j]]
        /\ \A k \in DOMAIN pending \ {i} : \E j \in DOMAIN pending' : old[j] = k
        /\ \A j, k \in DOMAIN pending' : j < k => old[j] < old[k]
  BY <1>1, Filled DEF BookInv, EngineTypeOK
<1>3. \A j \in DOMAIN pending' : Rebalance(j)' <=> Rebalance(old[j])
  BY <1>2 DEF Rebalance
<1>4. \A d \in decided' : \/ d <= proposed'.asOf
                          \/ \E j \in DOMAIN pending' : Rebalance(j)' /\ pending'[j].decided = d
  BY <1>1, <1>2, <1>3 DEF ScheduleInv
<1>5. \A j, k \in DOMAIN pending' : Rebalance(j)' /\ Rebalance(k)' /\ j < k =>
        pending'[j].decided < pending'[k].decided
  BY <1>2, <1>3 DEF ScheduleInv
<1> QED
  BY <1>1, <1>2, <1>3, <1>4, <1>5 DEF ScheduleInv

\* The first order due is the earliest rebalance, so no decision is skipped.
LEMMA FillRebalanceSchedule ==
  ASSUME BookInv, ScheduleInv, NEW i \in DOMAIN pending, FillRebalance(i)
  PROVE  ScheduleInv'
<1>1. /\ UNCHANGED <<today, phase, decided>>
      /\ pending' = RemoveAt(pending, i) /\ Rebalance(i) /\ FirstDue(i)
      /\ proposed' = [asOf |-> pending[i].decided, symbols |-> pending[i].symbols,
                      evidence |-> pending[i].evidence]
  BY DEF FillRebalance, inputs, Rebalance
<1>2. PICK old \in [DOMAIN pending' -> DOMAIN pending \ {i}] :
        /\ \A j \in DOMAIN pending' : pending'[j] = pending[old[j]]
        /\ \A k \in DOMAIN pending \ {i} : \E j \in DOMAIN pending' : old[j] = k
        /\ \A j, k \in DOMAIN pending' : j < k => old[j] < old[k]
  BY <1>1, Filled DEF BookInv, EngineTypeOK
<1>3. \A j \in DOMAIN pending' : Rebalance(j)' <=> Rebalance(old[j])
  BY <1>2 DEF Rebalance
<1>4. proposed'.asOf = pending[i].decided
  BY <1>1
<1>5. ASSUME NEW k \in DOMAIN pending \ {i}, Rebalance(k)
      PROVE  pending[i].decided < pending[k].decided
  <2>1. /\ pending \in Seq(OrderSet) /\ DOMAIN pending = 1 .. Len(pending)
        /\ today \in Nat /\ lag \in Nat
    BY DEF BookInv, EngineTypeOK
  <2>2. /\ pending[i].decided \in Nat /\ pending[i].executeAt = pending[i].decided + lag
        /\ pending[k].decided \in Nat /\ pending[k].executeAt = pending[k].decided + lag
    <3>1. pending[i] \in OrderSet /\ pending[k] \in OrderSet
      BY <2>1
    <3>2. OrderOK(pending[i], claims, lag, today) /\ OrderOK(pending[k], claims, lag, today)
      BY DEF BookInv, OrdersInv
    <3> QED
      BY <3>1, <3>2 DEF OrderOK, OrderSet
  <2>3. CASE k < i
    <3>1. pending[k].decided < pending[i].decided
      BY <1>1, <1>5, <2>3 DEF ScheduleInv
    <3>2. k \in 1 .. i - 1
      BY <2>1, <2>3
    <3>3. ~(pending[k].executeAt <= today) /\ pending[i].executeAt <= today
      BY <1>1, <3>2 DEF FirstDue, Due
    <3> QED
      BY <2>1, <2>2, <3>1, <3>3
  <2>4. CASE i < k
    BY <1>1, <1>5, <2>4 DEF ScheduleInv
  <2> QED
    BY <2>1, <2>3, <2>4
<1>6. pending[i].decided \in decided /\ proposed.asOf < pending[i].decided
  BY <1>1 DEF ScheduleInv
<1>7. proposed.asOf \in Int /\ pending[i].decided \in Nat /\ decided \subseteq Nat
  BY <1>6 DEF BookInv, EngineTypeOK
<1>8. \A d \in decided' : d <= today' /\ (phase' # "fill" => d # today')
  BY <1>1 DEF ScheduleInv
<1>9. ASSUME NEW j \in DOMAIN pending', Rebalance(j)'
      PROVE  pending'[j].decided \in decided' /\ proposed'.asOf < pending'[j].decided
  BY <1>1, <1>2, <1>3, <1>4, <1>5, <1>9 DEF ScheduleInv
<1>10. \A j, k \in DOMAIN pending' : Rebalance(j)' /\ Rebalance(k)' /\ j < k =>
         pending'[j].decided < pending'[k].decided
  BY <1>2, <1>3 DEF ScheduleInv
<1>11. ASSUME NEW d \in decided', ~(d <= proposed'.asOf)
       PROVE  \E j \in DOMAIN pending' : Rebalance(j)' /\ pending'[j].decided = d
  <2>1. d \in Nat /\ ~(d <= proposed.asOf) /\ d # pending[i].decided
    BY <1>1, <1>4, <1>6, <1>7, <1>11
  <2>2. PICK k \in DOMAIN pending : Rebalance(k) /\ pending[k].decided = d
    BY <1>1, <2>1 DEF ScheduleInv
  <2>3. PICK j \in DOMAIN pending' : old[j] = k
    BY <1>2, <2>1, <2>2
  <2> QED
    BY <1>2, <1>3, <2>2, <2>3
<1> QED
  BY <1>1, <1>4, <1>6, <1>8, <1>9, <1>10, <1>11 DEF ScheduleInv

LEMMA ScheduleStep == BookInv /\ ScheduleInv /\ [Next]_vars => ScheduleInv'
<1> SUFFICES ASSUME BookInv, ScheduleInv, [Next]_vars PROVE ScheduleInv'
  OBVIOUS
<1>1. CASE SendStops
  BY <1>1, SendStopsSchedule
<1>2. CASE Decide
  BY <1>2, DecideSchedule
<1>3. CASE NextDay
  <2>1. UNCHANGED <<pending, proposed, decided>> /\ today' = today + 1
    BY <1>3 DEF NextDay
  <2>2. today \in Nat /\ decided \subseteq Nat
    BY DEF BookInv, EngineTypeOK
  <2>3. \A d \in decided : d <= today + 1 /\ d # today + 1
    BY <2>2 DEF ScheduleInv
  <2> QED
    BY <2>1, <2>3 DEF ScheduleInv, Rebalance
<1>4. ASSUME NEW i \in DOMAIN pending, FillExit(i) PROVE ScheduleInv'
  BY <1>4, FillExitSchedule
<1>5. ASSUME NEW i \in DOMAIN pending, FillRebalance(i) PROVE ScheduleInv'
  BY <1>5, FillRebalanceSchedule
<1>6. CASE UNCHANGED vars
  BY <1>6 DEF vars, ScheduleInv, Rebalance
<1> QED
  BY <1>1, <1>2, <1>3, <1>4, <1>5, <1>6 DEF Next

\* With nothing due, the proposal has reached every decision whose lag has passed.
LEMMA ProposalIsLastDue == ASSUME BookInv, ScheduleInv, DayDone PROVE proposed.asOf = LastDue
<1> DEFINE due == {-1} \cup {d \in decided : d + lag <= today}
<1>1. lag \in Nat /\ today \in Nat /\ decided \subseteq Nat /\ proposed.asOf \in Int
  BY DEF BookInv, EngineTypeOK
<1>2. proposed.asOf \in due
  BY <1>1 DEF ScheduleInv, BookInv, ProposalInv
<1>3. ASSUME NEW d \in due PROVE d \in Int /\ d <= proposed.asOf
  <2>1. CASE d = -1
    BY <1>1, <2>1 DEF ScheduleInv
  <2>2. CASE d \in decided /\ d + lag <= today
    <3>1. ASSUME NEW i \in DOMAIN pending, Rebalance(i), pending[i].decided = d PROVE FALSE
      <4>1. ~(pending[i].executeAt <= today) /\ pending[i].executeAt = pending[i].decided + lag
        BY DEF DayDone, Due, BookInv, OrdersInv, OrderOK
      <4> QED
        BY <1>1, <2>2, <3>1, <4>1
    <3>2. d <= proposed.asOf \/ \E i \in DOMAIN pending : Rebalance(i) /\ pending[i].decided = d
      BY <2>2 DEF ScheduleInv
    <3>3. d <= proposed.asOf
      BY <3>1, <3>2
    <3>4. d \in Int
      BY <1>1, <2>2
    <3> QED
      BY <3>3, <3>4
  <2> QED
    BY <2>1, <2>2
<1> HIDE DEF due
<1>4. ASSUME NEW x \in due, \A y \in due : x >= y PROVE x = proposed.asOf
  BY <1>1, <1>2, <1>3, <1>4
<1>5. \A y \in due : proposed.asOf >= y
  BY <1>1, <1>3
<1>6. Max(due) = proposed.asOf
  BY <1>2, <1>4, <1>5 DEF Max
<1> QED
  BY <1>6 DEF LastDue, due

\* For every universe, price history, set of claims and execution lag, at the end of
\* a day the run proposes the portfolio of the latest decision whose lag has passed,
\* which explains every position still held, with all the research whose window held
\* the day of that decision and no other.  The filling of orders in the order of the
\* list neither skips, repeats nor delays a decision because the rebalances in it are
\* in the order of their days and all carry the same lag.
THEOREM ProposalsAreAnswerable == Spec => []ProposalAnswerable
<1>1. BookInv /\ ScheduleInv => ProposalAnswerable
  BY ProposalIsLastDue DEF BookInv, ProposalInv, Grounded, ProposalAnswerable, Citable
<1> QED
  BY <1>1, InitSchedule, ScheduleStep, BookAlways, PTL DEF Spec

-----------------------------------------------------------------------------
(***************************************************************************)
(* Stop exits.                                                             *)
(***************************************************************************)
LEMMA SendStopsExits == ASSUME BookInv, ExitsInv, SendStops PROVE ExitsInv'
<1> EngineTypeOK
  BY DEF BookInv
<1>1. PICK n \in Nat : \E f \in [1 .. n -> Triggered] :
           /\ pending' \in Seq(OrderSet)
           /\ Len(pending') = Len(pending) + n
           /\ \A i \in 1 .. Len(pending) : pending'[i] = pending[i]
           /\ \A k \in 1 .. n : pending'[Len(pending) + k] = Order("stop_exit", {f[k]}, {})
           /\ \A j, k \in 1 .. n : f[j] = f[k] => j = k
           /\ \A s \in Triggered : \E k \in 1 .. n : f[k] = s
  BY Sent
<1>2. PICK f \in [1 .. n -> Triggered] :
           /\ pending' \in Seq(OrderSet)
           /\ Len(pending') = Len(pending) + n
           /\ \A i \in 1 .. Len(pending) : pending'[i] = pending[i]
           /\ \A k \in 1 .. n : pending'[Len(pending) + k] = Order("stop_exit", {f[k]}, {})
           /\ \A j, k \in 1 .. n : f[j] = f[k] => j = k
           /\ \A s \in Triggered : \E k \in 1 .. n : f[k] = s
  BY <1>1
<1>3. exits' = exits \cup Triggered /\ Triggered \cap exits = {} /\ Triggered \subseteq Universe
  BY DEF SendStops, Triggered, EngineTypeOK
<1>0. PICK m \in Nat : m = Len(pending)
  BY DEF EngineTypeOK
<1>4. DOMAIN pending = 1 .. m /\ DOMAIN pending' = 1 .. m + n
  BY <1>0, <1>2 DEF EngineTypeOK
\* The old exits are for symbols that did not trigger, the new ones for those that did.
<1>5. ASSUME NEW i \in 1 .. m PROVE i \in DOMAIN pending' /\ \A s : Exiting(i, s)' <=> Exiting(i, s)
  BY <1>0, <1>2, <1>4 DEF Exiting
<1>6. ASSUME NEW k \in 1 .. n
      PROVE  m + k \in DOMAIN pending' /\ \A s : Exiting(m + k, s)' <=> s = f[k]
  <2>1. pending'[m + k] = Order("stop_exit", {f[k]}, {})
    BY <1>0, <1>2
  <2>2. pending'[m + k].kind = "stop_exit" /\ pending'[m + k].symbols = {f[k]}
    BY <2>1 DEF Order
  <2>3. m + k \in DOMAIN pending'
    BY <1>4
  <2> QED
    BY <2>2, <2>3 DEF Exiting
<1>7. ASSUME NEW i \in DOMAIN pending' PROVE i \in 1 .. m \/ \E k \in 1 .. n : i = m + k
  <2>1. CASE i <= m
    BY <1>4, <2>1
  <2>2. CASE i > m
    <3>1. i - m \in 1 .. n /\ i = m + (i - m)
      BY <1>4, <2>2
    <3> QED
      BY <3>1
  <2> QED
    BY <1>4, <2>1, <2>2
<1>8. DOMAIN pending = 1 .. m
  BY <1>4
<1>9. ASSUME NEW i \in DOMAIN pending', NEW s \in Universe, Exiting(i, s)' PROVE s \in exits'
  <2>1. CASE i \in 1 .. m
    BY <1>3, <1>5, <1>8, <1>9, <2>1 DEF ExitsInv
  <2>2. ASSUME NEW k \in 1 .. n, i = m + k PROVE s \in exits'
    <3>1. s = f[k]
      BY <1>6, <1>9, <2>2
    <3> QED
      BY <1>3, <3>1
  <2> QED
    BY <1>7, <2>1, <2>2
<1>10. ASSUME NEW s \in exits' PROVE \E i \in DOMAIN pending' : Exiting(i, s)'
  <2>1. CASE s \in exits
    BY <1>5, <1>8, <2>1 DEF ExitsInv
  <2>2. CASE s \in Triggered
    BY <1>2, <1>6, <2>2
  <2> QED
    BY <1>3, <2>1, <2>2
<1>11. ASSUME NEW i \in DOMAIN pending', NEW j \in DOMAIN pending', NEW s \in Universe,
              Exiting(i, s)', Exiting(j, s)'
       PROVE  i = j
  <2>1. CASE i \in 1 .. m /\ j \in 1 .. m
    BY <1>5, <1>8, <1>11, <2>1 DEF ExitsInv
  <2>2. ASSUME NEW a \in 1 .. m, NEW k \in 1 .. n, Exiting(a, s)', Exiting(m + k, s)' PROVE FALSE
    <3>1. s = f[k]
      BY <1>6, <2>2
    <3>2. s \in exits
      BY <1>5, <1>8, <2>2 DEF ExitsInv
    <3> QED
      BY <1>3, <3>1, <3>2
  <2>3. ASSUME NEW k \in 1 .. n, NEW l \in 1 .. n, Exiting(m + k, s)', Exiting(m + l, s)' PROVE k = l
    <3>1. s = f[k]
      BY <1>6, <2>3
    <3>2. s = f[l]
      BY <1>6, <2>3
    <3> QED
      BY <1>2, <3>1, <3>2
  <2> QED
    BY <1>7, <1>11, <2>1, <2>2, <2>3
<1> QED
  BY <1>9, <1>10, <1>11 DEF ExitsInv

LEMMA DecideExits == ASSUME BookInv, ExitsInv, Decide PROVE ExitsInv'
<1> DEFINE chosen == Select(bars, claims, today)
           order == Order("rebalance", chosen, Evidence(chosen))
<1>1. exits' = exits /\ (pending' = pending \/ pending' = Append(pending, order))
  BY DEF Decide
<1>2. order.kind = "rebalance"
  BY DEF Order
<1>3. chosen \in SUBSET Universe
  BY SelectedAreTraded
<1>4. Evidence(chosen) \in SUBSET (ClaimPool \X Universe)
  BY <1>3, EvidenceIsGrounded DEF BookInv, EngineTypeOK
<1>5. pending \in Seq(OrderSet) /\ order \in OrderSet
  <2> HIDE DEF chosen
  <2> QED
    BY <1>3, <1>4 DEF Order, OrderSet, BookInv, EngineTypeOK
<1> HIDE DEF order
<1>6. CASE pending' = pending
  BY <1>1, <1>6 DEF ExitsInv, Exiting
<1>7. CASE pending' = Append(pending, order)
  <2>1. /\ DOMAIN pending' = DOMAIN pending \cup {Len(pending) + 1}
        /\ \A i \in DOMAIN pending : pending'[i] = pending[i]
        /\ pending'[Len(pending) + 1] = order
    BY <1>5, <1>7, Appended
  <2>2. \A i \in DOMAIN pending' : \A s : Exiting(i, s)' <=> i \in DOMAIN pending /\ Exiting(i, s)
    <3>1. pending'[Len(pending) + 1].kind # "stop_exit"
      BY <1>2, <2>1
    <3>2. Len(pending) + 1 \notin DOMAIN pending
      BY <1>5, Appended
    <3> QED
      BY <2>1, <3>1, <3>2 DEF Exiting
  <2> QED
    BY <1>1, <2>1, <2>2 DEF ExitsInv
<1> QED
  BY <1>1, <1>6, <1>7

\* A fill takes its own exit away and none other.
LEMMA FillExitExits ==
  ASSUME BookInv, ExitsInv, NEW i \in DOMAIN pending, FillExit(i)
  PROVE  ExitsInv'
<1>1. pending \in Seq(OrderSet) /\ OrderOK(pending[i], claims, lag, today) /\ exits \subseteq Universe
  BY DEF BookInv, EngineTypeOK, OrdersInv
<1>2. pending' = RemoveAt(pending, i) /\ pending[i].kind = "stop_exit"
  BY DEF FillExit
<1>3. PICK s \in Universe : pending[i].symbols = {s}
  BY <1>1, <1>2 DEF OrderOK
<1>4. exits' = exits \ {s} /\ Exiting(i, s)
  BY <1>2, <1>3 DEF FillExit, ExitsAfter, Exiting
<1>5. PICK old \in [DOMAIN pending' -> DOMAIN pending \ {i}] :
        /\ \A j \in DOMAIN pending' : pending'[j] = pending[old[j]]
        /\ \A j, k \in DOMAIN pending' : old[j] = old[k] => j = k
        /\ \A k \in DOMAIN pending \ {i} : \E j \in DOMAIN pending' : old[j] = k
  BY <1>1, <1>2, Filled
<1>6. \A j \in DOMAIN pending' : \A t : Exiting(j, t)' <=> Exiting(old[j], t)
  BY <1>5 DEF Exiting
<1>7. \A t : Exiting(i, t) => t = s
  BY <1>3 DEF Exiting
<1>8. ASSUME NEW j \in DOMAIN pending', NEW t \in Universe, Exiting(j, t)' PROVE t \in exits'
  BY <1>4, <1>5, <1>6, <1>8 DEF ExitsInv
<1>9. ASSUME NEW t \in exits' PROVE \E j \in DOMAIN pending' : Exiting(j, t)'
  <2>1. PICK k \in DOMAIN pending : Exiting(k, t)
    BY <1>4, <1>9 DEF ExitsInv
  <2>2. k # i
    BY <1>4, <1>7, <1>9, <2>1
  <2> QED
    BY <1>5, <1>6, <2>1, <2>2
<1>10. ASSUME NEW j \in DOMAIN pending', NEW k \in DOMAIN pending', NEW t \in Universe,
              Exiting(j, t)', Exiting(k, t)'
       PROVE  j = k
  BY <1>5, <1>6, <1>10 DEF ExitsInv
<1> QED
  BY <1>8, <1>9, <1>10 DEF ExitsInv

LEMMA FillRebalanceExits ==
  ASSUME BookInv, ExitsInv, NEW i \in DOMAIN pending, FillRebalance(i)
  PROVE  ExitsInv'
<1>1. pending \in Seq(OrderSet)
  BY DEF BookInv, EngineTypeOK
<1>2. pending' = RemoveAt(pending, i) /\ pending[i].kind = "rebalance" /\ exits' = exits
  BY DEF FillRebalance
<1>3. PICK old \in [DOMAIN pending' -> DOMAIN pending \ {i}] :
        /\ \A j \in DOMAIN pending' : pending'[j] = pending[old[j]]
        /\ \A j, k \in DOMAIN pending' : old[j] = old[k] => j = k
        /\ \A k \in DOMAIN pending \ {i} : \E j \in DOMAIN pending' : old[j] = k
  BY <1>1, <1>2, Filled
<1>4. \A j \in DOMAIN pending' : \A t : Exiting(j, t)' <=> Exiting(old[j], t)
  BY <1>3 DEF Exiting
<1>5. \A t : ~Exiting(i, t)
  BY <1>2 DEF Exiting
<1>6. ASSUME NEW t \in exits' PROVE \E j \in DOMAIN pending' : Exiting(j, t)'
  BY <1>2, <1>3, <1>4, <1>5, <1>6 DEF ExitsInv
<1> QED
  BY <1>2, <1>3, <1>4, <1>6 DEF ExitsInv

LEMMA ExitsStep == BookInv /\ ExitsInv /\ [Next]_vars => ExitsInv'
<1> SUFFICES ASSUME BookInv, ExitsInv, [Next]_vars PROVE ExitsInv'
  OBVIOUS
<1>1. CASE SendStops
  BY <1>1, SendStopsExits
<1>2. CASE Decide
  BY <1>2, DecideExits
<1>3. CASE NextDay
  BY <1>3 DEF NextDay, ExitsInv, Exiting
<1>4. ASSUME NEW i \in DOMAIN pending, FillExit(i) PROVE ExitsInv'
  BY <1>4, FillExitExits
<1>5. ASSUME NEW i \in DOMAIN pending, FillRebalance(i) PROVE ExitsInv'
  BY <1>5, FillRebalanceExits
<1>6. CASE UNCHANGED vars
  BY <1>6 DEF vars, ExitsInv, Exiting
<1> QED
  BY <1>1, <1>2, <1>3, <1>4, <1>5, <1>6 DEF Next

LEMMA ExitsAlways == Spec => []ExitsInv
<1>1. Init => ExitsInv
  BY DEF Init, ExitsInv
<1> QED
  BY <1>1, ExitsStep, BookAlways, PTL DEF Spec

\* For every universe, price history and execution lag, exit_pending names exactly
\* the symbols with an exit on the way, and no symbol has two, whatever rebalances
\* buy, drop or buy back in between.
THEOREM ExitsAreSingle == Spec => []OneExitInFlight
<1>1. ExitsInv => OneExitInFlight
  <2> SUFFICES ASSUME ExitsInv, NEW s \in Universe
               PROVE  Cardinality(ExitOrders(s)) = (IF s \in exits THEN 1 ELSE 0)
    BY DEF OneExitInFlight
  <2>1. ExitOrders(s) = {i \in DOMAIN pending : Exiting(i, s)}
    BY DEF ExitOrders, Exiting
  <2>2. CASE s \in exits
    <3>1. PICK i \in DOMAIN pending : Exiting(i, s)
      BY <2>2 DEF ExitsInv
    <3>2. ExitOrders(s) = {i}
      BY <2>1, <3>1 DEF ExitsInv
    <3> QED
      BY <2>2, <3>2, FS_Singleton
  <2>3. CASE s \notin exits
    <3>1. ExitOrders(s) = {}
      BY <2>1, <2>3 DEF ExitsInv
    <3> QED
      BY <2>3, <3>1, FS_EmptySet
  <2> QED
    BY <2>2, <2>3
<1> QED
  BY <1>1, ExitsAlways, PTL

\* A position bought at today's close is not below its stop.
LEMMA FreshIsSafe ==
  ASSUME NEW p \in Nat, p # 0, StopLoss # 0
  PROVE  ~(100 * (p - p) >= StopLoss * p)
<1>1. StopLoss \in Nat
  OBVIOUS
<1>2. StopLoss * p > 0
  BY <1>1
<1>3. 100 * (p - p) = 0 /\ StopLoss * p \in Int
  BY <1>1
<1> QED
  BY <1>2, <1>3

LEMMA StopsStep == BookInv /\ StopsInv /\ [Next]_vars => StopsInv'
<1> SUFFICES ASSUME BookInv, StopsInv, [Next]_vars PROVE StopsInv'
  OBVIOUS
<1>1. CASE SendStops
  <2>1. UNCHANGED <<bars, held, entry>> /\ exits' = exits \cup Triggered
    BY <1>1 DEF SendStops, inputs
  <2>2. ASSUME NEW s PROVE Breached(s)' <=> Breached(s)
    BY <2>1 DEF Breached
  <2> QED
    BY <2>1, <2>2 DEF StopsInv, Triggered
<1>2. CASE Decide
  <2>1. UNCHANGED <<bars, held, entry, exits>> /\ phase = "decide"
    BY <1>2 DEF Decide, inputs
  <2>2. ASSUME NEW s PROVE Breached(s)' <=> Breached(s)
    BY <2>1 DEF Breached
  <2> QED
    BY <2>1, <2>2 DEF StopsInv
<1>3. CASE NextDay
  BY <1>3 DEF NextDay, StopsInv
<1>4. ASSUME NEW i \in DOMAIN pending, FillExit(i) PROVE StopsInv'
  <2>1. PICK s \in pending[i].symbols :
          /\ exits' = exits \ {s} /\ held' = held \ {s}
          /\ entry' = IF s \in held THEN EntryAfter(s) ELSE entry
    BY <1>4 DEF FillExit, ExitsAfter
  <2>2. bars' = bars /\ phase = "fill" /\ phase' = phase
    BY <1>4 DEF FillExit, inputs
  <2>3. ASSUME NEW t \in held' PROVE Breached(t)' <=> Breached(t)
    <3>1. t # s /\ t \in held /\ t \in Universe
      BY <2>1 DEF BookInv, EngineTypeOK
    <3>2. entry'[t] = entry[t]
      BY <2>1, <3>1 DEF EntryAfter, BookInv, EngineTypeOK, Closes
    <3> QED
      BY <2>2, <3>1, <3>2 DEF Breached
  <2> QED
    BY <2>1, <2>2, <2>3 DEF StopsInv
<1>5. ASSUME NEW i \in DOMAIN pending, FillRebalance(i) PROVE StopsInv'
  <2>1. bars' = bars /\ entry' = [s \in Universe |-> IF s \in held' THEN bars[0][s] ELSE NoBar]
    BY <1>5 DEF FillRebalance, inputs
  <2>2. BookInv'
    BY <1>5, FillRebalanceBook
  <2>3. ASSUME NEW s \in held', Breached(s)' PROVE FALSE
    <3>1. s \in Universe /\ bars[0] \in Closes
      BY <2>2, WindowHas DEF BookInv, EngineTypeOK
    <3>2. entry'[s] = bars[0][s] /\ bars[0][s] \in Nat
      <4>1. bars[0][s] \in Prices \cup {NoBar}
        BY <3>1 DEF Closes
      <4>2. entry'[s] = bars[0][s]
        BY <2>1, <3>1
      <4>3. \A p \in Prices \cup {NoBar} : p \in Nat
        OBVIOUS
      <4> QED
        BY <4>1, <4>2, <4>3
    <3>3. /\ StopLoss # 0 /\ bars[0][s] # 0
          /\ 100 * (bars[0][s] - bars[0][s]) >= StopLoss * bars[0][s]
      BY <2>1, <2>3, <3>2 DEF Breached
    <3> QED
      BY <3>2, <3>3, FreshIsSafe
  <2> QED
    BY <2>3 DEF StopsInv
<1>6. CASE UNCHANGED vars
  BY <1>6 DEF vars, StopsInv, Breached
<1> QED
  BY <1>1, <1>2, <1>3, <1>4, <1>5, <1>6 DEF Next

\* For every stop loss, price history and execution lag, a position that closed
\* below its stop has an exit on the way at the end of the day, also when an exit
\* of the same symbol filled after a rebalance had bought it again.
THEOREM StopsStayArmed == Spec => []StopStaysArmed
<1>1. Init => StopsInv
  BY DEF Init, StopsInv
<1>2. Spec => []StopsInv
  BY <1>1, StopsStep, BookAlways, PTL DEF Spec
<1>3. BookInv /\ ExitsInv /\ StopsInv => StopStaysArmed
  BY DEF BookInv, EngineTypeOK, ExitsInv, Exiting, StopsInv, StopStaysArmed, DayDone, ExitOrders
<1> QED
  BY <1>2, <1>3, BookAlways, ExitsAlways, PTL

-----------------------------------------------------------------------------
(***************************************************************************)
(* What a decision rests on.                                               *)
(***************************************************************************)
LEMMA DecisionStep == BookInv /\ DecisionInv /\ [Next]_vars => DecisionInv'
<1> SUFFICES ASSUME BookInv, DecisionInv, [Next]_vars PROVE DecisionInv'
  OBVIOUS
<1> pending \in Seq(OrderSet)
  BY DEF BookInv, EngineTypeOK
<1>1. CASE SendStops
  <2> EngineTypeOK
    BY DEF BookInv
  <2>1. UNCHANGED <<bars, claims, today>>
    BY <1>1 DEF SendStops, inputs
  <2>2. PICK n \in Nat : \E f \in [1 .. n -> Triggered] :
           /\ pending' \in Seq(OrderSet)
           /\ Len(pending') = Len(pending) + n
           /\ \A i \in 1 .. Len(pending) : pending'[i] = pending[i]
           /\ \A k \in 1 .. n : pending'[Len(pending) + k] = Order("stop_exit", {f[k]}, {})
    BY <1>1, Sent
  <2>3. \A k \in 1 .. n : pending'[Len(pending) + k].kind # "rebalance"
    <3>1. \A x : Order("stop_exit", x, {}).kind = "stop_exit"
      BY DEF Order
    <3> QED
      BY <2>2, <3>1
  <2>4. ASSUME NEW i \in DOMAIN pending', pending'[i].kind = "rebalance"
        PROVE  i \in DOMAIN pending /\ pending'[i] = pending[i]
    <3>1. Len(pending) \in Nat /\ DOMAIN pending = 1 .. Len(pending) /\ i \in 1 .. Len(pending) + n
      BY <2>2
    <3>2. CASE i <= Len(pending)
      BY <2>2, <3>1, <3>2
    <3>3. CASE i > Len(pending)
      <4>1. i - Len(pending) \in 1 .. n /\ Len(pending) + (i - Len(pending)) = i
        BY <3>1, <3>3
      <4> QED
        BY <2>3, <2>4, <4>1
    <3> QED
      BY <3>1, <3>2, <3>3
  <2> QED
    BY <2>1, <2>4 DEF DecisionInv
<1>2. CASE Decide
  <2> DEFINE chosen == Select(bars, claims, today)
             order == Order("rebalance", chosen, Evidence(chosen))
  <2>1. UNCHANGED <<bars, claims, today>> /\ (pending' = pending \/ pending' = Append(pending, order))
    BY <1>2 DEF Decide, inputs
  <2>2. order.symbols = chosen
    BY DEF Order
  <2>3. chosen \in SUBSET Universe
    BY SelectedAreTraded
  <2>4. Evidence(chosen) \in SUBSET (ClaimPool \X Universe)
    BY <2>3, EvidenceIsGrounded DEF BookInv, EngineTypeOK
  <2>5. order \in OrderSet
    <3> HIDE DEF chosen
    <3> QED
      BY <2>3, <2>4 DEF Order, OrderSet, BookInv, EngineTypeOK
  <2> HIDE DEF order
  <2>6. ASSUME NEW i \in DOMAIN pending'
        PROVE  pending'[i] = order \/ (i \in DOMAIN pending /\ pending'[i] = pending[i])
    BY <2>1, <2>5, Appended
  <2> QED
    BY <2>1, <2>2, <2>6 DEF DecisionInv
<1>3. CASE NextDay
  <2>1. pending' = pending /\ today' = today + 1 /\ today \in Nat
    BY <1>3 DEF NextDay, BookInv, EngineTypeOK
  <2>2. ASSUME NEW i \in DOMAIN pending PROVE pending[i].decided # today + 1
    <3>1. pending[i] \in OrderSet /\ OrderOK(pending[i], claims, lag, today)
      BY DEF BookInv, OrdersInv
    <3>2. pending[i].decided \in Nat /\ pending[i].decided <= today
      BY <3>1 DEF OrderSet, OrderOK
    <3> QED
      BY <2>1, <3>2
  <2> QED
    BY <2>1, <2>2 DEF DecisionInv
<1>4. ASSUME NEW i \in DOMAIN pending, FillExit(i) \/ FillRebalance(i) PROVE DecisionInv'
  <2>1. UNCHANGED <<bars, claims, today>> /\ pending' = RemoveAt(pending, i)
    BY <1>4 DEF FillExit, FillRebalance, inputs
  <2>2. \E old \in [DOMAIN pending' -> DOMAIN pending \ {i}] :
          \A j \in DOMAIN pending' : pending'[j] = pending[old[j]]
    BY <2>1, Filled
  <2> QED
    BY <2>1, <2>2 DEF DecisionInv
<1>5. CASE UNCHANGED vars
  BY <1>5 DEF vars, DecisionInv
<1> QED
  BY <1>1, <1>2, <1>3, <1>4, <1>5 DEF Next

LEMMA DecisionAlways == Spec => []DecisionInv
<1>1. Init => DecisionInv
  BY DEF Init, DecisionInv
<1> QED
  BY <1>1, DecisionStep, BookAlways, PTL DEF Spec

\* A claim that is not yet in effect is not active, and scores nothing.
LEMMA LaterClaimsDoNotCount ==
  ASSUME NEW s
  PROVE  ClaimScore(KnownClaims, s, today) = ClaimScore(claims, s, today)
<1>1. ASSUME NEW c
      PROVE  c \in ActiveClaims(KnownClaims, s, today) <=> c \in ActiveClaims(claims, s, today)
  <2>1. <<c, s>>[1] = c
    OBVIOUS
  <2>2. c \in KnownClaims <=> c \in claims /\ EffectiveDate(c) <= today
    BY DEF KnownClaims
  <2>3. ASSUME c \in claims, c \in KnownClaims
        PROVE  <<c, s>> \in Signals(KnownClaims) <=> <<c, s>> \in Signals(claims)
    BY <2>1, <2>3 DEF Signals
  <2> QED
    BY <2>2, <2>3 DEF ActiveClaims, Live
<1>2. ActiveClaims(KnownClaims, s, today) = ActiveClaims(claims, s, today)
  BY <1>1
<1> QED
  BY <1>2 DEF ClaimScore

\* Two views that agree on today's closes and on those at the start of the lookback,
\* and two sets of claims with the same scores, lead to the same selection.
LEMMA SelectionReads ==
  ASSUME NEW v, NEW w, NEW c, NEW d, NEW day,
         \A s \in Universe : Now(v, s) = Now(w, s) /\ Past(v, s) = Past(w, s),
         \A s \in Universe : ClaimScore(c, s, day) = ClaimScore(d, s, day)
  PROVE  Select(v, c, day) = Select(w, d, day)
<1>1. \A s \in Universe : PassesGates(v, s) <=> PassesGates(w, s)
  BY DEF PassesGates
<1>2. Eligible(v, c, day) = Eligible(w, d, day)
  BY <1>1 DEF Eligible
<1> DEFINE pool == Eligible(v, c, day)
<1>3. pool \subseteq Universe
  BY DEF Eligible
<1> HIDE DEF pool
<1>4. \A s, t \in Universe : Slower(v, s, t) <=> Slower(w, s, t)
  BY DEF Slower
<1>5. ASSUME NEW s \in Universe PROVE MomentumRank(v, pool, s) = MomentumRank(w, pool, s)
  <2>1. {t \in pool : Slower(v, t, s)} = {t \in pool : Slower(w, t, s)}
    BY <1>3, <1>4
  <2>2. {t \in pool : ~Slower(v, t, s) /\ ~Slower(v, s, t)}
          = {t \in pool : ~Slower(w, t, s) /\ ~Slower(w, s, t)}
    BY <1>3, <1>4
  <2> QED
    BY <2>1, <2>2 DEF MomentumRank
<1>6. \A s \in Universe : Score(v, pool, c, s, day) = Score(w, pool, d, s, day)
  BY <1>5 DEF Score
<1>7. \A s, t \in Universe : AheadByScore(v, pool, c, t, s, day) <=> AheadByScore(w, pool, d, t, s, day)
  BY <1>6 DEF AheadByScore
<1>8. ASSUME NEW s \in pool
      PROVE  {t \in pool : AheadByScore(v, pool, c, t, s, day)}
               = {t \in pool : AheadByScore(w, pool, d, t, s, day)}
  BY <1>3, <1>7
<1>9. Select(v, c, day) = {s \in pool : Cardinality({t \in pool : AheadByScore(v, pool, c, t, s, day)})
                                          < PositionCount(Cardinality(pool))}
  BY DEF Select, pool
<1>10. Select(w, d, day) = {s \in pool : Cardinality({t \in pool : AheadByScore(w, pool, d, t, s, day)})
                                           < PositionCount(Cardinality(pool))}
  BY <1>2 DEF Select, pool
<1> QED
  BY <1>8, <1>9, <1>10

\* For every lookback, price history and set of claims, today's decision would have
\* been the same had the later bars and the claims not yet in effect never existed.
THEOREM NothingAheadIsRead == Spec => []NoLookAhead
<1>1. BookInv /\ DecisionInv => NoLookAhead
  <2> SUFFICES ASSUME BookInv, DecisionInv, NEW i \in DOMAIN pending,
                      pending[i].kind = "rebalance", pending[i].decided = today
               PROVE  pending[i].symbols = Select(KnownBars, KnownClaims, today)
    BY DEF NoLookAhead, Orders
  <2>1. bars \in [Window -> Closes]
    BY DEF BookInv, EngineTypeOK
  <2>2. KnownBars[0] = bars[0] /\ KnownBars[-Lookback] = bars[-Lookback]
    BY <2>1, WindowHas DEF KnownBars
  <2>3. \A s \in Universe : Now(KnownBars, s) = Now(bars, s) /\ Past(KnownBars, s) = Past(bars, s)
    BY <2>2 DEF Now, Past
  <2>4. \A s \in Universe : ClaimScore(KnownClaims, s, today) = ClaimScore(claims, s, today)
    BY LaterClaimsDoNotCount
  <2>5. Select(KnownBars, KnownClaims, today) = Select(bars, claims, today)
    BY <2>3, <2>4, SelectionReads
  <2> QED
    BY <2>5 DEF DecisionInv
<1> QED
  BY <1>1, BookAlways, DecisionAlways, PTL

-----------------------------------------------------------------------------
(***************************************************************************)
(* Preference.  Momentum is compared by cross-multiplied fractions, ranks  *)
(* are counted, scores are sums of products: each preserves the order.     *)
(***************************************************************************)
LEMMA MaxOfTwo ==
  ASSUME NEW a \in Int, NEW b \in Int
  PROVE  Max({a, b}) = IF a >= b THEN a ELSE b
<1> DEFINE m == IF a >= b THEN a ELSE b
<1>1. m \in {a, b} /\ \A y \in {a, b} : m >= y
  OBVIOUS
<1>2. ASSUME NEW x \in {a, b}, \A y \in {a, b} : x >= y PROVE x = m
  BY <1>2
<1> HIDE DEF m
<1>3. Max({a, b}) = m
  BY <1>1, <1>2 DEF Max
<1> QED
  BY <1>3 DEF m

LEMMA MinOfTwo ==
  ASSUME NEW a \in Int, NEW b \in Int
  PROVE  Min({a, b}) = IF a <= b THEN a ELSE b
<1> DEFINE m == IF a <= b THEN a ELSE b
<1>1. m \in {a, b} /\ \A y \in {a, b} : m =< y
  OBVIOUS
<1>2. ASSUME NEW x \in {a, b}, \A y \in {a, b} : x =< y PROVE x = m
  BY <1>2
<1> HIDE DEF m
<1>3. Min({a, b}) = m
  BY <1>1, <1>2 DEF Min
<1> QED
  BY <1>3 DEF m

LEMMA ScoresAreNumbers ==
  ASSUME NEW cited \in SUBSET ClaimPool, NEW s, NEW day
  PROVE  ClaimScore(cited, s, day) \in Int
<1> DEFINE active == ActiveClaims(cited, s, day)
<1>1. active \in SUBSET ClaimPool
  BY DEF ActiveClaims
<1>2. IsFiniteSet(active)
  BY <1>1, ClaimsAssumption, FS_Subset
<1>3. IsFiniteSet(1 .. Certain)
  <2>1. 1 \in Int /\ Certain \in Int
    BY DEF Certain
  <2> QED
    BY <2>1, FS_Interval
<1>4. IsFiniteSet(active \X (1 .. Certain))
  BY <1>2, <1>3, FS_Product
<1> HIDE DEF active
<1>5. ASSUME NEW sign PROVE Cardinality(Units(active, sign)) \in Nat
  <2>1. Units(active, sign) \in SUBSET (active \X (1 .. Certain))
    BY DEF Units
  <2>2. IsFiniteSet(Units(active, sign))
    BY <1>4, <2>1, FS_Subset
  <2> QED
    BY <2>2, FS_CardinalityType
<1> DEFINE net == Cardinality(Units(active, 1)) - Cardinality(Units(active, -1))
<1>6. net \in Int
  BY <1>5
<1> HIDE DEF net
<1>7. Min({Certain, net}) \in Int
  BY <1>6, MinOfTwo DEF Certain
<1>8. Max({-Certain, Min({Certain, net})}) \in Int
  <2> DEFINE m == Min({Certain, net})
  <2> HIDE DEF m
  <2>1. m \in Int /\ -Certain \in Int
    BY <1>7 DEF m, Certain
  <2>2. Max({-Certain, m}) \in Int
    BY <2>1, MaxOfTwo
  <2> QED
    BY <2>2 DEF m
<1> QED
  BY <1>8 DEF ClaimScore, active, net

LEMMA CountsAreNumbers == ASSUME NEW n \in Nat PROVE PositionCount(n) \in Int
<1> DEFINE count == Min({n, TopN})
<1>1. TopN \in Int /\ FullBook \in Int /\ n \in Int
  OBVIOUS
<1>2. count \in Int
  BY <1>1, MinOfTwo
<1> HIDE DEF count
<1> DEFINE most == Max({count, FullBook})
<1>3. most \in Int
  BY <1>1, <1>2, MaxOfTwo
<1> HIDE DEF most
<1>4. Min({n, most}) \in Int
  BY <1>1, <1>3, MinOfTwo
<1> QED
  BY <1>2, <1>4 DEF PositionCount, count, most

LEMMA Scaled ==
  ASSUME NEW k \in Nat, NEW a \in Int, NEW b \in Int
  PROVE  /\ k * a \in Int /\ k * b \in Int
         /\ a <= b => k * a <= k * b
         /\ k # 0 => (a < b <=> k * a < k * b)
<1>1. k * a \in Int /\ k * b \in Int
  OBVIOUS
<1>2. a <= b => k * a <= k * b
  BY Z3
<1>3. k # 0 /\ a < b => k * a < k * b
  BY Z3
<1>4. k * b <= k * a \/ k * a < k * b
  BY <1>1
<1>5. k # 0 /\ k * a < k * b => a < b
  <2>1. b <= a => k * b <= k * a
    BY Z3
  <2> QED
    BY <1>1, <2>1
<1> QED
  BY <1>1, <1>2, <1>3, <1>5

LEMMA FractionsCompare ==
  ASSUME NEW na \in Nat, NEW nb \in Nat, NEW nc \in Nat,
         NEW pa \in Nat \ {0}, NEW pb \in Nat \ {0}, NEW pc \in Nat \ {0},
         na * pb < nb * pa, nb * pc <= nc * pb
  PROVE  na * pc < nc * pa
<1>1. /\ na * pb \in Int /\ nb * pa \in Int /\ nb * pc \in Int /\ nc * pb \in Int
      /\ na * pc \in Int /\ nc * pa \in Int
  OBVIOUS
<1>2. pc * (na * pb) < pc * (nb * pa)
  BY <1>1, Scaled
<1>3. pa * (nb * pc) <= pa * (nc * pb)
  BY <1>1, Scaled
<1>4. /\ pc * (nb * pa) = pa * (nb * pc)
      /\ pc * (na * pb) = pb * (na * pc)
      /\ pa * (nc * pb) = pb * (nc * pa)
  OBVIOUS
<1>5. pb * (na * pc) < pb * (nc * pa)
  <2>1. /\ pc * (na * pb) \in Int /\ pc * (nb * pa) \in Int /\ pa * (nb * pc) \in Int
        /\ pa * (nc * pb) \in Int
    BY <1>1
  <2> QED
    BY <1>2, <1>3, <1>4, <2>1
<1> QED
  BY <1>1, <1>5, Scaled

\* Symbols with closes today and at the start of the lookback.
Quoted(view, pool) ==
  /\ pool \subseteq Universe
  /\ \A s \in pool : Now(view, s) \in Nat \ {0} /\ Past(view, s) \in Nat \ {0}

LEMMA EligibleAreQuoted ==
  ASSUME NEW view \in [Window -> Closes], NEW cited, NEW day
  PROVE  Quoted(view, Eligible(view, cited, day)) /\ IsFiniteSet(Eligible(view, cited, day))
<1> DEFINE pool == Eligible(view, cited, day)
<1>1. pool \in SUBSET Universe
  BY DEF Eligible
<1>2. IsFiniteSet(pool)
  BY <1>1, FS_Subset
<1>3. ASSUME NEW s \in pool
      PROVE  Now(view, s) \in Nat \ {0} /\ Past(view, s) \in Nat \ {0}
  <2>1. s \in Universe /\ Now(view, s) # NoBar /\ Past(view, s) # NoBar
    BY DEF Eligible
  <2>2. view[0] \in Closes /\ view[-Lookback] \in Closes
    BY WindowHas
  <2>3. Now(view, s) \in Prices \cup {NoBar} /\ Past(view, s) \in Prices \cup {NoBar}
    BY <2>1, <2>2 DEF Closes, Now, Past
  <2>4. \A p \in Prices \cup {NoBar} : p # NoBar => p \in Nat \ {0}
    OBVIOUS
  <2> QED
    BY <2>1, <2>3, <2>4
<1> QED
  BY <1>1, <1>2, <1>3 DEF Quoted

\* Being slower is a weak order.
LEMMA SlowerOrder ==
  ASSUME NEW view, NEW pool, Quoted(view, pool), NEW a \in pool, NEW b \in pool, NEW c \in pool
  PROVE  /\ ~Slower(view, a, a)
         /\ ~(Slower(view, a, b) /\ Slower(view, b, a))
         /\ Slower(view, a, b) /\ ~Slower(view, c, b) => Slower(view, a, c)
<1> DEFINE n(s) == Now(view, s)
           p(s) == Past(view, s)
<1>1. /\ n(a) \in Nat \ {0} /\ n(b) \in Nat \ {0} /\ n(c) \in Nat \ {0}
      /\ p(a) \in Nat \ {0} /\ p(b) \in Nat \ {0} /\ p(c) \in Nat \ {0}
  BY DEF Quoted
<1>2. \A s, t : Slower(view, s, t) <=> n(s) * p(t) < n(t) * p(s)
  BY DEF Slower
<1> HIDE DEF n, p
<1>3. n(a) * p(b) \in Int /\ n(b) * p(a) \in Int /\ n(c) * p(b) \in Int /\ n(b) * p(c) \in Int
      /\ n(a) * p(a) \in Int
  BY <1>1
<1>4. ~Slower(view, a, a) /\ ~(Slower(view, a, b) /\ Slower(view, b, a))
  BY <1>2, <1>3
<1>5. ASSUME Slower(view, a, b), ~Slower(view, c, b) PROVE Slower(view, a, c)
  <2>1. n(a) * p(b) < n(b) * p(a) /\ n(b) * p(c) <= n(c) * p(b)
    BY <1>2, <1>3, <1>5
  <2>2. n(a) * p(c) < n(c) * p(a)
    BY <1>1, <2>1, FractionsCompare
  <2> QED
    BY <1>2, <2>2
<1> QED
  BY <1>4, <1>5

Below(view, pool, s) == {t \in pool : Slower(view, t, s)}
Tied(view, pool, s) == {t \in pool : ~Slower(view, t, s) /\ ~Slower(view, s, t)}

\* _momentum_ranks keeps the order of the returns, and ties share their rank.
LEMMA RanksFollowMomentum ==
  ASSUME NEW view, NEW pool, Quoted(view, pool), IsFiniteSet(pool), NEW s \in pool, NEW t \in pool
  PROVE  /\ MomentumRank(view, pool, s) \in Int /\ MomentumRank(view, pool, t) \in Int
         /\ Slower(view, t, s) => MomentumRank(view, pool, t) < MomentumRank(view, pool, s)
         /\ ~Slower(view, s, t) => MomentumRank(view, pool, t) <= MomentumRank(view, pool, s)
<1> DEFINE B(x) == Below(view, pool, x)
           T(x) == Tied(view, pool, x)
<1>1. ASSUME NEW x \in pool
      PROVE  /\ IsFiniteSet(B(x)) /\ IsFiniteSet(T(x)) /\ B(x) \cap T(x) = {}
             /\ Cardinality(B(x)) \in Nat /\ Cardinality(T(x)) \in Nat /\ Cardinality(T(x)) # 0
  <2>1. B(x) \in SUBSET pool /\ T(x) \in SUBSET pool /\ B(x) \cap T(x) = {}
    BY DEF Below, Tied
  <2>2. IsFiniteSet(B(x)) /\ IsFiniteSet(T(x))
    BY <2>1, FS_Subset
  <2>3. x \in T(x)
    BY SlowerOrder DEF Tied
  <2> HIDE DEF B, T
  <2> QED
    BY <2>1, <2>2, <2>3, FS_CardinalityType, FS_EmptySet
<1>2. \A x : MomentumRank(view, pool, x) = 2 * Cardinality(B(x)) + Cardinality(T(x)) - Cardinality(pool)
  BY DEF MomentumRank, Below, Tied
<1>3. Cardinality(pool) \in Nat
  BY FS_CardinalityType
<1>4. ASSUME Slower(view, t, s)
      PROVE  Cardinality(B(t)) + Cardinality(T(t)) <= Cardinality(B(s))
  <2>1. B(t) \cup T(t) \in SUBSET B(s)
    <3> SUFFICES ASSUME NEW u \in pool, Slower(view, u, t) \/ ~Slower(view, t, u)
                 PROVE  Slower(view, u, s)
      BY DEF Below, Tied
    <3>1. ~Slower(view, s, t)
      BY <1>4, SlowerOrder
    <3>2. CASE Slower(view, u, t)
      BY <3>1, <3>2, SlowerOrder
    <3>3. CASE ~Slower(view, t, u)
      <4>1. ASSUME ~Slower(view, u, s) PROVE FALSE
        <5>1. Slower(view, t, u)
          BY <1>4, <4>1, SlowerOrder
        <5> QED
          BY <3>3, <5>1
      <4> QED
        BY <4>1
    <3> QED
      BY <3>2, <3>3
  <2> HIDE DEF B, T
  <2>2. Cardinality(B(t) \cup T(t)) <= Cardinality(B(s))
    BY <1>1, <2>1, FS_Subset
  <2>3. Cardinality(B(t) \cup T(t)) = Cardinality(B(t)) + Cardinality(T(t)) - Cardinality(B(t) \cap T(t))
    BY <1>1, FS_Union
  <2>4. Cardinality(B(t) \cap T(t)) = 0
    BY <1>1, FS_EmptySet
  <2> QED
    BY <1>1, <2>2, <2>3, <2>4
<1>5. ASSUME ~Slower(view, s, t), ~Slower(view, t, s) PROVE B(s) = B(t) /\ T(s) = T(t)
  <2>1. ASSUME NEW u \in pool
        PROVE  /\ Slower(view, u, s) <=> Slower(view, u, t)
               /\ Slower(view, s, u) <=> Slower(view, t, u)
    <3>1. Slower(view, u, s) => Slower(view, u, t)
      BY <1>5, SlowerOrder
    <3>2. Slower(view, u, t) => Slower(view, u, s)
      BY <1>5, SlowerOrder
    <3>3. Slower(view, s, u) => Slower(view, t, u)
      <4>1. Slower(view, s, u) /\ ~Slower(view, t, u) => Slower(view, s, t)
        BY SlowerOrder
      <4> QED
        BY <1>5, <4>1
    <3>4. Slower(view, t, u) => Slower(view, s, u)
      <4>1. Slower(view, t, u) /\ ~Slower(view, s, u) => Slower(view, t, s)
        BY SlowerOrder
      <4> QED
        BY <1>5, <4>1
    <3> QED
      BY <3>1, <3>2, <3>3, <3>4
  <2> QED
    BY <2>1 DEF Below, Tied
<1> HIDE DEF B, T
<1>6. Slower(view, t, s) => MomentumRank(view, pool, t) < MomentumRank(view, pool, s)
  BY <1>1, <1>2, <1>3, <1>4
<1>7. ~Slower(view, s, t) /\ ~Slower(view, t, s)
        => MomentumRank(view, pool, t) = MomentumRank(view, pool, s)
  BY <1>2, <1>5
<1>8. MomentumRank(view, pool, s) \in Int /\ MomentumRank(view, pool, t) \in Int
  BY <1>1, <1>2, <1>3
<1> QED
  BY <1>6, <1>7, <1>8

\* The score never prefers less momentum with no more support, nor, when support
\* counts, less support with no more momentum.
LEMMA ScoresFollow ==
  ASSUME NEW view, NEW pool, Quoted(view, pool), IsFiniteSet(pool), NEW cited \in SUBSET ClaimPool,
         NEW day, NEW s \in pool, NEW t \in pool
  PROVE  /\ Score(view, pool, cited, s, day) \in Int /\ Score(view, pool, cited, t, day) \in Int
         /\ Slower(view, t, s) /\ ClaimScore(cited, s, day) >= ClaimScore(cited, t, day)
              => Score(view, pool, cited, s, day) > Score(view, pool, cited, t, day)
         /\ SignalWeight # 0 /\ ~Slower(view, s, t)
            /\ ClaimScore(cited, s, day) > ClaimScore(cited, t, day)
              => Score(view, pool, cited, s, day) > Score(view, pool, cited, t, day)
<1> DEFINE rs == MomentumRank(view, pool, s)
           rt == MomentumRank(view, pool, t)
           cs == ClaimScore(cited, s, day)
           ct == ClaimScore(cited, t, day)
           k == SignalWeight * Spread(pool)
<1>1. cs \in Int /\ ct \in Int
  BY ScoresAreNumbers
<1>2. /\ rs \in Int /\ rt \in Int
      /\ Slower(view, t, s) => rt < rs
      /\ ~Slower(view, s, t) => rt <= rs
  BY RanksFollowMomentum
<1>3. Spread(pool) \in Nat \ {0}
  <2> DEFINE m == Cardinality(pool) - 1
  <2>1. m \in Int
    BY FS_CardinalityType
  <2> HIDE DEF m
  <2>2. Max({1, m}) = IF 1 >= m THEN 1 ELSE m
    BY <2>1, MaxOfTwo
  <2> QED
    BY <2>1, <2>2 DEF Spread, m
<1>4. k \in Nat /\ (SignalWeight # 0 => k # 0)
  BY <1>3
<1>5. /\ Score(view, pool, cited, s, day) = 200 * rs + k * cs
      /\ Score(view, pool, cited, t, day) = 200 * rt + k * ct
  <2>1. 100 * Certain = 200
    BY DEF Certain
  <2> QED
    BY <2>1 DEF Score
<1> HIDE DEF rs, rt, cs, ct, k
<1>6. k * cs \in Int /\ k * ct \in Int /\ (ct <= cs => k * ct <= k * cs)
      /\ (k # 0 /\ ct < cs => k * ct < k * cs)
  BY <1>1, <1>4, Scaled
<1>7. /\ 200 * rs + k * cs \in Int /\ 200 * rt + k * ct \in Int
      /\ rt < rs /\ ct <= cs => 200 * rs + k * cs > 200 * rt + k * ct
      /\ k # 0 /\ rt <= rs /\ ct < cs => 200 * rs + k * cs > 200 * rt + k * ct
  <2> DEFINE ks == k * cs
             kt == k * ct
  <2>1. /\ ks \in Int /\ kt \in Int /\ (ct <= cs => kt <= ks) /\ (k # 0 /\ ct < cs => kt < ks)
    BY <1>6
  <2> HIDE DEF ks, kt
  <2>2. /\ 200 * rs + ks \in Int /\ 200 * rt + kt \in Int
        /\ rt < rs /\ ct <= cs => 200 * rs + ks > 200 * rt + kt
        /\ k # 0 /\ rt <= rs /\ ct < cs => 200 * rs + ks > 200 * rt + kt
    BY <1>2, <2>1
  <2> QED
    BY <2>2 DEF ks, kt
<1>8. (cs >= ct <=> ct <= cs) /\ (cs > ct <=> ct < cs)
  BY <1>1
<1> QED
  BY <1>2, <1>4, <1>5, <1>7, <1>8 DEF cs, ct

\* Who is ahead of a chosen symbol is chosen: fewer are ahead of it.
LEMMA SelectionFollowsScore ==
  ASSUME NEW view \in [Window -> Closes], NEW cited \in SUBSET ClaimPool, NEW day,
         NEW t \in Select(view, cited, day),
         NEW s \in Eligible(view, cited, day) \ Select(view, cited, day)
  PROVE  LET pool == Eligible(view, cited, day)
         IN ~(Score(view, pool, cited, s, day) > Score(view, pool, cited, t, day))
<1> DEFINE pool == Eligible(view, cited, day)
           score(x) == Score(view, pool, cited, x, day)
           A(x) == {u \in pool : AheadByScore(view, pool, cited, u, x, day)}
<1> SUFFICES ASSUME score(s) > score(t) PROVE FALSE
  OBVIOUS
<1>1. Quoted(view, pool) /\ IsFiniteSet(pool) /\ t \in pool /\ s \in pool /\ pool \subseteq Universe
  BY EligibleAreQuoted DEF Select, Quoted
<1>2. /\ Cardinality(A(t)) < PositionCount(Cardinality(pool))
      /\ ~(Cardinality(A(s)) < PositionCount(Cardinality(pool)))
  BY <1>1 DEF Select
<1> HIDE DEF pool
<1>3. \A x \in pool : score(x) \in Int
  BY <1>1, ScoresFollow
<1>4. \A u, x \in pool : u \in A(x) <=> score(u) > score(x) \/ (score(u) = score(x) /\ u < x)
  BY DEF AheadByScore
<1>5. A(s) \in SUBSET pool /\ A(t) \in SUBSET pool
  OBVIOUS
<1> HIDE DEF score, A
<1>6. IsFiniteSet(A(s)) /\ IsFiniteSet(A(t))
  BY <1>1, <1>5, FS_Subset
<1>7. s \notin A(s)
  <2>1. s \in Nat /\ score(s) \in Int
    BY <1>1, <1>3
  <2>2. ~(s < s) /\ ~(score(s) > score(s))
    BY <2>1
  <2> QED
    BY <1>1, <1>4, <2>2
<1>8. A(s) \cup {s} \in SUBSET A(t)
  <2>1. s \in A(t)
    BY <1>1, <1>4
  <2>2. ASSUME NEW u \in A(s) PROVE u \in A(t)
    <3>1. u \in pool /\ (score(u) > score(s) \/ score(u) = score(s))
      BY <1>1, <1>4, <1>5
    <3>2. score(u) > score(t)
      <4>1. score(u) \in Int /\ score(s) \in Int /\ score(t) \in Int
        BY <1>1, <1>3, <3>1
      <4> QED
        BY <3>1, <4>1
    <3> QED
      BY <1>1, <1>4, <3>1, <3>2
  <2> QED
    BY <2>1, <2>2
<1>9. Cardinality(A(s) \cup {s}) = Cardinality(A(s)) + 1
  BY <1>6, <1>7, FS_AddElement
<1>10. Cardinality(A(s) \cup {s}) <= Cardinality(A(t))
  BY <1>6, <1>8, FS_Subset
<1>11. Cardinality(A(s)) \in Nat /\ Cardinality(A(t)) \in Nat /\ PositionCount(Cardinality(pool)) \in Int
  <2>1. Cardinality(pool) \in Nat
    BY <1>1, FS_CardinalityType
  <2> QED
    BY <1>6, <2>1, FS_CardinalityType, CountsAreNumbers
<1> QED
  BY <1>2, <1>9, <1>10, <1>11

\* For every universe, lookback, weight and number of positions, and every history
\* and set of claims, a decision passes nothing over for a symbol with no more
\* momentum and no more support.
THEOREM TheBetterIsChosen == Spec => []NoBetterLeftOut
<1>1. BookInv /\ DecisionInv => NoBetterLeftOut
  <2> DEFINE pool == Eligible(bars, claims, today)
  <2> SUFFICES ASSUME BookInv, DecisionInv, NEW i \in DOMAIN pending,
                      pending[i].kind = "rebalance", pending[i].decided = today,
                      NEW t \in pending[i].symbols, NEW s \in pool \ pending[i].symbols
               PROVE  /\ ~(/\ Slower(bars, t, s)
                            /\ ClaimScore(claims, s, today) >= ClaimScore(claims, t, today))
                      /\ SignalWeight # 0 =>
                           ~(/\ ~Slower(bars, s, t)
                             /\ ClaimScore(claims, s, today) > ClaimScore(claims, t, today))
    BY DEF NoBetterLeftOut, Orders
  <2>1. bars \in [Window -> Closes] /\ claims \in SUBSET ClaimPool
    BY DEF BookInv, EngineTypeOK
  <2>2. pending[i].symbols = Select(bars, claims, today)
    BY DEF DecisionInv
  <2>3. ~(Score(bars, pool, claims, s, today) > Score(bars, pool, claims, t, today))
    BY <2>1, <2>2, SelectionFollowsScore
  <2>4. t \in pool
    BY <2>2 DEF Select
  <2>5. Quoted(bars, pool) /\ IsFiniteSet(pool)
    BY <2>1, EligibleAreQuoted
  <2> HIDE DEF pool
  <2> QED
    BY <2>1, <2>3, <2>4, <2>5, ScoresFollow
<1> QED
  BY <1>1, BookAlways, DecisionAlways, PTL

-----------------------------------------------------------------------------
(***************************************************************************)
(* Sums over the universe.  A property of sums is proved by induction on   *)
(* the subsets summed over: the sets for which it holds are all of them.   *)
(***************************************************************************)
Pick(T) == CHOOSE x \in T : TRUE

LEMMA Picked == ASSUME NEW T, T # {} PROVE Pick(T) \in T
  BY DEF Pick

\* A set of numbers has a least one.
LEMMA LeastNumber ==
  ASSUME NEW T \in SUBSET Nat, T # {}
  PROVE  \E x \in T : \A y \in T : x <= y
<1> DEFINE R == {ss \in Nat \X Nat : ss[1] < ss[2]}
<1>1. IsWellFoundedOn(R, Nat)
  BY NatLessThanWellFounded DEF OpToRel
<1> HIDE DEF R
<1>2. PICK x \in T : \A y \in T : <<y, x>> \notin R
  BY <1>1, WFMin
<1>3. ASSUME NEW y \in T PROVE x <= y
  <2>1. ~(y < x)
    BY <1>2 DEF R
  <2> QED
    BY <2>1
<1> QED
  BY <1>3

\* What holds of {} and of a set without the element chosen from it holds of all.
LEMMA SubsetInduction ==
  ASSUME NEW S, IsFiniteSet(S), NEW good \in SUBSET SUBSET S, {} \in good,
         \A T \in SUBSET S : T # {} /\ T \ {Pick(T)} \in good => T \in good
  PROVE  good = SUBSET S
<1> SUFFICES ASSUME (SUBSET S) \ good # {} PROVE FALSE
  OBVIOUS
<1> DEFINE sizes == {Cardinality(T) : T \in (SUBSET S) \ good}
<1>1. \A T \in SUBSET S : IsFiniteSet(T) /\ Cardinality(T) \in Nat
  BY FS_Subset, FS_CardinalityType
<1>2. sizes \in SUBSET Nat /\ sizes # {}
  BY <1>1
<1>3. PICK n \in sizes : \A m \in sizes : n <= m
  BY <1>2, LeastNumber
<1>4. PICK T \in (SUBSET S) \ good : n = Cardinality(T)
  BY <1>3
<1> DEFINE x == Pick(T)
<1>5. T # {} /\ x \in T
  BY Picked
<1> HIDE DEF x
<1>6. Cardinality(T \ {x}) = Cardinality(T) - 1
  BY <1>1, <1>5, FS_RemoveElement
<1>7. T \ {x} \in good
  <2>1. T \ {x} \in SUBSET S
    OBVIOUS
  <2>2. ~(n <= Cardinality(T \ {x}))
    BY <1>1, <1>4, <1>6
  <2> QED
    BY <1>3, <2>1, <2>2
<1> QED
  BY <1>5, <1>7 DEF x

\* One step of the sum of the amounts in T, from the sums of smaller sets.
SumStep(a, g, T) == IF T = {} THEN 0 ELSE a[Pick(T)] + g[T \ {Pick(T)}]

Sums(a) == CHOOSE g : g = [T \in SUBSET Universe |-> SumStep(a, g, T)]

UpTo(n) == {T \in SUBSET Universe : Cardinality(T) <= n}

\* There is such a function: on the sets of at most n elements, for each n.
LEMMA SumsExist ==
  ASSUME NEW a, NEW n \in Nat
  PROVE  \E g : g = [T \in UpTo(n) |-> SumStep(a, g, T)]
<1> DEFINE bad == {k \in Nat : ~ \E g : g = [T \in UpTo(k) |-> SumStep(a, g, T)]}
<1> SUFFICES ASSUME bad # {} PROVE FALSE
  OBVIOUS
<1>1. PICK k \in bad : \A m \in bad : k <= m
  <2>1. bad \in SUBSET Nat
    OBVIOUS
  <2> HIDE DEF bad
  <2> QED
    BY <2>1, LeastNumber
<1>2. \A T \in SUBSET Universe : IsFiniteSet(T) /\ Cardinality(T) \in Nat
  BY FS_Subset, FS_CardinalityType
<1>3. CASE k = 0
  <2> DEFINE h == [T \in UpTo(k) |-> 0]
  <2>1. \A T \in UpTo(k) : T = {}
    BY <1>2, <1>3, FS_EmptySet DEF UpTo
  <2>2. h = [T \in UpTo(k) |-> SumStep(a, h, T)]
    BY <2>1 DEF SumStep
  <2> QED
    BY <1>1, <2>2
<1>4. CASE k # 0
  <2>1. k - 1 \in Nat /\ ~(k <= k - 1)
    BY <1>4
  <2>2. k - 1 \notin bad
    BY <1>1, <2>1
  <2>3. PICK g : g = [T \in UpTo(k - 1) |-> SumStep(a, g, T)]
    BY <2>1, <2>2
  <2> DEFINE h == [T \in UpTo(k) |-> SumStep(a, g, T)]
  <2>4. ASSUME NEW T \in UpTo(k), T # {} PROVE T \ {Pick(T)} \in UpTo(k - 1)
    <3>1. Pick(T) \in T /\ T \in SUBSET Universe /\ Cardinality(T) <= k
      BY <2>4, Picked DEF UpTo
    <3>2. Cardinality(T \ {Pick(T)}) = Cardinality(T) - 1
      BY <1>2, <3>1, FS_RemoveElement
    <3>3. Cardinality(T \ {Pick(T)}) <= k - 1
      <4>1. Cardinality(T) \in Nat /\ k \in Nat
        BY <1>2, <3>1
      <4> QED
        BY <3>1, <3>2, <4>1
    <3> QED
      BY <3>1, <3>3 DEF UpTo
  <2>5. ASSUME NEW T \in UpTo(k - 1) PROVE T \in UpTo(k) /\ h[T] = g[T]
    <3>1. T \in UpTo(k)
      BY <1>2, <2>1 DEF UpTo
    <3>2. h[T] = SumStep(a, g, T)
      BY <3>1
    <3> QED
      BY <2>3, <3>1, <3>2
  <2>6. ASSUME NEW T \in UpTo(k) PROVE SumStep(a, g, T) = SumStep(a, h, T)
    <3> HIDE DEF h
    <3> QED
      BY <2>4, <2>5 DEF SumStep
  <2>7. h = [T \in UpTo(k) |-> SumStep(a, h, T)]
    BY <2>6
  <2> QED
    BY <1>1, <2>7
<1> QED
  BY <1>3, <1>4

LEMMA SumsDef ==
  ASSUME NEW a
  PROVE  /\ Total(a) = Sums(a)[Universe]
         /\ \A T \in SUBSET Universe : Sums(a)[T] = SumStep(a, Sums(a), T)
<1>1. Total(a) = Sums(a)[Universe]
  BY DEF Total, Sums, SumStep, Pick, MapThenSumSet, MapThenFoldSet
<1>2. UpTo(Cardinality(Universe)) = SUBSET Universe /\ Cardinality(Universe) \in Nat
  BY FS_Subset, FS_CardinalityType DEF UpTo
<1>3. \E g : g = [T \in SUBSET Universe |-> SumStep(a, g, T)]
  <2>1. PICK g : g = [T \in UpTo(Cardinality(Universe)) |-> SumStep(a, g, T)]
    BY <1>2, SumsExist
  <2>2. g = [T \in SUBSET Universe |-> SumStep(a, g, T)]
    BY <1>2, <2>1, Zenon
  <2> QED
    BY <2>2
<1>4. Sums(a) = [T \in SUBSET Universe |-> SumStep(a, Sums(a), T)]
  BY <1>3 DEF Sums
<1> QED
  BY <1>1, <1>4

LEMMA SumsUnfold ==
  ASSUME NEW a, NEW T \in SUBSET Universe, T # {}
  PROVE  /\ Sums(a)[T] = a[Pick(T)] + Sums(a)[T \ {Pick(T)}]
         /\ Pick(T) \in T /\ Pick(T) \in Universe
         /\ T \ {Pick(T)} \in SUBSET Universe
<1>1. Pick(T) \in T
  BY Picked
<1> QED
  BY <1>1, SumsDef DEF SumStep

LEMMA AllSubsets ==
  ASSUME NEW good \in SUBSET SUBSET Universe, {} \in good,
         \A T \in SUBSET Universe : T # {} /\ T \ {Pick(T)} \in good => T \in good
  PROVE  good = SUBSET Universe
  BY SubsetInduction

LEMMA SumsEmpty == ASSUME NEW a PROVE Sums(a)[{}] = 0
  BY SumsDef DEF SumStep

LEMMA SumsAreNumbers ==
  ASSUME NEW a \in [Universe -> Int]
  PROVE  \A T \in SUBSET Universe : Sums(a)[T] \in Int
<1> DEFINE good == {T \in SUBSET Universe : Sums(a)[T] \in Int}
<1>1. {} \in good
  BY SumsEmpty
<1>2. ASSUME NEW T \in SUBSET Universe, T # {}, T \ {Pick(T)} \in good PROVE T \in good
  <2>1. Sums(a)[T] = a[Pick(T)] + Sums(a)[T \ {Pick(T)}] /\ Pick(T) \in Universe
    BY <1>2, SumsUnfold
  <2>2. a[Pick(T)] \in Int /\ Sums(a)[T \ {Pick(T)}] \in Int
    BY <1>2, <2>1
  <2> QED
    BY <2>1, <2>2
<1>3. good \in SUBSET SUBSET Universe
  OBVIOUS
<1> HIDE DEF good
<1>4. good = SUBSET Universe
  BY <1>1, <1>2, <1>3, AllSubsets
<1> QED
  BY <1>4 DEF good

\* A sum of numbers that are not negative is not negative.
LEMMA TotalOfNaturals ==
  ASSUME NEW a \in [Universe -> Nat]
  PROVE  Total(a) \in Nat
<1> DEFINE good == {T \in SUBSET Universe : Sums(a)[T] \in Nat}
<1>1. {} \in good
  BY SumsEmpty
<1>2. ASSUME NEW T \in SUBSET Universe, T # {}, T \ {Pick(T)} \in good PROVE T \in good
  <2>1. Sums(a)[T] = a[Pick(T)] + Sums(a)[T \ {Pick(T)}] /\ Pick(T) \in Universe
    BY <1>2, SumsUnfold
  <2>2. a[Pick(T)] \in Nat /\ Sums(a)[T \ {Pick(T)}] \in Nat
    BY <1>2, <2>1
  <2> QED
    BY <2>1, <2>2
<1>3. good \in SUBSET SUBSET Universe
  OBVIOUS
<1> HIDE DEF good
<1>4. good = SUBSET Universe
  BY <1>1, <1>2, <1>3, AllSubsets
<1> QED
  BY <1>4, SumsDef DEF good

\* A sum changes by what one of its terms changes.
LEMMA TotalOneChange ==
  ASSUME NEW a \in [Universe -> Int], NEW b \in [Universe -> Int], NEW s \in Universe,
         \A t \in Universe : t # s => b[t] = a[t]
  PROVE  Total(b) = Total(a) + (b[s] - a[s]) /\ Total(a) \in Int
<1> DEFINE change(T) == IF s \in T THEN b[s] - a[s] ELSE 0
           good == {T \in SUBSET Universe : Sums(b)[T] = Sums(a)[T] + change(T)}
<1>0. \A T \in SUBSET Universe : Sums(a)[T] \in Int /\ Sums(b)[T] \in Int
  BY SumsAreNumbers
<1>1. {} \in good
  BY SumsEmpty
<1>2. ASSUME NEW T \in SUBSET Universe, T # {}, T \ {Pick(T)} \in good PROVE T \in good
  <2> DEFINE x == Pick(T)
             R == T \ {x}
  <2>1. /\ Sums(a)[T] = a[x] + Sums(a)[R] /\ Sums(b)[T] = b[x] + Sums(b)[R]
        /\ x \in T /\ x \in Universe /\ R \in SUBSET Universe
    BY <1>2, SumsUnfold
  <2>2. Sums(b)[R] = Sums(a)[R] + change(R)
    BY <1>2
  <2>3. b[x] + change(R) = a[x] + change(T)
    <3>1. a[x] \in Int /\ b[x] \in Int /\ a[s] \in Int /\ b[s] \in Int
      BY <2>1
    <3>2. CASE x = s
      <4>1. change(R) = 0 /\ change(T) = b[s] - a[s]
        BY <2>1, <3>2
      <4> QED
        BY <3>1, <3>2, <4>1
    <3>3. CASE x # s
      <4>1. (s \in R <=> s \in T) /\ b[x] = a[x]
        BY <2>1, <3>3
      <4> QED
        BY <4>1
    <3> QED
      BY <3>2, <3>3
  <2>4. change(R) \in Int /\ change(T) \in Int /\ a[x] \in Int /\ b[x] \in Int
    <3>1. a[s] \in Int /\ b[s] \in Int
      OBVIOUS
    <3>2. a[x] \in Int /\ b[x] \in Int
      <4> HIDE DEF x
      <4> QED
        BY <2>1
    <3> QED
      BY <3>1, <3>2
  <2>5. Sums(a)[R] \in Int
    BY <1>0, <2>1
  <2> HIDE DEF change, R, x
  <2>6. Sums(b)[T] = Sums(a)[T] + change(T)
    BY <2>1, <2>2, <2>3, <2>4, <2>5
  <2> QED
    BY <2>6
<1>3. good \in SUBSET SUBSET Universe
  OBVIOUS
<1> HIDE DEF good
<1>4. good = SUBSET Universe
  BY <1>1, <1>2, <1>3, AllSubsets
<1>5. Sums(b)[Universe] = Sums(a)[Universe] + change(Universe)
  BY <1>4 DEF good
<1> QED
  BY <1>0, <1>5, SumsDef

\* A sum with one bound for the terms in a set, and none others, is at most that
\* many times the bound.
LEMMA TotalBounded ==
  ASSUME NEW a \in [Universe -> Int], NEW X \in SUBSET Universe, NEW w \in Int,
         \A t \in Universe : a[t] <= IF t \in X THEN w ELSE 0
  PROVE  Total(a) \in Int /\ Total(a) <= w * Cardinality(X)
<1> DEFINE n(T) == Cardinality(T \cap X)
           good == {T \in SUBSET Universe : Sums(a)[T] <= w * n(T)}
<1>0. \A T \in SUBSET Universe : Sums(a)[T] \in Int /\ IsFiniteSet(T \cap X) /\ n(T) \in Nat
  <2>1. \A T \in SUBSET Universe : T \cap X \in SUBSET Universe
    OBVIOUS
  <2> QED
    BY <2>1, SumsAreNumbers, FS_Subset, FS_CardinalityType
<1>1. {} \in good
  <2>1. {} \cap X = {} /\ n({}) = 0
    BY FS_EmptySet
  <2>2. w * n({}) = 0
    BY <2>1
  <2> QED
    BY <2>2, SumsEmpty
<1>2. ASSUME NEW T \in SUBSET Universe, T # {}, T \ {Pick(T)} \in good PROVE T \in good
  <2> DEFINE x == Pick(T)
             R == T \ {x}
  <2>1. Sums(a)[T] = a[x] + Sums(a)[R] /\ x \in T /\ x \in Universe /\ R \in SUBSET Universe
    BY <1>2, SumsUnfold
  <2>2. Sums(a)[R] <= w * n(R)
    BY <1>2
  <2>3. n(T) = IF x \in X THEN n(R) + 1 ELSE n(R)
    <3>1. CASE x \in X
      <4>1. T \cap X = (R \cap X) \cup {x} /\ x \notin R \cap X
        BY <2>1, <3>1
      <4> QED
        BY <1>0, <2>1, <3>1, <4>1, FS_AddElement
    <3>2. CASE x \notin X
      <4>1. T \cap X = R \cap X
        BY <3>2
      <4> QED
        BY <3>2, <4>1
    <3> QED
      BY <3>1, <3>2
  <2>4. a[x] \in Int /\ a[x] <= IF x \in X THEN w ELSE 0
    BY <2>1
  <2>5. n(R) \in Nat /\ Sums(a)[R] \in Int
    BY <1>0, <2>1
  <2> HIDE DEF R, x, n
  <2>6. w * (n(R) + 1) = w * n(R) + w /\ w * n(R) \in Int
    BY <2>5
  <2>7. Sums(a)[T] <= w * n(T)
    BY <2>1, <2>2, <2>3, <2>4, <2>5, <2>6
  <2> QED
    BY <2>7
<1>3. good \in SUBSET SUBSET Universe
  OBVIOUS
<1> HIDE DEF good
<1>4. good = SUBSET Universe
  BY <1>1, <1>2, <1>3, AllSubsets
<1>5. Sums(a)[Universe] <= w * n(Universe)
  BY <1>4 DEF good
<1>6. Universe \cap X = X
  OBVIOUS
<1> QED
  BY <1>0, <1>5, <1>6, SumsDef

LEMMA TotalOfSum ==
  ASSUME NEW a \in [Universe -> Int], NEW b \in [Universe -> Int], NEW c \in [Universe -> Int],
         \A t \in Universe : c[t] <= a[t] + b[t]
  PROVE  /\ Total(c) <= Total(a) + Total(b)
         /\ Total(a) \in Int /\ Total(b) \in Int /\ Total(c) \in Int
<1> DEFINE good == {T \in SUBSET Universe : Sums(c)[T] <= Sums(a)[T] + Sums(b)[T]}
<1>0. \A T \in SUBSET Universe : Sums(a)[T] \in Int /\ Sums(b)[T] \in Int /\ Sums(c)[T] \in Int
  BY SumsAreNumbers
<1>1. {} \in good
  BY SumsEmpty
<1>2. ASSUME NEW T \in SUBSET Universe, T # {}, T \ {Pick(T)} \in good PROVE T \in good
  <2> DEFINE x == Pick(T)
             R == T \ {x}
  <2>1. /\ Sums(a)[T] = a[x] + Sums(a)[R] /\ Sums(b)[T] = b[x] + Sums(b)[R]
        /\ Sums(c)[T] = c[x] + Sums(c)[R]
        /\ x \in Universe /\ R \in SUBSET Universe
    BY <1>2, SumsUnfold
  <2>2. Sums(c)[R] <= Sums(a)[R] + Sums(b)[R]
    BY <1>2
  <2>3. a[x] \in Int /\ b[x] \in Int /\ c[x] \in Int /\ c[x] <= a[x] + b[x]
    BY <2>1
  <2>4. Sums(a)[R] \in Int /\ Sums(b)[R] \in Int /\ Sums(c)[R] \in Int
    BY <1>0, <2>1
  <2> HIDE DEF R, x
  <2>5. Sums(c)[T] <= Sums(a)[T] + Sums(b)[T]
    BY <2>1, <2>2, <2>3, <2>4
  <2> QED
    BY <2>5
<1>3. good \in SUBSET SUBSET Universe
  OBVIOUS
<1> HIDE DEF good
<1>4. good = SUBSET Universe
  BY <1>1, <1>2, <1>3, AllSubsets
<1>5. Sums(c)[Universe] <= Sums(a)[Universe] + Sums(b)[Universe]
  BY <1>4 DEF good
<1> QED
  BY <1>0, <1>5, SumsDef

-----------------------------------------------------------------------------
(***************************************************************************)
(* The money of the book.                                                  *)
(***************************************************************************)
LEMMA Quotient ==
  ASSUME NEW x \in Nat, NEW c \in Nat \ {0}
  PROVE  /\ x \div c \in Nat
         /\ c * (x \div c) <= x
         /\ x < c * (x \div c) + c
<1>1. x \div c \in Int /\ x = c * (x \div c) + (x % c) /\ x % c \in 0 .. c - 1
  BY Z3
<1> DEFINE q == x \div c
<1> HIDE DEF q
<1>2. q \in Int /\ c * q <= x /\ x < c * q + c /\ c * q \in Int
  BY <1>1 DEF q
<1>3. q >= 0
  <2>1. ASSUME q <= -1 PROVE FALSE
    <3>1. c * q <= c * (-1)
      BY <1>2, <2>1, Scaled
    <3> QED
      BY <1>2, <3>1
  <2> QED
    BY <1>2, <2>1
<1> QED
  BY <1>2, <1>3 DEF q

LEMMA CostIsSmall ==
  ASSUME NEW v \in Nat
  PROVE  /\ Cost(v) \in Nat /\ 10 * Cost(v) <= v
         /\ CostDen * Cost(v) <= CostNum * v /\ CostNum * v < CostDen * Cost(v) + CostDen
<1> USE CostAssumption
<1>1. CostNum * v \in Nat
  OBVIOUS
<1>2. /\ Cost(v) \in Nat /\ CostDen * Cost(v) <= CostNum * v
      /\ CostNum * v < CostDen * Cost(v) + CostDen
  BY <1>1, Quotient DEF Cost
<1>3. CostDen * (10 * Cost(v)) <= CostDen * v
  <2> DEFINE k == Cost(v)
  <2> HIDE DEF k
  <2>1. k \in Nat /\ CostDen * k <= CostNum * v
    BY <1>2 DEF k
  <2>2. CostDen * (10 * k) = 10 * (CostDen * k) /\ 10 * (CostNum * v) = v * (10 * CostNum)
    BY <2>1
  <2>3. v * (10 * CostNum) <= v * CostDen /\ v * CostDen = CostDen * v
    BY Scaled
  <2>4. CostDen * k \in Int /\ v * (10 * CostNum) \in Int /\ CostDen * v \in Int /\ CostNum * v \in Int
    BY <2>1
  <2>5. CostDen * (10 * k) <= CostDen * v
    BY <2>1, <2>2, <2>3, <2>4
  <2> QED
    BY <2>5 DEF k
<1>4. 10 * Cost(v) <= v
  <2>1. 10 * Cost(v) \in Int
    BY <1>2
  <2>2. v < 10 * Cost(v) => CostDen * v < CostDen * (10 * Cost(v))
    BY <2>1, Scaled
  <2>3. CostDen * v \in Int /\ CostDen * (10 * Cost(v)) \in Int
    BY <2>1
  <2> QED
    BY <1>3, <2>1, <2>2, <2>3
<1> QED
  BY <1>2, <1>4

LEMMA TotalOfNothing == Total(Nothing) = 0 /\ Nothing \in [Universe -> Nat]
<1>1. Nothing \in [Universe -> Nat] /\ Nothing \in [Universe -> Int]
      /\ \A t \in Universe : Nothing[t] <= IF t \in {} THEN 0 ELSE 0
  BY DEF Nothing
<1>2. {} \in SUBSET Universe /\ 0 \in Int
  OBVIOUS
<1>3. Total(Nothing) <= 0 * Cardinality({}) /\ 0 * Cardinality({}) = 0
  BY <1>1, <1>2, TotalBounded, FS_EmptySet
<1>4. Total(Nothing) \in Nat
  BY <1>1, TotalOfNaturals
<1> QED
  BY <1>1, <1>3, <1>4

\* The weight of a position is at most its equal share, and the shares at most all.
LEMMA TargetsFit ==
  ASSUME NEW symbols \in SUBSET Universe, NEW amount \in Nat
  PROVE  /\ Weighted(symbols, amount) \in [Universe -> Nat]
         /\ Total(Weighted(symbols, amount)) \in Nat
         /\ Total(Weighted(symbols, amount)) <= amount
<1> USE CapAssumption
<1> DEFINE n == Cardinality(symbols)
           share == amount \div n
           cap == (amount * CapNum) \div CapDen
           W == Weighted(symbols, amount)
<1>1. IsFiniteSet(symbols) /\ n \in Nat /\ (symbols # {} => n # 0)
  BY FS_Subset, FS_CardinalityType, FS_EmptySet
<1>2. cap \in Nat
  <2>1. amount * CapNum \in Nat /\ CapDen \in Nat \ {0}
    OBVIOUS
  <2> QED
    BY <2>1, Quotient
<1>3. CASE symbols = {}
  <2>1. W = Nothing
    BY <1>3 DEF Weighted, Nothing
  <2> QED
    BY <2>1, TotalOfNothing
<1>4. CASE symbols # {}
  <2>1. n \in Nat \ {0}
    BY <1>1, <1>4
  <2>2. share \in Nat /\ n * share <= amount
    BY <2>1, Quotient
  <2> HIDE DEF share, cap
  <2>3. Min({share, cap}) \in Nat /\ Min({share, cap}) <= share
    BY <1>2, <2>2, MinOfTwo
  <2>4. W = [s \in Universe |-> IF s \notin symbols THEN 0 ELSE Min({share, cap})]
    BY DEF Weighted, share, cap
  <2>5. W \in [Universe -> Nat] /\ \A t \in Universe : W[t] <= IF t \in symbols THEN share ELSE 0
    <3> DEFINE m == Min({share, cap})
    <3> HIDE DEF m, W
    <3>1. m \in Nat /\ m <= share /\ W = [s \in Universe |-> IF s \notin symbols THEN 0 ELSE m]
      BY <2>3, <2>4 DEF m
    <3> QED
      BY <3>1
  <2> HIDE DEF W
  <2>6. W \in [Universe -> Int] /\ share \in Int
    BY <2>2, <2>5
  <2>7. Total(W) \in Nat
    BY <2>5, TotalOfNaturals
  <2>8. Total(W) <= share * n
    BY <2>5, <2>6, TotalBounded
  <2> HIDE DEF n
  <2>9. Total(W) <= amount
    <3>1. share * n = n * share /\ n * share \in Int
      BY <2>1, <2>2
    <3> QED
      BY <2>2, <2>7, <2>8, <3>1
  <2> QED
    BY <2>5, <2>7, <2>9 DEF W
<1> QED
  BY <1>3, <1>4

\* Turnover is at most all that is sold and all that is bought.
LEMMA TurnoverFits ==
  ASSUME value \in [Universe -> Nat], equity \in Nat, Total(value) <= equity,
         NEW symbols \in SUBSET Universe
  PROVE  Traded(symbols) \in Nat /\ Traded(symbols) <= 2 * equity
<1> DEFINE target == Weighted(symbols, equity)
           moves == [s \in Universe |-> Distance(target[s], value[s])]
<1>1. target \in [Universe -> Nat] /\ Total(target) \in Nat /\ Total(target) <= equity
  BY TargetsFit
<1>2. Traded(symbols) = Total(moves)
  BY DEF Traded
<1> HIDE DEF target
<1>3. moves \in [Universe -> Nat] /\ \A t \in Universe : moves[t] <= target[t] + value[t]
  BY <1>1 DEF Distance
<1> HIDE DEF moves
<1>4. Total(moves) \in Nat /\ Total(value) \in Nat
  BY <1>3, TotalOfNaturals
<1>5. Total(moves) <= Total(target) + Total(value)
  <2>1. moves \in [Universe -> Int] /\ target \in [Universe -> Int] /\ value \in [Universe -> Int]
    BY <1>1, <1>3
  <2> QED
    BY <1>3, <2>1, TotalOfSum
<1> QED
  BY <1>1, <1>2, <1>4, <1>5

\* The book in whole units: it balances, and neither cash nor a position is negative.
MoneyInv ==
  /\ cash \in Nat /\ value \in [Universe -> Nat]
  /\ equity = cash + Total(value)

LEMMA MoneyFacts ==
  ASSUME MoneyInv
  PROVE  Total(value) \in Nat /\ equity \in Nat /\ Total(value) <= equity
<1>1. Total(value) \in Nat
  BY TotalOfNaturals DEF MoneyInv
<1> QED
  BY <1>1 DEF MoneyInv

LEMMA MarkingKeepsMoney ==
  ASSUME EngineTypeOK, MoneyInv, BookNextDay
  PROVE  MoneyInv'
<1>1. value' = Marked(value) /\ equity' = cash + Total(value') /\ cash' = cash
  BY DEF BookNextDay
<1>2. ASSUME NEW s \in Universe, Priced(s) PROVE (value[s] * bars[1][s]) \div bars[0][s] \in Nat
  <2>1. bars[0] \in Closes /\ bars[1] \in Closes
    BY WindowHas DEF EngineTypeOK
  <2>2. bars[0][s] \in Prices \cup {NoBar} /\ bars[1][s] \in Prices \cup {NoBar}
    BY <2>1 DEF Closes
  <2>3. \A p \in Prices \cup {NoBar} : p \in Nat
    OBVIOUS
  <2>4. bars[0][s] \in Nat \ {0} /\ bars[1][s] \in Nat
    BY <1>2, <2>2, <2>3 DEF Priced
  <2>5. value[s] * bars[1][s] \in Nat
    <3>1. value[s] \in Nat
      BY DEF MoneyInv
    <3> QED
      BY <2>4, <3>1
  <2> QED
    BY <2>4, <2>5, Quotient
<1>3. Marked(value) \in [Universe -> Nat]
  BY <1>2 DEF Marked, MoneyInv
<1> QED
  BY <1>1, <1>3 DEF MoneyInv

\* An exit moves a position into cash and pays for it.
LEMMA SellingKeepsMoney ==
  ASSUME MoneyInv, NEW s \in Universe, SellAll(s)
  PROVE  MoneyInv'
<1>1. CASE UNCHANGED <<cash, value, equity>>
  BY <1>1 DEF MoneyInv
<1>2. CASE /\ value' = [value EXCEPT ![s] = 0]
           /\ cash' = cash + ExitProceeds(s) /\ equity' = equity - Cost(value[s])
  <2>1. value[s] \in Nat /\ value' \in [Universe -> Nat] /\ value'[s] = 0
        /\ \A t \in Universe : t # s => value'[t] = value[t]
    BY <1>2 DEF MoneyInv
  <2>2. Cost(value[s]) \in Nat /\ 10 * Cost(value[s]) <= value[s]
    BY <2>1, CostIsSmall
  <2>3. Total(value') = Total(value) + (value'[s] - value[s]) /\ Total(value) \in Int
    <3>1. value \in [Universe -> Int] /\ value' \in [Universe -> Int]
      BY <2>1 DEF MoneyInv
    <3> QED
      BY <2>1, <3>1, TotalOneChange
  <2>4. cash' \in Nat
    BY <1>2, <2>1, <2>2 DEF ExitProceeds, MoneyInv
  <2>5. equity' = cash' + Total(value')
    BY <1>2, <2>1, <2>2, <2>3 DEF ExitProceeds, MoneyInv
  <2> QED
    BY <2>1, <2>4, <2>5 DEF MoneyInv
<1> QED
  BY <1>1, <1>2 DEF SellAll

\* A rebalance pays for its turnover and keeps the rest in cash.
LEMMA AfterCost ==
  ASSUME MoneyInv, NEW symbols \in SUBSET Universe
  PROVE  /\ Traded(symbols) \in Nat /\ Cost(Traded(symbols)) \in Nat
         /\ equity - Cost(Traded(symbols)) \in Nat
<1>1. equity \in Nat /\ Traded(symbols) \in Nat /\ Traded(symbols) <= 2 * equity
  BY MoneyFacts, TurnoverFits DEF MoneyInv
<1>2. Cost(Traded(symbols)) \in Nat /\ 10 * Cost(Traded(symbols)) <= Traded(symbols)
  BY <1>1, CostIsSmall
<1> QED
  BY <1>1, <1>2

LEMMA TargetKeepsMoney ==
  ASSUME MoneyInv, NEW symbols \in SUBSET Universe, ApplyTarget(symbols)
  PROVE  MoneyInv'
<1> DEFINE after == equity - Cost(Traded(symbols))
<1>1. /\ value' = IF equity <= 0 THEN Nothing ELSE Weighted(symbols, after)
      /\ cash' = IF equity <= 0 THEN cash ELSE CashAfter(symbols, after)
      /\ equity' = IF equity <= 0 THEN equity ELSE after
  BY DEF ApplyTarget
<1>2. after \in Nat /\ equity \in Nat /\ Total(value) \in Nat
  BY AfterCost, MoneyFacts
<1> HIDE DEF after
<1>3. CASE equity <= 0
  <2>1. equity = 0 /\ cash = 0
    BY <1>2, <1>3 DEF MoneyInv
  <2>2. value' = Nothing /\ cash' = 0 /\ equity' = 0
    BY <1>1, <1>3, <2>1
  <2> QED
    BY <2>2, TotalOfNothing DEF MoneyInv
<1>4. CASE ~(equity <= 0)
  <2>1. value' = Weighted(symbols, after) /\ cash' = after - Total(value') /\ equity' = after
    BY <1>1, <1>4 DEF CashAfter
  <2>2. value' \in [Universe -> Nat] /\ Total(value') \in Nat /\ Total(value') <= after
    BY <1>2, <2>1, TargetsFit
  <2> QED
    BY <1>2, <2>1, <2>2 DEF MoneyInv
<1> QED
  BY <1>3, <1>4

LEMMA MoneyStep == BookInv /\ MoneyInv /\ [BookNext]_bookVars => MoneyInv'
<1> SUFFICES ASSUME BookInv, MoneyInv, [BookNext]_bookVars PROVE MoneyInv'
  OBVIOUS
<1>1. EngineTypeOK
  BY DEF BookInv
<1>2. ASSUME NEW i \in DOMAIN pending PROVE pending[i].symbols \in SUBSET Universe
  <2>1. pending \in Seq(OrderSet)
    BY <1>1 DEF EngineTypeOK
  <2>2. pending[i] \in OrderSet
    BY <2>1
  <2> QED
    BY <2>2 DEF OrderSet
<1>3. CASE UNCHANGED money
  BY <1>3 DEF money, MoneyInv
<1>4. CASE BookNextDay
  BY <1>1, <1>4, MarkingKeepsMoney
<1>5. ASSUME NEW i \in DOMAIN pending, BookFillExit(i) PROVE MoneyInv'
  BY <1>2, <1>5, SellingKeepsMoney DEF BookFillExit
<1>6. ASSUME NEW i \in DOMAIN pending, BookFillRebalance(i) PROVE MoneyInv'
  BY <1>2, <1>6, TargetKeepsMoney DEF BookFillRebalance
<1> QED
  BY <1>3, <1>4, <1>5, <1>6 DEF BookNext, BookSendStops, BookDecide, bookVars, money

\* The accounting follows the simulator: what holds of its orders and decisions
\* holds of them with the money counted, too.
THEOREM BookFollowsEngine == BookSpec => Spec
<1>1. BookInit => Init
  BY DEF BookInit
<1>2. [BookNext]_bookVars => [Next]_vars
  BY DEF BookNext, BookSendStops, BookDecide, BookNextDay, BookFillExit, BookFillRebalance, Next,
         bookVars
<1> QED
  BY <1>1, <1>2, PTL DEF BookSpec, Spec

LEMMA MoneyAlways == BookSpec => []MoneyInv
<1>1. BookInit => MoneyInv
  <2> SUFFICES ASSUME BookInit PROVE MoneyInv
    OBVIOUS
  <2>1. cash = Capital /\ equity = Capital /\ value = Nothing
    BY DEF BookInit
  <2> QED
    BY <2>1, TotalOfNothing, CapitalAssumption DEF MoneyInv
<1> QED
  BY <1>1, MoneyStep, BookAlways, BookFollowsEngine, PTL DEF BookSpec

\* For every capital, cost rate, position cap, universe and price history, the
\* equity that every fill charges on its own is what cash and the marked positions
\* add up to, and nothing is ever borrowed.
THEOREM TheBookBalances == BookSpec => []BookBalances
<1>1. MoneyInv => BookBalances
  BY DEF MoneyInv, BookBalances
<1> QED
  BY <1>1, MoneyAlways, PTL

-----------------------------------------------------------------------------
(***************************************************************************)
(* Trades are charged.  A charge also shrinks the positions it pays for:   *)
(* by no more than itself, and one unit of rounding each.                  *)
(***************************************************************************)
LEMMA QuotientIsGreatest ==
  ASSUME NEW x \in Nat, NEW c \in Nat \ {0}, NEW q \in Int, c * q <= x
  PROVE  q <= x \div c
<1> DEFINE r == x \div c
<1>1. r \in Nat /\ x < c * r + c
  BY Quotient
<1> HIDE DEF r
<1>2. c * (r + 1) = c * r + c /\ c * r \in Int /\ c * q \in Int
  BY <1>1
<1>3. c * q < c * (r + 1)
  BY <1>1, <1>2
<1>4. q < r + 1
  <2>1. r + 1 \in Int
    BY <1>1
  <2> QED
    BY <1>3, <2>1, Scaled
<1> QED
  BY <1>1, <1>4 DEF r

\* The size of each of n positions in a book of x.
Size(n, x) == Min({x \div n, (x * CapNum) \div CapDen})

LEMMA SizeShrinks ==
  ASSUME NEW n \in Nat \ {0}, NEW x \in Nat, NEW y \in Nat, y <= x
  PROVE  /\ Size(n, x) \in Nat /\ Size(n, y) \in Nat /\ Size(n, y) <= Size(n, x)
         /\ n * (Size(n, x) - Size(n, y)) <= (x - y) + n
<1> USE CapAssumption
<1> DEFINE f(z) == z \div n
           g(z) == (z * CapNum) \div CapDen
<1>1. \A z \in Nat : f(z) \in Nat /\ n * f(z) <= z /\ z < n * f(z) + n
  BY Quotient
<1>2. \A z \in Nat : z * CapNum \in Nat
  OBVIOUS
<1>3. \A z \in Nat : /\ g(z) \in Nat /\ CapDen * g(z) <= z * CapNum
                      /\ z * CapNum < CapDen * g(z) + CapDen
  BY <1>2, Quotient
<1>4. \A z \in Nat, q \in Int : n * q <= z => q <= f(z)
  BY QuotientIsGreatest
<1>5. \A z \in Nat, q \in Int : CapDen * q <= z * CapNum => q <= g(z)
  BY <1>2, QuotientIsGreatest
<1>6. \A z \in Nat : Size(n, z) = IF f(z) <= g(z) THEN f(z) ELSE g(z)
  <2> SUFFICES ASSUME NEW z \in Nat PROVE Size(n, z) = IF f(z) <= g(z) THEN f(z) ELSE g(z)
    OBVIOUS
  <2>1. f(z) \in Int /\ g(z) \in Int
    BY <1>1, <1>3
  <2> QED
    BY <2>1, MinOfTwo DEF Size
<1> HIDE DEF f, g
<1>7. f(x) \in Nat /\ f(y) \in Nat /\ g(x) \in Nat /\ g(y) \in Nat
  BY <1>1, <1>3
<1>8. f(y) <= f(x)
  <2>1. n * f(y) <= y /\ n * f(y) \in Int
    BY <1>1, <1>7
  <2>2. n * f(y) <= x
    BY <2>1
  <2> QED
    BY <1>4, <1>7, <2>2
<1>9. g(y) <= g(x)
  <2>1. CapDen * g(y) <= y * CapNum /\ CapDen * g(y) \in Int /\ y * CapNum \in Int /\ x * CapNum \in Int
    BY <1>3, <1>7
  <2>2. CapNum * y <= CapNum * x
    BY Scaled
  <2>3. CapNum * y = y * CapNum /\ CapNum * x = x * CapNum
    OBVIOUS
  <2>4. CapDen * g(y) <= x * CapNum
    BY <2>1, <2>2, <2>3
  <2> QED
    BY <1>5, <1>7, <2>4
<1>10. Size(n, x) \in Nat /\ Size(n, y) \in Nat /\ Size(n, y) <= Size(n, x)
  BY <1>6, <1>7, <1>8, <1>9
\* Either the equal share is the smaller for both books, or the cap is.
<1>11. CASE CapDen <= n * CapNum
  <2>1. ASSUME NEW z \in Nat PROVE f(z) <= g(z)
    <3>1. f(z) \in Nat /\ n * f(z) <= z /\ n * f(z) \in Int
      BY <1>1
    <3>2. f(z) * CapDen <= f(z) * (n * CapNum)
      BY <1>11, <3>1, Scaled
    <3>3. CapNum * (n * f(z)) <= CapNum * z
      BY <3>1, Scaled
    <3>4. /\ f(z) * CapDen = CapDen * f(z) /\ f(z) * (n * CapNum) = CapNum * (n * f(z))
          /\ CapNum * z = z * CapNum
      BY <3>1
    <3>5. CapDen * f(z) \in Int /\ CapNum * (n * f(z)) \in Int /\ z * CapNum \in Int
      BY <3>1
    <3>6. CapDen * f(z) <= z * CapNum
      BY <3>2, <3>3, <3>4, <3>5
    <3> QED
      BY <1>5, <3>1, <3>6
  <2>2. Size(n, x) = f(x) /\ Size(n, y) = f(y)
    BY <1>6, <2>1
  <2>3. n * f(x) <= x /\ y < n * f(y) + n /\ n * f(x) \in Int /\ n * f(y) \in Int
    BY <1>1, <1>7
  <2>4. n * (f(x) - f(y)) = n * f(x) - n * f(y)
    BY <1>7
  <2>5. n * (f(x) - f(y)) <= (x - y) + n
    BY <2>3, <2>4
  <2> QED
    BY <1>10, <2>2, <2>5
<1>12. CASE ~(CapDen <= n * CapNum)
  <2>0. n * CapNum \in Int /\ n * CapNum <= CapDen
    BY <1>12
  <2>1. ASSUME NEW z \in Nat PROVE g(z) <= f(z)
    <3>1. g(z) \in Nat /\ CapDen * g(z) <= z * CapNum /\ CapDen * g(z) \in Int /\ z * CapNum \in Int
      BY <1>3
    <3>2. g(z) * (n * CapNum) <= g(z) * CapDen
      BY <2>0, <3>1, Scaled
    <3>3. g(z) * (n * CapNum) = CapNum * (n * g(z)) /\ g(z) * CapDen = CapDen * g(z)
          /\ z * CapNum = CapNum * z
      BY <3>1
    <3>4. CapNum * (n * g(z)) \in Int
      BY <3>1
    <3>5. ~(CapNum * z < CapNum * (n * g(z)))
      BY <3>1, <3>2, <3>3, <3>4
    <3>6. n * g(z) \in Int
      BY <3>1
    <3>7. n * g(z) <= z
      BY <3>5, <3>6, Scaled
    <3> QED
      BY <1>4, <3>1, <3>7
  <2>2. Size(n, x) = g(x) /\ Size(n, y) = g(y)
    <3>1. g(x) <= f(x) /\ g(y) <= f(y)
      BY <2>1
    <3> QED
      BY <1>6, <1>7, <3>1
  <2> DEFINE e == g(x) - g(y) - 1
  <2>3. e \in Int /\ g(x) = g(y) + e + 1
    BY <1>7
  <2>4. CapDen * e < CapNum * (x - y)
    <3>1. /\ CapDen * g(x) <= x * CapNum /\ y * CapNum < CapDen * g(y) + CapDen
      BY <1>3
    <3>2. CapDen * g(x) \in Int /\ CapDen * g(y) \in Int /\ x * CapNum \in Int /\ y * CapNum \in Int
      BY <1>7
    <3>3. CapDen * e = CapDen * g(x) - CapDen * g(y) - CapDen
      BY <1>7
    <3>4. CapNum * (x - y) = x * CapNum - y * CapNum
      OBVIOUS
    <3> HIDE DEF e
    <3> QED
      BY <3>1, <3>2, <3>3, <3>4
  <2> HIDE DEF e
  <2>5. n * e <= x - y
    <3>1. CASE e < 0
      <4>1. n * e <= n * 0
        BY <2>3, <3>1, Scaled
      <4>2. n * 0 = 0 /\ n * e \in Int
        BY <2>3
      <4> QED
        BY <4>1, <4>2
    <3>2. CASE e >= 0
      <4>1. e * (n * CapNum) <= e * CapDen
        BY <2>0, <2>3, <3>2, Scaled
      <4>2. e * (n * CapNum) = CapNum * (n * e) /\ e * CapDen = CapDen * e
        BY <2>3
      <4>3. CapNum * (n * e) \in Int /\ CapDen * e \in Int /\ CapNum * (x - y) \in Int /\ n * e \in Int
            /\ x - y \in Int
        BY <2>3
      <4>4. CapNum * (n * e) < CapNum * (x - y)
        BY <2>4, <4>1, <4>2, <4>3
      <4>5. n * e < x - y
        BY <4>3, <4>4, Scaled
      <4> QED
        BY <4>3, <4>5
    <3> QED
      BY <2>3, <3>1, <3>2
  <2>6. g(x) - g(y) = e + 1 /\ n * (e + 1) = n * e + n /\ n * e \in Int
    BY <1>7, <2>3
  <2>7. n * (g(x) - g(y)) <= (x - y) + n
    BY <2>5, <2>6
  <2> QED
    BY <1>10, <2>2, <2>7
<1> QED
  BY <1>11, <1>12

\* What a step charges and what it moves.
Charged == (CostDen + CostNum) * (equity - equity') >= CostNum * (Moved - Cardinality(Universe)) - CostDen

LEMMA ChargeCovers ==
  ASSUME NEW c \in Nat, NEW moved \in Int, NEW traded \in Nat, NEW n \in Nat,
         CostNum * traded < CostDen * c + CostDen, moved <= traded + c + n
  PROVE  (CostDen + CostNum) * c >= CostNum * (moved - n) - CostDen
<1> USE CostAssumption
<1>1. moved - n \in Int /\ traded + c \in Int /\ moved - n <= traded + c
  OBVIOUS
<1>2. CostNum * (moved - n) <= CostNum * (traded + c)
  BY <1>1, Scaled
<1>3. /\ CostNum * (traded + c) = CostNum * traded + CostNum * c
      /\ (CostDen + CostNum) * c = CostDen * c + CostNum * c
  OBVIOUS
<1>4. /\ CostNum * traded \in Int /\ CostNum * c \in Int /\ CostDen * c \in Int
      /\ CostNum * (moved - n) \in Int
  OBVIOUS
<1> QED
  BY <1>2, <1>3, <1>4

LEMMA UniverseIsFinite == IsFiniteSet(Universe) /\ Cardinality(Universe) \in Nat
  BY FS_CardinalityType

\* A step that moves nothing is free.
LEMMA NothingMoved ==
  ASSUME MoneyInv, Moved = 0, equity' = equity
  PROVE  Charged
<1> DEFINE n == Cardinality(Universe)
<1>1. n \in Nat
  BY UniverseIsFinite
<1> HIDE DEF n
<1>2. equity - equity' = 0
  BY MoneyFacts
<1>3. CostNum * 0 < CostDen * 0 + CostDen /\ 0 <= 0 + 0 + n
  BY <1>1, CostAssumption
<1>4. (CostDen + CostNum) * 0 >= CostNum * (0 - n) - CostDen
  BY <1>1, <1>3, ChargeCovers
<1> QED
  BY <1>2, <1>4 DEF Charged, n

LEMMA StillIsCharged ==
  ASSUME MoneyInv, value' = value, equity' = equity
  PROVE  Charged
<1>1. [s \in Universe |-> Distance(value'[s], value[s])] = Nothing
  BY DEF Distance, MoneyInv, Nothing
<1> QED
  BY <1>1, TotalOfNothing, NothingMoved DEF Moved

LEMMA SellingIsCharged ==
  ASSUME MoneyInv, NEW s \in Universe, SellAll(s)
  PROVE  Charged
<1>1. CASE UNCHANGED <<cash, value, equity>>
  BY <1>1, StillIsCharged
<1>2. CASE value' = [value EXCEPT ![s] = 0] /\ equity' = equity - Cost(value[s])
  <2> DEFINE v == value[s]
             c == Cost(v)
             n == Cardinality(Universe)
             moves == [t \in Universe |-> Distance(value'[t], value[t])]
  <2>1. v \in Nat /\ n \in Nat /\ equity \in Nat
    BY UniverseIsFinite, MoneyFacts DEF MoneyInv
  <2>2. c \in Nat /\ CostNum * v < CostDen * c + CostDen
    BY <2>1, CostIsSmall
  <2>3. moves \in [Universe -> Int] /\ \A t \in Universe : moves[t] <= IF t \in {s} THEN v ELSE 0
    BY <1>2 DEF MoneyInv, Distance
  <2>4. Moved = Total(moves)
    BY DEF Moved
  <2> HIDE DEF moves
  <2>5. Cardinality({s}) = 1 /\ {s} \in SUBSET Universe
    BY FS_Singleton
  <2>6. Total(moves) \in Int /\ Total(moves) <= v * 1
    BY <2>1, <2>3, <2>5, TotalBounded
  <2>7. equity - equity' = c
    BY <1>2, <2>1, <2>2
  <2> HIDE DEF v, c, n
  <2>8. Total(moves) <= v + c + n
    BY <2>1, <2>2, <2>6
  <2>9. (CostDen + CostNum) * c >= CostNum * (Total(moves) - n) - CostDen
    BY <2>1, <2>2, <2>6, <2>8, ChargeCovers
  <2> QED
    BY <2>4, <2>7, <2>9 DEF Charged, n
<1> QED
  BY <1>1, <1>2 DEF SellAll

Shrinkage(symbols, x, y) == [s \in Universe |-> Weighted(symbols, x)[s] - Weighted(symbols, y)[s]]

\* Paying c out of a book of x shrinks its positions by at most c and a unit each.
LEMMA TargetsShrink ==
  ASSUME NEW symbols \in SUBSET Universe, NEW x \in Nat, NEW y \in Nat, y <= x
  PROVE  /\ Shrinkage(symbols, x, y) \in [Universe -> Nat] /\ Total(Shrinkage(symbols, x, y)) \in Nat
         /\ Total(Shrinkage(symbols, x, y)) <= (x - y) + Cardinality(Universe)
<1> DEFINE shrink == Shrinkage(symbols, x, y)
           n == Cardinality(symbols)
           N == Cardinality(Universe)
<1>0. shrink = [s \in Universe |-> Weighted(symbols, x)[s] - Weighted(symbols, y)[s]]
  BY DEF Shrinkage
<1>1. n \in Nat /\ N \in Nat /\ n <= N /\ (symbols # {} => n # 0)
  BY UniverseIsFinite, FS_Subset, FS_CardinalityType, FS_EmptySet
<1>2. CASE symbols = {}
  <2>1. shrink = Nothing
    <3>1. Weighted(symbols, x) = Nothing /\ Weighted(symbols, y) = Nothing
      BY <1>2 DEF Weighted, Nothing
    <3> QED
      BY <1>0, <3>1 DEF Nothing
  <2>2. 0 <= (x - y) + N
    BY <1>1
  <2> HIDE DEF shrink, N
  <2>3. shrink \in [Universe -> Nat] /\ Total(shrink) = 0
    BY <2>1, TotalOfNothing
  <2> QED
    BY <2>2, <2>3 DEF shrink, N
<1>3. CASE symbols # {}
  <2> DEFINE a == Size(n, x)
             b == Size(n, y)
  <2>1. n \in Nat \ {0}
    BY <1>1, <1>3
  <2>2. a \in Nat /\ b \in Nat /\ b <= a /\ n * (a - b) <= (x - y) + n
    BY <2>1, SizeShrinks
  <2>3. /\ Weighted(symbols, x) = [s \in Universe |-> IF s \notin symbols THEN 0 ELSE a]
        /\ Weighted(symbols, y) = [s \in Universe |-> IF s \notin symbols THEN 0 ELSE b]
    BY DEF Weighted, Size
  <2> HIDE DEF a, b, shrink
  <2>3a. \A t \in Universe : shrink[t] = IF t \in symbols THEN a - b ELSE 0
    BY <1>0, <2>2, <2>3
  <2>4. shrink \in [Universe -> Nat] /\ \A t \in Universe : shrink[t] <= IF t \in symbols THEN a - b ELSE 0
    BY <1>0, <2>2, <2>3a
  <2>5. shrink \in [Universe -> Int] /\ a - b \in Int
    BY <2>2, <2>4
  <2>6. Total(shrink) <= (a - b) * n
    BY <2>4, <2>5, TotalBounded
  <2>7. Total(shrink) \in Nat
    BY <2>4, TotalOfNaturals
  <2> HIDE DEF n, N
  <2>8. (a - b) * n = n * (a - b) /\ n * (a - b) \in Int
    BY <2>1, <2>2
  <2>9. Total(shrink) <= (x - y) + N
    BY <1>1, <2>2, <2>6, <2>7, <2>8
  <2> QED
    BY <2>4, <2>7, <2>9 DEF N, shrink
<1> QED
  BY <1>2, <1>3

LEMMA TargetIsCharged ==
  ASSUME MoneyInv, NEW symbols \in SUBSET Universe, ApplyTarget(symbols)
  PROVE  Charged
<1> DEFINE traded == Traded(symbols)
           c == Cost(traded)
           after == equity - c
           n == Cardinality(Universe)
           moves == [s \in Universe |-> Distance(value'[s], value[s])]
<1>1. /\ value' = IF equity <= 0 THEN Nothing ELSE Weighted(symbols, after)
      /\ equity' = IF equity <= 0 THEN equity ELSE after
  BY DEF ApplyTarget
<1>2. /\ after \in Nat /\ equity \in Nat /\ Total(value) \in Nat /\ Total(value) <= equity
      /\ traded \in Nat /\ c \in Nat /\ n \in Nat
  BY AfterCost, MoneyFacts, UniverseIsFinite
<1>3. CostNum * traded < CostDen * c + CostDen
  BY <1>2, CostIsSmall
<1>4. Moved = Total(moves)
  BY DEF Moved
<1>5. value \in [Universe -> Nat]
  BY DEF MoneyInv
<1>6. CASE equity <= 0
  <2>1. value' = Nothing /\ equity' = equity
    BY <1>1, <1>6
  <2>2. moves = value
    BY <1>5, <2>1 DEF Distance, Nothing
  <2>3. Total(value) = 0
    BY <1>2, <1>6
  <2> QED
    BY <1>4, <2>1, <2>2, <2>3, NothingMoved
<1>7. CASE ~(equity <= 0)
  <2> DEFINE before == Weighted(symbols, equity)
             shrink == Shrinkage(symbols, equity, after)
             trades == [s \in Universe |-> Distance(before[s], value[s])]
  <2>1. value' = Weighted(symbols, after) /\ equity - equity' = c
    BY <1>1, <1>2, <1>7
  <2>2. before \in [Universe -> Nat] /\ value' \in [Universe -> Nat]
    BY <1>2, <2>1, TargetsFit
  <2>3. after <= equity /\ equity - after = c
    BY <1>2
  <2>4. traded = Total(trades)
    BY DEF Traded
  <2> HIDE DEF after, c, n, traded
  <2>5. shrink \in [Universe -> Nat] /\ Total(shrink) \in Nat /\ Total(shrink) <= c + n
    <3>1. shrink \in [Universe -> Nat] /\ Total(shrink) \in Nat
          /\ Total(shrink) <= (equity - after) + Cardinality(Universe)
      BY <1>2, <2>3, TargetsShrink
    <3> QED
      BY <2>3, <3>1 DEF n
  <2>6. shrink = [s \in Universe |-> before[s] - value'[s]]
    BY <2>1 DEF Shrinkage
  <2> HIDE DEF before, shrink
  <2>7. trades \in [Universe -> Int] /\ moves \in [Universe -> Int]
        /\ \A t \in Universe : moves[t] <= trades[t] + shrink[t]
    BY <1>5, <2>2, <2>5, <2>6 DEF Distance
  <2> HIDE DEF trades, moves
  <2>8. Total(moves) <= Total(trades) + Total(shrink) /\ Total(moves) \in Int
    <3>1. shrink \in [Universe -> Int]
      BY <2>5
    <3> QED
      BY <2>7, <3>1, TotalOfSum
  <2>9. Total(moves) <= traded + c + n
    BY <1>2, <2>4, <2>5, <2>8
  <2>10. (CostDen + CostNum) * c >= CostNum * (Total(moves) - n) - CostDen
    BY <1>2, <1>3, <2>8, <2>9, ChargeCovers
  <2> QED
    BY <1>4, <2>1, <2>10 DEF Charged, n
<1> QED
  BY <1>6, <1>7

\* backtest.py: "A simulated book is only worth reading if what it charges matches
\* what it does".  For every book and order, a rebalance or a stop exit that moves
\* value between positions and cash costs the equity the rate times what it moves,
\* up to the rounding of whole units.
THEOREM NothingTradesFree == BookSpec => NoFreeTrade
<1>1. BookInv /\ MoneyInv /\ [BookNext]_bookVars => [today' = today => Charged]_bookVars
  <2> SUFFICES ASSUME BookInv, MoneyInv, BookNext, today' = today PROVE Charged
    OBVIOUS
  <2>1. EngineTypeOK
    BY DEF BookInv
  <2>2. ASSUME NEW i \in DOMAIN pending PROVE pending[i].symbols \in SUBSET Universe
    <3>1. pending \in Seq(OrderSet)
      BY <2>1 DEF EngineTypeOK
    <3>2. pending[i] \in OrderSet
      BY <3>1
    <3> QED
      BY <3>2 DEF OrderSet
  <2>3. CASE UNCHANGED money
    BY <2>3, StillIsCharged DEF money
  <2>4. CASE BookNextDay
    BY <2>1, <2>4 DEF BookNextDay, NextDay, EngineTypeOK
  <2>5. ASSUME NEW i \in DOMAIN pending, BookFillExit(i) PROVE Charged
    BY <2>2, <2>5, SellingIsCharged DEF BookFillExit
  <2>6. ASSUME NEW i \in DOMAIN pending, BookFillRebalance(i) PROVE Charged
    BY <2>2, <2>6, TargetIsCharged DEF BookFillRebalance
  <2> QED
    BY <2>3, <2>4, <2>5, <2>6 DEF BookNext, BookSendStops, BookDecide
<1>2. [today' = today => Charged]_bookVars
      <=> [today' = today => (CostDen + CostNum) * (equity - equity')
             >= CostNum * (Moved - Cardinality(Universe)) - CostDen]_bookVars
  BY DEF Charged
<1> QED
  BY <1>1, <1>2, MoneyAlways, BookAlways, BookFollowsEngine, PTL DEF BookSpec, NoFreeTrade

-----------------------------------------------------------------------------
(***************************************************************************)
(* The money and the engine's book.  Rounding may take a position down to  *)
(* nothing, so the exact BookIsHeld and MarkedToMarket hold only while no  *)
(* quotient is rounded; their one-sided forms hold always.                 *)
(***************************************************************************)
\* No money is left in a symbol the engine does not hold.
NoStrayMoney == \A s \in Universe : value[s] > 0 => s \in held

\* No position is worth more than what was paid times the change of its price since.
NeverOverstated ==
  \A s \in held \ gapped : value[s] * entry[s] <= bought[s] * bars[0][s]

WorthInv == NoStrayMoney /\ NeverOverstated /\ bought \in [Universe -> Nat]

\* A sum of numbers that are not negative is at least each of them.
LEMMA TotalHasTerm ==
  ASSUME NEW a \in [Universe -> Nat], NEW s \in Universe
  PROVE  Total(a) \in Nat /\ a[s] <= Total(a)
<1> DEFINE b == [a EXCEPT ![s] = 0]
<1>1. /\ a \in [Universe -> Int] /\ b \in [Universe -> Nat] /\ b \in [Universe -> Int]
      /\ b[s] = 0 /\ \A t \in Universe : t # s => b[t] = a[t]
  OBVIOUS
<1> HIDE DEF b
<1>2. Total(b) = Total(a) + (b[s] - a[s])
  BY <1>1, TotalOneChange
<1>3. Total(b) \in Nat /\ Total(a) \in Nat
  BY <1>1, TotalOfNaturals
<1> QED
  BY <1>1, <1>2, <1>3

LEMMA PricedBars ==
  ASSUME EngineTypeOK, NEW s \in Universe
  PROVE  /\ bars[0][s] \in Nat /\ bars[1][s] \in Nat /\ entry[s] \in Nat
         /\ Priced(s) => bars[0][s] # 0
<1>1. bars[0] \in Closes /\ bars[1] \in Closes /\ entry \in Closes
  BY WindowHas DEF EngineTypeOK
<1>2. /\ bars[0][s] \in Prices \cup {NoBar} /\ bars[1][s] \in Prices \cup {NoBar}
      /\ entry[s] \in Prices \cup {NoBar}
  BY <1>1 DEF Closes
<1>3. \A p \in Prices \cup {NoBar} : p \in Nat
  OBVIOUS
<1> QED
  BY <1>2, <1>3 DEF Priced

\* From one close to the next: v is worth at most b * p / e, and v * q / p is at most b * q / e.
LEMMA MarkIsBounded ==
  ASSUME NEW v \in Nat, NEW e \in Nat, NEW b \in Nat, NEW p \in Nat \ {0}, NEW q \in Nat,
         v * e <= b * p
  PROVE  (v * q) \div p \in Nat /\ ((v * q) \div p) * e <= b * q
<1> DEFINE w == (v * q) \div p
<1>1. v * q \in Nat
  OBVIOUS
<1>2. w \in Nat /\ p * w <= v * q
  BY <1>1, Quotient
<1> HIDE DEF w
<1>3. e * (p * w) <= e * (v * q)
  <2>1. p * w \in Int /\ v * q \in Int
    BY <1>1, <1>2
  <2> QED
    BY <1>2, <2>1, Scaled
<1>4. q * (v * e) <= q * (b * p)
  <2>1. v * e \in Int /\ b * p \in Int
    OBVIOUS
  <2> QED
    BY <2>1, Scaled
<1>5. e * (p * w) = p * (w * e) /\ e * (v * q) = q * (v * e) /\ q * (b * p) = p * (b * q)
  BY <1>2
<1>6. w * e \in Int /\ b * q \in Int /\ q * (v * e) \in Int
  BY <1>2
<1>7. p * (w * e) \in Int /\ p * (b * q) \in Int
  BY <1>6
<1>8. ~(p * (b * q) < p * (w * e))
  BY <1>3, <1>4, <1>5, <1>6, <1>7
<1>9. w * e <= b * q
  BY <1>6, <1>8, Scaled
<1> QED
  BY <1>2, <1>9 DEF w

LEMMA WorthStep == BookInv /\ MoneyInv /\ WorthInv /\ [BookNext]_bookVars => WorthInv'
<1> SUFFICES ASSUME BookInv, MoneyInv, WorthInv, [BookNext]_bookVars PROVE WorthInv'
  OBVIOUS
<1> USE DEF WorthInv, NoStrayMoney, NeverOverstated
<1>1. EngineTypeOK /\ value \in [Universe -> Nat] /\ bought \in [Universe -> Nat] /\ held \subseteq Universe
  BY DEF BookInv, MoneyInv, EngineTypeOK
<1>2. ASSUME NEW i \in DOMAIN pending
      PROVE  pending[i].symbols \in SUBSET Universe
  <2>1. pending \in Seq(OrderSet)
    BY <1>1 DEF EngineTypeOK
  <2>2. pending[i] \in OrderSet
    BY <2>1
  <2> QED
    BY <2>2 DEF OrderSet
<1>3. CASE UNCHANGED bookVars
  BY <1>3 DEF bookVars, vars, inputs, money
<1>4. CASE BookSendStops \/ BookDecide
  BY <1>4 DEF BookSendStops, BookDecide, SendStops, Decide, money, inputs
<1>5. CASE BookNextDay
  <2>1. /\ value' = Marked(value) /\ gapped' = gapped \cup {s \in held : ~Priced(s)}
        /\ bought' = bought /\ held' = held /\ entry' = entry
    BY <1>5 DEF BookNextDay, NextDay
  <2>2. bars'[0] = bars[1]
    <3>1. PICK bar \in Bars : bars' = [k \in Window |-> IF k = 1 THEN bar ELSE bars[k + 1]]
      BY <1>5 DEF BookNextDay, NextDay
    <3> QED
      BY <3>1, WindowHas
  <2>3. ASSUME NEW s \in Universe, value'[s] > 0 PROVE s \in held'
    <3>1. value[s] \in Nat
      BY <1>1
    <3>2. CASE value[s] = 0
      <4>1. /\ bars[0][s] \in Nat /\ bars[1][s] \in Nat /\ (Priced(s) => bars[0][s] # 0)
        BY <1>1, PricedBars
      <4>2. Priced(s) => (0 * bars[1][s]) \div bars[0][s] = 0
        <5> SUFFICES ASSUME Priced(s) PROVE (0 * bars[1][s]) \div bars[0][s] = 0
          OBVIOUS
        <5> DEFINE p == bars[0][s]
                   q == (0 * bars[1][s]) \div p
        <5>1. 0 * bars[1][s] = 0 /\ p \in Nat \ {0}
          BY <4>1
        <5>2. q \in Nat /\ p * q <= 0
          BY <5>1, Quotient
        <5> HIDE DEF p, q
        <5>3. q > 0 => p * 0 < p * q
          BY <5>1, <5>2, Scaled
        <5>4. p * 0 = 0 /\ p * q \in Int
          BY <5>1, <5>2
        <5>5. q = 0
          BY <5>2, <5>3, <5>4
        <5> QED
          BY <5>5 DEF p, q
      <4>3. value'[s] = 0
        BY <2>1, <3>2, <4>2 DEF Marked
      <4> QED
        BY <2>3, <4>3
    <3>3. CASE value[s] # 0
      <4>1. value[s] > 0
        BY <3>1, <3>3
      <4>2. s \in held
        BY <4>1
      <4> QED
        BY <2>1, <4>2
    <3> QED
      BY <3>2, <3>3
  <2>4. ASSUME NEW s \in held' \ gapped' PROVE value'[s] * entry'[s] <= bought'[s] * bars'[0][s]
    <3>1. s \in held \ gapped /\ Priced(s) /\ s \in Universe
      BY <1>1, <2>1
    <3>2. /\ bars[0][s] \in Nat \ {0} /\ bars[1][s] \in Nat /\ entry[s] \in Nat
          /\ value[s] \in Nat /\ bought[s] \in Nat
      BY <1>1, <3>1, PricedBars
    <3>3. value[s] * entry[s] <= bought[s] * bars[0][s]
      BY <3>1
    <3>4. ((value[s] * bars[1][s]) \div bars[0][s]) * entry[s] <= bought[s] * bars[1][s]
      BY <3>2, <3>3, MarkIsBounded
    <3>5. value'[s] = (value[s] * bars[1][s]) \div bars[0][s]
      BY <2>1, <3>1 DEF Marked
    <3> QED
      BY <2>1, <2>2, <3>4, <3>5
  <2> QED
    BY <1>1, <2>1, <2>3, <2>4
<1>6. ASSUME NEW i \in DOMAIN pending, BookFillExit(i) PROVE WorthInv'
  <2>1. OrderOK(pending[i], claims, lag, today) /\ pending[i].kind = "stop_exit"
    BY <1>6 DEF BookInv, OrdersInv, BookFillExit, FillExit
  <2>2. PICK s \in Universe : pending[i].symbols = {s}
    BY <2>1 DEF OrderOK
  <2>3. /\ SellAll(s) /\ gapped' = gapped \ {s} /\ bought' = bought /\ bars' = bars
        /\ held' = held \ {s} /\ entry' = IF s \in held THEN EntryAfter(s) ELSE entry
    BY <1>6, <2>2 DEF BookFillExit, FillExit, inputs
  <2>4. value'[s] = 0 /\ \A t \in Universe : t # s => value'[t] = value[t]
    <3>1. Total(value) \in Nat /\ equity \in Nat /\ Total(value) <= equity
      BY MoneyFacts
    <3>2. CASE value[s] <= 0 \/ equity <= 0
      <4>1. value' = value
        BY <2>3, <3>2 DEF SellAll
      <4>2. CASE equity <= 0
        <5>1. value[s] <= Total(value) /\ value[s] \in Nat
          BY <1>1, TotalHasTerm
        <5> QED
          BY <3>1, <4>1, <4>2, <5>1
      <4> QED
        BY <1>1, <3>2, <4>1, <4>2
    <3>3. CASE ~(value[s] <= 0 \/ equity <= 0)
      BY <1>1, <2>3, <3>3 DEF SellAll
    <3> QED
      BY <3>2, <3>3
  <2>5. \A t \in Universe : t # s => entry'[t] = entry[t]
    BY <1>1, <2>3 DEF EntryAfter, EngineTypeOK, Closes
  <2> QED
    BY <1>1, <2>3, <2>4, <2>5
<1>7. ASSUME NEW i \in DOMAIN pending, BookFillRebalance(i) PROVE WorthInv'
  <2> DEFINE symbols == pending[i].symbols
             after == equity - Cost(Traded(symbols))
  <2>1. /\ ApplyTarget(symbols) /\ held' = symbols /\ bars' = bars /\ bought' = value'
        /\ entry' = [s \in Universe |-> IF s \in held' THEN bars[0][s] ELSE NoBar]
    BY <1>7 DEF BookFillRebalance, FillRebalance, inputs
  <2>2. symbols \in SUBSET Universe
    BY <1>2
  <2>3. MoneyInv'
    BY <2>1, <2>2, TargetKeepsMoney
  <2>4. value' = IF equity <= 0 THEN Nothing ELSE Weighted(symbols, after)
    BY <2>1 DEF ApplyTarget
  <2>5. value' \in [Universe -> Nat]
    BY <2>3 DEF MoneyInv
  <2> HIDE DEF symbols, after
  <2>6. \A s \in Universe : s \notin symbols => value'[s] = 0
    BY <2>4 DEF Nothing, Weighted
  <2>7. \A s \in Universe : value'[s] > 0 => s \in held'
    BY <2>1, <2>5, <2>6
  <2>8. ASSUME NEW s \in held' PROVE value'[s] * entry'[s] <= bought'[s] * bars'[0][s]
    <3>1. s \in Universe /\ entry'[s] = bars[0][s] /\ bars'[0][s] = bars[0][s] /\ bought'[s] = value'[s]
      BY <2>1, <2>2, <2>8
    <3>2. value'[s] \in Nat /\ bars[0][s] \in Nat
      BY <1>1, <2>5, <3>1, PricedBars
    <3> DEFINE k == value'[s] * bars[0][s]
    <3>3. k \in Int /\ k <= k
      BY <3>2
    <3> QED
      BY <3>1, <3>3
  <2> QED
    BY <2>1, <2>5, <2>7, <2>8
<1> QED
  BY <1>3, <1>4, <1>5, <1>6, <1>7 DEF BookNext

\* The engine's book and the money agree, whatever the rounding: every symbol with
\* money in it is held, and a position without a gap in its bars is worth at most
\* what was paid for it times the change of its price since.
THEOREM MoneyFollowsPrices == BookSpec => [](NoStrayMoney /\ NeverOverstated)
<1>1. BookInit => WorthInv
  <2> SUFFICES ASSUME BookInit PROVE WorthInv
    OBVIOUS
  <2>1. value = Nothing /\ bought = Nothing /\ held = {}
    BY DEF BookInit, Init
  <2> QED
    BY <2>1, TotalOfNothing DEF WorthInv, NoStrayMoney, NeverOverstated, Nothing
<1>2. WorthInv => NoStrayMoney /\ NeverOverstated
  BY DEF WorthInv
<1> QED
  BY <1>1, <1>2, WorthStep, MoneyAlways, BookAlways, BookFollowsEngine, PTL DEF BookSpec

-----------------------------------------------------------------------------
(***************************************************************************)
(* The exact book.  Units are the model's, and the engine's amounts are    *)
(* floats: what is proved here is that nothing but the loss of units can   *)
(* part the money from the engine's book.                                  *)
(***************************************************************************)
\* A step rounds no mark, and a rebalance leaves a unit for each position.
NothingRounded ==
  /\ today' # today =>
       \A s \in held : Priced(s) => (value[s] * bars[1][s]) % bars[0][s] = 0
  /\ (\E i \in DOMAIN pending : BookFillRebalance(i)) => equity' >= CapDen + Cardinality(Universe)

ExactInv == equity > 0 /\ (\A s \in held : value[s] > 0) /\ MarkedToMarket

\* From one close to the next, without rounding: as MarkIsBounded, with equalities.
LEMMA MarkIsExact ==
  ASSUME NEW v \in Nat, v > 0, NEW e \in Nat, NEW b \in Nat, NEW p \in Nat \ {0},
         NEW q \in Nat \ {0}, (v * q) % p = 0
  PROVE  /\ (v * q) \div p > 0
         /\ v * e = b * p => ((v * q) \div p) * e = b * q
<1> DEFINE w == (v * q) \div p
<1>1. v * q \in Nat /\ v * q > 0
  BY Z3
<1>2. w \in Nat
  BY <1>1, Quotient
<1>3. p * w = v * q
  <2> DEFINE x == v * q
  <2>1. x \in Nat /\ x % p = 0
    BY <1>1
  <2> HIDE DEF x
  <2>2. x = p * (x \div p) + (x % p)
    BY <2>1, Z3
  <2>3. x \div p \in Nat
    BY <2>1, Quotient
  <2>4. x = p * (x \div p)
    BY <2>1, <2>2, <2>3
  <2> QED
    BY <2>4 DEF x
<1> HIDE DEF w
<1>4. w # 0
  BY <1>1, <1>3
<1>5. p * (w * e) = e * (p * w) /\ e * (v * q) = q * (v * e) /\ q * (b * p) = p * (b * q)
  BY <1>2
<1>6. w * e \in Int /\ b * q \in Int
  BY <1>2
<1>7. ASSUME v * e = b * p PROVE w * e = b * q
  <2>1. p * (w * e) = p * (b * q)
    BY <1>3, <1>5, <1>7
  <2> DEFINE m == w * e
             n == b * q
  <2> HIDE DEF m, n
  <2>2. m \in Int /\ n \in Int /\ p * m = p * n
    BY <1>6, <2>1 DEF m, n
  <2>3. p * m \in Int /\ (m < n <=> p * m < p * n) /\ (n < m <=> p * n < p * m)
    BY <2>2, Scaled
  <2>4. m = n
    BY <2>2, <2>3
  <2> QED
    BY <2>4 DEF m, n
<1> QED
  BY <1>2, <1>4, <1>7 DEF w

\* With a unit for each position and for the cap, every position gets one.
LEMMA SharesArePositive ==
  ASSUME NEW symbols \in SUBSET Universe, NEW amount \in Nat,
         amount >= CapDen + Cardinality(Universe), NEW s \in symbols
  PROVE  Weighted(symbols, amount)[s] > 0 /\ amount > 0
<1> USE CapAssumption
<1> DEFINE n == Cardinality(symbols)
           share == amount \div n
           cap == (amount * CapNum) \div CapDen
<1>1. IsFiniteSet(symbols) /\ n \in Nat /\ n # 0 /\ n <= Cardinality(Universe)
      /\ Cardinality(Universe) \in Nat
  BY UniverseIsFinite, FS_Subset, FS_CardinalityType, FS_EmptySet
<1>2. n <= amount /\ CapDen <= amount /\ CapDen \in Nat \ {0} /\ amount > 0
  BY <1>1
<1>3. share \in Nat /\ 1 <= share
  <2> HIDE DEF n
  <2>1. n \in Nat \ {0} /\ n * 1 <= amount /\ 1 \in Int
    BY <1>1, <1>2
  <2> QED
    BY <2>1, Quotient, QuotientIsGreatest
<1>4. cap \in Nat /\ 1 <= cap
  <2>1. amount * CapNum \in Nat /\ amount <= amount * CapNum
    <3>1. amount * 1 <= amount * CapNum
      BY Scaled
    <3> QED
      BY <3>1
  <2>2. CapDen * 1 <= amount * CapNum
    BY <1>2, <2>1
  <2> QED
    BY <1>2, <2>1, <2>2, Quotient, QuotientIsGreatest
<1>5. Weighted(symbols, amount)[s] = Min({share, cap})
  BY DEF Weighted
<1> HIDE DEF share, cap
<1>6. Min({share, cap}) >= 1
  BY <1>3, <1>4, MinOfTwo
<1>7. Min({share, cap}) \in Nat
  BY <1>3, <1>4, MinOfTwo
<1> QED
  BY <1>2, <1>5, <1>6, <1>7

\* Where no position is left, the equity is cash.
LEMMA EmptyBook ==
  ASSUME MoneyInv, WorthInv, held = {}
  PROVE  cash = equity
<1>1. \A s \in Universe : value[s] = 0
  <2>1. \A s \in Universe : value[s] \in Nat /\ ~(value[s] > 0)
    BY DEF MoneyInv, WorthInv, NoStrayMoney
  <2> QED
    BY <2>1
<1>2. value = Nothing
  BY <1>1 DEF MoneyInv, Nothing
<1> QED
  BY <1>2, TotalOfNothing DEF MoneyInv

LEMMA ExactStep ==
  ASSUME BookInv, MoneyInv, WorthInv, ExactInv, [NothingRounded]_bookVars, [BookNext]_bookVars
  PROVE  ExactInv'
<1> USE DEF ExactInv, MarkedToMarket
<1>1. /\ EngineTypeOK /\ value \in [Universe -> Nat] /\ bought \in [Universe -> Nat]
      /\ held \subseteq Universe
  BY DEF BookInv, MoneyInv, WorthInv, EngineTypeOK
<1>2. ASSUME NEW i \in DOMAIN pending
      PROVE  pending[i].symbols \in SUBSET Universe
  <2>1. pending \in Seq(OrderSet)
    BY <1>1 DEF EngineTypeOK
  <2>2. pending[i] \in OrderSet
    BY <2>1
  <2> QED
    BY <2>2 DEF OrderSet
<1>3. MoneyInv' /\ equity \in Nat /\ Total(value) \in Nat /\ Total(value) <= equity
  BY MoneyStep, MoneyFacts
<1>4. CASE UNCHANGED bookVars
  BY <1>4 DEF bookVars, vars, inputs, money
<1>5. CASE BookSendStops \/ BookDecide
  BY <1>5 DEF BookSendStops, BookDecide, SendStops, Decide, money, inputs
<1>6. CASE BookNextDay
  <2>1. /\ value' = Marked(value) /\ gapped' = gapped \cup {s \in held : ~Priced(s)}
        /\ equity' = cash + Total(value') /\ cash' = cash
        /\ bought' = bought /\ held' = held /\ entry' = entry
    BY <1>6 DEF BookNextDay, NextDay
  <2>2. bars'[0] = bars[1] /\ today' = today + 1
    <3>1. PICK bar \in Bars : bars' = [k \in Window |-> IF k = 1 THEN bar ELSE bars[k + 1]]
      BY <1>6 DEF BookNextDay, NextDay
    <3> QED
      BY <1>6, <3>1, WindowHas DEF BookNextDay, NextDay
  <2>3. \A s \in held : Priced(s) => (value[s] * bars[1][s]) % bars[0][s] = 0
    <3>1. today' # today
      BY <1>1, <2>2 DEF EngineTypeOK
    <3> QED
      BY <3>1 DEF NothingRounded, bookVars, vars
  <2>4. ASSUME NEW s \in held
        PROVE  /\ value'[s] > 0
               /\ s \notin gapped' => value'[s] * entry'[s] = bought'[s] * bars'[0][s]
    <3>1. s \in Universe /\ value[s] \in Nat /\ value[s] > 0
      BY <1>1
    <3>2. CASE ~Priced(s)
      BY <2>1, <3>1, <3>2 DEF Marked
    <3>3. CASE Priced(s)
      <4>1. /\ bars[0][s] \in Nat \ {0} /\ bars[1][s] \in Nat \ {0} /\ entry[s] \in Nat
            /\ bought[s] \in Nat
        BY <1>1, <3>1, <3>3, PricedBars DEF Priced
      <4> DEFINE w == (value[s] * bars[1][s]) \div bars[0][s]
      <4>2. (value[s] * bars[1][s]) % bars[0][s] = 0
        BY <2>3, <3>3
      <4>3. value'[s] = w
        BY <2>1, <3>1, <3>3 DEF Marked
      <4>4. /\ w > 0
            /\ value[s] * entry[s] = bought[s] * bars[0][s] => w * entry[s] = bought[s] * bars[1][s]
        <5> DEFINE v == value[s]
                   p == bars[0][s]
                   q == bars[1][s]
                   e == entry[s]
                   b == bought[s]
        <5>1. /\ v \in Nat /\ v > 0 /\ e \in Nat /\ b \in Nat /\ p \in Nat \ {0} /\ q \in Nat \ {0}
              /\ (v * q) % p = 0
          BY <3>1, <4>1, <4>2
        <5> HIDE DEF v, p, q, e, b
        <5>2. (v * q) \div p > 0 /\ (v * e = b * p => ((v * q) \div p) * e = b * q)
          BY <5>1, MarkIsExact
        <5> QED
          BY <5>2 DEF v, p, q, e, b
      <4>5. s \notin gapped => value[s] * entry[s] = bought[s] * bars[0][s]
        OBVIOUS
      <4> HIDE DEF w
      <4> QED
        BY <2>1, <2>2, <4>3, <4>4, <4>5
    <3> QED
      BY <3>2, <3>3
  <2>5. equity' > 0
    <3>1. cash \in Nat /\ value' \in [Universe -> Nat]
      BY <1>3, <2>1 DEF MoneyInv
    <3>2. Total(value') \in Nat
      BY <3>1, TotalOfNaturals
    <3>3. CASE held = {}
      BY <2>1, <3>1, <3>2, <3>3, EmptyBook
    <3>4. CASE held # {}
      <4>1. PICK s \in held : TRUE
        BY <3>4
      <4>2. s \in Universe /\ value'[s] > 0 /\ value'[s] \in Nat
        BY <1>1, <2>4, <3>1
      <4>3. value'[s] <= Total(value')
        BY <3>1, <4>2, TotalHasTerm
      <4> QED
        BY <2>1, <3>1, <3>2, <4>2, <4>3
    <3> QED
      BY <3>3, <3>4
  <2> QED
    BY <2>1, <2>4, <2>5
<1>7. ASSUME NEW i \in DOMAIN pending, BookFillExit(i) PROVE ExactInv'
  <2>1. OrderOK(pending[i], claims, lag, today) /\ pending[i].kind = "stop_exit"
    BY <1>7 DEF BookInv, OrdersInv, BookFillExit, FillExit
  <2>2. PICK s \in Universe : pending[i].symbols = {s}
    BY <2>1 DEF OrderOK
  <2>3. /\ SellAll(s) /\ gapped' = gapped \ {s} /\ bought' = bought /\ bars' = bars
        /\ held' = held \ {s} /\ entry' = IF s \in held THEN EntryAfter(s) ELSE entry
    BY <1>7, <2>2 DEF BookFillExit, FillExit, inputs
  <2>4. equity' > 0 /\ \A t \in Universe : t # s => value'[t] = value[t]
    <3>1. value[s] \in Nat /\ value[s] <= Total(value)
      BY <1>1, TotalHasTerm
    <3>2. Cost(value[s]) \in Nat /\ 10 * Cost(value[s]) <= value[s]
      BY <3>1, CostIsSmall
    <3>3. CASE value' = value /\ equity' = equity
      BY <3>3
    <3>4. CASE value' = [value EXCEPT ![s] = 0] /\ equity' = equity - Cost(value[s])
      <4>1. equity' > 0
        BY <1>3, <3>1, <3>2, <3>4
      <4> QED
        BY <1>1, <3>4, <4>1
    <3> QED
      BY <2>3, <3>3, <3>4 DEF SellAll
  <2>5. \A t \in Universe : t # s => entry'[t] = entry[t]
    BY <1>1, <2>3 DEF EntryAfter, EngineTypeOK, Closes
  <2>6. \A t \in held' : t \in held /\ t \in Universe /\ t # s
    BY <1>1, <2>3
  <2>7. ASSUME NEW t \in held' \ gapped' PROVE value'[t] * entry'[t] = bought'[t] * bars'[0][t]
    <3>1. t \in held \ gapped /\ value'[t] = value[t] /\ entry'[t] = entry[t]
      BY <2>3, <2>4, <2>5, <2>6
    <3> QED
      BY <2>3, <3>1
  <2> QED
    BY <2>4, <2>6, <2>7
<1>8. ASSUME NEW i \in DOMAIN pending, BookFillRebalance(i) PROVE ExactInv'
  <2> DEFINE symbols == pending[i].symbols
             after == equity - Cost(Traded(symbols))
  <2>1. /\ ApplyTarget(symbols) /\ held' = symbols /\ bars' = bars /\ bought' = value'
        /\ entry' = [s \in Universe |-> IF s \in held' THEN bars[0][s] ELSE NoBar]
    BY <1>8 DEF BookFillRebalance, FillRebalance, inputs
  <2>2. symbols \in SUBSET Universe
    BY <1>2
  <2>3. value' = Weighted(symbols, after) /\ equity' = after
    <3>1. ~(equity <= 0)
      BY <1>3
    <3> QED
      BY <2>1, <3>1 DEF ApplyTarget
  <2>4. after \in Nat
    BY <2>2, AfterCost
  <2>5. equity' >= CapDen + Cardinality(Universe)
    <3>1. pending' # pending
      <4>1. pending' = RemoveAt(pending, i) /\ pending \in Seq(OrderSet)
        BY <1>1, <1>8 DEF BookFillRebalance, FillRebalance, EngineTypeOK
      <4>2. Len(pending') = Len(pending) - 1 /\ Len(pending) \in Nat
        BY <4>1, Removed
      <4> QED
        BY <4>2
    <3> QED
      BY <1>8, <3>1 DEF NothingRounded, bookVars, vars
  <2> HIDE DEF symbols, after
  <2>6. \A s \in symbols : value'[s] > 0
    BY <2>2, <2>3, <2>4, <2>5, SharesArePositive
  <2>7. equity' > 0
    BY <2>3, <2>4, <2>5, CapAssumption, UniverseIsFinite
  <2>8. ASSUME NEW s \in held' PROVE value'[s] * entry'[s] = bought'[s] * bars'[0][s]
    BY <2>1, <2>2, <2>8
  <2> QED
    BY <2>1, <2>6, <2>7, <2>8
<1> QED
  BY <1>4, <1>5, <1>6, <1>7, <1>8 DEF BookNext

LEMMA ExactAlways == BookSpec /\ [][NothingRounded]_bookVars => [](BookInv /\ WorthInv /\ ExactInv)
<1>1. BookInit => WorthInv /\ ExactInv
  <2> SUFFICES ASSUME BookInit PROVE WorthInv /\ ExactInv
    OBVIOUS
  <2>1. value = Nothing /\ bought = Nothing /\ held = {} /\ equity = Capital
    BY DEF BookInit, Init
  <2>2. WorthInv
    BY <2>1, TotalOfNothing DEF WorthInv, NoStrayMoney, NeverOverstated, Nothing
  <2> QED
    BY <2>1, <2>2, CapitalAssumption DEF ExactInv, MarkedToMarket
<1>2. BookInv /\ MoneyInv /\ WorthInv /\ ExactInv /\ [NothingRounded]_bookVars /\ [BookNext]_bookVars
      => ExactInv'
  BY ExactStep
<1> QED
  BY <1>1, <1>2, WorthStep, MoneyAlways, BookAlways, BookFollowsEngine, PTL DEF BookSpec

\* As long as no step loses units to rounding, for every capital, cost rate, cap,
\* universe and price history: the early returns of step 4 are never taken, and
\* the symbols the engine holds are exactly those with money in them.
THEOREM HeldIsWhatHasMoney == BookSpec /\ [][NothingRounded]_bookVars => []BookIsHeld
<1>1. BookInv /\ WorthInv /\ ExactInv => BookIsHeld
  BY DEF BookInv, EngineTypeOK, WorthInv, NoStrayMoney, ExactInv, BookIsHeld
<1> QED
  BY <1>1, ExactAlways, PTL

\* "v4 marks each holding to market": under the same condition a position without a
\* gap in its bars is worth exactly what was paid times the change of its price,
\* however often it was marked since.
THEOREM MarksAreExact == BookSpec /\ [][NothingRounded]_bookVars => []MarkedToMarket
<1>1. ExactInv => MarkedToMarket
  BY DEF ExactInv
<1> QED
  BY <1>1, ExactAlways, PTL
=============================================================================
