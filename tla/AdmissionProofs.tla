-------------------------- MODULE AdmissionProofs ---------------------------
(***************************************************************************)
(* Proofs about StrategyDrafts and BacktestAdmission, for any claims,      *)
(* requests, edits and backtests.                                          *)
(***************************************************************************)
EXTENDS BacktestAdmission, FiniteSetTheorems, SequenceTheorems, WellFoundedInduction, TLAPS

(***************************************************************************)
(* Lists.                                                                  *)
(***************************************************************************)
\* SetToSeq lists a finite set.
LEMMA SequenceOfSet ==
  ASSUME NEW S, IsFiniteSet(S)
  PROVE  SetToSeq(S) \in Seq(S)
<1> DEFINE n == Cardinality(S)
<1>1. n \in Nat
  BY FS_CardinalityType
<1>2. IsFiniteSet(1 .. n) /\ Cardinality(1 .. n) = n
  BY <1>1, FS_Interval
<1>3. ExistsBijection(1 .. n, S)
  BY <1>2, FS_SameCardinalityBij
<1>4. PICK f \in [1 .. n -> S] : IsInjective(f)
  BY <1>3 DEF ExistsBijection, Bijection, Injection, IsInjective
<1>5. SetToSeq(S) \in [1 .. n -> S]
  BY <1>4 DEF SetToSeq
<1> QED
  BY <1>1, <1>5

\* The entries of two lists one after the other.
LEMMA Joined ==
  ASSUME NEW S, NEW p \in Seq(S), NEW q \in Seq(S)
  PROVE  p \o q \in Seq(S) /\ \A i \in DOMAIN (p \o q) :
           (\E j \in DOMAIN p : (p \o q)[i] = p[j]) \/ (\E j \in DOMAIN q : (p \o q)[i] = q[j])
<1>1. /\ p \o q \in Seq(S) /\ Len(p \o q) = Len(p) + Len(q)
      /\ \A i \in 1 .. Len(p) + Len(q) : (p \o q)[i] = IF i <= Len(p) THEN p[i] ELSE q[i - Len(p)]
  BY ConcatProperties
<1>2. ASSUME NEW i \in DOMAIN (p \o q)
      PROVE  (\E j \in DOMAIN p : (p \o q)[i] = p[j]) \/ (\E j \in DOMAIN q : (p \o q)[i] = q[j])
  <2>1. i \in 1 .. Len(p) + Len(q) /\ Len(p) \in Nat /\ Len(q) \in Nat
        /\ DOMAIN p = 1 .. Len(p) /\ DOMAIN q = 1 .. Len(q)
    BY <1>1
  <2>2. CASE i <= Len(p)
    BY <1>1, <2>1, <2>2
  <2>3. CASE ~(i <= Len(p))
    <3>1. i - Len(p) \in DOMAIN q
      BY <2>1, <2>3
    <3> QED
      BY <1>1, <2>1, <2>3, <3>1
  <2> QED
    BY <2>2, <2>3
<1> QED
  BY <1>1, <1>2

\* A set of numbers has a least one.
LEMMA LeastNumber ==
  ASSUME NEW T \in SUBSET Nat, T # {}
  PROVE  \E x \in T : \A y \in T : x <= y
<1> DEFINE R == {ss \in Nat \X Nat : ss[1] < ss[2]}
<1>1. IsWellFoundedOn(R, Nat)
  BY NatLessThanWellFounded DEF OpToRel
<1> HIDE DEF R
<1>2. PICK x \in T : \A y \in T : <<y, x>> \notin R
  BY <1>1, WFMin
<1>3. ASSUME NEW y \in T PROVE x <= y
  <2>1. ~(y < x)
    BY <1>2 DEF R
  <2> QED
    BY <2>1
<1> QED
  BY <1>3

\* An injective list is as long as the set of its entries.
LEMMA NoRepetition ==
  ASSUME NEW ids, IsFiniteSet(DOMAIN ids), ids = [i \in DOMAIN ids |-> ids[i]], ~Repeats(ids)
  PROVE  Cardinality(ToSet(ids)) = Cardinality(DOMAIN ids)
<1> DEFINE D == DOMAIN ids
           T == ToSet(ids)
<1>1. ids \in [D -> T] /\ \A t \in T : \E i \in D : ids[i] = t
  BY DEF ToSet
<1>2. \A i, j \in D : ids[i] = ids[j] => i = j
  BY DEF Repeats, IsInjective
<1>3. ids \in Surjection(D, T)
  BY <1>1 DEF Surjection
<1>4. ids \in Injection(D, T)
  BY <1>1, <1>2 DEF Injection, IsInjective
<1> QED
  BY <1>3, <1>4, FS_Surjection

-----------------------------------------------------------------------------
(***************************************************************************)
(* Sums.  A property of sums is proved by induction on the subsets summed  *)
(* over: the sets for which it holds are all of them.                      *)
(***************************************************************************)
Pick(T) == CHOOSE x \in T : TRUE

LEMMA Picked == ASSUME NEW T, T # {} PROVE Pick(T) \in T
  BY DEF Pick

\* What holds of {} and of a set without the element chosen from it holds of all.
LEMMA SubsetInduction ==
  ASSUME NEW S, IsFiniteSet(S), NEW good \in SUBSET SUBSET S, {} \in good,
         \A T \in SUBSET S : T # {} /\ T \ {Pick(T)} \in good => T \in good
  PROVE  good = SUBSET S
<1> SUFFICES ASSUME (SUBSET S) \ good # {} PROVE FALSE
  OBVIOUS
<1> DEFINE sizes == {Cardinality(T) : T \in (SUBSET S) \ good}
<1>1. \A T \in SUBSET S : IsFiniteSet(T) /\ Cardinality(T) \in Nat
  BY FS_Subset, FS_CardinalityType
<1>2. sizes \in SUBSET Nat /\ sizes # {}
  BY <1>1
<1>3. PICK n \in sizes : \A m \in sizes : n <= m
  BY <1>2, LeastNumber
<1>4. PICK T \in (SUBSET S) \ good : n = Cardinality(T)
  BY <1>3
<1> DEFINE x == Pick(T)
<1>5. T # {} /\ x \in T
  BY Picked
<1> HIDE DEF x
<1>6. Cardinality(T \ {x}) = Cardinality(T) - 1
  BY <1>1, <1>5, FS_RemoveElement
<1>7. T \ {x} \in good
  <2>1. T \ {x} \in SUBSET S
    OBVIOUS
  <2>2. ~(n <= Cardinality(T \ {x}))
    BY <1>1, <1>4, <1>6
  <2> QED
    BY <1>3, <2>1, <2>2
<1> QED
  BY <1>5, <1>7 DEF x

\* One step of the sum of the terms in T, from the sums of smaller sets.
SumStep(a, g, T) == IF T = {} THEN 0 ELSE a[Pick(T)] + g[T \ {Pick(T)}]

Sums(a, D) == CHOOSE g : g = [T \in SUBSET D |-> SumStep(a, g, T)]

UpTo(D, n) == {T \in SUBSET D : Cardinality(T) <= n}

\* There is such a function: on the sets of at most n elements, for each n.
Summed(D, a, n) == \E g : g = [T \in UpTo(D, n) |-> SumStep(a, g, T)]

LEMMA SumsExist ==
  ASSUME NEW D, IsFiniteSet(D), NEW a, NEW n \in Nat
  PROVE  Summed(D, a, n)
<1> DEFINE bad == {k \in Nat : ~ \E g : g = [T \in UpTo(D, k) |-> SumStep(a, g, T)]}
<1> SUFFICES ASSUME bad # {} PROVE FALSE
  BY DEF Summed
<1>1. PICK k \in bad : \A m \in bad : k <= m
  <2>1. bad \in SUBSET Nat
    OBVIOUS
  <2> HIDE DEF bad
  <2> QED
    BY <2>1, LeastNumber
<1>2. \A T \in SUBSET D : IsFiniteSet(T) /\ Cardinality(T) \in Nat
  BY FS_Subset, FS_CardinalityType
<1>3. CASE k = 0
  <2> DEFINE h == [T \in UpTo(D, k) |-> 0]
  <2>1. \A T \in UpTo(D, k) : T = {}
    BY <1>2, <1>3, FS_EmptySet DEF UpTo
  <2>2. h = [T \in UpTo(D, k) |-> SumStep(a, h, T)]
    BY <2>1 DEF SumStep
  <2> QED
    BY <1>1, <2>2
<1>4. CASE k # 0
  <2>1. k - 1 \in Nat /\ ~(k <= k - 1)
    BY <1>4
  <2>2. k - 1 \notin bad
    BY <1>1, <2>1
  <2>3. PICK g : g = [T \in UpTo(D, k - 1) |-> SumStep(a, g, T)]
    BY <2>1, <2>2
  <2> DEFINE h == [T \in UpTo(D, k) |-> SumStep(a, g, T)]
  <2>4. ASSUME NEW T \in UpTo(D, k), T # {} PROVE T \ {Pick(T)} \in UpTo(D, k - 1)
    <3>1. Pick(T) \in T /\ T \in SUBSET D /\ Cardinality(T) <= k
      BY <2>4, Picked DEF UpTo
    <3>2. Cardinality(T \ {Pick(T)}) = Cardinality(T) - 1
      BY <1>2, <3>1, FS_RemoveElement
    <3>3. Cardinality(T \ {Pick(T)}) <= k - 1
      <4>1. Cardinality(T) \in Nat /\ k \in Nat
        BY <1>2, <3>1
      <4> QED
        BY <3>1, <3>2, <4>1
    <3> QED
      BY <3>1, <3>3 DEF UpTo
  <2>5. ASSUME NEW T \in UpTo(D, k - 1) PROVE T \in UpTo(D, k) /\ h[T] = g[T]
    <3>1. T \in UpTo(D, k)
      BY <1>2, <2>1 DEF UpTo
    <3>2. h[T] = SumStep(a, g, T)
      BY <3>1
    <3> QED
      BY <2>3, <3>1, <3>2
  <2>6. ASSUME NEW T \in UpTo(D, k) PROVE SumStep(a, g, T) = SumStep(a, h, T)
    <3> HIDE DEF h
    <3> QED
      BY <2>4, <2>5 DEF SumStep
  <2>7. h = [T \in UpTo(D, k) |-> SumStep(a, h, T)]
    BY <2>6
  <2> QED
    BY <1>1, <2>7
<1> QED
  BY <1>3, <1>4

\* How the sums of sets are made of those of smaller ones.
Unfolds(a, D) ==
  /\ Sums(a, D)[{}] = 0
  /\ \A T \in SUBSET D : T # {} =>
       /\ Sums(a, D)[T] = a[Pick(T)] + Sums(a, D)[T \ {Pick(T)}]
       /\ Pick(T) \in T /\ Pick(T) \in D
       /\ T \ {Pick(T)} \in SUBSET D

LEMMA SumsUnfold ==
  ASSUME NEW D, IsFiniteSet(D), NEW a
  PROVE  Unfolds(a, D)
<1>1. UpTo(D, Cardinality(D)) = SUBSET D /\ Cardinality(D) \in Nat
  BY FS_Subset, FS_CardinalityType DEF UpTo
<1>2. Summed(D, a, Cardinality(D))
  BY <1>1, SumsExist
<1>3. PICK g : g = [T \in UpTo(D, Cardinality(D)) |-> SumStep(a, g, T)]
  BY <1>2 DEF Summed
<1>4. g = [T \in SUBSET D |-> SumStep(a, g, T)]
  BY <1>1, <1>3, Zenon
<1>5. Sums(a, D) = [T \in SUBSET D |-> SumStep(a, Sums(a, D), T)]
  BY <1>4 DEF Sums
<1>6. \A T \in SUBSET D : Sums(a, D)[T] = SumStep(a, Sums(a, D), T)
  BY <1>5
<1>7. \A T \in SUBSET D : T # {} => Pick(T) \in T
  BY Picked
<1> QED
  BY <1>6, <1>7 DEF SumStep, Unfolds

LEMMA SumIsSums ==
  ASSUME NEW a
  PROVE  SumFunction(a) = Sums(a, DOMAIN a)[DOMAIN a]
  BY DEF SumFunction, SumFunctionOnSet, FoldFunctionOnSet, Sums, SumStep, Pick, MapThenFoldSet

LEMMA SumsAreNumbers ==
  ASSUME NEW D, IsFiniteSet(D), NEW a \in [D -> Int]
  PROVE  \A T \in SUBSET D : Sums(a, D)[T] \in Int
<1>u. Unfolds(a, D)
  BY SumsUnfold
<1> DEFINE good == {T \in SUBSET D : Sums(a, D)[T] \in Int}
<1>1. {} \in good
  BY <1>u DEF Unfolds
<1>2. ASSUME NEW T \in SUBSET D, T # {}, T \ {Pick(T)} \in good PROVE T \in good
  <2>1. Sums(a, D)[T] = a[Pick(T)] + Sums(a, D)[T \ {Pick(T)}] /\ Pick(T) \in D
    BY <1>2, <1>u DEF Unfolds
  <2>2. a[Pick(T)] \in Int /\ Sums(a, D)[T \ {Pick(T)}] \in Int
    BY <1>2, <2>1
  <2> QED
    BY <2>1, <2>2
<1>3. good \in SUBSET SUBSET D
  OBVIOUS
<1> HIDE DEF good
<1>4. good = SUBSET D
  BY <1>1, <1>2, <1>3, SubsetInduction
<1> QED
  BY <1>4 DEF good

\* A sum changes by what one of its terms changes.
LEMMA SumOneChange ==
  ASSUME NEW D, IsFiniteSet(D), NEW a \in [D -> Int], NEW b \in [D -> Int], NEW s \in D,
         \A t \in D : t # s => b[t] = a[t]
  PROVE  SumFunction(b) = SumFunction(a) + (b[s] - a[s]) /\ SumFunction(a) \in Int
<1>u. Unfolds(a, D) /\ Unfolds(b, D)
  BY SumsUnfold
<1> DEFINE change(T) == IF s \in T THEN b[s] - a[s] ELSE 0
           good == {T \in SUBSET D : Sums(b, D)[T] = Sums(a, D)[T] + change(T)}
<1>0. \A T \in SUBSET D : Sums(a, D)[T] \in Int /\ Sums(b, D)[T] \in Int
  BY SumsAreNumbers
<1>1. {} \in good
  BY <1>u DEF Unfolds
<1>2. ASSUME NEW T \in SUBSET D, T # {}, T \ {Pick(T)} \in good PROVE T \in good
  <2> DEFINE x == Pick(T)
             R == T \ {x}
  <2>1. /\ Sums(a, D)[T] = a[x] + Sums(a, D)[R] /\ Sums(b, D)[T] = b[x] + Sums(b, D)[R]
        /\ x \in T /\ x \in D /\ R \in SUBSET D
    BY <1>2, <1>u DEF Unfolds
  <2>2. Sums(b, D)[R] = Sums(a, D)[R] + change(R)
    BY <1>2
  <2>3. b[x] + change(R) = a[x] + change(T)
    <3>1. a[x] \in Int /\ b[x] \in Int /\ a[s] \in Int /\ b[s] \in Int
      BY <2>1
    <3>2. CASE x = s
      <4>1. change(R) = 0 /\ change(T) = b[s] - a[s]
        BY <2>1, <3>2
      <4> QED
        BY <3>1, <3>2, <4>1
    <3>3. CASE x # s
      <4>1. (s \in R <=> s \in T) /\ b[x] = a[x]
        BY <2>1, <3>3
      <4> QED
        BY <4>1
    <3> QED
      BY <3>2, <3>3
  <2>4. change(R) \in Int /\ change(T) \in Int /\ a[x] \in Int /\ b[x] \in Int
    <3>1. a[s] \in Int /\ b[s] \in Int
      OBVIOUS
    <3>2. a[x] \in Int /\ b[x] \in Int
      <4> HIDE DEF x
      <4> QED
        BY <2>1
    <3> QED
      BY <3>1, <3>2
  <2>5. Sums(a, D)[R] \in Int
    BY <1>0, <2>1
  <2> HIDE DEF change, R, x
  <2>6. Sums(b, D)[T] = Sums(a, D)[T] + change(T)
    BY <2>1, <2>2, <2>3, <2>4, <2>5
  <2> QED
    BY <2>6
<1>3. good \in SUBSET SUBSET D
  OBVIOUS
<1> HIDE DEF good
<1>4. good = SUBSET D
  BY <1>1, <1>2, <1>3, SubsetInduction
<1>5. Sums(b, D)[D] = Sums(a, D)[D] + change(D)
  BY <1>4 DEF good
<1> QED
  BY <1>0, <1>5, SumIsSums

\* A sum of terms none of which is less is not less.
LEMMA SumIsMonotone ==
  ASSUME NEW D, IsFiniteSet(D), NEW a \in [D -> Int], NEW b \in [D -> Int],
         \A t \in D : a[t] <= b[t]
  PROVE  SumFunction(a) <= SumFunction(b) /\ SumFunction(a) \in Int /\ SumFunction(b) \in Int
<1>u. Unfolds(a, D) /\ Unfolds(b, D)
  BY SumsUnfold
<1> DEFINE good == {T \in SUBSET D : Sums(a, D)[T] <= Sums(b, D)[T]}
<1>0. \A T \in SUBSET D : Sums(a, D)[T] \in Int /\ Sums(b, D)[T] \in Int
  BY SumsAreNumbers
<1>1. {} \in good
  BY <1>u DEF Unfolds
<1>2. ASSUME NEW T \in SUBSET D, T # {}, T \ {Pick(T)} \in good PROVE T \in good
  <2> DEFINE x == Pick(T)
             R == T \ {x}
  <2>1. /\ Sums(a, D)[T] = a[x] + Sums(a, D)[R] /\ Sums(b, D)[T] = b[x] + Sums(b, D)[R]
        /\ x \in D /\ R \in SUBSET D
    BY <1>2, <1>u DEF Unfolds
  <2>2. Sums(a, D)[R] <= Sums(b, D)[R]
    BY <1>2
  <2> HIDE DEF x, R
  <2>3. a[x] \in Int /\ b[x] \in Int /\ a[x] <= b[x]
    BY <2>1
  <2>4. Sums(a, D)[T] <= Sums(b, D)[T]
    BY <1>0, <2>1, <2>2, <2>3
  <2> QED
    BY <2>4
<1>3. good \in SUBSET SUBSET D
  OBVIOUS
<1> HIDE DEF good
<1>4. good = SUBSET D
  BY <1>1, <1>2, <1>3, SubsetInduction
<1>5. Sums(a, D)[D] <= Sums(b, D)[D]
  BY <1>4 DEF good
<1> QED
  BY <1>0, <1>5, SumIsSums

LEMMA SumOfZeros ==
  ASSUME NEW D, IsFiniteSet(D), NEW a, a = [x \in D |-> 0]
  PROVE  SumFunction(a) = 0
<1>u. Unfolds(a, D)
  BY SumsUnfold
<1> DEFINE good == {T \in SUBSET D : Sums(a, D)[T] = 0}
<1>1. {} \in good
  BY <1>u DEF Unfolds
<1>2. ASSUME NEW T \in SUBSET D, T # {}, T \ {Pick(T)} \in good PROVE T \in good
  <2>1. Sums(a, D)[T] = a[Pick(T)] + Sums(a, D)[T \ {Pick(T)}] /\ Pick(T) \in D
    BY <1>2, <1>u DEF Unfolds
  <2> QED
    BY <1>2, <2>1
<1>3. good \in SUBSET SUBSET D
  OBVIOUS
<1> HIDE DEF good
<1>4. good = SUBSET D
  BY <1>1, <1>2, <1>3, SubsetInduction
<1>5. Sums(a, D)[D] = 0
  BY <1>4 DEF good
<1> QED
  BY <1>5, SumIsSums

\* Terms may be given other indices, and terms of 0 added.
LEMMA Reindexed ==
  ASSUME NEW S, IsFiniteSet(S), NEW U, IsFiniteSet(U),
         NEW f \in [S -> U], \A i, j \in S : f[i] = f[j] => i = j,
         NEW a \in [S -> Int], NEW b \in [U -> Int],
         \A i \in S : b[f[i]] = a[i],
         \A u \in U : (\A i \in S : f[i] # u) => b[u] = 0
  PROVE  SumFunction(a) = SumFunction(b)
<1>u. Unfolds(a, S)
  BY SumsUnfold
<1> DEFINE part(T) == [u \in U |-> IF \E i \in T : f[i] = u THEN b[u] ELSE 0]
           good == {T \in SUBSET S : SumFunction(part(T)) = Sums(a, S)[T]}
<1>1. {} \in good
  <2>1. part({}) = [u \in U |-> 0]
    OBVIOUS
  <2> HIDE DEF part
  <2>2. SumFunction(part({})) = 0
    BY <2>1, SumOfZeros
  <2> QED
    BY <1>u, <2>2 DEF Unfolds
<1>2. ASSUME NEW T \in SUBSET S, T # {}, T \ {Pick(T)} \in good PROVE T \in good
  <2> DEFINE x == Pick(T)
             R == T \ {x}
  <2>1. Sums(a, S)[T] = a[x] + Sums(a, S)[R] /\ x \in T /\ x \in S /\ R \in SUBSET S
    BY <1>2, <1>u DEF Unfolds
  <2>2. SumFunction(part(R)) = Sums(a, S)[R]
    BY <1>2
  <2> HIDE DEF x
  <2>3. f[x] \in U /\ part(T) \in [U -> Int] /\ part(R) \in [U -> Int]
    BY <2>1
  <2>4. part(T)[f[x]] = a[x] /\ part(R)[f[x]] = 0
    BY <2>1, <2>3
  <2>5. \A u \in U : u # f[x] => part(T)[u] = part(R)[u]
    BY <2>1
  <2>6. a[x] \in Int
    BY <2>1
  <2> HIDE DEF part, R
  <2>7. SumFunction(part(T)) = SumFunction(part(R)) + (a[x] - 0) /\ SumFunction(part(R)) \in Int
    BY <2>3, <2>4, <2>5, SumOneChange
  <2>8. SumFunction(part(T)) = Sums(a, S)[T]
    BY <2>1, <2>2, <2>6, <2>7
  <2> QED
    BY <2>8
<1>3. good \in SUBSET SUBSET S
  OBVIOUS
<1>4. part(S) = b
  OBVIOUS
<1> HIDE DEF good
<1>5. good = SUBSET S
  BY <1>1, <1>2, <1>3, SubsetInduction
<1> HIDE DEF part
<1>6. SumFunction(part(S)) = Sums(a, S)[S]
  BY <1>5 DEF good
<1> QED
  BY <1>4, <1>6, SumIsSums

-----------------------------------------------------------------------------
(***************************************************************************)
(* What was read, the draft and the submission.                            *)
(***************************************************************************)
Reviews == {"pending", "accepted", "rejected", "deleted"}
ReadClaim == [id : Claims, review : Reviews]

IsRequest(r) ==
  r = [phase |-> r.phase, claims |-> r.claims, documents |-> r.documents, read |-> r.read,
       draft |-> r.draft, answer |-> r.answer]

\* A list of claims shows each of them as it is, unless it was touched since.
ReadInv ==
  /\ review \in [Claims -> Reviews] /\ says \in [Claims -> ClaimData]
  /\ IsRequest(request)
  /\ request.read \in Seq(ReadClaim) /\ request.claims \in Seq(Claims)
  /\ \A i \in DOMAIN request.read :
       request.read[i].id \in touched \/ review[request.read[i].id] = request.read[i].review

\* The filters BuildDraft proposes.
ProposedFilter(f) ==
  \/ /\ f.field = "claim_confidence" /\ f.operator = "gte"
     /\ f.value.kind = "number" /\ f.value.of \in 0 .. One
  \/ f.field = "claim_signal_weight" /\ f.operator = "eq" /\ f.value = Number(250)
  \/ f.field = "cash_policy" /\ f.operator = "eq" /\ f.value = Text("extend")

IsDraft(d, read) ==
  /\ d = [kind |-> d.kind, universe |-> d.universe, filters |-> d.filters, claims |-> d.claims]
  /\ d.universe # {}
  /\ DOMAIN d.filters = 1 .. 3 /\ d.filters \in Seq({d.filters[i] : i \in 1 .. 3})
  /\ \A i \in 1 .. 3 : ProposedFilter(d.filters[i])
  /\ d.claims = Ids(Accepted(read))

\* An answer is final, and the draft it carries is that of the claims read.
DraftInv == request.answer # "none" =>
  /\ request.phase = "answered"
  /\ request.answer = "drafted" => IsDraft(request.draft, request.read)

LEMMA InitRead == DraftInit => ReadInv /\ DraftInv
<1> SUFFICES ASSUME DraftInit PROVE ReadInv /\ DraftInv
  OBVIOUS
<1>1. /\ says \in [Claims -> ClaimData] /\ review \in [Claims -> {"pending", "accepted"}]
      /\ request = [phase |-> "idle", claims |-> <<>>, documents |-> <<>>, read |-> <<>>,
                    draft |-> NoDraft, answer |-> "none"]
  BY DEF DraftInit
<1>2. review \in [Claims -> Reviews]
  BY <1>1 DEF Reviews
<1>3. IsRequest(request) /\ request.read = <<>> /\ request.claims = <<>> /\ request.answer = "none"
  BY <1>1 DEF IsRequest
<1> QED
  BY <1>1, <1>2, <1>3 DEF ReadInv, DraftInv

LEMMA ClaimIsRead ==
  ASSUME review \in [Claims -> Reviews], NEW c \in Claims
  PROVE  Claim(c) \in ReadClaim /\ Claim(c).id = c /\ Claim(c).review = review[c]
  BY DEF Claim, ReadClaim

\* Reading some claims lists them as they are.
LEMMA ReadsAreCurrent ==
  ASSUME ReadInv, NEW T \in SUBSET Claims
  PROVE  LET list == SetToSeq({Claim(c) : c \in T})
         IN  /\ list \in Seq(ReadClaim)
             /\ \A i \in DOMAIN list : review[list[i].id] = list[i].review
<1> DEFINE S == {Claim(c) : c \in T}
           f == [c \in T |-> Claim(c)]
           list == SetToSeq(S)
<1>0. review \in [Claims -> Reviews]
  BY DEF ReadInv
<1>1. IsFiniteSet(T)
  BY ClaimsAssumption, FS_Subset
<1>2. f \in Surjection(T, S)
  BY DEF Surjection
<1>3. IsFiniteSet(S)
  BY <1>1, <1>2, FS_Surjection
<1>4. \A x \in S : x \in ReadClaim /\ review[x.id] = x.review
  BY <1>0, ClaimIsRead
<1> HIDE DEF S
<1>5. list \in Seq(S)
  BY <1>3, SequenceOfSet
<1> HIDE DEF list
<1>6. list \in Seq(ReadClaim) /\ \A i \in DOMAIN list : list[i] \in S
  BY <1>4, <1>5
<1>7. list \in Seq(ReadClaim) /\ \A i \in DOMAIN list : review[list[i].id] = list[i].review
  BY <1>4, <1>6
<1> QED
  BY <1>7 DEF list, S

\* A review or a replacement touches the listed claims it changes.
LEMMA ChangesKeepRead ==
  ASSUME ReadInv, DraftInv, NEW T \in SUBSET Claims, NEW status \in Reviews, Changes(T, status)
  PROVE  (ReadInv /\ DraftInv)'
<1>1. /\ review' = [c \in Claims |-> IF c \in T THEN status ELSE review[c]]
      /\ touched' = touched \cup (T \cap ToSet(Ids(request.read)))
      /\ UNCHANGED <<says, request, submission>>
  BY DEF Changes
<1>2. review' \in [Claims -> Reviews]
  BY <1>1 DEF ReadInv
<1>3. ASSUME NEW i \in DOMAIN request.read
      PROVE  request.read[i].id \in touched' \/ review'[request.read[i].id] = request.read[i].review
  <2>1. request.read \in Seq(ReadClaim)
    BY DEF ReadInv
  <2>2. request.read[i].id \in Claims
    <3>1. request.read[i] \in ReadClaim
      BY <2>1
    <3> QED
      BY <3>1 DEF ReadClaim
  <2>3. request.read[i].id \in ToSet(Ids(request.read))
    BY DEF ToSet, Ids
  <2>4. request.read[i].id \in touched \/ review[request.read[i].id] = request.read[i].review
    BY DEF ReadInv
  <2> QED
    BY <1>1, <2>2, <2>3, <2>4
<1>4. ReadInv'
  BY <1>1, <1>2, <1>3 DEF ReadInv
<1>5. DraftInv'
  BY <1>1 DEF DraftInv
<1> QED
  BY <1>4, <1>5

\* The least confidence among 1.0 and those of some claims.
LEMMA LeastConfidence ==
  ASSUME NEW C \in SUBSET (0 .. One)
  PROVE  /\ Min({One} \cup C) \in 0 .. One
         /\ \A c \in C : Min({One} \cup C) <= c
<1> DEFINE T == {One} \cup C
<1>1. T \in SUBSET Nat /\ T # {} /\ \A x \in T : x \in 0 .. One
  BY DEF One
<1> HIDE DEF T
<1>2. PICK x \in T : \A y \in T : x <= y
  BY <1>1, LeastNumber
<1>3. Min(T) \in T /\ \A y \in T : Min(T) <= y
  BY <1>2 DEF Min
<1>4. Min(T) \in 0 .. One
  BY <1>1, <1>3
<1>5. \A c \in C : Min(T) <= c
  <2>1. \A c \in C : c \in T
    BY DEF T
  <2> QED
    BY <1>3, <2>1
<1> QED
  BY <1>4, <1>5, Zenon DEF T

LEMMA FloorIsBelow ==
  ASSUME NEW n \in 0 .. One
  PROVE  Floor(n) \in 0 .. One /\ Floor(n) <= n
  BY Z3 DEF Floor, One

\* What BuildDraft proposes.
LEMMA DraftIsProposal ==
  ASSUME ReadInv, BuildDraft(request.read) # NoDraft
  PROVE  IsDraft(BuildDraft(request.read), request.read)
<1> DEFINE claims == Accepted(request.read)
           C == {says[c.id].confidence : c \in ToSet(claims)}
           n == Floor(Min({One} \cup C))
           filters == DefaultFilters(claims)
<1>1. PICK kind, universe : universe # {} /\ BuildDraft(request.read) = Proposal(kind, universe, claims)
  BY DEF BuildDraft
<1>2. ASSUME NEW c \in ToSet(claims) PROVE says[c.id].confidence \in 0 .. One
  <2>1. PICK i \in DOMAIN request.read : c = request.read[i]
    BY DEF ToSet, Accepted, Restrict
  <2>2. request.read[i] \in ReadClaim
    BY <2>1 DEF ReadInv
  <2>3. request.read[i].id \in Claims
    BY <2>2 DEF ReadClaim
  <2>4. says[request.read[i].id] \in ClaimData
    BY <2>3 DEF ReadInv
  <2>5. \A d \in ClaimData : d.confidence \in 0 .. One
    BY ClaimsAssumption
  <2> QED
    BY <2>1, <2>4, <2>5, Zenon
<1>3. C \in SUBSET (0 .. One)
  BY <1>2
<1>4. n \in 0 .. One
  <2> HIDE DEF C
  <2>1. Min({One} \cup C) \in 0 .. One
    BY <1>3, LeastConfidence, Zenon
  <2> QED
    BY <2>1, FloorIsBelow, Zenon
<1>5. filters = << Filter("claim_confidence", "gte", Number(n)),
                   Filter("claim_signal_weight", "eq", Number(250)),
                   Filter("cash_policy", "eq", Text("extend")) >>
  BY DEF DefaultFilters
<1> HIDE DEF n, filters, claims
<1>6. /\ DOMAIN filters = 1 .. 3
      /\ filters[1] = Filter("claim_confidence", "gte", Number(n))
      /\ filters[2] = Filter("claim_signal_weight", "eq", Number(250))
      /\ filters[3] = Filter("cash_policy", "eq", Text("extend"))
  BY <1>5
<1>7. ProposedFilter(filters[1]) /\ ProposedFilter(filters[2]) /\ ProposedFilter(filters[3])
  BY <1>4, <1>6 DEF ProposedFilter, Filter, Number, Text
<1>8. filters \in Seq({filters[i] : i \in 1 .. 3})
  BY <1>5, <1>6
<1>9. BuildDraft(request.read) = [kind |-> kind, universe |-> universe, filters |-> filters,
                                  claims |-> Ids(claims)]
  BY <1>1 DEF Proposal, filters
<1>10. \A i \in 1 .. 3 : ProposedFilter(filters[i])
  <2>1. \A i \in 1 .. 3 : i = 1 \/ i = 2 \/ i = 3
    OBVIOUS
  <2> QED
    BY <1>7, <2>1
<1> QED
  BY <1>1, <1>6, <1>8, <1>9, <1>10 DEF IsDraft, claims

\* A request that is answered keeps what it read.
LEMMA AnswersKeepRead ==
  ASSUME ReadInv, NEW answer, NEW draft, Answer(answer, draft), Quiet,
         answer = "drafted" => IsDraft(draft, request.read)
  PROVE  (ReadInv /\ DraftInv)'
<1>1. request' = [phase |-> "answered", claims |-> request.claims, documents |-> request.documents,
                  read |-> request.read, draft |-> draft, answer |-> answer]
  BY DEF Answer, ReadInv, IsRequest
<1>2. /\ request'.read = request.read /\ request'.claims = request.claims /\ IsRequest(request')
      /\ request'.draft = draft /\ request'.answer = answer /\ request'.phase = "answered"
  BY <1>1 DEF IsRequest
<1>3. UNCHANGED <<says, review, touched>>
  BY DEF Quiet
<1>4. ReadInv'
  BY <1>2, <1>3 DEF ReadInv
<1> QED
  BY <1>2, <1>4 DEF DraftInv

LEMMA ReadingKeepsRead ==
  ASSUME ReadInv, DraftInv, request.phase # "answered", NEW phase, NEW documents,
         NEW list \in Seq(ReadClaim), Reading(phase, documents, list), Quiet,
         \A i \in DOMAIN list : list[i].id \in touched \/ review[list[i].id] = list[i].review
  PROVE  (ReadInv /\ DraftInv)'
<1>1. request' = [phase |-> phase, claims |-> request.claims, documents |-> documents,
                  read |-> list, draft |-> request.draft, answer |-> request.answer]
  BY DEF Reading, ReadInv, IsRequest
<1>2. /\ request'.read = list /\ request'.claims = request.claims /\ IsRequest(request')
      /\ request'.answer = request.answer
  BY <1>1 DEF IsRequest
<1>3. UNCHANGED <<says, review, touched>>
  BY DEF Quiet
<1>4. ReadInv'
  BY <1>2, <1>3 DEF ReadInv
<1>5. request.answer = "none"
  BY DEF DraftInv
<1> QED
  BY <1>2, <1>4, <1>5 DEF DraftInv

LEMMA DraftStep == ReadInv /\ DraftInv /\ [DraftNext]_draftVars => (ReadInv /\ DraftInv)'
<1> SUFFICES ASSUME ReadInv, DraftInv, [DraftNext]_draftVars PROVE (ReadInv /\ DraftInv)'
  OBVIOUS
<1>1. CASE UNCHANGED <<says, review, request, touched>>
  BY <1>1 DEF ReadInv, DraftInv
<1>2. ASSUME NEW c \in Claims, NEW status \in {"accepted", "rejected"}, ReviewClaim(c, status)
      PROVE  (ReadInv /\ DraftInv)'
  <2>1. {c} \in SUBSET Claims /\ status \in Reviews /\ Changes({c}, status)
    BY <1>2 DEF ReviewClaim, Reviews
  <2> QED
    BY <2>1, ChangesKeepRead
<1>3. ASSUME NEW d \in Documents, ReplaceExtraction(d) PROVE (ReadInv /\ DraftInv)'
  <2> DEFINE T == {c \in Stored : DocumentOf[c] = d}
  <2>1. T \in SUBSET Claims /\ "deleted" \in Reviews /\ Changes(T, "deleted")
    BY <1>3 DEF ReplaceExtraction, Stored, Reviews
  <2> QED
    BY <2>1, ChangesKeepRead
<1>4. ASSUME NEW body \in DraftRequests, DraftStrategy(body) PROVE (ReadInv /\ DraftInv)'
  <2>1. request.phase = "idle" /\ Quiet
    BY <1>4 DEF DraftStrategy
  <2>2. CASE Answer("missing_input", NoDraft)
    BY <2>1, <2>2, AnswersKeepRead
  <2>3. CASE request' = [request EXCEPT !.phase = IF body.claims = <<>> THEN "documents" ELSE "claims",
                                        !.claims = body.claims, !.documents = body.documents]
    <3>1. /\ request'.read = request.read /\ request'.claims = body.claims /\ IsRequest(request')
          /\ request'.answer = request.answer
      BY <2>3 DEF IsRequest, ReadInv
    <3>2. UNCHANGED <<says, review, touched>>
      BY <2>1 DEF Quiet
    <3>3. ReadInv'
      BY <3>1, <3>2, BodiesAssumption DEF ReadInv
    <3>4. request.answer = "none"
      BY <2>1 DEF DraftInv
    <3> QED
      BY <3>1, <3>3, <3>4 DEF DraftInv
  <2> QED
    BY <1>4, <2>2, <2>3 DEF DraftStrategy
<1>5. CASE GetClaimsByIDs
  <2> DEFINE found == ToSet(request.claims) \cap Stored
             list == SetToSeq({Claim(c) : c \in found})
  <2>1. request.phase = "claims" /\ Quiet
    BY <1>5 DEF GetClaimsByIDs
  <2>2. CASE Answer("claims_not_found", NoDraft)
    BY <2>1, <2>2, AnswersKeepRead
  <2>3. CASE Reading("documents", request.documents, list)
    <3>1. found \in SUBSET Claims
      BY DEF Stored
    <3>2. list \in Seq(ReadClaim) /\ \A i \in DOMAIN list : review[list[i].id] = list[i].review
      BY <3>1, ReadsAreCurrent
    <3> HIDE DEF list
    <3> QED
      BY <2>1, <2>3, <3>2, ReadingKeepsRead
  <2> QED
    BY <1>5, <2>2, <2>3 DEF GetClaimsByIDs
<1>6. CASE ListClaimsByDocument
  <2> DEFINE T == {c \in Stored : DocumentOf[c] = Head(request.documents)}
             list == SetToSeq({Claim(c) : c \in T})
             all == request.read \o list
  <2>1. request.phase = "documents" /\ Quiet
    BY <1>6 DEF ListClaimsByDocument
  <2>2. CASE Answer("claims_not_found", NoDraft)
    BY <2>1, <2>2, AnswersKeepRead
  <2>3. CASE Reading("documents", Tail(request.documents), all)
    <3>1. T \in SUBSET Claims
      BY DEF Stored
    <3>2. list \in Seq(ReadClaim) /\ \A i \in DOMAIN list : review[list[i].id] = list[i].review
      BY <3>1, ReadsAreCurrent
    <3> HIDE DEF list
    <3>3. /\ request.read \in Seq(ReadClaim)
          /\ \A i \in DOMAIN request.read :
               request.read[i].id \in touched \/ review[request.read[i].id] = request.read[i].review
      BY DEF ReadInv
    <3>4. all \in Seq(ReadClaim) /\ \A i \in DOMAIN all :
            (\E j \in DOMAIN request.read : all[i] = request.read[j]) \/ (\E j \in DOMAIN list : all[i] = list[j])
      BY <3>2, <3>3, Joined
    <3> HIDE DEF all
    <3>5. \A i \in DOMAIN all : all[i].id \in touched \/ review[all[i].id] = all[i].review
      BY <3>2, <3>3, <3>4
    <3> QED
      BY <2>1, <2>3, <3>4, <3>5, ReadingKeepsRead
  <2> QED
    BY <1>6, <2>2, <2>3 DEF ListClaimsByDocument
<1>7. CASE AnswerDraft
  <2> DEFINE draft == BuildDraft(request.read)
             answer == IF draft = NoDraft THEN "empty_draft" ELSE "drafted"
  <2>1. Answer(answer, draft) /\ Quiet
    BY <1>7 DEF AnswerDraft
  <2>2. answer = "drafted" => IsDraft(draft, request.read)
    BY DraftIsProposal
  <2> HIDE DEF draft, answer
  <2> QED
    BY <2>1, <2>2, AnswersKeepRead
<1>8. ASSUME NEW spec, NEW ids, CreateStrategy(spec, ids) PROVE (ReadInv /\ DraftInv)'
  BY <1>1, <1>8 DEF CreateStrategy
<1> QED
  BY <1>1, <1>2, <1>3, <1>4, <1>5, <1>6, <1>7, <1>8 DEF DraftNext, draftVars

-----------------------------------------------------------------------------
(***************************************************************************)
(* The submission.                                                         *)
(***************************************************************************)
\* How CreateStrategy answers.
LEMMA SubmissionAnswer ==
  ASSUME NEW spec, NEW ids, CreateStrategy(spec, ids)
  PROVE  /\ submission' = [answer |-> submission'.answer, spec |-> spec, ids |-> ids]
         /\ submission'.spec = spec /\ submission'.ids = ids
         /\ submission'.answer \in {"missing_claims", "invalid_spec", "claim_not_citable", "created"}
         /\ submission'.answer = "invalid_spec" => ids # <<>> /\ ~Valid(spec)
         /\ submission'.answer = "claim_not_citable" => ids # <<>> /\ ~Citable(ids)
         /\ submission'.answer = "created" => ids # <<>> /\ Valid(spec)
<1> DEFINE answer == IF ids = <<>> THEN "missing_claims"
                     ELSE IF ~Valid(spec) THEN "invalid_spec"
                     ELSE IF ~Citable(ids) THEN "claim_not_citable" ELSE "created"
<1>1. submission' = [answer |-> answer, spec |-> spec, ids |-> ids]
  BY DEF CreateStrategy
<1>2. /\ answer \in {"missing_claims", "invalid_spec", "claim_not_citable", "created"}
      /\ answer = "invalid_spec" => ids # <<>> /\ ~Valid(spec)
      /\ answer = "claim_not_citable" => ids # <<>> /\ ~Citable(ids)
      /\ answer = "created" => ids # <<>> /\ Valid(spec)
  OBVIOUS
<1> HIDE DEF answer
<1> QED
  BY <1>1, <1>2

\* The filters of an edited proposal: some of the proposed ones, or one added.
LEMMA EditedFilters ==
  ASSUME NEW d, NEW read, IsDraft(d, read), NEW spec \in Edits(d)
  PROVE  /\ spec.universe = d.universe /\ spec.claims = d.claims /\ spec.kind = d.kind
         /\ \/ ToSet(spec.filters) \cap ExtraFilters # {}
            \/ /\ DOMAIN spec.filters \subseteq 1 .. 3
               /\ \A i \in DOMAIN spec.filters :
                    ProposedFilter(spec.filters[i]) /\ spec.filters[i] = d.filters[i]
<1>1. /\ d = [kind |-> d.kind, universe |-> d.universe, filters |-> d.filters, claims |-> d.claims]
      /\ DOMAIN d.filters = 1 .. 3 /\ d.filters \in Seq({d.filters[i] : i \in 1 .. 3})
      /\ \A i \in 1 .. 3 : ProposedFilter(d.filters[i])
  BY DEF IsDraft
<1>2. ASSUME NEW dropped \in SUBSET {"claim_confidence", "cash_policy"},
             spec = [d EXCEPT !.filters = Restrict(d.filters, {i \in DOMAIN d.filters : d.filters[i].field \notin dropped})]
      PROVE  /\ spec.universe = d.universe /\ spec.claims = d.claims /\ spec.kind = d.kind
             /\ DOMAIN spec.filters \subseteq 1 .. 3
             /\ \A i \in DOMAIN spec.filters :
                  ProposedFilter(spec.filters[i]) /\ spec.filters[i] = d.filters[i]
  <2> DEFINE kept == {i \in DOMAIN d.filters : d.filters[i].field \notin dropped}
             g == Restrict(d.filters, kept)
  <2>1. kept \subseteq 1 .. 3
    BY <1>1
  <2> HIDE DEF kept
  <2>2. DOMAIN g = kept /\ \A i \in kept : g[i] = d.filters[i]
    BY DEF Restrict
  <2> HIDE DEF g
  <2>3. spec = [kind |-> d.kind, universe |-> d.universe, filters |-> g, claims |-> d.claims]
    BY <1>1, <1>2 DEF g, kept
  <2> QED
    BY <1>1, <2>1, <2>2, <2>3
<1>3. ASSUME NEW f \in ExtraFilters, spec = [d EXCEPT !.filters = Append(d.filters, f)]
      PROVE  /\ spec.universe = d.universe /\ spec.claims = d.claims /\ spec.kind = d.kind
             /\ ToSet(spec.filters) \cap ExtraFilters # {}
  <2> DEFINE g == Append(d.filters, f)
  <2>1. \E i \in DOMAIN g : g[i] = f
    <3>1. d.filters \in Seq({d.filters[i] : i \in 1 .. 3} \cup {f})
      BY <1>1
    <3> HIDE DEF g
    <3>2. Len(d.filters) \in Nat /\ Len(g) = Len(d.filters) + 1 /\ g[Len(d.filters) + 1] = f /\ DOMAIN g = 1 .. Len(g)
      BY <3>1, AppendProperties DEF g
    <3>3. Len(d.filters) + 1 \in DOMAIN g
      BY <3>2
    <3> QED
      BY <3>2, <3>3
  <2> HIDE DEF g
  <2>2. spec = [kind |-> d.kind, universe |-> d.universe, filters |-> g, claims |-> d.claims]
    BY <1>1, <1>3 DEF g
  <2>3. f \in ToSet(g)
    BY <2>1 DEF ToSet
  <2> QED
    BY <2>2, <2>3
<1>4. \/ \E dropped \in SUBSET {"claim_confidence", "cash_policy"} :
           spec = [d EXCEPT !.filters = Restrict(d.filters, {i \in DOMAIN d.filters : d.filters[i].field \notin dropped})]
      \/ \E f \in ExtraFilters : spec = [d EXCEPT !.filters = Append(d.filters, f)]
  BY DEF Edits
<1> QED
  BY <1>2, <1>3, <1>4

\* The ids a client may cite are the accepted claims read, at finitely many places.
LEMMA CitedIds ==
  ASSUME ReadInv, NEW d, IsDraft(d, request.read), NEW ids \in Citations(d)
  PROVE  /\ ids = [i \in DOMAIN ids |-> ids[i]] /\ IsFiniteSet(DOMAIN ids)
         /\ \A c \in ToSet(ids) : \E i \in DOMAIN request.read :
              request.read[i].id = c /\ request.read[i].review = "accepted"
<1> DEFINE read == request.read
           kept == {i \in DOMAIN read : read[i].review = "accepted"}
<1>1. read \in Seq(ReadClaim)
  BY DEF ReadInv
<1>2. IsFiniteSet(kept)
  <2>1. DOMAIN read = 1 .. Len(read) /\ Len(read) \in Nat
    BY <1>1
  <2>2. IsFiniteSet(DOMAIN read)
    BY <2>1, FS_Interval
  <2> QED
    BY <2>2, FS_Subset
<1>3. d.claims = [i \in kept |-> read[i].id]
  BY DEF IsDraft, Ids, Accepted, Restrict
<1>4. \A c \in ToSet(d.claims) : \E i \in DOMAIN read : read[i].id = c /\ read[i].review = "accepted"
  BY <1>3 DEF ToSet
<1>5. IsFiniteSet(ToSet(d.claims))
  <2>1. ToSet(d.claims) \in SUBSET Claims
    <3>1. \A i \in DOMAIN read : read[i] \in ReadClaim
      BY <1>1
    <3>2. \A i \in DOMAIN read : read[i].id \in Claims
      BY <3>1 DEF ReadClaim
    <3> QED
      BY <1>4, <3>2
  <2> QED
    BY <2>1, ClaimsAssumption, FS_Subset
<1> HIDE DEF kept, read
<1>6. CASE ids = <<>>
  <2>1. DOMAIN ids = {} /\ ToSet(ids) = {} /\ ids = [i \in DOMAIN ids |-> ids[i]]
    BY <1>6 DEF ToSet
  <2> QED
    BY <2>1, FS_EmptySet
<1>7. CASE ids = d.claims
  <2>1. DOMAIN ids = kept /\ ids = [i \in DOMAIN ids |-> ids[i]]
    BY <1>3, <1>7
  <2> QED
    BY <1>2, <1>4, <1>7, <2>1 DEF read
<1>8. CASE ids = [c \in ToSet(d.claims) |-> c]
  <2>1. DOMAIN ids = ToSet(d.claims) /\ ids = [i \in DOMAIN ids |-> ids[i]]
        /\ ToSet(ids) = ToSet(d.claims)
    <3> DEFINE T == ToSet(d.claims)
    <3> HIDE DEF T
    <3>1. ids = [c \in T |-> c]
      BY <1>8 DEF T
    <3>2. DOMAIN ids = T /\ ids = [i \in DOMAIN ids |-> ids[i]] /\ ToSet(ids) = T
      BY <3>1 DEF ToSet
    <3> QED
      BY <3>2 DEF T
  <2> QED
    BY <1>4, <1>5, <2>1 DEF read
<1> QED
  BY <1>6, <1>7, <1>8 DEF Citations

\* Service.Draft: "The caller reviews or edits the proposal, then commits it
\* through Create".  For any claims, requests and edits, a proposal whose claims
\* were not touched since they were read, are listed once and fit into its name is
\* not refused.
THEOREM DraftsCommit == Spec => DraftCommits
<1> DEFINE Refusal ==
      submission'.answer \in {"invalid_spec", "claim_not_citable"} /\ submission.answer = "none"
      => \/ ToSet(submission'.spec.filters) \cap ExtraFilters # {}
         \/ Repeats(submission'.ids)
         \/ ToSet(submission'.ids) \cap touched # {}
         \/ ~NameFits(submission'.spec)
<1>1. ASSUME ReadInv, DraftInv, [DraftNext]_draftVars PROVE Refusal
  <2>1. CASE UNCHANGED submission
    BY <2>1
  <2>2. ASSUME NEW spec \in Edits(request.draft), NEW ids \in Citations(request.draft),
               CreateStrategy(spec, ids)
        PROVE  Refusal
    <3>1. IsDraft(request.draft, request.read)
      <4>1. request.answer = "drafted"
        BY <2>2 DEF CreateStrategy
      <4> QED
        BY <1>1, <4>1 DEF DraftInv
    <3>2. SUFFICES ASSUME submission'.answer \in {"invalid_spec", "claim_not_citable"},
                          ToSet(spec.filters) \cap ExtraFilters = {},
                          ~Repeats(ids), ToSet(ids) \cap touched = {}, NameFits(spec)
                   PROVE  FALSE
      BY <2>2, SubmissionAnswer
    <3>3. Valid(spec)
      <4>1. /\ spec.universe # {}
            /\ \A i \in DOMAIN spec.filters : ProposedFilter(spec.filters[i])
        BY <3>1, <3>2, EditedFilters DEF IsDraft
      <4>2. \A f \in ToSet(spec.filters) : f.field \in FilterFields
                                           /\ f.operator \in {"gt", "gte", "lt", "lte", "eq"}
        BY <4>1 DEF ToSet, ProposedFilter, FilterFields
      <4> QED
        BY <3>2, <4>1, <4>2 DEF Valid
    <3>4. Citable(ids)
      <4>1. /\ ids = [i \in DOMAIN ids |-> ids[i]] /\ IsFiniteSet(DOMAIN ids)
            /\ \A c \in ToSet(ids) : \E i \in DOMAIN request.read :
                 request.read[i].id = c /\ request.read[i].review = "accepted"
        BY <1>1, <3>1, CitedIds
      <4>2. \A c \in ToSet(ids) : review[c] = "accepted"
        BY <1>1, <3>2, <4>1 DEF ReadInv
      <4>3. {c \in ToSet(ids) : review[c] = "accepted"} = ToSet(ids)
        BY <4>2
      <4>4. Cardinality(ToSet(ids)) = Cardinality(DOMAIN ids)
        BY <3>2, <4>1, NoRepetition
      <4> QED
        BY <4>3, <4>4 DEF Citable
    <3> QED
      BY <2>2, <3>2, <3>3, <3>4, SubmissionAnswer
  <2> QED
    BY <1>1, <2>1, <2>2 DEF DraftNext, draftVars, ReviewClaim, ReplaceExtraction, Changes, DraftStrategy,
       GetClaimsByIDs, ListClaimsByDocument, AnswerDraft, Quiet
<1>2. [Next]_vars => [DraftNext]_draftVars
  BY DEF Next, vars, Drafting, RequestBacktest, RunBacktest
<1>3. Init => ReadInv /\ DraftInv
  BY InitRead DEF Init
<1>4. ReadInv /\ DraftInv /\ [Next]_vars => (ReadInv /\ DraftInv)'
  BY <1>2, DraftStep
<1>5. ReadInv /\ DraftInv /\ [Next]_vars => [Refusal]_draftVars
  BY <1>1, <1>2
<1> QED
  BY <1>3, <1>4, <1>5, PTL DEF Spec, DraftCommits

-----------------------------------------------------------------------------
(***************************************************************************)
(* The run.                                                                *)
(***************************************************************************)
\* A committed draft that nobody added a filter to has some of the proposed ones.
SubmissionInv == submission.answer = "created" =>
  /\ submission.spec.universe # {}
  /\ \/ ToSet(submission.spec.filters) \cap ExtraFilters # {}
     \/ /\ DOMAIN submission.spec.filters \subseteq 1 .. 3
        /\ \A i \in DOMAIN submission.spec.filters : ProposedFilter(submission.spec.filters[i])

LEMMA SubmissionStep ==
  ASSUME DraftInv, SubmissionInv, [DraftNext]_draftVars
  PROVE  /\ SubmissionInv'
         /\ submission.answer # "none" => submission' = submission
<1>1. CASE UNCHANGED submission
  BY <1>1 DEF SubmissionInv
<1>2. ASSUME NEW spec \in Edits(request.draft), NEW ids \in Citations(request.draft),
             CreateStrategy(spec, ids)
      PROVE  SubmissionInv' /\ submission.answer = "none"
  <2>1. request.answer = "drafted" /\ submission.answer = "none"
    BY <1>2 DEF CreateStrategy
  <2>2. IsDraft(request.draft, request.read)
    BY <2>1 DEF DraftInv
  <2>3. /\ spec.universe = request.draft.universe
        /\ \/ ToSet(spec.filters) \cap ExtraFilters # {}
           \/ /\ DOMAIN spec.filters \subseteq 1 .. 3
              /\ \A i \in DOMAIN spec.filters : ProposedFilter(spec.filters[i])
    BY <2>2, EditedFilters
  <2>4. request.draft.universe # {}
    BY <2>2 DEF IsDraft
  <2>5. submission'.spec = spec
    BY <1>2, SubmissionAnswer
  <2> QED
    BY <2>1, <2>3, <2>4, <2>5 DEF SubmissionInv
<1> QED
  BY <1>1, <1>2 DEF DraftNext, draftVars, ReviewClaim, ReplaceExtraction, Changes, DraftStrategy,
     GetClaimsByIDs, ListClaimsByDocument, AnswerDraft, Quiet

\* A set of places has a last one.
LEMMA LastPlace ==
  ASSUME NEW T \in SUBSET (1 .. 3), T # {}
  PROVE  Max(T) \in T
<1>1. \E x \in T : \A y \in T : x >= y
  <2>1. CASE 3 \in T
    BY <2>1
  <2>2. CASE 3 \notin T /\ 2 \in T
    BY <2>2
  <2>3. CASE 3 \notin T /\ 2 \notin T
    <3>1. \A x \in 1 .. 3 : x = 1 \/ x = 2 \/ x = 3
      OBVIOUS
    <3>2. \A x \in T : x = 1
      BY <2>3, <3>1
    <3>3. 1 \in T
      BY <3>2
    <3> QED
      BY <3>2, <3>3
  <2> QED
    BY <2>1, <2>2, <2>3
<1> QED
  BY <1>1 DEF Max

\* _engine_params takes whatever proposed filters are left, if it takes none at all.
LEMMA ProposalsAreTaken ==
  ASSUME NEW filters, NEW parameters, NEW version,
         DOMAIN filters \subseteq 1 .. 3, \A i \in DOMAIN filters : ProposedFilter(filters[i]),
         EngineParams(<<>>, parameters, version),
         version = "v3" => \A i \in DOMAIN filters : filters[i].field # "cash_policy"
  PROVE  EngineParams(filters, parameters, version)
<1> DEFINE Set0(field) == Setting(<<>>, parameters, version, field)
           Set1(field) == Setting(filters, parameters, version, field)
<1>1. /\ version \in {"v3", "v4"}
      /\ \A field \in DOMAIN parameters : Converts(field, parameters[field])
      /\ \A field \in DOMAIN Defaults(version) : InRange(field, Set0(field))
      /\ version = "v3" => PreviousCouldRun(Set0("execution_lag_days"), Set0("cash_policy"))
  BY DEF EngineParams
<1>2. \A field : Read(<<>>, field) = {}
  BY DEF Read
<1>3. \A field : Read(filters, field) \subseteq DOMAIN filters
                 /\ \A i \in Read(filters, field) : filters[i].field = field
  BY DEF Read
<1>4. ASSUME NEW field, Read(filters, field) = {} PROVE Set1(field) = Set0(field)
  BY <1>2, <1>4 DEF Setting
<1>5. ASSUME NEW field \in DOMAIN Defaults(version) PROVE InRange(field, Set1(field))
  <2>1. CASE Read(filters, field) = {}
    BY <1>1, <1>4, <2>1
  <2>2. CASE field \in DOMAIN parameters
    <3>1. Set1(field) = Set0(field)
      BY <2>2 DEF Setting
    <3> QED
      BY <1>1, <3>1
  <2>3. CASE field \notin DOMAIN parameters /\ Read(filters, field) # {}
    <3> DEFINE m == Max(Read(filters, field))
    <3>1. m \in Read(filters, field)
      <4>1. Read(filters, field) \in SUBSET (1 .. 3)
        BY <1>3
      <4> QED
        BY <2>3, <4>1, LastPlace
    <3> HIDE DEF m
    <3>2. ProposedFilter(filters[m]) /\ filters[m].field = field
      BY <1>3, <3>1
    <3>3. Set1(field) = filters[m].value
      BY <2>3 DEF Setting, m
    <3>4. InRange(field, filters[m].value)
      <4>1. CASE field = "claim_confidence"
        BY <3>2, <4>1 DEF ProposedFilter, InRange
      <4>2. CASE field = "claim_signal_weight"
        <5>1. filters[m].value = Number(250)
          BY <3>2, <4>2 DEF ProposedFilter
        <5>2. Number(250).of \in 0 .. 5000
          BY DEF Number
        <5>3. InRange("claim_signal_weight", Number(250))
          BY <5>2, SMTT(30) DEF InRange
        <5> QED
          BY <4>2, <5>1, <5>3
      <4>3. CASE field = "cash_policy"
        BY <3>2, <4>3 DEF ProposedFilter, InRange, CashPolicies
      <4> QED
        BY <3>2, <4>1, <4>2, <4>3 DEF ProposedFilter
    <3> QED
      BY <3>3, <3>4
  <2> QED
    BY <2>1, <2>2, <2>3
<1>6. ASSUME NEW field, NEW i \in Read(filters, field) PROVE Converts(field, filters[i].value)
  <2>1. ProposedFilter(filters[i]) /\ filters[i].field = field
    BY <1>3, <1>6
  <2> QED
    BY <2>1 DEF ProposedFilter, Converts, Number
<1>7. version = "v3" => PreviousCouldRun(Set1("execution_lag_days"), Set1("cash_policy"))
  <2> SUFFICES ASSUME version = "v3"
               PROVE  PreviousCouldRun(Set1("execution_lag_days"), Set1("cash_policy"))
    OBVIOUS
  <2>1. Read(filters, "cash_policy") = {}
    BY <1>3
  <2>2. Read(filters, "execution_lag_days") = {}
    <3>1. \A i \in DOMAIN filters : filters[i].field # "execution_lag_days"
      BY DEF ProposedFilter
    <3> QED
      BY <1>3, <3>1
  <2>3. Set1("cash_policy") = Set0("cash_policy") /\ Set1("execution_lag_days") = Set0("execution_lag_days")
    BY <1>4, <2>1, <2>2
  <2> QED
    BY <1>1, <2>3
<1> QED
  BY <1>1, <1>5, <1>6, <1>7 DEF EngineParams

\* A run has a committed draft; one that was refused early lacks a column, and one
\* the engine refused lacks one too, or the parameters are to blame.
RunInv ==
  /\ backtest = [status |-> backtest.status, asked |-> backtest.asked,
                 signals |-> backtest.signals, current |-> backtest.current]
  /\ backtest.status # "none" =>
       submission.answer = "created" /\ backtest.asked \in BacktestRequests
  /\ backtest.status = "snapshot_universe_mismatch" =>
       ~(submission.spec.universe \subseteq backtest.asked.columns)
  /\ DraftRuns

LEMMA RunStep ==
  ASSUME DraftInv, SubmissionInv, RunInv, [Next]_vars
  PROVE  RunInv'
<1>1. CASE UNCHANGED <<backtest, submission>>
  BY <1>1 DEF RunInv, DraftRuns, Edited
<1>2. CASE Drafting
  <2>1. /\ backtest' = backtest /\ backtest.status \in {"none", "queued"}
        /\ submission.answer = "created" => submission' = submission
    BY <1>2, SubmissionStep DEF Drafting
  <2> QED
    BY <2>1 DEF RunInv, DraftRuns
<1>3. ASSUME NEW asked \in BacktestRequests, RequestBacktest(asked) PROVE RunInv'
  <2> DEFINE status == IF Missing(submission.spec.universe, asked.symbols) = {}
                       THEN "queued" ELSE "snapshot_universe_mismatch"
  <2>1. /\ submission.answer = "created" /\ submission' = submission
        /\ backtest' = [NoBacktest EXCEPT !.status = status, !.asked = asked]
    BY <1>3 DEF RequestBacktest, draftVars
  <2>2. backtest' = [status |-> status, asked |-> asked, signals |-> {}, current |-> FALSE]
    BY <2>1 DEF NoBacktest
  <2>3. status = "snapshot_universe_mismatch" => ~(submission.spec.universe \subseteq asked.columns)
    <3>1. asked.columns \subseteq asked.symbols
      BY ColumnsAssumption
    <3> QED
      BY <3>1 DEF Missing
  <2>4. status \in {"queued", "snapshot_universe_mismatch"}
    OBVIOUS
  <2> HIDE DEF status
  <2> QED
    BY <2>1, <2>2, <2>3, <2>4 DEF RunInv, DraftRuns
<1>4. CASE RunBacktest
  <2> DEFINE asked == backtest.asked
             status == IF EngineAccepts(asked) THEN "simulated" ELSE "refused"
  <2>1. /\ backtest.status = "queued" /\ submission' = submission
        /\ backtest'.status = status /\ backtest'.asked = asked
        /\ backtest' = [status |-> backtest'.status, asked |-> backtest'.asked,
                        signals |-> backtest'.signals, current |-> backtest'.current]
    <3>1. PICK signals, current :
            backtest' = [backtest EXCEPT !.status = status, !.signals = signals, !.current = current]
      BY <1>4 DEF RunBacktest
    <3>2. backtest' = [status |-> status, asked |-> asked, signals |-> signals, current |-> current]
      BY <3>1 DEF RunInv
    <3>3. backtest.status = "queued" /\ submission' = submission
      BY <1>4 DEF RunBacktest, draftVars
    <3> HIDE DEF status, asked
    <3> QED
      BY <3>2, <3>3
  <2>2. submission.answer = "created" /\ asked \in BacktestRequests
    BY <2>1 DEF RunInv
  <2>3. ASSUME status = "refused", ~Edited
        PROVE  \/ ~(submission.spec.universe \subseteq asked.columns)
               \/ ~EngineParams(<<>>, asked.parameters, asked.version)
               \/ asked.version = "v3" /\ \E f \in ToSet(submission.spec.filters) : f.field = "cash_policy"
    <3> DEFINE filters == submission.spec.filters
    <3>1. ~EngineAccepts(asked)
      BY <2>3
    <3>2. /\ submission.spec.universe # {} /\ DOMAIN filters \subseteq 1 .. 3
          /\ \A i \in DOMAIN filters : ProposedFilter(filters[i])
      BY <2>2, <2>3 DEF SubmissionInv, Edited
    <3>3. \/ ~EngineParams(filters, asked.parameters, asked.version)
          \/ ~(submission.spec.universe \subseteq asked.columns)
      BY <3>1, <3>2 DEF EngineAccepts, Covers
    <3> HIDE DEF filters, asked
    <3>4. (\A f \in ToSet(filters) : f.field # "cash_policy")
          => \A i \in DOMAIN filters : filters[i].field # "cash_policy"
      BY DEF ToSet
    <3>5. \/ ~EngineParams(filters, asked.parameters, asked.version)
             => \/ ~EngineParams(<<>>, asked.parameters, asked.version)
                \/ asked.version = "v3" /\ \E f \in ToSet(filters) : f.field = "cash_policy"
      BY <3>2, <3>4, ProposalsAreTaken
    <3> QED
      BY <3>3, <3>5 DEF filters
  <2>4. status \in {"simulated", "refused"}
    OBVIOUS
  <2> HIDE DEF status, asked
  <2> QED
    BY <2>1, <2>2, <2>3, <2>4 DEF RunInv, DraftRuns, Edited
<1> QED
  BY <1>1, <1>2, <1>3, <1>4 DEF Next, vars, draftVars

LEMMA RunAlways == Spec => [](SubmissionInv /\ RunInv)
<1>1. Init => ReadInv /\ DraftInv /\ SubmissionInv /\ RunInv
  <2> SUFFICES ASSUME Init PROVE ReadInv /\ DraftInv /\ SubmissionInv /\ RunInv
    OBVIOUS
  <2>1. ReadInv /\ DraftInv
    BY InitRead DEF Init
  <2>2. submission = [answer |-> "none", spec |-> NoDraft, ids |-> <<>>] /\ backtest = NoBacktest
    BY DEF Init, DraftInit
  <2>3. submission.answer = "none" /\ backtest.status = "none"
    BY <2>2 DEF NoBacktest
  <2> QED
    BY <2>1, <2>2, <2>3 DEF SubmissionInv, RunInv, DraftRuns, NoBacktest
<1>2. [Next]_vars => [DraftNext]_draftVars
  BY DEF Next, vars, Drafting, RequestBacktest, RunBacktest
<1>3. ReadInv /\ DraftInv /\ SubmissionInv /\ RunInv /\ [Next]_vars
      => (ReadInv /\ DraftInv /\ SubmissionInv /\ RunInv)'
  BY <1>2, DraftStep, SubmissionStep, RunStep
<1> QED
  BY <1>1, <1>3, PTL DEF Spec

\* backtest.go (httpapi): "failing here turns a job that dies minutes later in the
\* worker into an answerable error".  Whatever the snapshot, the parameters and the
\* edits are, the early check refuses no run the engine would have accepted.
THEOREM EarlyRefusalsAreRight == Spec => []RefusedCouldNotRun
<1>1. RunInv => RefusedCouldNotRun
  BY DEF RunInv, RefusedCouldNotRun, EngineAccepts, Covers
<1> QED
  BY <1>1, RunAlways, PTL

\* What builder.go proposes and spec.go lets through, _engine_params takes: for any
\* claims, however a client drops filters, and whatever the run is asked with, the
\* proposal itself is never what the engine refuses, except "extend" under v3.
THEOREM DraftsRun == Spec => []DraftRuns
<1>1. RunInv => DraftRuns
  BY DEF RunInv
<1> QED
  BY <1>1, RunAlways, PTL
-----------------------------------------------------------------------------
(***************************************************************************)
(* The support of a run.                                                   *)
(***************************************************************************)
\* What was proposed is what BuildDraft makes of the claims read, and what was
\* committed is the proposal, edited.
ProposalInv ==
  /\ request.answer = "drafted" => request.draft = BuildDraft(request.read) /\ request.draft # NoDraft
  /\ submission.answer = "created" =>
       /\ request.answer = "drafted"
       /\ submission.spec \in Edits(request.draft)
       /\ submission.ids \in Citations(request.draft) \ {<<>>}

\* Once the run has read them, neither its signals nor the reviews change.
SignalsInv == backtest.status = "simulated" =>
  /\ backtest.signals = Signals(Asked("claim_confidence").of)
  /\ backtest.current => \A c \in ToSet(submission.ids) : review[c] = "accepted"

LEMMA SameDraft ==
  ASSUME says' = says, request'.read = request.read
  PROVE  BuildDraft(request.read)' = BuildDraft(request.read)
  BY DEF BuildDraft, Accepted, NetTickerSymbols, NetMacroThemes, Tickers, Net, Signed, Proposal,
         DefaultFilters, Ids

\* A step keeps what claims say, and the request once it is answered; AnswerDraft
\* answers with the draft, CreateStrategy submits an edit of it.
LEMMA ProposalStep ==
  ASSUME ReadInv, DraftInv, ProposalInv, [DraftNext]_draftVars
  PROVE  ProposalInv' /\ says' = says
<1>1. CASE says' = says /\ request' = request /\ submission' = submission
  <2>1. BuildDraft(request.read)' = BuildDraft(request.read)
    BY <1>1, SameDraft
  <2>2. Edits(request.draft)' = Edits(request.draft) /\ Citations(request.draft)' = Citations(request.draft)
    BY <1>1 DEF Edits, Citations
  <2> QED
    BY <1>1, <2>1, <2>2 DEF ProposalInv
<1>2. ASSUME NEW answer, Answer(answer, NoDraft), Quiet, answer # "drafted", request.phase # "answered"
      PROVE  ProposalInv' /\ says' = says
  <2>1. request' = [phase |-> "answered", claims |-> request.claims, documents |-> request.documents,
                    read |-> request.read, draft |-> NoDraft, answer |-> answer]
    BY <1>2 DEF Answer, ReadInv, IsRequest
  <2>2. request.answer = "none" /\ request'.answer # "drafted" /\ submission' = submission /\ says' = says
    BY <1>2, <2>1 DEF DraftInv, Quiet
  <2> QED
    BY <2>2 DEF ProposalInv
<1>3. ASSUME NEW body, DraftStrategy(body) PROVE ProposalInv' /\ says' = says
  <2>1. request.phase = "idle" /\ Quiet
    BY <1>3 DEF DraftStrategy
  <2>2. CASE Answer("missing_input", NoDraft)
    BY <1>2, <2>1, <2>2
  <2>3. ASSUME NEW phase, request' = [request EXCEPT !.phase = phase, !.claims = body.claims,
                                                     !.documents = body.documents]
        PROVE  ProposalInv' /\ says' = says
    <3>1. request' = [phase |-> phase, claims |-> body.claims, documents |-> body.documents,
                      read |-> request.read, draft |-> request.draft, answer |-> request.answer]
      BY <2>3 DEF ReadInv, IsRequest
    <3>2. request'.answer = request.answer
      BY <3>1
    <3>3. request.answer = "none" /\ submission' = submission /\ says' = says
      BY <2>1 DEF DraftInv, Quiet
    <3> QED
      BY <3>2, <3>3 DEF ProposalInv
  <2> QED
    BY <1>3, <2>2, <2>3 DEF DraftStrategy
<1>4. ASSUME NEW phase, NEW documents, NEW list, Reading(phase, documents, list), Quiet,
             request.phase # "answered"
      PROVE  ProposalInv' /\ says' = says
  <2>1. request' = [phase |-> phase, claims |-> request.claims, documents |-> documents,
                    read |-> list, draft |-> request.draft, answer |-> request.answer]
    BY <1>4 DEF Reading, ReadInv, IsRequest
  <2>2. request'.answer = request.answer
    BY <2>1
  <2>3. request.answer = "none" /\ submission' = submission /\ says' = says
    BY <1>4 DEF DraftInv, Quiet
  <2> QED
    BY <2>2, <2>3 DEF ProposalInv
<1>5. CASE GetClaimsByIDs
  <2>1. request.phase = "claims" /\ Quiet
    BY <1>5 DEF GetClaimsByIDs
  <2>2. \/ Answer("claims_not_found", NoDraft)
        \/ \E list : Reading("documents", request.documents, list)
    BY <1>5 DEF GetClaimsByIDs
  <2> QED
    BY <1>2, <1>4, <2>1, <2>2
<1>6. CASE ListClaimsByDocument
  <2>1. request.phase = "documents" /\ Quiet
    BY <1>6 DEF ListClaimsByDocument
  <2>2. \/ Answer("claims_not_found", NoDraft)
        \/ \E list : Reading("documents", Tail(request.documents), list)
    BY <1>6 DEF ListClaimsByDocument
  <2> QED
    BY <1>2, <1>4, <2>1, <2>2
<1>7. CASE AnswerDraft
  <2> DEFINE draft == BuildDraft(request.read)
             answer == IF draft = NoDraft THEN "empty_draft" ELSE "drafted"
  <2>1. request.phase = "documents" /\ Answer(answer, draft) /\ Quiet
    BY <1>7 DEF AnswerDraft
  <2>2. answer = "drafted" => draft # NoDraft
    OBVIOUS
  <2> HIDE DEF draft, answer
  <2>3. request' = [phase |-> "answered", claims |-> request.claims, documents |-> request.documents,
                    read |-> request.read, draft |-> draft, answer |-> answer]
    BY <2>1 DEF Answer, ReadInv, IsRequest
  <2>4. request'.answer = answer /\ request'.draft = draft /\ request'.read = request.read
    BY <2>3
  <2>5. request.answer = "none" /\ submission' = submission /\ says' = says
    BY <2>1 DEF DraftInv, Quiet
  <2>6. BuildDraft(request.read)' = draft
    BY <2>4, <2>5, SameDraft DEF draft
  <2> QED
    BY <2>2, <2>4, <2>5, <2>6 DEF ProposalInv
<1>8. ASSUME NEW spec \in Edits(request.draft), NEW ids \in Citations(request.draft),
             CreateStrategy(spec, ids)
      PROVE  ProposalInv' /\ says' = says
  <2>1. request.answer = "drafted" /\ request' = request /\ says' = says
    BY <1>8 DEF CreateStrategy
  <2>2. submission'.spec = spec /\ submission'.ids = ids
        /\ (submission'.answer = "created" => ids # <<>>)
    BY <1>8, SubmissionAnswer
  <2>3. BuildDraft(request.read)' = BuildDraft(request.read)
    BY <2>1, SameDraft
  <2>4. Edits(request.draft)' = Edits(request.draft) /\ Citations(request.draft)' = Citations(request.draft)
    BY <2>1 DEF Edits, Citations
  <2> QED
    BY <2>1, <2>2, <2>3, <2>4 DEF ProposalInv
<1> QED
  BY <1>1, <1>3, <1>5, <1>6, <1>7, <1>8 DEF DraftNext, draftVars, ReviewClaim, ReplaceExtraction, Changes

LEMMA SignalsStep ==
  ASSUME SignalsInv, RunInv, [Next]_vars
  PROVE  SignalsInv'
<1>1. CASE UNCHANGED vars
  <2>1. UNCHANGED <<says, review, submission, backtest>>
    BY <1>1 DEF vars, draftVars
  <2> DEFINE minimum == Asked("claim_confidence")
  <2>2. minimum' = minimum
    BY <2>1 DEF Asked, Setting, Read
  <2>3. Signals(minimum.of)' = Signals(minimum.of)
    <3> HIDE DEF minimum
    <3> QED
      BY <2>1, <2>2 DEF Signals, ClaimSymbols, BeforeCutoff
  <2> HIDE DEF minimum
  <2>4. backtest.status = "simulated" => backtest'.signals = Signals(minimum.of)'
    BY <2>1, <2>3 DEF SignalsInv, minimum
  <2> QED
    BY <2>1, <2>4 DEF SignalsInv, minimum
<1>2. CASE Drafting
  BY <1>2 DEF Drafting, SignalsInv
<1>3. ASSUME NEW asked \in BacktestRequests, RequestBacktest(asked) PROVE SignalsInv'
  <2> DEFINE status == IF Missing(submission.spec.universe, asked.symbols) = {}
                       THEN "queued" ELSE "snapshot_universe_mismatch"
  <2>1. backtest' = [NoBacktest EXCEPT !.status = status, !.asked = asked]
    BY <1>3 DEF RequestBacktest
  <2>2. backtest' = [status |-> status, asked |-> asked, signals |-> {}, current |-> FALSE]
    BY <2>1 DEF NoBacktest
  <2>3. backtest'.status # "simulated"
    BY <2>2
  <2> QED
    BY <2>3 DEF SignalsInv
<1>4. CASE RunBacktest
  <2> DEFINE minimum == Asked("claim_confidence")
             signals == IF EngineAccepts(backtest.asked) THEN Signals(minimum.of) ELSE {}
             status == IF EngineAccepts(backtest.asked) THEN "simulated" ELSE "refused"
             current == \A c \in ToSet(submission.ids) : review[c] = "accepted"
  <2>1. /\ UNCHANGED <<says, review, submission>>
        /\ backtest' = [backtest EXCEPT !.status = status, !.signals = signals, !.current = current]
    BY <1>4 DEF RunBacktest, draftVars
  <2>2. status = "simulated" => signals = Signals(minimum.of)
    OBVIOUS
  <2>3. current => \A c \in ToSet(submission.ids) : review[c] = "accepted"
    OBVIOUS
  <2> HIDE DEF status, signals, current
  <2>4. backtest' = [status |-> status, asked |-> backtest.asked, signals |-> signals, current |-> current]
    BY <2>1 DEF RunInv
  <2>5. /\ backtest'.status = status /\ backtest'.asked = backtest.asked
        /\ backtest'.signals = signals /\ backtest'.current = current
    BY <2>4
  <2>6. minimum' = minimum
    BY <2>1, <2>5 DEF Asked, Setting, Read
  <2>7. Signals(minimum.of)' = Signals(minimum.of)
    <3> HIDE DEF minimum
    <3> QED
      BY <2>1, <2>5, <2>6 DEF Signals, ClaimSymbols, BeforeCutoff
  <2>8. status = "simulated" => backtest'.signals = Signals(minimum.of)'
    BY <2>2, <2>5, <2>7
  <2>9. backtest'.current => \A c \in ToSet(submission'.ids) : review'[c] = "accepted"
    BY <2>1, <2>3, <2>5
  <2> QED
    BY <2>5, <2>8, <2>9 DEF SignalsInv
<1> QED
  BY <1>1, <1>2, <1>3, <1>4 DEF Next

\* The signed confidence of a stored claim is a number.
LEMMA SignedIsNumber ==
  ASSUME ReadInv, NEW c \in Claims
  PROVE  /\ Signed(c) \in Int
         /\ says[c].sign = 0 => Signed(c) = 0
         /\ says[c].sign # 1 => Signed(c) <= 0
         /\ says[c].confidence \in 0 .. One /\ says[c].themes \subseteq Themes
<1>1. says[c] \in ClaimData
  BY DEF ReadInv
<1>2. /\ says[c].confidence \in 0 .. One /\ says[c].sign \in {-1, 0, 1}
      /\ says[c].themes \subseteq Themes
  <2> DEFINE d == says[c]
  <2>1. d \in ClaimData
    BY <1>1
  <2> HIDE DEF d
  <2>2. d.confidence \in 0 .. One /\ d.sign \in {-1, 0, 1} /\ d.themes \subseteq Themes
    BY <2>1, ClaimsAssumption
  <2> QED
    BY <2>2 DEF d
<1> DEFINE n == says[c].confidence
           k == says[c].sign
<1> HIDE DEF n, k
<1>3. n \in 0 .. One /\ k \in {-1, 0, 1}
  BY <1>2 DEF n, k
<1>4. n \in Int /\ 0 <= n
  BY <1>3 DEF One
<1>5. (-1) * n \in Int /\ (-1) * n <= 0 /\ 0 * n = 0 /\ 1 * n \in Int
  BY <1>4
<1>6. k * n \in Int /\ (k = 0 => k * n = 0) /\ (k # 1 => k * n <= 0)
  BY <1>3, <1>5
<1> QED
  BY <1>2, <1>6 DEF Signed, n, k

\* The net confidence of some claims, each counted once.
Terms(claims) == [c \in Claims |-> IF c \in claims THEN Signed(c) ELSE 0]

Total(claims) == SumFunction(Terms(claims))

LEMMA TermsAreNumbers == ASSUME ReadInv, NEW claims PROVE Terms(claims) \in [Claims -> Int]
  BY SignedIsNumber DEF Terms

\* The places of the claims kept are finitely many, and hold claims.
LEMMA KeptPlaces ==
  ASSUME ReadInv, NEW kept, kept = Accepted(request.read)
  PROVE  /\ kept = [i \in DOMAIN kept |-> kept[i]] /\ IsFiniteSet(DOMAIN kept)
         /\ \A i \in DOMAIN kept : kept[i].id \in Claims
         /\ Ids(kept) = [i \in DOMAIN kept |-> kept[i].id]
<1> DEFINE read == request.read
           D == {i \in DOMAIN read : read[i].review = "accepted"}
<1>1. read \in Seq(ReadClaim)
  BY DEF ReadInv
<1>2. DOMAIN read = 1 .. Len(read) /\ Len(read) \in Nat
  BY <1>1
<1>3. IsFiniteSet(DOMAIN read)
  BY <1>2, FS_Interval
<1>4. \A i \in DOMAIN read : read[i].id \in Claims
  <2>1. \A i \in DOMAIN read : read[i] \in ReadClaim
    BY <1>1
  <2> QED
    BY <2>1 DEF ReadClaim
<1> HIDE DEF read
<1>5. kept = [i \in D |-> read[i]]
  BY DEF Accepted, Restrict, read
<1>6. D \subseteq DOMAIN read
  OBVIOUS
<1> HIDE DEF D
<1>7. IsFiniteSet(D)
  BY <1>3, <1>6, FS_Subset
<1>8. DOMAIN kept = D /\ \A i \in D : kept[i] = read[i]
  BY <1>5
<1> QED
  BY <1>4, <1>5, <1>6, <1>7, <1>8 DEF Ids

\* Drafting sums over the places of a list; without repetitions that is the sum
\* over the claims listed.
LEMMA NetIsTotal ==
  ASSUME ReadInv, NEW kept, kept = Accepted(request.read), ~Repeats(Ids(kept)),
         NEW K \in SUBSET Claims
  PROVE  Net(kept, K) = Total(ToSet(Ids(kept)) \cap K)
<1> DEFINE S == {j \in DOMAIN kept : kept[j].id \in K}
           f == [i \in S |-> kept[i].id]
           a == [i \in S |-> Signed(kept[i].id)]
           cited == ToSet(Ids(kept)) \cap K
<1>1. /\ IsFiniteSet(DOMAIN kept) /\ \A i \in DOMAIN kept : kept[i].id \in Claims
      /\ Ids(kept) = [i \in DOMAIN kept |-> kept[i].id]
  BY KeptPlaces
<1>2. IsFiniteSet(S) /\ IsFiniteSet(Claims)
  BY <1>1, FS_Subset, ClaimsAssumption
<1>3. f \in [S -> Claims] /\ a \in [S -> Int]
  BY <1>1, SignedIsNumber
<1>4. \A i, j \in S : f[i] = f[j] => i = j
  BY <1>1 DEF Repeats, IsInjective
<1>5. Terms(cited) \in [Claims -> Int]
  BY TermsAreNumbers
<1>6. ASSUME NEW i \in S PROVE Terms(cited)[f[i]] = a[i]
  <2>1. kept[i].id \in cited /\ kept[i].id \in Claims
    BY <1>1 DEF ToSet
  <2> HIDE DEF cited
  <2> QED
    BY <2>1 DEF Terms
<1>7. ASSUME NEW c \in Claims, \A i \in S : f[i] # c PROVE Terms(cited)[c] = 0
  <2>1. ASSUME NEW i \in DOMAIN kept, kept[i].id = c PROVE c \notin K
    <3>1. i \notin S
      BY <1>7, <2>1
    <3> QED
      BY <2>1, <3>1
  <2>2. \A x \in ToSet(Ids(kept)) : \E i \in DOMAIN kept : kept[i].id = x
    BY <1>1 DEF ToSet
  <2>3. c \notin cited
    BY <2>1, <2>2
  <2> HIDE DEF cited
  <2> QED
    BY <2>3 DEF Terms
<1>8. Net(kept, K) = SumFunction(a)
  BY DEF Net
<1> HIDE DEF S, f, a, cited
<1>9. SumFunction(a) = SumFunction(Terms(cited))
  BY <1>2, <1>3, <1>4, <1>5, <1>6, <1>7, Reindexed
<1> QED
  BY <1>8, <1>9 DEF Total, cited

\* A run sums over the live claims that signal; the others of the set are neutral.
LEMMA SupportIsTotal ==
  ASSUME ReadInv, NEW s, NEW day, NEW T \in SUBSET Claims,
         \A c \in Claims : c \in ActiveClaims(s, day) <=> c \in T /\ says[c].sign # 0
  PROVE  Support(s, day) = Total(T)
<1> DEFINE S == ActiveClaims(s, day)
           f == [c \in S |-> c]
           a == [c \in S |-> Signed(c)]
<1>0. S \subseteq Claims
  BY DEF ActiveClaims
<1> HIDE DEF S
<1>1. IsFiniteSet(S) /\ IsFiniteSet(Claims)
  BY <1>0, FS_Subset, ClaimsAssumption
<1>2. f \in [S -> Claims] /\ a \in [S -> Int] /\ \A i, j \in S : f[i] = f[j] => i = j
  BY <1>0, SignedIsNumber
<1>3. Terms(T) \in [Claims -> Int]
  BY TermsAreNumbers
<1>4. \A c \in S : Terms(T)[f[c]] = a[c]
  BY <1>0 DEF Terms, S
<1>5. ASSUME NEW c \in Claims, \A i \in S : f[i] # c PROVE Terms(T)[c] = 0
  <2>1. c \notin S
    BY <1>5
  <2>2. c \notin T \/ Signed(c) = 0
    BY <2>1, SignedIsNumber DEF S
  <2> QED
    BY <2>2 DEF Terms
<1>6. Support(s, day) = SumFunction(a)
  BY DEF Support, S
<1> HIDE DEF f, a
<1>7. SumFunction(a) = SumFunction(Terms(T))
  BY <1>1, <1>2, <1>3, <1>4, <1>5, Reindexed
<1> QED
  BY <1>6, <1>7 DEF Total

\* The two kinds of drafts.
LEMMA DraftKinds ==
  ASSUME NEW d, d = BuildDraft(request.read), d # NoDraft,
         NEW kept, kept = Accepted(request.read)
  PROVE  /\ d.filters = DefaultFilters(kept) /\ d.claims = Ids(kept)
         /\ \/ d.kind = "equity" /\ d.universe = NetTickerSymbols(kept)
            \/ d.kind = "macro" /\ d.universe = UNION {Proxies[t] : t \in NetMacroThemes(kept)}
<1>1. \/ d = Proposal("equity", NetTickerSymbols(kept), kept)
      \/ d = Proposal("macro", UNION {Proxies[t] : t \in NetMacroThemes(kept)}, kept)
  BY DEF BuildDraft
<1> QED
  BY <1>1 DEF Proposal

\* The floor of a committed draft is under the confidence of each claim it names,
\* or was dropped.
LEMMA FloorIsKept ==
  ASSUME ReadInv, DraftInv, ProposalInv, submission.answer = "created", ~Edited,
         NEW parameters, NEW version, "claim_confidence" \notin DOMAIN parameters,
         NEW c \in ToSet(request.draft.claims)
  PROVE  Setting(submission.spec.filters, parameters, version, "claim_confidence").of <= says[c].confidence
<1> DEFINE kept == Accepted(request.read)
           F == DefaultFilters(kept)
           C == {says[x.id].confidence : x \in ToSet(kept)}
           n == Floor(Min({One} \cup C))
           filters == submission.spec.filters
           places == Read(filters, "claim_confidence")
<1>1. request.draft = BuildDraft(request.read) /\ request.draft # NoDraft /\ request.answer = "drafted"
      /\ submission.spec \in Edits(request.draft)
  BY DEF ProposalInv
<1>2. request.draft.filters = F /\ request.draft.claims = Ids(kept)
  BY <1>1, DraftKinds
<1>3. IsDraft(request.draft, request.read)
  BY <1>1 DEF DraftInv
<1>4. DOMAIN filters \subseteq 1 .. 3 /\ \A i \in DOMAIN filters : filters[i] = F[i]
  BY <1>1, <1>2, <1>3, EditedFilters DEF Edited
<1>5. /\ DOMAIN kept = DOMAIN Ids(kept) /\ \A i \in DOMAIN kept : kept[i].id \in Claims
      /\ \A i \in DOMAIN kept : Ids(kept)[i] = kept[i].id
  BY KeptPlaces DEF Ids
<1>6. C \subseteq 0 .. One
  BY <1>5, SignedIsNumber DEF ToSet
<1>7. says[c].confidence \in C
  <2>1. PICK i \in DOMAIN kept : kept[i].id = c
    BY <1>2, <1>5 DEF ToSet
  <2>2. kept[i] \in ToSet(kept)
    BY DEF ToSet
  <2> QED
    BY <2>1, <2>2
<1>8. n <= says[c].confidence
  <2> DEFINE least == Min({One} \cup C)
  <2>1. least \in 0 .. One /\ least <= says[c].confidence
    BY <1>6, <1>7, LeastConfidence
  <2>2. says[c].confidence \in 0 .. One
    BY <1>6, <1>7
  <2> HIDE DEF least
  <2>3. Floor(least) \in 0 .. One /\ Floor(least) <= least
    BY <2>1, FloorIsBelow
  <2> DEFINE floor == Floor(least)
             bound == says[c].confidence
  <2> HIDE DEF floor, bound
  <2>4. floor <= bound
    <3>0. floor \in 0 .. One /\ least \in 0 .. One /\ bound \in 0 .. One
      BY <2>1, <2>2, <2>3 DEF floor, bound
    <3>1. floor \in Int /\ least \in Int /\ bound \in Int
      BY <3>0 DEF One
    <3>2. floor <= least /\ least <= bound
      BY <2>1, <2>3 DEF floor, bound
    <3> QED
      BY <3>1, <3>2
  <2> QED
    BY <2>4 DEF floor, bound, least
<1>9. 0 <= says[c].confidence
  BY <1>6, <1>7
<1>10. F[1].value = Number(n) /\ F[2].field # "claim_confidence" /\ F[3].field # "claim_confidence"
  BY DEF DefaultFilters, Filter
<1> HIDE DEF F, n, C, kept, filters
<1>11. \A i \in places : i \in DOMAIN filters /\ i = 1
  <2>1. \A i \in DOMAIN filters : i \in 1 .. 3 /\ filters[i] = F[i]
    BY <1>4
  <2>2. \A i \in DOMAIN filters : filters[i].field = "claim_confidence" => i # 2 /\ i # 3
    BY <2>1, <1>10
  <2>3. \A i \in DOMAIN filters : filters[i].field = "claim_confidence" => i = 1
    BY <2>1, <2>2
  <2> QED
    BY <2>3 DEF Read
<1> HIDE DEF places
<1>12. CASE places = {}
  <2>1. Setting(filters, parameters, version, "claim_confidence") = Number(0)
    BY <1>12 DEF Setting, places, Defaults
  <2> QED
    BY <1>9, <2>1 DEF Number, filters
<1>13. CASE places # {}
  <2>1. Max(places) = 1 /\ 1 \in DOMAIN filters
    <3>1. places \in SUBSET (1 .. 3)
      BY <1>11
    <3>2. Max(places) \in places
      BY <1>13, <3>1, LastPlace
    <3> QED
      BY <1>11, <3>2
  <2>2. Setting(filters, parameters, version, "claim_confidence") = filters[Max(places)].value
    BY <1>13 DEF Setting, places
  <2>3. Setting(filters, parameters, version, "claim_confidence") = Number(n)
    BY <1>4, <1>10, <2>1, <2>2
  <2> QED
    BY <1>8, <2>3 DEF Number, filters
<1> QED
  BY <1>12, <1>13

\* Without repetitions, a client that may cite anything cites the claims as listed.
LEMMA CommittedAsListed ==
  ASSUME DraftInv, ProposalInv, submission.answer = "created", ~Repeats(request.draft.claims)
  PROVE  /\ submission.ids = request.draft.claims
         /\ submission.spec.universe = request.draft.universe
<1>1. /\ request.answer = "drafted" /\ submission.spec \in Edits(request.draft)
      /\ submission.ids \in Citations(request.draft) \ {<<>>}
  BY DEF ProposalInv
<1>2. IsDraft(request.draft, request.read)
  BY <1>1 DEF DraftInv
<1>3. submission.spec.universe = request.draft.universe
  BY <1>1, <1>2, EditedFilters
<1>4. submission.ids = request.draft.claims
  BY <1>1 DEF Citations
<1> QED
  BY <1>3, <1>4

\* The claims that speak of s in a run are those whose net confidence put it into
\* the draft.
LEMMA SameClaimsSpeak ==
  ASSUME ReadInv, NEW d, d = BuildDraft(request.read), d # NoDraft, request.draft = d,
         NEW kept, kept = Accepted(request.read), submission.ids = Ids(kept), ~Repeats(Ids(kept)),
         NEW s \in d.universe, ~SpokenOfTwice(s)
  PROVE  Total({c \in ToSet(Ids(kept)) : s \in ClaimSymbols(c)}) > 0
<1> DEFINE cited == ToSet(Ids(kept))
           speak == {c \in cited : s \in ClaimSymbols(c)}
<1>1. cited \subseteq Claims
  BY KeptPlaces DEF ToSet
<1>2. \A t \in Themes, c \in cited : s \in Proxies[t] /\ says[c].ticker # NoTicker =>
        says[c].ticker # s /\ ~(d.kind = "macro" /\ t \in says[c].themes)
  BY DEF SpokenOfTwice
<1>3. \A K \in SUBSET Claims : Net(kept, K) = Total(cited \cap K)
  BY NetIsTotal
<1>4. \A c \in cited : says[c].themes \subseteq Themes
  BY <1>1, SignedIsNumber
<1>5. \/ d.kind = "equity" /\ d.universe = NetTickerSymbols(kept)
      \/ d.kind = "macro" /\ d.universe = UNION {Proxies[t] : t \in NetMacroThemes(kept)}
  BY DraftKinds
<1>6. \A c \in cited : s \in ClaimSymbols(c) <=>
        \/ says[c].ticker # NoTicker /\ says[c].ticker = s
        \/ says[c].ticker = NoTicker /\ \E t \in says[c].themes : s \in Proxies[t]
  BY DEF ClaimSymbols
<1> HIDE DEF cited
<1>7. CASE d.universe = NetTickerSymbols(kept)
  <2> DEFINE K == {c \in Claims : says[c].ticker = s}
  <2>1. s # NoTicker /\ Net(kept, K) > 0
    BY <1>7 DEF NetTickerSymbols, Tickers
  <2>2. Total(cited \cap K) > 0
    BY <1>3, <2>1
  <2>3. PICK b \in cited : says[b].ticker = s
    <3>1. Total({}) = 0
      <4>1. Terms({}) = [c \in Claims |-> 0]
        BY DEF Terms
      <4> QED
        BY <4>1, SumOfZeros, ClaimsAssumption DEF Total
    <3>2. cited \cap K # {}
      BY <2>2, <3>1
    <3> QED
      BY <3>2
  <2>4. \A t \in Themes : s \notin Proxies[t]
    BY <1>2, <2>1, <2>3
  <2>5. ASSUME NEW c \in cited PROVE c \in K <=> s \in ClaimSymbols(c)
    <3>1. \A t \in says[c].themes : s \notin Proxies[t]
      BY <1>4, <2>4
    <3> QED
      BY <1>1, <1>6, <2>1, <3>1
  <2>6. speak = cited \cap K
    BY <2>5
  <2> QED
    BY <2>2, <2>6 DEF cited
<1>8. CASE d.kind = "macro" /\ d.universe = UNION {Proxies[t] : t \in NetMacroThemes(kept)}
  <2>1. PICK t \in NetMacroThemes(kept) : s \in Proxies[t]
    BY <1>8
  <2> DEFINE K == {c \in Claims : t \in says[c].themes}
  <2>2. t \in Themes /\ Net(kept, K) > 0
    BY DEF NetMacroThemes
  <2>3. Total(cited \cap K) > 0
    BY <1>3, <2>2
  <2>4. \A u \in Themes : s \in Proxies[u] => u = t
    BY <2>1, <2>2, ThemesAssumption
  <2>5. ASSUME NEW c \in cited PROVE c \in K <=> s \in ClaimSymbols(c)
    <3>1. says[c].ticker # NoTicker => says[c].ticker # s /\ t \notin says[c].themes
      BY <1>2, <1>8, <2>1, <2>2
    <3>2. (\E u \in says[c].themes : s \in Proxies[u]) <=> t \in says[c].themes
      BY <1>4, <2>1, <2>4
    <3> QED
      BY <1>1, <1>6, <3>1, <3>2
  <2>6. speak = cited \cap K
    BY <2>5
  <2> QED
    BY <2>3, <2>6 DEF cited
<1> QED
  BY <1>5, <1>7, <1>8

\* Leaving out claims that do not speak for the symbol takes nothing from the net.
LEMMA LessAgainst ==
  ASSUME ReadInv, NEW speak \in SUBSET Claims, NEW T \in SUBSET speak,
         \A c \in speak \ T : says[c].sign # 1
  PROVE  Total(speak) <= Total(T) /\ Total(speak) \in Int /\ Total(T) \in Int
<1>1. Terms(speak) \in [Claims -> Int] /\ Terms(T) \in [Claims -> Int]
  BY TermsAreNumbers
<1>2. ASSUME NEW c \in Claims PROVE Terms(speak)[c] <= Terms(T)[c]
  <2>1. Signed(c) \in Int /\ (says[c].sign # 1 => Signed(c) <= 0)
    BY SignedIsNumber
  <2>2. /\ Terms(speak)[c] = IF c \in speak THEN Signed(c) ELSE 0
        /\ Terms(T)[c] = IF c \in T THEN Signed(c) ELSE 0
    BY DEF Terms
  <2>3. c \in speak /\ c \notin T => Signed(c) <= 0
    BY <2>1
  <2> QED
    BY <2>1, <2>2, <2>3
<1> QED
  BY <1>1, <1>2, SumIsMonotone, ClaimsAssumption DEF Total

LEMMA RunIsSupported ==
  ASSUME ReadInv, DraftInv, ProposalInv, SignalsInv, RunInv
  PROVE  DraftSupported
<1> SUFFICES ASSUME backtest.status = "simulated", backtest.current, ~Edited,
                    "claim_confidence" \notin DOMAIN backtest.asked.parameters,
                    ~Repeats(request.draft.claims),
                    NEW s \in submission.spec.universe, NEW day \in TradingDays,
                    ~SupportLeftOut(s, day), ~SpokenOfTwice(s)
             PROVE  Support(s, day) > 0
  BY DEF DraftSupported
<1> DEFINE d == request.draft
           kept == Accepted(request.read)
           cited == ToSet(Ids(kept))
           minimum == Asked("claim_confidence").of
           speak == {c \in cited : s \in ClaimSymbols(c)}
           counts == {c \in speak : BeforeCutoff(c) /\ Live(c, day)}
<1>1. submission.answer = "created"
  BY DEF RunInv
<1>2. request.answer = "drafted" /\ d = BuildDraft(request.read) /\ d # NoDraft
  BY <1>1 DEF ProposalInv
<1>3. d.claims = Ids(kept) /\ submission.ids = Ids(kept) /\ s \in d.universe
  BY <1>1, <1>2, CommittedAsListed, DraftKinds
<1>4. cited \subseteq Claims
  BY KeptPlaces DEF ToSet
<1>5. \A c \in cited : minimum <= says[c].confidence
  BY <1>1, <1>3, FloorIsKept DEF Asked
<1>6. backtest.signals = Signals(minimum) /\ \A c \in cited : review[c] = "accepted"
  BY <1>3 DEF SignalsInv
<1> HIDE DEF minimum
<1>7. \A c \in Claims : c \in ActiveClaims(s, day) <=> c \in counts /\ says[c].sign # 0
  <2>1. \A c \in cited : says[c].confidence >= minimum
    BY <1>5
  <2> HIDE DEF cited
  <2>2. \A c \in Claims : <<c, s>> \in Signals(minimum) <=>
          /\ c \in ToSet(submission.ids) /\ review[c] = "accepted" /\ says[c].sign # 0
          /\ BeforeCutoff(c) /\ s \in ClaimSymbols(c) /\ says[c].confidence >= minimum
    BY DEF Signals
  <2>3. ToSet(submission.ids) = cited
    BY <1>3 DEF cited
  <2> QED
    BY <1>6, <2>1, <2>2, <2>3 DEF ActiveClaims
<1>8. speak \subseteq Claims /\ counts \subseteq speak
  BY <1>4
<1>9. Support(s, day) = Total(counts)
  <2>1. counts \in SUBSET Claims
    BY <1>8
  <2> HIDE DEF counts
  <2> QED
    BY <1>7, <2>1, SupportIsTotal
<1>10. Total(speak) > 0
  BY <1>2, <1>3, SameClaimsSpeak
<1>11. \A c \in speak \ counts : says[c].sign # 1
  BY <1>3 DEF SupportLeftOut
<1>12. Total(speak) <= Total(counts) /\ Total(speak) \in Int /\ Total(counts) \in Int
  <2> HIDE DEF speak, counts
  <2> QED
    BY <1>8, <1>11, LessAgainst
<1> QED
  BY <1>9, <1>10, <1>12

\* signals.go: "Drafting (builder.go) asks which symbols a body of research points
\* at once [...]; this file asks the same question per claim, per day".  For any
\* claims, requests, cutoffs, horizons, reviews and edits that drop filters, a run
\* whose claims stand has net positive research behind every symbol of a committed
\* draft on every day, unless the cutoff or a horizon leaves out a claim for the
\* symbol, a claim was listed twice, or the symbol is spoken of as ticker and proxy.
THEOREM DraftsAreSupported == Spec => []DraftSupported
<1> DEFINE Inv == ReadInv /\ DraftInv /\ SubmissionInv /\ RunInv /\ ProposalInv /\ SignalsInv
<1>1. Init => Inv
  <2> SUFFICES ASSUME Init PROVE Inv
    OBVIOUS
  <2>1. ReadInv /\ DraftInv
    BY InitRead DEF Init
  <2>2. /\ submission = [answer |-> "none", spec |-> NoDraft, ids |-> <<>>] /\ backtest = NoBacktest
        /\ request = [phase |-> "idle", claims |-> <<>>, documents |-> <<>>, read |-> <<>>,
                      draft |-> NoDraft, answer |-> "none"]
    BY DEF Init, DraftInit
  <2>3. submission.answer = "none" /\ backtest.status = "none" /\ request.answer = "none"
    BY <2>2 DEF NoBacktest
  <2>4. SubmissionInv /\ RunInv
    BY <2>2, <2>3 DEF SubmissionInv, RunInv, DraftRuns, NoBacktest
  <2> QED
    BY <2>1, <2>3, <2>4 DEF ProposalInv, SignalsInv
<1>2. [Next]_vars => [DraftNext]_draftVars
  BY DEF Next, vars, Drafting, RequestBacktest, RunBacktest
<1>3. Inv /\ [Next]_vars => Inv'
  BY <1>2, DraftStep, SubmissionStep, RunStep, ProposalStep, SignalsStep
<1>4. Inv => DraftSupported
  BY RunIsSupported
<1> QED
  BY <1>1, <1>3, <1>4, PTL DEF Spec
=============================================================================
