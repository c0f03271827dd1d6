----------------------- MODULE StrategyVersionsProofs -----------------------
(***************************************************************************)
(* Proofs about StrategyVersions, for any requests, slugs and claims.      *)
(***************************************************************************)
EXTENDS StrategyVersions, FiniteSetTheorems, TLAPS

USE DEF Phase, ReviewStatus, NoTransaction

(***************************************************************************)
(* The type invariant and the lock.                                        *)
(***************************************************************************)
\* COALESCE(MAX(version), 0) of the versions 1, ..., n is n.
LEMMA MaxOfInterval == \A n \in Nat : MaxOf(1 .. n) = n
<1> SUFFICES ASSUME NEW n \in Nat PROVE MaxOf(1 .. n) = n
  OBVIOUS
<1>1. CASE n = 0
  BY <1>1 DEF MaxOf
<1>2. CASE n # 0
  <2>1. n \in 1 .. n /\ \A k \in 1 .. n : k <= n
    BY <1>2
  <2>2. \A m \in 1 .. n : (\A k \in 1 .. n : k <= m) => m = n
    BY <2>1
  <2> QED
    BY <2>1, <2>2 DEF MaxOf
<1> QED
  BY <1>1, <1>2

\* The versions the rows of a slug carry are natural numbers, and 1, ..., n for
\* some n: the form of VersionsGapless that is inductive.
Numbered == \A s \in Slugs : \E n \in Nat : VersionsOf(s) = 1 .. n

\* The next version is a natural number.
LEMMA NextVersionNat ==
  ASSUME Numbered, NEW s \in Slugs
  PROVE  NextVersion(s) \in Nat
  BY MaxOfInterval DEF Numbered, NextVersion

\* Ending a transaction, by commit or rollback, releases its lock and no other.
LEMMA EndsTypeOK ==
  ASSUME TypeOK, NEW q \in Requests, Ends(q)
  PROVE  /\ lock' \in [Slugs -> Requests \cup {NoRequest}]
         /\ tx' \in [Requests -> Transaction]
         /\ \A p \in Requests : tx'[p].phase = "idle" <=> tx'[p].slug = NoSlug
         /\ \A p \in Requests, s \in Slugs :
              lock'[s] = p <=> tx'[p].slug = s /\ tx'[p].phase \in {"locked", "verified", "inserted"}
  BY RequestsAssumption, SlugsAssumption DEF TypeOK, Ends, Unlocked, Transaction

\* TypeOK is inductive, given that versions are numbered: a transaction past the
\* wait holds the advisory lock of its slug, alone.
LEMMA TypeOKStep == TypeOK /\ Numbered /\ [Next]_vars => TypeOK'
<1> SUFFICES ASSUME TypeOK, Numbered, [Next]_vars PROVE TypeOK'
  OBVIOUS
<1>1. CASE UNCHANGED vars
  BY <1>1 DEF TypeOK, vars
<1>2. ASSUME NEW c \in Claims, NEW status \in ReviewStatus, ReviewClaim(c, status) PROVE TypeOK'
  BY <1>2 DEF TypeOK, ReviewClaim
<1>3. ASSUME NEW q \in Requests, NEW s \in Slugs, NEW claims \in SUBSET Claims, Begin(q, s, claims)
      PROVE  TypeOK'
  BY <1>3, SlugsAssumption DEF TypeOK, Begin, Transaction
<1>4. ASSUME NEW q \in Requests, LockSlug(q) PROVE TypeOK'
  BY <1>4, RequestsAssumption, SlugsAssumption DEF TypeOK, LockSlug, Free, Transaction
<1>5. ASSUME NEW q \in Requests, VerifyClaims(q) PROVE TypeOK'
  <2>1. CASE Ends(q)
    BY <1>5, <2>1, EndsTypeOK DEF TypeOK, VerifyClaims
  <2>2. CASE tx' = [tx EXCEPT ![q].phase = "verified"] /\ UNCHANGED lock
    BY <1>5, <2>2, SlugsAssumption DEF TypeOK, VerifyClaims, Transaction
  <2> QED
    BY <1>5, <2>1, <2>2 DEF VerifyClaims
<1>6. ASSUME NEW q \in Requests, InsertStrategy(q) PROVE TypeOK'
  <2>1. tx[q].slug \in Slugs
    BY <1>6 DEF TypeOK, InsertStrategy, Transaction
  <2>2. NextVersion(tx[q].slug) \in Nat
    BY <2>1, NextVersionNat
  <2> QED
    BY <1>6, <2>1, <2>2 DEF TypeOK, InsertStrategy, Transaction
<1>7. ASSUME NEW q \in Requests, Commit(q) PROVE TypeOK'
  <2>1. [slug |-> tx[q].slug, version |-> tx[q].version, claims |-> tx[q].claims] \in Row
    BY <1>7 DEF TypeOK, Commit, Row, Transaction
  <2>2. strategies' \subseteq Row
    BY <1>7, <2>1 DEF TypeOK, Commit
  <2> QED
    BY <1>7, <2>2, EndsTypeOK DEF TypeOK, Commit
<1>8. ASSUME NEW q \in Requests, Rollback(q) PROVE TypeOK'
  BY <1>8, EndsTypeOK DEF TypeOK, Rollback
<1> QED
  BY <1>1, <1>2, <1>3, <1>4, <1>5, <1>6, <1>7, <1>8 DEF Next

-----------------------------------------------------------------------------
(***************************************************************************)
(* Versions.  The rows change only at Commit, whose number is still the    *)
(* next one because the lock keeps every other transaction of the slug     *)
(* from being past its wait.                                               *)
(***************************************************************************)
\* The versions of a slug after a commit.
LEMMA CommitVersions ==
  ASSUME TypeOK, Numbered, VersionStillNext, NEW q \in Requests, Commit(q), NEW s \in Slugs
  PROVE  IF s = tx[q].slug
         THEN \E n \in Nat : VersionsOf(s) = 1 .. n /\ VersionsOf(s)' = 1 .. (n + 1)
         ELSE VersionsOf(s)' = VersionsOf(s)
<1>1. tx[q].slug \in Slugs
  BY DEF TypeOK, Commit, Transaction
<1>2. PICK n \in Nat : VersionsOf(tx[q].slug) = 1 .. n
  BY <1>1 DEF Numbered
<1>3. tx[q].version = n + 1
  BY <1>2, MaxOfInterval DEF VersionStillNext, Commit, NextVersion
<1>4. tx[q].version \notin VersionsOf(tx[q].slug)
  BY <1>2, <1>3
<1> DEFINE row == [slug |-> tx[q].slug, version |-> tx[q].version, claims |-> tx[q].claims]
<1>5. strategies' = strategies \cup {row}
  BY <1>4 DEF Commit
<1>6. row.slug = tx[q].slug /\ row.version = tx[q].version
  OBVIOUS
<1> HIDE DEF row
<1>7. CASE s = tx[q].slug
  <2>1. VersionsOf(s)' = VersionsOf(s) \cup {n + 1}
    BY <1>3, <1>5, <1>6, <1>7 DEF VersionsOf
  <2> QED
    BY <1>2, <1>7, <2>1
<1>8. CASE s # tx[q].slug
  BY <1>5, <1>6, <1>8 DEF VersionsOf
<1> QED
  BY <1>7, <1>8

\* Numbered is inductive.
LEMMA NumberedStep == TypeOK /\ Numbered /\ VersionStillNext /\ [Next]_vars => Numbered'
<1> SUFFICES ASSUME TypeOK, Numbered, VersionStillNext, [Next]_vars PROVE Numbered'
  OBVIOUS
<1>1. CASE UNCHANGED strategies
  BY <1>1 DEF Numbered, VersionsOf
<1>2. ASSUME NEW q \in Requests, Commit(q) PROVE Numbered'
  <2> SUFFICES ASSUME NEW s \in Slugs PROVE \E n \in Nat : VersionsOf(s)' = 1 .. n
    BY DEF Numbered
  <2>1. CASE s = tx[q].slug
    BY <1>2, <2>1, CommitVersions
  <2>2. CASE s # tx[q].slug
    BY <1>2, <2>2, CommitVersions DEF Numbered
  <2> QED
    BY <2>1, <2>2
<1> QED
  BY <1>1, <1>2 DEF Next, vars, ReviewClaim, Begin, LockSlug, VerifyClaims, InsertStrategy, Rollback

\* VersionStillNext is inductive: when one transaction commits, no other of the
\* same slug has taken a number, since both would hold the lock.
LEMMA StillNextStep == TypeOK /\ Numbered /\ VersionStillNext /\ [Next]_vars => VersionStillNext'
<1> SUFFICES ASSUME TypeOK, Numbered, VersionStillNext, [Next]_vars PROVE VersionStillNext'
  OBVIOUS
<1>1. CASE UNCHANGED strategies /\ \A p \in Requests : tx'[p].phase = "inserted" => tx'[p] = tx[p]
  BY <1>1 DEF VersionStillNext, NextVersion, VersionsOf
<1>2. ASSUME NEW q \in Requests, InsertStrategy(q) PROVE VersionStillNext'
  <2>1. \A p \in Requests : p # q => tx'[p] = tx[p]
    BY <1>2 DEF InsertStrategy, TypeOK
  <2>2. tx'[q].slug = tx[q].slug /\ tx'[q].version = NextVersion(tx[q].slug)
    BY <1>2 DEF InsertStrategy, TypeOK
  <2>3. strategies' = strategies
    BY <1>2 DEF InsertStrategy
  <2> QED
    BY <2>1, <2>2, <2>3 DEF VersionStillNext, NextVersion, VersionsOf
<1>3. ASSUME NEW q \in Requests, Commit(q) PROVE VersionStillNext'
  <2> SUFFICES ASSUME NEW p \in Requests, (tx[p].phase = "inserted")'
               PROVE  (tx[p].version = NextVersion(tx[p].slug))'
    BY DEF VersionStillNext
  <2>1. p # q /\ tx'[p] = tx[p]
    BY <1>3 DEF Commit, Ends, TypeOK
  <2>2. PICK s \in Slugs : s = tx[p].slug /\ s # tx[q].slug
    BY <1>3, <2>1 DEF Commit, TypeOK, Transaction
  <2>3. VersionsOf(s)' = VersionsOf(s)
    BY <1>3, <2>2, CommitVersions
  <2>4. tx[p].version = NextVersion(s) /\ tx'[p].slug = s /\ tx'[p].version = tx[p].version
    BY <2>1, <2>2 DEF VersionStillNext
  <2>5. tx'[p].version = NextVersion(s)'
    BY <2>3, <2>4 DEF NextVersion
  <2> QED
    BY <2>4, <2>5 DEF NextVersion, VersionsOf
<1>4. ASSUME NEW q \in Requests, Ends(q), UNCHANGED strategies PROVE VersionStillNext'
  BY <1>1, <1>4 DEF Ends, TypeOK
<1>5. ASSUME NEW c \in Claims, NEW status \in ReviewStatus, ReviewClaim(c, status) PROVE VersionStillNext'
  BY <1>1, <1>5 DEF ReviewClaim
<1>6. ASSUME NEW q \in Requests, NEW s \in Slugs, NEW claims \in SUBSET Claims, Begin(q, s, claims)
      PROVE  VersionStillNext'
  BY <1>1, <1>6 DEF Begin, TypeOK
<1>7. ASSUME NEW q \in Requests, LockSlug(q) PROVE VersionStillNext'
  BY <1>1, <1>7 DEF LockSlug, TypeOK, Transaction
<1>8. ASSUME NEW q \in Requests, VerifyClaims(q) PROVE VersionStillNext'
  BY <1>1, <1>4, <1>8 DEF VerifyClaims, TypeOK, Transaction
<1>9. ASSUME NEW q \in Requests, Rollback(q) PROVE VersionStillNext'
  BY <1>4, <1>9 DEF Rollback
<1>10. CASE UNCHANGED vars
  BY <1>1, <1>10 DEF vars
<1> QED
  BY <1>2, <1>3, <1>5, <1>6, <1>7, <1>8, <1>9, <1>10 DEF Next

\* The invariant the version theorems rest on.
VersionInv == TypeOK /\ Numbered /\ VersionStillNext

\* The three parts are inductive together and hold at the start.
LEMMA VersionsInductive == Spec => []VersionInv
<1>1. Init => VersionInv
  <2> SUFFICES ASSUME Init PROVE VersionInv
    OBVIOUS
  <2>1. TypeOK
    BY RequestsAssumption, SlugsAssumption DEF Init, TypeOK, Transaction
  <2>2. \A s \in Slugs : VersionsOf(s) = 1 .. 0
    BY DEF Init, VersionsOf
  <2>3. Numbered /\ VersionStillNext
    BY <2>2 DEF Init, Numbered, VersionStillNext
  <2> QED
    BY <2>1, <2>3 DEF VersionInv
<1>2. VersionInv /\ [Next]_vars => VersionInv'
  BY TypeOKStep, NumberedStep, StillNextStep DEF VersionInv
<1> QED
  BY <1>1, <1>2, PTL DEF Spec

\* TypeOK, with the lock discipline: for every slug the advisory lock is held by
\* exactly the transaction past its wait.
THEOREM StrategyTypeCorrect == Spec => []TypeOK
<1>1. VersionInv => TypeOK
  BY DEF VersionInv
<1> QED
  BY <1>1, VersionsInductive, PTL

\* VersionsGapless: whatever interleaves or rolls back, the versions of a slug
\* are 1, 2, ... without a hole.
THEOREM Gapless == Spec => []VersionsGapless
<1>1. VersionInv => VersionsGapless
  <2> SUFFICES ASSUME VersionInv, NEW s \in Slugs
               PROVE  VersionsOf(s) = 1 .. Cardinality(VersionsOf(s))
    BY DEF VersionsGapless
  <2>1. PICK n \in Nat : VersionsOf(s) = 1 .. n
    BY DEF VersionInv, Numbered
  <2>2. Cardinality(1 .. n) = n
    BY FS_Interval
  <2> QED
    BY <2>1, <2>2
<1> QED
  BY <1>1, VersionsInductive, PTL

\* VersionStillNext: no accepted submission fails on UNIQUE (slug, version).
THEOREM NumberNeverTaken == Spec => []VersionStillNext
<1>1. VersionInv => VersionStillNext
  BY DEF VersionInv
<1> QED
  BY <1>1, VersionsInductive, PTL

-----------------------------------------------------------------------------
(***************************************************************************)
(* Citations.  A review never returns a claim to pending, so what a        *)
(* transaction verified stays reviewed until it commits.                   *)
(***************************************************************************)
\* The claims of a transaction that passed the gate were reviewed.
VerifiedWasReviewed ==
  \A q \in Requests : tx[q].phase \in {"verified", "inserted"} =>
    \A c \in tx[q].claims : review[c] # "pending"

\* CitedWasReviewed with its strengthening is inductive.
LEMMA ReviewedStep ==
  TypeOK /\ CitedWasReviewed /\ VerifiedWasReviewed /\ [Next]_vars
    => CitedWasReviewed' /\ VerifiedWasReviewed'
<1> SUFFICES ASSUME TypeOK, CitedWasReviewed, VerifiedWasReviewed, [Next]_vars
             PROVE  CitedWasReviewed' /\ VerifiedWasReviewed'
  OBVIOUS
<1> USE DEF CitedWasReviewed, VerifiedWasReviewed
<1>1. CASE UNCHANGED vars
  BY <1>1 DEF vars
<1>2. ASSUME NEW c \in Claims, NEW status \in ReviewStatus, ReviewClaim(c, status)
      PROVE  CitedWasReviewed' /\ VerifiedWasReviewed'
  BY <1>2 DEF ReviewClaim, TypeOK
<1>3. ASSUME NEW q \in Requests, NEW s \in Slugs, NEW claims \in SUBSET Claims, Begin(q, s, claims)
      PROVE  CitedWasReviewed' /\ VerifiedWasReviewed'
  BY <1>3 DEF Begin, TypeOK
<1>4. ASSUME NEW q \in Requests, LockSlug(q) PROVE CitedWasReviewed' /\ VerifiedWasReviewed'
  BY <1>4 DEF LockSlug, TypeOK, Transaction
<1>5. ASSUME NEW q \in Requests, VerifyClaims(q) PROVE CitedWasReviewed' /\ VerifiedWasReviewed'
  BY <1>5 DEF VerifyClaims, Citable, Ends, TypeOK, Transaction
<1>6. ASSUME NEW q \in Requests, InsertStrategy(q) PROVE CitedWasReviewed' /\ VerifiedWasReviewed'
  BY <1>6 DEF InsertStrategy, TypeOK, Transaction
<1>7. ASSUME NEW q \in Requests, Commit(q) PROVE CitedWasReviewed' /\ VerifiedWasReviewed'
  BY <1>7 DEF Commit, Ends, TypeOK
<1>8. ASSUME NEW q \in Requests, Rollback(q) PROVE CitedWasReviewed' /\ VerifiedWasReviewed'
  BY <1>8 DEF Rollback, Ends, TypeOK
<1> QED
  BY <1>1, <1>2, <1>3, <1>4, <1>5, <1>6, <1>7, <1>8 DEF Next

\* CitedWasReviewed: no strategy version ever cites a claim nobody reviewed.
THEOREM CitationsReviewed == Spec => []CitedWasReviewed
<1>1. Init => CitedWasReviewed /\ VerifiedWasReviewed
  BY DEF Init, CitedWasReviewed, VerifiedWasReviewed
<1> QED
  BY <1>1, ReviewedStep, StrategyTypeCorrect, PTL DEF Spec
=============================================================================
