-------------------------- MODULE StrategyVersions --------------------------
(***************************************************************************)
(* Strategy versions and their citations: CreateStrategyWithCitations      *)
(* (internal/store/strategies.go) run by several API requests at once,     *)
(* while reviewers go on changing claims (internal/store/claims.go).  A    *)
(* transaction is taken statement by statement under READ COMMITTED: each  *)
(* statement sees what is committed when it starts.  A repeated claim id   *)
(* never matches the COUNT, so a request that could be accepted is a set.  *)
(***************************************************************************)
EXTENDS Naturals, FiniteSets

CONSTANTS Requests,     \* API requests in flight at once
          Slugs,        \* strategy slugs
          Claims,       \* research_claims ids
          NoRequest,    \* "nobody holds this lock"
          NoSlug,       \* "no transaction is open"
          MaxVersions   \* bound: no request starts for a slug with so many versions

ASSUME RequestsAssumption == NoRequest \notin Requests
ASSUME SlugsAssumption == NoSlug \notin Slugs
ASSUME VersionsAssumption == MaxVersions \in Nat

VARIABLES strategies,  \* the committed rows of strategies with their citations
          review,      \* research_claims.validation_status
          lock,        \* which transaction holds the advisory lock of a slug
          tx           \* each request's transaction

vars == <<strategies, review, lock, tx>>

Phase == {"idle", "waiting", "locked", "verified", "inserted"}
ReviewStatus == {"pending", "accepted", "rejected"}
Row == [slug : Slugs, version : Nat, claims : SUBSET Claims]
Transaction == [phase : Phase, slug : Slugs \cup {NoSlug}, claims : SUBSET Claims, version : Nat]

NoTransaction == [phase |-> "idle", slug |-> NoSlug, claims |-> {}, version |-> 0]

VersionsOf(s) == {row.version : row \in {r \in strategies : r.slug = s}}

-----------------------------------------------------------------------------
Init ==
  /\ strategies = {}
  /\ review = [c \in Claims |-> "pending"]
  /\ lock = [s \in Slugs |-> NoRequest]
  /\ tx = [q \in Requests |-> NoTransaction]

\* SetClaimValidationStatus: a claim may be accepted or rejected at any time and
\* any number of times, never put back to pending.
ReviewClaim(c, status) ==
  /\ status \in {"accepted", "rejected"}
  /\ review' = [review EXCEPT ![c] = status]
  /\ UNCHANGED <<strategies, lock, tx>>

\* Create refuses a request that cites nothing; then the transaction begins.
Begin(q, s, claims) ==
  /\ tx[q].phase = "idle"
  /\ claims # {}
  /\ Cardinality(VersionsOf(s)) < MaxVersions
  /\ tx' = [tx EXCEPT ![q] = [phase |-> "waiting", slug |-> s, claims |-> claims, version |-> 0]]
  /\ UNCHANGED <<strategies, review, lock>>

\* pg_advisory_xact_lock(hashtext('strategy:' || slug)).
FreeAlways(s) == TRUE

Free(s) == lock[s] = NoRequest

LockSlug(q) ==
  /\ tx[q].phase = "waiting"
  /\ Free(tx[q].slug)
  /\ lock' = [lock EXCEPT ![tx[q].slug] = q]
  /\ tx' = [tx EXCEPT ![q].phase = "locked"]
  /\ UNCHANGED <<strategies, review>>

\* The lock is the transaction's: commit and rollback both release it.
UnlockedNever(q) == lock

Unlocked(q) == [s \in Slugs |-> IF lock[s] = q THEN NoRequest ELSE lock[s]]

Ends(q) ==
  /\ lock' = Unlocked(q)
  /\ tx' = [tx EXCEPT ![q] = NoTransaction]

\* COUNT of accepted claims against len(ClaimIDs); else ErrClaimNotCitable.
CitableUnlessRejected(claims) == \A c \in claims : review[c] # "rejected"

Citable(claims) == \A c \in claims : review[c] = "accepted"

VerifyClaims(q) ==
  /\ tx[q].phase = "locked"
  /\ IF Citable(tx[q].claims)
     THEN tx' = [tx EXCEPT ![q].phase = "verified"] /\ UNCHANGED lock
     ELSE Ends(q)
  /\ UNCHANGED <<strategies, review>>

\* INSERT ... SELECT COALESCE(MAX(version), 0) + 1 FROM strategies WHERE slug:
\* of the committed rows.
MaxOf(versions) ==
  IF versions = {} THEN 0 ELSE CHOOSE m \in versions : \A n \in versions : n <= m

NextVersionOfAll(s) == MaxOf({row.version : row \in strategies}) + 1

NextVersion(s) == MaxOf(VersionsOf(s)) + 1

InsertStrategy(q) ==
  /\ tx[q].phase = "verified"
  /\ tx' = [tx EXCEPT ![q] = [phase |-> "inserted", slug |-> tx[q].slug, claims |-> tx[q].claims,
                              version |-> NextVersion(tx[q].slug)]]
  /\ UNCHANGED <<strategies, review, lock>>

\* The citations are inserted and the transaction commits, unless another commit
\* took (slug, version): the UNIQUE constraint makes that an error.
Commit(q) ==
  /\ tx[q].phase = "inserted"
  /\ strategies' = IF tx[q].version \in VersionsOf(tx[q].slug) THEN strategies
                   ELSE strategies \cup {[slug |-> tx[q].slug, version |-> tx[q].version,
                                          claims |-> tx[q].claims]}
  /\ Ends(q)
  /\ UNCHANGED review

\* A statement fails, the caller goes away or the API stops.
Rollback(q) ==
  /\ tx[q].phase # "idle"
  /\ Ends(q)
  /\ UNCHANGED <<strategies, review>>

Next ==
  \/ \E c \in Claims, status \in ReviewStatus : ReviewClaim(c, status)
  \/ \E q \in Requests, s \in Slugs, claims \in SUBSET Claims : Begin(q, s, claims)
  \/ \E q \in Requests : \/ LockSlug(q) \/ VerifyClaims(q) \/ InsertStrategy(q)
                         \/ Commit(q) \/ Rollback(q)

Spec == Init /\ [][Next]_vars

\* A statement that can run is run; PostgreSQL queues the waiters of a lock, so
\* one that keeps coming free is granted in the end.  Nothing is assumed of
\* callers, reviewers or failures.
Fairness ==
  \A q \in Requests :
    /\ SF_vars(LockSlug(q))
    /\ WF_vars(VerifyClaims(q)) /\ WF_vars(InsertStrategy(q)) /\ WF_vars(Commit(q))

FairSpec == Spec /\ Fairness

-----------------------------------------------------------------------------
\* Type invariant, with the lock: a transaction past the wait holds its slug's
\* lock, and nobody else holds one.
TypeOK ==
  /\ strategies \subseteq Row
  /\ review \in [Claims -> ReviewStatus]
  /\ lock \in [Slugs -> Requests \cup {NoRequest}]
  /\ tx \in [Requests -> Transaction]
  /\ \A q \in Requests : tx[q].phase = "idle" <=> tx[q].slug = NoSlug
  /\ \A q \in Requests, s \in Slugs :
       lock[s] = q <=> tx[q].slug = s /\ tx[q].phase \in {"locked", "verified", "inserted"}

\* strategies.go: "An advisory lock keyed on the slug serializes concurrent
\* submissions so versions stay gapless": whatever rolls back, a slug's versions
\* are 1, 2, ... without a hole.
VersionsGapless == \A s \in Slugs : VersionsOf(s) = 1 .. Cardinality(VersionsOf(s))

\* The number an open transaction took from MAX(version) is still the next one
\* when it commits, so no accepted submission fails on the UNIQUE constraint.
VersionStillNext ==
  \A q \in Requests : tx[q].phase = "inserted" => tx[q].version = NextVersion(tx[q].slug)

\* ADR 0002: "The accepted-claims gate keeps unreviewed extractor output from
\* silently becoming the rationale for a strategy", also while reviews and
\* submissions overlap.
CitedWasReviewed == \A row \in strategies : \A c \in row.claims : review[c] # "pending"

\* Every submission ends: no transaction waits for ever for its slug's lock.
SubmissionEnds == \A q \in Requests : tx[q].phase = "waiting" ~> tx[q].phase = "idle"
=============================================================================
