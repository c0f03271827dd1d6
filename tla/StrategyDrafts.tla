--------------------------- MODULE StrategyDrafts ---------------------------
(***************************************************************************)
(* Strategy drafts: POST /v1/strategies/draft reads claims by id and by    *)
(* document and proposes a spec (internal/strategies/builder.go), a client *)
(* submits it, edited or not, to POST /v1/strategies.  The queries of a    *)
(* draft are separate statements: claims are reviewed and replaced between *)
(* them and before the submission.  The transaction of a submission is     *)
(* StrategyVersions'; here it is one step.  Numbers are in thousandths and *)
(* exact.  A list is a function of its places: what drops some entries of  *)
(* it leaves the others at theirs, and the order of claims is left out.    *)
(***************************************************************************)
EXTENDS Integers, FiniteSets, FiniteSetsExt, SequencesExt

CONSTANTS Claims,         \* research_claims ids
          Documents,      \* document ids
          DocumentOf,     \* the document of each claim
          ClaimData,      \* what a claim may say
          NoTicker,       \* research_claims.ticker IS NULL
          Themes,         \* names of macroThemes
          Proxies,        \* the ETF symbols of each theme
          DraftRequests,  \* bodies of draft requests
          ExtraFilters,   \* filters a client may add to a proposal
          NameRoom,       \* bound: how many tickers fit into the 120 characters of a name
          MaxPending,     \* bound: claims nobody has reviewed before the request
          MaxReviews      \* bound: reviews and re-extractions after the first request

VARIABLES says,        \* ticker, themes, sign, confidence, effective_at in half days and
                       \* horizon_days (0: NULL) of each claim
          review,      \* validation_status, or "deleted"
          reviews,     \* how many reviews there were
          request,     \* the draft request
          touched,     \* history: claims reviewed or replaced since the request read them
          submission   \* the submitted spec, its claim ids and the answer

draftVars == <<says, review, reviews, request, touched, submission>>

\* 1.0, in thousandths.
One == 1000

ASSUME DocumentsAssumption == DocumentOf \in [Claims -> Documents]
ASSUME ClaimsAssumption ==
  /\ IsFiniteSet(Claims)
  /\ \A d \in ClaimData :
       d.confidence \in 0 .. One /\ d.sign \in {-1, 0, 1} /\ d.themes \subseteq Themes
\* macroThemes lists no symbol under two themes.
ASSUME ThemesAssumption == \A t, u \in Themes : t # u => Proxies[t] \cap Proxies[u] = {}
ASSUME BodiesAssumption == \A body \in DraftRequests : body.claims \in Seq(Claims)

Stored == {c \in Claims : review[c] # "deleted"}
Claim(id) == [id |-> id, review |-> review[id]]
Ids(read) == [i \in DOMAIN read |-> read[i].id]
Repeats(ids) == ~IsInjective(ids)

NoDraft == [universe |-> {}, kind |-> "none", filters |-> <<>>, claims |-> <<>>]

DraftInit ==
  /\ says \in [Claims -> ClaimData]
  /\ review \in [Claims -> {"pending", "accepted"}]
  /\ Cardinality({c \in Claims : review[c] = "pending"}) <= MaxPending
  /\ reviews = 0
  /\ request = [phase |-> "idle", claims |-> <<>>, documents |-> <<>>, read |-> <<>>,
                draft |-> NoDraft, answer |-> "none"]
  /\ touched = {}
  /\ submission = [answer |-> "none", spec |-> NoDraft, ids |-> <<>>]

(***************************************************************************)
(* Meanwhile a reviewer decides, and a worker extracts a document again:   *)
(* its claims are deleted unless one is cited.  The claims stored instead  *)
(* are pending under new ids and left out.                                 *)
(***************************************************************************)
Cited == IF submission.answer = "created" THEN ToSet(submission.ids) ELSE {}

Changes(claims, status) ==
  /\ reviews < MaxReviews
  /\ reviews' = reviews + 1
  /\ review' = [c \in Claims |-> IF c \in claims THEN status ELSE review[c]]
  /\ touched' = touched \cup (claims \cap ToSet(Ids(request.read)))
  /\ UNCHANGED <<says, request, submission>>

ReviewClaim(c, status) ==
  /\ c \in Stored /\ status \in {"accepted", "rejected"} \ {review[c]}
  /\ Changes({c}, status)

ReplaceExtraction(d) ==
  LET claims == {c \in Stored : DocumentOf[c] = d}
  IN /\ claims # {} /\ claims \cap Cited = {}
     /\ Changes(claims, "deleted")

(***************************************************************************)
(* BuildDraft.                                                             *)
(***************************************************************************)
AcceptedUnlessRejected(read) == Restrict(read, {i \in DOMAIN read : read[i].review # "rejected"})

Accepted(read) == Restrict(read, {i \in DOMAIN read : read[i].review = "accepted"})

\* signedConfidence, and its sum over the entries of the list that are among the claims.
Signed(c) == says[c].sign * says[c].confidence

Net(read, claims) ==
  SumFunction([i \in {j \in DOMAIN read : read[j].id \in claims} |-> Signed(read[i].id)])

\* netTickerSymbols and netMacroThemes.
Tickers == {says[c].ticker : c \in Claims} \ {NoTicker}

NetTickerSymbols(read) == {s \in Tickers : Net(read, {c \in Claims : says[c].ticker = s}) > 0}

NetMacroThemes(read) == {t \in Themes : Net(read, {c \in Claims : t \in says[c].themes}) > 0}

\* defaultFilters: the least confidence, rounded down to hundredths.
Filter(field, operator, value) == [field |-> field, operator |-> operator, value |-> value]
Number(n) == [kind |-> "number", of |-> n]
Text(s) == [kind |-> "string", of |-> s]

RoundedUp(n) == ((n + 9) \div 10) * 10

Floor(n) == (n \div 10) * 10

DefaultFilters(claims) ==
  << Filter("claim_confidence", "gte",
            Number(Floor(Min({One} \cup {says[c.id].confidence : c \in ToSet(claims)})))),
     Filter("claim_signal_weight", "eq", Number(250)),
     Filter("cash_policy", "eq", Text("extend")) >>

\* equityDraft and macroDraft; names, slugs and the risk defaults are left out.
Proposal(kind, universe, claims) ==
  [kind |-> kind, universe |-> universe, filters |-> DefaultFilters(claims), claims |-> Ids(claims)]

BuildDraft(read) ==
  LET claims == Accepted(read)
      tickers == NetTickerSymbols(claims)
      proxies == UNION {Proxies[t] : t \in NetMacroThemes(claims)}
  IN IF tickers # {} THEN Proposal("equity", tickers, claims)
     ELSE IF proxies # {} THEN Proposal("macro", proxies, claims)
     ELSE NoDraft

(***************************************************************************)
(* Draft and its handler.                                                  *)
(***************************************************************************)
Answer(answer, draft) ==
  request' = [request EXCEPT !.phase = "answered", !.answer = answer, !.draft = draft]

Reading(phase, documents, read) ==
  request' = [request EXCEPT !.phase = phase, !.documents = documents, !.read = read]

Quiet == UNCHANGED <<says, review, reviews, touched, submission>>

DraftStrategy(body) ==
  /\ request.phase = "idle"
  /\ IF body.claims = <<>> /\ body.documents = <<>> THEN Answer("missing_input", NoDraft)
     ELSE request' = [request EXCEPT !.phase = IF body.claims = <<>> THEN "documents" ELSE "claims",
                                     !.claims = body.claims, !.documents = body.documents]
  /\ Quiet

\* GetClaimsByIDs finds each stored claim once, however often its id is given.
GetClaimsByIDs ==
  LET found == ToSet(request.claims) \cap Stored
  IN /\ request.phase = "claims"
     /\ IF Cardinality(found) # Len(request.claims) THEN Answer("claims_not_found", NoDraft)
        ELSE Reading("documents", request.documents, SetToSeq({Claim(c) : c \in found}))
     /\ Quiet

\* ListClaimsByDocument, one document after the other; what was read is kept.
ListClaimsByDocument ==
  /\ request.phase = "documents" /\ request.documents # <<>>
  /\ IF Head(request.documents) \notin Documents THEN Answer("claims_not_found", NoDraft)
     ELSE Reading("documents", Tail(request.documents),
                  request.read \o SetToSeq({Claim(c) : c \in
                     {d \in Stored : DocumentOf[d] = Head(request.documents)}}))
  /\ Quiet

AnswerDraft ==
  LET draft == BuildDraft(request.read)
  IN /\ request.phase = "documents" /\ request.documents = <<>>
     /\ Answer(IF draft = NoDraft THEN "empty_draft" ELSE "drafted", draft)
     /\ Quiet

(***************************************************************************)
(* Validate and Create.  A client may drop filters of a proposal or add    *)
(* one, and cites the claims it was shown, as listed or each once; the     *)
(* rest of the spec it leaves alone.                                       *)
(***************************************************************************)
Edits(draft) ==
  {[draft EXCEPT !.filters = Restrict(@, {i \in DOMAIN @ : @[i].field \notin dropped})] :
     dropped \in SUBSET {"claim_confidence", "cash_policy"}}
  \cup {[draft EXCEPT !.filters = Append(draft.filters, f)] : f \in ExtraFilters}

Citations(draft) ==
  {<<>>, draft.claims}
  \cup (IF Repeats(draft.claims) THEN {[c \in ToSet(draft.claims) |-> c]} ELSE {})

FilterFields == {"lookback_months", "top_n", "momentum", "claim_confidence", "claim_signal_weight",
                 "claim_horizon_days", "require_claim_support", "execution_lag_days", "cash_policy",
                 "risk_free_rate", "benchmark_symbol"}

NameFits(spec) == spec.kind = "macro" \/ Cardinality(spec.universe) <= NameRoom

\* A draft's slug, schedule and risk are valid by construction, and tickers match
\* symbolPattern since extraction; a value is a number or a string.
Valid(spec) ==
  /\ NameFits(spec)
  /\ spec.universe # {}
  /\ \A f \in ToSet(spec.filters) : /\ f.field \in FilterFields
                                    /\ f.operator \in {"gt", "gte", "lt", "lte", "eq"}

\* COUNT of the accepted claims against len(ClaimIDs).
Citable(ids) == Cardinality({c \in ToSet(ids) : review[c] = "accepted"}) = Cardinality(DOMAIN ids)

CreateStrategy(spec, ids) ==
  /\ request.answer = "drafted" /\ submission.answer = "none"
  /\ submission' = [answer |-> IF ids = <<>> THEN "missing_claims"
                               ELSE IF ~Valid(spec) THEN "invalid_spec"
                               ELSE IF ~Citable(ids) THEN "claim_not_citable" ELSE "created",
                    spec |-> spec, ids |-> ids]
  /\ UNCHANGED <<says, review, reviews, request, touched>>

DraftNext ==
  \/ \E c \in Claims, status \in {"accepted", "rejected"} : ReviewClaim(c, status)
  \/ \E d \in Documents : ReplaceExtraction(d)
  \/ \E body \in DraftRequests : DraftStrategy(body)
  \/ GetClaimsByIDs \/ ListClaimsByDocument \/ AnswerDraft
  \/ \E spec \in Edits(request.draft), ids \in Citations(request.draft) : CreateStrategy(spec, ids)

-----------------------------------------------------------------------------
\* service.go on Draft: "The caller reviews or edits the proposal, then commits it
\* through Create": the proposal, with whatever filters were dropped, is refused
\* only when a claim has changed since it was read or is listed twice (its id was
\* given and its document too, or the document twice), or when the draft has more
\* tickers than its own name may list.
DraftCommits ==
  [][submission'.answer \in {"invalid_spec", "claim_not_citable"} /\ submission.answer = "none"
     => \/ ToSet(submission'.spec.filters) \cap ExtraFilters # {}
        \/ Repeats(submission'.ids)
        \/ ToSet(submission'.ids) \cap touched # {}
        \/ ~NameFits(submission'.spec)]_draftVars
=============================================================================
