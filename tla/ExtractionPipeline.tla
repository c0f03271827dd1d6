------------------------- MODULE ExtractionPipeline -------------------------
(***************************************************************************)
(* Document extraction: the documents, document_pages, research_claims and *)
(* strategy_claims tables, the extract_document task of the worker, and    *)
(* the API calls that review claims and cite them in a strategy.  The jobs *)
(* and the worker loop are JobQueue's.  A document and its one extraction  *)
(* job are created together and share an id here.                          *)
(***************************************************************************)
EXTENDS Naturals, FiniteSets

CONSTANTS Jobs, Workers, NoJob, NoWorker, MaxAttempts, Faults, MaxFaults,
          Slots   \* the claims one extraction of a document may yield

\* What JobQueue assumes of its constants.
ASSUME QueueAssumption ==
  NoJob \notin Jobs /\ NoWorker \notin Workers /\ MaxAttempts \in Nat \ {0} /\ MaxFaults \in Nat

VARIABLES jobs, due, ahead, lapsed, workers, faults,
          documents,   \* documents.status of each document
          serial,      \* how many extractions of it were stored; names its claims
          claims,      \* the rows of research_claims
          accepted,    \* those with validation_status 'accepted'
          rejected,    \* those with validation_status 'rejected'
          cited,       \* claim_id of the rows of strategy_claims
          checked,     \* claims a strategy transaction has verified so far
          step,        \* where a worker is inside processExtraction
          lost         \* history: documents whose stored extraction got no answer

Q == INSTANCE JobQueue WITH DocumentJobs <- Jobs

queueVars == <<jobs, due, ahead, lapsed, workers, faults>>
claimVars == <<serial, claims, accepted, rejected>>
citeVars == <<cited, checked>>
vars == <<queueVars, documents, claimVars, citeVars, step, lost>>

DocumentStatus == {"absent", "queued", "processing", "ready", "failed"}

\* A claim's UUID is new at every extraction: document, extraction, slot.
ClaimId == Jobs \X Nat \X Slots
ClaimsOf(d) == {c \in claims : c[1] = d}

-----------------------------------------------------------------------------
Init ==
  /\ Q!Init
  /\ documents = [d \in Jobs |-> "absent"]
  /\ serial = [d \in Jobs |-> 0]
  /\ claims = {} /\ accepted = {} /\ rejected = {}
  /\ cited = {} /\ checked = {}
  /\ step = [w \in Workers |-> "start"]
  /\ lost = {}

\* CreateDocumentWithExtractionJob: the row and its job in one transaction.
CreateDocument(d) ==
  /\ Q!Enqueue(d)
  /\ documents' = [documents EXCEPT ![d] = "queued"]
  /\ UNCHANGED <<claimVars, citeVars, step, lost>>

\* The same content again: ON CONFLICT (sha256) finds the document, and whatever
\* became of it the transaction commits without a write.
RequeuesFailed(d) ==
  /\ documents' = [documents EXCEPT ![d] = IF @ = "failed" THEN "queued" ELSE @]
  /\ UNCHANGED <<queueVars, claimVars, citeVars, step, lost>>

AnswersExisting(d) == UNCHANGED vars

UploadAgain(d) == documents[d] # "absent" /\ AnswersExisting(d)

LeaseNextJob(w) ==
  /\ Q!LeaseNextJob(w)
  /\ UNCHANGED <<documents, claimVars, citeVars, step, lost>>

(***************************************************************************)
(* processExtraction.  GetDocument finds the row: nothing deletes one.     *)
(***************************************************************************)
\* SetDocumentStatus(document.ID, "processing"), whatever the status was.
SetProcessing(w) ==
  /\ workers[w].phase = "process" /\ step[w] = "start"
  /\ documents' = [documents EXCEPT ![workers[w].job] = "processing"]
  /\ step' = [step EXCEPT ![w] = "extract"]
  /\ UNCHANGED <<queueVars, claimVars, citeVars, lost>>

\* DELETE FROM document_pages cascades to the claims; ON DELETE RESTRICT of
\* strategy_claims makes it an error while one of them is cited.
ReplaceableAlways(d) == TRUE

Replaceable(d) == ClaimsOf(d) \cap cited = {}

\* The rest of the ReplaceExtraction transaction: new rows, all pending, and
\* status 'ready'.
StatusReady(d) == [documents EXCEPT ![d] = "ready"]

StoreExtraction(d, slots) ==
  /\ serial' = [serial EXCEPT ![d] = @ + 1]
  /\ claims' = (claims \ ClaimsOf(d)) \cup {<<d, serial[d] + 1, s>> : s \in slots}
  /\ accepted' = accepted \ ClaimsOf(d)
  /\ rejected' = rejected \ ClaimsOf(d)
  /\ documents' = StatusReady(d)

\* processExtraction returns, with or without an error.
Returns(w, ok) ==
  /\ Q!ProcessReturns(w, ok)
  /\ step' = [step EXCEPT ![w] = "start"]
  /\ UNCHANGED citeVars

\* ExtractClaims answered with these claims and ReplaceExtraction commits.
ReplaceExtraction(w, slots) ==
  /\ step[w] = "extract"
  /\ Returns(w, TRUE)
  /\ Replaceable(workers[w].job)
  /\ StoreExtraction(workers[w].job, slots)
  /\ UNCHANGED lost

\* The same, but the commit's answer is lost and the worker sees an error.
ReplaceReplyLost(w, slots) ==
  /\ "reply" \in Faults
  /\ step[w] = "extract"
  /\ Returns(w, FALSE)
  /\ Replaceable(workers[w].job)
  /\ StoreExtraction(workers[w].job, slots)
  /\ lost' = lost \cup {workers[w].job}

\* A store call or the quant service fails before anything is written, the
\* extraction is invalid, or the delete is restricted.
ProcessFails(w) ==
  /\ Returns(w, FALSE)
  /\ UNCHANGED <<documents, claimVars, lost>>

CompleteJob(w) ==
  /\ Q!CompleteJob(w)
  /\ UNCHANGED <<documents, claimVars, citeVars, step, lost>>

FailJob(w) ==
  /\ Q!FailJob(w)
  /\ UNCHANGED <<documents, claimVars, citeVars, step, lost>>

\* After a terminal FailJob: SetDocumentStatus(documentID, "failed").
MarkDocumentFailedNoWrite(w) ==
  /\ Q!MarkDocumentFailed(w)
  /\ UNCHANGED <<documents, claimVars, citeVars, step, lost>>

MarkDocumentFailed(w) ==
  /\ Q!MarkDocumentFailed(w)
  /\ documents' = [documents EXCEPT ![workers[w].job] = "failed"]
  /\ UNCHANGED <<claimVars, citeVars, step, lost>>

Crash(w) ==
  /\ Q!Crash(w)
  /\ step' = [step EXCEPT ![w] = "start"]
  /\ UNCHANGED <<documents, claimVars, citeVars, lost>>

TimePasses ==
  /\ \E j \in Jobs : Q!BackoffEnds(j) \/ Q!OrphanLapses(j) \/ Q!LeaseOutlived(j)
  /\ UNCHANGED <<documents, claimVars, citeVars, step, lost>>

(***************************************************************************)
(* The API.                                                                *)
(***************************************************************************)
\* SetClaimValidationStatus: any existing claim, at any time, either way.
ReviewClaim(c, accept) ==
  /\ c \in claims
  /\ accepted' = IF accept THEN accepted \cup {c} ELSE accepted \ {c}
  /\ rejected' = IF accept THEN rejected \ {c} ELSE rejected \cup {c}
  /\ UNCHANGED <<queueVars, documents, serial, claims, citeVars, step, lost>>

\* CreateStrategyWithCitations counts the accepted claims among those cited ...
VerifyCitations(c) ==
  /\ checked = {}
  /\ c \in accepted
  /\ checked' = {c}
  /\ UNCHANGED <<queueVars, documents, claimVars, cited, step, lost>>

\* ... and inserts them; a claim deleted meanwhile is a foreign-key error that
\* rolls the transaction back.
InsertCitations ==
  /\ checked # {}
  /\ cited' = IF checked \subseteq claims THEN cited \cup checked ELSE cited
  /\ checked' = {}
  /\ UNCHANGED <<queueVars, documents, claimVars, step, lost>>

Worker(w) ==
  \/ LeaseNextJob(w) \/ SetProcessing(w) \/ ProcessFails(w)
  \/ CompleteJob(w) \/ FailJob(w) \/ MarkDocumentFailed(w)
  \/ \E slots \in SUBSET Slots : ReplaceExtraction(w, slots)

Next ==
  \/ \E d \in Jobs : CreateDocument(d) \/ UploadAgain(d)
  \/ \E w \in Workers : Worker(w) \/ Crash(w)
  \/ \E w \in Workers, slots \in SUBSET Slots : ReplaceReplyLost(w, slots)
  \/ TimePasses
  \/ \E c \in claims, accept \in BOOLEAN : ReviewClaim(c, accept)
  \/ \E c \in claims : VerifyCitations(c)
  \/ InsertCitations

Spec == Init /\ [][Next]_vars

-----------------------------------------------------------------------------
\* Type invariant.
TypeOK ==
  /\ Q!TypeOK
  /\ documents \in [Jobs -> DocumentStatus]
  /\ serial \in [Jobs -> Nat]
  /\ claims \subseteq ClaimId
  /\ accepted \subseteq claims /\ rejected \subseteq claims /\ accepted \cap rejected = {}
  /\ cited \subseteq ClaimId /\ checked \subseteq ClaimId
  /\ step \in [Workers -> {"start", "extract"}]
  /\ lost \subseteq Jobs

\* A cited claim still has its row (migration 000002: "a committed strategy
\* version can always show the research it was built from"), although retried and
\* overtaken workers keep replacing extractions.
CitationsResolve == cited \subseteq claims

\* The status people see agrees with the job in the end: a document at rest (its
\* job settled, no worker on it) is ready if the job completed and failed if it
\* failed, except for one document per crash or outlived lease.  worker.go writes
\* the two in separate transactions and nothing repairs them.
AtRest(d) == jobs[d].state \in Q!Settled /\ \A w \in Workers : workers[w].job # d

Misstated ==
  {d \in Jobs : AtRest(d) /\ documents[d] # (IF jobs[d].state = "completed" THEN "ready" ELSE "failed")}

StatusTellsOutcome == Cardinality(Misstated) <= faults

\* A document at rest is finished: its status and its claims stay as they are,
\* also when a failed one is uploaded again, so reviews made from then on survive.
RestIsFinal ==
  [][\A d \in Jobs :
       AtRest(d) => documents'[d] = documents[d] /\ {c \in claims' : c[1] = d} = ClaimsOf(d)]_vars

\* A document whose extraction is stored ends up failed only through a crash, an
\* outlived lease or a lost answer of its own: then the retries run into whatever
\* fails them, a citation's RESTRICT for one, although nothing is left to do.
ExtractedYetFailed == {d \in Jobs \ lost : serial[d] > 0 /\ documents[d] = "failed"}

StoredWorkSurvives == Cardinality(ExtractedYetFailed) <= faults

\* store.go: "Keeping this idempotent makes a retried worker safe after a partial
\* failure": a retry of a stored extraction leaves what people reviewed alone.
ReviewsSurvive == [][accepted \cup rejected \subseteq claims']_vars

\* The pipeline's jobs follow JobQueue.
FollowsJobQueue == Q!Spec
=============================================================================
