--------------------------- MODULE DocumentUpload ---------------------------
(***************************************************************************)
(* Uploads: the file store (internal/documents/storage.go), the upload     *)
(* service (internal/documents/service.go) and the transaction that makes  *)
(* a document of a stored file (internal/store/store.go).  Several uploads *)
(* run at once in one API process.  A file's name is random, so new; its   *)
(* SHA-256 is its content.  What happens to the document and its           *)
(* extraction job from here on is ExtractionPipeline.                      *)
(***************************************************************************)
EXTENDS Naturals, FiniteSets

CONSTANTS Requests,    \* uploads in flight at once
          Contents,    \* what is uploaded
          NoContent,   \* "no upload is running"
          MaxUploads,  \* bound: uploads started in one behaviour
          MaxFaults    \* bound: faults in one behaviour

ASSUME RequestsAssumption == IsFiniteSet(Requests)
ASSUME ContentsAssumption == NoContent \notin Contents
ASSUME BoundsAssumption == MaxUploads \in Nat /\ MaxFaults \in Nat

VARIABLES uploads,    \* where each request is in Upload, and its file
          started,    \* uploads started; names the next file
          temporary,  \* the .upload-* files on disk
          files,      \* the documents/*.pdf files on disk
          documents,  \* rows of documents: sha256 and storage_key
          faults      \* how many of each kind have occurred

vars == <<uploads, started, temporary, files, documents, faults>>

\* A request is idle, writing, saved, duplicate or in error; key names its file.
NoUpload == [phase |-> "idle", content |-> NoContent, key |-> 0]

Fault(kind) ==
  /\ faults.crash + faults.delete + faults.reply < MaxFaults
  /\ faults' = [faults EXCEPT ![kind] = @ + 1]
Ends(q) == uploads' = [uploads EXCEPT ![q] = NoUpload]

-----------------------------------------------------------------------------
Init ==
  /\ uploads = [q \in Requests |-> NoUpload]
  /\ started = 0
  /\ temporary = {} /\ files = {} /\ documents = {}
  /\ faults = [crash |-> 0, delete |-> 0, reply |-> 0]

\* Save: CreateTemp, then the content is copied into it.
StartUpload(q, content) ==
  /\ uploads[q].phase = "idle"
  /\ started < MaxUploads
  /\ started' = started + 1
  /\ temporary' = temporary \cup {started + 1}
  /\ uploads' = [uploads EXCEPT ![q] = [phase |-> "writing", content |-> content, key |-> started + 1]]
  /\ UNCHANGED <<files, documents, faults>>

\* Not a PDF, too large, or the disk fails: the deferred Remove cleans up.
SaveFails(q) ==
  /\ uploads[q].phase = "writing"
  /\ temporary' = temporary \ {uploads[q].key}
  /\ Ends(q)
  /\ UNCHANGED <<started, files, documents, faults>>

\* Rename moves the file to its storage key.
MovedAway(q) == temporary \ {uploads[q].key}

SaveSucceeds(q) ==
  /\ uploads[q].phase = "writing"
  /\ temporary' = MovedAway(q)
  /\ files' = files \cup {uploads[q].key}
  /\ uploads' = [uploads EXCEPT ![q].phase = "saved"]
  /\ UNCHANGED <<started, documents, faults>>

(***************************************************************************)
(* CreateDocumentWithExtractionJob, one transaction: a second insert of    *)
(* the same sha256 waits for the first and then does nothing.              *)
(***************************************************************************)
Known(content) == \E row \in documents : row.content = content

OnConflictDoNothing(content, key) ==
  IF Known(content) THEN documents ELSE documents \cup {[content |-> content, key |-> key]}

CreateDocument(q) ==
  LET u == uploads[q] IN
  /\ u.phase = "saved"
  /\ documents' = OnConflictDoNothing(u.content, u.key)
  /\ IF Known(u.content) THEN uploads' = [uploads EXCEPT ![q].phase = "duplicate"] ELSE Ends(q)
  /\ UNCHANGED <<started, temporary, files, faults>>

\* It fails and is rolled back.
CreateFails(q) ==
  /\ uploads[q].phase = "saved"
  /\ uploads' = [uploads EXCEPT ![q].phase = "error"]
  /\ UNCHANGED <<started, temporary, files, documents, faults>>

\* It is committed but the caller sees an error: the connection drops, or the
\* client goes away and its request context is cancelled during Commit.
CreateReplyLost(q) ==
  /\ Fault("reply")
  /\ uploads[q].phase = "saved"
  /\ documents' = OnConflictDoNothing(uploads[q].content, uploads[q].key)
  /\ uploads' = [uploads EXCEPT ![q].phase = "error"]
  /\ UNCHANGED <<started, temporary, files>>

\* Upload deletes its own file on an error and when it is a duplicate.
DiscardedStored(q) == {row.key : row \in {r \in documents : r.content = uploads[q].content}}
DiscardedNone(q) == {}

Discarded(q) == {uploads[q].key}

Discard(q) ==
  /\ uploads[q].phase \in {"duplicate", "error"}
  /\ files' = files \ Discarded(q)
  /\ Ends(q)
  /\ UNCHANGED <<started, temporary, documents, faults>>

\* The error of Delete is ignored.
DiscardFails(q) ==
  /\ Fault("delete")
  /\ uploads[q].phase \in {"duplicate", "error"}
  /\ Ends(q)
  /\ UNCHANGED <<started, temporary, files, documents>>

\* The API process ends: every upload in flight with it.
Crash ==
  /\ Fault("crash")
  /\ uploads' = [q \in Requests |-> NoUpload]
  /\ UNCHANGED <<started, temporary, files, documents>>

Next ==
  \/ \E q \in Requests, content \in Contents : StartUpload(q, content)
  \/ \E q \in Requests : \/ SaveFails(q) \/ SaveSucceeds(q)
                         \/ CreateDocument(q) \/ CreateFails(q) \/ CreateReplyLost(q)
                         \/ Discard(q) \/ DiscardFails(q)
  \/ Crash

Spec == Init /\ [][Next]_vars

-----------------------------------------------------------------------------
\* The volume does not fill with files nobody knows: one that is neither a
\* document's nor an upload's in flight was left by a crash, which ends all uploads
\* at once, or by a failed Delete.
Strays ==
  (temporary \cup files) \ ({row.key : row \in documents} \cup {uploads[q].key : q \in Requests})

StraysNeedFaults == Cardinality(Strays) <= faults.crash * Cardinality(Requests) + faults.delete

\* A document's file is on disk for the worker to extract, however uploads of the
\* same content overlap, fail or crash, unless a lost answer made Upload delete the
\* file it had committed; each lost answer costs one document at most.
LossesNeedLostReplies == Cardinality({row \in documents : row.key \notin files}) <= faults.reply
=============================================================================
