---------------------------- MODULE UploadProofs ----------------------------
(***************************************************************************)
(* Theorems about DocumentUpload for any contents, any finite number of    *)
(* overlapping uploads and any number of faults.                           *)
(***************************************************************************)
EXTENDS DocumentUpload, FiniteSetTheorems, TLAPS

Phase == {"idle", "writing", "saved", "duplicate", "error"}
UploadState == [phase : Phase, content : Contents \cup {NoContent}, key : Nat]
DocumentRow == [content : Contents, key : Nat]
FaultCounts == [crash : Nat, delete : Nat, reply : Nat]

\* Types; every file and every row bears a name handed out before.
UploadTypeOK ==
  /\ uploads \in [Requests -> UploadState]
  /\ started \in Nat
  /\ temporary \subseteq 1..started /\ files \subseteq 1..started
  /\ documents \subseteq DocumentRow
  /\ \A row \in documents : row.key \in 1..started
  /\ faults \in FaultCounts

\* A running upload owns its file: the name is its alone, the file is under its
\* temporary name while it is written and under its key afterwards, and no document
\* has it before the upload's transaction, nor after one that did nothing.
OwnsFile(q) ==
  LET u == uploads[q] IN
  /\ u.phase = "idle" => u.key = 0
  /\ u.phase # "idle" => u.key \in 1..started /\ u.content \in Contents
  /\ \A r \in Requests : u.phase # "idle" /\ r # q => uploads[r].key # u.key
  /\ u.phase = "writing" => u.key \in temporary /\ u.key \notin files
  /\ u.phase \in {"saved", "duplicate", "error"} => u.key \in files /\ u.key \notin temporary
  /\ u.phase \in {"writing", "saved", "duplicate"} => \A row \in documents : row.key # u.key

\* Rows without their file, and rows whose file an upload is about to delete
\* because it took its own commit for an error.
Doomed == {row \in documents : row.key \notin files
                               \/ \E q \in Requests : uploads[q].phase = "error" /\ uploads[q].key = row.key}

DoomedCounted == IsFiniteSet(Doomed) /\ Cardinality(Doomed) <= faults.reply

StraysCounted ==
  /\ IsFiniteSet(Strays)
  /\ Cardinality(Strays) <= faults.crash * Cardinality(Requests) + faults.delete

FilesInv == UploadTypeOK /\ \A q \in Requests : OwnsFile(q)

-----------------------------------------------------------------------------
(***************************************************************************)
(* FilesInv is inductive.                                                  *)
(***************************************************************************)
\* A step of one upload: what it changes of the others is nothing.
LEMMA UploadSteps ==
  ASSUME FilesInv, NEW q \in Requests
  PROVE  /\ \A c \in Contents : StartUpload(q, c) =>
              /\ uploads'[q] = [phase |-> "writing", content |-> c, key |-> started + 1]
              /\ uploads[q].phase = "idle" /\ uploads[q].key = 0
         /\ SaveFails(q) \/ Discard(q) \/ DiscardFails(q) => uploads'[q] = NoUpload
         /\ SaveSucceeds(q) => uploads'[q] = [uploads[q] EXCEPT !.phase = "saved"]
         /\ CreateDocument(q) =>
              uploads'[q] = IF Known(uploads[q].content)
                            THEN [uploads[q] EXCEPT !.phase = "duplicate"] ELSE NoUpload
         /\ CreateFails(q) \/ CreateReplyLost(q) => uploads'[q] = [uploads[q] EXCEPT !.phase = "error"]
         /\ \/ \E c \in Contents : StartUpload(q, c)
            \/ SaveFails(q) \/ SaveSucceeds(q) \/ CreateDocument(q) \/ CreateFails(q)
            \/ CreateReplyLost(q) \/ Discard(q) \/ DiscardFails(q)
            => \A r \in Requests \ {q} : uploads'[r] = uploads[r]
  BY DEF FilesInv, UploadTypeOK, UploadState, OwnsFile, StartUpload, SaveFails, Discard, DiscardFails,
         SaveSucceeds, CreateDocument, CreateFails, CreateReplyLost, Ends

LEMMA PhaseSteps ==
  ASSUME FilesInv, NEW q \in Requests
  PROVE  /\ SaveFails(q) \/ Discard(q) \/ DiscardFails(q) => uploads'[q].phase = "idle"
         /\ SaveSucceeds(q) => uploads'[q].phase = "saved"
         /\ CreateDocument(q) => uploads'[q].phase \in {"idle", "duplicate"}
         /\ CreateFails(q) \/ CreateReplyLost(q) =>
              uploads'[q].phase = "error" /\ uploads'[q].key = uploads[q].key
<1>1. uploads[q] \in UploadState
  BY DEF FilesInv, UploadTypeOK
<1>2. ASSUME NEW p \in STRING
      PROVE  /\ [uploads[q] EXCEPT !.phase = p].phase = p
             /\ [uploads[q] EXCEPT !.phase = p].key = uploads[q].key
  BY <1>1 DEF UploadState
<1>3. ASSUME SaveFails(q) \/ Discard(q) \/ DiscardFails(q) PROVE uploads'[q].phase = "idle"
  <2>1. uploads'[q] = NoUpload
    BY <1>3, UploadSteps
  <2> QED
    BY <2>1 DEF NoUpload
<1>4. ASSUME SaveSucceeds(q) PROVE uploads'[q].phase = "saved"
  <2>1. uploads'[q] = [uploads[q] EXCEPT !.phase = "saved"]
    BY <1>4, UploadSteps
  <2> QED
    BY <1>2, <2>1
<1>5. ASSUME CreateDocument(q) PROVE uploads'[q].phase \in {"idle", "duplicate"}
  <2>1. uploads'[q] = IF Known(uploads[q].content)
                      THEN [uploads[q] EXCEPT !.phase = "duplicate"] ELSE NoUpload
    BY <1>5, UploadSteps
  <2> QED
    BY <1>2, <2>1 DEF NoUpload
<1>6. ASSUME CreateFails(q) \/ CreateReplyLost(q)
      PROVE  uploads'[q].phase = "error" /\ uploads'[q].key = uploads[q].key
  <2>1. uploads'[q] = [uploads[q] EXCEPT !.phase = "error"]
    BY <1>6, UploadSteps
  <2> QED
    BY <1>2, <2>1
<1> QED
  BY <1>3, <1>4, <1>5, <1>6

LEMMA TypeStep ==
  ASSUME FilesInv, [Next]_vars
  PROVE  UploadTypeOK'
<1> USE DEF FilesInv, UploadTypeOK, UploadState, FaultCounts, DocumentRow, Phase
<1>1. ASSUME NEW q \in Requests, NEW c \in Contents, StartUpload(q, c) PROVE UploadTypeOK'
  BY <1>1 DEF StartUpload
<1>2. ASSUME NEW q \in Requests, SaveFails(q) \/ SaveSucceeds(q) PROVE UploadTypeOK'
  <2>1. uploads[q].key \in 1..started
    BY <1>2 DEF SaveFails, SaveSucceeds, OwnsFile
  <2>2. /\ temporary' \subseteq temporary /\ files' \subseteq files \cup {uploads[q].key}
        /\ UNCHANGED <<started, documents, faults>>
    BY <1>2 DEF SaveFails, SaveSucceeds, MovedAway
  <2>3. uploads' \in [Requests -> UploadState]
    BY <1>2 DEF SaveFails, SaveSucceeds, Ends, NoUpload
  <2> QED
    BY <2>1, <2>2, <2>3
<1>3. ASSUME NEW q \in Requests, CreateDocument(q) \/ CreateFails(q) \/ CreateReplyLost(q)
      PROVE  UploadTypeOK'
  <2>1. uploads[q].key \in 1..started /\ uploads[q].content \in Contents
    BY <1>3 DEF CreateDocument, CreateFails, CreateReplyLost, OwnsFile
  <2>2. /\ documents' \subseteq documents \cup {[content |-> uploads[q].content, key |-> uploads[q].key]}
        /\ UNCHANGED <<started, temporary, files>>
    BY <1>3 DEF CreateDocument, CreateFails, CreateReplyLost, OnConflictDoNothing
  <2>3. uploads' \in [Requests -> UploadState]
    BY <1>3 DEF CreateDocument, CreateFails, CreateReplyLost, Ends, NoUpload
  <2>4. faults' \in FaultCounts
    BY <1>3 DEF CreateDocument, CreateFails, CreateReplyLost, Fault
  <2> QED
    BY <2>1, <2>2, <2>3, <2>4
<1>4. ASSUME NEW q \in Requests, Discard(q) \/ DiscardFails(q) PROVE UploadTypeOK'
  <2>1. files' \subseteq files /\ UNCHANGED <<started, temporary, documents>>
    BY <1>4 DEF Discard, DiscardFails
  <2>2. uploads' \in [Requests -> UploadState]
    BY <1>4 DEF Discard, DiscardFails, Ends, NoUpload
  <2>3. faults' \in FaultCounts
    BY <1>4 DEF Discard, DiscardFails, Fault
  <2> QED
    BY <2>1, <2>2, <2>3
<1>5. CASE Crash
  BY <1>5 DEF Crash, Fault, NoUpload
<1>6. CASE UNCHANGED vars
  BY <1>6 DEF vars
<1> QED
  BY <1>1, <1>2, <1>3, <1>4, <1>5, <1>6 DEF Next

LEMMA OwnershipStep ==
  ASSUME FilesInv, [Next]_vars, NEW r \in Requests
  PROVE  OwnsFile(r)'
<1> USE DEF FilesInv, UploadTypeOK, UploadState, DocumentRow, Phase
<1>0. \A q \in Requests : OwnsFile(q)
  OBVIOUS
<1>1. ASSUME NEW q \in Requests, NEW c \in Contents, StartUpload(q, c) PROVE OwnsFile(r)'
  <2>1. /\ uploads'[q] = [phase |-> "writing", content |-> c, key |-> started + 1]
        /\ uploads[q].phase = "idle" /\ \A p \in Requests \ {q} : uploads'[p] = uploads[p]
    BY <1>1, UploadSteps
  <2>2. /\ started' = started + 1 /\ temporary' = temporary \cup {started + 1}
        /\ UNCHANGED <<files, documents>>
    BY <1>1 DEF StartUpload
  <2>3. \A p \in Requests : uploads[p].key # started + 1
    BY <1>0 DEF OwnsFile
  <2>4. started + 1 \notin files /\ \A row \in documents : row.key # started + 1
    OBVIOUS
  <2>5. CASE r = q
    BY <2>1, <2>2, <2>3, <2>4, <2>5 DEF OwnsFile
  <2>6. CASE r # q
    BY <1>0, <2>1, <2>2, <2>3, <2>6 DEF OwnsFile
  <2> QED
    BY <2>5, <2>6
<1>2. ASSUME NEW q \in Requests, SaveFails(q) PROVE OwnsFile(r)'
  <2>1. uploads'[q] = NoUpload /\ \A p \in Requests \ {q} : uploads'[p] = uploads[p]
    BY <1>2, UploadSteps
  <2>2. /\ uploads[q].phase = "writing" /\ temporary' = temporary \ {uploads[q].key}
        /\ UNCHANGED <<started, files, documents>>
    BY <1>2 DEF SaveFails
  <2>3. CASE r = q
    BY <2>1, <2>2, <2>3 DEF OwnsFile, NoUpload
  <2>4. CASE r # q
    BY <1>0, <2>1, <2>2, <2>4 DEF OwnsFile, NoUpload
  <2> QED
    BY <2>3, <2>4
<1>3. ASSUME NEW q \in Requests, SaveSucceeds(q) PROVE OwnsFile(r)'
  <2>1. /\ uploads'[q] = [uploads[q] EXCEPT !.phase = "saved"]
        /\ \A p \in Requests \ {q} : uploads'[p] = uploads[p]
    BY <1>3, UploadSteps
  <2>2. /\ uploads[q].phase = "writing" /\ temporary' = temporary \ {uploads[q].key}
        /\ files' = files \cup {uploads[q].key} /\ UNCHANGED <<started, documents>>
    BY <1>3 DEF SaveSucceeds, MovedAway
  <2>3. CASE r = q
    BY <1>0, <2>1, <2>2, <2>3 DEF OwnsFile
  <2>4. CASE r # q
    BY <1>0, <2>1, <2>2, <2>4 DEF OwnsFile
  <2> QED
    BY <2>3, <2>4
<1>4. ASSUME NEW q \in Requests, CreateDocument(q) \/ CreateFails(q) \/ CreateReplyLost(q)
      PROVE  OwnsFile(r)'
  <2>1. \A p \in Requests \ {q} : uploads'[p] = uploads[p]
    BY <1>4, UploadSteps
  <2>2. /\ uploads[q].phase = "saved" /\ UNCHANGED <<started, temporary, files>>
        /\ \/ documents' = documents
           \/ documents' = documents \cup {[content |-> uploads[q].content, key |-> uploads[q].key]}
    BY <1>4 DEF CreateDocument, CreateFails, CreateReplyLost, OnConflictDoNothing
  <2>3. \/ uploads'[q] = [uploads[q] EXCEPT !.phase = "duplicate"] /\ documents' = documents
        \/ uploads'[q] = NoUpload
        \/ uploads'[q] = [uploads[q] EXCEPT !.phase = "error"]
    BY <1>4, UploadSteps DEF CreateDocument, OnConflictDoNothing
  <2>4. uploads[q].key \in files /\ uploads[q].key \notin temporary /\ uploads[q].key \in 1..started
    BY <1>0, <2>2 DEF OwnsFile
  <2>5. CASE r = q
    BY <1>0, <2>1, <2>2, <2>3, <2>5 DEF OwnsFile, NoUpload
  <2>6. CASE r # q
    <3>1. uploads[r].phase # "idle" => uploads[r].key # uploads[q].key
      BY <1>0, <2>6 DEF OwnsFile
    <3>2. uploads'[q].key \in {0, uploads[q].key}
      BY <2>3 DEF NoUpload
    <3> QED
      BY <1>0, <2>1, <2>2, <2>6, <3>1, <3>2 DEF OwnsFile
  <2> QED
    BY <2>5, <2>6
<1>5. ASSUME NEW q \in Requests, Discard(q) \/ DiscardFails(q) PROVE OwnsFile(r)'
  <2>1. uploads'[q] = NoUpload /\ \A p \in Requests \ {q} : uploads'[p] = uploads[p]
    BY <1>5, UploadSteps
  <2>2. /\ uploads[q].phase \in {"duplicate", "error"} /\ UNCHANGED <<started, temporary, documents>>
        /\ files' = files \/ files' = files \ {uploads[q].key}
    BY <1>5 DEF Discard, DiscardFails, Discarded
  <2>3. CASE r = q
    BY <2>1, <2>2, <2>3 DEF OwnsFile, NoUpload
  <2>4. CASE r # q
    BY <1>0, <2>1, <2>2, <2>4 DEF OwnsFile, NoUpload
  <2> QED
    BY <2>3, <2>4
<1>6. CASE Crash
  BY <1>6 DEF Crash, OwnsFile, NoUpload
<1>7. CASE UNCHANGED vars
  BY <1>0, <1>7 DEF vars, OwnsFile
<1> QED
  BY <1>1, <1>2, <1>3, <1>4, <1>5, <1>6, <1>7 DEF Next

LEMMA FilesInvariant == Spec => []FilesInv
<1>1. Init => FilesInv
  BY DEF Init, FilesInv, UploadTypeOK, OwnsFile, NoUpload, UploadState, Phase, FaultCounts, DocumentRow
<1>2. FilesInv /\ [Next]_vars => FilesInv'
  BY TypeStep, OwnershipStep DEF FilesInv
<1> QED
  BY <1>1, <1>2, PTL DEF Spec

-----------------------------------------------------------------------------
(***************************************************************************)
(* Counting.                                                               *)
(***************************************************************************)
\* A set that does not grow keeps its bound; one that grows by an element needs one
\* more.
LEMMA Counted ==
  ASSUME NEW S, IsFiniteSet(S), NEW n \in Nat, Cardinality(S) <= n, NEW T, NEW m \in Nat,
         \/ T \subseteq S /\ n <= m
         \/ m = n + 1 /\ \E x : T \subseteq S \cup {x}
  PROVE  IsFiniteSet(T) /\ Cardinality(T) <= m
<1>1. Cardinality(S) \in Nat
  BY FS_CardinalityType
<1>2. CASE T \subseteq S /\ n <= m
  <2>1. IsFiniteSet(T) /\ Cardinality(T) <= Cardinality(S)
    BY <1>2, FS_Subset
  <2>2. Cardinality(T) \in Nat
    BY <2>1, FS_CardinalityType
  <2> QED
    BY <1>1, <1>2, <2>1, <2>2
<1>3. ASSUME NEW x, m = n + 1, T \subseteq S \cup {x}
      PROVE  IsFiniteSet(T) /\ Cardinality(T) <= m
  <2>1. IsFiniteSet(S \cup {x})
    BY FS_AddElement
  <2>2. Cardinality(S \cup {x}) = IF x \in S THEN Cardinality(S) ELSE Cardinality(S) + 1
    BY FS_AddElement
  <2>3. IsFiniteSet(T) /\ Cardinality(T) <= Cardinality(S \cup {x})
    BY <1>3, <2>1, FS_Subset
  <2>4. Cardinality(T) \in Nat
    BY <2>3, FS_CardinalityType
  <2> QED
    BY <1>1, <1>3, <2>2, <2>3, <2>4
<1> QED
  BY <1>2, <1>3

\* Only a lost answer dooms a row, and only its own.
LEMMA DoomedStep ==
  ASSUME FilesInv, [Next]_vars
  PROVE  \/ Doomed' \subseteq Doomed /\ faults.reply <= faults'.reply
         \/ faults'.reply = faults.reply + 1 /\ \E x : Doomed' \subseteq Doomed \cup {x}
<1> USE DEF FilesInv, UploadTypeOK, UploadState, FaultCounts
<1>0. \A q \in Requests : OwnsFile(q)
  OBVIOUS
<1>1. ASSUME documents' = documents, files \subseteq files', faults.reply <= faults'.reply,
             \A q \in Requests : uploads'[q].phase = "error" => uploads'[q] = uploads[q]
      PROVE  Doomed' \subseteq Doomed /\ faults.reply <= faults'.reply
  BY <1>1 DEF Doomed
<1>2. ASSUME NEW q \in Requests, NEW c \in Contents, StartUpload(q, c)
      PROVE  Doomed' \subseteq Doomed /\ faults.reply <= faults'.reply
  BY <1>1, <1>2, UploadSteps DEF StartUpload
<1>3. ASSUME NEW q \in Requests, SaveFails(q) \/ SaveSucceeds(q)
      PROVE  Doomed' \subseteq Doomed /\ faults.reply <= faults'.reply
  <2>1. documents' = documents /\ files \subseteq files' /\ faults' = faults
    BY <1>3 DEF SaveFails, SaveSucceeds
  <2>2. \A r \in Requests : uploads'[r].phase = "error" => uploads'[r] = uploads[r]
    BY <1>3, UploadSteps, PhaseSteps
  <2> QED
    BY <1>1, <2>1, <2>2
<1>4. ASSUME NEW q \in Requests, CreateDocument(q)
      PROVE  Doomed' \subseteq Doomed /\ faults.reply <= faults'.reply
  <2>1. /\ uploads[q].phase = "saved" /\ files' = files /\ faults' = faults
        /\ documents' \subseteq documents \cup {[content |-> uploads[q].content, key |-> uploads[q].key]}
    BY <1>4 DEF CreateDocument, OnConflictDoNothing
  <2>2. \A r \in Requests : uploads'[r].phase = "error" => uploads'[r] = uploads[r] /\ r # q
    BY <1>4, UploadSteps, PhaseSteps
  <2>3. /\ uploads[q].key \in files
        /\ \A r \in Requests \ {q} : uploads[r].key # uploads[q].key
    BY <1>0, <2>1 DEF OwnsFile
  <2> QED
    BY <2>1, <2>2, <2>3 DEF Doomed
<1>5. ASSUME NEW q \in Requests, CreateFails(q)
      PROVE  Doomed' \subseteq Doomed /\ faults.reply <= faults'.reply
  <2>1. uploads[q].phase = "saved" /\ UNCHANGED <<files, faults, documents>>
    BY <1>5 DEF CreateFails
  <2>2. /\ \A row \in documents : row.key # uploads[q].key
        /\ uploads'[q].key = uploads[q].key
        /\ \A r \in Requests \ {q} : uploads'[r] = uploads[r]
    BY <1>0, <1>5, <2>1, UploadSteps, PhaseSteps DEF OwnsFile
  <2> QED
    BY <2>1, <2>2 DEF Doomed
<1>6. ASSUME NEW q \in Requests, CreateReplyLost(q)
      PROVE  faults'.reply = faults.reply + 1 /\ \E x : Doomed' \subseteq Doomed \cup {x}
  <2> DEFINE new == [content |-> uploads[q].content, key |-> uploads[q].key]
  <2>1. /\ uploads[q].phase = "saved" /\ files' = files /\ faults'.reply = faults.reply + 1
        /\ documents' \subseteq documents \cup {new}
    BY <1>6 DEF CreateReplyLost, OnConflictDoNothing, Fault
  <2>2. /\ \A row \in documents : row.key # uploads[q].key
        /\ uploads'[q].key = uploads[q].key
        /\ \A r \in Requests \ {q} : uploads'[r] = uploads[r]
    BY <1>0, <1>6, <2>1, UploadSteps, PhaseSteps DEF OwnsFile
  <2>3. Doomed' \subseteq Doomed \cup {new}
    BY <2>1, <2>2 DEF Doomed
  <2> QED
    BY <2>1, <2>3
<1>7. ASSUME NEW q \in Requests, Discard(q) \/ DiscardFails(q)
      PROVE  Doomed' \subseteq Doomed /\ faults.reply <= faults'.reply
  <2>1. /\ uploads[q].phase \in {"duplicate", "error"} /\ documents' = documents
        /\ files \ {uploads[q].key} \subseteq files' /\ faults.reply <= faults'.reply
    BY <1>7 DEF Discard, DiscardFails, Discarded, Fault
  <2>2. \A r \in Requests : uploads'[r].phase = "error" => uploads'[r] = uploads[r]
    BY <1>7, UploadSteps, PhaseSteps
  <2>3. \A row \in documents : row.key = uploads[q].key => uploads[q].phase = "error"
    BY <1>0, <2>1 DEF OwnsFile
  <2> QED
    BY <2>1, <2>2, <2>3 DEF Doomed
<1>8. CASE Crash \/ UNCHANGED vars
  <2>1. /\ documents' = documents /\ files' = files /\ faults.reply <= faults'.reply
        /\ \A q \in Requests : uploads'[q].phase = "error" => uploads'[q] = uploads[q]
    BY <1>8 DEF Crash, Fault, NoUpload, vars
  <2> QED
    BY <1>1, <2>1
<1> QED
  BY <1>2, <1>3, <1>4, <1>5, <1>6, <1>7, <1>8 DEF Next

\* A document keeps its file unless a lost answer made Upload delete what it had
\* committed, one document for each such answer.
THEOREM FilesAreKept == Spec => []LossesNeedLostReplies
<1>1. Init => DoomedCounted
  <2> SUFFICES ASSUME Init PROVE DoomedCounted
    OBVIOUS
  <2>1. Doomed = {} /\ faults.reply = 0
    BY DEF Init, Doomed
  <2> QED
    BY <2>1, FS_EmptySet DEF DoomedCounted
<1>2. FilesInv /\ FilesInv' /\ DoomedCounted /\ [Next]_vars => DoomedCounted'
  <2> SUFFICES ASSUME FilesInv, FilesInv', DoomedCounted, [Next]_vars PROVE DoomedCounted'
    OBVIOUS
  <2>1. faults.reply \in Nat /\ faults'.reply \in Nat
    BY DEF FilesInv, UploadTypeOK, FaultCounts
  <2>2. IsFiniteSet(Doomed') /\ Cardinality(Doomed') <= faults'.reply
    BY <2>1, DoomedStep, Counted DEF DoomedCounted
  <2> QED
    BY <2>2 DEF DoomedCounted
<1>3. FilesInv /\ DoomedCounted => LossesNeedLostReplies
  <2> SUFFICES ASSUME FilesInv, DoomedCounted PROVE LossesNeedLostReplies
    OBVIOUS
  <2>1. {row \in documents : row.key \notin files} \subseteq Doomed
    BY DEF Doomed
  <2>2. faults.reply \in Nat
    BY DEF FilesInv, UploadTypeOK, FaultCounts
  <2> QED
    BY <2>1, <2>2, Counted DEF DoomedCounted, LossesNeedLostReplies
<1> QED
  BY <1>1, <1>2, <1>3, FilesInvariant, PTL DEF Spec

-----------------------------------------------------------------------------
\* Names of the files of uploads in flight.
UploadKeys == {uploads[q].key : q \in Requests}

\* A file gets out of sight only when Delete fails, or with the others when the
\* process ends.
LEMMA StraysStep ==
  ASSUME FilesInv, [Next]_vars
  PROVE  \/ Strays' \subseteq Strays /\ faults'.crash = faults.crash /\ faults'.delete = faults.delete
         \/ /\ faults'.crash = faults.crash /\ faults'.delete = faults.delete + 1
            /\ \E x : Strays' \subseteq Strays \cup {x}
         \/ /\ faults'.crash = faults.crash + 1 /\ faults'.delete = faults.delete
            /\ Strays' \subseteq Strays \cup UploadKeys
<1> DEFINE Same == faults'.crash = faults.crash /\ faults'.delete = faults.delete
<1> USE DEF FilesInv, UploadTypeOK, UploadState, FaultCounts
<1>0. \A q \in Requests : OwnsFile(q)
  OBVIOUS
<1>1. \A x : x \in Strays <=> /\ x \in temporary \/ x \in files
                              /\ \A row \in documents : row.key # x
                              /\ \A q \in Requests : uploads[q].key # x
  BY DEF Strays
<1>2. \A x : x \in Strays' <=> /\ x \in temporary' \/ x \in files'
                               /\ \A row \in documents' : row.key # x
                               /\ \A q \in Requests : uploads'[q].key # x
  BY DEF Strays
<1>3. ASSUME NEW q \in Requests, NEW c \in Contents, StartUpload(q, c)
      PROVE  Strays' \subseteq Strays /\ Same
  <2>1. /\ temporary' = temporary \cup {started + 1} /\ UNCHANGED <<files, documents, faults>>
        /\ uploads'[q].key = started + 1 /\ uploads[q].key = 0
        /\ \A r \in Requests \ {q} : uploads'[r] = uploads[r]
    BY <1>3, UploadSteps DEF StartUpload
  <2>2. \A x \in temporary \cup files : x # 0
    OBVIOUS
  <2> QED
    BY <1>1, <1>2, <2>1, <2>2
<1>4. ASSUME NEW q \in Requests, SaveFails(q) PROVE Strays' \subseteq Strays /\ Same
  <2>1. /\ temporary' = temporary \ {uploads[q].key} /\ UNCHANGED <<files, documents, faults>>
        /\ uploads[q].phase = "writing"
        /\ \A r \in Requests \ {q} : uploads'[r] = uploads[r]
    BY <1>4, UploadSteps DEF SaveFails
  <2>2. uploads[q].key \notin files
    BY <1>0, <2>1 DEF OwnsFile
  <2> QED
    BY <1>1, <1>2, <2>1, <2>2
<1>5. ASSUME NEW q \in Requests, SaveSucceeds(q) PROVE Strays' \subseteq Strays /\ Same
  <2>1. /\ temporary' \subseteq temporary /\ files' = files \cup {uploads[q].key}
        /\ UNCHANGED <<documents, faults>> /\ uploads[q] \in UploadState
        /\ uploads'[q] = [uploads[q] EXCEPT !.phase = "saved"]
        /\ \A r \in Requests \ {q} : uploads'[r] = uploads[r]
    BY <1>5, UploadSteps DEF SaveSucceeds, MovedAway
  <2>2. \A r \in Requests : uploads'[r].key = uploads[r].key
    BY <2>1
  <2> QED
    BY <1>1, <1>2, <2>1, <2>2
<1>6. ASSUME NEW q \in Requests, CreateDocument(q) PROVE Strays' \subseteq Strays /\ Same
  <2>1. /\ UNCHANGED <<temporary, files, faults>>
        /\ \A r \in Requests \ {q} : uploads'[r] = uploads[r]
    BY <1>6, UploadSteps DEF CreateDocument
  <2>2. CASE Known(uploads[q].content)
    <3>1. /\ documents' = documents /\ uploads[q] \in UploadState
          /\ uploads' = [uploads EXCEPT ![q].phase = "duplicate"]
      BY <1>6, <2>2 DEF CreateDocument, OnConflictDoNothing
    <3>2. \A r \in Requests : uploads'[r].key = uploads[r].key
      BY <2>1, <3>1
    <3> QED
      BY <1>1, <1>2, <2>1, <3>1, <3>2
  <2>3. CASE ~Known(uploads[q].content)
    <3> DEFINE new == [content |-> uploads[q].content, key |-> uploads[q].key]
    <3>1. documents' = documents \cup {new} /\ new.key = uploads[q].key
      BY <1>6, <2>3 DEF CreateDocument, OnConflictDoNothing
    <3> HIDE DEF new
    <3>2. /\ documents \subseteq documents'
          /\ \E row \in documents' : row.key = uploads[q].key
      BY <3>1
    <3> QED
      BY <1>1, <1>2, <2>1, <3>2
  <2> QED
    BY <2>2, <2>3
<1>7. ASSUME NEW q \in Requests, CreateFails(q) \/ CreateReplyLost(q) PROVE Strays' \subseteq Strays /\ Same
  <2>1. UNCHANGED <<temporary, files>> /\ Same /\ documents \subseteq documents'
    BY <1>7 DEF CreateFails, CreateReplyLost, OnConflictDoNothing, Fault
  <2>2. \A r \in Requests : uploads'[r].key = uploads[r].key
    BY <1>7, UploadSteps, PhaseSteps
  <2> QED
    BY <1>1, <1>2, <2>1, <2>2
<1>8. ASSUME NEW q \in Requests, Discard(q) PROVE Strays' \subseteq Strays /\ Same
  <2>1. /\ files' = files \ {uploads[q].key} /\ UNCHANGED <<temporary, documents, faults>>
        /\ uploads[q].phase \in {"duplicate", "error"}
        /\ \A r \in Requests \ {q} : uploads'[r] = uploads[r]
    BY <1>8, UploadSteps DEF Discard, Discarded
  <2>2. uploads[q].key \notin temporary
    BY <1>0, <2>1 DEF OwnsFile
  <2> QED
    BY <1>1, <1>2, <2>1, <2>2
<1>9. ASSUME NEW q \in Requests, DiscardFails(q)
      PROVE  /\ faults'.crash = faults.crash /\ faults'.delete = faults.delete + 1
             /\ Strays' \subseteq Strays \cup {uploads[q].key}
  <2>1. /\ UNCHANGED <<temporary, files, documents>>
        /\ faults'.crash = faults.crash /\ faults'.delete = faults.delete + 1
        /\ \A r \in Requests \ {q} : uploads'[r] = uploads[r]
    BY <1>9, UploadSteps DEF DiscardFails, Fault
  <2> QED
    BY <1>1, <1>2, <2>1
<1>10. ASSUME Crash
       PROVE  /\ faults'.crash = faults.crash + 1 /\ faults'.delete = faults.delete
              /\ Strays' \subseteq Strays \cup UploadKeys
  <2>1. /\ UNCHANGED <<temporary, files, documents>>
        /\ faults'.crash = faults.crash + 1 /\ faults'.delete = faults.delete
    BY <1>10 DEF Crash, Fault
  <2> QED
    BY <1>1, <1>2, <2>1 DEF UploadKeys
<1>11. ASSUME UNCHANGED vars PROVE Strays' \subseteq Strays /\ Same
  BY <1>1, <1>2, <1>11 DEF vars
<1> QED
  BY <1>3, <1>4, <1>5, <1>6, <1>7, <1>8, <1>9, <1>10, <1>11 DEF Next

\* There are no more files in flight than uploads.
LEMMA UploadKeysCounted ==
  /\ IsFiniteSet(UploadKeys) /\ Cardinality(UploadKeys) \in Nat
  /\ Cardinality(Requests) \in Nat /\ Cardinality(UploadKeys) <= Cardinality(Requests)
<1> DEFINE keyOf == [q \in Requests |-> uploads[q].key]
<1>1. keyOf \in Surjection(Requests, UploadKeys)
  BY DEF Surjection, UploadKeys
<1>2. IsFiniteSet(UploadKeys) /\ Cardinality(UploadKeys) <= Cardinality(Requests)
  BY <1>1, RequestsAssumption, FS_Surjection
<1> QED
  BY <1>2, RequestsAssumption, FS_CardinalityType

LEMMA StraysCountedStep ==
  ASSUME FilesInv, FilesInv', StraysCounted, [Next]_vars
  PROVE  StraysCounted'
<1> DEFINE n == Cardinality(Requests)
           c == faults.crash
           bound == c * n + faults.delete
<1>1. n \in Nat /\ c \in Nat /\ faults.delete \in Nat
  BY UploadKeysCounted DEF FilesInv, UploadTypeOK, FaultCounts
<1>2. c * n \in Nat /\ (c + 1) * n = c * n + n
  BY <1>1
<1>3. IsFiniteSet(Strays) /\ Cardinality(Strays) \in Nat /\ Cardinality(Strays) <= bound
  BY FS_CardinalityType DEF StraysCounted
<1>4. CASE Strays' \subseteq Strays /\ faults'.crash = faults.crash /\ faults'.delete = faults.delete
  <2>1. bound \in Nat
    BY <1>1, <1>2
  <2>2. IsFiniteSet(Strays') /\ Cardinality(Strays') <= bound
    BY <1>3, <1>4, <2>1, Counted
  <2> QED
    BY <1>4, <2>2 DEF StraysCounted
<1>5. CASE /\ faults'.crash = faults.crash /\ faults'.delete = faults.delete + 1
           /\ \E x : Strays' \subseteq Strays \cup {x}
  <2>1. bound \in Nat /\ bound + 1 \in Nat
    BY <1>1, <1>2
  <2>2. IsFiniteSet(Strays') /\ Cardinality(Strays') <= bound + 1
    BY <1>3, <1>5, <2>1, Counted
  <2>3. faults'.crash * n + faults'.delete = c * n + (faults.delete + 1)
    BY <1>5
  <2>4. c * n + (faults.delete + 1) = bound + 1
    <3> HIDE DEF n, c
    <3> QED
      BY <1>1, <1>2
  <2> QED
    BY <2>2, <2>3, <2>4 DEF StraysCounted
<1>6. CASE /\ faults'.crash = faults.crash + 1 /\ faults'.delete = faults.delete
           /\ Strays' \subseteq Strays \cup UploadKeys
  <2>1. /\ IsFiniteSet(Strays \cup UploadKeys)
        /\ Cardinality(Strays \cup UploadKeys) =
             Cardinality(Strays) + Cardinality(UploadKeys) - Cardinality(Strays \cap UploadKeys)
    BY <1>3, UploadKeysCounted, FS_Union
  <2>2. Cardinality(Strays \cap UploadKeys) \in Nat
    <3>1. IsFiniteSet(Strays \cap UploadKeys)
      BY <1>3, FS_Subset
    <3> QED
      BY <3>1, FS_CardinalityType
  <2>3. IsFiniteSet(Strays') /\ Cardinality(Strays') <= Cardinality(Strays \cup UploadKeys)
    BY <1>6, <2>1, FS_Subset
  <2>4. Cardinality(Strays') \in Nat
    BY <2>3, FS_CardinalityType
  <2>5. faults'.crash * n + faults'.delete = c * n + n + faults.delete
    BY <1>2, <1>6
  <2>6. Cardinality(Strays') <= Cardinality(Strays) + n
    BY <1>1, <1>3, <2>1, <2>2, <2>3, <2>4, UploadKeysCounted
  <2>7. Cardinality(Strays') <= c * n + n + faults.delete
    <3> HIDE DEF n, c
    <3> QED
      BY <1>1, <1>2, <1>3, <2>4, <2>6
  <2> QED
    BY <2>3, <2>5, <2>7 DEF StraysCounted
<1> QED
  BY <1>4, <1>5, <1>6, StraysStep

\* Files nobody knows come from crashes, at most one for each upload in flight then,
\* and from failed deletes, one for each.
THEOREM StraysAreCounted == Spec => []StraysNeedFaults
<1>1. Init => StraysCounted
  <2> SUFFICES ASSUME Init PROVE StraysCounted
    OBVIOUS
  <2>1. Strays = {} /\ faults.crash = 0 /\ faults.delete = 0
    BY DEF Init, Strays
  <2>2. Cardinality(Requests) \in Nat
    BY UploadKeysCounted
  <2>3. 0 <= 0 * Cardinality(Requests) + 0
    BY <2>2
  <2> QED
    BY <2>1, <2>3, FS_EmptySet DEF StraysCounted
<1>2. FilesInv /\ FilesInv' /\ StraysCounted /\ [Next]_vars => StraysCounted'
  BY StraysCountedStep
<1>3. StraysCounted => StraysNeedFaults
  BY DEF StraysCounted, StraysNeedFaults
<1> QED
  BY <1>1, <1>2, <1>3, FilesInvariant, PTL DEF Spec
=============================================================================
