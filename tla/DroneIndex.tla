------------------------------ MODULE DroneIndex ------------------------------
(***************************************************************************)
(* Import and publication of parsed drone documents                        *)
(* (tools/drone_documents/storage.py).  A processing of a document is      *)
(* imported in one transaction, its chunks are written to Qdrant batch by  *)
(* batch, and it becomes the document's active processing when no index    *)
(* job is left.                                                            *)
(*                                                                         *)
(* Imports are serialised per model, index runs per collection: two models *)
(* that share a manual import the same processing at the same time, and an *)
(* import meets the index run of another model.                            *)
(***************************************************************************)
EXTENDS Naturals, FiniteSets

CONSTANTS
    Models, Processings,    \* model slugs; processings of one shared document
    DocChunks, DocTexts,    \* chunk positions; texts a chunk can have
    DocBundles,             \* what a processing can hold: texts of chunks, 0 for none
    MaxImports, MaxLosses,  \* bounds on imports and on losses of the collection
    Nothing

ASSUME DocTextAssumption ==
    DocTexts \subseteq Nat \ {0} /\ DocBundles \subseteq [DocChunks -> DocTexts \cup {0}]
ASSUME DocBoundsAssumption == MaxImports \in Nat /\ MaxLosses \in Nat
ASSUME NothingAssumption == Nothing \notin Processings

VARIABLES
    docStatus,  \* document_processings.status
    docActive,  \* document_versions.active_processing_id
    docText,    \* content_chunks: 0 when there is no row
    docJobs,    \* vector_index_jobs.status
    docPoints,  \* Qdrant: the text a point embeds, 0 when there is none
    importing,  \* transactions of import_bundle
    indexing,   \* the holder of the collection's lock
    overlapped, \* processings an import and an index run worked on at the same time
    bare,       \* processings whose points were lost since they were last indexed
    imports, losses

docVars == <<docStatus, docActive, docText, docJobs, docPoints, importing, indexing,
             overlapped, bare, imports, losses>>

NoIndexing == [phase |-> "idle", at |-> Nothing, seen |-> [k \in DocChunks |-> 0], todo |-> {},
               whole |-> TRUE]

DocInit ==
    /\ docStatus = [p \in Processings |-> "absent"]
    /\ docActive = Nothing
    /\ docText = [p \in Processings |-> [k \in DocChunks |-> 0]]
    /\ docJobs = [p \in Processings |-> [k \in DocChunks |-> "none"]]
    /\ docPoints = [p \in Processings |-> [k \in DocChunks |-> 0]]
    /\ importing = [m \in Models |-> Nothing]
    /\ indexing = NoIndexing
    /\ overlapped = {} /\ bare = {}
    /\ imports = 0 /\ losses = 0

DocRows(p) == {k \in DocChunks : docText[p][k] # 0}
Importing(p) == \E m \in Models : importing[m] # Nothing /\ importing[m].of = p

-----------------------------------------------------------------------------
(* import_bundle.  The status is read at the start of the transaction; a   *)
(* published processing accepts nothing but what it already holds.         *)
Unchanged(p, b) == docStatus[p] = "ready" => docText[p] = b

BeginImport(m, p, b) ==
    /\ importing[m] = Nothing /\ imports < MaxImports
    /\ Unchanged(p, b)
    /\ importing' = [importing EXCEPT ![m] = [of |-> p, bundle |-> b, status |-> docStatus[p]]]
    /\ imports' = imports + 1
    /\ overlapped' = IF indexing.at = p THEN overlapped \cup {p} ELSE overlapped
    /\ UNCHANGED <<docStatus, docActive, docText, docJobs, docPoints, indexing, bare, losses>>

(* The commit: rows of the bundle are inserted or overwritten, rows the    *)
(* bundle does not have stay; the status is the one read before.           *)
CommitImport(m) ==
    LET t == importing[m]
        p == t.of
        text == [k \in DocChunks |-> IF t.bundle[k] # 0 THEN t.bundle[k] ELSE docText[p][k]]
    IN  /\ t # Nothing
        /\ docText' = [docText EXCEPT ![p] = text]
        /\ docJobs' = [docJobs EXCEPT ![p] = [k \in DocChunks |->
              IF text[k] # docText[p][k] THEN "pending" ELSE @[k]]]
        /\ docStatus' = [docStatus EXCEPT ![p] =
              IF t.status = "absent" THEN "pending_index" ELSE t.status]
        /\ importing' = [importing EXCEPT ![m] = Nothing]
        /\ UNCHANGED <<docActive, docPoints, indexing, overlapped, bare, imports, losses>>

ImportFails(m) ==
    /\ importing[m] # Nothing
    /\ importing' = [importing EXCEPT ![m] = Nothing]
    /\ UNCHANGED <<docStatus, docActive, docText, docJobs, docPoints, indexing, overlapped,
                   bare, imports, losses>>

-----------------------------------------------------------------------------
(* index_bundle, one processing of the bundle. *)

StaleByJob(p) == {k \in DocRows(p) : docJobs[p][k] # "succeeded"}
    \* Mutant: a job that succeeded is not compared with its point.

(* Every row is compared with its point, whatever its job says: a lost     *)
(* collection is rebuilt by running the command again.  A processing       *)
(* without chunks is published at once.                                    *)
Stale(p) == {k \in DocRows(p) : docJobs[p][k] # "succeeded" \/ docPoints[p][k] # docText[p][k]}

StartProcessing(p) ==
    /\ indexing.phase = "idle" /\ docStatus[p] # "absent"
    /\ indexing' = [phase |-> IF DocRows(p) = {} THEN "publish" ELSE "batches", at |-> p,
                    seen |-> docText[p], todo |-> Stale(p), whole |-> TRUE]
    /\ overlapped' = IF Importing(p) THEN overlapped \cup {p} ELSE overlapped
    /\ UNCHANGED <<docStatus, docActive, docText, docJobs, docPoints, importing, bare, imports, losses>>

(* A batch is embedded (from the cache where it can), written and its jobs *)
(* marked.  Batches are any parts of what is left.                         *)
Put(batch) == [docPoints EXCEPT ![indexing.at] = [k \in DocChunks |->
                  IF k \in batch THEN indexing.seen[k] ELSE @[k]]]
Marked(batch, status) == [docJobs EXCEPT ![indexing.at] = [k \in DocChunks |->
                  IF k \in batch THEN status ELSE @[k]]]

IndexBatch(batch) ==
    /\ indexing.phase = "batches" /\ batch # {} /\ batch \subseteq indexing.todo
    /\ \/ docPoints' = Put(batch) /\ docJobs' = Marked(batch, "succeeded")
       \/ docPoints' \in {docPoints, Put(batch)} /\ docJobs' = Marked(batch, "failed")
    /\ indexing' = [indexing EXCEPT !.todo = @ \ batch]
    /\ UNCHANGED <<docStatus, docActive, docText, importing, overlapped, bare, imports, losses>>

Remaining(p) == {k \in DocRows(p) : docJobs[p][k] # "succeeded"}
CountRemaining ==
    /\ indexing.phase = "batches" /\ indexing.todo = {}
    /\ indexing' = IF Remaining(indexing.at) = {} THEN [indexing EXCEPT !.phase = "publish"]
                   ELSE NoIndexing
    /\ UNCHANGED <<docStatus, docActive, docText, docJobs, docPoints, importing, overlapped,
                   bare, imports, losses>>

Publish ==
    /\ indexing.phase = "publish"
    /\ docStatus' = [docStatus EXCEPT ![indexing.at] = "ready"]
    /\ docActive' = indexing.at
    /\ bare' = IF indexing.whole THEN bare \ {indexing.at} ELSE bare
    /\ indexing' = NoIndexing
    /\ UNCHANGED <<docText, docJobs, docPoints, importing, overlapped, imports, losses>>

IndexDies ==
    /\ indexing.phase # "idle"
    /\ indexing' = NoIndexing
    /\ UNCHANGED <<docStatus, docActive, docText, docJobs, docPoints, importing, overlapped,
                   bare, imports, losses>>

(* Qdrant loses the collection: what is published then has no points until *)
(* the command is run again.                                               *)
LoseCollection ==
    /\ losses < MaxLosses /\ losses' = losses + 1
    /\ docPoints' = [p \in Processings |-> [k \in DocChunks |-> 0]]
    /\ bare' = Processings
    /\ indexing' = [indexing EXCEPT !.whole = FALSE]
    /\ UNCHANGED <<docStatus, docActive, docText, docJobs, importing, overlapped, imports>>

-----------------------------------------------------------------------------
DocNext ==
    \/ \E m \in Models :
          \/ \E p \in Processings, b \in DocBundles : BeginImport(m, p, b)
          \/ CommitImport(m) \/ ImportFails(m)
    \/ \E p \in Processings : StartProcessing(p)
    \/ \E batch \in SUBSET DocChunks : IndexBatch(batch)
    \/ CountRemaining \/ Publish \/ IndexDies
    \/ LoseCollection

DocSpec == DocInit /\ [][DocNext]_docVars

-----------------------------------------------------------------------------
(* Properties. *)

(* Rows, jobs, points and the two kinds of command keep their shapes. *)
DocTypeOK ==
    /\ docStatus \in [Processings -> {"absent", "pending_index", "ready"}]
    /\ docActive \in Processings \cup {Nothing}
    /\ \A f \in {docText, docPoints} : f \in [Processings -> [DocChunks -> DocTexts \cup {0}]]
    /\ docJobs \in [Processings ->
          [DocChunks -> {"none", "pending", "succeeded", "failed"}]]
    /\ indexing.phase = "idle" <=> indexing.at = Nothing
    /\ indexing.todo \subseteq DocChunks

(* What the searches are limited to is the active processing: unless an    *)
(* import and an index run of it overlapped or the collection was lost, it *)
(* is published, and every chunk has the point that embeds its text, after *)
(* any sequence of imports, failed batches, lost answers and interrupted   *)
(* runs.                                                                   *)
ActiveIsIndexed ==
    docActive \notin {Nothing} \cup overlapped \cup bare =>
        /\ docStatus[docActive] = "ready"
        /\ \A k \in DocRows(docActive) : docPoints[docActive][k] = docText[docActive][k]

(* What imports and index runs leave: rows in their shapes, and an active  *)
(* processing that is indexed.                                             *)
DocumentsAreIndexed == DocTypeOK /\ ActiveIsIndexed
=============================================================================
