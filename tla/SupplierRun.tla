---------------------------- MODULE SupplierRun ----------------------------
(***************************************************************************)
(* The supplier information jobs of one brand (tools/supplier-information):*)
(* pipeline.py searches, fetches the pages it does not know, lets a model  *)
(* name supply relations and stores them; supplier_verify.py checks each   *)
(* relation separately.  Three stores are written one after another: the   *)
(* list of known URLs, the relation document (Markdown) and the database,  *)
(* and a job may be killed or fail between any two writes.  The jobs of a  *)
(* brand share one lock (deploy/run-job.sh:25, the flock of the timers),   *)
(* so at most one runs; a kill inside the writing of a file is left out.   *)
(***************************************************************************)
EXTENDS Naturals, Sequences, SequencesExt

CONSTANTS Urls,          \* pages a search may return
          Suppliers,     \* suppliers a page may name
          MaxJobs        \* bound: jobs started

ASSUME JobsAssumption == MaxJobs \in Nat

VARIABLES known,         \* known_urls.txt
          notes,         \* confirmed_relations.md: supplier -> relation
          relations,     \* supplier_relations: supplier -> row
          audits,        \* supplier_verifications: supplier -> outcomes, oldest first
          job,           \* the running job
          answers,       \* history: what the model said of a page when it became known
          jobs           \* jobs started

supplierVars == <<known, notes, relations, audits, job, answers, jobs>>

(* There is no relation of this supplier. *)
Absent == [urls |-> {}, status |-> "absent"]
(* No job is running. *)
NoJob == [stage |-> "idle", pages |-> {}, found |-> {}]

AuditOutcomes == {"verified", "failed"}

(* verify_status as the audit rows define it. *)
Audited(s) == IF audits[s] = <<>> THEN "unverified" ELSE Last(audits[s])

SupplierInit ==
    /\ known = {}
    /\ notes = [s \in Suppliers |-> Absent]
    /\ relations = [s \in Suppliers |-> Absent]
    /\ audits = [s \in Suppliers |-> <<>>]
    /\ job = NoJob
    /\ answers = [u \in Urls |-> {}]
    /\ jobs = 0

(* The job ends, whether it is done, failed or was killed. *)
JobEnds == job' = NoJob

(***************************************************************************)
(* pipeline.py.                                                            *)
(***************************************************************************)
(* main(): the search returns references; unless --force is given, known   *)
(* ones are dropped, and a run without new pages ends at once.             *)
SearchNew ==
    \E refs \in SUBSET Urls, force \in BOOLEAN :
        LET fresh == IF force THEN refs ELSE refs \ known IN
        /\ job = NoJob
        /\ jobs < MaxJobs
        /\ fresh # {}
        /\ job' = [NoJob EXCEPT !.stage = "fetch", !.pages = fresh]
        /\ jobs' = jobs + 1
        /\ UNCHANGED <<known, notes, relations, audits, answers>>

(* save_fulltext_snapshot() without recording; pages that could not be     *)
(* read drop out, and without any page the analysis stops.                 *)
Fetch ==
    \E got \in SUBSET job.pages :
        /\ job.stage = "fetch"
        /\ job' = IF got = {} THEN NoJob
                  ELSE [job EXCEPT !.stage = "analyse", !.pages = got]
        /\ UNCHANGED <<known, notes, relations, audits, answers, jobs>>

(* The model names relations in every part of every page; of those, the    *)
(* explicit ones with a quotation found in their page are kept.  One failed*)
(* part fails the run.                                                     *)
Analyse ==
    /\ job.stage = "analyse"
    /\ \/ \E found \in SUBSET (Suppliers \X job.pages) :
              job' = [job EXCEPT !.stage = "document", !.found = found]
       \/ JobEnds
    /\ UNCHANGED <<known, notes, relations, audits, answers, jobs>>

(* update_confirmed_relations(): the document is loaded, extended with what*)
(* this run found and written back.                                        *)
NoteRelations ==
    LET pages(s) == {u \in job.pages : <<s, u>> \in job.found} IN
    /\ job.stage = "document"
    /\ notes' = [s \in Suppliers |->
           IF pages(s) = {} THEN notes[s]
           ELSE [urls |-> notes[s].urls \cup pages(s),
                 status |-> IF notes[s] = Absent THEN "unverified"
                            ELSE notes[s].status]]
    /\ job' = [job EXCEPT !.stage = "store"]
    /\ UNCHANGED <<known, relations, audits, answers, jobs>>

(* relation_update_values() and the insert: a new row is unverified, an    *)
(* existing row keeps its status.                                          *)
RelationRow(s) ==
    [urls |-> notes[s].urls,
     status |-> IF relations[s] = Absent THEN "unverified" ELSE relations[s].status]

(* Mutant: a failed transaction is only logged, as if it were not fatal. *)
StoreTolerated ==
    /\ job.stage = "store"
    /\ \/ relations' = [s \in Suppliers |->
              LET row == IF notes[s] = Absent THEN relations[s] ELSE RelationRow(s)
              IN  IF row # Absent /\ audits[s] = <<>>
                  THEN [row EXCEPT !.status = "unverified"] ELSE row]
       \/ UNCHANGED relations
    /\ job' = [job EXCEPT !.stage = "sync"]
    /\ UNCHANGED <<known, notes, audits, answers, jobs>>

(* upsert_supplier_relations(): every relation of the document is written, *)
(* then rows without any audit go back to unverified, in one transaction.  *)
Store ==
    /\ job.stage = "store"
    /\ relations' = [s \in Suppliers |->
           LET row == IF notes[s] = Absent THEN relations[s] ELSE RelationRow(s)
           IN  IF row # Absent /\ audits[s] = <<>>
               THEN [row EXCEPT !.status = "unverified"] ELSE row]
    /\ job' = [job EXCEPT !.stage = "sync"]
    /\ UNCHANGED <<known, notes, audits, answers, jobs>>

(* sync_confirmed_relation_statuses(): the document shows the outcome of   *)
(* the latest audit of each relation that has a row.                       *)
WithAudit(s) ==
    IF notes[s] = Absent THEN Absent
    ELSE [notes[s] EXCEPT !.status =
              IF relations[s] = Absent THEN "unverified" ELSE Audited(s)]

Sync ==
    /\ job.stage \in {"sync", "sync audits"}
    /\ notes' = [s \in Suppliers |-> WithAudit(s)]
    /\ job' = IF job.stage = "sync" THEN [job EXCEPT !.stage = "record"] ELSE NoJob
    /\ UNCHANGED <<known, relations, audits, answers, jobs>>

(* record_known_urls(): only after every store has the run's relations. *)
Record ==
    /\ job.stage = "record"
    /\ known' = known \cup job.pages
    /\ answers' = [u \in Urls |->
           IF u \in job.pages THEN {s \in Suppliers : <<s, u>> \in job.found}
           ELSE answers[u]]
    /\ JobEnds
    /\ UNCHANGED <<notes, relations, audits, jobs>>

(***************************************************************************)
(* supplier_verify.py.                                                     *)
(***************************************************************************)
(* load_supplier_relations_for_verification() *)
ToVerify(mode) ==
    {s \in Suppliers :
        /\ relations[s] # Absent
        /\ mode = "failed" => relations[s].status = "failed"
        /\ mode = "unverified" => audits[s] = <<>>}

(* main() refuses to start without a document. *)
StartVerify ==
    \E mode \in {"all", "failed", "unverified"} :
        /\ job = NoJob
        /\ jobs < MaxJobs
        /\ \E s \in Suppliers : notes[s] # Absent
        /\ ToVerify(mode) # {}
        /\ job' = [NoJob EXCEPT !.stage = "verify", !.found = ToVerify(mode)]
        /\ jobs' = jobs + 1
        /\ UNCHANGED <<known, notes, relations, audits, answers>>

(* verify_supplier() for each target, then ingest_supplier_verifications():*)
(* all audits and the statuses they give are one transaction.              *)
Verify ==
    /\ job.stage = "verify"
    /\ \E outcome \in [job.found -> AuditOutcomes] :
           /\ audits' = [s \in Suppliers |->
                  IF s \in job.found THEN Append(audits[s], outcome[s]) ELSE audits[s]]
           /\ relations' = [s \in Suppliers |->
                  IF s \in job.found
                  THEN [relations[s] EXCEPT !.status = outcome[s]] ELSE relations[s]]
    /\ job' = [NoJob EXCEPT !.stage = "sync audits"]
    /\ UNCHANGED <<known, notes, answers, jobs>>

(* A step raises, the timeout kills the job, the machine stops. *)
JobFails ==
    /\ job # NoJob
    /\ JobEnds
    /\ UNCHANGED <<known, notes, relations, audits, answers, jobs>>

SupplierNext ==
    \/ SearchNew \/ Fetch \/ Analyse \/ NoteRelations \/ Store \/ Sync \/ Record
    \/ StartVerify \/ Verify \/ JobFails

SupplierSpec == SupplierInit /\ [][SupplierNext]_supplierVars

(***************************************************************************)
(* Properties.                                                             *)
(***************************************************************************)
Statuses == AuditOutcomes \cup {"unverified", "absent"}
Relation == [urls : SUBSET Urls, status : Statuses]

(* The type invariant. *)
SupplierTypeOK ==
    /\ known \subseteq Urls
    /\ notes \in [Suppliers -> Relation]
    /\ relations \in [Suppliers -> Relation]
    /\ audits \in [Suppliers -> Seq(AuditOutcomes)]
    /\ answers \in [Urls -> SUBSET Suppliers]
    /\ jobs \in 0..MaxJobs

(* A page becomes known, and is never read again, only when every relation *)
(* it gave is stored: whatever write a job was stopped at, the database row*)
(* of each supplier the page named still lists the page.                   *)
KnownIsStored ==
    \A u \in known : \A s \in answers[u] : u \in relations[s].urls

(* The audits are the only source of a relation's verification status: the *)
(* row says what the latest audit says and unverified without one, although*)
(* the document keeps a status of its own that is out of date after a job  *)
(* was stopped between the transaction and the synchronisation.            *)
StatusIsAudited ==
    \A s \in Suppliers : relations[s] # Absent => relations[s].status = Audited(s)

(* What the jobs leave in their three stores: pages that need not be read  *)
(* again are stored, and a status has its audit.                           *)
StoresAgree == SupplierTypeOK /\ KnownIsStored /\ StatusIsAudited
=============================================================================
