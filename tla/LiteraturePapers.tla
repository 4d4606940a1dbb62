--------------------------- MODULE LiteraturePapers ---------------------------
(***************************************************************************)
(* The papers of literature runs: search and ranking, the shared table of  *)
(* papers, the documents and the evidence of an analysis                   *)
(* (literature/pipeline.py, ieee.py, ranking.py, llm.py, repositories/     *)
(* literature.py).  LiteratureRun models how a run is claimed, paced and   *)
(* cancelled; here several runs work, each in the transaction of its       *)
(* worker, and any of them may stop between two commits.                   *)
(*                                                                         *)
(* A paper is found by IEEE number or DOI, read without a lock, and        *)
(* inserted or updated; both columns are unique.  A writer waits for an    *)
(* uncommitted row of the same number or DOI, and PostgreSQL ends a cycle  *)
(* of waiting writers by failing one of them.                              *)
(***************************************************************************)
EXTENDS Naturals, Sequences, FiniteSets

CONSTANTS
    LitRuns, DirectionIds,  \* the directions of a run are 1 .. DirectionIds
    Records, NumberOf, DoiOf, TitleOf, NoId,    \* search records and their identities
    Relevance, RecentRecords, SearchResults, PicksPerDirection,
    Quotes, HeadOf, PdfOf, HtmlOf,  \* what can be quoted from title and abstract, PDF and page
    Rows, NoRow

ASSUME RecordAssumption ==
    /\ \A c \in Records : TitleOf[c] # NoId      \* "Untitled" where there is none
    /\ RecentRecords \subseteq Records /\ Relevance \in [Records -> Nat]
    /\ \A f \in {HeadOf, PdfOf, HtmlOf} : f \in [Records -> SUBSET Quotes]
    /\ SearchResults \subseteq Seq(Records)
(* The library gives an article one number: records of one DOI that have a *)
(* number have the same.  The code relies on it when it merges rows.       *)
ASSUME OneNumber ==
    \A c, d \in {e \in Records : NumberOf[e] # NoId /\ DoiOf[e] # NoId} :
        DoiOf[c] = DoiOf[d] => NumberOf[c] = NumberOf[d]
ASSUME PaperBounds == DirectionIds \in Nat \ {0} /\ PicksPerDirection \in Nat \ {0} /\ NoRow \notin Rows

VARIABLES
    papers,     \* literature_papers
    links,      \* literature_run_papers: [run, direction, record, row]
    artifacts,  \* paper_pdf and paper_fulltext: [run, row, kind, text]
    litEvidence, \* literature_evidence: [run, direction, row, quote, source]
    work,       \* the worker of a run
    unsaved     \* the rows of its open transaction

paperVars == <<papers, links, artifacts, litEvidence, work, unsaved>>

NoPaper == [number |-> NoId, doi |-> NoId, title |-> NoId]
NoDocument == [pdf |-> FALSE, text |-> {}]
Starting == [at |-> "searching", picks |-> <<>>, direction |-> 1, next |-> 1, row |-> NoRow,
             rows |-> <<>>, read |-> <<>>]

PapersInit ==
    /\ papers = [i \in Rows |-> NoPaper]
    /\ links = {} /\ artifacts = {} /\ litEvidence = {}
    /\ work = [r \in LitRuns |-> Starting]
    /\ unsaved = [r \in LitRuns |-> [i \in Rows |-> NoPaper]]

-----------------------------------------------------------------------------
(* Search and ranking. *)

(* pick_top: recent papers if there are any, the best scores first; two of *)
(* one score stay in the order found (a set of one sequence).              *)
PickTop(found) ==
    LET recent == {n \in DOMAIN found : found[n] \in RecentRecords}
        pool == IF recent = {} THEN DOMAIN found ELSE recent
        size == Cardinality(pool)
        Before(m, n) == \/ Relevance[found[m]] > Relevance[found[n]]
                        \/ Relevance[found[m]] = Relevance[found[n]] /\ m < n
        orders == {o \in [1 .. size -> pool] : \A m, n \in 1 .. size : m < n => Before(o[m], o[n])}
        count == IF size < PicksPerDirection THEN size ELSE PicksPerDirection
    IN {[n \in 1 .. count |-> found[o[n]]] : o \in orders}

SearchDirection(r) ==
    /\ work[r].at = "searching"
    /\ \E found \in SearchResults : \E top \in PickTop(found) :
         LET d == work[r].direction
             new == [n \in DOMAIN top |-> [direction |-> d, record |-> top[n]]]
         IN work' = [work EXCEPT ![r].picks = @ \o new, ![r].direction = d + 1,
                                 ![r].at = IF d = DirectionIds THEN "ranking" ELSE "searching"]
    /\ UNCHANGED <<papers, links, artifacts, litEvidence, unsaved>>

Pick(r) == work[r].picks[work[r].next]
PicksLeft(r) == work[r].next <= Len(work[r].picks)

\* Mutant: the title identifies a paper too.
SameOrTitled(row, c) ==
    \/ NumberOf[c] # NoId /\ row.number = NumberOf[c]
    \/ DoiOf[c] # NoId /\ row.doi = DoiOf[c]
    \/ row.title = TitleOf[c]

(* The title counts only when a record has neither number nor DOI.         *)
Same(row, c) ==
    \/ NumberOf[c] # NoId /\ row.number = NumberOf[c]
    \/ DoiOf[c] # NoId /\ row.doi = DoiOf[c]
    \/ NumberOf[c] = NoId /\ DoiOf[c] = NoId /\ row.title = TitleOf[c]

(* What a transaction sees: committed rows under its own.                  *)
View(r, i) == IF unsaved[r][i] # NoPaper THEN unsaved[r][i] ELSE papers[i]
Unused(i) == papers[i] = NoPaper /\ \A r \in LitRuns : unsaved[r][i] = NoPaper

(* upsert_paper, the read: one row of those that match, or none.           *)
SelectPaper(r) ==
    /\ work[r].at = "ranking" /\ PicksLeft(r)
    /\ LET matches == {i \in Rows : View(r, i) # NoPaper /\ Same(View(r, i), Pick(r).record)} IN
         \E i \in IF matches = {} THEN {NoRow} ELSE matches :
            work' = [work EXCEPT ![r].at = "writing", ![r].row = i]
    /\ UNCHANGED <<papers, links, artifacts, litEvidence, unsaved>>

(* Columns keep their value where the record has none.                     *)
Written(r) ==
    LET old == IF work[r].row = NoRow THEN NoPaper ELSE View(r, work[r].row)
        c == Pick(r).record
    IN [number |-> IF NumberOf[c] = NoId THEN old.number ELSE NumberOf[c],
        doi |-> IF DoiOf[c] = NoId THEN old.doi ELSE DoiOf[c], title |-> TitleOf[c]]

Clashes(a, b) == (a.number # NoId /\ a.number = b.number) \/ (a.doi # NoId /\ a.doi = b.doi)

WaitsFor(r) ==
    IF work[r].at # "writing" THEN {}
    ELSE {s \in LitRuns \ {r} :
            \E i \in Rows : /\ unsaved[s][i] # NoPaper
                            /\ i = work[r].row \/ Clashes(unsaved[s][i], Written(r))}

(* Both columns are unique, and a run links a paper once per direction.    *)
Refused(r) ==
    \/ \E i \in Rows \ {work[r].row} : Clashes(View(r, i), Written(r))
    \/ \E n \in DOMAIN work[r].rows : /\ work[r].rows[n] = work[r].row
                                      /\ work[r].picks[n].direction = Pick(r).direction

\* Mutant: the failure is recorded and the transaction stays open.
LeavesOpen(r, verdict) ==
    /\ work' = [work EXCEPT ![r] = [Starting EXCEPT !.at = verdict]]
    /\ UNCHANGED <<papers, links, artifacts, litEvidence, unsaved>>

(* The run's handler rolls the transaction back and records the failure.   *)
Drop(r, verdict) ==
    /\ work' = [work EXCEPT ![r] = [Starting EXCEPT !.at = verdict]]
    /\ unsaved' = [unsaved EXCEPT ![r] = [i \in Rows |-> NoPaper]]
    /\ UNCHANGED <<papers, links, artifacts, litEvidence>>

FreeRow(r) == IF work[r].row = NoRow THEN CHOOSE u \in Rows : Unused(u) ELSE work[r].row

(* upsert_paper, the write, and the link to the paper (Rows bounds the     *)
(* table).                                                                 *)
WritePaper(r) ==
    /\ work[r].at = "writing" /\ WaitsFor(r) = {} /\ ~Refused(r)
    /\ work[r].row = NoRow => \E u \in Rows : Unused(u)
    /\ unsaved' = [unsaved EXCEPT ![r][FreeRow(r)] = Written(r)]
    /\ work' = [work EXCEPT ![r].at = "ranking", ![r].next = @ + 1,
                            ![r].rows = Append(@, FreeRow(r))]
    /\ UNCHANGED <<papers, links, artifacts, litEvidence>>

WriteRefused(r) == work[r].at = "writing" /\ WaitsFor(r) = {} /\ Refused(r) /\ Drop(r, "failed")

(* The database's detector, for two writers that wait for each other.      *)
DeadlockEnded(r) == (\E s \in WaitsFor(r) : r \in WaitsFor(s)) /\ Drop(r, "failed")

CommitRanking(r) ==
    /\ work[r].at = "ranking" /\ ~PicksLeft(r)
    /\ papers' = [i \in Rows |-> View(r, i)]
    /\ unsaved' = [unsaved EXCEPT ![r] = [i \in Rows |-> NoPaper]]
    /\ links' = links \cup {[run |-> r, direction |-> work[r].picks[n].direction,
                             record |-> work[r].picks[n].record, row |-> work[r].rows[n]]
                              : n \in DOMAIN work[r].rows}
    /\ work' = [work EXCEPT ![r].at = IF work[r].picks = <<>> THEN "reported" ELSE "fetching",
                            ![r].next = 1]
    /\ UNCHANGED <<artifacts, litEvidence>>

-----------------------------------------------------------------------------
(* Documents and analyses, one commit per paper. *)

(* _scrape_html gives up without a word.                                   *)
Scrapes(c) == {HtmlOf[c], {}}

(* _download_pdf: what is no PDF counts as none; one that is too large is  *)
(* an error.                                                               *)
Downloads == {"none", "readable", "unreadable", "too_large"}

(* fetch_document: the PDF's pages, or the page's text when there is no    *)
(* PDF or it cannot be read.                                               *)
FullText(c, pdf, page) ==
    IF NumberOf[c] = NoId \/ pdf = "too_large" THEN NoDocument
    ELSE [pdf |-> pdf # "none", text |-> IF pdf = "readable" THEN PdfOf[c] ELSE page]

StoredArtifacts(r, row, d) ==
    {[run |-> r, row |-> row, kind |-> "paper_pdf", text |-> {}] : p \in {TRUE} \cap {d.pdf}}
    \cup {[run |-> r, row |-> row, kind |-> "paper_fulltext", text |-> t] : t \in {d.text} \ {{}}}

Advance(r, to) ==
    IF work[r].next = Len(work[r].picks)
    THEN [work[r] EXCEPT !.at = to, !.next = 1] ELSE [work[r] EXCEPT !.next = @ + 1]

FetchDocument(r) ==
    /\ work[r].at = "fetching" /\ PicksLeft(r)
    /\ \E pdf \in Downloads, page \in Scrapes(Pick(r).record) :
         LET d == FullText(Pick(r).record, pdf, page) IN
         /\ artifacts' = artifacts \cup StoredArtifacts(r, work[r].rows[work[r].next], d)
         /\ work' = [work EXCEPT ![r] = [Advance(r, "analysing") EXCEPT !.read = Append(@, d.text)]]
    /\ UNCHANGED <<papers, links, litEvidence, unsaved>>

(* _locate_evidence: title and abstract before the pages.                  *)
Source(c, text, q) ==
    CASE q \in HeadOf[c] -> "head"
      [] q \notin HeadOf[c] /\ q \in text -> "body"
      [] OTHER -> "unverified"

(* analyze_paper: the model quotes what it likes, or the analysis fails.   *)
Analyses == SUBSET Quotes

(* verify_analysis: every hit is looked for in the sources; one that is    *)
(* not found is kept without its text.                                     *)
EvidenceRows(r, hits) ==
    {[run |-> r, direction |-> Pick(r).direction, row |-> work[r].rows[work[r].next],
      quote |-> q, source |-> Source(Pick(r).record, work[r].read[work[r].next], q)] : q \in hits}

AnalysePaper(r) ==
    /\ work[r].at = "analysing" /\ PicksLeft(r)
    /\ \E hits \in Analyses : litEvidence' = litEvidence \cup EvidenceRows(r, hits)
    /\ work' = [work EXCEPT ![r] = Advance(r, "reported")]
    /\ UNCHANGED <<papers, links, artifacts, unsaved>>

(* What the API returns for a link: evidence of the link, artifacts of the *)
(* run's paper.                                                            *)
EvidenceOf(l) == {e \in litEvidence : <<e.run, e.direction, e.row>> = <<l.run, l.direction, l.row>>}
ArtifactsOf(l) == {a \in artifacts : <<a.run, a.row>> = <<l.run, l.row>>}

(* A cancellation, a failed search or a dead worker, at any commit.        *)
StopRun(r) == work[r].at \notin {"failed", "stopped", "reported"} /\ Drop(r, "stopped")

Works(r) ==
    \/ SearchDirection(r) \/ SelectPaper(r) \/ WritePaper(r) \/ WriteRefused(r) \/ DeadlockEnded(r)
    \/ CommitRanking(r) \/ FetchDocument(r) \/ AnalysePaper(r)

PapersNext == \E r \in LitRuns : Works(r) \/ StopRun(r)

PapersSpec == PapersInit /\ [][PapersNext]_paperVars

(* A worker goes on with its run, and the database with a deadlock.        *)
PapersFairness == \A r \in LitRuns : WF_paperVars(Works(r))
FairPapersSpec == PapersSpec /\ PapersFairness

-----------------------------------------------------------------------------
(* Properties. *)

PapersTypeOK ==
    /\ \A l \in links : l.run \in LitRuns /\ l.row \in Rows /\ l.record \in Records
    /\ \A r \in LitRuns : work[r].at \in {"searching", "ranking", "writing", "fetching", "analysing",
                                          "reported", "failed", "stopped"}

(* The paper a run is linked to stays the article its record named,        *)
(* whichever other runs have merged their records into the same row since  *)
(* (upsert_paper; records of one DOI have one number).                     *)
LinkedIsTheArticle ==
    \A l \in links : NumberOf[l.record] # NoId => papers[l.row].number = NumberOf[l.record]

(* Evidence that claims the body of a paper can be looked up beside it:    *)
(* the run keeps the text it was found in, also when that came from the    *)
(* page instead of the PDF (report.py, the note on traceability).          *)
EvidenceIsTraceable ==
    \A l \in links : \A e \in EvidenceOf(l) : e.source = "body" =>
        \E a \in ArtifactsOf(l) : a.kind = "paper_fulltext" /\ e.quote \in a.text

(* Runs that store the same papers in different orders do not hold each    *)
(* other up: every ranking ends.                                           *)
RankingEnds == \A r \in LitRuns : work[r].at = "ranking" ~> work[r].at \notin {"ranking", "writing"}

(* What several runs leave in the shared tables: links to the articles     *)
(* they found, and evidence that can be looked up.                         *)
PapersAreSound == PapersTypeOK /\ LinkedIsTheArticle /\ EvidenceIsTraceable
=============================================================================
