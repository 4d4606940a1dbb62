----------------------------- MODULE VideoCrawler -----------------------------
(***************************************************************************)
(* The video crawler (tools/video-crawler/scripts): a process searches     *)
(* YouTube page by page, takes the candidates one after another, collects  *)
(* captions, key frames and a summary, and stores each video in one        *)
(* transaction, inside which its points are written to Qdrant.  The timer  *)
(* runs one process (deploy/run-job.sh locks); main.py and                 *)
(* youtube_transcript_evidence.py are also run by hand.                    *)
(***************************************************************************)
EXTENDS Naturals, Sequences, FiniteSets, SequencesExt

CONSTANTS
    Crawlers, Videos,
    Nobody,
    MaxPages, SuccessTarget, RetryAttempts,     \* conf.yaml
    PageSize,       \* most candidates on a page
    VideoChunks,    \* chunks of one video: its summary and its transcript groups
    MaxCrawls       \* bound on the processes that are started

ASSUME CrawlerAssumption ==
    /\ Nobody \notin Crawlers
    /\ {MaxPages, SuccessTarget, RetryAttempts, VideoChunks} \subseteq Nat \ {0}

VARIABLES
    contents,   \* committed content items of a video
    inserting,  \* the process whose transaction holds the video's dedup_key
    embedded,   \* points in Qdrant of the committed item
    strays,     \* points in Qdrant of an item that was never committed
    crawl,      \* what a process holds in memory
    crawls      \* processes started

crawlerVars == <<contents, inserting, embedded, strays, crawl, crawls>>

Outcomes == {"success", "duplicate", "no_captions", "failed"}
CrawlerOff == [phase |-> "off", existing |-> {}, pages |-> 0, items |-> <<>>, more |-> FALSE,
        seen |-> {}, video |-> Nobody, tries |-> 0, sent |-> 0, mine |-> {}, results |-> {}]

CrawlerInit ==
    /\ contents = [v \in Videos |-> 0] /\ inserting = [v \in Videos |-> Nobody]
    /\ embedded = [v \in Videos |-> 0] /\ strays = [v \in Videos |-> 0]
    /\ crawl = [c \in Crawlers |-> CrawlerOff]
    /\ crawls = 0

Successes(r) == {v \in Videos : <<v, "success">> \in r.results}
Reached(r) == Cardinality(Successes(r)) >= SuccessTarget

(* run_search_and_ingest: the known keys are read once; without a database *)
(* the set is empty and the transaction finds the duplicates.              *)
StartCrawl(c) ==
    /\ crawl[c].phase \in {"off", "ended", "broken"} /\ crawls < MaxCrawls
    /\ \E known \in {{}, {v \in Videos : contents[v] > 0}} :
         crawl' = [crawl EXCEPT ![c] = [CrawlerOff EXCEPT !.phase = "search", !.existing = known]]
    /\ crawls' = crawls + 1
    /\ UNCHANGED <<contents, inserting, embedded, strays>>

Pages == UNION {[1 .. n -> Videos] : n \in 0 .. PageSize}

(* A search that fails ends the crawl with what it has.                    *)
SearchPage(c) ==
    LET self == crawl[c] IN
    /\ self.phase = "search"
    /\ IF self.pages = MaxPages \/ Reached(self)
       THEN crawl' = [crawl EXCEPT ![c].phase = "ended"]
       ELSE \/ \E items \in Pages, more \in BOOLEAN :
                 crawl' = [crawl EXCEPT ![c].phase = "page", ![c].items = items,
                                        ![c].more = more, ![c].pages = @ + 1]
            \/ crawl' = [crawl EXCEPT ![c].phase = "ended"]
    /\ UNCHANGED <<contents, inserting, embedded, strays, crawls>>

(* The next candidate of the page.  With the target reached or the page    *)
(* done, the next page if there is one.                                    *)
NextCandidate(c) ==
    LET self == crawl[c] IN
    /\ self.phase = "page"
    /\ crawl' = [crawl EXCEPT ![c] =
         IF self.items = <<>> \/ Reached(self)
         THEN [self EXCEPT !.phase = IF self.more THEN "search" ELSE "ended", !.items = <<>>]
         ELSE LET v == Head(self.items) IN
              IF v \in self.seen \cup self.existing
              THEN [self EXCEPT !.items = Tail(@), !.results = @ \cup {<<v, "duplicate">>}]
              ELSE [self EXCEPT !.items = Tail(@), !.seen = @ \cup {v}, !.phase = "collect",
                                !.video = v, !.tries = 1]]
    /\ UNCHANGED <<contents, inserting, embedded, strays, crawls>>

Reports(r, outcome) ==
    [r EXCEPT !.phase = "page", !.video = Nobody, !.tries = 0, !.sent = 0,
              !.results = @ \cup {<<r.video, outcome>>}]

(* Captions or a local transcription, key frames and the summary: whatever *)
(* they raise is an EvidenceCollectionError, which is tried again.         *)
CollectEvidence(c) ==
    LET self == crawl[c] IN
    /\ self.phase = "collect"
    /\ crawl' \in {[crawl EXCEPT ![c].phase = "look"],
                   [crawl EXCEPT ![c] = Reports(self, "no_captions")],
                   [crawl EXCEPT ![c] = IF self.tries < RetryAttempts
                                        THEN [self EXCEPT !.tries = @ + 1]
                                        ELSE Reports(self, "failed")]}
    /\ UNCHANGED <<contents, inserting, embedded, strays, crawls>>

Skipped(r) == Reports(r, "duplicate")

LookForItem(c) ==
    LET self == crawl[c] IN
    /\ self.phase = "look"
    /\ crawl' = [crawl EXCEPT ![c] = IF contents[self.video] > 0 THEN Skipped(self)
                                     ELSE [self EXCEPT !.phase = "insert"]]
    /\ UNCHANGED <<contents, inserting, embedded, strays, crawls>>

(* Any other error leaves the loop and the process: the transaction is     *)
(* rolled back, the points it sent stay, and no summary is written.        *)
Breaks(c, phase) ==
    LET self == crawl[c] IN
    /\ inserting' = [v \in Videos |-> IF inserting[v] = c THEN Nobody ELSE inserting[v]]
    /\ strays' = IF self.sent = 0 THEN strays ELSE [strays EXCEPT ![self.video] = @ + self.sent]
    /\ crawl' = [crawl EXCEPT ![c] = [CrawlerOff EXCEPT !.phase = phase]]
    /\ UNCHANGED <<contents, embedded, crawls>>

(* The unique dedup_key: an insertion waits for another one of the same    *)
(* video and fails when that one was committed.                            *)
InsertItem(c) ==
    LET v == crawl[c].video IN
    /\ crawl[c].phase = "insert" /\ inserting[v] = Nobody /\ contents[v] = 0
    /\ inserting' = [inserting EXCEPT ![v] = c]
    /\ crawl' = [crawl EXCEPT ![c].phase = "upsert"]
    /\ UNCHANGED <<contents, embedded, strays, crawls>>

InsertFails(c) ==
    crawl[c].phase = "insert" /\ contents[crawl[c].video] > 0 /\ Breaks(c, "broken")

Upserted(r) == [r EXCEPT !.sent = @ + 1, !.phase = IF r.sent + 1 = VideoChunks THEN "commit" ELSE @]

\* Mutant: one chunk is enough.
UpsertsFirst(c) ==
    /\ crawl[c].phase = "upsert"
    /\ crawl' = [crawl EXCEPT ![c].sent = 1, ![c].phase = "commit"]
    /\ UNCHANGED <<contents, inserting, embedded, strays, crawls>>

UpsertPoint(c) ==
    /\ crawl[c].phase = "upsert"
    /\ crawl' = [crawl EXCEPT ![c] = Upserted(@)]
    /\ UNCHANGED <<contents, inserting, embedded, strays, crawls>>

(* The collection, the embedding service or Qdrant fails: an error that is *)
(* none of the crawler's own.                                              *)
UpsertFails(c) == crawl[c].phase = "upsert" /\ Breaks(c, "broken")

CommitItem(c) ==
    LET self == crawl[c] IN
    /\ self.phase = "commit"
    /\ contents' = [contents EXCEPT ![self.video] = @ + 1]
    /\ embedded' = [embedded EXCEPT ![self.video] = self.sent]
    /\ inserting' = [inserting EXCEPT ![self.video] = Nobody]
    /\ crawl' = [crawl EXCEPT ![c] = [Reports(self, "success") EXCEPT !.mine = @ \cup {self.video}]]
    /\ UNCHANGED <<strays, crawls>>

(* The container is stopped, or its time limit ends.                       *)
CrawlKilled(c) == crawl[c].phase \notin {"off", "ended", "broken"} /\ Breaks(c, "off")

CrawlStep(c) ==
    \/ SearchPage(c) \/ NextCandidate(c) \/ CollectEvidence(c) \/ LookForItem(c)
    \/ InsertItem(c) \/ InsertFails(c) \/ UpsertPoint(c) \/ CommitItem(c)

CrawlerNext == \E c \in Crawlers : StartCrawl(c) \/ CrawlStep(c) \/ UpsertFails(c) \/ CrawlKilled(c)

CrawlerSpec == CrawlerInit /\ [][CrawlerNext]_crawlerVars

-----------------------------------------------------------------------------
(* Properties.                                                             *)

CrawlerTypeOK ==
    /\ contents \in [Videos -> Nat] /\ embedded \in [Videos -> 0 .. VideoChunks]
    /\ strays \in [Videos -> Nat]
    /\ inserting \in [Videos -> Crawlers \cup {Nobody}]
    /\ \A c \in Crawlers : crawl[c].video \in Videos \cup {Nobody}
                           /\ crawl[c].results \subseteq Videos \X Outcomes

\* A video is stored once, whoever collects it, and with all its points.
VideoIsStoredOnce ==
    \A v \in Videos : contents[v] <= 1 /\ (contents[v] = 1 => embedded[v] = VideoChunks)

\* The summary reports as success what this process stored, no more than it
\* was asked for.
SummaryIsHonest ==
    \A c \in Crawlers : Successes(crawl[c]) = crawl[c].mine
                        /\ Cardinality(crawl[c].mine) <= SuccessTarget

\* What crawls leave and report: whole videos, stored once, and no other
\* successes.
CrawlIsHonest == CrawlerTypeOK /\ VideoIsStoredOnce /\ SummaryIsHonest
=============================================================================
