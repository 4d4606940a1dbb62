# Verification of RAG_drift

TLA+ models of the repository's stateful core, TLC configurations that check them
on small instances, and TLAPS proofs of their most important properties for every
value of their constants. Paths below are relative to the repository's root.

RAG_drift is an intelligence RAG system: crawlers and importers collect material
(forums, guides, documents, videos, supplier pages), workers normalise, chunk and
index it into PostgreSQL, Qdrant and Neo4j, and a FastAPI backend searches it,
answers questions from it, runs literature research and shows a knowledge graph.
Nothing in it is one big program: it is a set of processes that meet in databases.
Its hard behaviour is therefore in what happens *between two transactions* of one
process, while another process, an operator, the remote site or a crash moves.

Contents: [inventory](#1-inventory), [the models](#2-the-models), [the runs and
their bounds](#3-the-runs), [fairness](#4-fairness), [the proofs](#5-the-proofs),
[disagreements found](#6-disagreements-between-the-code-and-what-is-said-of-it),
[what is not modelled](#7-what-is-not-modelled), [the plan](#8-the-plan).

## 1. Inventory

| Component | State | Operations | Meets | Hard behaviour | What makes it correct |
| --- | --- | --- | --- | --- | --- |
| **Video graph build queue** `backend/app/services/neo4j_graph`, `services/video_graph.py` | `VGVideo`/`VGBuild` nodes or `video_graph_*` rows: desired, active, withdrawn; status, attempts, token, lease, output; a projection per build | scan/enqueue, claim, load, assess, extract a chunk, activate, fail, withdraw, restore | PostgreSQL (material), a model | leases, takeovers, edits and withdrawals under a worker, reuse between builds, two databases without a common transaction | one owner per build; only the current revision is served; what is served is found in its text; it converges |
| **Literature runs** `backend/app/literature`, `repositories/literature.py`, `api/literature.py` | runs, the ORM's loaded status; papers, links, artifacts, evidence | create, cancel, claim, the pipeline, the failure handler; upsert, rank, analyse | a browser at IEEE, a model, the API | cancellation is a polled row; stale ORM state; swallowed exceptions; unique columns written by several runs | a cancelled run stops soon; outcomes say what became of the papers; evidence can be looked up |
| **Discourse collection** `tools/forum-crawler/scripts` | two cursors, topic tasks, snapshots, items | discover, refresh, capture, process a snapshot | the forum's API, an advisory lock, timers | the forum changes between two requests; a scan is cut off and resumed; back-offs | no visible post is lost; back-offs are kept; hidden posts leave |
| **Discourse processing and embedding** `discourse_process.py`, `discourse_topics.py` | posts, generations of chunk rows, payload flags, points | lay out a snapshot, bring payloads up to date, embed and delete a bounded batch | Qdrant | clearing a flag read earlier; bounded windows; lost replies | active chunks have current payloads; nothing starves |
| **Chat sessions and answers** `repositories/chat.py`, `services/search.py` | sessions, turns, queries; the stream's local state | ask, begin/finish a turn, record, delete, expire | the search, a model, the client | streams that hang, are cancelled at any await, or outlive their session | a delivered answer stays; one generation at a time; deletion is complete |
| **Crawl worker and chunk index** `worker/app`, `services/embedding_reindex.py` | runs, items, chunk rows, points | claim, page, normalise, index, rebuild | adapters, Qdrant | commits between two stores, merges of stale ORM rows, insertions that wait in a circle, deaths | success means indexed; workers finish |
| **iFixit guides** `tools/ifixit_rag` | chunk rows with an outbox of deletions, points | import, index, cleanup | Qdrant | an upsert whose reply is lost | every point is known; a clean index is the guide |
| **Drone documents** `tools/drone_documents` | processings, index jobs, points; batch jobs, lanes, children, files; the quota file; figures and their cache | import, index, publish; coordinate a batch; reserve and correct; describe and review | models, Qdrant, child processes | imports and index runs of two models, orphan children, one quota for many processes, a cache shared by figures | the active processing is indexed; a batch settles every document; the budget is kept; descriptions are reviewed |
| **Retrieval, ranking, answer context** `services/retrieval.py`, `reranking.py`, `answer_context.py` | a question's hits, evidence and blocks | vector and keyword search, fusion, rerank, hydrate, number | the stores the indexers change | hits go stale between two reads; limits | nothing withdrawn is cited; one passage of each item first; budgets |
| **Chunking** `services/chunking.py` and the importers' cutters | none | seven cutters | | limits and boundaries | nothing lost or repeated, cuts fit |
| **Scheduled jobs** `scripts/scheduler_bridge.py`, `deploy/run-job.sh`, `api/scheduled_tasks.py` | locks, containers, units | start, run, limit, clean up | systemd, Docker | kills that leave a container without its lock | a group runs one job; a script removes its own container only |
| **Supplier information** `tools/supplier-information` | known URLs, relation document, database; a job's snapshot, prompts and replies | search, read, cut, ask, store, verify | search providers, a model | three stores without a transaction; retries | known pages are stored; statuses have their audit; quotations are on their page |
| **Video crawler** `tools/video-crawler/scripts` | processes, rows and points of videos, summaries | page, collect, store | YouTube, a model, Qdrant | two processes at once, points inside a transaction | a video is stored once and whole; the summary is honest |
| **Frontend** `frontend/src/pages` | selections, replies, polls, calls under way | select, load, poll, ask, stop, delete, leave | the API | replies in any order | what is shown is what was selected; polls do not end early |
| Graph queries; data APIs; DJI forum, web and Parrot importers; migrations; evaluation | reads or files | | | sequential | see [7](#7-what-is-not-modelled) |

`PROJECT.json` lists every component with its sources and status, and under
`hazards` each place in the code where one of the behaviours above bites, with the
properties that would catch it.

## 2. The models

A transaction is one action when the code holds the lock that makes it one (the
comment at the head of each module names the lock); what a process carries between
two transactions is its local state, so everything else may happen there. `map` in
`PROJECT.json` gives the lines of every definition. Operators commented *Mutant* are
plausible bugs of the definition that follows them; no specification uses them.
Several properties of one component are conjoined under one name, which the runs
check; the conjuncts keep names of their own.

### VideoGraph, VideoProjection

`VideoGraph` is one video (videos share no queue state): `source` is its material
in PostgreSQL, `known … active` the `VGVideo` node, `status … output` the
`VGBuild` nodes indexed by (fingerprint, extractor version), `projection` what each
build has published. Material is abstracted to a revision, a chunk's text to a
model value, and the validation of an extraction to the relation `Grounded`
between the text extracted from and the text validated against (the same text
always validates; whether another does is the instance's choice).

* Scanner: `ScanList`, `ScanLoad`, `ScanEnqueue`, `ScanKnown`, `ScanWithdraw` are the
  separate reads of `enqueue_videos` and the writes of `enqueue` and `withdraw`.
* Worker: `ReadCandidate`, `Claim`, `LoadMaterial`, `Assess`, `KeepChunk`,
  `ExtractChunk`, `FinishChunks`, the five outcomes of `activate`, `RaiseError`, `Fail`.
* Environment: edits, insertion and deletion of the source, `OperatorWithdraw`
  (withdraw and restore), crashes of both processes, and the lease clock. A lease
  lapses when its holder is gone (`OrphanLeaseExpires`) or slow (`SlowLeaseExpires`).

`VideoProjection` is the promise to readers, without builds, workers or leases: what
is served is a graph of the revision the source had when it was published, made of
facts found in that revision, or nothing. `ServesPromise` states that `VideoGraph`
implements it with `served` and `facts` read off the active build.

`VideoGraphTables` runs the same protocol on PostgreSQL rows (`services/video_graph.py`):
the claim is one statement that skips locked rows and reads the material in its
transaction, and deleting the source cascades to the queue, so there is nothing to
reconcile. Its `BothSpec` chooses one of the two stores for a behaviour, so the runs
below check the properties of both; the refinement includes `Vanish`, the cascade.

### LiteratureRun

Runs, the workers that poll for them, and the cancel endpoint. The ORM does not
expire instances on commit, so each worker keeps `loaded`, the status it last read,
and `SetStatus` writes the column only when it assigns another value, as
SQLAlchemy's UPDATE does. A `Checkpoint` is its own step, and so is the write behind
it. The cancel endpoint tests a status it read without a lock, so its write, `Cancel`, may
come at any time. `Plan`, `AskLogin`, `Search`, `Rank`, `Fetch`, `Analyse` and `Finish` follow
the pipeline. An external call is a step of its own (`Call`, and `VisitHome` and `OpenSignIn`
for the pages of the sign-in): behind one checkpoint a phase begins at most two, a model
request and the repair of its JSON, a results page and its search, a paper's page and its PDF.
`Raise` and `RecordFailure` are the exception path. It is open until `Close`: the reply of the
last commit and the read behind it are still inside the pipeline's `try`. `Crash` is the
worker's death. A paper is its `analysis_status`; texts and events are left out, and the papers
themselves are in `LiteraturePapers`.

### ForumCapture

One forum. A job holds the advisory lock from its first commit to its last, so
there is one `session`; what interleaves with it is the forum (`Publish`, `Hide`),
the clock (`Elapse`) and death (`Crash`). A post is its id, and `posts[p]` its
topic. `ScanPage` and `HistoryPage` read a page and move a cursor in one commit,
`EnqueueTopics` is the discovery that finds topics without posts, `Fetch` lists a
topic's posts and `Capture` stores them later, `Process` lays out the item.
Due times are abstracted to who became due before whom (`queue[s].ahead`): the code
only compares them. `marks` is a history variable that remembers where each of
the two scans began; no action reads it.

### ChatSession

One session and the requests put to it. `Begin`, `Finish`/`CleanFinish` and `Delete`
are `begin_turn`, `finish_turn` and `delete_session`: each locks or updates the
session's row in the transaction that touches the turns, so each is one step; the
query's diagnostics (`CreateQuery`, `Retrieved`, `Record`, `CleanRecord`) are
transactions of their own. An `Interrupt` (the client disconnects, or a step raises)
may come at any of them and leads to the final audit write; `Finish` may commit
although its stream is interrupted before it is told. `Abandon`, and the second
disjunct of `Begin`, are the ways a stream ends without that write. `Elapse` is the
ten minutes after which a pending turn is old.

### The index: ContentIndex, GuideIndex, ForumIndex, DroneIndex

Four programs write chunks to PostgreSQL and points to Qdrant, each with its own way
of surviving a death between the two. The first three share `VectorTargets`, the collection a
process is configured for.

* `ContentIndex` composes the crawl worker and the generic index: `Claim`, `ReadPage`,
  `NormalizeItem`, `LoadChunks`, `CommitChunks`, `DeletePoint`, `UpsertChunk`, `SaveIndex`,
  `FinishRun` for each worker, and the operator's rebuild beside them. An item one transaction
  has inserted makes another wait (`Waits`); PostgreSQL breaks a circle (`BreakDeadlock`).
  The rows are read (`LoadChunks`) before they are committed (`CommitChunks`), and read again
  when a row to be inserted turns out to be there (`ReloadChunks`). `Merge` is SQLAlchemy's
  UPDATE: only columns that differ from what the session last knew, so that two commits may
  each keep a part of one row. Two history variables, which no guard reads: `overtaken`
  remembers the points a worker deleted after another had written them, and `takers`, of each
  run at work, which other runs have written a chunk since it was last indexed.
* `GuideIndex`: a command takes a chunk, deletes its outbox, commits the intended
  point, upserts, records. Any call may fail before or after the server acted. The
  outbox is a set: a target is in it once, and the order of deletions is left open.
* `ForumIndex`: `ProcessTopic` lays a snapshot out; a pass writes flagged payloads batch by
  batch (`WriteBatch`), then embeds or deletes at most `EmbedLimit` rows in id order. A row is never given
  another text.
* `DroneIndex`: imports are serialised per model and index runs per collection, so an
  import may meet the index run of another model with the same manual.

### The tools: DroneBatch, ModelPacer, CaptionGate, VideoCrawler, SupplierRun, SupplierEvidence, JobRunner

* `DroneBatch`: jobs, lanes, workers, the children that outlive a coordinator and the
  files they leave. A stage's answer is done, refused, waiting for the provider or lost. A
  coordinator ends in three ways: all lanes are joined (`EndBatch`), it is killed and its
  status file goes on saying processing (`CoordinatorDies`), or one of its tasks raises and the
  handler writes a final status over the jobs as they are (`CoordinatorFails`, `brokenOff`).
* `ModelPacer`: `second` is the clock, `reserved` and `spent` the tokens, the rest the file.
* `CaptionGate`: a task per figure, the shared cache, the review of screenshots and of
  figures in software sections, which are marked when a bundle is prepared (`SoftwareFigures`).
* `VideoCrawler`: two processes, each with its page, its candidate and its summary; a
  video's transaction (`inserting`) with the points written inside it.
* `SupplierRun`: the writes of a job to the three stores, in their order, a kill between
  any two, verification and its synchronisation. `SupplierEvidence` is what a single
  job reads: a text is the sequence of its lines' lengths, so that cutting, limits and
  lines that look like the snapshot's own are kept.
* `JobRunner`: units, an operator's hands and the page start scripts; the container
  belongs to the daemon and survives its script.

### Answers and texts: AnswerSearch, TextCutting

`AnswerSearch` follows one question through vector and keyword search, fusion,
shortlist, reranking, hydration and context, while passages are written, hidden and
deleted between any two reads. A passage's scores are the instance's choice. Selecting,
diversifying and filling a block go through a list once: they are folds.
`TextCutting` has the seven cutters (comment, article, sentences, lines, blocks, parts,
transcript) as operators; a behaviour is one input and its cut, and the instance enumerates every text up to `MaxText` over four kinds of characters.

### LiteraturePapers

Search results, ranking, `upsert_paper`, links, documents and evidence of several runs
over one table with two unique columns. A writer waits for the uncommitted row of
another, and a circle of waiting writers loses one of them.

### The pages: LiteraturePanel, ChatPage, DataPanels

React state, the effects that a change of state starts and cleans up, and the
requests under way. `LiteraturePanel` is the page that polls a run, `ChatPage` the
asynchronous functions of the conversation page, `DataPanels` the seven browsing pages
as instances of one table (`PanelOf`) of effects, what they depend on and what a choice clears.
The conversation a page remembers is a key of the browser's storage, which other tabs write
too (`RememberElsewhere`) and the browser may refuse (`Remember`); `foreign` is history and says
that one of the two has happened since this page last read or wrote the key. An effect that has
nothing to ask for is not loading, except that of the rows of the database page, which returns
before it resets its flag (`Idle`).

### Composition for checking

`MCParts` and `MCProgress` hold instances of the parts that share no step with each
other. `unit` is chosen at the start and a behaviour runs that part alone; the others
keep their initial state, so the states are the sum and not the product of the parts.

## 3. The runs

Bounds on the environment are named, and bound only the environment and never what the
code does: `Budget` (edits, operator actions, slow leases, crashes, retries) in
`VideoGraph`; `MaxCrashes` in `LiteratureRun`; `MaxPosts`, `MaxHides`, `MaxCrashes` in
`ForumCapture`; `MaxLeft` in `ChatSession`; `MaxChanges`, `MaxCommands`, `MaxRows`,
`MaxFaults`, `MaxImports`, `MaxLosses`, `MaxMishaps`, `MaxStarts`, `LastSecond`, `MaxLimited`,
`MaxWrites`, `MaxRuns`, `MaxKills`, `MaxCrawls`, `MaxJobs`, `MaxRounds`, `MaxGateFaults`,
`MaxRequests`, `MaxMisses`, `MaxActions`, `MaxPending` in the parts. `MaxAttempts` bounds the
claims of one build. Other constants (`Limit`, `Cooldown`, `EmbedLimit`, `TopK`, …) are
the code's settings, made small. `CHECK_DEADLOCK FALSE` is set where the system really
may stop: all runs ended, all requests served, a text cut.

| Run | Instance | What it shows |
| --- | --- | --- |
| `vg_queue` | both stores; 2 workers, 1 scanner, 2 revisions, 1 chunk; an edit, an operator action, a slow lease; 2 claims a build | `QueueIsSound` (types, one owner, no orphan in the queue, withdrawn serves nothing), "unchanged" means served, and the refinement of `VideoProjection` |
| `vg_chunks` | both stores; 1 worker, 2 chunks, 2 revisions that share one text, a text that also validates against another; 2 edits, a retry | everything served is found in its own revision; a rerun never loses a published chunk |
| `vg_live` | both stores; 1 worker, 1 scanner; an edit, an operator action, a slow lease, a crash | the graph converges to a settled source; a deleted video is withdrawn |
| `vg_reconcile` | Neo4j, 2 scanners | violation, see section 6 |
| `lit_runs` | 2 workers, 2 runs of 2 directions, 1 paper each, full text, one crash | `WorkIsBounded` (types, exclusive execution, at most two late calls, three while planning), honest outcomes also when the last commit's reply or the read behind it fails, cancellation survives progress, runs end, workers let go |
| `forum_scan` | 2 topics, 3 posts, pages of one post, one page a run, one hidden post which may be a topic's first; 1.5 million states under `ScanView` | `StreamIsJoined`: the watermark is reliable wherever a scan stops, and the two scans join |
| `forum_queue` | 2 topics, 2 posts, one topic a run, one crash | every post arrives, back-offs are kept |
| `forum_refresh` | 1 topic, 2 posts, one hidden, one refresh a run | a hidden reply leaves the item without any new post |
| `chat_turns` | 3 requests, one of them cut off | `AnswersAreKept` (delivered answers, recorded history, settled ends), exclusive generation, deletion is final, nobody is blocked |
| `chat_delete` | 2 requests | violation, see section 6 |
| `parts` | one small instance of each of sixteen parts, 0.8 million states together | the table below |
| `progress` | four parts with less disturbance (no configuration change, two rows and a window of one, one mishap) | workers finish; embedding catches up; a batch concludes; rankings end |

Three instances leave out orders of steps that make no difference. In `forum_scan` the
forum and the clock move between the jobs, or while a topic is being captured, and
not while a job is about to select it; and its view forgets the priority of a
captured topic and which scan has discovered what, which no later step of the two
collectors reads (`ScanSteps`, an action constraint, and `ScanView`). In `parts`, of two idle workers the same one claims; the settings
change when a row is there to be changed, and a second time only before the last
run; the forum's target changes when a post is in the index; and a literature run
reads its papers when no other run searches or ranks, one run after the other,
because what it reads is stored under its own id.

What `parts` shows, part by part, and what its instance contains:

| Property | Conjuncts beyond the type invariant | Instance |
| --- | --- | --- |
| `SuccessIsTrue` | `SuccessIsFresh`, `SuccessIsEarned` | 2 workers, 2 runs that meet 2 items in opposite order, a chunker that is replaced, two collections, a rebuild; and a crowd: a third run after the chunker changed, because the late deletion of a slow worker takes one run that wrote, one that rewrites and one that finds the row written |
| `GuidesAreSynced` | `GuidePointsAreKnown`, `SyncedIsTrue` | 2 chunks, three versions (one chunk lost, both back), targets on two servers, 4 commands |
| `PostsAreCurrent` | `PayloadIsCurrent` | 2 posts, texts worth indexing and not, two metadata, 3 rows, one fault |
| `DocumentsAreIndexed` | `ActiveIsIndexed` | 2 models that share processings, 2 chunks, 2 imports, a lost collection |
| `QuotaIsShared` | `BudgetIsKept` | 2 processes, actual use below, at and above the estimate, two 429s, 78 seconds |
| `CaptionsAreSound` | `AcceptedIsReviewed`, `EnrichedIsWhole` | 2 figures with one picture, one in a software section, 2 runs, 2 faults |
| `AnswerIsSound` | `AnswerIsGrounded`, `SourcesComeFirst`, `ContextFits`, `RerankKeepsAll` | 3 passages of 2 items, one unrelated, 2 writes under the question |
| `CutsAreSound` | `CutsCoverOnce`, `CutsFit` | every text of at most 4 characters, limits to 4, at most 3 units |
| `BoxesAreOwned` | `GroupRunsOnce`, `OwnBoxOnly` | 2 jobs of one group, 2 runs, units and a hand, a kill |
| `CrawlIsHonest` | `VideoIsStoredOnce`, `SummaryIsHonest` | 2 processes, 2 videos of 2 chunks, one retry |
| `StoresAgree` | `KnownIsStored`, `StatusIsAudited` | 2 pages, 2 suppliers, 3 jobs |
| `EvidenceIsHonest` | `EveryPartIsAnswered`, `QuoteIsFromItsPage`, `ProviderIsHonoured` | 2 pages, bodies that look like the snapshot's own lines, 2 targets, 2 attempts |
| `PapersAreSound` | `LinkedIsTheArticle`, `EvidenceIsTraceable` | 2 runs, 2 directions, an article with and without DOI, a namesake; the record without a DOI is never selected in this instance, so that its merge rests on the proof (`PapersSound`) |
| `PanelFollows` | `WatchedIsPolled` | 2 runs, 2 requests, a failed poll |
| `PageIsConsistent` | `QuietIsFree`, `ReloadReturnsHere` | 2 conversations, 2 actions of the user, other tabs, a browser that may refuse its storage |
| `PanelIsTrue` | `ShownIsSelected`, `LoadingIsTrue` | seven pages, 2 ids, 3 requests under way |

Why these bounds are enough to be interesting: takeovers need a second worker and
one lapsed lease; an obsolete build needs one edit between claim and activation, a
reused chunk two revisions that share a text; a lost partial result needs two
chunks, one of which fails on the rerun. A run of two directions with one paper
each can be complete, partly failed or short. A scan that is cut off and resumed
needs pages smaller than what was published, and a watermark that says too much
needs a second topic, because capturing a topic fetches all of its posts: with one
topic the property would hold whatever the cursors did. A late stream beside a
newer turn needs two requests, and a third asks while both are at work. A circle of
waiting insertions needs two items in opposite orders; a forgotten point a chunk that
comes back after its reply was lost; a stale payload a flag set during a batch. For
each property of a passing run `PROJECT.json` names a mutant, one plausible bug of one
mapped definition, which TLC finds under the run's own configuration: the instances
are large enough for the case to happen.

## 4. Fairness

* `VideoGraph`: weak fairness of every worker's and every scanner's next step (`watch`
  rescans and drains for ever; a model call returns or raises) and of the expiry of
  a lease nobody renews. None of the edits, operator actions, slow leases or crashes.
  A step that may fail may fail every time: convergence includes "failed".
* `LiteratureRun`: weak fairness of each worker's next step: of the pipeline, the sign-in
  deadline included, or of claiming. Neither a cancellation nor a login or an exception is
  assumed to come.
* `ForumCapture`: strong fairness of `Start` for the jobs timers start (another job may
  hold the lock when a timer fires; every job is bounded and lets it go), not for
  the manual ones; weak fairness of the clock and of the running job; strong
  fairness of a page request, a capture and a processing, since each can fail and is
  retried for ever: the claim is only that what is tried for ever succeeds once.
* `ChatSession`: time passes, and a client that is told to come back later does (the
  text of the 409 asks for it). Nothing is assumed of the streams: a model call may
  hang for ever.
* `ContentIndex`: weak fairness of every worker's step. A fetch, a model and PostgreSQL
  answer or fail; nothing is assumed of the page that creates runs, of changes of the
  configuration, nor that a worker survives (`WorkersFinish` ends with a death too).
* `ForumIndex`: weak fairness of the pass, which a timer starts; strong fairness of what
  a pass may fail at (opening the points, embedding and deleting one row), since it is
  tried again by every pass. `EmbeddingCatchesUp` has the hypothesis that fewer rows than
  the window can never succeed; without it the window really starves.
* `DroneBatch`: weak fairness of the coordinator's next step. A child ends or reaches its
  time limit; it may fail every time.
* `LiteraturePapers`: weak fairness of each run's next step; a writer that waits is woken
  by the other's commit or by PostgreSQL's deadlock detection.

`MCProgress` states these conditions for the part a behaviour runs.

## 5. The proofs

All theorems hold for every value of the constants under the assumptions the
modules name (finite sets, positive limits, nulls that are not values, texts that
validate against themselves). The proofs do not assume the bounds to be small.

| Module | Theorems | The invariant and why it is needed |
| --- | --- | --- |
| `VideoGraphProofs` | `TypeCorrect`, `OwnershipExclusive`, `QueueHasNoOrphan`, `WithdrawalHides`, `QueueSound`, `FinishedIsServed`, `PublishedIsGrounded`, `KeepsPublished`, `ImplementsPromise` | `Fence`: tokens never exceed the attempts, an attempt's token is fresh, and two workers with one build and one token hold none; ownership alone says nothing of a worker whose lease was taken. `Queue` is the conjunction of the three queue properties: each needs the others. `KeepsPublished` needs `Ledger` and `Held` (while a worker's token opens its build, the chunks it believes noted are those the build has noted) and `Noted` (what a build serves is of chunks it has noted): a publication replaces the projection by what the worker believes. The refinement rests on `ServingStep`: a step that changes what is served is an activation of the current revision or hides it. These theorems are about `Spec`, the Neo4j store. |
| `VideoGraphProofs` (either store) | `EitherInductive`, `EitherQueueSound`, `EitherFinishedIsServed`, `EitherIsGrounded`, `EitherKeepsPublished`, `EitherImplementsPromise` | The same properties of `BothSpec`, the specification of the runs. `Gone`: while there is no item nothing is queued or served, which is why a claim on rows finds material to read; it makes the type of a claimed worker inductive. Deleting the item resets the attempts, so `Fence` and `Ledger` end with it, and `DeletedForGood` with `Gone` says why nobody misses them: no build is left that a worker's old token could open. `CommonNext` and `RowsSteps` reduce the rows to the steps of `VideoGraph` and five of their own; `ClaimGrants` shows that a claim in one statement grants what the two steps of the graph's claim do. |
| `LiteratureRunProofs` | `TypeCorrect`, `ExclusiveRuns`, `CancellationIsPrompt`, `WorkBounded`, `OutcomeIsHonest`, `CancellationSurvives` | `Prompt` bounds, per phase, the late calls by the calls begun since the checkpoint was passed: the bound alone does not say where the next checkpoint is; `Papers` adds, per phase, how many papers the worker's loops have left behind, and holds on behind the last commit, where the outcome may still become a failure; `Believes`, the status the worker's session has loaded, decides which writes of a progress step reach the row. |
| `ForumCaptureProofs` | `TypeCorrect`, `InductiveInvariant`, `WatermarkReliable`, `HistoryJoins`, `StreamJoins`, `BackoffKept` | `PromisesKept`: not only what the watermark says but every page a scan has read so far is known; `FetchIsRecent`: what a fetched list lacks was published after it; `BatchIsDue`: a selected topic is due until its turn. |
| `PanelAndChatProofs` (chat sessions) | `ChatInductive`, `TypeCorrect`, `GenerationIsExclusive`, `DeliveryIsDurable`, `EndingSettles`, `AnswersKept`, `DeletionIsFinal` | `OwnsTurn`: a stream at work has its turn pending unless it was given up as old; `Stored`: what it has written by its last step, and that only the last step links the query. |
| `IndexProofs` (guides) | `InductiveInvariant`, `GuidesSynced` | `PointsAreLocated`: a row, with what a command keeps beside it, locates the points of its chunk, and a success whose target is not queued has its point; `ChunkIsHeld`: the copy of the row in memory has forgotten only what is deleted; `PassedAreSettled`: the chunks a clean command has passed have one point, of the guide's text. `ChunkEnds` is the lemma all ends of a chunk's work share. |
| `IndexProofs` (documents) | `DocInductive`, `DocumentsIndexed` | `ImportsRepeat`: an import of a published processing brings the texts it already holds; `RunIsAlone`: an index run whose processing no import touched works on the texts there are; `PassedAreWritten`: the chunks such a run has passed have their points, unless the collection was lost under it, and then (`LossIsNoted`) the loss is on record. |
| `IndexProofs` (posts) | `PostInductive`, `PostsCurrent` | `IsOfPost`: a row that is not flagged has its post's provenance, and an active one its post's text; `PointTold`: a point carries its row's provenance or the row is flagged; `PassOK`: what a pass has taken are rows, and the flags it has cleared in memory are of rows without a point, so that their commit can lose no update. |
| `ContentIndexProofs` (rows and points) | `FreshInductive`, `SuccessTrue` | `KnewOK`: what a session knew of a row is what the row was, or what it has become since; `Kept`, `Answered`: the columns the last commit will carry agree with the points as they are then; `RebuildsAlone`: a rebuild has the rows to itself, and what it remembers of them is right. The lemmas go column by column, as `Merge` does. |
| `ContentIndexProofs` (verdicts) | `EarnedInductive`, `SuccessTrue` | `RunsAreClaimed`: one worker to a run; `PagesDone`, `ItemsTaken`, `KnownOnes`: the pages counted as good are settled, the items of the page at work are there, and what the worker found in no need of work still is in none; `Excused`: a chunk that is not indexed any more was written by one of its `takers`, which has yet to write it again (`Rewriting`) or can no longer succeed (`Tainted`); `TakersFollow`: a run that writes a row is one of its takers until the row is indexed. |
| `ContentIndexProofs` (answers) | `SearchInductive`, `AnswerSound` | `Noted`: whatever could be shown at a read has been noted, and the evidence comes from there; `Chosen`: the selection and the hits that are read again are of the evidence; `Finished`: the blocks number passages of the evidence by what was legible, each within its share and all within the budget; `InScoreOrder`: until it is reranked the evidence is in the order of the scores, an item's second passage behind the first ones. Lemmas say what sorting, the rounds of `Diversify`, the reordering and the filling of a block do to a list (`SortedPermutes`, `DiverseSelects`, `ReorderKeeps`, `FilledFits`). |
| `IndexProofs` (cutters) | `CutInductive`, `CutsSound` | `CutIInv`: the cut is the cutter's value on a text of the input's shape. Every cutter is shown to produce a tiling: consecutive ranges of positions (`Tiles`), of lines (`Runs`) or of units (`Groups`) that leave out only what is not visible, by induction along the cutter's own recursion or fold. |
| `JobProofs` (suppliers) | `SupplyInductive`, `StoresAgreeAlways` | `DocumentLeads`: the document names at least the pages the database lists; `FoundIsNoted`, `FoundIsStored`: how far the job at work has brought what it found; `AuditHasRow`. |
| `JobProofs` (evidence) | `EvidenceInductive`, `EvidenceHonest` | `PromptsAreTheTexts`: the prompts are the cut of the texts read, and as many replies have come as prompts were sent; `KeptIsGood`: a kept relation cites its page or nothing; `TriesCounted`. `SplitKeepsTexts` adds up lines: no line is lost or doubled by the cutting of texts into parts and of parts into requests. |
| `JobProofs` (request budget) | `PacerInductive`, `QuotaKept` | Until the first 429 the schedule has paid for what was spent (`Paid`) and runs ahead of the clock by at most one request for each client (`Ahead`), less what the requests in flight may still add by exceeding their reservations (`Excess`): without that term a chain of corrections would not be bounded by anything the state shows. |
| `JobProofs` (papers) | `PapersInductive`, `PapersSound` | `RowsFit`: every row fits the article of its DOI, and an uncommitted row has grown from the committed one; `RowsAreLocked`: one writer to a row; `SelectedFits`, `WrittenFits`: what a run has selected or written is its record's article; `ReadIsStored`, `EvidenceIsStored`: what it read is stored before it is quoted. |
| `JobProofs` (jobs) | `RunnerInductive`, `BoxesOwned` | `LockHeld`: an active script of a group is the group's holder; `TokensAreDrawn`, `TokensDiffer`, `BoxIsNamed`: a container names the script that started it; `RemovesOwn`: a script that removes has looked at its own token. |
| `JobProofs` (crawls) | `CrawlInductive`, `CrawlsAreHonest` | `KeysAreHeld`: who inserts a video holds its key; `InsertsAreFirst`: nobody has committed that video; `MemoryOK`: what a process believes it stored is what it committed, and a process at work is short of its target. |
| `JobProofs` (captions) | `GateInductive`, `CaptionsSound` | `CacheIsReviewed`: what the cache calls reviewed was reviewed, for the picture of every figure that finds it; `CandidatesAreSound`: a text before its review is sound; `TasksAreOfRun`: outside a run every task waits. A cached text itself may be unsound for a sharper gate: acceptance checks it again. |
| `PanelAndChatProofs` (literature page) | `InductiveInvariant`, `PanelFollowsAlways` | `WatchedIsPolled` is inductive with `ShapesOK` and `RequestsNameRuns`: every request under way, and the shown row, is of a run. |
| `PanelAndChatProofs` (data panels) | `PanelInductive`, `PanelsAreTrue` | `AsksForSelected`: a request that is not to be ignored asked with the current selection (`ShownIsSelected` alone says nothing of the replies to come); `Awaits`, `Shows`, `DetailIsListed`: the parts of the property over the requests and answers of a step. |
| `PanelAndChatProofs` (chat page) | `PageInductive`, `PagesAreConsistent` | `OneCallHolds`: at most one call of this visit makes the page busy; `CallsAreShown`, `FlagsAreCalls`: the page is restoring or busy exactly while a current call of that kind is on its way; `CallsAreKnown`: no call is of a later version of the page. |

`DataInduction` is the induction that some of these proofs need over data. The theorems of
the library that induct take an operator as a parameter, which the provers cannot
instantiate; here the step is a constant operator `Op` of a module, and a proof takes an
instance of the module (`Adding == INSTANCE DataInduction WITH Op <- Plus`). It proves that
a recursive function whose value depends on arguments of lower rank satisfies its
equation (`Recursion`), that a fold from the left goes through its elements one by one and
keeps what every step keeps (`FoldSteps`, `FoldKeeps`, `FoldAppends`), and induction up to a
number and along a sequence, as membership in a set (`UpTo`, `GrowingSequences`). A module
takes its instances late, because each brings its facts to the obligations after it.

The assumptions are facts of the code or of the language: the nulls are no values; the sets
that a program holds in a list are finite and what it counts are numbers
(`SearchAssumption`, `EvidenceAssumption`); limits are positive; `KeyAssumption`
(`CaptionGate`): the key of a description is a hash over its picture and surroundings, so
that figures of one key have one picture; `RootAssumption` (`ForumIndex`): a topic has its
first post and finitely many others. `PacerAssumption` has one clause for the model's sake:
the code divides without rounding and the model counts whole seconds, so the price of a
request at the configured budget is a whole number of them. Two are facts of the environment that
no code enforces. `OneNumber` (`LiteraturePapers`): IEEE gives all records of one DOI one
article number; without it a row could take the number of one record and the DOI of another
and be linked for both. And in `EvidenceAssumption`: an address that a page's body names for
itself is not that of another page read, since the snapshot would take it for the page's own.

Only model-checked:

- the liveness properties (`Converges`, `DeletionReconciled`, `RunsEnd`, `WorkerLetsGo`,
  `PostsArrive`, `HiddenPostsLeave`, `AskedIsServed`, `WorkersFinish`,
  `EmbeddingCatchesUp`, `BatchConcludes`, `RankingEnds`), which rest on fairness and
  `ENABLED` and are out of the prover's reach;
- `QuotaIsShared` after the first 429 (`QuotaKept` covers the time before it, and the bounds of
  the budget always): a correction is made at the budget of the moment, so that it may
  then give back more time than its reservation took; how much of that can add up depends
  on the cool-down and on how soon the budget is raised again, and no bound was
  found that is inductive for every budget. (The module assumes the configured budget to be
  at least the floor of 5000 that a 429 leaves, which the code does not enforce: with a
  smaller budget `limited` raises it to the floor, `rate_limit.py:99`.)
- the safety properties of the parts that the table does not name.

## 6. Disagreements between the code and what is said of it

Shown by a run:

* `vg_reconcile`. A scan withdraws videos the graph knows and PostgreSQL does not, but
  lists PostgreSQL first (`worker.py:34`) and the graph last (`worker.py:46`): a video
  inserted and enqueued by another scan in between is withdrawn as deleted.
* `chat_delete`. Deleting a session finds the diagnostics through the turns' query ids,
  which only the last write of a stream sets: a question stopped during retrieval, or
  expired, leaves its query row behind.

Met while modelling; the models contain the behaviour and no property denies it:

* Video graph: the fingerprint check before activation compares the build with the
  material of that moment, not with the material the worker assessed (`worker.py:87`):
  after two edits a graph is served whose relevance was judged from another revision,
  although `docs/video-knowledge-graph-progress.md:121` says otherwise. Its chunks are
  validated again and are right (`ProjectionGrounded`).
* Literature: a terminal status can be overwritten both ways, by the cancel endpoint,
  which tests a status read without a lock (`repositories/literature.py:147`), and by the
  pipeline's last write behind its checkpoint (`pipeline.py:403`). A run whose report is stored
  may be shown as failed: the last commit and the read of the run behind it are inside the
  `try` (`pipeline.py:427`), whose handler writes `failed` over the outcome (`pipeline.py:48`).
  A cancelled run still begins the calls no checkpoint separates: the repair of a model's JSON
  (`llm.py:86`), the PDF behind the page (`ieee.py:160`), and IEEE's home page (`ieee.py:76`).
* Literature papers: two runs that insert the same new paper make one fail on the unique
  column; a record whose number is one row's and whose DOI another's always fails; the
  same article twice in one direction fails its run.
* Literature page: a poll reads status, events and results by three requests
  (`Promise.all`), so the last poll may show a terminal status beside older results, and
  stops then. The reply to a cancellation of one run can be shown over another run
  loaded meanwhile, with the other's results. Events end at the first hundred.
* Generic index: a point's id is its chunk's, and a worker deletes the old points after its
  commit (`chunk_indexer.py:129`). If another worker has written the rewritten chunk meanwhile,
  the late deletion removes the new point: the row says success and has none until the slow
  worker writes it again, and for good if it dies or fails first. `SuccessIsFresh` names this
  exception (`overtaken`), and `SuccessIsEarned` holds of such a run only because the slow
  one's own verdict is still open or says so; both were found when the proofs did not go
  through without it. A row that two workers loaded as pending can end as a success without a
  target, because the second commit carries `meta` and the first the status: it is indexed
  once more. After a clash of insertions the points an item's rewritten rows had are forgotten.
  An obsolete chunk whose text comes back when the chunker returns to an earlier form is never
  indexed again (`chunk_indexer.py:352`); `Reconfigure` only goes forward.
* Forum index: `raw_page_id` and the author's id are in the payload and not watched by
  the flag; an upsert that succeeded without its reply is marked failed and its point id
  cleared; rows of an earlier target are not indexed again.
* Drone documents: the pacer's floor of 5000 raises a configured limit below it
  (`rate_limit.py:99`). A batch whose coordinator breaks off says `partial_failed` or
  `provider_blocked` over jobs that are waiting or in a stage (`bulk.py:543`), and only
  `orchestrator_error` tells; `BatchConcludes` promises settled jobs for the other ends.
* Video crawler: `pipeline.py:4` says one video's failure does not stop the process, which
  holds for the crawler's own errors only.
* Jobs: after a SIGKILL the container goes on without its lock (`run-job.sh:46`); a start
  the bridge accepted may be skipped by the lock, with exit status 0.
* Suppliers: a line 「地址：」 in a page's body replaces the page's URL in the snapshot, a
  line `## n. ` starts an item without URL, and a body that contains 「（抓取失败」 is dropped;
  the evidence then loses its URL and never cites another page's.
* Pages: after a change of the database, `DatabasePage` leaves the flag of a voided request for
  rows set (`DatabasePage.tsx:64`, `:125`): the rows are "loading" and the refresh button is
  disabled until a table is selected, for good if the new list fails or is empty.
  `LoadingIsTrue` names this exception (`RowsLeftLoading`). A conversation that another tab
  deletes, opens or creates changes what a reload returns to (`AiChatPage.tsx:197`).
  `ContentDetailPage` keeps the old list choosable after the type was changed;
  `SourcesPage.refresh` lets an older list overwrite a newer one.

## 7. What is not modelled

* Inside the modelled components. Video graph: `enqueue_all`'s limits and the order of
  the queue, retries of one model call, the merge of entities and aliases that videos
  share. Literature runs: stage and progress columns, the event log. Forum: posts that
  become visible late with an id below the watermark (only a refresh finds them); a
  first backfill that ends before the first incremental scan (hence the hypothesis of
  `HistoryJoinsStream`); topics that fail for ever; attachments. Chat: answers without a
  session, titles, and queries shared by two sessions, which no code creates. Crawl
  worker: adapters and extraction are choices of what a page brings. Forum index: the
  one-off `migrate_legacy_topic`. Guides: the preparation of a bundle from the site.
  Suppliers: manual runs without the lock, kills inside the writing of a file, reports.
  Jobs: the calendars of the timers.
* Whole components, with the reason in `PROJECT.json`. Graph queries and the data APIs read
  one snapshot or insert one row: there is no step between which something could
  happen. The DJI forum, web and Parrot importers are one-shot scripts run by hand, one
  at a time (Parrot's cutting is in `TextCutting`). Migrations run offline. Evaluation and
  seeding scripts measure and do not belong to the running system.
* For good: the wording of prompts and answers, scores and embeddings (floating point,
  model output), rendering and extraction of documents, layout and routing of the
  frontend. They are choices of the environment in the models.

## 8. The plan

Built, in this order: the video graph queue on both stores with its refinement; the
literature runs; the forum's collection; the chat sessions; the indexes of the four
importers; answers and cutting; the batch, pacing and quality gate of the documents; the
jobs, crawlers and suppliers; the papers; the pages.

Left, most valuable first:

1. A bound for `QuotaIsShared` that survives a 429, from the cool-down and the calm period.
2. An abstract promise of a stored paper, implemented by `LiteraturePapers`.
3. The refinement of one abstract index ("a search finds the current chunks or none") by
   `GuideIndex`, `ForumIndex` and `DroneIndex`.
4. The entities that videos share in the graph: a second video in `VideoGraph`.
