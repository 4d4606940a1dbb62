----------------------------- MODULE ContentIndex -----------------------------
(***************************************************************************)
(* The generic crawl worker and the chunk index it feeds: runs are claimed *)
(* from PostgreSQL, every page is fetched, extracted and normalised into   *)
(* content items, the items' chunks are committed as rows and then written *)
(* as points to Qdrant, and a last commit records what Qdrant answered.    *)
(* The operator's embedding rebuild (scripts/reindex_embeddings.py) writes *)
(* the same rows and points.                                               *)
(*                                                                         *)
(* Sessions do not expire on commit and an UPDATE carries only the columns *)
(* whose value differs from the one the session last knew: what a worker   *)
(* commits after its Qdrant calls is merged column by column into a row    *)
(* another worker may have written since.                                  *)
(***************************************************************************)
EXTENDS VectorTargets, Naturals, Sequences, FiniteSets, SequencesExt

CONSTANTS
    Workers, Runs, Items,
    PagesOf,        \* [Runs -> Seq(Seq(Items))]: the items of each page, in order
    LastVersion,    \* chunker versions are 1 .. LastVersion
    Built,          \* [1 .. LastVersion -> [Items -> Nat]]: chunks of an item's text
    MaxChanges      \* bound on the operator's changes and rebuilds

ASSUME VersionAssumption == LastVersion \in Nat \ {0}
ASSUME BuiltAssumption == Built \in [1 .. LastVersion -> [Items -> Nat]]
ASSUME ChangesAssumption == MaxChanges \in Nat
ASSUME PagesAssumption == PagesOf \in [Runs -> Seq(Seq(Items))]
ASSUME NoIdAssumption == None \notin Runs \cup Workers

VARIABLES
    runStatus,  \* crawl_runs.status
    held,       \* content items: {} absent, {None} committed, {w} inserted by w and not committed
    rows,       \* content_chunks
    points,     \* Qdrant: version of the text a point embeds, 0 when there is none
    crawler,    \* what each worker process holds in memory
    rebuild,    \* the same of the embedding rebuild
    emptied,    \* targets a rebuild has reset and no rebuild has finished since
    overtaken,  \* points a worker has deleted although another had written them since
    takers,     \* history for the properties: the runs that have written a row while
                \* another run was at work, and since the row last said it was indexed
    version, target,    \* chunker and settings the processes start with
    changes

indexVars == <<runStatus, held, rows, points, crawler, rebuild, emptied, overtaken, takers,
               version, target, changes>>

Indices == UNION {1 .. Built[x[1]][x[2]] : x \in (1 .. LastVersion) \X Items}
Chunks == Items \X Indices      \* unique (content_item_id, chunk_index)
Expected(i, v) == {<<i, n>> : n \in 1 .. Built[v][i]}   \* build_chunks

(* meta is one JSON column: the hash of the embedded text, the target of   *)
(* the last upsert that succeeded, and whether the point was cleaned up.   *)
(* A point's id is the chunk's id, so a row only says whether it names it. *)
Row == [text : 1 .. LastVersion,
        meta : [hash : 1 .. LastVersion, at : Targets \cup {None}, cleaned : BOOLEAN],
        status : {"pending", "success", "failed", "obsolete"}, named : BOOLEAN]
NewRow(v) == [text |-> v, meta |-> [hash |-> v, at |-> None, cleaned |-> FALSE],
              status |-> "pending", named |-> FALSE]
ASSUME RowNullAssumption == None \notin Row

Present(c) == rows[c] # None

Phases == {"idle", "discover", "page", "items", "chunks", "open", "vectors", "finish"}
Asleep == [phase |-> "idle", run |-> None, page |-> 0, good |-> 0, unindexed |-> FALSE,
           left |-> <<>>, base |-> [c \in {} |-> None], mem |-> [c \in {} |-> None],
           gone |-> {}, todo |-> {}]
Dormant == [on |-> FALSE, at |-> None, mem |-> [c \in {} |-> None], todo |-> {}]

IndexInit ==
    /\ runStatus = [r \in Runs |-> "absent"]
    /\ held = [i \in Items |-> {}]
    /\ rows = [c \in Chunks |-> None]
    /\ points = [t \in Targets |-> [c \in Chunks |-> 0]]
    /\ crawler = [w \in Workers |-> Asleep]
    /\ rebuild = Dormant
    /\ emptied = {} /\ overtaken = {}
    /\ takers = [r \in Runs |-> [c \in Chunks |-> {}]]
    /\ version = 1
    /\ target \in Targets
    /\ changes = 0

-----------------------------------------------------------------------------
(* Rows. *)

(* What a vector call leaves of a row in the session's memory. *)
Succeeded(row, t) == [row EXCEPT !.status = "success", !.named = TRUE, !.meta.at = t]
FailedForgetful(row) == row     \* Mutant: a failed upsert leaves the row as it was.

Failed(row) == [row EXCEPT !.status = "failed", !.named = FALSE]
Cleaned(row) == [row EXCEPT !.named = FALSE, !.meta.cleaned = TRUE]     \* status is left alone

(* An INSERT writes all, an UPDATE the columns that differ from what the   *)
(* session knew.                                                           *)
Merge(row, base, mem) ==
    IF base = None THEN mem
    ELSE [col \in DOMAIN row |-> IF mem[col] # base[col] THEN mem[col] ELSE row[col]]

Stored(base, mem) ==
    [c \in Chunks |-> IF c \in DOMAIN mem THEN Merge(rows[c], base[c], mem[c]) ELSE rows[c]]

(* What a run's commit of these rows adds to the history of the runs at    *)
(* work.                                                                   *)
Indexed(row) == row # None /\ row.status = "success" /\ row.meta.at = target
TakenBy(q, new) ==
    [r \in Runs |-> [c \in Chunks |->
        IF runStatus[r] # "running" THEN takers[r][c]
        ELSE IF Indexed(new[c]) THEN {}
        ELSE IF new[c] # rows[c] THEN takers[r][c] \cup {q} ELSE takers[r][c]]]

IsStale(row) == row.meta.hash # version
RequiresIndexing(row) ==
    \/ row.status \in {"pending", "failed"}
    \/ row.status = "success" /\ row.meta.at # target

(* One item's rows are reconciled with what its text is cut into now: new  *)
(* and rewritten rows and rows without a current vector are indexed, rows  *)
(* that are not expected any more become obsolete, and the points of       *)
(* rewritten and obsolete rows are to be deleted where they were.          *)
Rewritten(items) ==
    {c \in UNION {Expected(i, version) : i \in items} : Present(c) /\ IsStale(rows[c])}
Missing(items) == {c \in UNION {Expected(i, version) : i \in items} : ~Present(c)}
Unindexed(items) ==
    {c \in UNION {Expected(i, version) : i \in items} :
        Present(c) /\ ~IsStale(rows[c]) /\ RequiresIndexing(rows[c])}
Surplus(items) ==
    {c \in items \X Indices : Present(c) /\ c \notin Expected(c[1], version)}

Reconciled(items) ==
    [c \in Chunks |->
        IF c \in Rewritten(items) \cup Missing(items) THEN NewRow(version)
        ELSE IF c \in Surplus(items) THEN [rows[c] EXCEPT !.status = "obsolete"]
        ELSE rows[c]]

ObsoletePoints(items) ==
    {[chunk |-> c, at |-> rows[c].meta.at] :
        c \in {d \in Rewritten(items) \cup Surplus(items) : rows[d].named}}

-----------------------------------------------------------------------------
(* Runs. *)

Quiet == (\A w \in Workers : crawler[w].phase = "idle") /\ ~rebuild.on

Trigger(r) ==
    /\ runStatus[r] = "absent"
    /\ runStatus' = [runStatus EXCEPT ![r] = "queued"]
    /\ UNCHANGED <<held, rows, points, overtaken, takers, crawler, rebuild, emptied, version,
                   target, changes>>

(* FOR UPDATE SKIP LOCKED: one commit sets the run running. *)
Claim(w, r) ==
    /\ crawler[w].phase = "idle" /\ runStatus[r] = "queued" /\ ~rebuild.on
    /\ runStatus' = [runStatus EXCEPT ![r] = "running"]
    /\ crawler' = [crawler EXCEPT ![w] = [Asleep EXCEPT !.phase = "discover", !.run = r]]
    /\ UNCHANGED <<held, rows, points, overtaken, takers, rebuild, emptied, version, target,
                   changes>>

(* A run that cannot list its pages, or lists none, ends at once. *)
MarkRunFailed(w) ==
    /\ crawler[w].phase \in {"discover", "finish"}
    /\ runStatus' = [runStatus EXCEPT ![crawler[w].run] = "failed"]
    /\ crawler' = [crawler EXCEPT ![w] = Asleep]
    /\ UNCHANGED <<held, rows, points, overtaken, takers, rebuild, emptied, version, target,
                   changes>>

NextPage(c) == IF c.page < Len(PagesOf[c.run]) THEN "page" ELSE "finish"
Turned(c) == [c EXCEPT !.phase = NextPage(c), !.page = @ + 1, !.left = <<>>,
              !.base = Asleep.base, !.mem = Asleep.mem, !.gone = {}, !.todo = {}]

Discover(w) ==
    /\ crawler[w].phase = "discover" /\ PagesOf[crawler[w].run] # <<>>
    /\ crawler' = [crawler EXCEPT ![w].phase = "page", ![w].page = 1]
    /\ UNCHANGED <<runStatus, held, rows, points, overtaken, takers, rebuild, emptied, version,
                   target, changes>>

(* The fetched page, the extraction and its record: commits of their own,  *)
(* whose rows only the detail views read.                                  *)
ReadPage(w) ==
    /\ crawler[w].phase = "page"
    /\ crawler' = [crawler EXCEPT ![w].phase = "items",
                                  ![w].left = PagesOf[crawler[w].run][crawler[w].page]]
    /\ UNCHANGED <<runStatus, held, rows, points, overtaken, takers, rebuild, emptied, version,
                   target, changes>>

KeepsItems(w) == held   \* Mutant: a page that fails leaves its transaction open.
ReleasedBy(w) == [i \in Items |-> held[i] \ {w}]
CommittedBy(w) == [i \in Items |-> IF w \in held[i] THEN {None} ELSE held[i]]

(* The next item is reused when it is there and inserted when it is not;   *)
(* an insertion waits for another one of the same key that is not yet      *)
(* committed, and reuses that row if it is.                                *)
Waits(w, u) ==
    /\ crawler[w].phase = "items" /\ crawler[w].left # <<>>
    /\ u # w /\ u \in held[Head(crawler[w].left)]

NormalizeItem(w) ==
    /\ crawler[w].phase = "items" /\ crawler[w].left # <<>>
    /\ \A u \in Workers : ~Waits(w, u)
    /\ held' = [held EXCEPT ![Head(crawler[w].left)] = IF @ = {} THEN {w} ELSE @]
    /\ crawler' = [crawler EXCEPT ![w].left = Tail(@)]
    /\ UNCHANGED <<runStatus, rows, points, overtaken, takers, rebuild, emptied, version,
                   target, changes>>

(* The items' rows are read and reconciled in memory. *)
LoadChunks(w) ==
    LET items == ToSet(PagesOf[crawler[w].run][crawler[w].page])
        todo == Rewritten(items) \cup Missing(items) \cup Unindexed(items)
        known == todo \cup Surplus(items)
    IN  /\ crawler[w].phase = "items" /\ crawler[w].left = <<>>
        /\ crawler' = [crawler EXCEPT ![w] =
              [@ EXCEPT !.phase = "chunks", !.todo = todo, !.gone = ObsoletePoints(items),
                        !.base = [c \in known |-> rows[c]],
                        !.mem = [c \in known |-> Reconciled(items)[c]]]]
        /\ UNCHANGED <<runStatus, held, rows, points, overtaken, takers, rebuild, emptied,
                       version, target, changes>>

(* A row that is to be inserted has been inserted by another worker: its   *)
(* item is reconciled once more.  What the session has rewritten names no  *)
(* point any more.                                                         *)
Collisions(w) == {c \in DOMAIN crawler[w].base : crawler[w].base[c] = None /\ Present(c)}
ReloadChunks(w) ==
    LET self == crawler[w]
        settled == {c \in Collisions(w) : ~RequiresIndexing(rows[c])}
        known == DOMAIN self.base \ settled
    IN  /\ self.phase = "chunks" /\ Collisions(w) # {}
        /\ crawler' = [crawler EXCEPT ![w] =
              [self EXCEPT
                  !.todo = @ \ settled,
                  !.base = [c \in known |-> IF c \in Collisions(w) THEN rows[c] ELSE self.base[c]],
                  !.mem = [c \in known |-> IF c \in Collisions(w) THEN rows[c] ELSE self.mem[c]],
                  !.gone = {g \in self.gone :
                      \/ self.mem[g.chunk].status = "obsolete"
                      \/ \A c \in Collisions(w) : c[1] # g.chunk[1]}]]
        /\ UNCHANGED <<runStatus, held, rows, points, overtaken, takers, rebuild, emptied,
                       version, target, changes>>

(* The rows are committed, with the new items, before any vector is        *)
(* written.  With nothing to write the page is done.                       *)
CommitChunks(w) ==
    LET self == crawler[w] IN
    /\ self.phase = "chunks" /\ Collisions(w) = {}
    /\ rows' = Stored(self.base, self.mem)
    /\ takers' = TakenBy(self.run, Stored(self.base, self.mem))
    /\ held' = CommittedBy(w)
    /\ crawler' = [crawler EXCEPT ![w] =
          IF self.todo = {} /\ self.gone = {} THEN Turned([self EXCEPT !.good = @ + 1])
          ELSE [self EXCEPT !.phase = "open", !.base = self.mem]]
    /\ UNCHANGED <<runStatus, points, overtaken, rebuild, emptied, version, target, changes>>

(* The embedding service or the collection is not available: every chunk   *)
(* is marked failed and nothing is deleted.                                *)
OpenIndexFails(w) ==
    LET self == crawler[w] IN
    /\ self.phase = "open"
    /\ crawler' = [crawler EXCEPT ![w].phase = "vectors", ![w].gone = {}, ![w].todo = {},
          ![w].mem = [c \in DOMAIN @ |-> IF c \in self.todo THEN Failed(@[c]) ELSE @[c]],
          ![w].unindexed = TRUE]
    /\ UNCHANGED <<runStatus, held, rows, points, overtaken, takers, rebuild, emptied, version,
                   target, changes>>

OpenIndex(w) ==
    /\ crawler[w].phase = "open"
    /\ crawler' = [crawler EXCEPT ![w].phase = "vectors"]
    /\ UNCHANGED <<runStatus, held, rows, points, overtaken, takers, rebuild, emptied, version,
                   target, changes>>

(* The obsolete points first, in the order of the list; those of another   *)
(* server cannot be deleted and are skipped, and a row that does not say   *)
(* where its point is has it in the collection at work.  A call that fails *)
(* may still have reached the server.                                      *)
Removes(t, c) ==
    /\ points' = [points EXCEPT ![t][c] = 0]
    /\ overtaken' = IF points[t][c] = version THEN overtaken \cup {<<t, c>>} ELSE overtaken

DeletePoint(w) ==
    LET g == CHOOSE x \in crawler[w].gone : TRUE
        at == IF g.at = None THEN target ELSE g.at
        self == [crawler[w] EXCEPT !.gone = @ \ {g}]
    IN  /\ crawler[w].phase = "vectors" /\ crawler[w].gone # {}
        /\ \/ /\ StoreOf[at] # StoreOf[target]
              /\ crawler' = [crawler EXCEPT ![w] = self]
              /\ UNCHANGED <<points, overtaken>>
           \/ /\ StoreOf[at] = StoreOf[target]
              /\ Removes(at, g.chunk)
              /\ crawler' = [crawler EXCEPT ![w] = [self EXCEPT !.mem[g.chunk] = Cleaned(@)]]
           \/ /\ StoreOf[at] = StoreOf[target]
              /\ Removes(at, g.chunk) \/ UNCHANGED <<points, overtaken>>
              /\ crawler' = [crawler EXCEPT ![w] = [self EXCEPT !.unindexed = TRUE]]
        /\ UNCHANGED <<runStatus, held, rows, takers, rebuild, emptied, version, target,
                       changes>>

(* Then the chunks, one after another. *)
Puts(t, c, x) ==
    /\ points' = [points EXCEPT ![t][c] = x]
    /\ overtaken' = overtaken \ {<<t, c>>}

UpsertChunk(w) ==
    LET c == CHOOSE x \in crawler[w].todo : TRUE
        self == [crawler[w] EXCEPT !.todo = @ \ {c}]
    IN  /\ crawler[w].phase = "vectors" /\ crawler[w].gone = {} /\ crawler[w].todo # {}
        /\ \/ /\ Puts(target, c, self.mem[c].text)
              /\ crawler' = [crawler EXCEPT ![w] = [self EXCEPT !.mem[c] = Succeeded(@, target)]]
           \/ /\ Puts(target, c, self.mem[c].text) \/ UNCHANGED <<points, overtaken>>
              /\ crawler' = [crawler EXCEPT ![w] =
                    [self EXCEPT !.mem[c] = Failed(@), !.unindexed = TRUE]]
        /\ UNCHANGED <<runStatus, held, rows, takers, rebuild, emptied, version, target,
                       changes>>

(* The last commit of the page records what Qdrant answered. *)
SaveIndex(w) ==
    LET self == crawler[w] IN
    /\ self.phase = "vectors" /\ self.gone = {} /\ self.todo = {}
    /\ rows' = Stored(self.base, self.mem)
    /\ takers' = TakenBy(self.run, Stored(self.base, self.mem))
    /\ crawler' = [crawler EXCEPT ![w] = Turned([self EXCEPT !.good = @ + 1])]
    /\ UNCHANGED <<runStatus, held, points, overtaken, rebuild, emptied, version, target,
                   changes>>

(* Anything that raises within a page rolls its open transaction back; the *)
(* loop goes on with the next page.                                        *)
InPage(w) == crawler[w].phase \notin {"idle", "discover", "finish"}
PageFails(w) ==
    /\ InPage(w)
    /\ held' = ReleasedBy(w)
    /\ crawler' = [crawler EXCEPT ![w] = Turned(crawler[w])]
    /\ UNCHANGED <<runStatus, rows, points, overtaken, takers, rebuild, emptied, version,
                   target, changes>>

(* PostgreSQL breaks a circle of waiting transactions: one of them fails,  *)
(* and with it that worker's page.                                         *)
Deadlocked(w) ==
    \E S \in SUBSET Workers : w \in S /\ \A u \in S : \E x \in S : Waits(u, x)
BreakDeadlock(w) == Deadlocked(w) /\ PageFails(w)

Verdict(c) ==
    IF c.good = Len(PagesOf[c.run]) /\ ~c.unindexed THEN "success"
    ELSE IF c.good > 0 THEN "partial" ELSE "failed"

FinishRun(w) ==
    /\ crawler[w].phase = "finish"
    /\ runStatus' = [runStatus EXCEPT ![crawler[w].run] = Verdict(crawler[w])]
    /\ crawler' = [crawler EXCEPT ![w] = Asleep]
    /\ UNCHANGED <<held, rows, points, overtaken, takers, rebuild, emptied, version, target,
                   changes>>

(* The process dies: the run stays running and nobody takes it up. *)
WorkerDies(w) ==
    /\ crawler[w].phase # "idle"
    /\ held' = ReleasedBy(w)
    /\ crawler' = [crawler EXCEPT ![w] = Asleep]
    /\ UNCHANGED <<runStatus, rows, points, overtaken, takers, rebuild, emptied, version,
                   target, changes>>

-----------------------------------------------------------------------------
(* The operator: a new chunker version or target, and the rebuild, which   *)
(* runs while no worker does.                                              *)

Reconfigure(v, t) ==
    /\ Quiet /\ v >= version /\ <<v, t>> # <<version, target>> /\ changes < MaxChanges
    /\ version' = v /\ target' = t /\ changes' = changes + 1
    /\ UNCHANGED <<runStatus, held, rows, points, overtaken, takers, crawler, rebuild, emptied>>

StartRebuild(reset) ==
    LET live == {c \in Chunks : Present(c) /\ rows[c].status # "obsolete"} IN
    /\ Quiet /\ live # {} /\ changes < MaxChanges /\ changes' = changes + 1
    /\ points' = IF reset THEN [points EXCEPT ![target] = [c \in Chunks |-> 0]] ELSE points
    /\ emptied' = IF reset THEN emptied \cup {target} ELSE emptied
    /\ rebuild' = [on |-> TRUE, at |-> target, mem |-> [c \in live |-> rows[c]], todo |-> live]
    /\ UNCHANGED <<runStatus, held, rows, takers, crawler, overtaken, version, target>>

RebuildChunk ==
    LET c == CHOOSE x \in rebuild.todo : TRUE
        self == [rebuild EXCEPT !.todo = @ \ {c}]
    IN  /\ rebuild.on /\ rebuild.todo # {}
        /\ \/ /\ Puts(rebuild.at, c, self.mem[c].text)
              /\ rebuild' = [self EXCEPT !.mem[c] = Succeeded(@, rebuild.at)]
           \/ /\ Puts(rebuild.at, c, self.mem[c].text) \/ UNCHANGED <<points, overtaken>>
              /\ rebuild' = [self EXCEPT !.mem[c] = Failed(@)]
        /\ UNCHANGED <<runStatus, held, rows, takers, crawler, emptied, version, target,
                       changes>>

FinishRebuild ==
    /\ rebuild.on /\ rebuild.todo = {}
    /\ rows' = Stored(rows, rebuild.mem)
    /\ emptied' = emptied \ {rebuild.at}
    /\ rebuild' = Dormant
    /\ UNCHANGED <<runStatus, held, points, overtaken, takers, crawler, version, target,
                   changes>>

RebuildDies ==
    /\ rebuild.on /\ rebuild' = Dormant
    /\ UNCHANGED <<runStatus, held, rows, points, overtaken, takers, crawler, emptied, version,
                   target, changes>>

-----------------------------------------------------------------------------
WorkerStep(w) ==
    \/ MarkRunFailed(w) \/ Discover(w) \/ ReadPage(w) \/ NormalizeItem(w) \/ LoadChunks(w)
    \/ ReloadChunks(w) \/ CommitChunks(w) \/ OpenIndexFails(w) \/ OpenIndex(w) \/ DeletePoint(w)
    \/ UpsertChunk(w) \/ SaveIndex(w) \/ BreakDeadlock(w) \/ FinishRun(w)

IndexNext ==
    \/ \E r \in Runs : Trigger(r)
    \/ \E w \in Workers :
          (\E r \in Runs : Claim(w, r)) \/ WorkerStep(w) \/ PageFails(w) \/ WorkerDies(w)
    \/ \E v \in 1 .. LastVersion, t \in Targets : Reconfigure(v, t)
    \/ \E reset \in BOOLEAN : StartRebuild(reset)
    \/ RebuildChunk \/ FinishRebuild \/ RebuildDies

IndexSpec == IndexInit /\ [][IndexNext]_indexVars

(* A process that runs goes on; nobody has to trigger, claim or rebuild.   *)
IndexFairness == \A w \in Workers : WF_indexVars(WorkerStep(w))
FairIndexSpec == IndexSpec /\ IndexFairness

-----------------------------------------------------------------------------
(* Properties. *)

(* Runs, items, rows, points and the processes keep their shapes. *)
IndexTypeOK ==
    /\ runStatus \in [Runs -> {"absent", "queued", "running", "success", "partial", "failed"}]
    /\ held \in [Items -> {{}, {None}} \cup {{w} : w \in Workers}]
    /\ rows \in [Chunks -> Row \cup {None}]
    /\ points \in [Targets -> [Chunks -> 0 .. LastVersion]]
    /\ \A w \in Workers : crawler[w].phase \in Phases /\ crawler[w].run \in Runs \cup {None}
    /\ emptied \subseteq Targets /\ overtaken \subseteq Targets \X Chunks
    /\ takers \in [Runs -> [Chunks -> SUBSET Runs]]
    /\ version \in 1 .. LastVersion /\ target \in Targets

(* A row that says success, and where, has its point there, embedding the  *)
(* text the row now holds: the searches take the row's word for it and no  *)
(* later run would index it again.  Only a rebuild that emptied the        *)
(* collection and has not finished may leave it without, or a worker that  *)
(* deletes the old point of a chunk another has written meanwhile, and     *)
(* fails before it writes it again.                                        *)
SuccessIsFresh ==
    \A c \in Chunks :
        Present(c) /\ rows[c].status = "success" /\ rows[c].meta.at \in Targets \ emptied =>
            \/ points[rows[c].meta.at][c] = rows[c].text
            \/ points[rows[c].meta.at][c] = 0 /\ <<rows[c].meta.at, c>> \in overtaken

(* A run that ends in success leaves the chunks of all its items in the    *)
(* index.  A chunk that is not there was written by another run while this *)
(* one was at work, and has not been indexed since; the verdict of that    *)
(* run is open (for good, if its worker died) or says that it fell short.  *)
SuccessIsEarned ==
    [][\A r \in Runs : runStatus'[r] = "success" /\ runStatus[r] # "success" =>
         \A i \in UNION {ToSet(p) : p \in ToSet(PagesOf[r])} :
            /\ held[i] = {None}
            /\ \A c \in Expected(i, version) :
                 \/ Indexed(rows[c])
                 \/ /\ Present(c)
                    /\ \E q \in takers[r][c] \ {r} :
                          runStatus[q] \in {"running", "partial", "failed"}]_indexVars

(* A worker that runs comes to the end of its run or dies, although the    *)
(* insertions of two workers can wait for each other in a circle.          *)
WorkersFinish == \A w \in Workers : crawler[w].phase # "idle" ~> crawler[w].phase = "idle"

(* Success means indexed: for a row as long as it says so, and for a run   *)
(* at the moment it ends (chunk_indexer.py, runner.py).                    *)
SuccessIsTrue == [](IndexTypeOK /\ SuccessIsFresh) /\ SuccessIsEarned
=============================================================================
