------------------------------ MODULE ForumIndex ------------------------------
(***************************************************************************)
(* The processing side of a Discourse topic (discourse_process.py,         *)
(* discourse_topics.py): a complete snapshot becomes the state of the      *)
(* topic's posts and generations of chunk rows, the metadata of points     *)
(* already written is brought up to date from a flag kept in the row, and  *)
(* a bounded pass embeds and deletes.  ForumCapture has the queue that     *)
(* decides when a snapshot is processed.                                   *)
(*                                                                         *)
(* A pass runs under the forum's advisory lock, so there is at most one.   *)
(* A row is never re-used for another text: a changed post gets new rows.  *)
(* A post is cut into one chunk here; a long one only repeats the case.    *)
(***************************************************************************)
EXTENDS VectorTargets, Naturals, Sequences, FiniteSets, SequencesExt

CONSTANTS
    Posts, Root,
    PostTexts,      \* a post's text with the context embedded beside it
    Worthless,      \* the texts the filter keeps out of the index
    Metas,          \* provenance the payload carries: author, date, accepted answer ...
    Snapshots,      \* complete snapshots of the topic: the posts that are visible
    MaxRows,        \* bound on the rows of the topic
    Rank,           \* [1 .. MaxRows -> Nat], the order of the rows' random ids
    EmbedLimit, BatchSize,
    MaxFaults       \* bound on crashes and changes of the target

ASSUME RootAssumption == Root \in Posts /\ IsFiniteSet(Posts)
ASSUME PostBoundsAssumption == {MaxRows, MaxFaults} \subseteq Nat
ASSUME LimitAssumption == EmbedLimit \in Nat \ {0} /\ BatchSize \in Nat \ {0}
ASSUME RankAssumption ==
    /\ Rank \in [1 .. MaxRows -> Nat]
    /\ \A r, s \in 1 .. MaxRows : Rank[r] = Rank[s] => r = s
ASSUME PostTextAssumption ==
    /\ None \notin PostTexts /\ None \notin Metas
    /\ None \notin [text : PostTexts, meta : Metas, eligible : BOOLEAN, visible : BOOLEAN]
ASSUME SnapshotAssumption ==
    /\ Snapshots \subseteq [Posts -> [text : PostTexts, meta : Metas] \cup {None}]
    /\ \A snap \in Snapshots : snap[Root] # None

VARIABLES
    posts,      \* metadata_json.posts of the topic's item
    postRows,   \* content_chunks of the item
    payloads,   \* Qdrant: [Targets -> [rows -> the payload of the point, or None]]
    pass,       \* the process that holds the forum's lock
    aim,        \* the target the processes start with
    faults

forumVars == <<posts, postRows, payloads, pass, aim, faults>>

Visible == {p \in Posts : posts[p] # None /\ posts[p].visible}
PostRow(p, x, m) == [post |-> p, text |-> x, meta |-> m, status |-> "pending",
                     named |-> FALSE, at |-> None, flag |-> FALSE]
NoPass == [phase |-> "idle", todo |-> {}, cleared |-> {}]

PostInit ==
    /\ posts = [p \in Posts |-> None]
    /\ postRows = <<>>
    /\ payloads = [t \in Targets |-> [r \in 1 .. MaxRows |-> None]]
    /\ pass = NoPass
    /\ aim \in Targets
    /\ faults = 0

-----------------------------------------------------------------------------
(* One topic: a transaction with the task's status. *)

(* A snapshot gives the visible posts.  The filter judges the topic and    *)
(* then each post: all texts of a rejected topic are worthless.            *)
Eligible(snap, p) == snap[p].text \notin Worthless

Changed(snap, p) ==
    \/ posts[p] = None
    \/ posts[p].text # snap[p].text
    \/ posts[p].eligible # Eligible(snap, p)
    \/ ~posts[p].visible

Judged(snap) ==
    [p \in Posts |->
        IF snap[p] # None
        THEN [text |-> snap[p].text, meta |-> snap[p].meta,
              eligible |-> Eligible(snap, p), visible |-> TRUE]
        ELSE IF posts[p] = None THEN None
        ELSE [posts[p] EXCEPT !.eligible = FALSE, !.visible = FALSE]]

(* A complete snapshot is the proof that a post disappeared. *)
Expired(snap, row) == snap[row.post] = None \/ Changed(snap, row.post)

LaidOutActive(row, meta) ==     \* Mutant: only a row that is still pending is flagged.
    [row EXCEPT !.meta = meta,
                !.flag = @ \/ (row.status = "pending" /\ row.named /\ row.meta # meta)]

(* layout_topic: a row that names a point whose payload is out of date is  *)
(* flagged; the row itself takes the new provenance.                       *)
LaidOut(row, meta) ==
    [row EXCEPT !.meta = meta, !.flag = @ \/ (row.named /\ row.meta # meta)]

Fresh(snap) ==
    SetToSeq({p \in Posts : snap[p] # None /\ Eligible(snap, p) /\ Changed(snap, p)})

ProcessTopic(snap) ==
    LET old == [r \in DOMAIN postRows |->
                  IF Expired(snap, postRows[r])
                  THEN [postRows[r] EXCEPT !.status = "obsolete"] ELSE postRows[r]]
        new == [n \in DOMAIN Fresh(snap) |->
                  LET p == Fresh(snap)[n] IN PostRow(p, snap[p].text, snap[p].meta)]
        now == Judged(snap)
    IN  /\ pass.phase = "topics"
        /\ Len(postRows) + Len(new) <= MaxRows
        /\ posts' = now
        /\ postRows' = [r \in DOMAIN (old \o new) |->
              LaidOut((old \o new)[r], now[(old \o new)[r].post].meta)]
        /\ UNCHANGED <<payloads, pass, aim, faults>>

BeginPass ==
    /\ pass.phase = "idle"
    /\ pass' = [NoPass EXCEPT !.phase = "topics"]
    /\ UNCHANGED <<posts, postRows, payloads, aim, faults>>

-----------------------------------------------------------------------------
(* The payload outbox. *)

(* ORDER BY id LIMIT n *)
Before(r, S) == {q \in S : Rank[q] < Rank[r]}
FirstRows(S, n) == {r \in S : Cardinality(Before(r, S)) < n}

(* The flagged rows that name a point of this server, in batches for each  *)
(* collection; a row of another server counts as failed and stays flagged. *)
Batches(window) ==
    LET here(t) == {r \in window : postRows[r].named /\ postRows[r].at = t
                                                      /\ StoreOf[t] = StoreOf[aim]}
        batch(t, k) == {r \in here(t) : Cardinality(Before(r, here(t))) \div BatchSize = k}
    IN  {batch(t, k) : t \in Targets, k \in 0 .. MaxRows} \ {{}}

StartPayloads ==
    LET window == FirstRows({r \in DOMAIN postRows : postRows[r].flag}, EmbedLimit) IN
    /\ pass.phase = "topics"
    /\ pass' = [phase |-> "payloads", todo |-> Batches(window),
                cleared |-> {r \in window : ~postRows[r].named}]
    /\ UNCHANGED <<posts, postRows, payloads, aim, faults>>

Unflagged(S) == [r \in DOMAIN postRows |->
                    IF r \in S THEN [postRows[r] EXCEPT !.flag = FALSE] ELSE postRows[r]]
Updated(S) == [t \in Targets |-> [r \in 1 .. MaxRows |->
                  IF r \in S /\ postRows[r].at = t THEN postRows[r].meta ELSE payloads[t][r]]]

(* One batch: if every point is there the payloads are written, the flags  *)
(* cleared and committed.                                                  *)
WriteBatch(batch) ==
    /\ pass.phase = "payloads" /\ batch \in pass.todo
    /\ \A r \in batch : payloads[postRows[r].at][r] # None
    /\ payloads' = Updated(batch)
    /\ postRows' = Unflagged(batch \cup pass.cleared)
    /\ pass' = [pass EXCEPT !.todo = @ \ {batch}, !.cleared = {}]
    /\ UNCHANGED <<posts, aim, faults>>

(* A point is missing, or the call fails after some of the updates were    *)
(* applied: rolled back, with the flags of rows without a point that were  *)
(* cleared in memory.                                                      *)
BatchFails(batch) ==
    /\ pass.phase = "payloads" /\ batch \in pass.todo
    /\ \E done \in SUBSET {r \in batch : payloads[postRows[r].at][r] # None} :
          payloads' = Updated(done)
    /\ pass' = [pass EXCEPT !.todo = @ \ {batch}, !.cleared = {}]
    /\ UNCHANGED <<posts, postRows, aim, faults>>

-----------------------------------------------------------------------------
(* The embedding pass. *)

OwedOnce(row) == row.status = "pending" \/ (row.status = "obsolete" /\ row.named)
    \* Mutant of Owed: a failed chunk is not taken up again.

Owed(row) == row.status \in {"pending", "failed"} \/ (row.status = "obsolete" /\ row.named)

(* The payload outbox is committed; with --embed the window is taken next. *)
StartEmbedding ==
    LET window == FirstRows({r \in DOMAIN postRows : Owed(postRows[r])}, EmbedLimit) IN
    /\ pass.phase = "payloads" /\ pass.todo = {}
    /\ postRows' = Unflagged(pass.cleared)
    /\ pass' = [phase |-> IF window = {} THEN "idle" ELSE "open", todo |-> window, cleared |-> {}]
    /\ UNCHANGED <<posts, payloads, aim, faults>>

EndWithoutEmbedding ==
    /\ pass.phase = "payloads" /\ pass.todo = {}
    /\ postRows' = Unflagged(pass.cleared)
    /\ pass' = NoPass
    /\ UNCHANGED <<posts, payloads, aim, faults>>

(* _mark_failed clears the ids, also of a point the server did take. *)
MarkFailed(row) ==
    IF row.status = "obsolete" THEN row ELSE [row EXCEPT !.status = "failed", !.named = FALSE]

OpenPoints ==
    /\ pass.phase = "open"
    /\ pass' = [pass EXCEPT !.phase = "embed"]
    /\ UNCHANGED <<posts, postRows, payloads, aim, faults>>

OpenPointsFails ==
    /\ pass.phase = "open"
    /\ postRows' = [r \in DOMAIN postRows |->
          IF r \in pass.todo THEN MarkFailed(postRows[r]) ELSE postRows[r]]
    /\ pass' = NoPass
    /\ UNCHANGED <<posts, payloads, aim, faults>>

(* The rows of the window in the order of their ids, a commit after each.  *)
TakeRow(r) ==
    /\ pass.phase = "embed" /\ r \in pass.todo /\ Before(r, pass.todo) = {}
    /\ pass' = [pass EXCEPT !.todo = @ \ {r}, !.phase = IF pass.todo = {r} THEN "idle" ELSE @]
    /\ UNCHANGED <<posts, aim, faults>>

Foreign(row) == StoreOf[row.at] # StoreOf[aim]

DeleteExpired(r) ==
    LET row == postRows[r] IN
    /\ TakeRow(r) /\ row.status = "obsolete" /\ ~Foreign(row)
    /\ payloads' = [payloads EXCEPT ![row.at][r] = None]
    /\ postRows' = [postRows EXCEPT ![r].named = FALSE]

(* A topic with no eligible post left has nothing to embed. *)
EmbedRow(r) ==
    LET row == postRows[r] IN
    /\ TakeRow(r) /\ row.status # "obsolete"
    /\ IF \E p \in Visible : posts[p].eligible
       THEN /\ payloads' = [payloads EXCEPT ![aim][r] = row.meta]
            /\ postRows' = [postRows EXCEPT ![r].status = "success", ![r].named = TRUE,
                                            ![r].at = aim]
       ELSE /\ postRows' = [postRows EXCEPT ![r].status = "obsolete"]
            /\ UNCHANGED payloads

(* A point of another server, or a call that fails before or after the     *)
(* server has done it.                                                     *)
RowFails(r) ==
    LET row == postRows[r] IN
    /\ TakeRow(r)
    /\ postRows' = [postRows EXCEPT ![r] = MarkFailed(row)]
    /\ payloads' \in {payloads} \cup
          (IF row.status # "obsolete" THEN {[payloads EXCEPT ![aim][r] = row.meta]}
           ELSE IF Foreign(row) THEN {} ELSE {[payloads EXCEPT ![row.at][r] = None]})

PassDies ==
    /\ pass.phase # "idle" /\ faults < MaxFaults /\ faults' = faults + 1
    /\ pass' = NoPass
    /\ UNCHANGED <<posts, postRows, payloads, aim>>

Retarget(t) ==
    /\ pass.phase = "idle" /\ t # aim /\ faults < MaxFaults /\ faults' = faults + 1
    /\ aim' = t
    /\ UNCHANGED <<posts, postRows, payloads, pass>>

-----------------------------------------------------------------------------
PassStep ==
    \/ StartPayloads
    \/ \E batch \in pass.todo : WriteBatch(batch) \/ BatchFails(batch)
    \/ StartEmbedding \/ EndWithoutEmbedding
    \/ OpenPoints \/ OpenPointsFails
    \/ \E r \in 1 .. MaxRows : DeleteExpired(r) \/ EmbedRow(r) \/ RowFails(r)

PostNext ==
    \/ BeginPass
    \/ \E snap \in Snapshots : ProcessTopic(snap)
    \/ PassStep
    \/ PassDies
    \/ \E t \in Targets : Retarget(t)

PostSpec == PostInit /\ [][PostNext]_forumVars

(* The timer starts pass after pass and passes --embed often enough; the   *)
(* services recover, so that a call that is tried again and again succeeds.*)
PostFairness ==
    /\ WF_forumVars(BeginPass) /\ WF_forumVars(PassStep)
    /\ SF_forumVars(StartEmbedding) /\ SF_forumVars(OpenPoints)
    /\ \A r \in 1 .. MaxRows : SF_forumVars(EmbedRow(r)) /\ SF_forumVars(DeleteExpired(r))
FairPostSpec == PostSpec /\ PostFairness

-----------------------------------------------------------------------------
(* Properties. *)

(* Posts, rows, points and the pass keep their shapes. *)
PostTypeOK ==
    /\ \A p \in Posts : posts[p] # None =>
          posts[p].text \in PostTexts /\ posts[p].meta \in Metas
            /\ (posts[p].eligible => posts[p].visible)
    /\ \A r \in DOMAIN postRows :
          /\ postRows[r].status \in {"pending", "success", "failed", "obsolete"}
          /\ postRows[r].at \in Targets \cup {None}
          /\ postRows[r].named => postRows[r].at # None
    /\ payloads \in [Targets -> [1 .. MaxRows -> Metas \cup {None}]]

(* What the index holds for an active chunk is the text and provenance of  *)
(* a post that is visible and eligible, unless the row is flagged: then    *)
(* the next pass brings the payload up to date.  No lost answer, rolled    *)
(* back batch or crash between a call and its commit loses an update.      *)
PayloadIsCurrent ==
    \A r \in DOMAIN postRows : postRows[r].status = "success" =>
        LET row == postRows[r] IN
        /\ posts[row.post].visible /\ posts[row.post].eligible
        /\ posts[row.post].text = row.text
        /\ payloads[row.at][r] = posts[row.post].meta
             \/ (row.flag /\ payloads[row.at][r] # None)

(* The bounded pass does not starve: as long as the rows that cannot       *)
(* succeed (obsolete ones whose point is on another server) are fewer than *)
(* the window, every chunk that waits is embedded or retired in the end.   *)
Stranded == {r \in DOMAIN postRows : postRows[r].status = "obsolete" /\ postRows[r].named
                                        /\ Foreign(postRows[r])}
Waiting(r) == r \in DOMAIN postRows /\ postRows[r].status \in {"pending", "failed"}
EmbeddingCatchesUp ==
    <>[](Cardinality(Stranded) < EmbedLimit) =>
        \A r \in 1 .. MaxRows : Waiting(r) ~> ~Waiting(r)

(* What the passes leave: rows in their shapes and current payloads. *)
PostsAreCurrent == PostTypeOK /\ PayloadIsCurrent
=============================================================================
