------------------------------ MODULE GuideIndex ------------------------------
(***************************************************************************)
(* The iFixit importer (tools/ifixit_rag/database.py): the import, index   *)
(* and cleanup commands for one guide.  Its chunks are rows of             *)
(* content_chunks with stable ids; the points to delete are kept in the    *)
(* row's metadata (pending_vector_deletions), and the point that is about  *)
(* to be written is committed before the call, because the server may      *)
(* accept a write whose answer is lost.                                    *)
(*                                                                         *)
(* A point's id is its chunk's id, so a target names a point of a chunk.   *)
(***************************************************************************)
EXTENDS VectorTargets, Naturals, Sequences, FiniteSets, SequencesExt

CONSTANTS
    GuideChunks,    \* logical chunk keys of the guide
    Bundles,        \* the versions of the guide, in the order they are prepared:
                    \* a sequence of [GuideChunks -> Nat], the text of a chunk or 0
    MaxCommands     \* bound on the commands the operator gives

ASSUME BundlesAssumption == Bundles \in Seq([GuideChunks -> Nat]) /\ Bundles # <<>>
ASSUME CommandsAssumption == MaxCommands \in Nat

(* content_chunks: the text, embed_status, whether the row names a point,  *)
(* its target, and the outbox. *)
GuideRow == [text : Nat, status : {"pending", "success", "failed", "obsolete"}, named : BOOLEAN,
             at : Targets \cup {None}, pending : SUBSET Targets]

ASSUME NoRowAssumption == None \notin GuideRow

VARIABLES
    imported,   \* the bundle the database holds (content_hash)
    guideRows,  \* content_chunks of the guide
    guidePoints,    \* Qdrant: [Targets -> [GuideChunks -> text or 0]]
    command,    \* the process that holds the importer's advisory lock
    commands,   \* commands given so far
    synced      \* an index command has reported success for what is imported at this target

guideVars == <<imported, guideRows, guidePoints, command, commands, synced>>

Texts == UNION {{b[c] : c \in GuideChunks} : b \in ToSet(Bundles)}
NewGuideRow(x) == [text |-> x, status |-> "pending", named |-> FALSE, at |-> None, pending |-> {}]
Released == [kind |-> "none", at |-> None, todo |-> {}, chunk |-> None, row |-> None,
             keep |-> {}, phase |-> "next", clean |-> TRUE]

GuideInit ==
    /\ imported = 0
    /\ guideRows = [c \in GuideChunks |-> None]
    /\ guidePoints = [t \in Targets |-> [c \in GuideChunks |-> 0]]
    /\ command = Released
    /\ commands = 0
    /\ synced = None

-----------------------------------------------------------------------------
QueueCleanupAnswered(row) ==    \* Mutant: only a point whose upsert was answered is queued.
    IF row.status = "success" THEN row.pending \cup {row.at} ELSE row.pending

(* The outbox of a row: where its point may still be.  A target is in it   *)
(* once; the order in which they are served is left open.                  *)
QueueCleanup(row) ==
    IF row.named THEN row.pending \cup {row.at} ELSE row.pending

(* sync_chunks: a changed or revived row starts again and queues the point *)
(* it had, an unchanged one is left alone, and a row whose key is gone     *)
(* becomes obsolete with its point queued.  The order of the chunks, a     *)
(* column without meaning for the index, is left out.                      *)
Synced(b) ==
    [c \in GuideChunks |->
        LET row == guideRows[c]
            text == Bundles[b][c]
        IN  CASE row = None -> IF text = 0 THEN None ELSE NewGuideRow(text)
              [] row # None /\ text = 0 ->
                    [row EXCEPT !.status = "obsolete", !.pending = QueueCleanup(row)]
              [] row # None /\ text # 0 /\ (text # row.text \/ row.status = "obsolete") ->
                    [row EXCEPT !.text = text, !.status = "pending", !.named = FALSE,
                                !.pending = QueueCleanup(row)]
              [] OTHER -> row]

Given == command.kind = "none" /\ commands < MaxCommands /\ commands' = commands + 1

(* The import of the guide is one transaction: it happens or it does not.  *)
ImportGuide(b) ==
    /\ Given
    /\ imported' = b
    /\ guideRows' = Synced(b)
    /\ synced' = None
    /\ UNCHANGED <<guidePoints, command>>

Held(c) == guideRows[c] # None

(* The bundle must be the one the database holds: index_bundle reports any *)
(* other as a version mismatch and writes nothing.                         *)
StartIndex(t) ==
    /\ Given /\ imported # 0
    /\ command' = [Released EXCEPT !.kind = "index", !.at = t,
                                   !.todo = {c \in GuideChunks : Held(c)}]
    /\ synced' = None
    /\ UNCHANGED <<imported, guideRows, guidePoints>>

Next1(cmd) == [cmd EXCEPT !.phase = "next", !.chunk = None, !.row = None, !.keep = {}]

(* A chunk indexed for another target first commits its point to the       *)
(* outbox.                                                                 *)
TakeChunk ==
    LET c == CHOOSE x \in command.todo : TRUE
        moved == guideRows[c].at # command.at /\ guideRows[c].named
        row == IF moved THEN [guideRows[c] EXCEPT !.pending = QueueCleanup(guideRows[c])]
               ELSE guideRows[c]
    IN  /\ command.kind = "index" /\ command.phase = "next" /\ command.todo # {}
        /\ guideRows' = [guideRows EXCEPT ![c] = row]
        /\ command' = [command EXCEPT !.todo = @ \ {c}, !.chunk = c, !.row = row,
                                      !.phase = "delete"]
        /\ UNCHANGED <<imported, guidePoints, commands, synced>>

(* The error path: the transaction is rolled back and, when indexing, the  *)
(* row is marked failed over what the last commit left.                    *)
ChunkFails(cmd, row) ==
    /\ guideRows' = [guideRows EXCEPT ![cmd.chunk] =
          IF cmd.kind = "cleanup" \/ row.status = "obsolete" THEN row
          ELSE [row EXCEPT !.status = "failed"]]
    /\ command' = Next1([cmd EXCEPT !.clean = FALSE])

Forget(row, t) ==
    IF row.named /\ row.at = t
    THEN [row EXCEPT !.named = FALSE, !.status = IF @ = "success" THEN "pending" ELSE @]
    ELSE row

(* One task of _delete_pending.  The rows' copies in memory are committed  *)
(* only when all tasks of the chunk are done.                              *)
DeletePending(t) ==
    LET row == command.row
        deleted == [guidePoints EXCEPT ![t][command.chunk] = 0]
    IN  /\ command.phase = "delete" /\ t \in row.pending
        /\ \/ /\ StoreOf[t] # StoreOf[command.at]
              /\ ChunkFails(command, guideRows[command.chunk])
              /\ UNCHANGED guidePoints
           \/ /\ StoreOf[t] = StoreOf[command.at]
              /\ guidePoints' = deleted
              /\ command' = [command EXCEPT
                    !.row = [Forget(row, t) EXCEPT !.pending = @ \ {t}]]
              /\ UNCHANGED guideRows
           \/ /\ StoreOf[t] = StoreOf[command.at]
              /\ guidePoints' \in {guidePoints, deleted}
              /\ ChunkFails(command, guideRows[command.chunk])
        /\ UNCHANGED <<imported, commands, synced>>

Emptied(row) == IF row.status = "obsolete" THEN [row EXCEPT !.named = FALSE] ELSE row

CommitDeletions ==
    LET row == Emptied(command.row)
        done == row.status = "obsolete" \/ (row.status = "success" /\ row.at = command.at)
    IN  /\ command.kind = "index" /\ command.phase = "delete" /\ command.row.pending = {}
        /\ guideRows' = [guideRows EXCEPT ![command.chunk] = row]
        /\ command' = IF done THEN Next1(command)
                      ELSE [command EXCEPT !.row = row, !.phase = "intend"]
        /\ UNCHANGED <<imported, guidePoints, commands, synced>>

(* The text may not fit the model's budget; otherwise the intended point   *)
(* is committed before the call.                                           *)
Intend ==
    LET row == [command.row EXCEPT !.status = "pending", !.named = TRUE, !.at = command.at] IN
    /\ command.phase = "intend"
    /\ \/ /\ guideRows' = [guideRows EXCEPT ![command.chunk] = row]
          /\ command' = [command EXCEPT !.row = row, !.phase = "upsert"]
       \/ ChunkFails(command, command.row)
    /\ UNCHANGED <<imported, guidePoints, commands, synced>>

(* The server answers, or it fails before or after it has taken the point. *)
UpsertGuideChunk ==
    LET put == [guidePoints EXCEPT ![command.at][command.chunk] = command.row.text] IN
    /\ command.phase = "upsert"
    /\ \/ /\ guidePoints' = put
          /\ command' = [command EXCEPT !.phase = "record"]
          /\ UNCHANGED guideRows
       \/ /\ guidePoints' \in {guidePoints, put}
          /\ ChunkFails(command, guideRows[command.chunk])
    /\ UNCHANGED <<imported, commands, synced>>

RecordPoint ==
    /\ command.phase = "record"
    /\ guideRows' = [guideRows EXCEPT ![command.chunk] =
          [command.row EXCEPT !.status = "success", !.pending = {}]]
    /\ command' = Next1(command)
    /\ UNCHANGED <<imported, guidePoints, commands, synced>>

ReportIndex ==
    /\ command.kind = "index" /\ command.phase = "next" /\ command.todo = {}
    /\ synced' = IF command.clean THEN command.at ELSE None
    /\ command' = Released
    /\ UNCHANGED <<imported, guideRows, guidePoints, commands>>

-----------------------------------------------------------------------------
(* cleanup consumes the tasks of one server and never writes a point. *)
Matching(row, t) == {x \in row.pending : StoreOf[x] = StoreOf[t]}
Other(row, t) == {x \in row.pending : StoreOf[x] # StoreOf[t]}

StartCleanup(t) ==
    LET due == {c \in GuideChunks : Held(c) /\ Matching(guideRows[c], t) # {}} IN
    /\ Given /\ due # {}
    /\ command' = [Released EXCEPT !.kind = "cleanup", !.at = t, !.todo = due]
    /\ UNCHANGED <<imported, guideRows, guidePoints, synced>>

TakeCleanup ==
    LET c == CHOOSE x \in command.todo : TRUE
        row == guideRows[c]
    IN  /\ command.kind = "cleanup" /\ command.phase = "next" /\ command.todo # {}
        /\ command' = [command EXCEPT !.todo = @ \ {c}, !.chunk = c, !.phase = "delete",
              !.row = [row EXCEPT !.pending = Matching(row, command.at)],
              !.keep = Other(row, command.at)]
        /\ UNCHANGED <<imported, guideRows, guidePoints, commands, synced>>

CommitCleanup ==
    /\ command.kind = "cleanup" /\ command.phase = "delete" /\ command.row.pending = {}
    /\ guideRows' = [guideRows EXCEPT ![command.chunk] =
          [Emptied(command.row) EXCEPT !.pending = command.keep]]
    /\ command' = Next1(command)
    /\ UNCHANGED <<imported, guidePoints, commands, synced>>

ReportCleanup ==
    /\ command.kind = "cleanup" /\ command.phase = "next" /\ command.todo = {}
    /\ command' = Released
    /\ UNCHANGED <<imported, guideRows, guidePoints, commands, synced>>

(* The process dies; the advisory lock goes with its connection. *)
GuideDies ==
    /\ command.kind # "none"
    /\ command' = Released
    /\ UNCHANGED <<imported, guideRows, guidePoints, commands, synced>>

GuideNext ==
    \/ \E b \in 1 .. Len(Bundles) : ImportGuide(b)
    \/ \E t \in Targets : StartIndex(t) \/ StartCleanup(t) \/ DeletePending(t)
    \/ TakeChunk \/ CommitDeletions \/ Intend \/ UpsertGuideChunk
    \/ RecordPoint \/ ReportIndex
    \/ TakeCleanup \/ CommitCleanup \/ ReportCleanup
    \/ GuideDies

GuideSpec == GuideInit /\ [][GuideNext]_guideVars

-----------------------------------------------------------------------------
(* Properties. *)

GuideTypeOK ==
    /\ imported \in 0 .. Len(Bundles)
    /\ \A c \in GuideChunks : Held(c) =>
          /\ guideRows[c].text \in Texts \ {0}
          /\ guideRows[c].at \in Targets \cup {None}
          /\ guideRows[c].named => guideRows[c].at # None
          /\ guideRows[c].pending \subseteq Targets
    /\ \A t \in Targets, c \in GuideChunks : guidePoints[t][c] \in Texts \cup {0}

(* No point is ever forgotten: whatever answer was lost and whenever the   *)
(* process died, the row of a point's chunk names it or has it in its      *)
(* outbox.                                                                 *)
GuidePointsAreKnown ==
    \A t \in Targets, c \in GuideChunks :
        guidePoints[t][c] # 0 =>
            /\ Held(c)
            /\ \/ guideRows[c].named /\ guideRows[c].at = t
               \/ t \in guideRows[c].pending

(* When an index command reports no failure, the index is the guide: its   *)
(* chunks are points of the target with the text the database holds, and   *)
(* no other target holds a point of the guide.  It stays so until the next *)
(* import or index command.                                                *)
SyncedIsTrue ==
    synced # None =>
        \A t \in Targets, c \in GuideChunks :
            guidePoints[t][c] = IF t = synced THEN Bundles[imported][c] ELSE 0

(* What the commands leave of a guide in the stores: every point is known, *)
(* and a command without failures has brought the index to the guide.      *)
GuidesAreSynced == GuideTypeOK /\ GuidePointsAreKnown /\ SyncedIsTrue
=============================================================================
