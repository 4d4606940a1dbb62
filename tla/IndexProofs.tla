---------------------------- MODULE IndexProofs -----------------------------
(***************************************************************************)
(* What the commands of the iFixit importer, the document importer and the *)
(* forum's passes leave in PostgreSQL and Qdrant, for all targets, chunks  *)
(* and versions, any manuals, processings and posts, and any number of     *)
(* commands, lost answers and deaths; and how the cutters cut every text   *)
(* and every list of units.                                                *)
(***************************************************************************)
EXTENDS GuideIndex, DroneIndex, ForumIndex, TextCutting, FiniteSetTheorems, SequenceTheorems, TLAPS

-----------------------------------------------------------------------------
WellFormed(row) ==
    /\ row \in GuideRow /\ row.text \in Texts \ {0}
    /\ row.named => row.at \in Targets
    /\ row.status = "success" => row.named

RowsOK ==
    /\ guideRows \in [GuideChunks -> GuideRow \cup {None}]
    /\ guidePoints \in [Targets -> [GuideChunks -> Texts \cup {0}]]
    /\ imported \in 0 .. Len(Bundles)
    /\ \A c \in GuideChunks : Held(c) => WellFormed(guideRows[c])

(* A row, with what is kept beside it, tells where the chunk's points are. *)
Locates(row, c, kept) ==
    /\ \A t \in Targets : guidePoints[t][c] # 0 =>
          (row.named /\ row.at = t) \/ t \in row.pending \cup kept
    /\ row.status = "obsolete" /\ row.named => row.at \in row.pending \cup kept
    /\ row.status = "success" /\ row.at \notin row.pending \cup kept =>
          guidePoints[row.at][c] = row.text

PointsAreLocated ==
    \A c \in GuideChunks :
        IF Held(c) THEN Locates(guideRows[c], c, {}) ELSE \A t \in Targets : guidePoints[t][c] = 0

(* Rows that are not obsolete hold the texts of the imported bundle. *)
RowsAreImported ==
    \A c \in GuideChunks :
        IF Held(c) /\ guideRows[c].status # "obsolete"
        THEN imported # 0 /\ guideRows[c].text = Bundles[imported][c]
        ELSE imported # 0 => Bundles[imported][c] = 0

CommandOK ==
    /\ command \in [kind : {"none", "index", "cleanup"}, at : Targets \cup {None},
                    todo : SUBSET GuideChunks, chunk : GuideChunks \cup {None},
                    row : GuideRow \cup {None}, keep : SUBSET Targets,
                    phase : {"next", "delete", "intend", "upsert", "record"}, clean : BOOLEAN]
    /\ command.kind = "none" => command.phase = "next" /\ command.todo = {}
    /\ command.phase = "next" => command.keep = {}
    /\ command.kind # "none" => command.at \in Targets
    /\ command.kind = "index" => imported # 0
    /\ \A c \in command.todo : Held(c)

(* The copy of a row that is being worked on: what it has forgotten is     *)
(* deleted, and what the committed row knows is more.                      *)
Holding(cmd, old) ==
    /\ cmd.chunk \in GuideChunks \ cmd.todo /\ old # None
    /\ WellFormed(cmd.row) /\ cmd.row.text = old.text
    /\ cmd.row.status = "obsolete" <=> old.status = "obsolete"
    /\ cmd.row.pending \cup cmd.keep \subseteq old.pending
    /\ cmd.kind = "index" =>
          cmd.keep = {} /\ (cmd.row.named /\ cmd.row.at # cmd.at => cmd.row.at \in cmd.row.pending)
    /\ cmd.phase # "delete" =>
          cmd.kind = "index" /\ cmd.row.pending = {} /\ cmd.row.status # "obsolete" /\ old = cmd.row
    /\ cmd.phase \in {"upsert", "record"} =>
          cmd.row.named /\ cmd.row.at = cmd.at /\ cmd.row.status = "pending"
ChunkIsHeld ==
    command.phase # "next" =>
        /\ Holding(command, guideRows[command.chunk])
        /\ Locates(command.row, command.chunk, command.keep)
        /\ command.phase = "record" => guidePoints[command.at][command.chunk] = command.row.text

(* The chunk's only point is the one of the bundle's text at the target. *)
Settled(c, target) ==
    /\ \A t \in Targets : guidePoints[t][c] = IF t = target THEN Bundles[imported][c] ELSE 0
    /\ Held(c) => guideRows[c].pending = {}
PassedAreSettled ==
    command.kind = "index" /\ command.clean =>
        \A c \in GuideChunks \ command.todo :
            command.phase = "next" \/ c # command.chunk => Settled(c, command.at)
SyncedIsSettled ==
    /\ synced \in Targets \cup {None}
    /\ synced # None => /\ command.kind = "none" /\ imported # 0
                        /\ \A c \in GuideChunks : Settled(c, synced)

StoresOK == RowsOK /\ PointsAreLocated /\ RowsAreImported
IInv == StoresOK /\ CommandOK /\ ChunkIsHeld /\ PassedAreSettled /\ SyncedIsSettled

-----------------------------------------------------------------------------
LEMMA BundleTexts ==
    ASSUME NEW b \in 1 .. Len(Bundles), NEW c \in GuideChunks
    PROVE  Bundles[b][c] \in Texts /\ Bundles[b][c] \in Nat
<1>1. Bundles[b] \in [GuideChunks -> Nat] /\ Bundles[b] \in ToSet(Bundles)
  BY BundlesAssumption DEF ToSet
<1> QED
  BY <1>1 DEF Texts

LEMMA ReleasedShape ==
    /\ Released.kind = "none" /\ Released.phase = "next" /\ Released.todo = {}
    /\ Released.keep = {} /\ Released.row = None /\ Released.chunk = None /\ Released.at = None
    /\ Released.clean = TRUE
  BY DEF Released

LEMMA InitIInv == GuideInit => IInv
<1> SUFFICES ASSUME GuideInit PROVE IInv
  OBVIOUS
<1>1. StoresOK
  BY BundlesAssumption, NoRowAssumption
  DEF GuideInit, StoresOK, RowsOK, PointsAreLocated, RowsAreImported, Held
<1>2. CommandOK /\ ChunkIsHeld /\ PassedAreSettled
  BY DEF GuideInit, CommandOK, ChunkIsHeld, PassedAreSettled, Released
<1>3. SyncedIsSettled
  BY DEF GuideInit, SyncedIsSettled
<1> QED
  BY <1>1, <1>2, <1>3 DEF IInv

-----------------------------------------------------------------------------
(* A step that touches one chunk. *)
Touches(c) ==
    /\ guideRows' \in [GuideChunks -> GuideRow \cup {None}]
    /\ guidePoints' \in [Targets -> [GuideChunks -> Texts \cup {0}]]
    /\ \A d \in GuideChunks \ {c} :
          guideRows'[d] = guideRows[d] /\ \A t \in Targets : guidePoints'[t][d] = guidePoints[t][d]
    /\ imported' = imported /\ synced' = synced

(* It keeps the stores in order when the chunk's row keeps its text and    *)
(* still tells where the points are.                                       *)
LEMMA TouchedStores ==
    ASSUME IInv, NEW c \in GuideChunks, Held(c), Touches(c),
           WellFormed(guideRows'[c]), guideRows'[c].text = guideRows[c].text,
           guideRows'[c].status = "obsolete" <=> guideRows[c].status = "obsolete",
           Locates(guideRows[c], c, {})'
    PROVE  StoresOK' /\ \A d \in GuideChunks : Held(d)' = Held(d)
<1> USE DEF IInv, StoresOK
<1>1. guideRows'[c] # None
  BY NoRowAssumption DEF WellFormed
<1>2. \A d \in GuideChunks : Held(d)' = Held(d)
  BY <1>1 DEF Touches, Held
<1>3. RowsOK'
  BY <1>2 DEF RowsOK, Touches
<1>4. PointsAreLocated'
  <2>1. ASSUME NEW d \in GuideChunks \ {c}, Held(d) PROVE Locates(guideRows[d], d, {})'
    BY <2>1 DEF PointsAreLocated, Touches, Locates, RowsOK, WellFormed
  <2>2. ASSUME NEW d \in GuideChunks \ {c}, ~Held(d), NEW t \in Targets PROVE guidePoints'[t][d] = 0
    BY <2>2 DEF PointsAreLocated, Touches
  <2> QED
    BY <1>1, <1>2, <2>1, <2>2 DEF PointsAreLocated
<1>5. RowsAreImported'
  BY <1>2 DEF RowsAreImported, Touches
<1> QED
  BY <1>2, <1>3, <1>4, <1>5

(* The work on a chunk ends; without a failure the chunk is settled. *)
LEMMA ChunkEnds ==
    ASSUME IInv, NEW c \in GuideChunks, c = command.chunk, Held(c), Touches(c),
           command.phase # "next",
           WellFormed(guideRows'[c]), guideRows'[c].text = guideRows[c].text,
           guideRows'[c].status = "obsolete" <=> guideRows[c].status = "obsolete",
           Locates(guideRows[c], c, {})',
           NEW clean \in BOOLEAN, command' = Next1([command EXCEPT !.clean = clean]),
           clean => command.clean,
           clean /\ command.kind = "index" => Settled(c, command.at)'
    PROVE  IInv'
<1>1. StoresOK' /\ \A d \in GuideChunks : Held(d)' = Held(d)
  BY TouchedStores
<1>2. /\ command'.kind = command.kind /\ command'.at = command.at /\ command'.todo = command.todo
      /\ command'.phase = "next" /\ command'.clean = clean /\ CommandOK'
  BY <1>1 DEF IInv, CommandOK, Next1, Touches
<1>3. ChunkIsHeld'
  BY <1>2 DEF ChunkIsHeld
<1>4. PassedAreSettled'
  <2>1. ASSUME NEW d \in GuideChunks \ {c}, Settled(d, command.at) PROVE Settled(d, command.at)'
    BY <1>1, <1>2, <2>1 DEF Settled, Touches
  <2>2. ASSUME NEW d \in GuideChunks \ command.todo, clean, command.kind = "index"
        PROVE  Settled(d, command.at)'
    BY <2>1, <2>2 DEF IInv, PassedAreSettled
  <2> QED
    BY <1>2, <2>2 DEF PassedAreSettled
<1>5. SyncedIsSettled'
  BY <1>2 DEF IInv, SyncedIsSettled, Touches, CommandOK
<1> QED
  BY <1>1, <1>2, <1>3, <1>4, <1>5 DEF IInv

(* The work on a chunk goes on. *)
LEMMA ChunkGoesOn ==
    ASSUME IInv, NEW c \in GuideChunks, c = command.chunk, Held(c), Touches(c),
           command.phase # "next",
           WellFormed(guideRows'[c]), guideRows'[c].text = guideRows[c].text,
           guideRows'[c].status = "obsolete" <=> guideRows[c].status = "obsolete",
           Locates(guideRows[c], c, {})',
           NEW row \in GuideRow, NEW phase \in {"delete", "intend", "upsert", "record"},
           command' = [command EXCEPT !.row = row, !.phase = phase],
           Holding(command', guideRows'[c]), Locates(row, c, command.keep)',
           phase = "record" => guidePoints'[command.at][c] = row.text
    PROVE  IInv'
<1>1. StoresOK' /\ \A d \in GuideChunks : Held(d)' = Held(d)
  BY TouchedStores
<1>2. /\ command'.kind = command.kind /\ command'.at = command.at /\ command'.todo = command.todo
      /\ command'.phase = phase /\ command'.clean = command.clean /\ command'.chunk = c
      /\ command'.row = row /\ command'.keep = command.keep
      /\ command' \in [kind : {"none", "index", "cleanup"}, at : Targets \cup {None},
                    todo : SUBSET GuideChunks, chunk : GuideChunks \cup {None},
                    row : GuideRow \cup {None}, keep : SUBSET Targets,
                    phase : {"next", "delete", "intend", "upsert", "record"}, clean : BOOLEAN]
  BY DEF IInv, CommandOK
<1>3. CommandOK'
  BY <1>1, <1>2 DEF IInv, CommandOK, Touches
<1>4. ChunkIsHeld'
  BY <1>2 DEF ChunkIsHeld, Locates
<1>5. PassedAreSettled'
  BY <1>1, <1>2 DEF IInv, PassedAreSettled, Settled, Touches
<1>6. SyncedIsSettled'
  BY <1>2 DEF IInv, SyncedIsSettled, Touches, CommandOK
<1> QED
  BY <1>1, <1>3, <1>4, <1>5, <1>6 DEF IInv

(* What is known while a chunk is worked on. *)
LEMMA HeldFacts ==
    ASSUME IInv, command.phase # "next"
    PROVE  /\ command.chunk \in GuideChunks /\ Held(command.chunk)
           /\ WellFormed(guideRows[command.chunk])
           /\ Locates(guideRows[command.chunk], command.chunk, {})
           /\ Holding(command, guideRows[command.chunk])
           /\ Locates(command.row, command.chunk, command.keep)
           /\ command.at \in Targets /\ command.kind \in {"index", "cleanup"}
           /\ command.row \in GuideRow
           /\ command.kind = "index" => imported # 0
  BY DEF IInv, StoresOK, RowsOK, PointsAreLocated, ChunkIsHeld, Holding, Held, CommandOK, WellFormed

(* A failed chunk keeps a row that knows its points. *)
LEMMA FailedChunk ==
    ASSUME IInv, command.phase # "next", NEW c \in GuideChunks, c = command.chunk,
           NEW row \in GuideRow, WellFormed(row), row.text = guideRows[c].text,
           row.status = "obsolete" <=> guideRows[c].status = "obsolete",
           ChunkFails(command, row), Locates(row, c, {})',
           guidePoints' \in [Targets -> [GuideChunks -> Texts \cup {0}]],
           \A d \in GuideChunks \ {c}, t \in Targets : guidePoints'[t][d] = guidePoints[t][d],
           UNCHANGED <<imported, synced>>
    PROVE  IInv'
<1>1. Held(c)
  BY HeldFacts
<1>2. PICK kept : kept = IF command.kind = "cleanup" \/ row.status = "obsolete" THEN row
                         ELSE [row EXCEPT !.status = "failed"]
  OBVIOUS
<1>3. /\ guideRows' = [guideRows EXCEPT ![c] = kept]
      /\ command' = Next1([command EXCEPT !.clean = FALSE])
  BY <1>2 DEF ChunkFails
<1>4. /\ kept \in GuideRow /\ WellFormed(kept) /\ kept.text = row.text
      /\ kept.status = "obsolete" <=> row.status = "obsolete"
      /\ kept.named = row.named /\ kept.at = row.at /\ kept.pending = row.pending
      /\ kept.status \in {row.status, "failed"}
  BY <1>2 DEF WellFormed, GuideRow
<1>5. guideRows'[c] = kept /\ Touches(c)
  BY <1>3, <1>4 DEF Touches, IInv, StoresOK, RowsOK
<1>6. Locates(guideRows[c], c, {})'
  BY <1>4, <1>5 DEF Locates
<1>7. /\ WellFormed(guideRows'[c]) /\ guideRows'[c].text = guideRows[c].text
      /\ guideRows'[c].status = "obsolete" <=> guideRows[c].status = "obsolete"
  BY <1>4, <1>5
<1> QED
  BY <1>1, <1>3, <1>5, <1>6, <1>7, ChunkEnds

-----------------------------------------------------------------------------
(* sync_chunks: a row that loses its text or gets another queues the point *)
(* it had.                                                                 *)
LEMMA SyncedRow ==
    ASSUME IInv, NEW b \in 1 .. Len(Bundles), NEW c \in GuideChunks
    PROVE  LET row == Synced(b)[c] IN
           /\ row \in GuideRow \cup {None}
           /\ Bundles[b][c] # 0 => row # None /\ row.status # "obsolete" /\ row.text = Bundles[b][c]
           /\ Bundles[b][c] = 0 => row = None \/ row.status = "obsolete"
           /\ row # None => WellFormed(row) /\ Locates(row, c, {})
           /\ row = None => \A t \in Targets : guidePoints[t][c] = 0
<1> DEFINE row == guideRows[c]
           content == Bundles[b][c]
<1>1. /\ row \in GuideRow \cup {None} /\ content \in Texts /\ content \in Nat
      /\ row # None => WellFormed(row) /\ Locates(row, c, {})
      /\ row = None => \A t \in Targets : guidePoints[t][c] = 0
  BY BundleTexts DEF IInv, StoresOK, RowsOK, PointsAreLocated, Held
<1>2. CASE row = None /\ content = 0
  <2>1. Synced(b)[c] = None
    BY <1>2 DEF Synced
  <2> QED
    BY <1>1, <1>2, <2>1
<1>3. CASE row = None /\ content # 0
  <2>1. Synced(b)[c] = [text |-> content, status |-> "pending", named |-> FALSE, at |-> None,
                        pending |-> {}]
    BY <1>3 DEF Synced, NewGuideRow
  <2>2. Synced(b)[c] \in GuideRow /\ Synced(b)[c] # None
    <3>1. [text |-> content, status |-> "pending", named |-> FALSE, at |-> None, pending |-> {}]
             \in GuideRow
      BY <1>1 DEF GuideRow
    <3> QED
      BY <2>1, <3>1, NoRowAssumption
  <2> QED
    BY <1>1, <1>3, <2>1, <2>2 DEF WellFormed, Locates
<1>4. CASE row # None /\ content = 0
  <2>1. Synced(b)[c] = [row EXCEPT !.status = "obsolete", !.pending = QueueCleanup(row)]
    BY <1>4 DEF Synced
  <2>2. row \in GuideRow /\ QueueCleanup(row) \subseteq Targets
    BY <1>1, <1>4 DEF WellFormed, QueueCleanup, GuideRow
  <2>4. /\ Synced(b)[c].text = row.text /\ Synced(b)[c].named = row.named /\ Synced(b)[c].at = row.at
        /\ Synced(b)[c].status = "obsolete" /\ Synced(b)[c].pending = QueueCleanup(row)
    BY <2>1, <2>2 DEF GuideRow
  <2>3. Synced(b)[c] \in GuideRow /\ Synced(b)[c] # None
    <3>1. [row EXCEPT !.status = "obsolete"] \in GuideRow
      BY <2>2 DEF GuideRow
    <3>2. [[row EXCEPT !.status = "obsolete"] EXCEPT !.pending = QueueCleanup(row)] \in GuideRow
      BY <2>2, <3>1 DEF GuideRow
    <3> QED
      BY <2>1, <3>2, NoRowAssumption
  <2>5. WellFormed(Synced(b)[c])
    BY <1>1, <1>4, <2>3, <2>4 DEF WellFormed
  <2>6. row.pending \subseteq QueueCleanup(row) /\ (row.named => row.at \in QueueCleanup(row))
    BY <1>1, <1>4 DEF WellFormed, QueueCleanup
  <2>7. Locates(Synced(b)[c], c, {})
    BY <1>1, <1>4, <2>4, <2>6 DEF Locates
  <2> QED
    BY <1>4, <2>3, <2>4, <2>5, <2>7
<1>5. CASE row # None /\ content # 0 /\ (content # row.text \/ row.status = "obsolete")
  <2>1. Synced(b)[c] = [row EXCEPT !.text = content, !.status = "pending", !.named = FALSE,
                                   !.pending = QueueCleanup(row)]
    BY <1>5 DEF Synced
  <2>2. row \in GuideRow /\ QueueCleanup(row) \subseteq Targets
    BY <1>1, <1>5 DEF WellFormed, QueueCleanup, GuideRow
  <2>3. Synced(b)[c] \in GuideRow /\ Synced(b)[c] # None
    <3>1. [row EXCEPT !.text = content, !.status = "pending", !.named = FALSE,
                      !.pending = QueueCleanup(row)] \in GuideRow
      BY <1>1, <2>2 DEF GuideRow
    <3> QED
      BY <2>1, <3>1, NoRowAssumption
  <2>4. /\ Synced(b)[c].text = content /\ ~Synced(b)[c].named /\ Synced(b)[c].status = "pending"
        /\ Synced(b)[c].pending = QueueCleanup(row)
    BY <2>1, <2>2 DEF GuideRow
  <2>5. WellFormed(Synced(b)[c]) /\ Locates(Synced(b)[c], c, {})
    BY <1>1, <1>5, <2>3, <2>4 DEF WellFormed, Locates, QueueCleanup
  <2> QED
    BY <1>5, <2>3, <2>4, <2>5
<1>6. CASE row # None /\ content # 0 /\ content = row.text /\ row.status # "obsolete"
  <2>1. Synced(b)[c] = row
    BY <1>6 DEF Synced
  <2> QED
    BY <1>1, <1>6, <2>1
<1> QED
  BY <1>2, <1>3, <1>4, <1>5, <1>6

LEMMA ImportStep == ASSUME IInv, NEW b \in 1 .. Len(Bundles), ImportGuide(b) PROVE IInv'
<1>1. /\ command.kind = "none" /\ command.phase = "next" /\ UNCHANGED <<guidePoints, command>>
      /\ guideRows' = Synced(b) /\ imported' = b /\ synced' = None
  BY DEF ImportGuide, Given, IInv, CommandOK
<1>2. \A c \in GuideChunks : guideRows'[c] = Synced(b)[c]
  BY <1>1
<1>3. RowsOK'
  <2>1. guideRows' = [c \in GuideChunks |-> guideRows'[c]]
    BY <1>1 DEF Synced
  <2>2. \A c \in GuideChunks : guideRows'[c] \in GuideRow \cup {None}
    BY <1>2, SyncedRow
  <2>3. guideRows' \in [GuideChunks -> GuideRow \cup {None}]
    BY <2>1, <2>2
  <2>4. \A c \in GuideChunks : Held(c)' => WellFormed(guideRows'[c])
    BY <1>2, SyncedRow DEF Held
  <2> QED
    BY <1>1, <2>3, <2>4 DEF RowsOK, IInv, StoresOK
<1>4. PointsAreLocated'
  <2>1. \A c \in GuideChunks : Held(c)' => Locates(Synced(b)[c], c, {})
    BY <1>2, SyncedRow DEF Held
  <2>2. \A c \in GuideChunks : ~Held(c)' => \A t \in Targets : guidePoints[t][c] = 0
    BY <1>2, SyncedRow DEF Held
  <2> QED
    BY <1>1, <1>2, <2>1, <2>2 DEF PointsAreLocated, Locates
<1>5. RowsAreImported'
  <2>1. ASSUME NEW c \in GuideChunks
        PROVE  IF Held(c)' /\ guideRows'[c].status # "obsolete"
               THEN guideRows'[c].text = Bundles[b][c] ELSE Bundles[b][c] = 0
    BY <1>2, SyncedRow DEF Held
  <2> QED
    BY <1>1, <2>1 DEF RowsAreImported
<1>6. CommandOK' /\ ChunkIsHeld' /\ PassedAreSettled' /\ SyncedIsSettled'
  BY <1>1 DEF IInv, CommandOK, ChunkIsHeld, PassedAreSettled, SyncedIsSettled, Held
<1> QED
  BY <1>3, <1>4, <1>5, <1>6 DEF IInv, StoresOK

-----------------------------------------------------------------------------
(* The commands begin and end. *)

(* A chunk without a row has no points and no text to index. *)
LEMMA Unheld ==
    ASSUME IInv, imported # 0, NEW c \in GuideChunks, ~Held(c), NEW target
    PROVE  Settled(c, target)
  BY DEF IInv, StoresOK, PointsAreLocated, RowsAreImported, Settled

LEMMA StoresStay ==
    ASSUME IInv, UNCHANGED <<imported, guideRows, guidePoints>>
    PROVE  /\ StoresOK' /\ \A c \in GuideChunks : Held(c)' = Held(c)
           /\ \A c \in GuideChunks, t \in Targets : Settled(c, t) => Settled(c, t)'
  BY DEF IInv, StoresOK, RowsOK, PointsAreLocated, Locates, RowsAreImported, Held, Settled

LEMMA StartIndexStep == ASSUME IInv, NEW t \in Targets, StartIndex(t) PROVE IInv'
<1>1. /\ imported # 0 /\ synced' = None /\ UNCHANGED <<imported, guideRows, guidePoints>>
      /\ command' = [Released EXCEPT !.kind = "index", !.at = t,
                                     !.todo = {c \in GuideChunks : Held(c)}]
  BY DEF StartIndex, Given
<1>2. /\ command'.kind = "index" /\ command'.at = t /\ command'.todo = {c \in GuideChunks : Held(c)}
      /\ command'.phase = "next" /\ CommandOK'
  BY <1>1, StoresStay DEF Released, CommandOK
<1>3. PassedAreSettled'
  <2>1. \A c \in GuideChunks \ command'.todo : Settled(c, t)'
    BY <1>1, <1>2, Unheld, StoresStay
  <2> QED
    BY <1>2, <2>1 DEF PassedAreSettled
<1> QED
  BY <1>1, <1>2, <1>3, StoresStay DEF IInv, ChunkIsHeld, SyncedIsSettled

(* Nothing is left to clean up of a guide that is synced. *)
LEMMA StartCleanupStep == ASSUME IInv, NEW t \in Targets, StartCleanup(t) PROVE IInv'
<1>1. PICK due : /\ due = {c \in GuideChunks : Held(c) /\ Matching(guideRows[c], t) # {}}
                 /\ due # {} /\ UNCHANGED <<imported, guideRows, guidePoints, synced>>
                 /\ command' = [Released EXCEPT !.kind = "cleanup", !.at = t, !.todo = due]
  BY DEF StartCleanup
<1>2. /\ command'.kind = "cleanup" /\ command'.at = t /\ command'.todo = due
      /\ command'.phase = "next" /\ CommandOK'
  BY <1>1, StoresStay DEF Released, CommandOK
<1>3. synced = None
  <2>1. PICK c \in GuideChunks : Held(c) /\ guideRows[c].pending # {}
    BY <1>1 DEF Matching
  <2> QED
    BY <2>1 DEF IInv, SyncedIsSettled, Settled
<1> QED
  BY <1>1, <1>2, <1>3, StoresStay DEF IInv, ChunkIsHeld, PassedAreSettled, SyncedIsSettled

LEMMA ReportStep == ASSUME IInv, ReportIndex \/ ReportCleanup \/ GuideDies PROVE IInv'
<1>1. /\ UNCHANGED <<imported, guideRows, guidePoints>> /\ command' = Released
      /\ command.kind # "none"
  BY DEF ReportIndex, ReportCleanup, GuideDies
<1>2. CommandOK' /\ ChunkIsHeld' /\ PassedAreSettled' /\ command'.kind = "none"
  BY <1>1 DEF CommandOK, ChunkIsHeld, PassedAreSettled, Released
<1>3. SyncedIsSettled'
  <2>1. CASE synced' = None
    BY <2>1 DEF SyncedIsSettled
  <2>2. CASE ReportIndex /\ command.clean
    <3>1. /\ synced' = command.at /\ command.at \in Targets /\ imported # 0
          /\ \A c \in GuideChunks : Settled(c, command.at)
      BY <2>2 DEF ReportIndex, IInv, CommandOK, PassedAreSettled
    <3>2. PICK t \in Targets : t = command.at
      BY <3>1
    <3>3. synced' = t /\ \A c \in GuideChunks : Settled(c, t)'
      BY <1>1, <3>1, <3>2, StoresStay
    <3> QED
      BY <1>1, <1>2, <3>1, <3>3 DEF SyncedIsSettled
  <2> QED
    BY <1>1, <2>1, <2>2 DEF ReportIndex, ReportCleanup, GuideDies, IInv, SyncedIsSettled
<1> QED
  BY <1>1, <1>2, <1>3, StoresStay DEF IInv

-----------------------------------------------------------------------------
(* A chunk is taken from the list. *)
LEMMA Taken ==
    ASSUME IInv, command.kind # "none", command.phase = "next", NEW c \in command.todo,
           Touches(c), WellFormed(guideRows'[c]), guideRows'[c].text = guideRows[c].text,
           guideRows'[c].status = "obsolete" <=> guideRows[c].status = "obsolete",
           Locates(guideRows[c], c, {})', NEW row \in GuideRow, NEW keep \in SUBSET Targets,
           command' = [command EXCEPT !.todo = @ \ {c}, !.chunk = c, !.row = row, !.keep = keep,
                                      !.phase = "delete"],
           Holding(command', guideRows'[c]), Locates(row, c, keep)'
    PROVE  IInv'
<1>1. c \in GuideChunks /\ Held(c)
  BY DEF IInv, CommandOK
<1>2. StoresOK' /\ \A d \in GuideChunks : Held(d)' = Held(d)
  BY <1>1, TouchedStores
<1>3. /\ command'.kind = command.kind /\ command'.at = command.at /\ command'.todo = command.todo \ {c}
      /\ command'.phase = "delete" /\ command'.clean = command.clean /\ command'.chunk = c
      /\ command'.row = row /\ command'.keep = keep
      /\ command' \in [kind : {"none", "index", "cleanup"}, at : Targets \cup {None},
                    todo : SUBSET GuideChunks, chunk : GuideChunks \cup {None},
                    row : GuideRow \cup {None}, keep : SUBSET Targets,
                    phase : {"next", "delete", "intend", "upsert", "record"}, clean : BOOLEAN]
  BY <1>1 DEF IInv, CommandOK
<1>4. CommandOK'
  BY <1>2, <1>3 DEF IInv, CommandOK, Touches
<1>5. ChunkIsHeld'
  BY <1>3 DEF ChunkIsHeld, Locates
<1>6. PassedAreSettled'
  <2>1. ASSUME NEW d \in GuideChunks \ {c}, Settled(d, command.at) PROVE Settled(d, command.at)'
    BY <1>2, <1>3, <2>1 DEF Settled, Touches
  <2>2. ASSUME NEW d \in GuideChunks \ command'.todo, d # c, command.clean, command.kind = "index"
        PROVE  Settled(d, command.at)'
    BY <1>3, <2>1, <2>2 DEF IInv, PassedAreSettled
  <2> QED
    BY <1>3, <2>2 DEF PassedAreSettled
<1>7. SyncedIsSettled'
  BY <1>3 DEF IInv, SyncedIsSettled, Touches
<1> QED
  BY <1>2, <1>4, <1>5, <1>6, <1>7 DEF IInv

(* A chunk indexed elsewhere queues that point first. *)
LEMMA TakeChunkStep == ASSUME IInv, TakeChunk PROVE IInv'
<1>1. PICK c : c = CHOOSE x \in command.todo : TRUE
  OBVIOUS
<1>2. c \in command.todo
  BY <1>1 DEF TakeChunk
<1>3. PICK row : row = IF guideRows[c].at # command.at /\ guideRows[c].named
                       THEN [guideRows[c] EXCEPT !.pending = QueueCleanup(guideRows[c])]
                       ELSE guideRows[c]
  OBVIOUS
<1>4. /\ command.kind = "index" /\ command.phase = "next"
      /\ guideRows' = [guideRows EXCEPT ![c] = row]
      /\ command' = [command EXCEPT !.todo = @ \ {c}, !.chunk = c, !.row = row, !.phase = "delete"]
      /\ UNCHANGED <<imported, guidePoints, synced>>
  BY <1>1, <1>3 DEF TakeChunk
<1>5. /\ c \in GuideChunks /\ Held(c) /\ WellFormed(guideRows[c]) /\ Locates(guideRows[c], c, {})
      /\ command.at \in Targets /\ imported # 0
  BY <1>2, <1>4 DEF IInv, CommandOK, StoresOK, RowsOK, PointsAreLocated
<1>6. guideRows[c] \in GuideRow /\ QueueCleanup(guideRows[c]) \subseteq Targets
  BY <1>5 DEF WellFormed, QueueCleanup, GuideRow
<1>7. /\ row \in GuideRow /\ row.text = guideRows[c].text /\ row.status = guideRows[c].status
      /\ row.named = guideRows[c].named /\ row.at = guideRows[c].at
      /\ guideRows[c].pending \subseteq row.pending
      /\ row.pending \subseteq guideRows[c].pending \cup {guideRows[c].at}
      /\ row.named /\ row.at # command.at => row.at \in row.pending
      /\ row.pending \subseteq guideRows[c].pending \/ row.at \in row.pending
  BY <1>3, <1>6 DEF QueueCleanup, GuideRow
<1>8. guideRows'[c] = row /\ Touches(c)
  BY <1>4, <1>5, <1>7 DEF Touches, IInv, StoresOK, RowsOK
<1>9. WellFormed(row) /\ Locates(row, c, {}) /\ row # None
  BY <1>5, <1>7, NoRowAssumption DEF WellFormed, Locates
<1>10. command' = [command EXCEPT !.todo = @ \ {c}, !.chunk = c, !.row = row, !.keep = {},
                                  !.phase = "delete"]
  BY <1>4 DEF IInv, CommandOK
<1>11. /\ command'.chunk = c /\ command'.row = row /\ command'.keep = {} /\ command'.phase = "delete"
       /\ command'.todo = command.todo \ {c} /\ command'.kind = "index" /\ command'.at = command.at
  BY <1>4, <1>10 DEF IInv, CommandOK
<1>12. Holding(command', guideRows'[c])
  BY <1>5, <1>7, <1>8, <1>9, <1>11 DEF Holding
<1>13. Locates(guideRows[c], c, {})' /\ Locates(row, c, {})'
  BY <1>4, <1>8, <1>9 DEF Locates
<1> QED
  BY <1>2, <1>4, <1>7, <1>8, <1>9, <1>10, <1>12, <1>13, Taken

(* Cleanup works on the tasks of one server; the others are kept aside. *)
LEMMA TakeCleanupStep == ASSUME IInv, TakeCleanup PROVE IInv'
<1>1. PICK c : c = CHOOSE x \in command.todo : TRUE
  OBVIOUS
<1>2. c \in command.todo
  BY <1>1 DEF TakeCleanup
<1>3. PICK row, keep : /\ row = [guideRows[c] EXCEPT !.pending = Matching(guideRows[c], command.at)]
                       /\ keep = Other(guideRows[c], command.at)
  OBVIOUS
<1>4. /\ command.kind = "cleanup" /\ command.phase = "next"
      /\ command' = [command EXCEPT !.todo = @ \ {c}, !.chunk = c, !.phase = "delete", !.row = row,
                                    !.keep = keep]
      /\ UNCHANGED <<imported, guideRows, guidePoints, synced>>
  BY <1>1, <1>3 DEF TakeCleanup
<1>5. /\ c \in GuideChunks /\ Held(c) /\ WellFormed(guideRows[c]) /\ Locates(guideRows[c], c, {})
      /\ command.at \in Targets /\ guideRows[c] # None
  BY <1>2, <1>4 DEF IInv, CommandOK, StoresOK, RowsOK, PointsAreLocated, Held
<1>6. /\ row \in GuideRow /\ row.text = guideRows[c].text /\ row.status = guideRows[c].status
      /\ row.named = guideRows[c].named /\ row.at = guideRows[c].at
      /\ row.pending \cup keep = guideRows[c].pending /\ keep \in SUBSET Targets
  BY <1>3, <1>5 DEF WellFormed, GuideRow, Matching, Other
<1>7. Touches(c)
  BY <1>4 DEF Touches, IInv, StoresOK, RowsOK
<1>8. WellFormed(row) /\ Locates(row, c, keep)
  BY <1>5, <1>6 DEF WellFormed, Locates
<1>9. /\ command'.chunk = c /\ command'.row = row /\ command'.keep = keep /\ command'.phase = "delete"
      /\ command'.todo = command.todo \ {c} /\ command'.kind = "cleanup" /\ command'.at = command.at
  BY <1>4 DEF IInv, CommandOK
<1>10. Holding(command', guideRows'[c])
  BY <1>4, <1>5, <1>6, <1>8, <1>9 DEF Holding
<1>11. Locates(guideRows[c], c, {})' /\ Locates(row, c, keep)'
  BY <1>4, <1>5, <1>8 DEF Locates
<1>12. command' = [command EXCEPT !.todo = @ \ {c}, !.chunk = c, !.row = row, !.keep = keep,
                                  !.phase = "delete"]
  BY <1>4
<1> QED
  BY <1>2, <1>4, <1>5, <1>6, <1>7, <1>10, <1>11, <1>12, Taken

-----------------------------------------------------------------------------
(* The work on a chunk. *)

(* A point is deleted before its task is forgotten. *)
LEMMA DeleteStep == ASSUME IInv, NEW t \in Targets, DeletePending(t) PROVE IInv'
<1>1. /\ command.phase = "delete" /\ t \in command.row.pending /\ UNCHANGED <<imported, synced>>
  BY DEF DeletePending
<1>2. PICK c \in GuideChunks : c = command.chunk
  BY <1>1, HeldFacts
<1>3. PICK row : row = command.row
  OBVIOUS
<1>4. /\ Held(c) /\ WellFormed(guideRows[c]) /\ Locates(guideRows[c], c, {})
      /\ Holding(command, guideRows[c]) /\ Locates(row, c, command.keep)
      /\ row \in GuideRow /\ guideRows[c] \in GuideRow
  BY <1>1, <1>2, <1>3, HeldFacts DEF WellFormed
<1>5. PICK deleted : deleted = [guidePoints EXCEPT ![t][c] = 0]
  OBVIOUS
<1>6. /\ guidePoints \in [Targets -> [GuideChunks -> Texts \cup {0}]]
      /\ deleted \in [Targets -> [GuideChunks -> Texts \cup {0}]]
      /\ deleted[t][c] = 0 /\ \A u \in Targets \ {t} : deleted[u][c] = guidePoints[u][c]
      /\ \A d \in GuideChunks \ {c}, u \in Targets : deleted[u][d] = guidePoints[u][d]
  BY <1>5 DEF IInv, StoresOK, RowsOK
<1>7. t \in guideRows[c].pending
  BY <1>1, <1>3, <1>4 DEF Holding
<1>8. ASSUME guidePoints' \in {guidePoints, deleted}, ChunkFails(command, guideRows[c]) PROVE IInv'
  <2>1. PICK old \in GuideRow : old = guideRows[c]
    BY <1>4
  <2>2. Locates(old, c, {})'
    BY <1>4, <1>6, <1>7, <1>8, <2>1 DEF Locates, WellFormed
  <2>3. /\ guidePoints' \in [Targets -> [GuideChunks -> Texts \cup {0}]]
        /\ \A d \in GuideChunks \ {c}, u \in Targets : guidePoints'[u][d] = guidePoints[u][d]
    BY <1>6, <1>8
  <2>4. ChunkFails(command, old)
    BY <1>8, <2>1
  <2> QED
    BY <1>1, <1>2, <1>4, <2>1, <2>2, <2>3, <2>4, FailedChunk
<1>9. ASSUME guidePoints' = deleted, UNCHANGED guideRows,
              command' = [command EXCEPT !.row = [Forget(row, t) EXCEPT !.pending = @ \ {t}]]
       PROVE  IInv'
  <2>1. PICK next : next = [Forget(row, t) EXCEPT !.pending = @ \ {t}]
    OBVIOUS
  <2>2. /\ next \in GuideRow /\ next.text = row.text /\ next.at = row.at
        /\ next.pending = row.pending \ {t}
        /\ next.named <=> row.named /\ row.at # t
        /\ next.status = IF row.named /\ row.at = t /\ row.status = "success" THEN "pending"
                         ELSE row.status
    BY <1>4, <2>1 DEF Forget, GuideRow
  <2>3. WellFormed(next)
    BY <1>3, <1>4, <2>2 DEF WellFormed, Holding
  <2>4. Locates(next, c, command.keep)'
    <3>1. \A u \in Targets : guidePoints'[u][c] # 0 =>
            (next.named /\ next.at = u) \/ u \in next.pending \cup command'.keep
      BY <1>4, <1>6, <1>9, <2>2 DEF Locates
    <3>2. next.status = "obsolete" /\ next.named => next.at \in next.pending \cup command.keep
      BY <1>4, <2>2 DEF Locates
    <3>3. next.status = "success" /\ next.at \notin next.pending \cup command.keep =>
            guidePoints'[next.at][c] = next.text
      BY <1>3, <1>4, <1>6, <1>9, <2>2 DEF Locates, WellFormed, Holding
    <3>4. command'.keep = command.keep
      BY <1>9
    <3> QED
      BY <3>1, <3>2, <3>3, <3>4 DEF Locates
  <2>5. Locates(guideRows[c], c, {})'
    BY <1>4, <1>6, <1>7, <1>9 DEF Locates, WellFormed
  <2>6. command' = [command EXCEPT !.row = next, !.phase = "delete"]
    BY <1>1, <1>9, <2>1 DEF IInv, CommandOK
  <2>7. /\ command'.chunk = c /\ command'.row = next /\ command'.keep = command.keep
        /\ command'.phase = "delete" /\ command'.todo = command.todo
        /\ command'.kind = command.kind /\ command'.at = command.at
    BY <1>2, <2>6 DEF IInv, CommandOK
  <2>8. Holding(command', guideRows'[c])
    BY <1>2, <1>3, <1>4, <1>9, <2>2, <2>3, <2>7 DEF Holding
  <2>9. Touches(c)
    BY <1>1, <1>6, <1>9 DEF Touches, IInv, StoresOK, RowsOK
  <2> QED
    BY <1>1, <1>2, <1>4, <1>9, <2>2, <2>4, <2>5, <2>6, <2>8, <2>9, ChunkGoesOn
<1> QED
  BY <1>2, <1>3, <1>5, <1>8, <1>9 DEF DeletePending

(* The deletions are committed; a chunk that needs nothing more is settled. *)
LEMMA CommitDeletionsStep == ASSUME IInv, CommitDeletions PROVE IInv'
<1>1. PICK old, row : old = command.row /\ row = Emptied(command.row)
  OBVIOUS
<1>2. PICK c : c = command.chunk
  OBVIOUS
<1>3. /\ command.kind = "index" /\ command.phase = "delete" /\ old.pending = {}
      /\ guideRows' = [guideRows EXCEPT ![c] = row]
      /\ UNCHANGED <<imported, guidePoints, synced>>
      /\ command' = IF row.status = "obsolete" \/ (row.status = "success" /\ row.at = command.at)
                    THEN Next1(command) ELSE [command EXCEPT !.row = row, !.phase = "intend"]
  BY <1>1, <1>2 DEF CommitDeletions
<1>4. /\ c \in GuideChunks /\ Held(c) /\ WellFormed(guideRows[c]) /\ Holding(command, guideRows[c])
      /\ Locates(old, c, {}) /\ old \in GuideRow /\ command.at \in Targets /\ imported # 0
      /\ command.keep = {}
  BY <1>1, <1>2, <1>3, HeldFacts DEF Holding
<1>5. /\ row \in GuideRow /\ row.text = guideRows[c].text /\ row.pending = {} /\ row.at = old.at
      /\ row.status = old.status /\ (row.status = "obsolete" <=> guideRows[c].status = "obsolete")
      /\ row.named <=> old.named /\ old.status # "obsolete"
  BY <1>1, <1>2, <1>3, <1>4 DEF Holding, Emptied, GuideRow
<1>6. WellFormed(row) /\ Locates(row, c, {})
  BY <1>1, <1>3, <1>4, <1>5 DEF Holding, WellFormed, Locates
<1>7. guideRows'[c] = row /\ Touches(c)
  BY <1>3, <1>4, <1>5 DEF Touches, IInv, StoresOK, RowsOK
<1>8. Locates(guideRows[c], c, {})' /\ Locates(row, c, {})' /\ Locates(row, c, command.keep)'
  <2>1. command'.keep = {}
    BY <1>3, <1>4 DEF Next1, IInv, CommandOK
  <2> QED
    BY <1>3, <1>6, <1>7, <2>1 DEF Locates
<1>9. CASE row.status = "obsolete" \/ (row.status = "success" /\ row.at = command.at)
  <2>1. command' = Next1([command EXCEPT !.clean = command.clean]) /\ command.clean \in BOOLEAN
    BY <1>3, <1>9 DEF IInv, CommandOK
  <2>2. PICK t \in Targets : t = command.at
    BY <1>4
  <2>3. \A u \in Targets : guidePoints[u][c] = IF u = t THEN Bundles[imported][c] ELSE 0
    <3>1. CASE row.status = "obsolete"
      <4>1. Bundles[imported][c] = 0 /\ \A u \in Targets : guidePoints[u][c] = 0
        BY <1>4, <1>5, <1>6, <3>1 DEF IInv, StoresOK, RowsAreImported, Locates
      <4> QED
        BY <4>1
    <3>2. CASE row.status = "success" /\ row.at = command.at
      <4>1. Bundles[imported][c] = row.text
        BY <1>4, <1>5, <3>2 DEF IInv, StoresOK, RowsAreImported
      <4> QED
        BY <1>5, <1>6, <2>2, <3>2, <4>1 DEF Locates
    <3> QED
      BY <1>9, <3>1, <3>2
  <2>4. Settled(c, t)'
    BY <1>3, <1>5, <1>7, <2>3 DEF Settled
  <2>5. command'.at = t
    BY <2>1, <2>2 DEF Next1, IInv, CommandOK
  <2>6. Settled(c, command.at)'
    BY <2>4, <2>5
  <2> QED
    BY <1>2, <1>3, <1>4, <1>5, <1>6, <1>7, <1>8, <2>1, <2>6, ChunkEnds
<1>10. CASE ~(row.status = "obsolete" \/ (row.status = "success" /\ row.at = command.at))
  <2>1. command' = [command EXCEPT !.row = row, !.phase = "intend"]
    BY <1>3, <1>10
  <2>2. /\ command'.chunk = c /\ command'.row = row /\ command'.keep = {}
        /\ command'.phase = "intend" /\ command'.todo = command.todo
        /\ command'.kind = command.kind /\ command'.at = command.at
    BY <1>2, <1>4, <2>1 DEF IInv, CommandOK
  <2>3. Holding(command', guideRows'[c])
    <3>1. guideRows'[c] # None /\ guideRows'[c] = row
      BY <1>5, <1>7, NoRowAssumption
    <3>2. row.named /\ row.at # command.at => row.at \in row.pending
      BY <1>1, <1>3, <1>4, <1>5 DEF Holding
    <3> QED
      BY <1>2, <1>3, <1>4, <1>5, <1>6, <1>10, <2>2, <3>1, <3>2 DEF Holding
  <2> QED
    BY ZenonT(40), <1>2, <1>3, <1>4, <1>5, <1>6, <1>7, <1>8, <2>1, <2>3, ChunkGoesOn
<1> QED
  BY <1>9, <1>10

(* The row names the intended point before the call. *)
LEMMA IntendStep == ASSUME IInv, Intend PROVE IInv'
<1>1. PICK old : old = command.row
  OBVIOUS
<1>2. PICK c : c = command.chunk
  OBVIOUS
<1>3. /\ command.phase = "intend" /\ UNCHANGED <<imported, guidePoints, synced>>
  BY DEF Intend
<1>4. /\ c \in GuideChunks /\ Held(c) /\ WellFormed(guideRows[c]) /\ Holding(command, old)
      /\ guideRows[c] = old /\ Locates(old, c, {}) /\ old \in GuideRow /\ command.at \in Targets
      /\ command.keep = {} /\ command.kind = "index" /\ old.pending = {} /\ old.status # "obsolete"
      /\ WellFormed(old)
  BY <1>1, <1>2, <1>3, HeldFacts DEF Holding
<1>5. CASE ChunkFails(command, command.row)
  <2>1. Locates(old, c, {})'
    BY <1>3, <1>4 DEF Locates
  <2> QED
    BY <1>1, <1>2, <1>3, <1>4, <1>5, <2>1, FailedChunk DEF IInv, StoresOK, RowsOK
<1>6. CASE ~ChunkFails(command, command.row)
  <2>1. PICK row : row = [old EXCEPT !.status = "pending", !.named = TRUE, !.at = command.at]
    OBVIOUS
  <2>2. /\ guideRows' = [guideRows EXCEPT ![c] = row]
        /\ command' = [command EXCEPT !.row = row, !.phase = "upsert"]
    BY <1>1, <1>2, <1>6, <2>1 DEF Intend
  <2>3. /\ row \in GuideRow /\ row.text = old.text /\ row.status = "pending" /\ row.named
        /\ row.at = command.at /\ row.pending = {}
    BY <1>4, <2>1 DEF GuideRow
  <2>4. WellFormed(row) /\ Locates(row, c, {})
    BY <1>1, <1>4, <2>3 DEF WellFormed, Locates, Holding
  <2>5. guideRows'[c] = row /\ Touches(c)
    BY <1>3, <1>4, <2>2, <2>3 DEF Touches, IInv, StoresOK, RowsOK
  <2>6. /\ command'.chunk = c /\ command'.row = row /\ command'.keep = {}
        /\ command'.phase = "upsert" /\ command'.todo = command.todo
        /\ command'.kind = command.kind /\ command'.at = command.at
    BY <1>2, <1>4, <2>2 DEF IInv, CommandOK
  <2>7. Locates(guideRows[c], c, {})' /\ Locates(row, c, command.keep)'
    BY <1>3, <2>4, <2>5, <2>6 DEF Locates
  <2>8. Holding(command', guideRows'[c])
    BY <1>2, <1>4, <2>3, <2>4, <2>5, <2>6, NoRowAssumption DEF Holding
  <2> QED
    BY <1>2, <1>3, <1>4, <2>2, <2>3, <2>4, <2>5, <2>7, <2>8, ChunkGoesOn
<1> QED
  BY <1>5, <1>6

(* The server may take the point although its answer is lost. *)
LEMMA UpsertStep == ASSUME IInv, UpsertGuideChunk PROVE IInv'
<1>1. PICK row, t : row = command.row /\ t = command.at
  OBVIOUS
<1>2. PICK c : c = command.chunk
  OBVIOUS
<1>3. /\ command.phase = "upsert" /\ UNCHANGED <<imported, synced>>
  BY DEF UpsertGuideChunk
<1>4. /\ c \in GuideChunks /\ Held(c) /\ WellFormed(guideRows[c]) /\ Holding(command, row)
      /\ guideRows[c] = row /\ Locates(row, c, {}) /\ row \in GuideRow /\ t \in Targets
      /\ command.keep = {} /\ row.pending = {} /\ row.named /\ row.at = t /\ row.status = "pending"
  BY <1>1, <1>2, <1>3, HeldFacts DEF Holding
<1>5. PICK put : put = [guidePoints EXCEPT ![t][c] = row.text]
  OBVIOUS
<1>6. /\ guidePoints \in [Targets -> [GuideChunks -> Texts \cup {0}]]
      /\ put \in [Targets -> [GuideChunks -> Texts \cup {0}]]
      /\ put[t][c] = row.text /\ \A u \in Targets \ {t} : put[u][c] = guidePoints[u][c]
      /\ \A d \in GuideChunks \ {c}, u \in Targets : put[u][d] = guidePoints[u][d]
  BY <1>4, <1>5 DEF IInv, StoresOK, RowsOK, WellFormed
<1>7. ASSUME guidePoints' \in {guidePoints, put} PROVE Locates(row, c, {})'
  BY <1>4, <1>6, <1>7 DEF Locates
<1>8. CASE guidePoints' \in {guidePoints, put} /\ ChunkFails(command, guideRows[c])
  <2>1. /\ guidePoints' \in [Targets -> [GuideChunks -> Texts \cup {0}]]
        /\ \A d \in GuideChunks \ {c}, u \in Targets : guidePoints'[u][d] = guidePoints[u][d]
    BY <1>6, <1>8
  <2>2. ChunkFails(command, row) /\ Locates(row, c, {})'
    BY <1>4, <1>7, <1>8
  <2> QED
    BY <1>2, <1>3, <1>4, <2>1, <2>2, FailedChunk
<1>9. CASE guidePoints' = put /\ command' = [command EXCEPT !.phase = "record"] /\ UNCHANGED guideRows
  <2>1. command' = [command EXCEPT !.row = row, !.phase = "record"]
    BY <1>1, <1>9 DEF IInv, CommandOK
  <2>2. /\ command'.chunk = c /\ command'.row = row /\ command'.keep = {}
        /\ command'.phase = "record" /\ command'.todo = command.todo
        /\ command'.kind = command.kind /\ command'.at = command.at
    BY <1>2, <1>4, <2>1 DEF IInv, CommandOK
  <2>3. guideRows'[c] = row /\ Touches(c)
    BY <1>3, <1>4, <1>6, <1>9 DEF Touches, IInv, StoresOK, RowsOK
  <2>4. Locates(guideRows[c], c, {})' /\ Locates(row, c, command.keep)'
    BY <1>7, <1>9, <2>2, <2>3
  <2>5. Holding(command', guideRows'[c])
    BY <1>1, <1>2, <1>3, <1>4, <2>2, <2>3 DEF Holding
  <2>6. guidePoints'[command.at][c] = row.text
    BY <1>1, <1>6, <1>9
  <2> QED
    BY <1>2, <1>3, <1>4, <2>1, <2>3, <2>4, <2>5, <2>6, ChunkGoesOn
<1> QED
  BY <1>1, <1>2, <1>5, <1>8, <1>9 DEF UpsertGuideChunk

(* The answer is recorded: the chunk is settled. *)
LEMMA RecordStep == ASSUME IInv, RecordPoint PROVE IInv'
<1>1. PICK old, t : old = command.row /\ t = command.at
  OBVIOUS
<1>2. PICK c : c = command.chunk
  OBVIOUS
<1>3. PICK row : row = [old EXCEPT !.status = "success", !.pending = {}]
  OBVIOUS
<1>4. /\ command.phase = "record" /\ guideRows' = [guideRows EXCEPT ![c] = row]
      /\ command' = Next1(command) /\ UNCHANGED <<imported, guidePoints, synced>>
  BY <1>1, <1>2, <1>3 DEF RecordPoint
<1>5. /\ c \in GuideChunks /\ Held(c) /\ WellFormed(guideRows[c]) /\ imported # 0
      /\ guideRows[c] = old /\ Locates(old, c, {}) /\ old \in GuideRow /\ t \in Targets
      /\ old.pending = {} /\ old.named /\ old.at = t /\ old.status = "pending"
      /\ guidePoints[t][c] = old.text
  BY <1>1, <1>2, <1>4, HeldFacts DEF Holding, IInv, ChunkIsHeld
<1>6. /\ row \in GuideRow /\ row.text = old.text /\ row.status = "success" /\ row.named
      /\ row.at = t /\ row.pending = {}
  BY <1>3, <1>5 DEF GuideRow
<1>7. WellFormed(row) /\ Locates(row, c, {})
  BY <1>5, <1>6 DEF WellFormed, Locates
<1>8. guideRows'[c] = row /\ Touches(c)
  BY <1>4, <1>5, <1>6 DEF Touches, IInv, StoresOK, RowsOK
<1>9. Locates(guideRows[c], c, {})'
  BY <1>4, <1>7, <1>8 DEF Locates
<1>10. Bundles[imported][c] = row.text
  BY <1>5, <1>6 DEF IInv, StoresOK, RowsAreImported
<1>11. \A u \in Targets : guidePoints[u][c] = IF u = t THEN Bundles[imported][c] ELSE 0
  BY <1>5, <1>6, <1>7, <1>10 DEF Locates
<1>12. Settled(c, t)'
  BY <1>4, <1>6, <1>8, <1>11 DEF Settled
<1>13. command'.at = t /\ command.clean \in BOOLEAN
       /\ command' = Next1([command EXCEPT !.clean = command.clean])
  BY <1>1, <1>4 DEF Next1, IInv, CommandOK
<1>14. Settled(c, command.at)'
  BY <1>12, <1>13
<1> QED
  BY <1>2, <1>4, <1>5, <1>6, <1>7, <1>8, <1>9, <1>13, <1>14, ChunkEnds

(* What was kept aside is the outbox again. *)
LEMMA CommitCleanupStep == ASSUME IInv, CommitCleanup PROVE IInv'
<1>1. PICK old, row : old = command.row /\ row = [Emptied(old) EXCEPT !.pending = command.keep]
  OBVIOUS
<1>2. PICK c : c = command.chunk
  OBVIOUS
<1>3. /\ command.kind = "cleanup" /\ command.phase = "delete" /\ old.pending = {}
      /\ guideRows' = [guideRows EXCEPT ![c] = row]
      /\ command' = Next1(command) /\ UNCHANGED <<imported, guidePoints, synced>>
  BY <1>1, <1>2 DEF CommitCleanup
<1>4. /\ c \in GuideChunks /\ Held(c) /\ WellFormed(guideRows[c]) /\ Holding(command, guideRows[c])
      /\ Locates(old, c, command.keep) /\ old \in GuideRow /\ command.keep \subseteq Targets
      /\ WellFormed(old)
  BY <1>1, <1>2, <1>3, HeldFacts DEF Holding, IInv, CommandOK
<1>5. /\ row \in GuideRow /\ row.text = guideRows[c].text /\ row.pending = command.keep
      /\ row.at = old.at
      /\ row.status = old.status /\ (row.status = "obsolete" <=> guideRows[c].status = "obsolete")
      /\ row.named <=> old.named /\ old.status # "obsolete"
  BY <1>1, <1>4 DEF Holding, Emptied, GuideRow
<1>6. WellFormed(row) /\ Locates(row, c, {})
  <2>1. WellFormed(row)
    BY <1>4, <1>5 DEF WellFormed
  <2>2. old.status = "obsolete" /\ old.named => old.at \in command.keep
    BY <1>3, <1>4 DEF Locates
  <2>3. \A t \in Targets : guidePoints[t][c] # 0 => (old.named /\ old.at = t) \/ t \in command.keep
    BY <1>3, <1>4 DEF Locates
  <2>4. old.status = "success" /\ old.at \notin command.keep => guidePoints[old.at][c] = old.text
    BY <1>3, <1>4 DEF Locates
  <2>5. old.text = row.text
    BY <1>1, <1>4, <1>5 DEF Holding
  <2> QED
    BY <1>5, <2>1, <2>2, <2>3, <2>4, <2>5 DEF Locates
<1>7. guideRows'[c] = row /\ Touches(c)
  BY <1>3, <1>4, <1>5 DEF Touches, IInv, StoresOK, RowsOK
<1>8. Locates(guideRows[c], c, {})'
  BY <1>3, <1>6, <1>7 DEF Locates
<1>9. command' = Next1([command EXCEPT !.clean = command.clean]) /\ command.clean \in BOOLEAN
  BY <1>3 DEF IInv, CommandOK
<1> QED
  BY <1>2, <1>3, <1>4, <1>5, <1>6, <1>7, <1>8, <1>9, ChunkEnds

-----------------------------------------------------------------------------
(* Imports, commands and their deaths keep every point located by a row or *)
(* by the command at work.                                                *)
THEOREM InductiveInvariant == GuideSpec => []IInv
<1>1. ASSUME IInv, [GuideNext]_guideVars PROVE IInv'
  <2>1. CASE \E b \in 1 .. Len(Bundles) : ImportGuide(b)
    BY <1>1, <2>1, ImportStep
  <2>2. ASSUME NEW t \in Targets, StartIndex(t) \/ StartCleanup(t) \/ DeletePending(t) PROVE IInv'
    BY <1>1, <2>2, StartIndexStep, StartCleanupStep, DeleteStep
  <2>3. CASE TakeChunk \/ TakeCleanup
    BY <1>1, <2>3, TakeChunkStep, TakeCleanupStep
  <2>4. CASE CommitDeletions \/ CommitCleanup
    BY <1>1, <2>4, CommitDeletionsStep, CommitCleanupStep
  <2>5. CASE Intend \/ UpsertGuideChunk \/ RecordPoint
    BY <1>1, <2>5, IntendStep, UpsertStep, RecordStep
  <2>6. CASE ReportIndex \/ ReportCleanup \/ GuideDies
    BY <1>1, <2>6, ReportStep
  <2>7. CASE UNCHANGED guideVars
    BY <1>1, <2>7, StoresStay DEF guideVars, IInv, CommandOK, ChunkIsHeld, Locates, PassedAreSettled,
       SyncedIsSettled, Settled
  <2> QED
    BY <1>1, <2>1, <2>2, <2>3, <2>4, <2>5, <2>6, <2>7 DEF GuideNext
<1> QED
  BY <1>1, InitIInv, PTL DEF GuideSpec

(* Whatever answers were lost and whenever the process died, a row knows   *)
(* each point of its chunk, and an index command without failures has made *)
(* the index equal to the guide.                                           *)
THEOREM GuidesSynced == GuideSpec => []GuidesAreSynced
<1>1. ASSUME IInv PROVE GuideTypeOK
  <2>1. ASSUME NEW c \in GuideChunks, Held(c)
        PROVE  /\ guideRows[c].text \in Texts \ {0}
               /\ guideRows[c].at \in Targets \cup {None}
               /\ guideRows[c].named => guideRows[c].at # None
               /\ guideRows[c].pending \subseteq Targets
    <3>1. WellFormed(guideRows[c])
      BY <1>1, <2>1 DEF IInv, StoresOK, RowsOK
    <3> QED
      BY <3>1, NoTargetAssumption DEF WellFormed, GuideRow
  <2>2. \A t \in Targets, c \in GuideChunks : guidePoints[t][c] \in Texts \cup {0}
    BY <1>1 DEF IInv, StoresOK, RowsOK
  <2>3. imported \in 0 .. Len(Bundles)
    BY <1>1 DEF IInv, StoresOK, RowsOK
  <2> QED
    BY <2>1, <2>2, <2>3 DEF GuideTypeOK
<1>2. IInv => GuidePointsAreKnown
  BY DEF IInv, StoresOK, PointsAreLocated, Locates, GuidePointsAreKnown
<1>3. IInv => SyncedIsTrue
  BY DEF IInv, SyncedIsSettled, Settled, SyncedIsTrue
<1>4. IInv => GuidesAreSynced
  BY <1>1, <1>2, <1>3 DEF GuidesAreSynced
<1> QED
  BY <1>4, InductiveInvariant, PTL

-----------------------------------------------------------------------------
(***************************************************************************)
(* The documents of the drones: imports, index runs and the active         *)
(* processing.                                                             *)
(***************************************************************************)
(* What a transaction of import_bundle holds, and what the index run does. *)
Import == [of : Processings, bundle : DocBundles, status : {"absent", "pending_index", "ready"}]
TablesOK ==
    /\ docStatus \in [Processings -> {"absent", "pending_index", "ready"}]
    /\ docActive \in Processings \cup {Nothing}
    /\ docText \in [Processings -> [DocChunks -> DocTexts \cup {0}]]
    /\ docPoints \in [Processings -> [DocChunks -> DocTexts \cup {0}]]
    /\ docJobs \in [Processings -> [DocChunks -> {"none", "pending", "succeeded", "failed"}]]
CommandsOK ==
    /\ importing \in [Models -> Import \cup {Nothing}]
    /\ indexing \in [phase : {"idle", "batches", "publish"}, at : Processings \cup {Nothing},
                     seen : [DocChunks -> DocTexts \cup {0}], todo : SUBSET DocChunks,
                     whole : BOOLEAN]
    /\ indexing.phase = "idle" <=> indexing.at = Nothing
    /\ bare \subseteq Processings /\ overlapped \subseteq Processings

(* A published processing is only imported again with what it holds.       *)
ImportsRepeat ==
    \A m \in Models : LET t == importing[m] IN
        t # Nothing /\ t.of \notin overlapped =>
            /\ t.status = "ready" <=> docStatus[t.of] = "ready"
            /\ t.status = "ready" => t.bundle = docText[t.of]

(* An index run that met no import works on the texts there are.           *)
RunIsAlone ==
    indexing.at \notin overlapped \cup {Nothing} =>
        ~ Importing(indexing.at) /\ indexing.seen = docText[indexing.at]

(* What the run has passed, unless the collection was lost under it.       *)
PassedAreWritten ==
    indexing.at \notin overlapped \cup {Nothing} /\ indexing.whole =>
        \A k \in DocRows(indexing.at) :
            (\/ indexing.phase = "publish"
             \/ k \notin indexing.todo /\ docJobs[indexing.at][k] = "succeeded")
                => docPoints[indexing.at][k] = docText[indexing.at][k]
LossIsNoted == indexing.phase # "idle" /\ ~ indexing.whole => indexing.at \in bare

DocIInv ==
    /\ TablesOK /\ CommandsOK /\ ImportsRepeat /\ RunIsAlone /\ PassedAreWritten
    /\ LossIsNoted /\ ActiveIsIndexed

LEMMA DocInitIInv == DocInit => DocIInv
  BY NothingAssumption
     DEF DocInit, DocIInv, TablesOK, CommandsOK, ImportsRepeat, RunIsAlone, PassedAreWritten,
     LossIsNoted, ActiveIsIndexed, NoIndexing, Importing, DocRows

LEMMA BeginImportStep ==
  ASSUME DocIInv, NEW m \in Models, NEW p \in Processings, NEW b \in DocBundles, BeginImport(m, p, b)
  PROVE  DocIInv'
<1> DEFINE t == [of |-> p, bundle |-> b, status |-> docStatus[p]]
<1>1. /\ TablesOK /\ CommandsOK /\ ImportsRepeat /\ RunIsAlone /\ PassedAreWritten
      /\ LossIsNoted /\ ActiveIsIndexed
  BY DEF DocIInv
<1>2. /\ importing' = [importing EXCEPT ![m] = t]
      /\ overlapped' = IF indexing.at = p THEN overlapped \cup {p} ELSE overlapped
      /\ docStatus[p] = "ready" => docText[p] = b
      /\ UNCHANGED <<docStatus, docActive, docText, docJobs, docPoints, indexing, bare>>
  BY DEF BeginImport, Unchanged
<1>3. t \in Import /\ t.of = p /\ t.bundle = b /\ t.status = docStatus[p]
  BY <1>1 DEF TablesOK, Import
<1> HIDE DEF t
<1>4. overlapped \subseteq overlapped' /\ (indexing.at = p => p \in overlapped')
  BY <1>2
<1>5. TablesOK' /\ CommandsOK'
  BY <1>1, <1>2, <1>3 DEF TablesOK, CommandsOK
<1>6. \A n \in Models : importing'[n] = IF n = m THEN t ELSE importing[n]
  BY <1>1, <1>2 DEF CommandsOK
<1>7. ImportsRepeat'
  BY <1>1, <1>2, <1>3, <1>4, <1>6 DEF ImportsRepeat
<1>8. RunIsAlone'
  BY <1>1, <1>2, <1>3, <1>4, <1>6 DEF RunIsAlone, Importing
<1>9. PassedAreWritten' /\ LossIsNoted' /\ ActiveIsIndexed'
  BY <1>1, <1>2, <1>4 DEF PassedAreWritten, LossIsNoted, ActiveIsIndexed, DocRows
<1> QED
  BY <1>5, <1>7, <1>8, <1>9 DEF DocIInv

LEMMA CommitImportStep ==
  ASSUME DocIInv, NEW m \in Models, CommitImport(m)
  PROVE  DocIInv'
<1> DEFINE t == importing[m]
           p == t.of
           content == [k \in DocChunks |-> IF t.bundle[k] # 0 THEN t.bundle[k] ELSE docText[p][k]]
<1>1. /\ TablesOK /\ CommandsOK /\ ImportsRepeat /\ RunIsAlone /\ PassedAreWritten
      /\ LossIsNoted /\ ActiveIsIndexed
  BY DEF DocIInv
<1>2. /\ t # Nothing
      /\ docText' = [docText EXCEPT ![p] = content]
      /\ docJobs' = [docJobs EXCEPT ![p] = [k \in DocChunks |->
              IF content[k] # docText[p][k] THEN "pending" ELSE @[k]]]
      /\ docStatus' = [docStatus EXCEPT ![p] =
                          IF t.status = "absent" THEN "pending_index" ELSE t.status]
      /\ importing' = [importing EXCEPT ![m] = Nothing]
      /\ UNCHANGED <<docActive, docPoints, indexing, overlapped, bare>>
  BY DEF CommitImport
<1>3. t \in Import /\ p \in Processings /\ t.bundle \in [DocChunks -> DocTexts \cup {0}]
  BY <1>1, <1>2, DocTextAssumption DEF CommandsOK, Import
<1>4. content \in [DocChunks -> DocTexts \cup {0}]
  BY <1>1, <1>3 DEF TablesOK
<1>5. p \notin overlapped /\ docStatus[p] = "ready" =>
         content = docText[p] /\ docStatus' = docStatus
  <2> SUFFICES ASSUME p \notin overlapped, docStatus[p] = "ready"
               PROVE  content = docText[p] /\ docStatus' = docStatus
    OBVIOUS
  <2>1. t.status = "ready" /\ t.bundle = docText[p]
    BY <1>1, <1>2 DEF ImportsRepeat
  <2> QED
    BY <2>1, <1>1, <1>2, <1>3 DEF TablesOK
<1>6. Importing(p)
  BY <1>2 DEF Importing
<1>7. indexing.at = p => p \in overlapped
  BY <1>1, <1>3, <1>6, NothingAssumption DEF RunIsAlone
<1>8. \A q \in Processings : q # p => docText'[q] = docText[q] /\ docJobs'[q] = docJobs[q]
      /\ docStatus'[q] = docStatus[q]
  BY <1>1, <1>2 DEF TablesOK
<1>9. docText'[p] = content
  BY <1>1, <1>2, <1>3 DEF TablesOK
<1>10. p \notin overlapped => (docStatus'[p] = "ready" <=> docStatus[p] = "ready")
  BY <1>1, <1>2, <1>3 DEF ImportsRepeat, TablesOK
<1> HIDE DEF content, t
<1>11. TablesOK' /\ CommandsOK'
  BY <1>1, <1>2, <1>3, <1>4 DEF TablesOK, CommandsOK, Import
<1>12. \A n \in Models : importing'[n] = IF n = m THEN Nothing ELSE importing[n]
  BY <1>1, <1>2 DEF CommandsOK
<1>13. \A q \in Processings \ overlapped : docStatus[q] = "ready"
      => docText'[q] = docText[q] /\ docStatus'[q] = "ready"
  BY <1>5, <1>8, <1>9
<1>14. ImportsRepeat'
  <2> SUFFICES ASSUME NEW n \in Models, importing'[n] # Nothing, importing'[n].of \notin overlapped
               PROVE  /\ importing'[n].status = "ready" <=> docStatus'[importing'[n].of] = "ready"
                      /\ importing'[n].status = "ready"
                           => importing'[n].bundle = docText'[importing'[n].of]
    BY <1>2 DEF ImportsRepeat
  <2>1. importing'[n] = importing[n] /\ n # m /\ importing[n].of \in Processings
    BY <1>12, <1>1 DEF CommandsOK, Import
  <2>2. docStatus'[importing[n].of] = "ready" <=> docStatus[importing[n].of] = "ready"
    BY <2>1, <1>8, <1>10
  <2> QED
    BY <2>1, <2>2, <1>1, <1>13 DEF ImportsRepeat
<1>15. RunIsAlone'
  BY <1>1, <1>2, <1>7, <1>8, <1>12 DEF RunIsAlone, Importing, CommandsOK
<1>16. PassedAreWritten' /\ LossIsNoted'
  BY <1>1, <1>2, <1>7, <1>8 DEF PassedAreWritten, LossIsNoted, CommandsOK, DocRows
<1>17. ActiveIsIndexed'
  <2> SUFFICES ASSUME docActive \notin {Nothing} \cup overlapped \cup bare
               PROVE  /\ docStatus'[docActive] = "ready" /\ docText'[docActive] = docText[docActive]
    BY <1>1, <1>2 DEF ActiveIsIndexed, DocRows
  <2> QED
    BY <1>1, <1>13 DEF ActiveIsIndexed, TablesOK
<1> QED
  BY <1>11, <1>14, <1>15, <1>16, <1>17 DEF DocIInv

LEMMA ImportFailsStep ==
  ASSUME DocIInv, NEW m \in Models, ImportFails(m)
  PROVE  DocIInv'
<1>1. \A n \in Models : importing'[n] = IF n = m THEN Nothing ELSE importing[n]
  BY DEF DocIInv, CommandsOK, ImportFails
<1>2. importing' \in [Models -> Import \cup {Nothing}]
  BY DEF DocIInv, CommandsOK, ImportFails
<1> QED
  BY <1>1, <1>2
     DEF DocIInv, TablesOK, CommandsOK, ImportsRepeat, RunIsAlone, PassedAreWritten, LossIsNoted,
     ActiveIsIndexed, Importing, DocRows, ImportFails

LEMMA StartProcessingStep ==
  ASSUME DocIInv, NEW p \in Processings, StartProcessing(p)
  PROVE  DocIInv'
<1>1. /\ TablesOK /\ CommandsOK /\ ImportsRepeat /\ ActiveIsIndexed
  BY DEF DocIInv
<1>2. /\ indexing.phase = "idle"
      /\ indexing' = [phase |-> IF DocRows(p) = {} THEN "publish" ELSE "batches", at |-> p,
                      seen |-> docText[p], todo |-> Stale(p), whole |-> TRUE]
      /\ overlapped' = IF Importing(p) THEN overlapped \cup {p} ELSE overlapped
      /\ UNCHANGED <<docStatus, docActive, docText, docJobs, docPoints, importing, bare>>
  BY DEF StartProcessing
<1>3. /\ indexing'.at = p /\ indexing'.seen = docText[p] /\ indexing'.todo = Stale(p) /\ indexing'.whole
      /\ indexing'.phase \in {"batches", "publish"}
      /\ indexing'.phase = "publish" => DocRows(p) = {}
  BY <1>2
<1>4. overlapped \subseteq overlapped' /\ overlapped' \subseteq Processings
  BY <1>1, <1>2 DEF CommandsOK
<1>5. TablesOK' /\ CommandsOK'
  BY <1>1, <1>2, <1>4, NothingAssumption DEF TablesOK, CommandsOK, Stale, DocRows
<1>6. ImportsRepeat' /\ ActiveIsIndexed'
  BY <1>1, <1>2, <1>4 DEF ImportsRepeat, ActiveIsIndexed, DocRows
<1>7. RunIsAlone' /\ LossIsNoted'
  BY <1>2, <1>3 DEF RunIsAlone, LossIsNoted, Importing
<1>8. PassedAreWritten'
  BY <1>2, <1>3 DEF PassedAreWritten, DocRows, Stale
<1> QED
  BY <1>5, <1>6, <1>7, <1>8 DEF DocIInv

LEMMA IndexBatchStep ==
  ASSUME DocIInv, NEW batch \in SUBSET DocChunks, IndexBatch(batch)
  PROVE  DocIInv'
<1>1. /\ TablesOK /\ CommandsOK /\ ImportsRepeat /\ RunIsAlone /\ PassedAreWritten
      /\ LossIsNoted /\ ActiveIsIndexed
  BY DEF DocIInv
<1> DEFINE p == indexing.at
<1>2. /\ indexing.phase = "batches" /\ batch \subseteq indexing.todo
      /\ \/ docPoints' = Put(batch) /\ docJobs' = Marked(batch, "succeeded")
         \/ docPoints' \in {docPoints, Put(batch)} /\ docJobs' = Marked(batch, "failed")
      /\ indexing' = [indexing EXCEPT !.todo = @ \ batch]
      /\ UNCHANGED <<docStatus, docActive, docText, importing, overlapped, bare>>
  BY DEF IndexBatch
<1>3. /\ p \in Processings /\ p # Nothing /\ indexing.seen \in [DocChunks -> DocTexts \cup {0}]
  BY <1>1, <1>2 DEF CommandsOK
<1>4. /\ indexing'.at = p /\ indexing'.seen = indexing.seen /\ indexing'.todo = indexing.todo \ batch
      /\ indexing'.phase = "batches" /\ indexing'.whole = indexing.whole
  BY <1>1, <1>2 DEF CommandsOK
<1>5. /\ docPoints' \in [Processings -> [DocChunks -> DocTexts \cup {0}]]
      /\ \A q \in Processings \ {p} : docPoints'[q] = docPoints[q] /\ docJobs'[q] = docJobs[q]
      /\ \A k \in DocChunks \ batch : docPoints'[p][k] = docPoints[p][k]
           /\ docJobs'[p][k] = docJobs[p][k]
      /\ \A k \in batch : /\ docPoints'[p][k] = docPoints[p][k] \/ docPoints'[p][k] = indexing.seen[k]
                          /\ docJobs'[p][k] = "succeeded" => docPoints'[p][k] = indexing.seen[k]
      /\ docJobs' \in [Processings -> [DocChunks -> {"none", "pending", "succeeded", "failed"}]]
  <2>1. /\ Put(batch) \in [Processings -> [DocChunks -> DocTexts \cup {0}]]
        /\ \A q \in Processings \ {p} : Put(batch)[q] = docPoints[q]
        /\ \A k \in DocChunks : Put(batch)[p][k] =
              IF k \in batch THEN indexing.seen[k] ELSE docPoints[p][k]
    BY <1>1, <1>3 DEF TablesOK, Put
  <2>2. ASSUME NEW s \in {"succeeded", "failed"}
        PROVE  /\ Marked(batch, s) \in
                   [Processings -> [DocChunks -> {"none", "pending", "succeeded", "failed"}]]
               /\ \A q \in Processings \ {p} : Marked(batch, s)[q] = docJobs[q]
               /\ \A k \in DocChunks : Marked(batch, s)[p][k] = IF k \in batch THEN s ELSE docJobs[p][k]
    BY <1>1, <1>3 DEF TablesOK, Marked
  <2>3. CASE docPoints' = Put(batch) /\ docJobs' = Marked(batch, "succeeded")
    BY <2>1, <2>2, <2>3
  <2>4. CASE docPoints' = Put(batch) /\ docJobs' = Marked(batch, "failed")
    BY <2>1, <2>2, <2>4
  <2>5. CASE docPoints' = docPoints /\ docJobs' = Marked(batch, "failed")
    BY <1>1, <2>2, <2>5 DEF TablesOK
  <2> QED
    BY <1>2, <2>3, <2>4, <2>5
<1>6. TablesOK' /\ CommandsOK'
  BY <1>1, <1>2, <1>3, <1>4, <1>5 DEF TablesOK, CommandsOK
<1>7. ImportsRepeat' /\ RunIsAlone' /\ LossIsNoted'
  BY <1>1, <1>2, <1>4 DEF ImportsRepeat, RunIsAlone, Importing, LossIsNoted
<1>8. PassedAreWritten'
  <2> SUFFICES ASSUME p \notin overlapped, indexing.whole, NEW k \in DocRows(p),
                      k \notin indexing.todo \ batch, docJobs'[p][k] = "succeeded"
               PROVE  docPoints'[p][k] = docText[p][k]
    BY <1>2, <1>3, <1>4 DEF PassedAreWritten, DocRows
  <2>1. indexing.seen = docText[p] /\ k \in DocChunks
    BY <1>1, <1>3 DEF RunIsAlone, DocRows
  <2>2. CASE k \in batch
    BY <2>1, <2>2, <1>1, <1>3, <1>5 DEF TablesOK
  <2>3. CASE k \notin batch
    BY <2>1, <2>3, <1>1, <1>3, <1>5 DEF PassedAreWritten
  <2> QED
    BY <2>2, <2>3
<1>9. ActiveIsIndexed'
  <2> SUFFICES ASSUME docActive \notin {Nothing} \cup overlapped \cup bare, NEW k \in DocRows(docActive)
               PROVE  docPoints'[docActive][k] = docText[docActive][k]
    BY <1>1, <1>2 DEF ActiveIsIndexed, DocRows
  <2>1. docActive \in Processings /\ k \in DocChunks /\ docPoints[docActive][k] = docText[docActive][k]
    BY <1>1 DEF TablesOK, ActiveIsIndexed, DocRows
  <2>2. CASE docActive = p /\ k \in batch
    BY <2>1, <2>2, <1>1, <1>3, <1>5 DEF RunIsAlone, TablesOK
  <2> QED
    BY <2>1, <2>2, <1>1, <1>3, <1>5 DEF TablesOK
<1> QED
  BY <1>6, <1>7, <1>8, <1>9 DEF DocIInv

LEMMA CountStep ==
  ASSUME DocIInv, CountRemaining
  PROVE  DocIInv'
<1>1. /\ TablesOK /\ CommandsOK /\ ImportsRepeat /\ RunIsAlone /\ PassedAreWritten
      /\ LossIsNoted /\ ActiveIsIndexed
  BY DEF DocIInv
<1>2. /\ indexing.phase = "batches" /\ indexing.todo = {}
      /\ UNCHANGED <<docStatus, docActive, docText, docJobs, docPoints, importing, overlapped, bare>>
  BY DEF CountRemaining
<1>3. CASE Remaining(indexing.at) = {} /\ indexing' = [indexing EXCEPT !.phase = "publish"]
  <2>1. /\ indexing'.phase = "publish" /\ indexing'.at = indexing.at /\ indexing'.seen = indexing.seen
        /\ indexing'.whole = indexing.whole
    BY <1>1, <1>3 DEF CommandsOK
  <2>2. TablesOK' /\ CommandsOK'
    BY <1>1, <1>2, <1>3 DEF TablesOK, CommandsOK
  <2>3. ImportsRepeat' /\ RunIsAlone' /\ LossIsNoted' /\ ActiveIsIndexed'
    BY <1>1, <1>2, <2>1 DEF ImportsRepeat, RunIsAlone, LossIsNoted, ActiveIsIndexed, Importing, DocRows
  <2>4. PassedAreWritten'
    BY <1>1, <1>2, <1>3, <2>1 DEF PassedAreWritten, DocRows, Remaining
  <2> QED
    BY <2>2, <2>3, <2>4 DEF DocIInv
<1>4. CASE indexing' = NoIndexing
  BY <1>1, <1>2, <1>4, NothingAssumption
     DEF DocIInv, TablesOK, CommandsOK, ImportsRepeat, RunIsAlone, PassedAreWritten,
     LossIsNoted, ActiveIsIndexed, Importing, DocRows, NoIndexing
<1> QED
  BY <1>3, <1>4 DEF CountRemaining

LEMMA PublishStep ==
  ASSUME DocIInv, Publish
  PROVE  DocIInv'
<1>1. /\ TablesOK /\ CommandsOK /\ ImportsRepeat /\ RunIsAlone /\ PassedAreWritten
      /\ LossIsNoted /\ ActiveIsIndexed
  BY DEF DocIInv
<1> DEFINE p == indexing.at
<1>2. /\ indexing.phase = "publish" /\ docStatus' = [docStatus EXCEPT ![p] = "ready"] /\ docActive' = p
      /\ bare' = IF indexing.whole THEN bare \ {p} ELSE bare
      /\ indexing' = NoIndexing
      /\ UNCHANGED <<docText, docJobs, docPoints, importing, overlapped>>
  BY DEF Publish
<1>3. p \in Processings /\ p # Nothing
  BY <1>1, <1>2 DEF CommandsOK
<1>4. \A q \in Processings : docStatus'[q] = IF q = p THEN "ready" ELSE docStatus[q]
  BY <1>1, <1>2, <1>3 DEF TablesOK
<1>5. TablesOK' /\ CommandsOK'
  BY <1>1, <1>2, <1>3 DEF TablesOK, CommandsOK, NoIndexing
<1>6. RunIsAlone' /\ PassedAreWritten' /\ LossIsNoted'
  BY <1>2 DEF RunIsAlone, PassedAreWritten, LossIsNoted, NoIndexing
<1>7. ImportsRepeat'
  BY <1>1, <1>2, <1>3, <1>4 DEF ImportsRepeat, RunIsAlone, Importing, CommandsOK, Import
<1>8. ActiveIsIndexed'
  BY <1>1, <1>2, <1>3, <1>4 DEF ActiveIsIndexed, PassedAreWritten, LossIsNoted, DocRows
<1> QED
  BY <1>5, <1>6, <1>7, <1>8 DEF DocIInv

LEMMA IndexStopsStep ==
  ASSUME DocIInv, IndexDies
  PROVE  DocIInv'
BY NothingAssumption
   DEF DocIInv, TablesOK, CommandsOK, ImportsRepeat, RunIsAlone, PassedAreWritten, LossIsNoted,
   ActiveIsIndexed, Importing, DocRows, NoIndexing, IndexDies

LEMMA LoseStep ==
  ASSUME DocIInv, LoseCollection
  PROVE  DocIInv'
<1>1. /\ indexing'.phase = indexing.phase /\ indexing'.at = indexing.at
      /\ indexing'.seen = indexing.seen
      /\ ~ indexing'.whole /\ bare' = Processings
  BY DEF DocIInv, CommandsOK, LoseCollection
<1>2. TablesOK' /\ CommandsOK'
  BY DEF DocIInv, TablesOK, CommandsOK, LoseCollection
<1> QED
  BY <1>1, <1>2
     DEF DocIInv, TablesOK, CommandsOK, ImportsRepeat, RunIsAlone, PassedAreWritten, LossIsNoted,
     ActiveIsIndexed, Importing, LoseCollection

(* Every command and every death keeps the invariant of the document       *)
(* index.                                                                  *)
THEOREM DocInductive == DocSpec => []DocIInv
<1>1. ASSUME DocIInv, [DocNext]_docVars PROVE DocIInv'
  <2>1. CASE \E m \in Models : \/ \E p \in Processings, b \in DocBundles : BeginImport(m, p, b)
                              \/ CommitImport(m) \/ ImportFails(m)
    BY <1>1, <2>1, BeginImportStep, CommitImportStep, ImportFailsStep
  <2>2. CASE \/ \E p \in Processings : StartProcessing(p)
             \/ \E batch \in SUBSET DocChunks : IndexBatch(batch)
             \/ CountRemaining \/ Publish \/ IndexDies \/ LoseCollection
    BY <1>1, <2>2, StartProcessingStep, IndexBatchStep, CountStep, PublishStep, IndexStopsStep, LoseStep
  <2>3. CASE UNCHANGED docVars
    BY <1>1, <2>3
       DEF docVars, DocIInv, TablesOK, CommandsOK, ImportsRepeat, RunIsAlone, PassedAreWritten,
       LossIsNoted, ActiveIsIndexed, Importing, DocRows
  <2> QED
    BY <1>1, <2>1, <2>2, <2>3 DEF DocNext
<1> QED
  BY <1>1, DocInitIInv, PTL DEF DocSpec

(* Whatever imports and index runs interleave, die or find their           *)
(* collection lost, the active processing of the manuals has all its       *)
(* chunks succeeded and, unless an import met its index run or the         *)
(* collection went bare, a point with the text of each chunk: what a       *)
(* question may be answered from.                                          *)
THEOREM DocumentsIndexed == DocSpec => []DocumentsAreIndexed
<1>1. DocIInv => DocumentsAreIndexed
  BY DEF DocIInv, TablesOK, CommandsOK, DocumentsAreIndexed, DocTypeOK
<1> QED
  BY <1>1, DocInductive, PTL

-----------------------------------------------------------------------------
(***************************************************************************)
(* The posts of a forum's topic: what passes, failures and crashes leave   *)
(* of the rows and their points.                                           *)
(***************************************************************************)
PostState == [text : PostTexts, meta : Metas, eligible : BOOLEAN, visible : BOOLEAN]
TopicRow == [post : Posts, text : PostTexts, meta : Metas,
             status : {"pending", "success", "failed", "obsolete"}, named : BOOLEAN,
             at : Targets \cup {None}, flag : BOOLEAN]

TopicOK ==
    /\ posts \in [Posts -> PostState \cup {None}]
    /\ \A p \in Posts : posts[p] # None /\ posts[p].eligible => posts[p].visible
    /\ postRows \in Seq(TopicRow) /\ Len(postRows) <= MaxRows
    /\ payloads \in [Targets -> [1 .. MaxRows -> Metas \cup {None}]]
    /\ aim \in Targets

(* A row has the provenance of its post, and an active row the text of a   *)
(* post that may be found.                                                 *)
IsOfPost(row) ==
    /\ posts[row.post] # None /\ row.meta = posts[row.post].meta
    /\ row.status # "obsolete" => /\ posts[row.post].visible /\ posts[row.post].eligible
                                  /\ posts[row.post].text = row.text
    /\ row.named => row.at \in Targets

(* The point of an embedded row has the row's provenance, or the row says  *)
(* that it has not.                                                        *)
PointTold(row, r) ==
    row.status = "success" =>
        /\ row.named
        /\ payloads[row.at][r] = row.meta \/ (row.flag /\ payloads[row.at][r] # None)
RowsAreTold == \A r \in DOMAIN postRows : IsOfPost(postRows[r]) /\ PointTold(postRows[r], r)

(* What a pass has taken are rows; the flags it cleared in memory are of   *)
(* rows without a point.                                                   *)
PassOK ==
    /\ pass = [phase |-> pass.phase, todo |-> pass.todo, cleared |-> pass.cleared]
    /\ pass.phase = "payloads" => pass.todo \subseteq SUBSET DOMAIN postRows
    /\ pass.phase \in {"open", "embed"} => pass.todo \subseteq DOMAIN postRows
    /\ pass.phase # "payloads" => pass.cleared = {}
    /\ pass.cleared \subseteq DOMAIN postRows
    /\ \A r \in pass.cleared : ~ postRows[r].named

PostIInv == TopicOK /\ RowsAreTold /\ PassOK

LEMMA SeqOfSet ==
  ASSUME NEW S, IsFiniteSet(S)
  PROVE  SetToSeq(S) \in [1 .. Cardinality(S) -> S] /\ Cardinality(S) \in Nat
<1>1. Cardinality(S) \in Nat /\ \E f \in [1 .. Cardinality(S) -> S] : IsInjective(f)
  BY FS_CardinalityType DEF ExistsBijection, Bijection, Injection
<1> QED
  BY <1>1 DEF SetToSeq

LEMMA PostInitIInv == PostInit => PostIInv
<1> SUFFICES ASSUME PostInit PROVE PostIInv
  OBVIOUS
<1>1. TopicOK
  BY PostBoundsAssumption DEF PostInit, TopicOK
<1>2. RowsAreTold
  BY DEF PostInit, RowsAreTold
<1>3. PassOK
  BY DEF PostInit, PassOK, NoPass
<1> QED
  BY <1>1, <1>2, <1>3 DEF PostIInv

(* What a row owes to its post does not depend on the point, and what its  *)
(* point owes to it not on the post.                                       *)
LEMMA RowsStay ==
  ASSUME PostIInv, UNCHANGED <<posts, postRows>>, aim' \in Targets,
         payloads' \in [Targets -> [1 .. MaxRows -> Metas \cup {None}]],
         \A r \in DOMAIN postRows : PointTold(postRows[r], r)', PassOK'
  PROVE  PostIInv'
<1>1. TopicOK'
  BY DEF PostIInv, TopicOK
<1>2. ASSUME NEW r \in DOMAIN postRows PROVE IsOfPost(postRows[r])'
  BY <1>2 DEF PostIInv, RowsAreTold, IsOfPost
<1>3. RowsAreTold'
  BY <1>2 DEF RowsAreTold
<1> QED
  BY <1>1, <1>3 DEF PostIInv

LEMMA RowsChange ==
  ASSUME PostIInv, UNCHANGED posts, aim' \in Targets, NEW new,
         new \in [DOMAIN postRows -> TopicRow], postRows' = new,
         payloads' \in [Targets -> [1 .. MaxRows -> Metas \cup {None}]],
         \A r \in DOMAIN postRows : IsOfPost(new[r]) /\ PointTold(postRows[r], r)', PassOK'
  PROVE  PostIInv'
<1>1. TopicOK'
  BY DEF PostIInv, TopicOK
<1>2. DOMAIN postRows' = DOMAIN postRows
  OBVIOUS
<1>3. ASSUME NEW r \in DOMAIN postRows PROVE IsOfPost(postRows[r])'
  BY <1>3 DEF IsOfPost
<1>4. RowsAreTold'
  BY <1>2, <1>3 DEF RowsAreTold
<1> QED
  BY <1>1, <1>4 DEF PostIInv

LEMMA JudgedPost ==
  ASSUME PostIInv, NEW snap \in Snapshots, NEW p \in Posts, NEW now, now = Judged(snap)
  PROVE  /\ now[p] \in PostState \cup {None}
         /\ now[p] # None /\ now[p].eligible => now[p].visible
         /\ snap[p] # None => /\ now[p] # None /\ now[p].visible /\ now[p].eligible = Eligible(snap, p)
                              /\ now[p].text = snap[p].text /\ now[p].meta = snap[p].meta
                              /\ snap[p] \in [text : PostTexts, meta : Metas]
         /\ posts[p] # None => now[p] # None
<1>1. CASE snap[p] # None
  <2>1. snap[p] \in [text : PostTexts, meta : Metas] /\ Eligible(snap, p) \in BOOLEAN
    BY <1>1, SnapshotAssumption DEF Eligible
  <2>2. now[p] = [text |-> snap[p].text, meta |-> snap[p].meta,
                  eligible |-> Eligible(snap, p), visible |-> TRUE]
    BY <1>1 DEF Judged
  <2>3. now[p] \in PostState
    BY <2>1, <2>2 DEF PostState
  <2>4. None \notin PostState
    BY PostTextAssumption DEF PostState
  <2>5. /\ now[p].visible = TRUE /\ now[p].eligible = Eligible(snap, p)
        /\ now[p].text = snap[p].text /\ now[p].meta = snap[p].meta
    BY <2>2
  <2> QED
    BY <1>1, <2>1, <2>3, <2>4, <2>5
<1>2. CASE snap[p] = None /\ posts[p] = None
  <2>1. now[p] = None
    BY <1>2 DEF Judged
  <2> QED
    BY <1>2, <2>1
<1>3. CASE snap[p] = None /\ posts[p] # None
  <2>1. posts[p] \in PostState
    BY <1>3 DEF PostIInv, TopicOK
  <2>2. now[p] = [posts[p] EXCEPT !.eligible = FALSE, !.visible = FALSE]
    BY <1>3 DEF Judged
  <2>3. now[p] \in PostState /\ now[p].eligible = FALSE
    BY <2>1, <2>2 DEF PostState
  <2>4. None \notin PostState
    BY PostTextAssumption DEF PostState
  <2> QED
    BY <1>3, <2>3, <2>4
<1> QED
  BY <1>1, <1>2, <1>3

TakesMeta(row, meta, q) ==
    /\ q \in TopicRow /\ q.post = row.post /\ q.text = row.text /\ q.status = row.status
    /\ q.named = row.named /\ q.at = row.at /\ q.meta = meta
    /\ q.flag <=> row.flag \/ (row.named /\ row.meta # meta)

LEMMA LaidOutRow ==
  ASSUME NEW row \in TopicRow, NEW meta \in Metas
  PROVE  TakesMeta(row, meta, LaidOut(row, meta))
<1> DEFINE q == LaidOut(row, meta)
<1>1. ASSUME NEW f \in BOOLEAN
      PROVE  LET x == [row EXCEPT !.meta = meta, !.flag = f]
             IN  /\ x \in TopicRow /\ x.post = row.post /\ x.text = row.text /\ x.status = row.status
                 /\ x.named = row.named /\ x.at = row.at /\ x.meta = meta /\ x.flag = f
  BY DEF TopicRow
<1>2. q = [row EXCEPT !.meta = meta, !.flag = row.flag \/ (row.named /\ row.meta # meta)]
  BY DEF LaidOut, TopicRow
<1>3. row.flag \in BOOLEAN /\ row.named \in BOOLEAN
  BY DEF TopicRow
<1>4. (row.flag \/ (row.named /\ row.meta # meta)) \in BOOLEAN
  BY <1>3
<1> HIDE DEF q
<1> QED
  BY <1>1, <1>2, <1>4 DEF TakesMeta, q

(* The two kinds of rows a snapshot leaves: those there were, and new ones.*)
LEMMA OldRow ==
  ASSUME PostIInv, NEW snap \in Snapshots, NEW r \in DOMAIN postRows, NEW q, NEW x,
         posts' = Judged(snap), UNCHANGED payloads,
         q = IF Expired(snap, postRows[r])
             THEN [postRows[r] EXCEPT !.status = "obsolete"] ELSE postRows[r],
         x = LaidOut(q, posts'[q.post].meta)
  PROVE  x \in TopicRow /\ IsOfPost(x)' /\ PointTold(x, r)' /\ (x.named => postRows[r].named)
<1> DEFINE row == postRows[r]
           p == row.post
<1>1. /\ row \in TopicRow /\ p \in Posts /\ IsOfPost(row) /\ PointTold(row, r)
      /\ posts[p] # None /\ posts[p] \in PostState
  <2>1. row \in TopicRow /\ posts \in [Posts -> PostState \cup {None}]
    BY DEF PostIInv, TopicOK
  <2>2. IsOfPost(row) /\ PointTold(row, r)
    BY DEF PostIInv, RowsAreTold
  <2>3. p \in Posts
    BY <2>1 DEF TopicRow
  <2> QED
    BY <2>1, <2>2, <2>3 DEF IsOfPost
<1>2. /\ q \in TopicRow /\ q.post = p /\ q.text = row.text /\ q.meta = row.meta
      /\ q.named = row.named /\ q.at = row.at /\ q.flag = row.flag
      /\ q.status # "obsolete" => q.status = row.status /\ ~ Expired(snap, row)
  BY <1>1 DEF TopicRow
<1>3. /\ posts'[p] \in PostState /\ posts'[p] # None
      /\ snap[p] # None => /\ posts'[p].visible /\ posts'[p].eligible = Eligible(snap, p)
                           /\ posts'[p].text = snap[p].text
  BY <1>1, JudgedPost
<1>4. posts'[p].meta \in Metas
  BY <1>3 DEF PostState
<1>5. /\ x \in TopicRow /\ x.post = p /\ x.text = row.text /\ x.status = q.status
      /\ x.named = row.named /\ x.at = row.at /\ x.meta = posts'[p].meta
      /\ x.flag <=> row.flag \/ (row.named /\ row.meta # posts'[p].meta)
  <2>1. PICK m \in Metas : m = posts'[p].meta /\ x = LaidOut(q, m)
    BY <1>2, <1>4
  <2>2. TakesMeta(q, m, x)
    BY <1>2, <2>1, LaidOutRow
  <2> QED
    BY <1>2, <2>1, <2>2 DEF TakesMeta
<1>6. ASSUME x.status # "obsolete"
      PROVE  posts'[p].visible /\ posts'[p].eligible /\ posts'[p].text = x.text
  <2>1. ~ Expired(snap, row) /\ row.status # "obsolete"
    BY <1>2, <1>5, <1>6
  <2>2. snap[p] # None /\ posts[p].text = snap[p].text /\ posts[p].eligible = Eligible(snap, p)
    BY <2>1 DEF Expired, Changed
  <2>3. posts[p].eligible /\ posts[p].text = row.text
    BY <1>1, <2>1 DEF IsOfPost
  <2> QED
    BY <1>3, <1>5, <2>2, <2>3
<1>7. IsOfPost(x)'
  <2>1. row.named => row.at \in Targets
    BY <1>1 DEF IsOfPost
  <2> QED
    BY <1>3, <1>5, <1>6, <2>1 DEF IsOfPost
<1>8. PointTold(x, r)'
  <2> SUFFICES ASSUME x.status = "success"
               PROVE  x.named /\ (payloads[x.at][r] = x.meta \/ (x.flag /\ payloads[x.at][r] # None))
    BY DEF PointTold
  <2>1. /\ row.named
        /\ payloads[row.at][r] = row.meta \/ (row.flag /\ payloads[row.at][r] # None)
    BY <1>1, <1>2, <1>5 DEF PointTold
  <2>2. row.meta # None
    BY <1>1, PostTextAssumption DEF TopicRow
  <2> QED
    BY ZenonT(40), <1>5, <2>1, <2>2
<1> QED
  BY <1>2, <1>5, <1>7, <1>8

LEMMA NewRow ==
  ASSUME PostIInv, NEW snap \in Snapshots, NEW p \in Posts, snap[p] # None, Eligible(snap, p),
         posts' = Judged(snap), NEW r, NEW q, NEW x,
         q = PostRow(p, snap[p].text, snap[p].meta), x = LaidOut(q, posts'[q.post].meta)
  PROVE  q \in TopicRow /\ x \in TopicRow /\ IsOfPost(x)' /\ PointTold(x, r)'
<1>1. /\ posts'[p] \in PostState \cup {None} /\ posts'[p] # None /\ posts'[p].visible
      /\ posts'[p].eligible = Eligible(snap, p) /\ posts'[p].text = snap[p].text
      /\ snap[p] \in [text : PostTexts, meta : Metas]
  BY JudgedPost
<1>2. /\ q \in TopicRow /\ q.post = p /\ q.text = snap[p].text /\ q.status = "pending"
      /\ q.named = FALSE
  BY <1>1 DEF PostRow, TopicRow
<1>3. posts'[p].meta \in Metas
  BY <1>1 DEF PostState
<1>4. /\ x \in TopicRow /\ x.post = p /\ x.text = snap[p].text /\ x.status = "pending"
      /\ x.named = FALSE /\ x.meta = posts'[p].meta
  BY <1>2, <1>3, LaidOutRow DEF TakesMeta
<1> QED
  BY <1>1, <1>2, <1>4 DEF IsOfPost, PointTold

LEMMA ProcessTopicStep ==
  ASSUME PostIInv, NEW snap \in Snapshots, ProcessTopic(snap)
  PROVE  PostIInv'
<1> DEFINE gone(r) == IF Expired(snap, postRows[r])
                      THEN [postRows[r] EXCEPT !.status = "obsolete"] ELSE postRows[r]
           made(n) == PostRow(Fresh(snap)[n], snap[Fresh(snap)[n]].text, snap[Fresh(snap)[n]].meta)
           old == [r \in DOMAIN postRows |-> gone(r)]
           new == [n \in DOMAIN Fresh(snap) |-> made(n)]
           both == old \o new
<1>1. /\ pass.phase = "topics" /\ Len(postRows) + Len(new) <= MaxRows
      /\ posts' = Judged(snap) /\ UNCHANGED <<payloads, pass, aim, faults>>
      /\ postRows' = [r \in DOMAIN both |-> LaidOut(both[r], posts'[both[r].post].meta)]
  BY DEF ProcessTopic
<1>2. PICK n \in Nat : Fresh(snap) \in [1 .. n -> {p \in Posts : snap[p] # None /\ Eligible(snap, p)}]
  <2> DEFINE S == {p \in Posts : snap[p] # None /\ Eligible(snap, p) /\ Changed(snap, p)}
  <2>1. IsFiniteSet(S)
    BY RootAssumption, FS_Subset
  <2> HIDE DEF S
  <2>2. SetToSeq(S) \in [1 .. Cardinality(S) -> S] /\ Cardinality(S) \in Nat
    BY <2>1, SeqOfSet
  <2> QED
    BY <2>2 DEF Fresh, S
<1>3. ASSUME NEW r \in DOMAIN postRows
      PROVE  gone(r) \in TopicRow /\ (gone(r).named => postRows[r].named)
  <2>1. postRows[r] \in TopicRow
    BY DEF PostIInv, TopicOK
  <2> QED
    BY <2>1 DEF TopicRow
<1>4. ASSUME NEW k \in 1 .. n PROVE made(k) \in TopicRow
  <2>1. /\ Fresh(snap)[k] \in Posts /\ snap[Fresh(snap)[k]] # None
        /\ Eligible(snap, Fresh(snap)[k])
    BY <1>2
  <2> QED
    BY <1>1, <2>1, NewRow
<1>5. PICK m \in Nat : Len(postRows) = m /\ DOMAIN postRows = 1 .. m
  BY DEF PostIInv, TopicOK
<1>6. /\ old \in Seq(TopicRow) /\ new \in Seq(TopicRow) /\ Len(old) = m /\ Len(new) = n
      /\ \A r \in 1 .. m : old[r] = gone(r)
      /\ \A k \in 1 .. n : new[k] = made(k)
  <2>1. old \in [1 .. m -> TopicRow]
    BY <1>3, <1>5
  <2>2. new \in [1 .. n -> TopicRow]
    BY <1>2, <1>4
  <2>3. \A r \in 1 .. m : old[r] = gone(r)
    BY <1>5
  <2>4. \A k \in 1 .. n : new[k] = made(k)
    BY <1>2
  <2> HIDE DEF old, new
  <2>5. old \in Seq(TopicRow) /\ Len(old) = m
    BY <2>1
  <2>6. new \in Seq(TopicRow) /\ Len(new) = n
    BY <2>2
  <2> QED
    BY <2>3, <2>4, <2>5, <2>6
<1> HIDE DEF old, new, gone, made
<1>7. /\ both \in Seq(TopicRow) /\ DOMAIN both = 1 .. (m + n)
      /\ \A r \in 1 .. m : both[r] = gone(r)
      /\ \A r \in (m + 1) .. (m + n) : r - m \in 1 .. n /\ both[r] = made(r - m)
  BY <1>6
<1> HIDE DEF both
<1>8. ASSUME NEW r \in 1 .. (m + n), NEW x, x = postRows'[r]
      PROVE  /\ x \in TopicRow /\ IsOfPost(x)' /\ PointTold(x, r)'
             /\ r \in DOMAIN postRows => (x.named => postRows[r].named)
  <2>1. PICK q \in TopicRow : q = both[r] /\ x = LaidOut(q, posts'[q.post].meta)
    BY <1>1, <1>7, <1>8
  <2>2. CASE r \in 1 .. m
    <3>1. q = gone(r) /\ r \in DOMAIN postRows
      BY <1>5, <1>7, <2>1, <2>2
    <3> QED
      BY <1>1, <2>1, <3>1, OldRow DEF gone
  <2>3. CASE r \in (m + 1) .. (m + n)
    <3>1. q = made(r - m) /\ r - m \in 1 .. n /\ r \notin DOMAIN postRows
      BY <1>5, <1>7, <2>1, <2>3
    <3>2. PICK p \in Posts : p = Fresh(snap)[r - m] /\ snap[p] # None /\ Eligible(snap, p)
      BY <1>2, <3>1
    <3>3. q = PostRow(p, snap[p].text, snap[p].meta)
      BY <3>1, <3>2 DEF made
    <3> QED
      BY <1>1, <2>1, <3>1, <3>2, <3>3, NewRow
  <2> QED
    BY <2>2, <2>3
<1>9. DOMAIN postRows' = 1 .. (m + n) /\ postRows' \in Seq(TopicRow) /\ Len(postRows') = m + n
  <2>1. postRows' \in [1 .. (m + n) -> TopicRow]
    BY <1>1, <1>7, <1>8
  <2> QED
    BY <2>1
<1>10. TopicOK'
  <2>1. posts' \in [Posts -> PostState \cup {None}]
    <3>1. \A p \in Posts : posts'[p] \in PostState \cup {None}
      BY <1>1, JudgedPost
    <3> QED
      BY <1>1, <3>1 DEF Judged
  <2>2. \A p \in Posts : posts'[p] # None /\ posts'[p].eligible => posts'[p].visible
    BY <1>1, JudgedPost
  <2>3. Len(postRows') <= MaxRows
    BY <1>1, <1>5, <1>6, <1>9
  <2> QED
    BY <1>1, <1>9, <2>1, <2>2, <2>3 DEF PostIInv, TopicOK
<1>11. RowsAreTold'
  BY <1>8, <1>9 DEF RowsAreTold
<1>12. PassOK'
  BY <1>1 DEF PostIInv, PassOK
<1> QED
  BY <1>10, <1>11, <1>12 DEF PostIInv

-----------------------------------------------------------------------------
LEMMA BeginPassStep ==
  ASSUME PostIInv, BeginPass
  PROVE  PostIInv'
<1>1. /\ pass' = [NoPass EXCEPT !.phase = "topics"]
      /\ UNCHANGED <<posts, postRows, payloads, aim>>
  BY DEF BeginPass
<1>2. PassOK'
  BY <1>1 DEF NoPass, PassOK
<1>3. \A r \in DOMAIN postRows : PointTold(postRows[r], r)'
  BY <1>1 DEF PostIInv, RowsAreTold, PointTold
<1> QED
  BY <1>1, <1>2, <1>3, RowsStay DEF PostIInv, TopicOK

LEMMA StartPayloadsStep ==
  ASSUME PostIInv, StartPayloads
  PROVE  PostIInv'
<1> DEFINE window == FirstRows({r \in DOMAIN postRows : postRows[r].flag}, EmbedLimit)
<1>1. /\ pass' = [phase |-> "payloads", todo |-> Batches(window),
                cleared |-> {r \in window : ~postRows[r].named}]
      /\ UNCHANGED <<posts, postRows, payloads, aim>>
  BY DEF StartPayloads
<1>2. window \subseteq DOMAIN postRows
  BY DEF FirstRows
<1> HIDE DEF window
<1>3. Batches(window) \subseteq SUBSET DOMAIN postRows
  <2> SUFFICES ASSUME NEW batch \in Batches(window) PROVE batch \subseteq window
    BY <1>2
  <2>1. \E t \in Targets, k \in 0 .. MaxRows :
           batch = {r \in {q \in window : /\ postRows[q].named /\ postRows[q].at = t
                                          /\ StoreOf[t] = StoreOf[aim]} :
                      Cardinality(Before(r, {q \in window : /\ postRows[q].named /\ postRows[q].at = t
                                          /\ StoreOf[t] = StoreOf[aim]})) \div BatchSize = k}
    BY DEF Batches
  <2> QED
    BY <2>1
<1>4. PassOK'
  BY <1>1, <1>2, <1>3 DEF PassOK
<1>5. \A r \in DOMAIN postRows : PointTold(postRows[r], r)'
  BY <1>1 DEF PostIInv, RowsAreTold, PointTold
<1> QED
  BY <1>1, <1>4, <1>5, RowsStay DEF PostIInv, TopicOK

(* Updated payloads are those of the rows that were written.               *)
LEMMA UpdatedPayloads ==
  ASSUME PostIInv, NEW S \in SUBSET DOMAIN postRows, payloads' = Updated(S)
  PROVE  /\ payloads' \in [Targets -> [1 .. MaxRows -> Metas \cup {None}]]
         /\ \A r \in DOMAIN postRows, t \in Targets :
               payloads'[t][r] = IF r \in S /\ postRows[r].at = t THEN postRows[r].meta
                                 ELSE payloads[t][r]
<1>1. /\ \A r \in DOMAIN postRows : postRows[r] \in TopicRow
      /\ DOMAIN postRows \subseteq 1 .. MaxRows
      /\ payloads \in [Targets -> [1 .. MaxRows -> Metas \cup {None}]]
  BY PostBoundsAssumption DEF PostIInv, TopicOK
<1>2. \A r \in DOMAIN postRows : postRows[r].meta \in Metas
  BY <1>1 DEF TopicRow
<1> QED
  BY <1>1, <1>2 DEF Updated

LEMMA UnflaggedRows ==
  ASSUME PostIInv, NEW S \in SUBSET DOMAIN postRows
  PROVE  /\ Unflagged(S) \in [DOMAIN postRows -> TopicRow]
         /\ \A r \in DOMAIN postRows :
               LET row == Unflagged(S)[r] IN
               /\ row.post = postRows[r].post /\ row.text = postRows[r].text
               /\ row.meta = postRows[r].meta /\ row.status = postRows[r].status
               /\ row.named = postRows[r].named /\ row.at = postRows[r].at
               /\ r \notin S => row = postRows[r]
<1>1. ASSUME NEW r \in DOMAIN postRows
      PROVE  LET row == Unflagged(S)[r] IN
               /\ row \in TopicRow
               /\ row.post = postRows[r].post /\ row.text = postRows[r].text
               /\ row.meta = postRows[r].meta /\ row.status = postRows[r].status
               /\ row.named = postRows[r].named /\ row.at = postRows[r].at
               /\ r \notin S => row = postRows[r]
  <2>1. postRows[r] \in TopicRow
    BY DEF PostIInv, TopicOK
  <2> QED
    BY <2>1 DEF Unflagged, TopicRow
<1>2. Unflagged(S) = [r \in DOMAIN postRows |-> Unflagged(S)[r]]
  BY DEF Unflagged
<1> QED
  BY <1>1, <1>2

LEMMA WriteBatchStep ==
  ASSUME PostIInv, NEW batch \in pass.todo, WriteBatch(batch)
  PROVE  PostIInv'
<1>1. /\ pass.phase = "payloads" /\ payloads' = Updated(batch)
      /\ postRows' = Unflagged(batch \cup pass.cleared)
      /\ pass' = [pass EXCEPT !.todo = @ \ {batch}, !.cleared = {}]
      /\ UNCHANGED <<posts, aim>>
  BY DEF WriteBatch
<1>2. batch \in SUBSET DOMAIN postRows /\ pass.cleared \in SUBSET DOMAIN postRows
  BY <1>1 DEF PostIInv, PassOK
<1> DEFINE new == Unflagged(batch \cup pass.cleared)
<1>3. /\ new \in [DOMAIN postRows -> TopicRow]
      /\ \A r \in DOMAIN postRows :
            /\ new[r].post = postRows[r].post /\ new[r].text = postRows[r].text
            /\ new[r].meta = postRows[r].meta /\ new[r].status = postRows[r].status
            /\ new[r].named = postRows[r].named /\ new[r].at = postRows[r].at
            /\ r \notin batch \cup pass.cleared => new[r] = postRows[r]
  BY <1>2, UnflaggedRows
<1> HIDE DEF new
<1>4. postRows' = new
  BY <1>1 DEF new
<1>5. ASSUME NEW r \in DOMAIN postRows PROVE IsOfPost(new[r]) /\ PointTold(postRows[r], r)'
  <2>1. IsOfPost(postRows[r]) /\ PointTold(postRows[r], r)
    BY DEF PostIInv, RowsAreTold
  <2>2. IsOfPost(new[r])
    BY <1>3, <2>1 DEF IsOfPost
  <2>3. PointTold(postRows[r], r)'
    <3> SUFFICES ASSUME new[r].status = "success"
                 PROVE  /\ new[r].named
                        /\ \/ payloads'[new[r].at][r] = new[r].meta
                           \/ new[r].flag /\ payloads'[new[r].at][r] # None
      BY <1>4 DEF PointTold
    <3>1. /\ postRows[r].named
          /\ \/ payloads[postRows[r].at][r] = postRows[r].meta
             \/ postRows[r].flag /\ payloads[postRows[r].at][r] # None
      BY <1>3, <2>1 DEF PointTold
    <3>2. postRows[r].at \in Targets /\ r \notin pass.cleared
      BY <2>1, <3>1 DEF IsOfPost, PostIInv, PassOK
    <3>3. payloads'[postRows[r].at][r] =
             IF r \in batch THEN postRows[r].meta ELSE payloads[postRows[r].at][r]
      BY <1>1, <1>2, <3>2, UpdatedPayloads
    <3> QED
      BY <1>3, <3>1, <3>2, <3>3
  <2> QED
    BY <2>2, <2>3
<1>6. PassOK'
  <2>1. DOMAIN postRows' = DOMAIN postRows
    BY <1>3, <1>4
  <2> QED
    BY <1>1, <2>1 DEF PostIInv, PassOK
<1>7. payloads' \in [Targets -> [1 .. MaxRows -> Metas \cup {None}]]
  BY <1>1, <1>2, UpdatedPayloads
<1> QED
  BY <1>1, <1>3, <1>4, <1>5, <1>6, <1>7, RowsChange DEF PostIInv, TopicOK

LEMMA BatchFailsStep ==
  ASSUME PostIInv, NEW batch \in pass.todo, BatchFails(batch)
  PROVE  PostIInv'
<1>1. /\ pass.phase = "payloads"
      /\ pass' = [pass EXCEPT !.todo = @ \ {batch}, !.cleared = {}]
      /\ UNCHANGED <<posts, postRows, aim>>
  BY DEF BatchFails
<1>2. batch \in SUBSET DOMAIN postRows
  BY <1>1 DEF PostIInv, PassOK
<1>3. PICK done \in SUBSET DOMAIN postRows : payloads' = Updated(done)
  BY <1>2 DEF BatchFails
<1>4. PassOK'
  BY <1>1 DEF PostIInv, PassOK
<1>5. ASSUME NEW r \in DOMAIN postRows PROVE PointTold(postRows[r], r)'
  <2>1. IsOfPost(postRows[r]) /\ PointTold(postRows[r], r)
    BY DEF PostIInv, RowsAreTold
  <2>2. postRows[r].named => postRows[r].at \in Targets
    BY <2>1 DEF IsOfPost
  <2>3. postRows[r].named =>
           payloads'[postRows[r].at][r] \in {postRows[r].meta, payloads[postRows[r].at][r]}
    BY <1>3, <2>2, UpdatedPayloads
  <2> QED
    BY <1>1, <2>1, <2>3 DEF PointTold
<1> QED
  BY <1>1, <1>3, <1>4, <1>5, RowsStay, UpdatedPayloads DEF PostIInv, TopicOK

(* The flags of rows without a point go.                                   *)
LEMMA ClearedStep ==
  ASSUME PostIInv, pass.phase = "payloads", postRows' = Unflagged(pass.cleared),
         UNCHANGED <<posts, payloads, aim>>, PassOK'
  PROVE  PostIInv'
<1> DEFINE new == Unflagged(pass.cleared)
<1>1. pass.cleared \in SUBSET DOMAIN postRows
  BY DEF PostIInv, PassOK
<1>2. /\ new \in [DOMAIN postRows -> TopicRow]
      /\ \A r \in DOMAIN postRows :
            /\ new[r].post = postRows[r].post /\ new[r].text = postRows[r].text
            /\ new[r].meta = postRows[r].meta /\ new[r].status = postRows[r].status
            /\ new[r].named = postRows[r].named /\ new[r].at = postRows[r].at
            /\ r \notin pass.cleared => new[r] = postRows[r]
  BY <1>1, UnflaggedRows
<1>3. postRows' = new
  OBVIOUS
<1> HIDE DEF new
<1>4. ASSUME NEW r \in DOMAIN postRows PROVE IsOfPost(new[r]) /\ PointTold(postRows[r], r)'
  <2>1. /\ IsOfPost(postRows[r]) /\ PointTold(postRows[r], r)
        /\ r \in pass.cleared => ~ postRows[r].named
    BY DEF PostIInv, RowsAreTold, PassOK
  <2>2. IsOfPost(new[r])
    BY <1>2, <2>1 DEF IsOfPost
  <2>3. PointTold(postRows[r], r)'
    BY <1>2, <1>3, <2>1 DEF PointTold
  <2> QED
    BY <2>2, <2>3
<1> QED
  BY <1>2, <1>3, <1>4, RowsChange DEF PostIInv, TopicOK

LEMMA PayloadsEndStep ==
  ASSUME PostIInv, StartEmbedding \/ EndWithoutEmbedding
  PROVE  PostIInv'
<1> DEFINE window == FirstRows({r \in DOMAIN postRows : Owed(postRows[r])}, EmbedLimit)
<1>1. /\ pass.phase = "payloads" /\ postRows' = Unflagged(pass.cleared)
      /\ UNCHANGED <<posts, payloads, aim>>
  BY DEF StartEmbedding, EndWithoutEmbedding
<1>2. \/ pass' = [phase |-> IF window = {} THEN "idle" ELSE "open", todo |-> window, cleared |-> {}]
      \/ pass' = NoPass
  BY DEF StartEmbedding, EndWithoutEmbedding
<1>3. window \subseteq DOMAIN postRows
  BY DEF FirstRows
<1> HIDE DEF window
<1>4. DOMAIN postRows' = DOMAIN postRows
  BY <1>1 DEF Unflagged
<1>5. PassOK'
  BY <1>2, <1>3, <1>4 DEF PassOK, NoPass
<1> QED
  BY <1>1, <1>5, ClearedStep

(* A row that failed or lost its point.                                    *)
LEMMA FailedRow ==
  ASSUME PostIInv, NEW r \in DOMAIN postRows, NEW q, q = MarkFailed(postRows[r])
  PROVE  q \in TopicRow /\ IsOfPost(q) /\ q.status # "success"
<1>1. postRows[r] \in TopicRow /\ IsOfPost(postRows[r])
  BY DEF PostIInv, RowsAreTold, TopicOK
<1>2. CASE postRows[r].status = "obsolete"
  BY <1>1, <1>2 DEF MarkFailed
<1>3. CASE postRows[r].status # "obsolete"
  <2>1. /\ q \in TopicRow /\ q.post = postRows[r].post /\ q.text = postRows[r].text
        /\ q.meta = postRows[r].meta /\ q.status = "failed" /\ q.named = FALSE
    BY <1>1, <1>3 DEF MarkFailed, TopicRow
  <2> QED
    BY <1>1, <1>3, <2>1 DEF IsOfPost
<1> QED
  BY <1>2, <1>3

LEMMA OpenPointsStep ==
  ASSUME PostIInv, OpenPoints
  PROVE  PostIInv'
<1>1. /\ pass.phase = "open" /\ pass' = [pass EXCEPT !.phase = "embed"]
      /\ UNCHANGED <<posts, postRows, payloads, aim>>
  BY DEF OpenPoints
<1>2. PassOK'
  BY <1>1 DEF PostIInv, PassOK
<1>3. \A r \in DOMAIN postRows : PointTold(postRows[r], r)'
  BY <1>1 DEF PostIInv, RowsAreTold, PointTold
<1> QED
  BY <1>1, <1>2, <1>3, RowsStay DEF PostIInv, TopicOK

LEMMA OpenPointsFailsStep ==
  ASSUME PostIInv, OpenPointsFails
  PROVE  PostIInv'
<1> DEFINE new == [r \in DOMAIN postRows |->
                      IF r \in pass.todo THEN MarkFailed(postRows[r]) ELSE postRows[r]]
<1>1. /\ postRows' = new /\ pass' = NoPass /\ UNCHANGED <<posts, payloads, aim>>
  BY DEF OpenPointsFails
<1>2. ASSUME NEW r \in DOMAIN postRows
      PROVE  new[r] \in TopicRow /\ IsOfPost(new[r]) /\ PointTold(postRows[r], r)'
  <2>1. postRows[r] \in TopicRow /\ IsOfPost(postRows[r]) /\ PointTold(postRows[r], r)
    BY DEF PostIInv, RowsAreTold, TopicOK
  <2>2. CASE r \in pass.todo
    <3>1. PICK q \in TopicRow : q = MarkFailed(postRows[r]) /\ IsOfPost(q) /\ q.status # "success"
      BY FailedRow
    <3>2. new[r] = q
      BY <2>2, <3>1
    <3> HIDE DEF new
    <3> QED
      BY <1>1, <3>1, <3>2 DEF PointTold
  <2>3. CASE r \notin pass.todo
    <3>1. new[r] = postRows[r]
      BY <2>3
    <3> HIDE DEF new
    <3> QED
      BY <1>1, <2>1, <3>1 DEF PointTold
  <2> QED
    BY <2>2, <2>3
<1>3. new \in [DOMAIN postRows -> TopicRow]
  BY <1>2
<1>4. DOMAIN postRows' = DOMAIN postRows
  BY <1>1
<1> HIDE DEF new
<1>5. PassOK'
  BY <1>1, <1>4 DEF PassOK, NoPass
<1> QED
  BY <1>1, <1>2, <1>3, <1>5, RowsChange DEF PostIInv, TopicOK

-----------------------------------------------------------------------------
(* The rows of the embedding window one after the other: one row and its   *)
(* points change.                                                          *)
LEMMA OneRowChanges ==
  ASSUME PostIInv, NEW r \in DOMAIN postRows, TakeRow(r), NEW q \in TopicRow, IsOfPost(q),
         q.status = "success" =>
            q.named /\ (payloads'[q.at][r] = q.meta \/ (q.flag /\ payloads'[q.at][r] # None)),
         postRows' = [postRows EXCEPT ![r] = q],
         payloads' \in [Targets -> [1 .. MaxRows -> Metas \cup {None}]],
         \A t \in Targets, s \in DOMAIN postRows \ {r} : payloads'[t][s] = payloads[t][s]
  PROVE  PostIInv'
<1>1. /\ pass.phase = "embed" /\ r \in pass.todo /\ UNCHANGED <<posts, aim>>
      /\ pass' = [pass EXCEPT !.todo = @ \ {r}, !.phase = IF pass.todo = {r} THEN "idle" ELSE @]
  BY DEF TakeRow
<1> DEFINE rows == [s \in DOMAIN postRows |-> IF s = r THEN q ELSE postRows[s]]
<1>4. postRows' = rows
  BY DEF PostIInv, TopicOK
<1>5. ASSUME NEW s \in DOMAIN postRows
      PROVE  rows[s] \in TopicRow /\ IsOfPost(rows[s]) /\ PointTold(postRows[s], s)'
  <2>1. postRows[s] \in TopicRow /\ IsOfPost(postRows[s]) /\ PointTold(postRows[s], s)
    BY DEF PostIInv, RowsAreTold, TopicOK
  <2>2. CASE s = r
    <3>1. rows[s] = q
      BY <2>2
    <3> HIDE DEF rows
    <3> QED
      BY <1>4, <2>2, <3>1 DEF PointTold
  <2>3. CASE s # r
    <3>1. rows[s] = postRows[s]
      BY <2>3
    <3>2. postRows[s].named => postRows[s].at \in Targets
      BY <2>1 DEF IsOfPost
    <3> HIDE DEF rows
    <3> QED
      BY <1>4, <2>1, <2>3, <3>1, <3>2 DEF PointTold
  <2> QED
    BY <2>2, <2>3
<1>6. rows \in [DOMAIN postRows -> TopicRow]
  BY <1>5
<1>7. DOMAIN postRows' = DOMAIN postRows
  BY <1>4
<1> HIDE DEF rows
<1>8. PassOK'
  BY <1>1, <1>7 DEF PostIInv, PassOK
<1> QED
  BY <1>1, <1>4, <1>5, <1>6, <1>8, RowsChange DEF PostIInv, TopicOK

LEMMA PointWrites ==
  ASSUME PostIInv, NEW t \in Targets, NEW r \in DOMAIN postRows, NEW m \in Metas \cup {None}
  PROVE  LET new == [payloads EXCEPT ![t][r] = m] IN
         /\ new \in [Targets -> [1 .. MaxRows -> Metas \cup {None}]] /\ new[t][r] = m
         /\ \A u \in Targets, s \in DOMAIN postRows \ {r} : new[u][s] = payloads[u][s]
<1>1. DOMAIN postRows \subseteq 1 .. MaxRows
  BY PostBoundsAssumption DEF PostIInv, TopicOK
<1> QED
  BY <1>1 DEF PostIInv, TopicOK

LEMMA DeleteExpiredStep ==
  ASSUME PostIInv, NEW r \in 1 .. MaxRows, DeleteExpired(r)
  PROVE  PostIInv'
<1>1. /\ TakeRow(r) /\ postRows[r].status = "obsolete" /\ r \in DOMAIN postRows
      /\ payloads' = [payloads EXCEPT ![postRows[r].at][r] = None]
      /\ postRows' = [postRows EXCEPT ![r].named = FALSE]
  BY DEF DeleteExpired, TakeRow, PostIInv, PassOK
<1>2. postRows[r] \in TopicRow /\ IsOfPost(postRows[r])
  BY <1>1 DEF PostIInv, RowsAreTold, TopicOK
<1>3. PICK q \in TopicRow : /\ q = [postRows[r] EXCEPT !.named = FALSE] /\ q.status = "obsolete"
                            /\ IsOfPost(q)
  <2>1. LET q == [postRows[r] EXCEPT !.named = FALSE] IN
           /\ q \in TopicRow /\ q.post = postRows[r].post /\ q.meta = postRows[r].meta
           /\ q.status = "obsolete" /\ q.named = FALSE
    BY <1>1, <1>2 DEF TopicRow
  <2> QED
    BY <1>2, <2>1 DEF IsOfPost
<1>4. postRows' = [postRows EXCEPT ![r] = q]
  BY <1>1, <1>3
<1>5. /\ payloads' \in [Targets -> [1 .. MaxRows -> Metas \cup {None}]]
      /\ \A t \in Targets, s \in DOMAIN postRows \ {r} : payloads'[t][s] = payloads[t][s]
  <2>1. CASE postRows[r].at \in Targets
    <3>1. payloads' = [payloads EXCEPT ![postRows[r].at][r] = None] /\ r \in DOMAIN postRows
      BY <1>1
    <3> QED
      BY <2>1, <3>1, PointWrites
  <2>2. CASE postRows[r].at \notin Targets
    BY <1>1, <2>2 DEF PostIInv, TopicOK
  <2> QED
    BY <2>1, <2>2
<1> QED
  BY <1>1, <1>3, <1>4, <1>5, OneRowChanges

LEMMA EmbedRowStep ==
  ASSUME PostIInv, NEW r \in 1 .. MaxRows, EmbedRow(r)
  PROVE  PostIInv'
<1>1. TakeRow(r) /\ postRows[r].status # "obsolete" /\ r \in DOMAIN postRows
  BY DEF EmbedRow, TakeRow, PostIInv, PassOK
<1>2. postRows[r] \in TopicRow /\ IsOfPost(postRows[r]) /\ aim \in Targets
  BY <1>1 DEF PostIInv, RowsAreTold, TopicOK
<1>3. CASE /\ payloads' = [payloads EXCEPT ![aim][r] = postRows[r].meta]
           /\ postRows' = [postRows EXCEPT ![r].status = "success", ![r].named = TRUE, ![r].at = aim]
  <2>1. PICK q \in TopicRow :
          /\ q = [postRows[r] EXCEPT !.status = "success", !.named = TRUE, !.at = aim]
          /\ q.named /\ q.at = aim /\ q.meta = postRows[r].meta /\ IsOfPost(q)
    <3>1. LET q == [postRows[r] EXCEPT !.status = "success", !.named = TRUE, !.at = aim] IN
             /\ q \in TopicRow /\ q.post = postRows[r].post /\ q.meta = postRows[r].meta
             /\ q.text = postRows[r].text /\ q.named = TRUE /\ q.at = aim
      BY <1>2 DEF TopicRow
    <3> QED
      BY <1>1, <1>2, <3>1 DEF IsOfPost
  <2>2. postRows' = [postRows EXCEPT ![r] = q]
    BY <1>1, <1>3, <2>1 DEF PostIInv, TopicOK
  <2>3. postRows[r].meta \in Metas \cup {None}
    BY <1>2 DEF TopicRow
  <2>4. /\ payloads' \in [Targets -> [1 .. MaxRows -> Metas \cup {None}]]
        /\ payloads'[aim][r] = q.meta
        /\ \A t \in Targets, s \in DOMAIN postRows \ {r} : payloads'[t][s] = payloads[t][s]
    BY <1>1, <1>2, <1>3, <2>1, <2>3, PointWrites
  <2> QED
    BY <1>1, <2>1, <2>2, <2>4, OneRowChanges
<1>4. CASE postRows' = [postRows EXCEPT ![r].status = "obsolete"] /\ UNCHANGED payloads
  <2>1. PICK q \in TopicRow :
          q = [postRows[r] EXCEPT !.status = "obsolete"] /\ q.status = "obsolete" /\ IsOfPost(q)
    <3>1. LET q == [postRows[r] EXCEPT !.status = "obsolete"] IN
             /\ q \in TopicRow /\ q.post = postRows[r].post /\ q.meta = postRows[r].meta
             /\ q.status = "obsolete" /\ q.named = postRows[r].named /\ q.at = postRows[r].at
      BY <1>2 DEF TopicRow
    <3> QED
      BY <1>2, <3>1 DEF IsOfPost
  <2>2. postRows' = [postRows EXCEPT ![r] = q]
    BY <1>1, <1>4, <2>1 DEF PostIInv, TopicOK
  <2>3. payloads \in [Targets -> [1 .. MaxRows -> Metas \cup {None}]]
    BY DEF PostIInv, TopicOK
  <2> QED
    BY <1>1, <1>4, <2>1, <2>2, <2>3, OneRowChanges
<1> QED
  BY <1>3, <1>4 DEF EmbedRow

LEMMA RowFailsStep ==
  ASSUME PostIInv, NEW r \in 1 .. MaxRows, RowFails(r)
  PROVE  PostIInv'
<1>1. TakeRow(r) /\ r \in DOMAIN postRows
      /\ postRows' = [postRows EXCEPT ![r] = MarkFailed(postRows[r])]
  BY DEF RowFails, TakeRow, PostIInv, PassOK
<1>2. postRows[r] \in TopicRow /\ IsOfPost(postRows[r]) /\ aim \in Targets
  BY <1>1 DEF PostIInv, RowsAreTold, TopicOK
<1>3. PICK q \in TopicRow : q = MarkFailed(postRows[r]) /\ IsOfPost(q) /\ q.status # "success"
  BY <1>1, FailedRow
<1>4. /\ payloads' \in [Targets -> [1 .. MaxRows -> Metas \cup {None}]]
      /\ \A t \in Targets, s \in DOMAIN postRows \ {r} : payloads'[t][s] = payloads[t][s]
  <2>1. CASE payloads' = payloads
    BY <2>1 DEF PostIInv, TopicOK
  <2>2. CASE payloads' = [payloads EXCEPT ![aim][r] = postRows[r].meta]
    <3>1. postRows[r].meta \in Metas \cup {None}
      BY <1>2 DEF TopicRow
    <3> QED
      BY <1>1, <1>2, <2>2, <3>1, PointWrites
  <2>3. CASE payloads' = [payloads EXCEPT ![postRows[r].at][r] = None]
    <3>1. CASE postRows[r].at \in Targets
      BY SMTT(40), <1>1, <2>3, <3>1, PointWrites
    <3>2. CASE postRows[r].at \notin Targets
      BY <2>3, <3>2 DEF PostIInv, TopicOK
    <3> QED
      BY <3>1, <3>2
  <2> QED
    BY <2>1, <2>2, <2>3 DEF RowFails
<1> QED
  BY <1>1, <1>3, <1>4, OneRowChanges

LEMMA PassStopsStep ==
  ASSUME PostIInv, PassDies \/ \E t \in Targets : Retarget(t)
  PROVE  PostIInv'
<1>1. UNCHANGED <<posts, postRows, payloads>> /\ aim' \in Targets
  BY DEF PassDies, Retarget, PostIInv, TopicOK
<1>2. PassOK'
  BY <1>1 DEF PassDies, Retarget, NoPass, PostIInv, PassOK
<1>3. \A r \in DOMAIN postRows : PointTold(postRows[r], r)'
  BY <1>1 DEF PostIInv, RowsAreTold, PointTold
<1> QED
  BY <1>1, <1>2, <1>3, RowsStay DEF PostIInv, TopicOK

(* Every step of a pass, every failure and every crash keeps the           *)
(* invariant of a topic.                                                   *)
THEOREM PostInductive == PostSpec => []PostIInv
<1>1. ASSUME PostIInv, [PostNext]_forumVars PROVE PostIInv'
  <2>1. CASE PassStep
    BY <1>1, <2>1, StartPayloadsStep, WriteBatchStep, BatchFailsStep, PayloadsEndStep,
       OpenPointsStep, OpenPointsFailsStep, DeleteExpiredStep, EmbedRowStep, RowFailsStep
       DEF PassStep
  <2>2. CASE UNCHANGED forumVars
    <3>1. UNCHANGED <<posts, postRows, payloads, pass, aim>>
      BY <2>2 DEF forumVars
    <3>2. PassOK' /\ \A r \in DOMAIN postRows : PointTold(postRows[r], r)'
      BY <1>1, <3>1 DEF PostIInv, PassOK, RowsAreTold, PointTold
    <3> QED
      BY <1>1, <3>1, <3>2, RowsStay DEF PostIInv, TopicOK
  <2> QED
    BY <1>1, <2>1, <2>2, BeginPassStep, ProcessTopicStep, PassStopsStep DEF PostNext
<1> QED
  BY <1>1, PostInitIInv, PTL DEF PostSpec

(* No lost answer, rolled back batch or crash between a call and its       *)
(* commit loses an update: an active chunk's point has the text and the    *)
(* provenance of a post that may be found, or its row is flagged for the   *)
(* next pass.                                                              *)
THEOREM PostsCurrent == PostSpec => []PostsAreCurrent
<1>1. PostIInv => PostsAreCurrent
  <2> SUFFICES ASSUME PostIInv PROVE PostTypeOK /\ PayloadIsCurrent
    BY DEF PostsAreCurrent
  <2>1. ASSUME NEW p \in Posts, posts[p] # None
        PROVE  posts[p].text \in PostTexts /\ posts[p].meta \in Metas
                  /\ (posts[p].eligible => posts[p].visible)
    BY <2>1 DEF PostIInv, TopicOK, PostState
  <2>2. ASSUME NEW r \in DOMAIN postRows
        PROVE  /\ postRows[r] \in TopicRow /\ IsOfPost(postRows[r])
               /\ PointTold(postRows[r], r)
    BY DEF PostIInv, TopicOK, RowsAreTold
  <2>3. \A r \in DOMAIN postRows :
          /\ postRows[r].status \in {"pending", "success", "failed", "obsolete"}
          /\ postRows[r].at \in Targets \cup {None}
          /\ postRows[r].named => postRows[r].at # None
    BY <2>2, NoTargetAssumption DEF TopicRow, IsOfPost
  <2>4. PostTypeOK
    BY <2>1, <2>3 DEF PostTypeOK, PostIInv, TopicOK
  <2>5. PayloadIsCurrent
    BY <2>2 DEF PayloadIsCurrent, IsOfPost, PointTold
  <2> QED
    BY <2>4, <2>5
<1> QED
  BY <1>1, PostInductive, PTL

-----------------------------------------------------------------------------
(* The cutters of texts.                                                   *)

Kinds == {"x", " ", "n", "."}

LEMMA TextShape ==
  ASSUME NEW t \in CutTexts
  PROVE  Len(t) \in Nat /\ DOMAIN t = 1 .. Len(t) /\ t \in [1 .. Len(t) -> Kinds]
<1>1. PICK n \in 0 .. MaxText : t \in [1 .. n -> Kinds]
  BY DEF CutTexts, Kinds
<1>2. n \in Nat
  BY <1>1, CutBounds
<1>3. Len(t) = n
  BY <1>1, <1>2
<1> QED
  BY <1>1, <1>2, <1>3

(* Whether a paragraph ends at a line break. *)
Break(t, f, i) ==
  IF i = 0 THEN FALSE ELSE t[i] = "n" /\ i < Len(t) /\ t[i + 1] = "n" /\ ~f[i - 1]
Breaking == INSTANCE DataInduction WITH Op <- Break

LEMMA LastIn ==
  ASSUME NEW n \in Nat, NEW S \in SUBSET (1 .. n), S # {}
  PROVE  LastOf(S) \in S /\ \A y \in S : y <= LastOf(S)
<1>1. Breaking!Max(S) \in S /\ \A y \in S : y <= Breaking!Max(S)
  BY Breaking!MaxOfRange
<1> QED
  BY <1>1 DEF LastOf

LEMMA FirstIn ==
  ASSUME NEW S, S \subseteq Nat, S # {}
  PROVE  FirstOf(S) \in S /\ \A y \in S : FirstOf(S) <= y
<1>1. \E x \in S : \A y \in S : x <= y
  BY Breaking!LeastNumber
<1> QED
  BY <1>1 DEF FirstOf

(* The visible characters are those of the trimmed text. *)
LEMMA TrimmedInk ==
  ASSUME NEW t \in CutTexts, NEW a, NEW b, TrimmedSpan(t) = <<a, b>>
  PROVE  /\ a \in Nat /\ b \in Nat /\ a <= b /\ b <= Len(t)
         /\ Ink(t) \subseteq a + 1 .. b
         /\ a = b <=> Ink(t) = {}
         /\ Ink(t) # {} => a + 1 \in Ink(t) /\ b \in Ink(t)
<1>1. Len(t) \in Nat /\ Ink(t) \in SUBSET (1 .. Len(t))
  BY TextShape DEF Ink
<1>2. CASE Ink(t) = {}
  BY <1>1, <1>2 DEF TrimmedSpan
<1>3. CASE Ink(t) # {}
  <2> DEFINE I == Ink(t)
  <2>1. a = FirstOf(I) - 1 /\ b = LastOf(I)
    BY <1>3 DEF TrimmedSpan
  <2> HIDE DEF I
  <2>2. I # {} /\ I \in SUBSET (1 .. Len(t))
    BY <1>1, <1>3 DEF I
  <2>3. FirstOf(I) \in I /\ \A y \in I : FirstOf(I) <= y
    <3>1. I \subseteq Nat
      BY <2>2
    <3> QED
      BY <2>2, <3>1, FirstIn
  <2>4. LastOf(I) \in I /\ \A y \in I : y <= LastOf(I)
    BY <1>1, <2>2, LastIn
  <2>5. \A y \in I : y \in Nat /\ 1 <= y /\ y <= Len(t)
    BY <1>1, <2>2
  <2>6. a \in Nat /\ b \in Nat /\ a < b /\ b <= Len(t)
    BY <1>1, <2>1, <2>3, <2>4, <2>5
  <2>7. a + 1 = FirstOf(I)
    BY <2>1, <2>3, <2>5
  <2>8. \A y \in I : y \in a + 1 .. b
    BY <2>1, <2>3, <2>4, <2>5, <2>6, <2>7
  <2>9. I # {} /\ I \subseteq a + 1 .. b /\ a + 1 \in I /\ b \in I
    BY <2>1, <2>2, <2>3, <2>4, <2>7, <2>8
  <2> QED
    BY <2>6, <2>9 DEF I
<1> QED
  BY <1>2, <1>3

(* Cuts of at most max characters between a and b, in order, that hold the *)
(* characters of K.                                                        *)
Tiles(q, a, b, max, K) ==
  /\ q \in Seq(Nat \X Nat)
  /\ \A i \in DOMAIN q : a <= q[i][1] /\ q[i][1] <= q[i][2] /\ q[i][2] <= b
                         /\ q[i][2] - q[i][1] <= max
  /\ \A i, j \in DOMAIN q : i < j => q[i][2] <= q[j][1]
  /\ \A k \in K : \E i \in DOMAIN q : q[i][1] < k /\ k <= q[i][2]

LEMMA NoTile ==
  ASSUME NEW a \in Nat, NEW b \in Nat, NEW max \in Nat
  PROVE  Tiles(<<>>, a, b, max, {})
<1>1. <<>> \in Seq(Nat \X Nat) /\ DOMAIN <<>> = {}
  BY EmptySeq
<1> QED
  BY <1>1 DEF Tiles

LEMMA Prepended ==
  ASSUME NEW S, NEW x \in S, NEW q \in Seq(S), NEW r, r = <<x>> \o q
  PROVE  /\ r \in Seq(S) /\ DOMAIN r = 1 .. Len(q) + 1 /\ r[1] = x
         /\ \A i \in 1 .. Len(q) : r[i + 1] = q[i]
         /\ \A i \in DOMAIN r : i # 1 => i - 1 \in 1 .. Len(q) /\ r[i] = q[i - 1]
<1> DEFINE h == <<x>>
           n == Len(q)
<1>1. h \in Seq(S) /\ Len(h) = 1 /\ h[1] = x
  OBVIOUS
<1>2. n \in Nat
  OBVIOUS
<1>3. /\ r \in Seq(S) /\ Len(r) = 1 + n
      /\ \A i \in 1 .. 1 + n : r[i] = IF i <= 1 THEN h[i] ELSE q[i - 1]
  <2> HIDE DEF h
  <2>1. h \o q \in Seq(S) /\ Len(h \o q) = Len(h) + Len(q)
        /\ \A i \in 1 .. Len(h) + Len(q) : (h \o q)[i] = IF i <= Len(h) THEN h[i] ELSE q[i - Len(h)]
    BY <1>1, ConcatProperties
  <2> QED
    BY <1>1, <2>1 DEF h
<1> HIDE DEF h, n
<1>4. r[1] = x
  <2>1. 1 \in 1 .. 1 + n
    BY <1>2
  <2> QED
    BY <1>1, <1>3, <2>1
<1>5. DOMAIN r = 1 .. n + 1
  <2>1. DOMAIN r = 1 .. Len(r)
    BY <1>3
  <2> QED
    BY <1>2, <1>3, <2>1
<1>6. ASSUME NEW i \in 1 .. n PROVE r[i + 1] = q[i]
  <2>1. i + 1 \in 1 .. 1 + n /\ ~(i + 1 <= 1) /\ (i + 1) - 1 = i
    BY <1>2
  <2> QED
    BY <1>3, <2>1
<1>7. ASSUME NEW i \in DOMAIN r, i # 1 PROVE i - 1 \in 1 .. n /\ r[i] = q[i - 1]
  <2>1. i - 1 \in 1 .. n /\ (i - 1) + 1 = i
    BY <1>2, <1>5, <1>7
  <2> QED
    BY <1>6, <2>1
<1> QED
  BY <1>3, <1>4, <1>5, <1>6, <1>7 DEF n

LEMMA FirstTile ==
  ASSUME NEW a \in Nat, NEW e \in Nat, NEW c \in Nat, NEW b \in Nat, NEW max \in Nat,
         a <= e, e <= c, c <= b, e - a <= max, NEW K, NEW q, Tiles(q, c, b, max, K)
  PROVE  Tiles(<< <<a, e>> >> \o q, a, b, max, (a + 1 .. e) \cup K)
<1> DEFINE r == << <<a, e>> >> \o q
<1>1. q \in Seq(Nat \X Nat) /\ <<a, e>> \in Nat \X Nat
  BY DEF Tiles
<1>2. /\ r \in Seq(Nat \X Nat) /\ DOMAIN r = 1 .. Len(q) + 1 /\ r[1] = <<a, e>>
      /\ \A i \in 1 .. Len(q) : r[i + 1] = q[i]
      /\ \A i \in DOMAIN r : i # 1 => i - 1 \in 1 .. Len(q) /\ r[i] = q[i - 1]
  <2> DEFINE S == Nat \X Nat
             x == <<a, e>>
  <2>1. x \in S /\ q \in Seq(S) /\ r = <<x>> \o q
    BY <1>1
  <2> HIDE DEF S, x, r
  <2>2. /\ r \in Seq(S) /\ DOMAIN r = 1 .. Len(q) + 1 /\ r[1] = x
        /\ \A i \in 1 .. Len(q) : r[i + 1] = q[i]
        /\ \A i \in DOMAIN r : i # 1 => i - 1 \in 1 .. Len(q) /\ r[i] = q[i - 1]
    BY <2>1, Prepended
  <2> QED
    BY <2>2 DEF S, x
<1>3. Len(q) \in Nat /\ DOMAIN q = 1 .. Len(q) /\ \A i \in DOMAIN q : q[i] \in Nat \X Nat
  BY <1>1
<1> HIDE DEF r
<1>4. 1 \in DOMAIN r /\ \A i \in DOMAIN q : i + 1 \in DOMAIN r /\ r[i + 1] = q[i]
  <2> DEFINE n == Len(q)
  <2>1. n \in Nat /\ DOMAIN q = 1 .. n /\ DOMAIN r = 1 .. n + 1 /\ \A i \in 1 .. n : r[i + 1] = q[i]
    BY <1>2, <1>3
  <2> HIDE DEF n
  <2>2. 1 \in 1 .. n + 1 /\ \A i \in 1 .. n : i + 1 \in 1 .. n + 1
    BY <2>1
  <2> QED
    BY <2>1, <2>2
<1>5. \A i \in DOMAIN r : i \in Int /\ (i # 1 => i - 1 \in DOMAIN q /\ r[i] = q[i - 1] /\ i > 1)
  BY <1>2, <1>3
<1>6. ASSUME NEW i \in DOMAIN r
      PROVE  a <= r[i][1] /\ r[i][1] <= r[i][2] /\ r[i][2] <= b /\ r[i][2] - r[i][1] <= max
  <2>1. CASE i = 1
    BY <1>2, <2>1
  <2>2. CASE i # 1
    <3>1. i - 1 \in DOMAIN q /\ r[i] = q[i - 1] /\ q[i - 1] \in Nat \X Nat
      BY <1>3, <1>5, <2>2
    <3>2. c <= q[i - 1][1] /\ q[i - 1][1] <= q[i - 1][2] /\ q[i - 1][2] <= b
          /\ q[i - 1][2] - q[i - 1][1] <= max
      BY <3>1 DEF Tiles
    <3> QED
      BY <3>1, <3>2
  <2> QED
    BY <2>1, <2>2
<1>7. ASSUME NEW i \in DOMAIN r, NEW j \in DOMAIN r, i < j PROVE r[i][2] <= r[j][1]
  <2>1. j - 1 \in DOMAIN q /\ r[j] = q[j - 1] /\ q[j - 1] \in Nat \X Nat
    <3>1. j # 1
      BY <1>5, <1>7
    <3> QED
      BY <1>3, <1>5, <3>1
  <2>2. CASE i = 1
    <3>1. c <= q[j - 1][1]
      BY <2>1 DEF Tiles
    <3> QED
      BY <1>2, <2>1, <2>2, <3>1
  <2>3. CASE i # 1
    <3>1. i - 1 \in DOMAIN q /\ r[i] = q[i - 1]
      BY <1>5, <2>3
    <3>2. i - 1 < j - 1
      BY <1>5, <1>7
    <3> QED
      BY <2>1, <3>1, <3>2 DEF Tiles
  <2> QED
    BY <2>2, <2>3
<1>8. ASSUME NEW k \in (a + 1 .. e) \cup K
      PROVE  \E i \in DOMAIN r : r[i][1] < k /\ k <= r[i][2]
  <2>1. CASE k \in a + 1 .. e
    <3>1. 1 \in DOMAIN r /\ r[1] = <<a, e>>
      BY <1>2, <1>4
    <3> QED
      BY <2>1, <3>1
  <2>2. CASE k \in K
    <3>1. PICK i \in DOMAIN q : q[i][1] < k /\ k <= q[i][2]
      BY <2>2 DEF Tiles
    <3>2. i + 1 \in DOMAIN r /\ r[i + 1] = q[i]
      BY <1>4
    <3> QED
      BY <3>1, <3>2
  <2> QED
    BY <2>1, <2>2
<1> QED
  BY <1>2, <1>6, <1>7, <1>8 DEF Tiles, r

LEMMA Multiples ==
  ASSUME NEW d \in Nat, NEW i \in Nat, NEW j \in Nat, i <= j
  PROVE  i * d \in Nat /\ j * d \in Nat /\ i * d <= j * d
<1>1. i * d \in Nat /\ j * d \in Nat
  OBVIOUS
<1>2. (j - i) * d >= 0
  OBVIOUS
<1>3. j * d = i * d + (j - i) * d
  OBVIOUS
<1> QED
  BY <1>1, <1>2, <1>3

LEMMA SlicesTile ==
  ASSUME NEW a \in Nat, NEW b \in Nat, a <= b, NEW max \in Nat \ {0}
  PROVE  Tiles(Slices(a, b, max), a, b, max, a + 1 .. b)
<1> DEFINE M == b - a + max - 1
           m == M \div max
           q == Slices(a, b, max)
<1>1. M \in Nat
  OBVIOUS
<1>2. m \in Nat /\ M % max \in 0 .. max - 1 /\ M = max * m + (M % max)
  BY <1>1, Breaking!Division
<1>3. q = [k \in 1 .. m |-> <<a + (k - 1) * max, Least(a + k * max, b)>>]
  BY DEF Slices
<1>4. M = b - a + max - 1
  OBVIOUS
<1> HIDE DEF m, q
<1>5. ASSUME NEW k \in 1 .. m
      PROVE  /\ a + (k - 1) * max \in Nat /\ a + k * max \in Nat
             /\ a + k * max = a + (k - 1) * max + max
             /\ a + (k - 1) * max < b
  <2> HIDE DEF M
  <2>1. k \in Nat /\ k - 1 \in Nat /\ k <= m
    BY <1>2
  <2>2. k * max \in Nat /\ (k - 1) * max \in Nat /\ k * max = (k - 1) * max + max
    BY <2>1
  <2>3. k * max <= m * max
    BY <1>2, <2>1, Multiples
  <2>4. m * max = max * m
    BY <1>2
  <2>5. max * m <= M
    <3>1. max * m \in Nat
      BY <1>2
    <3> QED
      BY <1>1, <1>2, <3>1
  <2>6. (k - 1) * max + max <= M
    <3>1. m * max \in Nat /\ m * max <= M
      BY <1>2, <2>4, <2>5
    <3> QED
      BY <1>1, <2>2, <2>3, <3>1
  <2>7. (k - 1) * max < b - a
    BY <1>4, <2>2, <2>6
  <2> QED
    BY <2>2, <2>7
<1>6. ASSUME NEW k \in 1 .. m
      PROVE  /\ q[k] \in Nat \X Nat /\ q[k][1] = a + (k - 1) * max
             /\ q[k][2] = Least(a + k * max, b)
             /\ a <= q[k][1] /\ q[k][1] <= q[k][2] /\ q[k][2] <= b /\ q[k][2] - q[k][1] <= max
  <2>1. q[k] = <<a + (k - 1) * max, Least(a + k * max, b)>>
    BY <1>3
  <2> DEFINE x == (k - 1) * max
             y == k * max
  <2>2. a + x \in Nat /\ a + y \in Nat /\ a + y = a + x + max /\ a + x < b
    BY <1>5
  <2>3. x \in Nat
    <3>1. k - 1 \in Nat
      BY <1>2
    <3> QED
      BY <3>1
  <2>4. q[k] = <<a + x, Least(a + y, b)>>
    BY <2>1
  <2> HIDE DEF x, y
  <2>5. Least(a + y, b) \in Nat /\ a + x <= Least(a + y, b) /\ Least(a + y, b) <= b
        /\ Least(a + y, b) <= a + x + max
    BY <2>2 DEF Least
  <2>6. a + x \in Nat /\ a <= a + x /\ Least(a + y, b) - (a + x) <= max
    BY <2>2, <2>3, <2>5
  <2>7. q[k][1] = a + x /\ q[k][2] = Least(a + y, b) /\ q[k] \in Nat \X Nat
    BY <2>4, <2>5, <2>6
  <2> QED
    BY <2>5, <2>6, <2>7 DEF x, y
<1>7. q \in [1 .. m -> Nat \X Nat] /\ DOMAIN q = 1 .. m
  BY <1>3, <1>6
<1>8. q \in Seq(Nat \X Nat)
  BY <1>2, <1>7
<1>9. ASSUME NEW i \in 1 .. m, NEW j \in 1 .. m, i < j PROVE q[i][2] <= q[j][1]
  <2>1. i \in Nat /\ j - 1 \in Nat /\ i <= j - 1
    BY <1>2, <1>9
  <2>2. i * max <= (j - 1) * max
    BY <2>1, Multiples
  <2>3. q[i][2] <= a + i * max
    BY <1>5, <1>6 DEF Least
  <2>4. i * max \in Nat /\ (j - 1) * max \in Nat
    BY <2>1
  <2>5. q[i][2] \in Nat /\ q[j][1] = a + (j - 1) * max
    BY <1>6
  <2> QED
    BY <2>2, <2>3, <2>4, <2>5
<1>10. ASSUME NEW k \in a + 1 .. b PROVE \E i \in 1 .. m : q[i][1] < k /\ k <= q[i][2]
  <2> DEFINE N == k - a - 1
             c == N \div max
  <2>1. N \in Nat /\ N <= b - a - 1
    OBVIOUS
  <2>2. c \in Nat /\ N % max \in 0 .. max - 1 /\ N = max * c + (N % max)
    BY <2>1, Breaking!Division
  <2>3. N = k - a - 1
    OBVIOUS
  <2> HIDE DEF N, c
  <2>4. max * c \in Nat /\ c * max = max * c /\ (c + 1) * max = max * c + max
    BY <2>2
  <2>5. max * c <= N /\ N < max * c + max
    BY <2>1, <2>2, <2>4
  <2>6. c + 1 <= m
    <3>1. SUFFICES ASSUME m <= c PROVE FALSE
      BY <1>2, <2>2
    <3>2. m * max <= c * max
      BY <1>2, <2>2, <3>1, Multiples
    <3>3. m * max = max * m /\ max * m \in Nat
      BY <1>2
    <3>4. M < max * m + max
      BY <1>1, <1>2, <3>3
    <3> HIDE DEF M
    <3>5. b - a - 1 < max * m
      BY <1>1, <1>4, <3>3, <3>4
    <3> QED
      BY <2>1, <2>4, <2>5, <3>2, <3>3, <3>5
  <2>7. c + 1 \in 1 .. m /\ (c + 1) - 1 = c
    BY <1>2, <2>2, <2>6
  <2>8. q[c + 1][1] = a + c * max /\ q[c + 1][2] = Least(a + (c + 1) * max, b)
    BY <1>6, <2>7
  <2>9. a + c * max < k
    BY <2>1, <2>3, <2>4, <2>5
  <2>10. k <= a + (c + 1) * max /\ k <= b
    BY <2>1, <2>3, <2>4, <2>5
  <2>11. k <= Least(a + (c + 1) * max, b)
    BY <2>10 DEF Least
  <2> QED
    BY <2>7, <2>8, <2>9, <2>11
<1> QED
  BY <1>6, <1>7, <1>8, <1>9, <1>10 DEF Tiles, q

LEMMA WiderTiles ==
  ASSUME NEW a \in Nat, NEW b \in Nat, NEW c \in Nat, NEW d \in Nat, NEW max \in Nat,
         NEW K, NEW L, NEW q, Tiles(q, a, b, max, K), c <= a, b <= d, L \subseteq K
  PROVE  Tiles(q, c, d, max, L)
<1>1. \A i \in DOMAIN q : q[i] \in Nat \X Nat
  BY DEF Tiles
<1>2. \A i \in DOMAIN q : c <= q[i][1] /\ q[i][1] <= q[i][2] /\ q[i][2] <= d
                          /\ q[i][2] - q[i][1] <= max
  BY <1>1 DEF Tiles
<1> QED
  BY <1>2 DEF Tiles

LEMMA EmptyTile ==
  ASSUME NEW n \in Nat, NEW max \in Nat
  PROVE  Tiles(<< <<0, 0>> >>, 0, n, max, {})
<1> DEFINE q == << <<0, 0>> >>
<1>1. q \in Seq(Nat \X Nat) /\ DOMAIN q = {1} /\ q[1] = <<0, 0>>
  OBVIOUS
<1> HIDE DEF q
<1>2. \A i \in DOMAIN q : q[i][1] = 0 /\ q[i][2] = 0
  BY <1>1
<1>3. \A i, j \in DOMAIN q : ~(i < j)
  BY <1>1
<1> QED
  BY <1>1, <1>2, <1>3 DEF Tiles, q

LEMMA CommentTiles ==
  ASSUME NEW t \in CutTexts, NEW max \in Nat \ {0}
  PROVE  Tiles(CommentCuts(t, max), 0, Len(t), max, Ink(t))
<1>1. PICK a, b : TrimmedSpan(t) = <<a, b>>
  BY DEF TrimmedSpan
<1>2. /\ a \in Nat /\ b \in Nat /\ a <= b /\ b <= Len(t) /\ Len(t) \in Nat
      /\ Ink(t) \subseteq a + 1 .. b /\ (a = b <=> Ink(t) = {})
  BY <1>1, TrimmedInk, TextShape
<1>3. CASE a = b
  <2>1. CommentCuts(t, max) = << <<0, 0>> >> /\ Ink(t) = {}
    BY <1>1, <1>2, <1>3 DEF CommentCuts
  <2> QED
    BY <1>2, <2>1, EmptyTile
<1>4. CASE a # b
  <2>1. CommentCuts(t, max) = Slices(a, b, max)
    BY <1>1, <1>4 DEF CommentCuts
  <2>2. Tiles(Slices(a, b, max), a, b, max, a + 1 .. b)
    BY <1>2, SlicesTile
  <2> QED
    BY <1>2, <2>1, <2>2, WiderTiles
<1> QED
  BY <1>3, <1>4

(* A paragraph ends at a line break. *)
LEMMA BreaksAreBlank ==
  ASSUME NEW t \in CutTexts, NEW i \in ParagraphBreaks(t)
  PROVE  i \in 1 .. Len(t) /\ i \notin Ink(t)
<1> DEFINE n == Len(t)
           first == CHOOSE f : f = [k \in 0 .. n |-> Break(t, f, k)]
           rank == [k \in 0 .. n |-> k]
<1>1. n \in Nat /\ DOMAIN t = 1 .. n
  BY TextShape
<1>2. i \in 1 .. n /\ first[i]
  BY <1>1 DEF ParagraphBreaks, Break
<1>3. ASSUME NEW f, NEW g, NEW x \in 0 .. n, \A y \in 0 .. n : rank[y] < rank[x] => f[y] = g[y]
      PROVE  Break(t, f, x) = Break(t, g, x)
  <2>1. CASE x = 0
    BY <2>1 DEF Break
  <2>2. CASE x # 0
    <3>1. x - 1 \in 0 .. n /\ rank[x - 1] < rank[x]
      BY <1>1, <2>2
    <3>2. f[x - 1] = g[x - 1]
      BY <1>3, <3>1
    <3> QED
      BY <2>2, <3>2 DEF Break
  <2> QED
    BY <2>1, <2>2
<1>4. rank \in [0 .. n -> 0 .. n]
  OBVIOUS
<1> DEFINE r == first
<1>5. r = CHOOSE f : f = [k \in 0 .. n |-> Break(t, f, k)]
  OBVIOUS
<1>6. r = [k \in 0 .. n |-> Break(t, r, k)]
  <2> DEFINE S == 0 .. n
  <2>1. rank \in [S -> 0 .. n] /\ r = CHOOSE f : f = [k \in S |-> Break(t, f, k)]
    BY <1>4
  <2>2. \A f, g : \A x \in S : (\A y \in S : rank[y] < rank[x] => f[y] = g[y])
                               => Break(t, f, x) = Break(t, g, x)
    BY <1>3
  <2> HIDE DEF S, rank, r, n
  <2>3. r = [k \in S |-> Break(t, r, k)]
    BY <1>1, <2>1, <2>2, Breaking!Recursion
  <2> QED
    BY <2>3 DEF S
<1> HIDE DEF r
<1>7. r[i] = Break(t, r, i) /\ i # 0
  <2>1. i \in 0 .. n /\ i # 0
    BY <1>1, <1>2
  <2> QED
    BY <1>6, <2>1
<1>8. t[i] = "n"
  BY <1>2, <1>7 DEF Break, r
<1> QED
  BY <1>2, <1>8 DEF Ink, Blank

LEMMA LeadInk ==
  ASSUME NEW t \in CutTexts, Ink(t) # {}, NEW a, NEW b, TrimmedSpan(t) = <<a, b>>,
         NEW p, p = LeadParagraph(t)
  PROVE  p = <<a, p[2]>> /\ p[2] \in Ink(t)
<1> DEFINE I == Ink(t)
           n == Len(t)
           E == {i - 1 : i \in {k \in ParagraphBreaks(t) : k > a}} \cup {n}
           J == {i \in I : i <= FirstOf(E)}
<1>1. a \in Nat /\ n \in Nat /\ I \in SUBSET (1 .. n) /\ a + 1 \in I
  BY TrimmedInk, TextShape DEF Ink
<1>2. p = <<a, LastOf(J)>>
  BY DEF LeadParagraph
<1>3. \A e \in E : e \in Nat /\ a + 1 <= e
  <2> SUFFICES ASSUME NEW e \in E PROVE e \in Nat /\ a + 1 <= e
    OBVIOUS
  <2>1. CASE e = n
    <3> HIDE DEF n, I
    <3> QED
      BY <1>1, <2>1
  <2>2. CASE e # n
    <3>1. PICK i \in ParagraphBreaks(t) : i > a /\ e = i - 1
      BY <2>2
    <3>2. i \in 1 .. n /\ i \notin I
      BY BreaksAreBlank
    <3>3. i # a + 1
      BY <1>1, <3>2
    <3> HIDE DEF n, I
    <3> QED
      BY <1>1, <3>1, <3>2, <3>3
  <2> QED
    BY <2>1, <2>2
<1> HIDE DEF E
<1>4. FirstOf(E) \in E
  <2>1. E \subseteq Nat
    BY <1>3
  <2>2. E # {}
    BY DEF E
  <2> QED
    BY <2>1, <2>2, FirstIn
<1> HIDE DEF I, n
<1>5. a + 1 \in J
  BY <1>1, <1>3, <1>4
<1>6. LastOf(J) \in J
  <2>1. J # {} /\ J \in SUBSET (1 .. n)
    BY <1>1, <1>5
  <2> HIDE DEF J
  <2> QED
    BY <1>1, <2>1, LastIn
<1> QED
  BY <1>2, <1>6 DEF I

LEMMA SkipsBlanks ==
  ASSUME NEW t \in CutTexts, NEW x \in Nat, x <= Len(t), NEW c, c = SkipBlanks(t, x)
  PROVE  c \in Nat /\ x <= c /\ c <= Len(t) /\ \A k \in Ink(t) : ~(x < k /\ k <= c)
<1> DEFINE I == Ink(t)
           n == Len(t)
           E == {i - 1 : i \in {k \in I : k > x}} \cup {n}
<1>1. n \in Nat /\ I \in SUBSET (1 .. n)
  BY TextShape DEF Ink
<1>2. c = FirstOf(E)
  BY DEF SkipBlanks
<1>3. \A e \in E : e \in Nat /\ x <= e /\ e <= n
  <2>1. x <= n
    OBVIOUS
  <2> HIDE DEF I, n
  <2>2. \A k \in I : k > x => k - 1 \in Nat /\ x <= k - 1 /\ k - 1 <= n
    BY <1>1
  <2> QED
    BY <1>1, <2>1, <2>2
<1>4. \A k \in I : k > x => k - 1 \in E
  OBVIOUS
<1>5. c \in E /\ \A y \in E : c <= y
  <2>1. E \subseteq Nat /\ E # {}
    BY <1>3
  <2> HIDE DEF E
  <2> QED
    BY <1>2, <2>1, FirstIn
<1> HIDE DEF E, I, n
<1>6. ASSUME NEW k \in I, x < k, k <= c PROVE FALSE
  <2>1. k \in Nat /\ k - 1 \in E
    BY <1>1, <1>4, <1>6
  <2>2. c <= k - 1 /\ c \in Nat
    BY <1>3, <1>5, <2>1
  <2> QED
    BY <1>6, <2>1, <2>2
<1> QED
  BY <1>3, <1>5, <1>6 DEF n, I

LEMMA ArticleTiles ==
  ASSUME NEW t \in CutTexts, NEW max \in Nat \ {0}
  PROVE  Tiles(ArticleCuts(t, max), 0, Len(t), max, Ink(t))
<1>1. PICK a, b : TrimmedSpan(t) = <<a, b>>
  BY DEF TrimmedSpan
<1>2. /\ a \in Nat /\ b \in Nat /\ a <= b /\ b <= Len(t) /\ Len(t) \in Nat
      /\ Ink(t) \subseteq a + 1 .. b
  BY <1>1, TrimmedInk, TextShape
<1>3. CASE Ink(t) = {}
  <2>1. ArticleCuts(t, max) = << <<0, 0>> >> \o Slices(0, 0, max)
    BY <1>3 DEF ArticleCuts, LeadSegment
  <2>2. Tiles(Slices(0, 0, max), 0, 0, max, 0 + 1 .. 0)
    BY SlicesTile
  <2>3. Tiles(<< <<0, 0>> >> \o Slices(0, 0, max), 0, 0, max, (0 + 1 .. 0) \cup (0 + 1 .. 0))
    BY <2>2, FirstTile
  <2> DEFINE q == << <<0, 0>> >> \o Slices(0, 0, max)
  <2>4. Tiles(q, 0, 0, max, (0 + 1 .. 0) \cup (0 + 1 .. 0))
    BY <2>3
  <2> HIDE DEF q
  <2>5. Tiles(q, 0, Len(t), max, Ink(t))
    BY <1>2, <1>3, <2>4, WiderTiles
  <2> QED
    BY <2>1, <2>5 DEF q
<1>4. CASE Ink(t) # {}
  <2>1. PICK p : p = LeadParagraph(t)
    OBVIOUS
  <2>2. p = <<a, p[2]>> /\ p[2] \in Ink(t) /\ p[2] \in Nat /\ a < p[2] /\ p[2] <= b
    <3>1. p = <<a, p[2]>> /\ p[2] \in Ink(t)
      BY <1>1, <1>4, <2>1, LeadInk
    <3>2. p[2] \in a + 1 .. b
      BY <1>2, <3>1
    <3> QED
      BY <1>2, <3>1, <3>2
  <2> DEFINE z == p[2]
             stop == Least(a + max, z)
             next == IF stop >= z THEN SkipBlanks(t, z) ELSE stop
             c == Least(next, b)
  <2>3. ArticleCuts(t, max) = << <<a, stop>> >> \o Slices(c, b, max)
    BY <1>1, <1>4, <2>1, <2>2 DEF ArticleCuts, LeadSegment
  <2>4. z \in Nat /\ a < z /\ z <= b /\ z <= Len(t)
    BY <1>2, <2>2
  <2>5. stop \in Nat /\ a <= stop /\ stop <= z /\ stop - a <= max
    BY <1>2, <2>4 DEF Least
  <2>6. next \in Nat /\ stop <= next /\ \A k \in Ink(t) : ~(stop < k /\ k <= next)
    <3>1. CASE stop >= z
      <4>1. next = SkipBlanks(t, z) /\ stop = z
        BY <2>4, <2>5, <3>1
      <4> QED
        BY <2>4, <4>1, SkipsBlanks
    <3>2. CASE ~(stop >= z)
      <4>1. next = stop /\ \A k \in Ink(t) : k \in Nat
        BY <1>2, <3>2
      <4> QED
        BY <2>5, <4>1
    <3> QED
      BY <3>1, <3>2
  <2> HIDE DEF stop, next, z
  <2>7. c \in Nat /\ stop <= c /\ c <= b /\ c <= next
    BY <1>2, <2>4, <2>5, <2>6 DEF Least
  <2> HIDE DEF c
  <2>8. Tiles(Slices(c, b, max), c, b, max, c + 1 .. b)
    BY <1>2, <2>7, SlicesTile
  <2>9. Tiles(<< <<a, stop>> >> \o Slices(c, b, max), a, b, max, (a + 1 .. stop) \cup (c + 1 .. b))
    BY <1>2, <2>5, <2>7, <2>8, FirstTile
  <2>10. ASSUME NEW k \in Ink(t) PROVE k \in (a + 1 .. stop) \cup (c + 1 .. b)
    <3>1. k \in a + 1 .. b /\ ~(stop < k /\ k <= next)
      BY <1>2, <2>6
    <3> QED
      BY <1>2, <2>5, <2>6, <2>7, <3>1
  <2> DEFINE K == (a + 1 .. stop) \cup (c + 1 .. b)
             q == << <<a, stop>> >> \o Slices(c, b, max)
             I == Ink(t)
             n == Len(t)
  <2>11. Tiles(q, a, b, max, K) /\ I \subseteq K /\ n \in Nat /\ 0 <= a /\ b <= n
    BY <1>2, <2>9, <2>10
  <2> HIDE DEF K, q, I, n
  <2>12. Tiles(q, 0, n, max, I)
    BY <1>2, <2>11, WiderTiles
  <2> QED
    BY <2>3, <2>12 DEF q, I, n
<1> QED
  BY <1>3, <1>4

-----------------------------------------------------------------------------
(* The cut from a on, when the cuts behind it are known. *)
Rest(c, f, a) ==
  IF a = Len(c[1]) THEN <<>>
  ELSE LET b == Least(a + c[2], Len(c[1]))
           lines == {i \in a + c[2] \div 2 + 1 .. b : c[1][i] = "n"}
           end == IF b < Len(c[1]) /\ lines # {} THEN LastOf(lines) ELSE b
       IN  << <<a, end>> >> \o f[end]
Resting == INSTANCE DataInduction WITH Op <- Rest

LineEnd(t, max, a) ==
  LET b == Least(a + max, Len(t))
      lines == {i \in a + max \div 2 + 1 .. b : t[i] = "n"}
  IN  IF b < Len(t) /\ lines # {} THEN LastOf(lines) ELSE b

LEMMA LineEndBound ==
  ASSUME NEW t \in CutTexts, NEW max \in Nat \ {0}, NEW a \in 0 .. Len(t), a # Len(t)
  PROVE  LineEnd(t, max, a) \in a + 1 .. Len(t) /\ LineEnd(t, max, a) - a <= max
<1> DEFINE n == Len(t)
           h == max \div 2
           b == Least(a + max, n)
           lines == {i \in a + h + 1 .. b : t[i] = "n"}
<1>1. n \in Nat
  BY TextShape
<1>2. h \in Nat
  BY Resting!Division
<1>3. LineEnd(t, max, a) = IF b < n /\ lines # {} THEN LastOf(lines) ELSE b
  BY DEF LineEnd
<1>4. a \in Nat /\ a < n
  BY <1>1
<1> HIDE DEF n, h
<1>5. b \in Nat /\ a < b /\ b <= n /\ b - a <= max
  BY <1>1, <1>4 DEF Least
<1> HIDE DEF b
<1>6. lines # {} => LastOf(lines) \in a + 1 .. b
  <2>1. \A i \in lines : i \in 1 .. b /\ i \in a + 1 .. b
    BY <1>2, <1>4, <1>5
  <2> HIDE DEF lines
  <2>2. lines \in SUBSET (1 .. b)
    BY <2>1
  <2>3. lines # {} => LastOf(lines) \in lines
    BY <1>5, <2>2, LastIn
  <2> QED
    BY <2>1, <2>3
<1> HIDE DEF lines
<1>7. LineEnd(t, max, a) \in a + 1 .. b
  BY <1>3, <1>4, <1>5, <1>6
<1> QED
  BY <1>1, <1>4, <1>5, <1>7 DEF n

LEMMA LineTiles ==
  ASSUME NEW t \in CutTexts, NEW max \in Nat \ {0}
  PROVE  Tiles(LineCuts(t, max), 0, Len(t), max, Ink(t))
<1> DEFINE n == Len(t)
           S == 0 .. n
           ctx == <<t, max>>
           r == CHOOSE f : f = [a \in S |-> Rest(ctx, f, a)]
           rank == [a \in S |-> n - a]
           End(a) == LineEnd(t, max, a)
<1>1. n \in Nat
  BY TextShape
<1>2. LineCuts(t, max) = r[0]
  BY DEF LineCuts, Rest
<1>3. \A f, a : Rest(ctx, f, a) = IF a = n THEN <<>> ELSE << <<a, End(a)>> >> \o f[End(a)]
  BY DEF Rest, LineEnd
<1>4. ASSUME NEW a \in S, a # n PROVE End(a) \in a + 1 .. n /\ End(a) - a <= max
  BY <1>4, LineEndBound
<1> HIDE DEF ctx, End, n, r
<1>5. r = [a \in S |-> Rest(ctx, r, a)]
  <2>1. rank \in [S -> 0 .. n]
    BY <1>1
  <2>2. \A f, g : \A x \in S : (\A y \in S : rank[y] < rank[x] => f[y] = g[y])
                               => Rest(ctx, f, x) = Rest(ctx, g, x)
    <3> SUFFICES ASSUME NEW f, NEW g, NEW x \in S, \A y \in S : rank[y] < rank[x] => f[y] = g[y]
                 PROVE  Rest(ctx, f, x) = Rest(ctx, g, x)
      OBVIOUS
    <3>1. CASE x = n
      BY <1>3, <3>1
    <3>2. CASE x # n
      <4>1. End(x) \in S /\ n - End(x) < n - x
        BY <1>1, <1>4, <3>2
      <4>2. f[End(x)] = g[End(x)]
        BY <4>1
      <4> QED
        BY <1>3, <3>2, <4>2
    <3> QED
      BY <3>1, <3>2
  <2> HIDE DEF S, rank
  <2> QED
    BY <1>1, <2>1, <2>2, Resting!Recursion DEF r
<1>6. \A a \in S : r[a] = IF a = n THEN <<>> ELSE << <<a, End(a)>> >> \o r[End(a)]
  BY <1>3, <1>5
<1> DEFINE Good == {k \in S : \A a \in S : n - a <= k => Tiles(r[a], a, n, max, a + 1 .. n)}
<1>7. 0 \in Good
  <2> SUFFICES ASSUME NEW a \in S, n - a <= 0 PROVE Tiles(r[a], a, n, max, a + 1 .. n)
    BY <1>1
  <2>1. a = n /\ n + 1 .. n = {}
    BY <1>1
  <2>2. r[a] = <<>>
    BY <1>6, <2>1
  <2>3. Tiles(<<>>, n, n, max, {})
    BY <1>1, NoTile
  <2> QED
    BY <2>1, <2>2, <2>3
<1>8. ASSUME NEW k \in 0 .. n - 1, k \in Good PROVE k + 1 \in Good
  <2> SUFFICES ASSUME NEW a \in S, n - a <= k + 1 PROVE Tiles(r[a], a, n, max, a + 1 .. n)
    BY <1>1
  <2>1. CASE n - a <= k
    BY <1>8, <2>1
  <2>2. CASE ~(n - a <= k)
    <3> DEFINE e == End(a)
    <3>1. a \in Nat /\ a # n
      BY <1>1, <2>2
    <3>2. e \in a + 1 .. n /\ e - a <= max
      BY <1>4, <3>1
    <3> HIDE DEF e
    <3>3. e \in S /\ e \in Nat /\ a <= e /\ e <= n /\ n - e <= k
      BY <1>1, <3>1, <3>2
    <3>4. Tiles(r[e], e, n, max, e + 1 .. n)
      BY <1>8, <3>3
    <3>5. Tiles(<< <<a, e>> >> \o r[e], a, n, max, (a + 1 .. e) \cup (e + 1 .. n))
      BY <1>1, <3>1, <3>2, <3>3, <3>4, FirstTile
    <3>6. (a + 1 .. e) \cup (e + 1 .. n) = a + 1 .. n
      BY <1>1, <3>1, <3>3
    <3>7. r[a] = << <<a, e>> >> \o r[e]
      BY <1>6, <3>1 DEF e
    <3> QED
      BY <3>5, <3>6, <3>7
  <2> QED
    BY <2>1, <2>2
<1> HIDE DEF Good
<1>9. n \in Good
  <2>1. 0 .. n \subseteq Good
    BY <1>1, <1>7, <1>8, Resting!UpTo
  <2> QED
    BY <1>1, <2>1
<1>10. Tiles(r[0], 0, n, max, 0 + 1 .. n)
  <2>1. 0 \in S /\ n - 0 <= n
    BY <1>1
  <2> QED
    BY <1>9, <2>1 DEF Good
<1>11. Ink(t) \subseteq 0 + 1 .. n
  BY TextShape DEF Ink, n
<1> HIDE DEF S
<1>12. Tiles(r[0], 0, n, max, Ink(t))
  BY <1>1, <1>10, <1>11, WiderTiles
<1> QED
  BY <1>2, <1>12 DEF n

-----------------------------------------------------------------------------
(* The ends of the pattern's matches from a position on. *)
EndsFrom(t, f, i) ==
  IF i = Len(t) THEN {Len(t)}
  ELSE IF t[i + 1] = "n" THEN LET e == RunEnd(t, i, {"n"}) IN {e} \cup f[e]
  ELSE IF t[i + 1] = " " /\ i > 0 /\ t[i] = "."
       THEN LET e == RunEnd(t, i, {"n", " "}) IN {e} \cup f[e]
  ELSE f[i + 1]
Ending == INSTANCE DataInduction WITH Op <- EndsFrom

LEMMA RunEnds ==
  ASSUME NEW t \in CutTexts, NEW i \in 0 .. Len(t), i # Len(t), NEW kinds, t[i + 1] \in kinds
  PROVE  RunEnd(t, i, kinds) \in i + 1 .. Len(t)
<1> DEFINE n == Len(t)
           E == {e \in i + 1 .. n : \A k \in i + 1 .. e : t[k] \in kinds}
<1>1. n \in Nat /\ i \in Nat /\ i < n
  BY TextShape
<1> HIDE DEF n
<1>2. i + 1 \in E
  BY <1>1
<1>3. E \in SUBSET (1 .. n)
  BY <1>1
<1> HIDE DEF E
<1>4. LastOf(E) \in E /\ \A y \in E : y <= LastOf(E)
  BY <1>1, <1>2, <1>3, LastIn
<1> DEFINE e == LastOf(E)
<1>5. e \in i + 1 .. n /\ \A k \in i + 1 .. e : t[k] \in kinds
  BY <1>4 DEF E
<1>6. e = n \/ t[e + 1] \notin kinds
  <2> SUFFICES ASSUME e # n, t[e + 1] \in kinds PROVE FALSE
    OBVIOUS
  <2>1. e + 1 \in E
    <3> HIDE DEF e
    <3>1. e + 1 \in i + 1 .. n
      BY <1>1, <1>5
    <3>2. \A k \in i + 1 .. e + 1 : k \in i + 1 .. e \/ k = e + 1
      BY <1>1, <1>5
    <3> QED
      BY <1>5, <3>1, <3>2 DEF E
  <2>2. e + 1 <= e
    BY <1>4, <2>1
  <2> HIDE DEF e
  <2> QED
    BY <1>1, <1>5, <2>2
<1> HIDE DEF e
<1>7. \E x \in i + 1 .. n : /\ \A k \in i + 1 .. x : t[k] \in kinds
                            /\ x = n \/ t[x + 1] \notin kinds
  BY <1>5, <1>6
<1> QED
  BY <1>7 DEF RunEnd, n

LEMMA BoundariesInText ==
  ASSUME NEW t \in CutTexts
  PROVE  Boundaries(t) \subseteq 0 .. Len(t) /\ Len(t) \in Boundaries(t)
<1> DEFINE n == Len(t)
           S == 0 .. n
           r == CHOOSE f : f = [i \in S |-> EndsFrom(t, f, i)]
           rank == [i \in S |-> n - i]
<1>1. n \in Nat
  BY TextShape
<1>2. Boundaries(t) = r[0]
  BY DEF Boundaries, EndsFrom
<1>3. ASSUME NEW i \in S, i # n
      PROVE  \E e \in i + 1 .. n : \/ \A f : EndsFrom(t, f, i) = {e} \cup f[e]
                                   \/ \A f : EndsFrom(t, f, i) = f[e]
  <2>1. CASE t[i + 1] = "n"
    <3>1. RunEnd(t, i, {"n"}) \in i + 1 .. n
      BY <1>3, <2>1, RunEnds
    <3>2. \A f : EndsFrom(t, f, i) = {RunEnd(t, i, {"n"})} \cup f[RunEnd(t, i, {"n"})]
      BY <1>3, <2>1 DEF EndsFrom
    <3> QED
      BY <3>1, <3>2
  <2>2. CASE t[i + 1] # "n" /\ t[i + 1] = " " /\ i > 0 /\ t[i] = "."
    <3>1. RunEnd(t, i, {"n", " "}) \in i + 1 .. n
      BY <1>3, <2>2, RunEnds
    <3>2. \A f : EndsFrom(t, f, i) = {RunEnd(t, i, {"n", " "})} \cup f[RunEnd(t, i, {"n", " "})]
      BY <1>3, <2>2 DEF EndsFrom
    <3> QED
      BY <3>1, <3>2
  <2>3. CASE t[i + 1] # "n" /\ ~(t[i + 1] = " " /\ i > 0 /\ t[i] = ".")
    <3>1. i + 1 \in i + 1 .. n
      BY <1>1, <1>3
    <3>2. \A f : EndsFrom(t, f, i) = f[i + 1]
      BY <1>3, <2>3 DEF EndsFrom
    <3> QED
      BY <3>1, <3>2
  <2> QED
    BY <2>1, <2>2, <2>3
<1>4. \A f : EndsFrom(t, f, n) = {n}
  BY DEF EndsFrom
<1> HIDE DEF n, r
<1>5. ASSUME NEW i \in S, i # n, NEW f, NEW g, \A y \in S : n - y < n - i => f[y] = g[y]
      PROVE  EndsFrom(t, f, i) = EndsFrom(t, g, i)
  <2>1. PICK e \in i + 1 .. n : \/ \A h : EndsFrom(t, h, i) = {e} \cup h[e]
                               \/ \A h : EndsFrom(t, h, i) = h[e]
    BY <1>3, <1>5
  <2>2. e \in S /\ n - e < n - i
    BY <1>1, <2>1
  <2>3. f[e] = g[e]
    BY <1>5, <2>2
  <2> QED
    BY <2>1, <2>3
<1>6. r = [i \in S |-> EndsFrom(t, r, i)]
  <2>1. rank \in [S -> 0 .. n] /\ \A i \in S : rank[i] = n - i
    BY <1>1
  <2>2. \A f, g : \A x \in S : (\A y \in S : rank[y] < rank[x] => f[y] = g[y])
                               => EndsFrom(t, f, x) = EndsFrom(t, g, x)
    <3> SUFFICES ASSUME NEW f, NEW g, NEW x \in S, \A y \in S : rank[y] < rank[x] => f[y] = g[y]
                 PROVE  EndsFrom(t, f, x) = EndsFrom(t, g, x)
      OBVIOUS
    <3>1. \A y \in S : n - y < n - x => f[y] = g[y]
      BY <2>1
    <3> HIDE DEF S, rank
    <3> QED
      BY <1>4, <1>5, <3>1
  <2> HIDE DEF S, rank
  <2> QED
    BY <1>1, <2>1, <2>2, Ending!Recursion DEF r
<1> DEFINE Good == {k \in S : \A i \in S : n - i <= k => r[i] \subseteq i .. n /\ n \in r[i]}
<1>7. r[n] = {n}
  BY <1>1, <1>4, <1>6
<1>8. 0 \in Good
  <2> SUFFICES ASSUME NEW i \in S, n - i <= 0 PROVE r[i] \subseteq i .. n /\ n \in r[i]
    BY <1>1
  <2>1. i = n
    BY <1>1
  <2> QED
    BY <1>1, <1>7, <2>1
<1>9. ASSUME NEW k \in 0 .. n - 1, k \in Good PROVE k + 1 \in Good
  <2> SUFFICES ASSUME NEW i \in S, n - i <= k + 1 PROVE r[i] \subseteq i .. n /\ n \in r[i]
    BY <1>1
  <2>1. CASE n - i <= k
    BY <1>9, <2>1
  <2>2. CASE ~(n - i <= k)
    <3>1. i \in Nat /\ i # n
      BY <1>1, <2>2
    <3>2. PICK e \in i + 1 .. n : r[i] = {e} \cup r[e] \/ r[i] = r[e]
      <4>1. r[i] = EndsFrom(t, r, i)
        BY <1>6
      <4> QED
        BY <1>3, <3>1, <4>1
    <3>3. e \in S /\ n - e <= k /\ e \in i .. n
      BY <1>1, <3>1, <3>2
    <3>4. r[e] \subseteq e .. n /\ n \in r[e]
      BY <1>9, <3>3
    <3>5. e .. n \subseteq i .. n
      BY <1>1, <3>1, <3>3
    <3> QED
      BY <3>2, <3>3, <3>4, <3>5
  <2> QED
    BY <2>1, <2>2
<1> HIDE DEF Good
<1>10. n \in Good
  <2>1. 0 .. n \subseteq Good
    BY <1>1, <1>8, <1>9, Ending!UpTo
  <2> QED
    BY <1>1, <2>1
<1>11. r[0] \subseteq 0 .. n /\ n \in r[0]
  <2>1. 0 \in S /\ n - 0 <= n
    BY <1>1
  <2> QED
    BY <1>10, <2>1 DEF Good
<1> QED
  BY <1>2, <1>11 DEF n

(* A range is within the limit or without a boundary inside.               *)
Whole(at, max, a, b) == b - a <= max \/ \A x \in at : ~(a < x /\ x < b)

(* Such ranges, in order, of the whole text up to e. *)
Runs(q, e, at, max) ==
  /\ q \in Seq(Nat \X Nat)
  /\ \A i \in DOMAIN q : q[i][2] <= e /\ Whole(at, max, q[i][1], q[i][2])
  /\ \A i, j \in DOMAIN q : i < j => q[i][2] <= q[j][1]
  /\ \A k \in 1 .. e : \E i \in DOMAIN q : q[i][1] < k /\ k <= q[i][2]

LEMMA NoRun ==
  ASSUME NEW at, NEW max
  PROVE  Runs(<<>>, 0, at, max)
<1>1. <<>> \in Seq(Nat \X Nat) /\ DOMAIN <<>> = {} /\ 1 .. 0 = {}
  BY EmptySeq
<1> QED
  BY <1>1 DEF Runs

LEMMA Appended ==
  ASSUME NEW S, NEW q \in Seq(S), NEW x \in S, NEW r, r = Append(q, x)
  PROVE  /\ r \in Seq(S) /\ Len(q) \in Nat /\ DOMAIN q = 1 .. Len(q) /\ DOMAIN r = 1 .. Len(q) + 1
         /\ r[Len(q) + 1] = x /\ \A i \in DOMAIN q : i \in DOMAIN r /\ r[i] = q[i]
<1> DEFINE n == Len(q)
<1>1. n \in Nat /\ DOMAIN q = 1 .. n
  OBVIOUS
<1>2. r \in Seq(S) /\ Len(r) = n + 1 /\ (\A i \in 1 .. n : r[i] = q[i]) /\ r[n + 1] = x
  BY AppendProperties
<1>3. DOMAIN r = 1 .. Len(r)
  BY <1>2
<1> HIDE DEF n
<1>4. \A i \in 1 .. n : i \in 1 .. n + 1
  BY <1>1
<1> QED
  BY <1>1, <1>2, <1>3, <1>4 DEF n

LEMMA NextRun ==
  ASSUME NEW at, NEW max \in Nat, NEW s \in Nat, NEW e \in Nat, s <= e, Whole(at, max, s, e),
         NEW q, Runs(q, s, at, max)
  PROVE  Runs(Append(q, <<s, e>>), e, at, max)
<1> DEFINE r == Append(q, <<s, e>>)
           n == Len(q)
<1>0. /\ r \in Seq(Nat \X Nat) /\ n \in Nat /\ DOMAIN q = 1 .. n /\ DOMAIN r = 1 .. n + 1
      /\ r[n + 1] = <<s, e>> /\ \A i \in DOMAIN q : i \in DOMAIN r /\ r[i] = q[i]
  <2> DEFINE S == Nat \X Nat
             x == <<s, e>>
  <2>1. q \in Seq(S) /\ x \in S /\ r = Append(q, x)
    BY DEF Runs
  <2> HIDE DEF S, x, r
  <2> QED
    BY <2>1, Appended DEF S, x
<1>1. /\ n \in Nat /\ DOMAIN q = 1 .. n /\ DOMAIN r = 1 .. n + 1
      /\ r[n + 1][1] = s /\ r[n + 1][2] = e /\ \A i \in DOMAIN q : i \in DOMAIN r /\ r[i] = q[i]
  BY <1>0
<1>2. \A i \in DOMAIN q : q[i][2] \in Nat /\ q[i][2] <= s /\ Whole(at, max, q[i][1], q[i][2])
  <2>1. \A i \in DOMAIN q : q[i] \in Nat \X Nat
    BY DEF Runs
  <2> QED
    BY <2>1 DEF Runs
<1> HIDE DEF r, n
<1>3. ASSUME NEW i \in DOMAIN r PROVE i \in Nat /\ (i = n + 1 \/ (i \in DOMAIN q /\ r[i] = q[i]))
  BY <1>1
<1>4. ASSUME NEW i \in DOMAIN r PROVE r[i][2] <= e /\ Whole(at, max, r[i][1], r[i][2])
  <2>1. CASE i = n + 1
    BY <1>1, <2>1
  <2>2. CASE i \in DOMAIN q /\ r[i] = q[i]
    BY <1>2, <2>2
  <2> QED
    BY <1>3, <2>1, <2>2
<1>5. ASSUME NEW i \in DOMAIN r, NEW j \in DOMAIN r, i < j PROVE r[i][2] <= r[j][1]
  <2>1. i \in DOMAIN q /\ r[i] = q[i]
    <3>1. i # n + 1
      <4>1. i \in Int /\ j \in Int /\ j <= n + 1
        BY <1>1, <1>3
      <4> QED
        BY <1>1, <1>5, <4>1
    <3> QED
      BY <1>3, <3>1
  <2>2. CASE j = n + 1
    BY <1>1, <1>2, <2>1, <2>2
  <2>3. CASE j \in DOMAIN q /\ r[j] = q[j]
    BY <1>5, <2>1, <2>3 DEF Runs
  <2> QED
    BY <1>3, <2>2, <2>3
<1>6. ASSUME NEW k \in 1 .. e PROVE \E i \in DOMAIN r : r[i][1] < k /\ k <= r[i][2]
  <2>1. CASE k \in 1 .. s
    <3>1. PICK i \in DOMAIN q : q[i][1] < k /\ k <= q[i][2]
      BY <2>1 DEF Runs
    <3> QED
      BY <1>1, <3>1
  <2>2. CASE k \notin 1 .. s
    <3>1. n + 1 \in DOMAIN r /\ s < k /\ k <= e
      BY <1>1, <2>2
    <3> QED
      BY <1>1, <3>1
  <2> QED
    BY <2>1, <2>2
<1> QED
  BY <1>0, <1>4, <1>5, <1>6 DEF Runs, r

Close(c, acc, e) == IF e \in c[1] THEN CloseRange(acc, e, c[2]) ELSE acc
Closing == INSTANCE DataInduction WITH Op <- Close

(* What the loop knows behind position i: it has closed the text up to     *)
(* start, and end is the last boundary.                                    *)
Closed(acc, i, at, max) ==
  /\ acc \in [ranges : Seq(Nat \X Nat), start : Nat, end : Nat]
  /\ Runs(acc.ranges, acc.start, at, max)
  /\ acc.start <= acc.end /\ acc.end <= i /\ Whole(at, max, acc.start, acc.end)
  /\ \A x \in at : x <= i => x <= acc.end

LEMMA ClosesRange ==
  ASSUME NEW at, at \subseteq Nat, NEW max \in Nat, NEW i \in Nat \ {0}, NEW acc, Closed(acc, i - 1, at, max)
  PROVE  Closed(Close(<<at, max>>, acc, i), i, at, max)
<1>1. /\ acc = [ranges |-> acc.ranges, start |-> acc.start, end |-> acc.end]
      /\ acc.ranges \in Seq(Nat \X Nat) /\ acc.start \in Nat /\ acc.end \in Nat
      /\ Runs(acc.ranges, acc.start, at, max)
      /\ acc.start <= acc.end /\ acc.end <= i - 1 /\ Whole(at, max, acc.start, acc.end)
      /\ \A x \in at : x <= i - 1 => x <= acc.end
  BY DEF Closed
<1>2. CASE i \notin at
  <2>1. Close(<<at, max>>, acc, i) = acc
    BY <1>2 DEF Close
  <2>2. acc.end <= i /\ \A x \in at : x <= i => x <= acc.end
    <3>1. \A x \in at : x <= i => x <= i - 1
      BY <1>2
    <3> QED
      BY <1>1, <3>1
  <2> QED
    BY <2>1, <2>2 DEF Closed
<1>3. CASE i \in at
  <2>1. Close(<<at, max>>, acc, i) = CloseRange(acc, i, max)
    BY <1>3 DEF Close
  <2>2. \A x \in at : ~(acc.end < x /\ x < i)
    BY <1>1
  <2>3. CASE acc.end > acc.start /\ i - acc.start > max
    <3> DEFINE a == [ranges |-> Append(acc.ranges, <<acc.start, acc.end>>), start |-> acc.end, end |-> i]
    <3>1. CloseRange(acc, i, max) = a
      BY <2>3 DEF CloseRange
    <3>2. Runs(a.ranges, a.start, at, max)
      BY <1>1, NextRun
    <3>3. a.ranges \in Seq(Nat \X Nat)
      BY <3>2 DEF Runs
    <3>4. Whole(at, max, a.start, a.end)
      BY <2>2 DEF Whole
    <3>5. a \in [ranges : Seq(Nat \X Nat), start : Nat, end : Nat]
      BY <1>1, <3>3
    <3>6. a.start <= a.end /\ a.end <= i /\ \A x \in at : x <= i => x <= a.end
      BY <1>1
    <3> QED
      BY <2>1, <3>1, <3>2, <3>4, <3>5, <3>6 DEF Closed
  <2>4. CASE ~(acc.end > acc.start /\ i - acc.start > max)
    <3> DEFINE a == [acc EXCEPT !.end = i]
    <3>1. CloseRange(acc, i, max) = a
      BY <2>4 DEF CloseRange
    <3>2. a = [ranges |-> acc.ranges, start |-> acc.start, end |-> i]
      BY <1>1
    <3>3. Whole(at, max, acc.start, i)
      <4>1. acc.start = acc.end \/ i - acc.start <= max
        BY <1>1, <2>4
      <4> QED
        BY <2>2, <4>1 DEF Whole
    <3> HIDE DEF a
    <3>4. a \in [ranges : Seq(Nat \X Nat), start : Nat, end : Nat]
      BY <1>1, <3>2
    <3>5. a.start <= a.end /\ a.end <= i /\ \A x \in at : x <= i => x <= a.end
      BY <1>1, <3>2
    <3>6. a.ranges = acc.ranges /\ a.start = acc.start /\ a.end = i
      BY <3>2
    <3>7. Runs(a.ranges, a.start, at, max) /\ Whole(at, max, a.start, a.end)
      BY <1>1, <3>3, <3>6
    <3>8. Closed(a, i, at, max)
      BY <3>4, <3>5, <3>7 DEF Closed
    <3> QED
      BY <2>1, <3>1, <3>8
  <2> QED
    BY <2>3, <2>4
<1> QED
  BY <1>2, <1>3

LEMMA SentencesRun ==
  ASSUME NEW t \in CutTexts, NEW max \in Nat \ {0}
  PROVE  Runs(SentenceCuts(t, max), Len(t), Boundaries(t), max)
<1> DEFINE n == Len(t)
           at == Boundaries(t)
           base == [ranges |-> <<>>, start |-> 0, end |-> 0]
           s == [i \in DOMAIN t |-> i]
           c == Closing!Fold(<<at, max>>, base, s)
<1>1. n \in Nat /\ DOMAIN t = 1 .. n /\ DOMAIN s = 1 .. n /\ at \subseteq 0 .. n /\ n \in at
  BY TextShape, BoundariesInText
<1>2. SentenceCuts(t, max) = IF n <= max THEN << <<0, n>> >>
                             ELSE IF c.end > c.start THEN Append(c.ranges, <<c.start, c.end>>) ELSE c.ranges
  BY SMT DEF SentenceCuts, Close, Closing!Fold, Closing!Iter, FoldLeftDomain, FoldLeft, MapThenFoldSet,
             Max, Closing!Max
<1>3. CASE n <= max
  <2>1. Whole(at, max, 0, n)
    BY <1>1, <1>3 DEF Whole
  <2>2. Runs(Append(<<>>, <<0, n>>), n, at, max)
    <3>1. Runs(<<>>, 0, at, max) /\ 0 \in Nat /\ 0 <= n
      BY <1>1, NoRun
    <3> HIDE DEF at, n
    <3> QED
      BY <1>1, <2>1, <3>1, NextRun
  <2>3. Append(<<>>, <<0, n>>) = << <<0, n>> >>
    OBVIOUS
  <2> QED
    BY <1>2, <1>3, <2>2, <2>3
<1>4. CASE ~(n <= max)
  <2> DEFINE R == [ranges : Seq(Nat \X Nat), start : Nat, end : Nat]
             T == [i \in 0 .. n |-> {acc \in R : Closed(acc, i, at, max)}]
  <2>0. /\ \A i \in 0 .. n : \A acc : acc \in T[i] <=> Closed(acc, i, at, max)
        /\ 0 \in 0 .. n /\ n \in 0 .. n
    <3>1. \A acc, i : Closed(acc, i, at, max) => acc \in R
      BY DEF Closed
    <3> HIDE DEF R
    <3> QED
      BY <1>1, <3>1
  <2>1. Closed(base, 0, at, max)
    <3>1. <<>> \in Seq(Nat \X Nat)
      BY EmptySeq
    <3>2. Whole(at, max, 0, 0) /\ \A x \in at : x <= 0 => x <= 0
      BY <1>1 DEF Whole
    <3> QED
      BY <3>1, <3>2, NoRun DEF Closed
  <2>2. base \in T[0]
    BY <2>0, <2>1
  <2>3. ASSUME NEW i \in 1 .. n, NEW acc \in T[i - 1] PROVE Close(<<at, max>>, acc, s[i]) \in T[i]
    <3>1. i \in Nat \ {0} /\ i - 1 \in 0 .. n /\ i \in 0 .. n /\ s[i] = i /\ at \subseteq Nat
      BY <1>1
    <3>2. Closed(acc, i - 1, at, max)
      BY <2>0, <2>3, <3>1
    <3>3. Closed(Close(<<at, max>>, acc, i), i, at, max)
      BY <3>1, <3>2, ClosesRange
    <3> QED
      BY <2>0, <3>1, <3>3
  <2>4. c \in T[n]
    <3> DEFINE ctx == <<at, max>>
    <3>1. \A i \in 1 .. n : \A acc \in T[i - 1] : Close(ctx, acc, s[i]) \in T[i]
      BY <2>3
    <3> HIDE DEF T, base, s, n, ctx
    <3>2. Closing!Fold(ctx, base, s) \in T[n]
      BY <1>1, <2>2, <3>1, Closing!FoldKeeps
    <3> QED
      BY <3>2 DEF ctx
  <2> HIDE DEF c, at, n, T
  <2>5. Closed(c, n, at, max)
    BY <2>0, <2>4
  <2>6. /\ c.ranges \in Seq(Nat \X Nat) /\ c.start \in Nat /\ c.end \in Nat
        /\ Runs(c.ranges, c.start, at, max) /\ Whole(at, max, c.start, c.end)
        /\ c.start <= c.end /\ c.end = n
    BY <1>1, <2>5 DEF Closed
  <2>7. CASE c.end > c.start
    <3>1. Runs(Append(c.ranges, <<c.start, c.end>>), c.end, at, max)
      BY <2>6, NextRun
    <3> QED
      BY <1>2, <1>4, <2>6, <2>7, <3>1 DEF at, n
  <2>8. CASE ~(c.end > c.start)
    BY <1>2, <1>4, <2>6, <2>8 DEF at, n
  <2> QED
    BY <2>7, <2>8
<1> QED
  BY <1>3, <1>4

-----------------------------------------------------------------------------
(* The cutters of units.                                                   *)

(* Groups of units that cover 1 .. e once and in order, each of the kind F. *)
Groups(q, e, F) ==
  /\ q \in Seq(F)
  /\ \A i \in DOMAIN q : q[i][1] \in Nat /\ q[i][2] \in Nat /\ q[i][1] <= q[i][2] /\ q[i][2] <= e
  /\ \A i, j \in DOMAIN q : i < j => q[i][2] < q[j][1]
  /\ \A k \in 1 .. e : \E i \in DOMAIN q : q[i][1] <= k /\ k <= q[i][2]
  /\ q # <<>> => q[Len(q)][2] = e

LEMMA NoGroup ==
  ASSUME NEW F
  PROVE  Groups(<<>>, 0, F)
<1>1. <<>> \in Seq(F) /\ DOMAIN <<>> = {} /\ 1 .. 0 = {}
  BY EmptySeq
<1> QED
  BY <1>1 DEF Groups

LEMMA OpenedKeeps ==
  ASSUME NEW F, NEW k \in Nat \ {0}, NEW size, <<k, k, size>> \in F,
         NEW q, Groups(q, k - 1, F)
  PROVE  Groups(Opened(q, k, size), k, F)
<1> DEFINE x == <<k, k, size>>
           r == Append(q, x)
           n == Len(q)
<1>1. /\ r \in Seq(F) /\ n \in Nat /\ DOMAIN q = 1 .. n /\ DOMAIN r = 1 .. n + 1
      /\ r[n + 1] = x /\ \A i \in DOMAIN q : i \in DOMAIN r /\ r[i] = q[i]
  <2>1. q \in Seq(F) /\ x \in F /\ r = Append(q, x)
    BY DEF Groups
  <2> HIDE DEF x, r
  <2> QED
    BY <2>1, Appended
<1>2. /\ \A i \in DOMAIN q : q[i][1] \in Nat /\ q[i][2] \in Nat /\ q[i][1] <= q[i][2] /\ q[i][2] <= k - 1
      /\ \A i, j \in DOMAIN q : i < j => q[i][2] < q[j][1]
      /\ \A m \in 1 .. k - 1 : \E i \in DOMAIN q : q[i][1] <= m /\ m <= q[i][2]
  BY DEF Groups
<1>3. x[1] = k /\ x[2] = k
  OBVIOUS
<1>4. r # <<>> => r[Len(r)][2] = k
  <2>1. Len(r) = n + 1
    BY <1>1
  <2> QED
    BY <1>1, <1>3, <2>1
<1>5. Opened(q, k, size) = r
  BY DEF Opened
<1> HIDE DEF r, x, n
<1>6. ASSUME NEW i \in DOMAIN r PROVE i \in Nat /\ (i = n + 1 \/ (i \in DOMAIN q /\ r[i] = q[i]))
  BY <1>1
<1>7. ASSUME NEW i \in DOMAIN r PROVE r[i][1] \in Nat /\ r[i][2] \in Nat /\ r[i][1] <= r[i][2] /\ r[i][2] <= k
  <2>1. CASE i = n + 1
    BY <1>1, <1>3, <2>1
  <2>2. CASE i \in DOMAIN q /\ r[i] = q[i]
    BY <1>2, <2>2
  <2> QED
    BY <1>6, <2>1, <2>2
<1>8. ASSUME NEW i \in DOMAIN r, NEW j \in DOMAIN r, i < j PROVE r[i][2] < r[j][1]
  <2>1. i \in DOMAIN q /\ r[i] = q[i]
    <3>1. i # n + 1
      <4>1. i \in Int /\ j \in Int /\ j <= n + 1
        BY <1>1, <1>6
      <4> QED
        BY <1>1, <1>8, <4>1
    <3> QED
      BY <1>6, <3>1
  <2>2. CASE j = n + 1
    BY <1>1, <1>2, <1>3, <2>1, <2>2
  <2>3. CASE j \in DOMAIN q /\ r[j] = q[j]
    BY <1>2, <1>8, <2>1, <2>3
  <2> QED
    BY <1>6, <2>2, <2>3
<1>9. ASSUME NEW m \in 1 .. k PROVE \E i \in DOMAIN r : r[i][1] <= m /\ m <= r[i][2]
  <2>1. CASE m \in 1 .. k - 1
    <3>1. PICK i \in DOMAIN q : q[i][1] <= m /\ m <= q[i][2]
      BY <1>2, <2>1
    <3> QED
      BY <1>1, <3>1
  <2>2. CASE m \notin 1 .. k - 1
    <3>1. n + 1 \in DOMAIN r /\ m = k
      BY <1>1, <2>2
    <3> QED
      BY <1>1, <1>3, <3>1
  <2> QED
    BY <2>1, <2>2
<1> QED
  BY <1>1, <1>4, <1>5, <1>7, <1>8, <1>9 DEF Groups

LEMMA ExtendedKeeps ==
  ASSUME NEW F, NEW k \in Nat \ {0}, NEW size,
         NEW q, q # <<>>, Groups(q, k - 1, F), <<q[Len(q)][1], k, q[Len(q)][3] + size>> \in F
  PROVE  Groups(Extended(q, k, size), k, F)
<1> DEFINE n == Len(q)
           x == <<q[n][1], k, q[n][3] + size>>
           r == [q EXCEPT ![n] = x]
<1>1. /\ q \in Seq(F) /\ n \in Nat /\ n # 0 /\ DOMAIN q = 1 .. n
  <2>1. q \in Seq(F)
    BY DEF Groups
  <2>2. n \in Nat /\ n # 0 /\ DOMAIN q = 1 .. n
    BY <2>1
  <2> QED
    BY <2>1, <2>2
<1>2. /\ \A i \in DOMAIN q : q[i][1] \in Nat /\ q[i][2] \in Nat /\ q[i][1] <= q[i][2] /\ q[i][2] <= k - 1
      /\ \A i, j \in DOMAIN q : i < j => q[i][2] < q[j][1]
      /\ \A m \in 1 .. k - 1 : \E i \in DOMAIN q : q[i][1] <= m /\ m <= q[i][2]
      /\ q[n][2] = k - 1
  BY DEF Groups
<1>3. Extended(q, k, size) = r
  BY DEF Extended
<1>4. x \in F /\ x[1] = q[n][1] /\ x[2] = k
  OBVIOUS
<1> HIDE DEF x, n
<1>5. n \in DOMAIN q
  BY <1>1
<1>6. DOMAIN r = DOMAIN q /\ r[n] = x /\ \A i \in DOMAIN q : i # n => r[i] = q[i]
  BY <1>1, <1>5
<1>7. r \in Seq(F)
  BY <1>1, <1>4, <1>5, ExceptSeq
<1>8. Len(r) = n
  BY <1>1, <1>6, <1>7
<1> HIDE DEF r
<1>9. ASSUME NEW i \in DOMAIN r PROVE r[i][1] = q[i][1] /\ r[i][1] \in Nat /\ r[i][2] \in Nat /\ r[i][1] <= r[i][2] /\ r[i][2] <= k
  <2>1. CASE i = n
    BY <1>1, <1>2, <1>4, <1>5, <1>6, <2>1
  <2>2. CASE i # n
    BY <1>1, <1>2, <1>6, <2>2
  <2> QED
    BY <2>1, <2>2
<1>10. ASSUME NEW i \in DOMAIN r, NEW j \in DOMAIN r, i < j PROVE r[i][2] < r[j][1]
  <2>1. i # n
    BY <1>1, <1>6, <1>10
  <2>2. r[i] = q[i] /\ q[i][2] < q[j][1] /\ r[j][1] = q[j][1]
    BY <1>2, <1>6, <1>9, <1>10, <2>1
  <2> QED
    BY <2>2
<1>11. ASSUME NEW m \in 1 .. k PROVE \E i \in DOMAIN r : r[i][1] <= m /\ m <= r[i][2]
  <2>1. CASE m \in 1 .. k - 1
    <3>1. PICK i \in DOMAIN q : q[i][1] <= m /\ m <= q[i][2]
      BY <1>2, <2>1
    <3>2. r[i][1] <= m
      BY <1>6, <1>9, <3>1
    <3>3. m <= r[i][2]
      <4>1. CASE i = n
        BY <1>4, <1>6, <4>1
      <4>2. CASE i # n
        BY <1>6, <3>1, <4>2
      <4> QED
        BY <4>1, <4>2
    <3> QED
      BY <1>6, <3>1, <3>2, <3>3
  <2>2. CASE m \notin 1 .. k - 1
    <3>1. m = k
      BY <2>2
    <3> QED
      BY <1>4, <1>5, <1>6, <1>9, <3>1
  <2> QED
    BY <2>1, <2>2
<1>12. r # <<>> => r[Len(r)][2] = k
  BY <1>4, <1>6, <1>8
<1> QED
  BY <1>3, <1>6, <1>7, <1>9, <1>10, <1>11, <1>12 DEF Groups

Unit == [size : Sizes, mark : 0 .. 1]

LEMMA UnitShape ==
  ASSUME NEW u \in UnitLists
  PROVE  /\ Len(u) \in Nat /\ DOMAIN u = 1 .. Len(u)
         /\ \A k \in DOMAIN u : u[k].size \in Nat
<1>1. PICK n \in 0 .. MaxUnits : u \in [1 .. n -> Unit]
  BY DEF UnitLists, Unit
<1>2. n \in Nat
  BY <1>1, CutBounds
<1>3. Len(u) = n /\ DOMAIN u = 1 .. n
  BY <1>1, <1>2
<1>4. \A k \in DOMAIN u : u[k] \in Unit
  BY <1>1
<1>5. \A x \in Unit : x.size \in Nat
  BY CutBounds DEF Unit, Sizes
<1> QED
  BY <1>2, <1>3, <1>4, <1>5

AddBlock(c, groups, k) ==
  IF /\ groups # <<>> /\ c[1][k].mark = 0 /\ c[1][k - 1].mark = 0
     /\ groups[Len(groups)][3] + c[1][k].size + 2 <= c[2]
  THEN Extended(groups, k, c[1][k].size + 2) ELSE Opened(groups, k, c[1][k].size)
Blocks == INSTANCE DataInduction WITH Op <- AddBlock

AddLine(c, parts, k) ==
  IF parts = <<>> THEN Opened(parts, k, c[1][k].size)
  ELSE LET full == parts[Len(parts)][3] IN
       IF full + c[1][k].size > c[2]
       THEN Opened(parts, k, Least(full, Carry) + 1 + c[1][k].size)
       ELSE Extended(parts, k, c[1][k].size + 1)
Parts == INSTANCE DataInduction WITH Op <- AddLine

AddSegment(c, groups, k) ==
  IF /\ groups # <<>>
     /\ groups[Len(groups)][3] + 1 + c[1][k].size <= c[2]
     /\ Ends(c[1], k) - Ends(c[1], groups[Len(groups)][1] - 1) <= c[2] + 1
  THEN Extended(groups, k, c[1][k].size + 1) ELSE Opened(groups, k, c[1][k].size)
Segments == INSTANCE DataInduction WITH Op <- AddSegment

(* A group of one unit, or one within the limit. *)
Alone(max) == {g \in Nat \X Nat \X Nat : g[1] = g[2] \/ g[3] <= max}

(* A part within the limit, or with one line that is longer behind its context. *)
Carried(u, max) ==
  {g \in Nat \X Nat \X Nat :
      u[g[1]].size \in Nat /\ g[3] <= Greatest(max + 1, Carry + 1 + u[g[1]].size)}

(* A group of one segment, or one within the limit in length and in time.  *)
Timed(u, max) ==
  {g \in Nat \X Nat \X Nat :
      g[1] = g[2] \/ (g[3] <= max /\ Ends(u, g[2]) - Ends(u, g[1] - 1) <= max + 1)}

(* The last group, which the next unit may join. *)
LEMMA LastGroup ==
  ASSUME NEW F, F \subseteq Nat \X Nat \X Nat, NEW e, NEW q, Groups(q, e, F), q # <<>>
  PROVE  /\ q[Len(q)] \in F /\ q[Len(q)][1] \in Nat /\ q[Len(q)][2] = e /\ q[Len(q)][3] \in Nat
<1>1. q \in Seq(F) /\ q[Len(q)][2] = e
  BY DEF Groups
<1>2. q[Len(q)] \in F
  <2>1. Len(q) \in DOMAIN q
    BY <1>1
  <2> HIDE DEF Groups
  <2> QED
    BY <1>1, <2>1
<1>3. q[Len(q)] \in Nat \X Nat \X Nat
  BY <1>2
<1> QED
  BY <1>1, <1>2, <1>3

LEMMA AddsBlock ==
  ASSUME NEW u, NEW max \in Nat, NEW k \in Nat \ {0}, u[k].size \in Nat,
         NEW q, Groups(q, k - 1, Alone(max))
  PROVE  Groups(AddBlock(<<u, max>>, q, k), k, Alone(max))
<1> DEFINE F == Alone(max)
           joins == /\ q # <<>> /\ u[k].mark = 0 /\ u[k - 1].mark = 0
                    /\ q[Len(q)][3] + u[k].size + 2 <= max
<1>1. F \subseteq Nat \X Nat \X Nat
  BY DEF Alone
<1>2. AddBlock(<<u, max>>, q, k) = IF joins THEN Extended(q, k, u[k].size + 2) ELSE Opened(q, k, u[k].size)
  BY DEF AddBlock
<1>3. CASE joins
  <2>1. q[Len(q)][1] \in Nat /\ q[Len(q)][3] \in Nat
    BY <1>1, <1>3, LastGroup
  <2> DEFINE a == q[Len(q)][1]
             b == q[Len(q)][3] + (u[k].size + 2)
  <2>2. a \in Nat /\ b \in Nat /\ b <= max
    <3> DEFINE l == q[Len(q)][3]
               z == u[k].size
    <3>1. l \in Nat /\ z \in Nat /\ l + z + 2 <= max
      BY <1>3, <2>1
    <3> HIDE DEF l, z
    <3>2. l + (z + 2) \in Nat /\ l + (z + 2) <= max
      BY <3>1
    <3> QED
      BY <2>1, <3>2 DEF l, z
  <2>3. <<a, k, b>> \in F
    <3> HIDE DEF a, b
    <3> QED
      BY <2>2 DEF Alone
  <2>4. Groups(Extended(q, k, u[k].size + 2), k, F)
    <3> DEFINE size == u[k].size + 2
    <3>1. q # <<>> /\ <<q[Len(q)][1], k, q[Len(q)][3] + size>> \in F
      BY <1>3, <2>3
    <3> HIDE DEF F, size
    <3>2. Groups(q, k - 1, F)
      BY DEF F
    <3>3. Groups(Extended(q, k, size), k, F)
      BY <3>1, <3>2, ExtendedKeeps
    <3> QED
      BY <3>3 DEF size
  <2> QED
    BY <1>2, <1>3, <2>4
<1>4. CASE ~joins
  <2>1. <<k, k, u[k].size>> \in F
    BY DEF Alone
  <2>2. Groups(Opened(q, k, u[k].size), k, F)
    BY <2>1, OpenedKeeps
  <2> QED
    BY <1>2, <1>4, <2>2
<1> QED
  BY <1>3, <1>4

LEMMA AddsLine ==
  ASSUME NEW u, NEW max \in Nat, NEW k \in Nat \ {0}, u[k].size \in Nat,
         NEW q, Groups(q, k - 1, Carried(u, max))
  PROVE  Groups(AddLine(<<u, max>>, q, k), k, Carried(u, max))
<1> DEFINE F == Carried(u, max)
           full == q[Len(q)][3]
           s == u[k].size
<1>1. F \subseteq Nat \X Nat \X Nat /\ Carry \in Nat
  BY CutBounds DEF Carried
<1>2. AddLine(<<u, max>>, q, k) =
        IF q = <<>> THEN Opened(q, k, s)
        ELSE IF full + s > max THEN Opened(q, k, Least(full, Carry) + 1 + s) ELSE Extended(q, k, s + 1)
  BY DEF AddLine
<1>3. ASSUME NEW b \in Nat, b <= Carry + 1 + s PROVE Groups(Opened(q, k, b), k, F)
  <2>1. b <= Greatest(max + 1, Carry + 1 + s)
    BY <1>1, <1>3 DEF Greatest
  <2>2. <<k, k, b>> \in F
    BY <2>1 DEF Carried
  <2> HIDE DEF F
  <2>3. Groups(q, k - 1, F)
    BY DEF F
  <2> QED
    BY <2>2, <2>3, OpenedKeeps
<1>4. CASE q = <<>>
  <2>1. s \in Nat /\ s <= Carry + 1 + s
    BY <1>1
  <2> QED
    BY <1>2, <1>3, <1>4, <2>1
<1>5. CASE q # <<>>
  <2>1. q[Len(q)] \in F /\ q[Len(q)][1] \in Nat /\ full \in Nat
    BY <1>1, <1>5, LastGroup
  <2>2. CASE full + s > max
    <3>1. Least(full, Carry) + 1 + s \in Nat /\ Least(full, Carry) + 1 + s <= Carry + 1 + s
      <4>1. full \in Nat /\ s \in Nat /\ Carry \in Nat
        BY <1>1, <2>1
      <4> HIDE DEF full, s
      <4> QED
        BY <4>1 DEF Least
    <3>2. Groups(Opened(q, k, Least(full, Carry) + 1 + s), k, F)
      BY <1>3, <3>1
    <3> QED
      BY <1>2, <1>5, <2>2, <3>2
  <2>3. CASE ~(full + s > max)
    <3> DEFINE a == q[Len(q)][1]
               b == full + (s + 1)
    <3>1. a \in Nat /\ b \in Nat /\ b <= max + 1 /\ u[a].size \in Nat
      <4>1. full \in Nat /\ s \in Nat /\ a \in Nat /\ u[a].size \in Nat
        BY <2>1 DEF Carried
      <4> HIDE DEF full, s, a
      <4> QED
        BY <2>3, <4>1
    <3>2. <<a, k, b>> \in F
      <4> DEFINE w == Carry + 1 + u[a].size
      <4>0. w \in Nat
        <5> DEFINE z == u[a].size
        <5>1. z \in Nat /\ Carry \in Nat
          BY <1>1, <3>1
        <5> HIDE DEF z, a, b
        <5>2. Carry + 1 + z \in Nat
          BY <5>1
        <5> QED
          BY <5>2 DEF z
      <4> HIDE DEF a, b, w
      <4>1. b <= Greatest(max + 1, w)
        BY <3>1, <4>0 DEF Greatest
      <4> QED
        BY <3>1, <4>1 DEF Carried, w
    <3>3. Groups(Extended(q, k, s + 1), k, F)
      <4> DEFINE size == s + 1
      <4>1. <<q[Len(q)][1], k, q[Len(q)][3] + size>> \in F
        BY <3>2
      <4> HIDE DEF F, size
      <4>2. Groups(q, k - 1, F)
        BY DEF F
      <4>3. Groups(Extended(q, k, size), k, F)
        BY <1>5, <4>1, <4>2, ExtendedKeeps
      <4> QED
        BY <4>3 DEF size
    <3> QED
      BY <1>2, <1>5, <2>3, <3>3
  <2> QED
    BY <2>2, <2>3
<1> QED
  BY <1>4, <1>5

LEMMA AddsSegment ==
  ASSUME NEW u, NEW max \in Nat, NEW k \in Nat \ {0}, u[k].size \in Nat,
         NEW q, Groups(q, k - 1, Timed(u, max))
  PROVE  Groups(AddSegment(<<u, max>>, q, k), k, Timed(u, max))
<1> DEFINE F == Timed(u, max)
           joins == /\ q # <<>>
                    /\ q[Len(q)][3] + 1 + u[k].size <= max
                    /\ Ends(u, k) - Ends(u, q[Len(q)][1] - 1) <= max + 1
<1>1. F \subseteq Nat \X Nat \X Nat
  BY DEF Timed
<1>2. AddSegment(<<u, max>>, q, k) = IF joins THEN Extended(q, k, u[k].size + 1) ELSE Opened(q, k, u[k].size)
  BY DEF AddSegment
<1>3. CASE joins
  <2>1. q[Len(q)][1] \in Nat /\ q[Len(q)][3] \in Nat
    BY <1>1, <1>3, LastGroup
  <2> DEFINE a == q[Len(q)][1]
             b == q[Len(q)][3] + (u[k].size + 1)
  <2>2. a \in Nat /\ b \in Nat /\ b <= max /\ Ends(u, k) - Ends(u, a - 1) <= max + 1
    <3> DEFINE l == q[Len(q)][3]
               z == u[k].size
    <3>1. l \in Nat /\ z \in Nat /\ l + 1 + z <= max
      BY <1>3, <2>1
    <3> HIDE DEF l, z
    <3>2. l + (z + 1) \in Nat /\ l + (z + 1) <= max
      BY <3>1
    <3> QED
      BY <1>3, <2>1, <3>2 DEF l, z
  <2>3. <<a, k, b>> \in F
    <3> HIDE DEF a, b
    <3> QED
      BY <2>2 DEF Timed
  <2>4. Groups(Extended(q, k, u[k].size + 1), k, F)
    <3> DEFINE size == u[k].size + 1
    <3>1. q # <<>> /\ <<q[Len(q)][1], k, q[Len(q)][3] + size>> \in F
      BY <1>3, <2>3
    <3> HIDE DEF F, size
    <3>2. Groups(q, k - 1, F)
      BY DEF F
    <3>3. Groups(Extended(q, k, size), k, F)
      BY <3>1, <3>2, ExtendedKeeps
    <3> QED
      BY <3>3 DEF size
  <2> QED
    BY <1>2, <1>3, <2>4
<1>4. CASE ~joins
  <2>1. <<k, k, u[k].size>> \in F
    BY DEF Timed
  <2>2. Groups(Opened(q, k, u[k].size), k, F)
    BY <2>1, OpenedKeeps
  <2> QED
    BY <1>2, <1>4, <2>2
<1> QED
  BY <1>3, <1>4

LEMMA BlocksGrouped ==
  ASSUME NEW u \in UnitLists, NEW max \in Nat
  PROVE  Groups(BlockCuts(u, max), Len(u), Alone(max))
<1> DEFINE n == Len(u)
           F == Alone(max)
           c == <<u, max>>
           s == [i \in DOMAIN u |-> i]
           T == [i \in 0 .. n |-> {g \in Seq(F) : Groups(g, i, F)}]
<1>1. n \in Nat /\ DOMAIN u = 1 .. n /\ DOMAIN s = 1 .. n /\ 0 \in 0 .. n /\ n \in 0 .. n
  BY UnitShape
<1>2. BlockCuts(u, max) = Blocks!Fold(c, <<>>, s)
  BY SMT DEF BlockCuts, AddBlock, Blocks!Fold, Blocks!Iter, FoldLeftDomain, FoldLeft, MapThenFoldSet, Max, Blocks!Max
<1>3. \A i \in 0 .. n : \A g : g \in T[i] <=> Groups(g, i, F)
  <2>1. \A g, i : Groups(g, i, F) => g \in Seq(F)
    BY DEF Groups
  <2> HIDE DEF F, n
  <2> QED
    BY <2>1
<1>4. <<>> \in T[0]
  BY <1>1, <1>3, NoGroup
<1>5. ASSUME NEW i \in 1 .. n, NEW g \in T[i - 1] PROVE AddBlock(c, g, s[i]) \in T[i]
  <2>1. i \in Nat \ {0} /\ i - 1 \in 0 .. n /\ i \in 0 .. n /\ s[i] = i /\ u[i].size \in Nat
    <3>1. i \in Nat \ {0} /\ i - 1 \in 0 .. n /\ i \in 0 .. n /\ i \in DOMAIN u
      BY <1>1
    <3>2. u[i].size \in Nat
      BY <3>1, UnitShape
    <3> QED
      BY <3>1, <3>2
  <2>2. Groups(g, i - 1, F)
    BY <1>3, <1>5, <2>1
  <2>3. Groups(AddBlock(c, g, i), i, F)
    BY <2>1, <2>2, AddsBlock
  <2> QED
    BY <1>3, <2>1, <2>3
<1>6. Blocks!Fold(c, <<>>, s) \in T[n]
  <2>1. \A i \in 1 .. n : \A g \in T[i - 1] : AddBlock(c, g, s[i]) \in T[i]
    BY <1>5
  <2> HIDE DEF T, s, n, c
  <2> QED
    BY <1>1, <1>4, <2>1, Blocks!FoldKeeps
<1> HIDE DEF T, s, c
<1> QED
  BY <1>1, <1>2, <1>3, <1>6

LEMMA LinesGrouped ==
  ASSUME NEW u \in UnitLists, NEW max \in Nat
  PROVE  Groups(PartCuts(u, max), Len(u), Carried(u, max))
<1> DEFINE n == Len(u)
           F == Carried(u, max)
           c == <<u, max>>
           s == [i \in DOMAIN u |-> i]
           T == [i \in 0 .. n |-> {g \in Seq(F) : Groups(g, i, F)}]
<1>1. n \in Nat /\ DOMAIN u = 1 .. n /\ DOMAIN s = 1 .. n /\ 0 \in 0 .. n /\ n \in 0 .. n
  BY UnitShape
<1>2. PartCuts(u, max) = Parts!Fold(c, <<>>, s)
  BY SMT DEF PartCuts, AddLine, Parts!Fold, Parts!Iter, FoldLeftDomain, FoldLeft, MapThenFoldSet, Max, Parts!Max
<1>3. \A i \in 0 .. n : \A g : g \in T[i] <=> Groups(g, i, F)
  <2>1. \A g, i : Groups(g, i, F) => g \in Seq(F)
    BY DEF Groups
  <2> HIDE DEF F, n
  <2> QED
    BY <2>1
<1>4. <<>> \in T[0]
  BY <1>1, <1>3, NoGroup
<1>5. ASSUME NEW i \in 1 .. n, NEW g \in T[i - 1] PROVE AddLine(c, g, s[i]) \in T[i]
  <2>1. i \in Nat \ {0} /\ i - 1 \in 0 .. n /\ i \in 0 .. n /\ s[i] = i /\ u[i].size \in Nat
    <3>1. i \in Nat \ {0} /\ i - 1 \in 0 .. n /\ i \in 0 .. n /\ i \in DOMAIN u
      BY <1>1
    <3>2. u[i].size \in Nat
      BY <3>1, UnitShape
    <3> QED
      BY <3>1, <3>2
  <2>2. Groups(g, i - 1, F)
    BY <1>3, <1>5, <2>1
  <2>3. Groups(AddLine(c, g, i), i, F)
    BY <2>1, <2>2, AddsLine
  <2> QED
    BY <1>3, <2>1, <2>3
<1>6. Parts!Fold(c, <<>>, s) \in T[n]
  <2>1. \A i \in 1 .. n : \A g \in T[i - 1] : AddLine(c, g, s[i]) \in T[i]
    BY <1>5
  <2> HIDE DEF T, s, n, c
  <2> QED
    BY <1>1, <1>4, <2>1, Parts!FoldKeeps
<1> HIDE DEF T, s, c
<1> QED
  BY <1>1, <1>2, <1>3, <1>6

LEMMA SegmentsGrouped ==
  ASSUME NEW u \in UnitLists, NEW max \in Nat
  PROVE  Groups(TranscriptCuts(u, max), Len(u), Timed(u, max))
<1> DEFINE n == Len(u)
           F == Timed(u, max)
           c == <<u, max>>
           s == [i \in DOMAIN u |-> i]
           T == [i \in 0 .. n |-> {g \in Seq(F) : Groups(g, i, F)}]
<1>1. n \in Nat /\ DOMAIN u = 1 .. n /\ DOMAIN s = 1 .. n /\ 0 \in 0 .. n /\ n \in 0 .. n
  BY UnitShape
<1>2. TranscriptCuts(u, max) = Segments!Fold(c, <<>>, s)
  BY SMT DEF TranscriptCuts, AddSegment, Segments!Fold, Segments!Iter, FoldLeftDomain, FoldLeft, MapThenFoldSet, Max, Segments!Max
<1>3. \A i \in 0 .. n : \A g : g \in T[i] <=> Groups(g, i, F)
  <2>1. \A g, i : Groups(g, i, F) => g \in Seq(F)
    BY DEF Groups
  <2> HIDE DEF F, n
  <2> QED
    BY <2>1
<1>4. <<>> \in T[0]
  BY <1>1, <1>3, NoGroup
<1>5. ASSUME NEW i \in 1 .. n, NEW g \in T[i - 1] PROVE AddSegment(c, g, s[i]) \in T[i]
  <2>1. i \in Nat \ {0} /\ i - 1 \in 0 .. n /\ i \in 0 .. n /\ s[i] = i /\ u[i].size \in Nat
    <3>1. i \in Nat \ {0} /\ i - 1 \in 0 .. n /\ i \in 0 .. n /\ i \in DOMAIN u
      BY <1>1
    <3>2. u[i].size \in Nat
      BY <3>1, UnitShape
    <3> QED
      BY <3>1, <3>2
  <2>2. Groups(g, i - 1, F)
    BY <1>3, <1>5, <2>1
  <2>3. Groups(AddSegment(c, g, i), i, F)
    BY <2>1, <2>2, AddsSegment
  <2> QED
    BY <1>3, <2>1, <2>3
<1>6. Segments!Fold(c, <<>>, s) \in T[n]
  <2>1. \A i \in 1 .. n : \A g \in T[i - 1] : AddSegment(c, g, s[i]) \in T[i]
    BY <1>5
  <2> HIDE DEF T, s, n, c
  <2> QED
    BY <1>1, <1>4, <2>1, Segments!FoldKeeps
<1> HIDE DEF T, s, c
<1> QED
  BY <1>1, <1>2, <1>3, <1>6

-----------------------------------------------------------------------------
(* The cut of every input.                                                 *)

CutInput(c, t) == (c \in OfText /\ t \in CutTexts) \/ (c \in OfUnits /\ t \in UnitLists)

(* What CutsAreSound says of one cut. *)
SoundCut(c, t, max, q) ==
  /\ \A i, j \in DOMAIN q : i < j => IF c \in OfUnits THEN q[i][2] < q[j][1] ELSE q[i][2] <= q[j][1]
  /\ IF c \in OfUnits
     THEN \A k \in DOMAIN t : \E i \in DOMAIN q : q[i][1] <= k /\ k <= q[i][2]
     ELSE \A k \in Ink(t) : \E i \in DOMAIN q : q[i][1] < k /\ k <= q[i][2]
  /\ \A i \in DOMAIN q :
        /\ c \in {"comment", "article", "lines"} => q[i][2] - q[i][1] <= max
        /\ c = "sentences" => \/ q[i][2] - q[i][1] <= max
                              \/ \A b \in Boundaries(t) : ~(q[i][1] < b /\ b < q[i][2])
        /\ c = "parts" => q[i][3] <= Greatest(max + 1, Carry + 1 + t[q[i][1]].size)
        /\ c \in {"blocks", "transcript"} =>
              \/ q[i][1] = q[i][2]
              \/ /\ q[i][3] <= max
                 /\ c = "transcript" => Ends(t, q[i][2]) - Ends(t, q[i][1] - 1) <= max + 1

LEMMA TilesAreSound ==
  ASSUME NEW c \in {"comment", "article", "lines"}, NEW t, NEW max, NEW q, Tiles(q, 0, Len(t), max, Ink(t))
  PROVE  SoundCut(c, t, max, q)
<1>1. c \notin OfUnits /\ c # "sentences" /\ c # "parts" /\ c \notin {"blocks", "transcript"}
  BY DEF OfUnits
<1>2. /\ \A i \in DOMAIN q : q[i][2] - q[i][1] <= max
      /\ \A i, j \in DOMAIN q : i < j => q[i][2] <= q[j][1]
      /\ \A k \in Ink(t) : \E i \in DOMAIN q : q[i][1] < k /\ k <= q[i][2]
  BY DEF Tiles
<1> QED
  BY <1>1, <1>2 DEF SoundCut

LEMMA RunsAreSound ==
  ASSUME NEW t \in CutTexts, NEW max, NEW q, Runs(q, Len(t), Boundaries(t), max)
  PROVE  SoundCut("sentences", t, max, q)
<1>1. Ink(t) \subseteq 1 .. Len(t)
  BY TextShape DEF Ink
<1>2. /\ \A i \in DOMAIN q : \/ q[i][2] - q[i][1] <= max
                             \/ \A b \in Boundaries(t) : ~(q[i][1] < b /\ b < q[i][2])
      /\ \A i, j \in DOMAIN q : i < j => q[i][2] <= q[j][1]
      /\ \A k \in 1 .. Len(t) : \E i \in DOMAIN q : q[i][1] < k /\ k <= q[i][2]
  BY DEF Runs, Whole
<1>3. "sentences" \notin OfUnits
  BY DEF OfUnits
<1> QED
  BY <1>1, <1>2, <1>3 DEF SoundCut

LEMMA GroupsAreSound ==
  ASSUME NEW c \in OfUnits, NEW t \in UnitLists, NEW max, NEW q, NEW F, Groups(q, Len(t), F),
         \A g \in F :
            /\ c = "parts" => g[3] <= Greatest(max + 1, Carry + 1 + t[g[1]].size)
            /\ c # "parts" =>
                  \/ g[1] = g[2]
                  \/ /\ g[3] <= max
                     /\ c = "transcript" => Ends(t, g[2]) - Ends(t, g[1] - 1) <= max + 1
  PROVE  SoundCut(c, t, max, q)
<1>1. DOMAIN t = 1 .. Len(t)
  BY UnitShape
<1>2. /\ \A i, j \in DOMAIN q : i < j => q[i][2] < q[j][1]
      /\ \A k \in 1 .. Len(t) : \E i \in DOMAIN q : q[i][1] <= k /\ k <= q[i][2]
      /\ q \in Seq(F)
  BY DEF Groups
<1>3. \A i \in DOMAIN q : q[i] \in F
  BY <1>2
<1>4. c \notin {"comment", "article", "lines"} /\ c # "sentences"
  BY DEF OfUnits
<1> QED
  BY <1>1, <1>2, <1>3, <1>4 DEF SoundCut

LEMMA EveryCutIsSound ==
  ASSUME NEW c, NEW t, CutInput(c, t), NEW max \in Nat \ {0}
  PROVE  SoundCut(c, t, max, CutOf(c, t, max))
<1>1. CASE c \in OfText
  <2>1. t \in CutTexts
    BY <1>1 DEF CutInput, OfText, OfUnits
  <2>2. CASE c = "comment"
    <3>1. CutOf(c, t, max) = CommentCuts(t, max)
      BY <2>2 DEF CutOf
    <3> QED
      BY <2>1, <2>2, <3>1, CommentTiles, TilesAreSound
  <2>3. CASE c = "article"
    <3>1. CutOf(c, t, max) = ArticleCuts(t, max)
      BY <2>3 DEF CutOf
    <3> QED
      BY <2>1, <2>3, <3>1, ArticleTiles, TilesAreSound
  <2>4. CASE c = "sentences"
    <3>1. CutOf(c, t, max) = SentenceCuts(t, max)
      BY <2>4 DEF CutOf
    <3> QED
      BY <2>1, <2>4, <3>1, SentencesRun, RunsAreSound
  <2>5. CASE c = "lines"
    <3>1. CutOf(c, t, max) = LineCuts(t, max)
      BY <2>5 DEF CutOf
    <3> QED
      BY <2>1, <2>5, <3>1, LineTiles, TilesAreSound
  <2> QED
    BY <1>1, <2>2, <2>3, <2>4, <2>5 DEF OfText
<1>2. CASE c \in OfUnits
  <2>1. t \in UnitLists /\ max \in Nat
    BY <1>2 DEF CutInput, OfText, OfUnits
  <2>2. CASE c = "blocks"
    <3>1. CutOf(c, t, max) = BlockCuts(t, max)
      BY <2>2 DEF CutOf
    <3>2. Groups(BlockCuts(t, max), Len(t), Alone(max))
      BY <2>1, BlocksGrouped
    <3>3. \A g \in Alone(max) : g[1] = g[2] \/ g[3] <= max
      BY DEF Alone
    <3>4. c # "parts" /\ c # "transcript"
      BY <2>2
    <3> QED
      BY <1>2, <2>1, <3>1, <3>2, <3>3, <3>4, GroupsAreSound
  <2>3. CASE c = "parts"
    <3>1. CutOf(c, t, max) = PartCuts(t, max)
      BY <2>3 DEF CutOf
    <3>2. Groups(PartCuts(t, max), Len(t), Carried(t, max))
      BY <2>1, LinesGrouped
    <3>3. \A g \in Carried(t, max) : g[3] <= Greatest(max + 1, Carry + 1 + t[g[1]].size)
      BY DEF Carried
    <3> QED
      BY <1>2, <2>1, <2>3, <3>1, <3>2, <3>3, GroupsAreSound
  <2>4. CASE c = "transcript"
    <3>1. CutOf(c, t, max) = TranscriptCuts(t, max)
      BY <2>4 DEF CutOf
    <3>2. Groups(TranscriptCuts(t, max), Len(t), Timed(t, max))
      BY <2>1, SegmentsGrouped
    <3>3. \A g \in Timed(t, max) :
             g[1] = g[2] \/ (g[3] <= max /\ Ends(t, g[2]) - Ends(t, g[1] - 1) <= max + 1)
      BY DEF Timed
    <3>4. c # "parts"
      BY <2>4
    <3> QED
      BY <1>2, <2>1, <3>1, <3>2, <3>3, <3>4, GroupsAreSound
  <2> QED
    BY <1>2, <2>2, <2>3, <2>4 DEF OfUnits
<1> QED
  BY <1>1, <1>2 DEF CutInput

(* The input is a text or units, and once it is cut, the cut is its own.   *)
CutIInv ==
  /\ limit \in 1 .. MaxLimit
  /\ cutter # "done" => CutInput(cutter, text)
  /\ cutter = "done" => CutInput(text[1], text[2]) /\ cuts = CutOf(text[1], text[2], limit)

LEMMA CutInductive ==
  CutSpec => []CutIInv
<1>1. CutInit => CutIInv
  <2> SUFFICES ASSUME CutInit PROVE CutIInv
    OBVIOUS
  <2>1. CutInput(cutter, text) /\ cutter # "done"
    BY DEF CutInit, CutInput, OfText, OfUnits
  <2> QED
    BY <2>1 DEF CutInit, CutIInv
<1>2. CutIInv /\ [CutText]_cutVars => CutIInv'
  <2> SUFFICES ASSUME CutIInv, [CutText]_cutVars PROVE CutIInv'
    OBVIOUS
  <2>1. CASE CutText
    <3>1. CutInput(cutter, text)
      BY <2>1 DEF CutText, CutIInv
    <3>2. /\ cutter' = "done" /\ text' = <<cutter, text>> /\ limit' = limit
          /\ cuts' = CutOf(cutter, text, limit)
      BY <2>1 DEF CutText
    <3>3. text'[1] = cutter /\ text'[2] = text
      BY <3>2
    <3>4. CutInput(text'[1], text'[2]) /\ cuts' = CutOf(text'[1], text'[2], limit')
      BY <3>1, <3>2, <3>3
    <3>5. limit' \in 1 .. MaxLimit
      BY <3>2 DEF CutIInv
    <3> QED
      BY <3>2, <3>4, <3>5 DEF CutIInv, CutInput, CutOf
  <2>2. CASE UNCHANGED cutVars
    BY <2>2 DEF CutIInv, cutVars, CutInput, CutOf
  <2> QED
    BY <2>1, <2>2
<1> QED
  BY <1>1, <1>2, PTL DEF CutSpec

LEMMA CutIsSound ==
  ASSUME CutIInv
  PROVE  CutsAreSound
<1> SUFFICES ASSUME cutter = "done" PROVE CutsAreSound
  BY DEF CutsAreSound, CutsCoverOnce, CutsFit
<1> DEFINE c == text[1]
           t == text[2]
<1>1. CutInput(c, t) /\ cuts = CutOf(c, t, limit) /\ limit \in Nat \ {0}
  BY CutBounds DEF CutIInv
<1> HIDE DEF c, t
<1>2. SoundCut(c, t, limit, cuts)
  BY <1>1, EveryCutIsSound
<1>3. c \in OfText \cup OfUnits
  BY <1>1 DEF CutInput
<1>4. CutsCoverOnce
  BY <1>2 DEF CutsCoverOnce, SoundCut, c, t
<1>5. CutsFit
  <2> SUFFICES ASSUME NEW i \in DOMAIN cuts
               PROVE  CASE c \in {"comment", "article", "lines"} -> cuts[i][2] - cuts[i][1] <= limit
                        [] c = "sentences" ->
                              \/ cuts[i][2] - cuts[i][1] <= limit
                              \/ \A b \in Boundaries(t) : ~(cuts[i][1] < b /\ b < cuts[i][2])
                        [] c = "parts" ->
                              cuts[i][3] <= Greatest(limit + 1, Carry + 1 + t[cuts[i][1]].size)
                        [] OTHER ->
                              \/ cuts[i][1] = cuts[i][2]
                              \/ /\ cuts[i][3] <= limit
                                 /\ c = "transcript" =>
                                      Ends(t, cuts[i][2]) - Ends(t, cuts[i][1] - 1) <= limit + 1
    BY DEF CutsFit, c, t
  <2>1. CASE c \in {"comment", "article", "lines"}
    BY <1>2, <2>1 DEF SoundCut
  <2>2. CASE c = "sentences"
    BY <1>2, <2>2 DEF SoundCut
  <2>3. CASE c = "parts"
    BY <1>2, <2>3 DEF SoundCut
  <2>4. CASE c \in {"blocks", "transcript"}
    BY <1>2, <2>4 DEF SoundCut
  <2> QED
    BY <1>3, <2>1, <2>2, <2>3, <2>4 DEF OfText, OfUnits
<1> QED
  BY <1>4, <1>5 DEF CutsAreSound

(* The seven cutters keep the whole text, or every unit, once and in       *)
(* order, in cuts within the limit unless one unit alone is longer: for    *)
(* every text, every list of units and every limit.                        *)
THEOREM CutsSound == CutSpec => []CutsAreSound
<1>1. CutIInv => CutsAreSound
  BY CutIsSound
<1> QED
  BY <1>1, CutInductive, PTL
=============================================================================
