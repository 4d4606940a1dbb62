--------------------------- MODULE ContentIndexProofs -------------------------
(***************************************************************************)
(* Success means indexed in ContentIndex, for any workers, runs, pages,    *)
(* items, chunker versions and targets, and any number of deaths, failed   *)
(* calls, changes of the settings and rebuilds.                            *)
(*                                                                         *)
(* FreshIInv is about rows: what a session still knows of a row is what    *)
(* the row was, so what its commits merge into the row agrees with the     *)
(* points.  EarnedIInv is about runs: the pages a run has done are         *)
(* indexed, except for what another run has taken and has yet to write.    *)
(*                                                                         *)
(* And what an answer is made of, in AnswerSearch: SearchIInv, for all     *)
(* passages, scores and limits, and any writes of the indexers meanwhile.  *)
(***************************************************************************)
EXTENDS ContentIndex, AnswerSearch, FiniteSetTheorems, SequenceTheorems, TLAPS

-----------------------------------------------------------------------------
(* What a worker holds, by its phase. *)
Meta == [hash : 1 .. LastVersion, at : Targets \cup {None}, cleaned : BOOLEAN]
Obsolete == [chunk : Chunks, at : Targets \cup {None}]
Loaded == UNION {[S -> Row \cup {None}] : S \in SUBSET Chunks}
Remembered == UNION {[S -> Row] : S \in SUBSET Chunks}
CrawlerState == [phase : Phases, run : Runs \cup {None}, page : Nat, good : Nat,
                 unindexed : BOOLEAN, left : Seq(Items), base : Loaded, mem : Remembered,
                 gone : SUBSET Obsolete, todo : SUBSET Chunks]

AtChunks == {"chunks", "open", "vectors"}
AtVectors == {"open", "vectors"}
AtPage == {"page", "items"} \cup AtChunks

CrawlerOK(m) ==
    /\ m \in CrawlerState
    /\ DOMAIN m.mem = DOMAIN m.base /\ m.todo \subseteq DOMAIN m.mem
    /\ \A g \in m.gone : g.chunk \in DOMAIN m.mem
    /\ m.phase # "idle" => m.run \in Runs
    /\ m.phase = "discover" => m.page = 0 /\ m.good = 0
    /\ m.phase \in AtPage => m.page \in 1 .. Len(PagesOf[m.run]) /\ m.good < m.page
    /\ m.phase = "finish" => m.page = Len(PagesOf[m.run]) + 1 /\ m.good < m.page

RebuildOK ==
    /\ rebuild \in [on : BOOLEAN, at : Targets \cup {None}, mem : Remembered, todo : SUBSET Chunks]
    /\ rebuild.on => rebuild.at \in Targets /\ rebuild.todo \subseteq DOMAIN rebuild.mem

TablesOK ==
    /\ runStatus \in [Runs -> {"absent", "queued", "running", "success", "partial", "failed"}]
    /\ held \in [Items -> {{}, {None}} \cup {{w} : w \in Workers}]
    /\ rows \in [Chunks -> Row \cup {None}]
    /\ points \in [Targets -> [Chunks -> 0 .. LastVersion]]
    /\ emptied \subseteq Targets /\ overtaken \subseteq Targets \X Chunks
    /\ version \in 1 .. LastVersion /\ target \in Targets
    /\ DOMAIN crawler = Workers /\ \A w \in Workers : CrawlerOK(crawler[w])
    /\ RebuildOK

(* Rows. *)
IsDue(c) == c \in Expected(c[1], version)
Fresh(row, c) ==
    row.status = "success" /\ row.meta.at \in Targets \ emptied =>
        \/ points[row.meta.at][c] = row.text
        \/ points[row.meta.at][c] = 0 /\ <<row.meta.at, c>> \in overtaken
RowOK(row, c) ==
    /\ row.text = row.meta.hash /\ row.text <= version
    /\ row.status = "obsolete" /\ row.text = version => ~IsDue(c)
RowsOK == \A c \in Chunks : Present(c) => RowOK(rows[c], c) /\ Fresh(rows[c], c)

Written(c) ==
    \/ points[target][c] = version
    \/ points[target][c] = 0 /\ <<target, c>> \in overtaken

(* What a session knew of a row, whatever others have made of it since. *)
KnewOK(c, base) ==
    IF base = None THEN Present(c) /\ IsDue(c) => rows[c].text = version
    ELSE
        /\ Present(c) /\ base.text = base.meta.hash /\ base.text <= version
        /\ rows[c].text = base.text \/ (IsDue(c) /\ rows[c].text = version)
        /\ IF IsDue(c) THEN base.status # "obsolete" => rows[c].status # "obsolete"
           ELSE base.status = "obsolete" => rows[c].status = "obsolete"
        /\ IsDue(c) /\ base.meta.at = target => rows[c].meta.at \in {target, None}

(* Reconciled in memory. *)
Renewed(c, base, mem) ==
    /\ IsDue(c) /\ mem = NewRow(version)
    /\ base # None => base.text # version
Untouched(c, base, mem) ==
    IsDue(c) /\ base # None /\ mem = base /\ base.text = version /\ base.status # "obsolete"
Dropped(c, base, mem) ==
    ~IsDue(c) /\ base # None /\ mem = [base EXCEPT !.status = "obsolete"]

(* Committed, and what its vector calls have answered. *)
Kept(c, base, mem) ==
    /\ base # None /\ mem.text = base.text /\ mem.meta.hash = base.meta.hash
    /\ IF IsDue(c) THEN base.text = version /\ base.status # "obsolete"
       ELSE base.status = "obsolete" /\ mem.status = "obsolete"
    /\ mem.meta.cleaned # base.meta.cleaned /\ IsDue(c) => base.status = "pending" /\ base.meta.at = None
Same(base, mem) == mem.status = base.status /\ mem.meta.at = base.meta.at
Answered(c, m) ==
    \/ m.mem[c].status = "failed" /\ m.mem[c].meta.at = m.base[c].meta.at /\ m.unindexed
    \/ m.mem[c].status = "success" /\ m.mem[c].meta.at = target /\ Written(c)

MemoryOK(m) ==
    \A c \in DOMAIN m.mem :
        /\ KnewOK(c, m.base[c])
        /\ c \in m.todo => IsDue(c)
        /\ m.phase = "chunks" =>
              /\ \/ Renewed(c, m.base[c], m.mem[c])
                 \/ Untouched(c, m.base[c], m.mem[c])
                 \/ Dropped(c, m.base[c], m.mem[c])
              /\ IsDue(c) => c \in m.todo
        /\ m.phase \in AtVectors =>
              /\ Kept(c, m.base[c], m.mem[c])
              /\ IsDue(c) => IF c \in m.todo THEN Same(m.base[c], m.mem[c]) ELSE Answered(c, m)
        /\ m.phase = "open" /\ IsDue(c) => c \in m.todo
GoneOK(m) ==
    \A g \in m.gone : IsDue(g.chunk) => g.chunk \in m.todo /\
        m.mem[g.chunk].status = "pending" /\ m.mem[g.chunk].meta.at = None
MemoriesOK ==
    \A w \in Workers : crawler[w].phase \in AtChunks => MemoryOK(crawler[w]) /\ GoneOK(crawler[w])

RebuildsAlone ==
    rebuild.on =>
        /\ \A w \in Workers : crawler[w].phase = "idle"
        /\ DOMAIN rebuild.mem = {c \in Chunks : Present(c) /\ rows[c].status # "obsolete"}
        /\ \A c \in DOMAIN rebuild.mem :
              IF c \in rebuild.todo THEN rebuild.mem[c] = rows[c]
              ELSE /\ rebuild.mem[c].text = rows[c].text
                   /\ rebuild.mem[c].meta.hash = rows[c].meta.hash
                   /\ \/ rebuild.mem[c].status = "failed"
                      \/ /\ rebuild.mem[c].status = "success" /\ rebuild.mem[c].meta.at = rebuild.at
                         /\ \/ points[rebuild.at][c] = rows[c].text
                            \/ points[rebuild.at][c] = 0 /\ <<rebuild.at, c>> \in overtaken

FreshIInv == TablesOK /\ RowsOK /\ MemoriesOK /\ RebuildsAlone

-----------------------------------------------------------------------------
(* A commit writes the columns that the session has changed, and no        *)
(* others.                                                                 *)
LEMMA MergeRow ==
  ASSUME NEW row \in Row, NEW base \in Row, NEW mem \in Row
  PROVE  /\ Merge(row, base, mem) \in Row
         /\ Merge(row, base, mem).text = IF mem.text # base.text THEN mem.text ELSE row.text
         /\ Merge(row, base, mem).meta = IF mem.meta # base.meta THEN mem.meta ELSE row.meta
         /\ Merge(row, base, mem).status =
               IF mem.status # base.status THEN mem.status ELSE row.status
         /\ Merge(row, base, mem).named = IF mem.named # base.named THEN mem.named ELSE row.named
<1>1. base # None
  BY RowNullAssumption
<1>2. DOMAIN row = {"text", "meta", "status", "named"}
  BY DEF Row
<1>3. Merge(row, base, mem) =
        [text |-> IF mem.text # base.text THEN mem.text ELSE row.text,
         meta |-> IF mem.meta # base.meta THEN mem.meta ELSE row.meta,
         status |-> IF mem.status # base.status THEN mem.status ELSE row.status,
         named |-> IF mem.named # base.named THEN mem.named ELSE row.named]
  BY <1>1, <1>2 DEF Merge
<1> QED
  BY <1>3 DEF Row

(* What an item is cut into are chunks of that item. *)
LEMMA DueChunks ==
  ASSUME NEW i \in Items, NEW v \in 1 .. LastVersion
  PROVE  Expected(i, v) \subseteq Chunks /\ \A c \in Expected(i, v) : c[1] = i
<1>1. ASSUME NEW n \in 1 .. Built[v][i] PROVE n \in Indices
  <2>1. <<v, i>> \in (1 .. LastVersion) \X Items
    OBVIOUS
  <2> QED
    BY <1>1, <2>1 DEF Indices
<1> QED
  BY <1>1 DEF Expected, Chunks

(* A chunk belongs to an item. *)
LEMMA ChunkOfItem == \A c \in Chunks : c[1] \in Items
BY DEF Chunks
-----------------------------------------------------------------------------
(* What a step may do to a row that others know. *)
Moves(c) ==
    IF ~Present(c) THEN Present(c)' /\ IsDue(c) => rows'[c].text = version
    ELSE
        /\ Present(c)'
        /\ rows'[c].text = rows[c].text \/ (IsDue(c) /\ rows'[c].text = version)
        /\ IF IsDue(c) THEN rows[c].status # "obsolete" => rows'[c].status # "obsolete"
           ELSE rows[c].status = "obsolete" => rows'[c].status = "obsolete"
        /\ IsDue(c) /\ rows[c].meta.at \in {target, None} => rows'[c].meta.at \in {target, None}

(* What is due depends on the chunker's version alone. *)
LEMMA SameDue ==
  ASSUME UNCHANGED version PROVE \A c : IsDue(c)' <=> IsDue(c)
BY DEF IsDue, Expected

(* What a session knew of a row stays true while others move the row. *)
LEMMA KnewMoves ==
  ASSUME NEW c, NEW base, KnewOK(c, base), Moves(c), UNCHANGED <<version, target>>
  PROVE  KnewOK(c, base)'
<1>1. CASE base = None
  <2>1. IsDue(c)' <=> IsDue(c)
    BY SameDue
  <2> QED
    BY <1>1, <2>1 DEF KnewOK, Moves
<1>2. CASE base # None
  <2>1. IsDue(c)' <=> IsDue(c)
    BY SameDue
  <2>2. Present(c) /\ Present(c)'
    BY <1>2 DEF KnewOK, Moves
  <2> QED
    BY <1>2, <2>1, <2>2 DEF KnewOK, Moves
<1> QED
  BY <1>1, <1>2

(* What a worker holds stays true while others move the rows and write     *)
(* points.                                                                 *)
LEMMA MemoryMoves ==
  ASSUME NEW n, CrawlerOK(n), MemoryOK(n), GoneOK(n), UNCHANGED <<version, target>>,
         \A c \in Chunks : Moves(c), \A c \in Chunks : Written(c) => Written(c)'
  PROVE  MemoryOK(n)' /\ GoneOK(n)'
<1>1. \A c : IsDue(c)' <=> IsDue(c)
  BY SameDue
<1>2. GoneOK(n)'
  BY <1>1 DEF GoneOK
<1>3. DOMAIN n.mem \subseteq Chunks
  BY DEF CrawlerOK, CrawlerState, Remembered
<1>4. ASSUME NEW c \in DOMAIN n.mem
      PROVE  /\ KnewOK(c, n.base[c])'
             /\ Renewed(c, n.base[c], n.mem[c])' <=> Renewed(c, n.base[c], n.mem[c])
             /\ Untouched(c, n.base[c], n.mem[c])' <=> Untouched(c, n.base[c], n.mem[c])
             /\ Dropped(c, n.base[c], n.mem[c])' <=> Dropped(c, n.base[c], n.mem[c])
             /\ Kept(c, n.base[c], n.mem[c])' <=> Kept(c, n.base[c], n.mem[c])
             /\ Answered(c, n) => Answered(c, n)'
             /\ Same(n.base[c], n.mem[c])' <=> Same(n.base[c], n.mem[c])
  <2>1. KnewOK(c, n.base[c])'
    BY <1>3, KnewMoves DEF MemoryOK
  <2>2. Answered(c, n) => Answered(c, n)'
    BY <1>3 DEF Answered
  <2> QED
    BY <1>1, <2>1, <2>2 DEF Renewed, Untouched, Dropped, Kept, NewRow, Same
<1>5. MemoryOK(n)'
  BY <1>1, <1>4 DEF MemoryOK
<1> QED
  BY <1>2, <1>5

(* A step of a worker, from what it makes of its own memory and of the rows. *)
LEMMA WorkerKeeps ==
  ASSUME FreshIInv, NEW w \in Workers, NEW m, CrawlerOK(m), ~rebuild.on,
         crawler' = [crawler EXCEPT ![w] = m],
         UNCHANGED <<rebuild, version, target, emptied>>,
         runStatus' \in [Runs -> {"absent", "queued", "running", "success", "partial", "failed"}],
         held' \in [Items -> {{}, {None}} \cup {{x} : x \in Workers}],
         rows' \in [Chunks -> Row \cup {None}],
         points' \in [Targets -> [Chunks -> 0 .. LastVersion]],
         overtaken' \subseteq Targets \X Chunks,
         RowsOK', \A c \in Chunks : Moves(c), \A c \in Chunks : Written(c) => Written(c)',
         m.phase \in AtChunks => MemoryOK(m)' /\ GoneOK(m)'
  PROVE  FreshIInv'
<1>1. DOMAIN crawler = Workers /\ \A x \in Workers : CrawlerOK(crawler[x])
  BY DEF FreshIInv, TablesOK
<1>2. DOMAIN crawler' = Workers /\ \A x \in Workers : crawler'[x] = IF x = w THEN m ELSE crawler[x]
  BY <1>1
<1>3. TablesOK'
  <2>1. \A x \in Workers : CrawlerOK(crawler'[x])
    BY <1>1, <1>2
  <2>2. RebuildOK'
    BY DEF FreshIInv, TablesOK, RebuildOK
  <2> QED
    BY <1>2, <2>1, <2>2 DEF FreshIInv, TablesOK, CrawlerOK
<1>4. MemoriesOK'
  <2>1. ASSUME NEW x \in Workers, crawler'[x].phase \in AtChunks
        PROVE  (MemoryOK(crawler[x]) /\ GoneOK(crawler[x]))'
    <3>1. PICK n : n = crawler'[x]
      OBVIOUS
    <3>2. MemoryOK(n)' /\ GoneOK(n)'
      <4>1. CASE x = w
        BY <1>2, <2>1, <3>1, <4>1
      <4>2. CASE x # w
        <5>1. crawler[x] = n
          BY <1>2, <3>1, <4>2
        <5>2. CrawlerOK(n) /\ MemoryOK(n) /\ GoneOK(n)
          BY <1>1, <2>1, <3>1, <5>1 DEF FreshIInv, MemoriesOK
        <5> QED
          BY <5>2, MemoryMoves
      <4> QED
        BY <4>1, <4>2
    <3> QED
      BY <3>1, <3>2
  <2> QED
    BY <2>1 DEF MemoriesOK
<1>5. RebuildsAlone'
  BY DEF RebuildsAlone
<1> QED
  BY <1>3, <1>4, <1>5 DEF FreshIInv

(* A step that leaves rows and points alone. *)
LEMMA RowsStay ==
  ASSUME RowsOK, UNCHANGED <<rows, points, overtaken, emptied, version, target>>
  PROVE  RowsOK' /\ (\A c \in Chunks : Moves(c)) /\ (\A c \in Chunks : Written(c) => Written(c)')
<1>1. \A c : IsDue(c)' <=> IsDue(c)
  BY SameDue
<1>2. RowsOK'
  BY <1>1 DEF RowsOK, RowOK, Fresh, Present
<1>3. \A c \in Chunks : Moves(c)
  BY DEF Moves, Present
<1> QED
  BY <1>2, <1>3 DEF Written

(* A step of a worker in its own memory. *)
LEMMA MemoryOnly ==
  ASSUME FreshIInv, NEW w \in Workers, NEW m, CrawlerOK(m), ~rebuild.on,
         crawler' = [crawler EXCEPT ![w] = m],
         UNCHANGED <<rows, points, overtaken, rebuild, emptied, version, target>>,
         runStatus' \in [Runs -> {"absent", "queued", "running", "success", "partial", "failed"}],
         held' \in [Items -> {{}, {None}} \cup {{x} : x \in Workers}],
         m.phase \in AtChunks => MemoryOK(m) /\ GoneOK(m)
  PROVE  FreshIInv'
<1>1. RowsOK' /\ (\A c \in Chunks : Moves(c)) /\ (\A c \in Chunks : Written(c) => Written(c)')
  BY RowsStay DEF FreshIInv
<1>2. m.phase \in AtChunks => MemoryOK(m)' /\ GoneOK(m)'
  BY <1>1, MemoryMoves
<1>3. /\ rows' \in [Chunks -> Row \cup {None}]
      /\ points' \in [Targets -> [Chunks -> 0 .. LastVersion]]
      /\ overtaken' \subseteq Targets \X Chunks
  BY DEF FreshIInv, TablesOK
<1> QED
  BY <1>1, <1>2, <1>3, WorkerKeeps

(* A worker at work has a run, and no rebuild is on. *)
LEMMA AtWork ==
  ASSUME FreshIInv, NEW w \in Workers, crawler[w].phase # "idle"
  PROVE  /\ CrawlerOK(crawler[w]) /\ ~rebuild.on /\ crawler[w].run \in Runs
         /\ PagesOf[crawler[w].run] \in Seq(Seq(Items))
         /\ DOMAIN crawler = Workers
<1>1. CrawlerOK(crawler[w]) /\ ~rebuild.on /\ DOMAIN crawler = Workers
  BY DEF FreshIInv, TablesOK, RebuildsAlone
<1> QED
  BY <1>1, PagesAssumption DEF CrawlerOK

(* An idle worker holds nothing. *)
LEMMA AsleepOK == CrawlerOK(Asleep)
<1>1. [c \in {} |-> None] \in Loaded /\ [c \in {} |-> None] \in Remembered
  <2>1. [c \in {} |-> None] \in [{} -> Row \cup {None}] /\ [c \in {} |-> None] \in [{} -> Row]
    OBVIOUS
  <2>2. {} \in SUBSET Chunks
    OBVIOUS
  <2> QED
    BY <2>1, <2>2 DEF Loaded, Remembered
<1>2. Asleep \in CrawlerState
  BY <1>1 DEF Asleep, CrawlerState, Phases
<1> QED
  BY <1>2 DEF CrawlerOK, Asleep, AtPage, AtChunks

(* A worker that is done with a page goes on to the next one, or to the    *)
(* end.                                                                    *)
LEMMA TurnedOK ==
  ASSUME NEW m, CrawlerOK(m), m.phase \in AtPage, NEW g \in Nat, g < m.page + 1
  PROVE  /\ CrawlerOK(Turned([m EXCEPT !.good = g]))
         /\ Turned([m EXCEPT !.good = g]).phase \in {"page", "finish"}
         /\ Turned([m EXCEPT !.good = g]).run = m.run
         /\ Turned([m EXCEPT !.good = g]).page = m.page + 1
         /\ Turned([m EXCEPT !.good = g]).good = g
         /\ Turned([m EXCEPT !.good = g]).unindexed = m.unindexed
<1>1. m \in CrawlerState /\ m.run \in Runs /\ m.page \in 1 .. Len(PagesOf[m.run])
  BY DEF CrawlerOK, AtPage, AtChunks
<1>2. PagesOf[m.run] \in Seq(Seq(Items))
  BY <1>1, PagesAssumption
<1>3. Asleep.base \in Loaded /\ Asleep.mem \in Remembered /\ Asleep.base = Asleep.mem
      /\ DOMAIN Asleep.mem = {}
  BY AsleepOK DEF CrawlerOK, CrawlerState, Asleep
<1>4. PICK n : n = Turned([m EXCEPT !.good = g])
  OBVIOUS
<1>5. /\ n.phase = IF m.page < Len(PagesOf[m.run]) THEN "page" ELSE "finish"
      /\ n.run = m.run /\ n.page = m.page + 1 /\ n.good = g /\ n.unindexed = m.unindexed
      /\ n.left = <<>> /\ n.base = Asleep.base /\ n.mem = Asleep.mem
      /\ n.gone = {} /\ n.todo = {}
      /\ DOMAIN n = DOMAIN m
  BY <1>1, <1>4 DEF Turned, NextPage, CrawlerState
<1>6. n \in CrawlerState
  <2>1. <<>> \in Seq(Items)
    OBVIOUS
  <2>2. m.page + 1 \in Nat
    BY <1>1
  <2>3. n.phase \in Phases
    BY <1>5 DEF Phases
  <2> QED
    BY <1>1, <1>3, <1>4, <2>1, <2>2, <2>3 DEF Turned, NextPage, CrawlerState
<1>7. CrawlerOK(n)
  BY <1>1, <1>2, <1>3, <1>5, <1>6 DEF CrawlerOK, AtPage, AtChunks
<1> QED
  BY <1>4, <1>5, <1>7
-----------------------------------------------------------------------------
(* Tables that a step writes. *)
Held == [Items -> {{}, {None}} \cup {{x} : x \in Workers}]
Statuses == [Runs -> {"absent", "queued", "running", "success", "partial", "failed"}]

(* A commit or a rollback settles a worker's own items and nobody else's. *)
LEMMA HeldKept ==
  ASSUME held \in Held, NEW w \in Workers
  PROVE  /\ ReleasedBy(w) \in Held /\ CommittedBy(w) \in Held
         /\ \A i \in Items : held[i] = {None} => ReleasedBy(w)[i] = {None} /\ CommittedBy(w)[i] = {None}
         /\ \A i \in Items : held[i] = {w} => CommittedBy(w)[i] = {None}
         /\ \A i \in Items, x \in Workers \ {w} :
               held[i] = {x} => ReleasedBy(w)[i] = {x} /\ CommittedBy(w)[i] = {x}
<1>1. None # w /\ \A x \in Workers : x # None
  BY NoIdAssumption
<1>2. \A i \in Items : held[i] \in {{}, {None}} \cup {{x} : x \in Workers}
  BY DEF Held
<1>3. \A i \in Items : ReleasedBy(w)[i] = held[i] \ {w}
  BY DEF ReleasedBy
<1>4. \A i \in Items : CommittedBy(w)[i] = IF w \in held[i] THEN {None} ELSE held[i]
  BY DEF CommittedBy
<1>5. ASSUME NEW i \in Items
      PROVE  /\ held[i] \ {w} \in {{}, {None}} \cup {{x} : x \in Workers}
             /\ (IF w \in held[i] THEN {None} ELSE held[i]) \in {{}, {None}} \cup {{x} : x \in Workers}
             /\ held[i] = {None} => held[i] \ {w} = {None} /\ w \notin held[i]
             /\ \A x \in Workers \ {w} : held[i] = {x} => held[i] \ {w} = {x} /\ w \notin held[i]
  <2>1. CASE held[i] = {}
    <3>1. held[i] \ {w} = {}
      BY <2>1
    <3> QED
      BY <2>1, <3>1
  <2>2. CASE held[i] = {None}
    <3>1. held[i] \ {w} = {None}
      BY <2>2, <1>1
    <3> QED
      BY <2>2, <3>1, <1>1
  <2>3. ASSUME NEW x \in Workers, held[i] = {x}
        PROVE  /\ held[i] \ {w} \in {{}, {None}} \cup {{y} : y \in Workers}
               /\ (IF w \in held[i] THEN {None} ELSE held[i]) \in {{}, {None}} \cup {{y} : y \in Workers}
               /\ held[i] = {None} => held[i] \ {w} = {None} /\ w \notin held[i]
               /\ \A y \in Workers \ {w} : held[i] = {y} => held[i] \ {w} = {y} /\ w \notin held[i]
    <3>1. CASE x = w
      <4>1. held[i] \ {w} = {}
        BY <2>3, <3>1
      <4>2. w \in held[i] /\ held[i] # {None} /\ \A y \in Workers \ {w} : held[i] # {y}
        BY <2>3, <3>1, <1>1
      <4> QED
        BY <4>1, <4>2
    <3>2. CASE x # w
      <4>1. held[i] \ {w} = {x} /\ w \notin held[i] /\ {x} # {None}
        BY <2>3, <3>2, <1>1
      <4> QED
        BY <2>3, <4>1
    <3> QED
      BY <3>1, <3>2
  <2> QED
    BY <2>1, <2>2, <2>3, <1>2
<1>6. \A i \in Items : held[i] = {w} => CommittedBy(w)[i] = {None}
  BY <1>4
<1>7. ReleasedBy(w) \in Held
  BY <1>3, <1>5 DEF Held, ReleasedBy
<1>8. CommittedBy(w) \in Held
  BY <1>4, <1>5 DEF Held, CommittedBy
<1> QED
  BY <1>3, <1>4, <1>5, <1>6, <1>7, <1>8

(* The shapes of two tables. *)
LEMMA TablesAt == ASSUME FreshIInv PROVE held \in Held /\ runStatus \in Statuses
BY DEF FreshIInv, TablesOK, Held, Statuses

(* A run is queued. *)
LEMMA TriggerFresh == ASSUME FreshIInv, NEW r \in Runs, Trigger(r) PROVE FreshIInv'
<1>1. RowsOK'
  BY RowsStay DEF FreshIInv, Trigger
<1>2. TablesOK'
  BY DEF FreshIInv, Trigger, TablesOK, CrawlerOK, RebuildOK
<1>3. RebuildsAlone'
  BY DEF FreshIInv, Trigger, RebuildsAlone, Present
<1>4. MemoriesOK'
  <2>1. (\A c \in Chunks : Moves(c)) /\ (\A c \in Chunks : Written(c) => Written(c)')
    BY RowsStay DEF FreshIInv, Trigger
  <2>2. ASSUME NEW x \in Workers, crawler'[x].phase \in AtChunks
        PROVE  (MemoryOK(crawler[x]) /\ GoneOK(crawler[x]))'
    <3>1. PICK n : n = crawler'[x]
      OBVIOUS
    <3>2. CrawlerOK(n) /\ MemoryOK(n) /\ GoneOK(n)
      BY <2>2, <3>1 DEF FreshIInv, TablesOK, MemoriesOK, Trigger
    <3>3. MemoryOK(n)' /\ GoneOK(n)'
      BY <2>1, <3>2, MemoryMoves DEF Trigger
    <3> QED
      BY <3>1, <3>3
  <2> QED
    BY <2>2 DEF MemoriesOK
<1> QED
  BY <1>1, <1>2, <1>3, <1>4 DEF FreshIInv

(* A run is claimed. *)
LEMMA ClaimFresh == ASSUME FreshIInv, NEW w \in Workers, NEW r \in Runs, Claim(w, r) PROVE FreshIInv'
<1>1. PICK m : m = [Asleep EXCEPT !.phase = "discover", !.run = r]
  OBVIOUS
<1>2. CrawlerOK(m) /\ m.phase = "discover"
  <2>1. CrawlerOK(Asleep) /\ Asleep \in CrawlerState
    BY AsleepOK DEF CrawlerOK
  <2>2. m \in CrawlerState
    BY <1>1, <2>1 DEF CrawlerState, Phases
  <2>3. /\ m.phase = "discover" /\ m.run = r /\ m.page = 0 /\ m.good = 0
        /\ m.mem = Asleep.mem /\ m.base = Asleep.base /\ m.gone = {} /\ m.todo = {}
    BY <1>1 DEF Asleep
  <2>4. DOMAIN m.mem = DOMAIN m.base
    BY <2>3 DEF Asleep
  <2> QED
    BY <2>2, <2>3, <2>4 DEF CrawlerOK, AtPage, AtChunks
<1>3. runStatus' \in Statuses /\ held' \in Held
  BY TablesAt DEF Claim, Statuses
<1> QED
  BY <1>1, <1>2, <1>3, MemoryOnly DEF Claim, AtChunks, Held, Statuses

(* A worker forgets all it held. *)
LEMMA WorkerStops ==
  ASSUME FreshIInv, NEW w \in Workers, crawler[w].phase # "idle",
         crawler' = [crawler EXCEPT ![w] = Asleep],
         UNCHANGED <<rows, points, overtaken, rebuild, emptied, version, target>>,
         runStatus' \in Statuses, held' \in Held
  PROVE  FreshIInv'
<1>1. Asleep.phase \notin AtChunks
  BY DEF Asleep, AtChunks
<1>2. ~rebuild.on
  BY AtWork
<1> QED
  BY <1>1, <1>2, AsleepOK, MemoryOnly DEF Held, Statuses

(* A run ends, or its worker dies. *)
LEMMA StopsFresh ==
  ASSUME FreshIInv, NEW w \in Workers, MarkRunFailed(w) \/ FinishRun(w) \/ WorkerDies(w)
  PROVE  FreshIInv'
<1>1. CASE MarkRunFailed(w)
  <2>1. crawler[w].phase # "idle"
    BY <1>1 DEF MarkRunFailed
  <2>2. runStatus' \in Statuses /\ held' \in Held
    BY <1>1, <2>1, TablesAt, AtWork DEF MarkRunFailed, Statuses
  <2> QED
    BY <1>1, <2>1, <2>2, WorkerStops DEF MarkRunFailed
<1>2. CASE FinishRun(w)
  <2>1. crawler[w].phase # "idle"
    BY <1>2 DEF FinishRun
  <2>2. runStatus' \in Statuses /\ held' \in Held
    BY <1>2, <2>1, TablesAt, AtWork DEF FinishRun, Statuses, Verdict
  <2> QED
    BY <1>2, <2>1, <2>2, WorkerStops DEF FinishRun
<1>3. CASE WorkerDies(w)
  <2>1. runStatus' \in Statuses /\ held' \in Held
    BY <1>3, TablesAt, HeldKept DEF WorkerDies
  <2> QED
    BY <1>3, <2>1, WorkerStops DEF WorkerDies
<1> QED
  BY <1>1, <1>2, <1>3

(* A page fails. *)
LEMMA PageFailsFresh == ASSUME FreshIInv, NEW w \in Workers, PageFails(w) PROVE FreshIInv'
<1>1. PICK m : m = crawler[w]
  OBVIOUS
<1>2. CrawlerOK(m) /\ m.phase \in AtPage /\ ~rebuild.on
  <2>1. m.phase \notin {"idle", "discover", "finish"}
    BY <1>1 DEF PageFails, InPage
  <2>2. CrawlerOK(m) /\ ~rebuild.on
    BY <1>1, <2>1, AtWork
  <2> QED
    BY <2>1, <2>2 DEF CrawlerOK, CrawlerState, Phases, AtPage, AtChunks
<1>3. m.good \in Nat /\ m.good < m.page + 1 /\ [m EXCEPT !.good = m.good] = m
  BY <1>2 DEF CrawlerOK, CrawlerState
<1>4. CrawlerOK(Turned(m)) /\ Turned(m).phase \notin AtChunks
  BY <1>2, <1>3, TurnedOK DEF AtChunks
<1>5. held' \in Held /\ runStatus' \in Statuses
  BY TablesAt, HeldKept DEF PageFails
<1> QED
  BY <1>1, <1>2, <1>4, <1>5, MemoryOnly DEF PageFails, Held, Statuses

(* The pages are listed. *)
LEMMA DiscoverFresh == ASSUME FreshIInv, NEW w \in Workers, Discover(w) PROVE FreshIInv'
<1>1. PICK m : m = crawler[w]
  OBVIOUS
<1>2. CrawlerOK(m) /\ m.phase = "discover" /\ ~rebuild.on /\ PagesOf[m.run] \in Seq(Seq(Items))
      /\ PagesOf[m.run] # <<>>
  BY <1>1, AtWork DEF Discover
<1>3. PICK n : n = [m EXCEPT !.phase = "page", !.page = 1]
  OBVIOUS
<1>4. n \in CrawlerState /\ n.phase = "page" /\ n.page = 1 /\ n.good = m.good /\ n.mem = m.mem
      /\ n.base = m.base /\ n.gone = m.gone /\ n.todo = m.todo /\ n.run = m.run
  BY <1>2, <1>3 DEF CrawlerOK, CrawlerState, Phases
<1>5. CrawlerOK(n)
  BY <1>2, <1>4 DEF CrawlerOK, AtPage, AtChunks
<1>6. held' \in Held /\ runStatus' \in Statuses
  BY TablesAt DEF Discover
<1>7. crawler' = [crawler EXCEPT ![w] = n]
  BY <1>1, <1>3 DEF Discover
<1> QED
  BY <1>2, <1>4, <1>5, <1>6, <1>7, MemoryOnly DEF Discover, Held, Statuses, AtChunks

(* A page is read. *)
LEMMA ReadPageFresh == ASSUME FreshIInv, NEW w \in Workers, ReadPage(w) PROVE FreshIInv'
<1>1. PICK m : m = crawler[w]
  OBVIOUS
<1>2. CrawlerOK(m) /\ m.phase = "page" /\ ~rebuild.on /\ PagesOf[m.run] \in Seq(Seq(Items))
  BY <1>1, AtWork DEF ReadPage
<1>3. PICK n : n = [m EXCEPT !.phase = "items", !.left = PagesOf[m.run][m.page]]
  OBVIOUS
<1>4. PagesOf[m.run][m.page] \in Seq(Items)
  <2>1. m.page \in 1 .. Len(PagesOf[m.run])
    BY <1>2 DEF CrawlerOK, AtPage
  <2> QED
    BY <1>2, <2>1
<1>5. n \in CrawlerState /\ n.phase = "items" /\ n.page = m.page /\ n.good = m.good /\ n.mem = m.mem
      /\ n.base = m.base /\ n.gone = m.gone /\ n.todo = m.todo /\ n.run = m.run
  BY <1>2, <1>3, <1>4 DEF CrawlerOK, CrawlerState, Phases
<1>6. CrawlerOK(n)
  BY <1>2, <1>5 DEF CrawlerOK, AtPage, AtChunks
<1>7. held' \in Held /\ runStatus' \in Statuses
  BY TablesAt DEF ReadPage
<1>8. crawler' = [crawler EXCEPT ![w] = n]
  BY <1>1, <1>3 DEF ReadPage
<1> QED
  BY <1>2, <1>5, <1>6, <1>7, <1>8, MemoryOnly DEF ReadPage, Held, Statuses, AtChunks

(* An item is found or inserted. *)
LEMMA NormalizeItemFresh == ASSUME FreshIInv, NEW w \in Workers, NormalizeItem(w) PROVE FreshIInv'
<1>1. PICK m : m = crawler[w]
  OBVIOUS
<1>2. CrawlerOK(m) /\ m.phase = "items" /\ ~rebuild.on /\ m.left \in Seq(Items) /\ m.left # <<>>
  BY <1>1, AtWork DEF NormalizeItem, CrawlerOK, CrawlerState
<1>3. PICK n : n = [m EXCEPT !.left = Tail(m.left)]
  OBVIOUS
<1>4. Tail(m.left) \in Seq(Items) /\ Head(m.left) \in Items
  BY <1>2
<1>5. n \in CrawlerState /\ n.phase = "items" /\ n.page = m.page /\ n.good = m.good /\ n.mem = m.mem
      /\ n.base = m.base /\ n.gone = m.gone /\ n.todo = m.todo /\ n.run = m.run
  BY <1>2, <1>3, <1>4 DEF CrawlerOK, CrawlerState, Phases
<1>6. CrawlerOK(n)
  BY <1>2, <1>5 DEF CrawlerOK, AtPage, AtChunks
<1>7. held' \in Held /\ runStatus' \in Statuses
  BY <1>1, <1>4, TablesAt DEF NormalizeItem, Held
<1>8. crawler' = [crawler EXCEPT ![w] = n]
  BY <1>1, <1>3 DEF NormalizeItem
<1> QED
  BY <1>2, <1>5, <1>6, <1>7, <1>8, MemoryOnly DEF NormalizeItem, Held, Statuses, AtChunks
-----------------------------------------------------------------------------
(* The session's memory of the rows. *)
LEMMA LoadedRows ==
  ASSUME FreshIInv, NEW items \in SUBSET Items, NEW todo, NEW known,
         todo = Rewritten(items) \cup Missing(items) \cup Unindexed(items),
         known = todo \cup Surplus(items), NEW c \in known
  PROVE  /\ c \in Chunks /\ rows[c] \in Row \cup {None} /\ Reconciled(items)[c] \in Row
         /\ KnewOK(c, rows[c])
         /\ IsDue(c) <=> c \in todo
         /\ \/ Renewed(c, rows[c], Reconciled(items)[c])
            \/ Untouched(c, rows[c], Reconciled(items)[c])
            \/ Dropped(c, rows[c], Reconciled(items)[c])
         /\ c \in Rewritten(items) =>
               Reconciled(items)[c].status = "pending" /\ Reconciled(items)[c].meta.at = None
<1>1. version \in 1 .. LastVersion /\ rows \in [Chunks -> Row \cup {None}] /\ RowsOK
  BY DEF FreshIInv, TablesOK
<1>2. \A d \in UNION {Expected(i, version) : i \in items} : d \in Chunks /\ IsDue(d)
  <2>1. ASSUME NEW i \in items, NEW d \in Expected(i, version) PROVE d \in Chunks /\ IsDue(d)
    BY <1>1, DueChunks DEF IsDue
  <2> QED
    BY <2>1
<1>3. \A d \in Surplus(items) : d \in Chunks /\ Present(d) /\ ~IsDue(d)
  BY DEF Surplus, IsDue, Chunks
<1>4. \A d \in todo : d \in Chunks /\ IsDue(d)
  BY <1>2 DEF Rewritten, Missing, Unindexed
<1>5. c \in Chunks
  BY <1>3, <1>4
<1>6. Reconciled(items)[c] =
        IF c \in Rewritten(items) \cup Missing(items) THEN NewRow(version)
        ELSE IF c \in Surplus(items) THEN [rows[c] EXCEPT !.status = "obsolete"]
        ELSE rows[c]
  BY <1>5 DEF Reconciled
<1>7. KnewOK(c, rows[c])
  <2>1. CASE rows[c] = None
    BY <2>1 DEF KnewOK, Present
  <2>2. CASE rows[c] # None
    <3>1. RowOK(rows[c], c) /\ Present(c)
      BY <1>1, <1>5, <2>2 DEF RowsOK, Present
    <3> QED
      BY <2>2, <3>1 DEF KnewOK, RowOK
  <2> QED
    BY <2>1, <2>2
<1>8. NewRow(version) \in Row /\ NewRow(version).status = "pending" /\ NewRow(version).meta.at = None
  BY <1>1 DEF NewRow, Row
<1>9. CASE c \in Rewritten(items) \cup Missing(items)
  <2>1. IsDue(c) /\ c \in todo
    BY <1>4, <1>9
  <2>2. rows[c] # None => rows[c].text # version
    BY <1>1, <1>5, <1>9 DEF Rewritten, Missing, Present, IsStale, RowsOK, RowOK
  <2> QED
    BY <1>1, <1>5, <1>6, <1>7, <1>8, <1>9, <2>1, <2>2 DEF Renewed
<1>10. CASE c \in Surplus(items)
  <2>1. ~IsDue(c) /\ Present(c) /\ c \notin todo
    BY <1>3, <1>4, <1>10
  <2>2. Reconciled(items)[c] = [rows[c] EXCEPT !.status = "obsolete"]
        /\ c \notin Rewritten(items)
    BY <1>6, <1>10, <2>1
  <2>3. rows[c] \in Row
    BY <1>1, <1>5, <2>1 DEF Present
  <2>4. [rows[c] EXCEPT !.status = "obsolete"] \in Row
    BY <2>3 DEF Row
  <2> QED
    BY <1>1, <1>5, <1>7, <2>1, <2>2, <2>3, <2>4 DEF Dropped, Present
<1>11. CASE c \in Unindexed(items) /\ c \notin Rewritten(items) \cup Missing(items)
  <2>1. IsDue(c) /\ c \in todo /\ Present(c) /\ c \notin Surplus(items)
    BY <1>3, <1>4, <1>11 DEF Unindexed
  <2>2. Reconciled(items)[c] = rows[c]
    BY <1>6, <1>11, <2>1
  <2>3. rows[c] \in Row /\ rows[c] # None
    BY <1>1, <1>5, <2>1 DEF Present
  <2>4. rows[c].text = version /\ rows[c].status # "obsolete"
    BY <1>1, <1>5, <1>11, <2>1 DEF Unindexed, IsStale, RowsOK, RowOK, RequiresIndexing
  <2> QED
    BY <1>1, <1>5, <1>7, <1>11, <2>1, <2>2, <2>3, <2>4 DEF Untouched
<1> QED
  BY <1>9, <1>10, <1>11

(* The items' rows are loaded and reconciled. *)
LEMMA LoadChunksFresh == ASSUME FreshIInv, NEW w \in Workers, LoadChunks(w) PROVE FreshIInv'
<1>1. PICK m : m = crawler[w]
  OBVIOUS
<1>2. CrawlerOK(m) /\ m.phase = "items" /\ ~rebuild.on /\ PagesOf[m.run] \in Seq(Seq(Items))
  BY <1>1, AtWork DEF LoadChunks
<1>3. PICK items : items = ToSet(PagesOf[m.run][m.page])
  OBVIOUS
<1>4. items \in SUBSET Items
  <2>1. m.page \in 1 .. Len(PagesOf[m.run])
    BY <1>2 DEF CrawlerOK, AtPage
  <2>2. PagesOf[m.run][m.page] \in Seq(Items)
    BY <1>2, <2>1
  <2> QED
    BY <1>3, <2>2 DEF ToSet
<1>5. PICK todo : todo = Rewritten(items) \cup Missing(items) \cup Unindexed(items)
  OBVIOUS
<1>6. PICK known : known = todo \cup Surplus(items)
  OBVIOUS
<1>7. PICK n : n = [m EXCEPT !.phase = "chunks", !.todo = todo, !.gone = ObsoletePoints(items),
                        !.base = [c \in known |-> rows[c]],
                        !.mem = [c \in known |-> Reconciled(items)[c]]]
  OBVIOUS
<1>8. crawler' = [crawler EXCEPT ![w] = n]
  BY ZenonT(40), <1>1, <1>3, <1>5, <1>6, <1>7 DEF LoadChunks
<1>9. m \in CrawlerState
  BY <1>2 DEF CrawlerOK
<1>10. /\ n.phase = "chunks" /\ n.todo = todo /\ n.gone = ObsoletePoints(items)
       /\ n.base = [c \in known |-> rows[c]] /\ n.mem = [c \in known |-> Reconciled(items)[c]]
       /\ n.page = m.page /\ n.good = m.good /\ n.run = m.run
  BY <1>7, <1>9 DEF CrawlerState
<1>11. \A c \in known :
         /\ c \in Chunks /\ rows[c] \in Row \cup {None} /\ Reconciled(items)[c] \in Row
         /\ KnewOK(c, rows[c])
         /\ IsDue(c) <=> c \in todo
         /\ \/ Renewed(c, rows[c], Reconciled(items)[c])
            \/ Untouched(c, rows[c], Reconciled(items)[c])
            \/ Dropped(c, rows[c], Reconciled(items)[c])
         /\ c \in Rewritten(items) =>
               Reconciled(items)[c].status = "pending" /\ Reconciled(items)[c].meta.at = None
  BY <1>4, <1>5, <1>6, LoadedRows
<1>12. \A g \in ObsoletePoints(items) :
         /\ g.chunk \in Rewritten(items) \cup Surplus(items)
         /\ g = [chunk |-> g.chunk, at |-> rows[g.chunk].meta.at]
  BY DEF ObsoletePoints
<1>13. \A c \in Rewritten(items) \cup Surplus(items) : c \in known /\ rows[c] \in Row
  <2>1. \A c \in Rewritten(items) \cup Surplus(items) : c \in known /\ Present(c)
    BY <1>5, <1>6 DEF Rewritten, Surplus
  <2> QED
    BY <1>11, <2>1 DEF Present
<1>14. ObsoletePoints(items) \in SUBSET Obsolete
  <2>1. \A row \in Row : row.meta.at \in Targets \cup {None}
    BY DEF Row
  <2> QED
    BY <1>11, <1>12, <1>13, <2>1 DEF Obsolete
<1>15. n \in CrawlerState
  <2>1. known \in SUBSET Chunks /\ todo \in SUBSET Chunks
    BY <1>6, <1>11
  <2>2. n.base \in Loaded
    BY <1>10, <1>11, <2>1 DEF Loaded
  <2>3. n.mem \in Remembered
    BY <1>10, <1>11, <2>1 DEF Remembered
  <2>4. "chunks" \in Phases
    BY DEF Phases
  <2> QED
    BY <1>7, <1>9, <1>10, <1>14, <2>1, <2>2, <2>3, <2>4 DEF CrawlerState
<1>16. CrawlerOK(n)
  <2>1. DOMAIN n.mem = known /\ DOMAIN n.base = known
    BY <1>10
  <2>2. todo \subseteq known /\ \A g \in n.gone : g.chunk \in known
    BY <1>6, <1>10, <1>12, <1>13
  <2> QED
    BY <1>2, <1>10, <1>15, <2>1, <2>2 DEF CrawlerOK, AtPage, AtChunks
<1>17. MemoryOK(n)
  <2>1. \A c \in known : n.base[c] = rows[c] /\ n.mem[c] = Reconciled(items)[c]
    BY <1>10
  <2>2. DOMAIN n.mem = known
    BY <1>10
  <2> QED
    BY <1>10, <1>11, <2>1, <2>2 DEF MemoryOK, AtVectors
<1>18. GoneOK(n)
  <2>1. ASSUME NEW g \in n.gone, IsDue(g.chunk)
        PROVE  g.chunk \in n.todo /\ n.mem[g.chunk].status = "pending" /\ n.mem[g.chunk].meta.at = None
    <3>1. g.chunk \in known /\ g.chunk \in todo /\ g.chunk \in Rewritten(items) \cup Surplus(items)
      BY <1>10, <1>11, <1>12, <1>13, <2>1
    <3>2. g.chunk \in Rewritten(items)
      BY <2>1, <3>1 DEF Surplus, IsDue
    <3> QED
      BY <1>10, <1>11, <3>1, <3>2
  <2> QED
    BY <2>1 DEF GoneOK
<1>19. held' \in Held /\ runStatus' \in Statuses
  BY TablesAt DEF LoadChunks
<1>20. UNCHANGED <<rows, points, overtaken, rebuild, emptied, version, target>>
  BY DEF LoadChunks
<1> QED
  BY <1>2, <1>8, <1>16, <1>17, <1>18, <1>19, <1>20, MemoryOnly DEF Held, Statuses

(* What a worker holds of rows, from their loading to the last commit. *)
LEMMA AtRows ==
  ASSUME FreshIInv, NEW w \in Workers, crawler[w].phase \in AtChunks
  PROVE  /\ CrawlerOK(crawler[w]) /\ MemoryOK(crawler[w]) /\ GoneOK(crawler[w]) /\ ~rebuild.on
         /\ DOMAIN crawler[w].mem \in SUBSET Chunks
         /\ crawler[w].mem \in [DOMAIN crawler[w].mem -> Row]
         /\ crawler[w].base \in [DOMAIN crawler[w].mem -> Row \cup {None}]
         /\ DOMAIN crawler = Workers
<1>1. PICK m : m = crawler[w]
  OBVIOUS
<1>2. CrawlerOK(m) /\ MemoryOK(m) /\ GoneOK(m) /\ ~rebuild.on /\ DOMAIN crawler = Workers
  BY <1>1, AtWork DEF FreshIInv, MemoriesOK, AtChunks
<1>3. m.mem \in Remembered /\ m.base \in Loaded /\ DOMAIN m.mem = DOMAIN m.base
  BY <1>2 DEF CrawlerOK, CrawlerState
<1>4. DOMAIN m.mem \in SUBSET Chunks /\ m.mem \in [DOMAIN m.mem -> Row]
  BY <1>3 DEF Remembered
<1>5. m.base \in [DOMAIN m.mem -> Row \cup {None}]
  BY <1>3 DEF Loaded
<1> QED
  BY <1>1, <1>2, <1>4, <1>5

(* Rows that others have inserted are loaded again. *)
LEMMA ReloadChunksFresh == ASSUME FreshIInv, NEW w \in Workers, ReloadChunks(w) PROVE FreshIInv'
<1>1. PICK m : m = crawler[w]
  OBVIOUS
<1>2. /\ CrawlerOK(m) /\ MemoryOK(m) /\ GoneOK(m) /\ ~rebuild.on /\ m.phase = "chunks"
      /\ DOMAIN m.mem \in SUBSET Chunks /\ m.mem \in [DOMAIN m.mem -> Row]
      /\ m.base \in [DOMAIN m.mem -> Row \cup {None}]
  BY <1>1, AtRows DEF ReloadChunks, AtChunks
<1>3. PICK clashes : clashes = Collisions(w)
  OBVIOUS
<1>4. clashes = {c \in DOMAIN m.base : m.base[c] = None /\ Present(c)}
  BY <1>1, <1>3 DEF Collisions
<1>5. PICK settled : settled = {c \in clashes : ~RequiresIndexing(rows[c])}
  OBVIOUS
<1>6. PICK known : known = DOMAIN m.base \ settled
  OBVIOUS
<1>7. PICK gone : gone = {g \in m.gone : \/ m.mem[g.chunk].status = "obsolete"
                                         \/ \A c \in clashes : c[1] # g.chunk[1]}
  OBVIOUS
<1>8. PICK n : n = [m EXCEPT !.todo = m.todo \ settled,
                        !.base = [c \in known |-> IF c \in clashes THEN rows[c] ELSE m.base[c]],
                        !.mem = [c \in known |-> IF c \in clashes THEN rows[c] ELSE m.mem[c]],
                        !.gone = gone]
  OBVIOUS
<1>9. crawler' = [crawler EXCEPT ![w] = n]
  BY <1>1, <1>3, <1>5, <1>6, <1>7, <1>8 DEF ReloadChunks
<1>10. m \in CrawlerState
  BY <1>2 DEF CrawlerOK
<1>11. /\ n.phase = "chunks" /\ n.todo = m.todo \ settled /\ n.gone = gone
       /\ n.base = [c \in known |-> IF c \in clashes THEN rows[c] ELSE m.base[c]]
       /\ n.mem = [c \in known |-> IF c \in clashes THEN rows[c] ELSE m.mem[c]]
       /\ n.page = m.page /\ n.good = m.good /\ n.run = m.run
  BY <1>2, <1>8, <1>10 DEF CrawlerState
<1>12. DOMAIN m.base = DOMAIN m.mem /\ known \in SUBSET Chunks /\ known \subseteq DOMAIN m.mem
  BY <1>2, <1>6
<1>13. \A c \in clashes : c \in Chunks /\ c \in DOMAIN m.mem /\ rows[c] \in Row /\ rows[c] # None
  <2>1. rows \in [Chunks -> Row \cup {None}]
    BY DEF FreshIInv, TablesOK
  <2> QED
    BY <1>2, <1>4, <2>1 DEF Present
<1>14. \A c \in clashes : IsDue(c) /\ m.mem[c].status = "pending" /\ rows[c].text = version
                          /\ KnewOK(c, rows[c])
  <2>1. ASSUME NEW c \in clashes
        PROVE  IsDue(c) /\ m.mem[c].status = "pending" /\ rows[c].text = version
               /\ KnewOK(c, rows[c])
    <3>1. c \in DOMAIN m.mem /\ m.base[c] = None /\ Present(c)
      BY <1>4, <1>13
    <3>2. Renewed(c, m.base[c], m.mem[c]) /\ KnewOK(c, m.base[c])
      BY <1>2, <3>1 DEF MemoryOK, Untouched, Dropped
    <3>3. IsDue(c) /\ m.mem[c].status = "pending" /\ rows[c].text = version
      BY <3>1, <3>2 DEF Renewed, NewRow, KnewOK
    <3>4. RowOK(rows[c], c)
      BY <1>13, <3>1 DEF FreshIInv, RowsOK
    <3>5. KnewOK(c, rows[c])
      BY <3>1, <3>3, <3>4 DEF KnewOK, RowOK, Present
    <3> QED
      BY <3>3, <3>5
  <2> QED
    BY <2>1
<1>15. \A g \in gone : g \in m.gone /\ g.chunk \in known /\ (IsDue(g.chunk) => g.chunk \notin clashes)
  <2>1. ASSUME NEW g \in gone
        PROVE  g \in m.gone /\ g.chunk \in known /\ (IsDue(g.chunk) => g.chunk \notin clashes)
    <3>1. g \in m.gone /\ g.chunk \in DOMAIN m.mem
      BY <1>2, <1>7 DEF CrawlerOK
    <3>2. g.chunk \notin clashes
      BY <1>7, <1>14
    <3> QED
      BY <1>5, <1>6, <1>12, <3>1, <3>2
  <2> QED
    BY <2>1
<1>16. n \in CrawlerState
  <2>1. n.base \in [known -> Row \cup {None}] /\ n.mem \in [known -> Row]
    BY <1>2, <1>11, <1>12, <1>13
  <2>2. n.base \in Loaded /\ n.mem \in Remembered
    BY <1>12, <2>1 DEF Loaded, Remembered
  <2>3. n.todo \in SUBSET Chunks /\ n.gone \in SUBSET Obsolete
    BY <1>10, <1>11, <1>15 DEF CrawlerState
  <2> QED
    BY <1>8, <1>10, <1>11, <2>2, <2>3 DEF CrawlerState
<1>17. CrawlerOK(n)
  <2>1. DOMAIN n.mem = known /\ DOMAIN n.base = known
    BY <1>11
  <2>2. n.todo \subseteq known /\ \A g \in n.gone : g.chunk \in known
    BY <1>2, <1>6, <1>11, <1>12, <1>15 DEF CrawlerOK
  <2> QED
    BY <1>2, <1>11, <1>16, <2>1, <2>2 DEF CrawlerOK, AtPage, AtChunks
<1>18. MemoryOK(n)
  <2>1. ASSUME NEW c \in known
        PROVE  /\ KnewOK(c, n.base[c]) /\ (c \in n.todo => IsDue(c)) /\ (IsDue(c) => c \in n.todo)
               /\ \/ Renewed(c, n.base[c], n.mem[c])
                  \/ Untouched(c, n.base[c], n.mem[c])
                  \/ Dropped(c, n.base[c], n.mem[c])
    <3>1. /\ c \in DOMAIN m.mem /\ (c \in m.todo <=> IsDue(c)) /\ KnewOK(c, m.base[c])
          /\ \/ Renewed(c, m.base[c], m.mem[c])
             \/ Untouched(c, m.base[c], m.mem[c])
             \/ Dropped(c, m.base[c], m.mem[c])
      BY <1>2, <1>12 DEF MemoryOK
    <3>2. c \in n.todo <=> IsDue(c)
      BY <1>6, <1>11, <3>1
    <3>3. CASE c \in clashes
      <4>1. n.base[c] = rows[c] /\ n.mem[c] = rows[c]
        BY <1>11, <3>3
      <4>2. RequiresIndexing(rows[c])
        BY <1>5, <1>6, <3>3
      <4>3. rows[c].status # "obsolete"
        BY <4>2 DEF RequiresIndexing
      <4> QED
        BY <1>13, <1>14, <3>2, <3>3, <4>1, <4>3 DEF Untouched
    <3>4. CASE c \notin clashes
      <4>1. n.base[c] = m.base[c] /\ n.mem[c] = m.mem[c]
        BY <1>11, <3>4
      <4> QED
        BY <3>1, <3>2, <4>1
    <3> QED
      BY <3>3, <3>4
  <2>2. DOMAIN n.mem = known
    BY <1>11
  <2> QED
    BY <1>11, <2>1, <2>2 DEF MemoryOK, AtVectors
<1>19. GoneOK(n)
  <2>1. ASSUME NEW g \in n.gone, IsDue(g.chunk)
        PROVE  g.chunk \in n.todo /\ n.mem[g.chunk].status = "pending" /\ n.mem[g.chunk].meta.at = None
    <3>1. g \in m.gone /\ g.chunk \in known /\ g.chunk \notin clashes
      BY <1>11, <1>15, <2>1
    <3>2. g.chunk \in m.todo /\ m.mem[g.chunk].status = "pending" /\ m.mem[g.chunk].meta.at = None
      BY <1>2, <2>1, <3>1 DEF GoneOK
    <3> QED
      BY <1>6, <1>11, <3>1, <3>2
  <2> QED
    BY <2>1 DEF GoneOK
<1>20. held' \in Held /\ runStatus' \in Statuses
  BY TablesAt DEF ReloadChunks
<1>21. UNCHANGED <<rows, points, overtaken, rebuild, emptied, version, target>>
  BY DEF ReloadChunks
<1> QED
  BY <1>2, <1>9, <1>17, <1>18, <1>19, <1>20, <1>21, MemoryOnly DEF Held, Statuses

(* The collection is opened, or is not available. *)
LEMMA OpenIndexFresh ==
  ASSUME FreshIInv, NEW w \in Workers, OpenIndex(w) \/ OpenIndexFails(w) PROVE FreshIInv'
<1>1. PICK m : m = crawler[w]
  OBVIOUS
<1>2. /\ CrawlerOK(m) /\ MemoryOK(m) /\ GoneOK(m) /\ ~rebuild.on /\ m.phase = "open"
      /\ DOMAIN m.mem \in SUBSET Chunks /\ m.mem \in [DOMAIN m.mem -> Row]
      /\ m.base \in [DOMAIN m.mem -> Row \cup {None}]
  BY <1>1, AtRows DEF OpenIndex, OpenIndexFails, AtChunks
<1>3. m \in CrawlerState
  BY <1>2 DEF CrawlerOK
<1>4. held' \in Held /\ runStatus' \in Statuses
  BY TablesAt DEF OpenIndex, OpenIndexFails
<1>5. UNCHANGED <<rows, points, overtaken, rebuild, emptied, version, target>>
  BY DEF OpenIndex, OpenIndexFails
<1>6. CASE OpenIndex(w)
  <2>1. PICK n : n = [m EXCEPT !.phase = "vectors"]
    OBVIOUS
  <2>2. crawler' = [crawler EXCEPT ![w] = n]
    BY <1>1, <1>6, <2>1 DEF OpenIndex
  <2>3. /\ n.phase = "vectors" /\ n.page = m.page /\ n.good = m.good /\ n.run = m.run
        /\ n.mem = m.mem /\ n.base = m.base /\ n.gone = m.gone /\ n.todo = m.todo
        /\ n \in CrawlerState
    BY <1>3, <2>1 DEF CrawlerState, Phases
  <2>4. CrawlerOK(n)
    BY <1>2, <2>3 DEF CrawlerOK, AtPage, AtChunks
  <2>5. MemoryOK(n)
    BY <1>2, <2>3 DEF MemoryOK, AtVectors
  <2>6. GoneOK(n)
    BY <1>2, <2>3 DEF GoneOK
  <2> QED
    BY <1>2, <1>4, <1>5, <2>2, <2>4, <2>5, <2>6, MemoryOnly DEF Held, Statuses
<1>7. CASE OpenIndexFails(w)
  <2>1. PICK n : n = [m EXCEPT !.phase = "vectors", !.gone = {}, !.todo = {},
          !.mem = [c \in DOMAIN m.mem |-> IF c \in m.todo THEN Failed(m.mem[c]) ELSE m.mem[c]],
          !.unindexed = TRUE]
    OBVIOUS
  <2>2. crawler' = [crawler EXCEPT ![w] = n]
    BY <1>1, <1>7, <2>1 DEF OpenIndexFails
  <2>3. /\ n.phase = "vectors" /\ n.page = m.page /\ n.good = m.good /\ n.run = m.run
        /\ n.mem = [c \in DOMAIN m.mem |-> IF c \in m.todo THEN Failed(m.mem[c]) ELSE m.mem[c]]
        /\ n.base = m.base /\ n.gone = {} /\ n.todo = {} /\ n.unindexed = TRUE
    BY <1>3, <2>1 DEF CrawlerState
  <2>4. \A row \in Row : /\ Failed(row) \in Row /\ Failed(row).text = row.text
                         /\ Failed(row).meta = row.meta /\ Failed(row).status = "failed"
    BY DEF Failed, Row
  <2>5. n.mem \in [DOMAIN m.mem -> Row]
    BY <1>2, <2>3, <2>4
  <2>6. n \in CrawlerState
    <3>1. n.mem \in Remembered
      BY <1>2, <2>5 DEF Remembered
    <3> QED
      BY <1>3, <2>1, <2>3, <3>1 DEF CrawlerState, Phases
  <2>7. CrawlerOK(n)
    BY <1>2, <2>3, <2>6 DEF CrawlerOK, AtPage, AtChunks
  <2>8. MemoryOK(n)
    <3>1. ASSUME NEW c \in DOMAIN m.mem
          PROVE  /\ KnewOK(c, n.base[c])
                 /\ Kept(c, n.base[c], n.mem[c])
                 /\ IsDue(c) => Answered(c, n)
      <4>1. /\ KnewOK(c, m.base[c]) /\ Kept(c, m.base[c], m.mem[c]) /\ (c \in m.todo <=> IsDue(c))
            /\ IsDue(c) => Same(m.base[c], m.mem[c])
        BY <1>2 DEF MemoryOK, AtVectors
      <4>2. m.mem[c] \in Row
        BY <1>2
      <4>3. CASE IsDue(c)
        <5>1. n.mem[c] = Failed(m.mem[c])
          BY <2>3, <4>1, <4>3
        <5>2. /\ n.mem[c].text = m.mem[c].text /\ n.mem[c].meta = m.mem[c].meta
              /\ n.mem[c].status = "failed"
          BY <2>4, <4>2, <5>1
        <5>3. n.base[c] = m.base[c] /\ n.unindexed
          BY <2>3
        <5>4. KnewOK(c, n.base[c])
          BY <4>1, <5>3
        <5>5. Kept(c, n.base[c], n.mem[c])
          BY <4>1, <4>3, <5>2, <5>3 DEF Kept
        <5>6. Answered(c, n)
          BY <4>1, <4>3, <5>2, <5>3 DEF Same, Answered
        <5> QED
          BY <5>4, <5>5, <5>6
      <4>4. CASE ~IsDue(c)
        <5>1. n.mem[c] = m.mem[c]
          BY <2>3, <4>1, <4>4
        <5> QED
          BY <2>3, <4>1, <4>4, <5>1
      <4> QED
        BY <4>3, <4>4
    <3>2. DOMAIN n.mem = DOMAIN m.mem /\ n.phase = "vectors" /\ n.todo = {}
      BY <2>3
    <3>3. \A c \in DOMAIN n.mem :
             /\ KnewOK(c, n.base[c])
             /\ Kept(c, n.base[c], n.mem[c])
             /\ IsDue(c) => Answered(c, n)
      BY <3>1, <3>2
    <3> QED
      BY <3>2, <3>3 DEF MemoryOK
  <2>9. GoneOK(n)
    BY <2>3 DEF GoneOK
  <2> QED
    BY <1>2, <1>4, <1>5, <2>2, <2>7, <2>8, <2>9, MemoryOnly DEF Held, Statuses
<1> QED
  BY <1>6, <1>7
-----------------------------------------------------------------------------
(* Vector calls. *)
VectorCall(t, c) == Removes(t, c) \/ Puts(t, c, version) \/ UNCHANGED <<points, overtaken>>

(* What one call to Qdrant does to the points. *)
LEMMA VectorTables ==
  ASSUME points \in [Targets -> [Chunks -> 0 .. LastVersion]], overtaken \subseteq Targets \X Chunks,
         version \in 1 .. LastVersion, NEW t \in Targets, NEW c \in Chunks, VectorCall(t, c)
  PROVE  /\ points' \in [Targets -> [Chunks -> 0 .. LastVersion]]
         /\ overtaken' \subseteq Targets \X Chunks
         /\ \A s \in Targets, d \in Chunks :
               \/ points'[s][d] = points[s][d] /\ (<<s, d>> \in overtaken' <=> <<s, d>> \in overtaken)
               \/ s = t /\ d = c
         /\ points[t][c] = version \/ (points[t][c] = 0 /\ <<t, c>> \in overtaken) =>
               points'[t][c] = version \/ (points'[t][c] = 0 /\ <<t, c>> \in overtaken')
         /\ Puts(t, c, version) => points'[t][c] = version
<1>1. 0 \in 0 .. LastVersion /\ version \in 0 .. LastVersion /\ version # 0
  BY VersionAssumption
<1>2. CASE Removes(t, c)
  <2>1. points' = [points EXCEPT ![t][c] = 0]
    BY <1>2 DEF Removes
  <2>2. points' \in [Targets -> [Chunks -> 0 .. LastVersion]] /\ points'[t][c] = 0
    BY <1>1, <2>1
  <2>3. \A s \in Targets, d \in Chunks : points'[s][d] = points[s][d] \/ (s = t /\ d = c)
    BY <2>1
  <2>4. overtaken' = IF points[t][c] = version THEN overtaken \cup {<<t, c>>} ELSE overtaken
    BY <1>2 DEF Removes
  <2>5. \A s \in Targets, d \in Chunks :
           (<<s, d>> \in overtaken' <=> <<s, d>> \in overtaken) \/ (s = t /\ d = c)
    BY <2>4
  <2>6. overtaken' \subseteq Targets \X Chunks
    BY <2>4
  <2>7. Puts(t, c, version) => points'[t][c] = version
    BY DEF Puts
  <2> QED
    BY <2>2, <2>3, <2>4, <2>5, <2>6, <2>7
<1>3. CASE Puts(t, c, version)
  <2>1. points' = [points EXCEPT ![t][c] = version] /\ overtaken' = overtaken \ {<<t, c>>}
    BY <1>3 DEF Puts
  <2>2. points' \in [Targets -> [Chunks -> 0 .. LastVersion]] /\ points'[t][c] = version
    BY <1>1, <2>1
  <2>3. \A s \in Targets, d \in Chunks : points'[s][d] = points[s][d] \/ (s = t /\ d = c)
    BY <2>1
  <2>4. \A s \in Targets, d \in Chunks :
           (<<s, d>> \in overtaken' <=> <<s, d>> \in overtaken) \/ (s = t /\ d = c)
    BY <2>1
  <2>5. overtaken' \subseteq Targets \X Chunks
    BY <2>1
  <2> QED
    BY <2>2, <2>3, <2>4, <2>5
<1>4. CASE UNCHANGED <<points, overtaken>>
  <2>1. Puts(t, c, version) => points'[t][c] = version
    BY DEF Puts
  <2> QED
    BY <1>4, <2>1
<1> QED
  BY <1>2, <1>3, <1>4 DEF VectorCall

(* A call for a chunk whose row is not at success, or is current, leaves   *)
(* every row as true as it was.                                            *)
LEMMA VectorKeepsRows ==
  ASSUME FreshIInv, NEW t \in Targets, NEW c \in Chunks, VectorCall(t, c),
         Present(c) => rows[c].status # "success" \/ rows[c].text = version,
         UNCHANGED <<rows, emptied, version, target>>
  PROVE  /\ RowsOK' /\ (\A d \in Chunks : Moves(d)) /\ (\A d \in Chunks : Written(d) => Written(d)')
         /\ rows' \in [Chunks -> Row \cup {None}]
         /\ points' \in [Targets -> [Chunks -> 0 .. LastVersion]]
         /\ overtaken' \subseteq Targets \X Chunks
         /\ Puts(target, c, version) /\ t = target => Written(c)'
<1>1. /\ points \in [Targets -> [Chunks -> 0 .. LastVersion]] /\ overtaken \subseteq Targets \X Chunks
      /\ version \in 1 .. LastVersion /\ rows \in [Chunks -> Row \cup {None}] /\ target \in Targets
      /\ RowsOK
  BY DEF FreshIInv, TablesOK
<1>2. /\ points' \in [Targets -> [Chunks -> 0 .. LastVersion]]
      /\ overtaken' \subseteq Targets \X Chunks
      /\ \A s \in Targets, d \in Chunks :
            \/ points'[s][d] = points[s][d] /\ (<<s, d>> \in overtaken' <=> <<s, d>> \in overtaken)
            \/ s = t /\ d = c
      /\ points[t][c] = version \/ (points[t][c] = 0 /\ <<t, c>> \in overtaken) =>
            points'[t][c] = version \/ (points'[t][c] = 0 /\ <<t, c>> \in overtaken')
      /\ Puts(t, c, version) => points'[t][c] = version
  BY <1>1, VectorTables
<1>3. \A d : IsDue(d)' <=> IsDue(d)
  BY SameDue
<1>4. ASSUME NEW d \in Chunks PROVE Written(d) => Written(d)'
  <2>1. CASE target = t /\ d = c
    BY <1>2, <2>1 DEF Written
  <2>2. CASE ~(target = t /\ d = c)
    BY <1>1, <1>2, <2>2 DEF Written
  <2> QED
    BY <2>1, <2>2
<1>5. ASSUME NEW d \in Chunks, Present(d)'
      PROVE  RowOK(rows[d], d)' /\ Fresh(rows[d], d)'
  <2>1. rows'[d] = rows[d] /\ Present(d) /\ RowOK(rows[d], d) /\ Fresh(rows[d], d) /\ rows[d] \in Row
    BY <1>1, <1>5 DEF RowsOK, Present
  <2>2. RowOK(rows[d], d)'
    BY <1>3, <2>1 DEF RowOK
  <2>3. ASSUME rows[d].status = "success", rows[d].meta.at \in Targets \ emptied
        PROVE  \/ points'[rows[d].meta.at][d] = rows[d].text
               \/ points'[rows[d].meta.at][d] = 0 /\ <<rows[d].meta.at, d>> \in overtaken'
    <3>1. \/ points[rows[d].meta.at][d] = rows[d].text
          \/ points[rows[d].meta.at][d] = 0 /\ <<rows[d].meta.at, d>> \in overtaken
      BY <2>1, <2>3 DEF Fresh
    <3>2. CASE rows[d].meta.at = t /\ d = c
      <4>1. rows[d].text = version
        BY <2>1, <2>3, <3>2
      <4> QED
        BY <1>2, <3>1, <3>2, <4>1
    <3>3. CASE ~(rows[d].meta.at = t /\ d = c)
      BY <1>2, <2>3, <3>1, <3>3
    <3> QED
      BY <3>2, <3>3
  <2>4. Fresh(rows[d], d)'
    BY <2>1, <2>3 DEF Fresh
  <2> QED
    BY <2>2, <2>4
<1>6. RowsOK'
  BY <1>5 DEF RowsOK
<1>7. \A d \in Chunks : Moves(d)
  BY DEF Moves, Present
<1>8. Puts(target, c, version) /\ t = target => Written(c)'
  BY <1>2 DEF Written
<1> QED
  BY <1>1, <1>2, <1>4, <1>6, <1>7, <1>8

(* What a worker at its vector calls knows of a row. *)
LEMMA VectorRow ==
  ASSUME NEW m, MemoryOK(m), m.phase \in AtVectors, NEW c \in DOMAIN m.mem
  PROVE  /\ Present(c) /\ (rows[c].status # "success" \/ rows[c].text = version)
         /\ IsDue(c) => m.mem[c].text = version /\ rows[c].text = version
         /\ ~IsDue(c) => m.mem[c].status = "obsolete" /\ rows[c].status = "obsolete"
<1>1. KnewOK(c, m.base[c]) /\ Kept(c, m.base[c], m.mem[c])
  BY DEF MemoryOK
<1> QED
  BY <1>1 DEF KnewOK, Kept

(* An obsolete point is deleted, or not. *)
LEMMA DeletePointFresh == ASSUME FreshIInv, NEW w \in Workers, DeletePoint(w) PROVE FreshIInv'
<1>1. PICK m : m = crawler[w]
  OBVIOUS
<1>2. /\ CrawlerOK(m) /\ MemoryOK(m) /\ GoneOK(m) /\ ~rebuild.on /\ m.phase = "vectors"
      /\ DOMAIN m.mem \in SUBSET Chunks /\ m.mem \in [DOMAIN m.mem -> Row]
      /\ m.base \in [DOMAIN m.mem -> Row \cup {None}] /\ m.gone # {}
  BY <1>1, AtRows DEF DeletePoint, AtChunks
<1>3. PICK g : g = CHOOSE x \in m.gone : TRUE
  OBVIOUS
<1>4. g \in m.gone /\ g.chunk \in DOMAIN m.mem /\ g.at \in Targets \cup {None}
  BY <1>2, <1>3 DEF CrawlerOK, CrawlerState, Obsolete
<1>5. PICK at : at = IF g.at = None THEN target ELSE g.at
  OBVIOUS
<1>6. at \in Targets /\ g.chunk \in Chunks
  BY <1>2, <1>4, <1>5 DEF FreshIInv, TablesOK
<1>7. PICK self : self = [m EXCEPT !.gone = m.gone \ {g}]
  OBVIOUS
<1>8. PICK n \in {self, [self EXCEPT !.mem[g.chunk] = Cleaned(self.mem[g.chunk])],
                  [self EXCEPT !.unindexed = TRUE]} :
         crawler' = [crawler EXCEPT ![w] = n]
  BY <1>1, <1>3, <1>5, <1>7 DEF DeletePoint
<1>9. VectorCall(at, g.chunk)
  BY <1>1, <1>3, <1>5 DEF DeletePoint, VectorCall
<1>10. UNCHANGED <<rows, rebuild, emptied, version, target, runStatus, held>>
  BY DEF DeletePoint
<1>11. Present(g.chunk) /\ (rows[g.chunk].status # "success" \/ rows[g.chunk].text = version)
  BY <1>2, <1>4, VectorRow DEF AtVectors
<1>12. /\ RowsOK' /\ (\A d \in Chunks : Moves(d)) /\ (\A d \in Chunks : Written(d) => Written(d)')
       /\ rows' \in [Chunks -> Row \cup {None}]
       /\ points' \in [Targets -> [Chunks -> 0 .. LastVersion]]
       /\ overtaken' \subseteq Targets \X Chunks
  BY <1>6, <1>9, <1>10, <1>11, VectorKeepsRows
<1>13. \A row \in Row : /\ Cleaned(row) \in Row /\ Cleaned(row).text = row.text
                        /\ Cleaned(row).meta.hash = row.meta.hash /\ Cleaned(row).meta.at = row.meta.at
                        /\ Cleaned(row).status = row.status
  BY DEF Cleaned, Row
<1>14. m \in CrawlerState
  BY <1>2 DEF CrawlerOK
<1>15. /\ self \in CrawlerState /\ self.phase = "vectors" /\ self.page = m.page /\ self.good = m.good
       /\ self.run = m.run /\ self.base = m.base /\ self.todo = m.todo /\ self.gone = m.gone \ {g}
       /\ self.mem = m.mem /\ self.unindexed = m.unindexed
  BY <1>2, <1>7, <1>14 DEF CrawlerState
<1>16. /\ n.phase = "vectors" /\ n.page = m.page /\ n.good = m.good /\ n.run = m.run
       /\ n.base = m.base /\ n.todo = m.todo /\ n.gone = m.gone \ {g}
       /\ n.unindexed \in {m.unindexed, TRUE} /\ n \in CrawlerState
       /\ n.mem \in [DOMAIN m.mem -> Row]
       /\ \A d \in DOMAIN m.mem :
             n.mem[d] = m.mem[d] \/ (d = g.chunk /\ n.mem[d] = Cleaned(m.mem[d]))
  <2>1. CASE n = self
    BY <1>2, <1>15, <2>1
  <2>2. CASE n = [self EXCEPT !.unindexed = TRUE]
    BY <1>2, <1>15, <2>2 DEF CrawlerState
  <2>3. CASE n = [self EXCEPT !.mem[g.chunk] = Cleaned(self.mem[g.chunk])]
    <3>1. n.mem = [m.mem EXCEPT ![g.chunk] = Cleaned(m.mem[g.chunk])]
      BY <1>15, <2>3 DEF CrawlerState
    <3>2. n.mem \in [DOMAIN m.mem -> Row]
      BY <1>2, <1>4, <1>13, <3>1
    <3>3. n.mem \in Remembered
      BY <1>2, <3>2 DEF Remembered
    <3>4. n = [self EXCEPT !.mem = n.mem]
      BY <1>15, <2>3 DEF CrawlerState
    <3>5. n \in CrawlerState
      BY <1>15, <3>3, <3>4 DEF CrawlerState
    <3> QED
      BY <1>4, <1>15, <2>3, <3>1, <3>2, <3>5 DEF CrawlerState
  <2> QED
    BY <2>1, <2>2, <2>3
<1>17. CrawlerOK(n)
  <2>1. DOMAIN n.mem = DOMAIN m.mem
    BY <1>16
  <2> QED
    BY <1>2, <1>16, <2>1 DEF CrawlerOK, AtPage, AtChunks
<1>18. MemoryOK(n)
  <2>1. ASSUME NEW c \in DOMAIN m.mem
        PROVE  /\ KnewOK(c, n.base[c]) /\ (c \in n.todo => IsDue(c))
               /\ Kept(c, n.base[c], n.mem[c])
               /\ IsDue(c) => IF c \in n.todo THEN Same(n.base[c], n.mem[c]) ELSE Answered(c, n)
    <3>1. /\ KnewOK(c, m.base[c]) /\ (c \in m.todo => IsDue(c))
          /\ Kept(c, m.base[c], m.mem[c])
          /\ IsDue(c) => IF c \in m.todo THEN Same(m.base[c], m.mem[c]) ELSE Answered(c, m)
      BY <1>2 DEF MemoryOK, AtVectors
    <3>2. n.base[c] = m.base[c] /\ n.todo = m.todo
      BY <1>16
    <3>3. CASE n.mem[c] = m.mem[c]
      BY <1>16, <3>1, <3>2, <3>3 DEF Answered
    <3>4. CASE c = g.chunk /\ n.mem[c] = Cleaned(m.mem[c])
      <4>1. m.mem[c] \in Row
        BY <1>2
      <4>2. IsDue(c) => /\ c \in m.todo /\ m.mem[c].status = "pending" /\ m.base[c].status = "pending"
                        /\ m.base[c].meta.at = None
        BY <1>2, <1>4, <3>1, <3>4 DEF GoneOK, Same
      <4>3. Kept(c, n.base[c], n.mem[c])
        BY <1>13, <3>1, <3>2, <3>4, <4>1, <4>2 DEF Kept
      <4>4. IsDue(c) => Same(n.base[c], n.mem[c])
        BY <1>13, <3>1, <3>2, <3>4, <4>1, <4>2 DEF Same
      <4> QED
        BY <3>1, <3>2, <4>2, <4>3, <4>4
    <3> QED
      BY <1>16, <3>3, <3>4
  <2>2. DOMAIN n.mem = DOMAIN m.mem /\ n.phase = "vectors"
    BY <1>16
  <2>3. \A c \in DOMAIN n.mem :
               /\ KnewOK(c, n.base[c]) /\ (c \in n.todo => IsDue(c))
               /\ Kept(c, n.base[c], n.mem[c])
               /\ IsDue(c) => IF c \in n.todo THEN Same(n.base[c], n.mem[c]) ELSE Answered(c, n)
    BY <2>1, <2>2
  <2> QED
    BY <2>2, <2>3 DEF MemoryOK
<1>19. GoneOK(n)
  <2>1. ASSUME NEW h \in n.gone, IsDue(h.chunk)
        PROVE  h.chunk \in n.todo /\ n.mem[h.chunk].status = "pending" /\ n.mem[h.chunk].meta.at = None
    <3>1. h \in m.gone /\ h.chunk \in DOMAIN m.mem
      BY <1>2, <1>16 DEF CrawlerOK
    <3>2. /\ h.chunk \in m.todo /\ m.mem[h.chunk].status = "pending" /\ m.mem[h.chunk] \in Row
          /\ m.mem[h.chunk].meta.at = None
      BY <1>2, <2>1, <3>1 DEF GoneOK
    <3> QED
      BY <1>13, <1>16, <3>1, <3>2
  <2> QED
    BY <2>1 DEF GoneOK
<1>20. MemoryOK(n)' /\ GoneOK(n)'
  BY <1>10, <1>12, <1>17, <1>18, <1>19, MemoryMoves
<1>21. held' \in Held /\ runStatus' \in Statuses
  BY <1>10, TablesAt
<1> QED
  BY <1>2, <1>8, <1>10, <1>12, <1>17, <1>20, <1>21, WorkerKeeps DEF Held, Statuses

(* A chunk is written to Qdrant, or not. *)
LEMMA UpsertChunkFresh == ASSUME FreshIInv, NEW w \in Workers, UpsertChunk(w) PROVE FreshIInv'
<1>1. PICK m : m = crawler[w]
  OBVIOUS
<1>2. /\ CrawlerOK(m) /\ MemoryOK(m) /\ GoneOK(m) /\ ~rebuild.on /\ m.phase = "vectors"
      /\ DOMAIN m.mem \in SUBSET Chunks /\ m.mem \in [DOMAIN m.mem -> Row]
      /\ m.base \in [DOMAIN m.mem -> Row \cup {None}] /\ m.gone = {} /\ m.todo # {}
  BY <1>1, AtRows DEF UpsertChunk, AtChunks
<1>3. PICK c : c = CHOOSE x \in m.todo : TRUE
  OBVIOUS
<1>4. c \in m.todo /\ c \in DOMAIN m.mem /\ IsDue(c) /\ c \in Chunks /\ target \in Targets
  BY <1>2, <1>3 DEF CrawlerOK, MemoryOK, FreshIInv, TablesOK
<1>5. PICK self : self = [m EXCEPT !.todo = m.todo \ {c}]
  OBVIOUS
<1>6. m \in CrawlerState
  BY <1>2 DEF CrawlerOK
<1>7. /\ self \in CrawlerState /\ self.phase = "vectors" /\ self.page = m.page /\ self.good = m.good
      /\ self.run = m.run /\ self.base = m.base /\ self.todo = m.todo \ {c} /\ self.gone = {}
      /\ self.mem = m.mem /\ self.unindexed = m.unindexed
  BY <1>2, <1>5, <1>6 DEF CrawlerState
<1>8. Present(c) /\ m.mem[c].text = version /\ rows[c].text = version
  BY <1>2, <1>4, VectorRow DEF AtVectors
<1>9. PICK n : crawler' = [crawler EXCEPT ![w] = n] /\
        \/ /\ Puts(target, c, version) /\ n = [self EXCEPT !.mem[c] = Succeeded(m.mem[c], target)]
        \/ /\ VectorCall(target, c)
           /\ n = [self EXCEPT !.mem[c] = Failed(m.mem[c]), !.unindexed = TRUE]
  <2>1. self.mem[c].text = version /\ self.mem = m.mem
    BY <1>7, <1>8
  <2>2. PICK yes : yes = [self EXCEPT !.mem[c] = Succeeded(m.mem[c], target)]
    OBVIOUS
  <2>3. PICK no : no = [self EXCEPT !.mem[c] = Failed(m.mem[c]), !.unindexed = TRUE]
    OBVIOUS
  <2>4. \/ /\ Puts(target, c, self.mem[c].text)
           /\ crawler' = [crawler EXCEPT ![w] = [self EXCEPT !.mem[c] = Succeeded(self.mem[c], target)]]
        \/ /\ Puts(target, c, self.mem[c].text) \/ UNCHANGED <<points, overtaken>>
           /\ crawler' = [crawler EXCEPT ![w] =
                 [self EXCEPT !.mem[c] = Failed(self.mem[c]), !.unindexed = TRUE]]
    BY <1>1, <1>3, <1>5 DEF UpsertChunk
  <2>5. \/ /\ Puts(target, c, version) /\ crawler' = [crawler EXCEPT ![w] = yes]
        \/ /\ VectorCall(target, c) /\ crawler' = [crawler EXCEPT ![w] = no]
    BY <2>1, <2>2, <2>3, <2>4 DEF VectorCall
  <2> QED
    BY <2>2, <2>3, <2>5
<1>10. UNCHANGED <<rows, rebuild, emptied, version, target, runStatus, held>>
  BY DEF UpsertChunk
<1>11. VectorCall(target, c)
  BY <1>9 DEF VectorCall
<1>12. /\ RowsOK' /\ (\A d \in Chunks : Moves(d)) /\ (\A d \in Chunks : Written(d) => Written(d)')
       /\ rows' \in [Chunks -> Row \cup {None}]
       /\ points' \in [Targets -> [Chunks -> 0 .. LastVersion]]
       /\ overtaken' \subseteq Targets \X Chunks
       /\ Puts(target, c, version) => Written(c)'
  BY <1>4, <1>8, <1>10, <1>11, VectorKeepsRows
<1>13. \A row \in Row : /\ Failed(row) \in Row /\ Failed(row).text = row.text
                        /\ Failed(row).meta = row.meta /\ Failed(row).status = "failed"
                        /\ Succeeded(row, target) \in Row /\ Succeeded(row, target).text = row.text
                        /\ Succeeded(row, target).meta.hash = row.meta.hash
                        /\ Succeeded(row, target).meta.cleaned = row.meta.cleaned
                        /\ Succeeded(row, target).meta.at = target
                        /\ Succeeded(row, target).status = "success"
  BY <1>4 DEF Failed, Succeeded, Row
<1>14. /\ n.phase = "vectors" /\ n.page = m.page /\ n.good = m.good /\ n.run = m.run
       /\ n.base = m.base /\ n.todo = m.todo \ {c} /\ n.gone = {} /\ n \in CrawlerState
       /\ n.mem \in [DOMAIN m.mem -> Row]
       /\ \A d \in DOMAIN m.mem : d # c => n.mem[d] = m.mem[d]
       /\ m.unindexed => n.unindexed
       /\ \/ n.mem[c] = Succeeded(m.mem[c], target) /\ Written(c)'
          \/ n.mem[c] = Failed(m.mem[c]) /\ n.unindexed
  <2>1. CASE Puts(target, c, version) /\ n = [self EXCEPT !.mem[c] = Succeeded(m.mem[c], target)]
    <3>1. n.mem = [m.mem EXCEPT ![c] = Succeeded(m.mem[c], target)]
      BY <1>7, <2>1 DEF CrawlerState
    <3>2. n.mem \in [DOMAIN m.mem -> Row]
      BY <1>2, <1>4, <1>13, <3>1
    <3>3. n.mem \in Remembered
      BY <1>2, <3>2 DEF Remembered
    <3>4. n = [self EXCEPT !.mem = n.mem]
      BY <1>7, <2>1 DEF CrawlerState
    <3>5. n \in CrawlerState
      BY <1>7, <3>3, <3>4 DEF CrawlerState
    <3> QED
      BY <1>4, <1>7, <1>12, <2>1, <3>1, <3>2, <3>5 DEF CrawlerState
  <2>2. CASE n = [self EXCEPT !.mem[c] = Failed(m.mem[c]), !.unindexed = TRUE]
    <3>1. n.mem = [m.mem EXCEPT ![c] = Failed(m.mem[c])] /\ n.unindexed
      BY <1>7, <2>2 DEF CrawlerState
    <3>2. n.mem \in [DOMAIN m.mem -> Row]
      BY <1>2, <1>4, <1>13, <3>1
    <3>3. n.mem \in Remembered
      BY <1>2, <3>2 DEF Remembered
    <3>4. n = [self EXCEPT !.mem = n.mem, !.unindexed = TRUE]
      BY <1>7, <2>2 DEF CrawlerState
    <3>5. n \in CrawlerState
      BY <1>7, <3>3, <3>4 DEF CrawlerState
    <3> QED
      BY <1>4, <1>7, <2>2, <3>1, <3>2, <3>5 DEF CrawlerState
  <2> QED
    BY <1>9, <2>1, <2>2
<1>15. CrawlerOK(n)
  <2>1. DOMAIN n.mem = DOMAIN m.mem
    BY <1>14
  <2> QED
    BY <1>2, <1>14, <2>1 DEF CrawlerOK, AtPage, AtChunks
<1>16. MemoryOK(m)'
  BY <1>2, <1>10, <1>12, MemoryMoves
<1>17. IsDue(c)' /\ (\A d : IsDue(d)' <=> IsDue(d))
  BY <1>4, <1>10, SameDue
<1>18. MemoryOK(n)'
  <2>1. ASSUME NEW d \in DOMAIN m.mem
        PROVE  /\ KnewOK(d, n.base[d])' /\ (d \in n.todo => IsDue(d)')
               /\ Kept(d, n.base[d], n.mem[d])'
               /\ IsDue(d)' => IF d \in n.todo THEN Same(n.base[d], n.mem[d])' ELSE Answered(d, n)'
    <3>1. /\ KnewOK(d, m.base[d])' /\ (d \in m.todo => IsDue(d)')
          /\ Kept(d, m.base[d], m.mem[d])'
          /\ IsDue(d)' => IF d \in m.todo THEN Same(m.base[d], m.mem[d])' ELSE Answered(d, m)'
      BY <1>2, <1>16 DEF MemoryOK, AtVectors
    <3>2. KnewOK(d, n.base[d])' /\ (d \in n.todo => IsDue(d)')
      BY <1>14, <3>1 DEF KnewOK
    <3>3. CASE d # c
      <4>1. n.mem[d] = m.mem[d] /\ n.base[d] = m.base[d] /\ (d \in n.todo <=> d \in m.todo)
        BY <1>14, <3>3
      <4> QED
        BY <1>14, <3>1, <3>2, <4>1 DEF Answered, Kept, Same
    <3>4. CASE d = c
      <4>1. m.mem[c] \in Row /\ n.base[c] = m.base[c] /\ c \notin n.todo
        BY <1>2, <1>4, <1>14
      <4>2. m.mem[c].meta.at = m.base[c].meta.at
        BY <1>4, <1>17, <3>1, <3>4 DEF Same
      <4>3. Kept(c, m.base[c], m.mem[c])' /\ IsDue(c)'
        BY <1>17, <3>1, <3>4
      <4>4. /\ n.mem[c].text = m.mem[c].text /\ n.mem[c].meta.hash = m.mem[c].meta.hash
            /\ n.mem[c].meta.cleaned = m.mem[c].meta.cleaned
        BY <1>13, <1>14, <4>1
      <4>5. Kept(c, n.base[c], n.mem[c])'
        BY <4>1, <4>3, <4>4 DEF Kept
      <4>6. Answered(c, n)'
        <5>1. CASE n.mem[c] = Succeeded(m.mem[c], target) /\ Written(c)'
          BY <1>10, <1>13, <4>1, <5>1 DEF Answered
        <5>2. CASE n.mem[c] = Failed(m.mem[c]) /\ n.unindexed
          BY <1>13, <4>1, <4>2, <5>2 DEF Answered
        <5> QED
          BY <1>14, <5>1, <5>2
      <4> QED
        BY <3>2, <3>4, <4>1, <4>5, <4>6
    <3> QED
      BY <3>3, <3>4
  <2>2. DOMAIN n.mem = DOMAIN m.mem /\ n.phase = "vectors"
    BY <1>14
  <2>3. \A d \in DOMAIN n.mem :
               /\ KnewOK(d, n.base[d])' /\ (d \in n.todo => IsDue(d)')
               /\ Kept(d, n.base[d], n.mem[d])'
               /\ IsDue(d)' => IF d \in n.todo THEN Same(n.base[d], n.mem[d])' ELSE Answered(d, n)'
    BY <2>1, <2>2
  <2> QED
    BY <2>2, <2>3 DEF MemoryOK
<1>19. GoneOK(n)'
  BY <1>14 DEF GoneOK
<1>20. held' \in Held /\ runStatus' \in Statuses
  BY <1>10, TablesAt
<1> QED
  BY <1>2, <1>9, <1>10, <1>12, <1>15, <1>18, <1>19, <1>20, WorkerKeeps DEF Held, Statuses
-----------------------------------------------------------------------------
(* Commits. *)
MovesTo(c, row) ==
    IF ~Present(c) THEN IsDue(c) => row.text = version
    ELSE
        /\ row.text = rows[c].text \/ (IsDue(c) /\ row.text = version)
        /\ IF IsDue(c) THEN rows[c].status # "obsolete" => row.status # "obsolete"
           ELSE rows[c].status = "obsolete" => row.status = "obsolete"
        /\ IsDue(c) /\ rows[c].meta.at \in {target, None} => row.meta.at \in {target, None}
KnewTo(c, base, row) ==
    /\ base.text = base.meta.hash /\ base.text <= version
    /\ row.text = base.text \/ (IsDue(c) /\ row.text = version)
    /\ IF IsDue(c) THEN base.status # "obsolete" => row.status # "obsolete"
       ELSE base.status = "obsolete" => row.status = "obsolete"
    /\ IsDue(c) /\ base.meta.at = target => row.meta.at \in {target, None}

(* One row of the first commit. *)
LEMMA CommitRow ==
  ASSUME FreshIInv, NEW c \in Chunks, NEW base \in Row \cup {None}, NEW mem \in Row,
         KnewOK(c, base), base = None => ~Present(c),
         Renewed(c, base, mem) \/ Untouched(c, base, mem) \/ Dropped(c, base, mem),
         NEW row, row = Merge(rows[c], base, mem)
  PROVE  /\ row \in Row /\ RowOK(row, c) /\ Fresh(row, c) /\ MovesTo(c, row)
         /\ KnewTo(c, mem, row) /\ Kept(c, mem, mem)
<1>1. /\ version \in 1 .. LastVersion /\ None \notin Row /\ None \notin Targets
      /\ rows \in [Chunks -> Row \cup {None}]
  BY RowNullAssumption, NoTargetAssumption DEF FreshIInv, TablesOK
<1>2. NewRow(version) \in Row
  BY <1>1 DEF NewRow, Row
<1>3. CASE base = None
  <2>1. row = mem /\ Renewed(c, base, mem) /\ ~Present(c)
    BY <1>3 DEF Merge, Untouched, Dropped
  <2>2. IsDue(c) /\ row = NewRow(version) /\ mem = NewRow(version)
    BY <2>1 DEF Renewed
  <2>3. RowOK(row, c) /\ Fresh(row, c)
    BY <1>1, <2>2 DEF RowOK, Fresh, NewRow
  <2>4. /\ mem.text = version /\ mem.meta.hash = version /\ mem.meta.at = None
        /\ mem.status = "pending" /\ mem # None
    BY <1>1, <1>2, <2>2 DEF NewRow
  <2>5. MovesTo(c, row)
    BY <2>1, <2>2, <2>4 DEF MovesTo
  <2>6. KnewTo(c, mem, row)
    <3>1. None # target
      BY <1>1 DEF FreshIInv, TablesOK
    <3> QED
      BY <1>1, <2>1, <2>2, <2>4, <3>1 DEF KnewTo
  <2>7. Kept(c, mem, mem)
    BY <2>2, <2>4 DEF Kept
  <2> QED
    BY <1>2, <2>2, <2>3, <2>5, <2>6, <2>7
<1>4. CASE base # None
  <2>1. base \in Row /\ Present(c) /\ rows[c] \in Row
    BY <1>1, <1>4 DEF KnewOK, Present
  <2>2. RowOK(rows[c], c) /\ Fresh(rows[c], c)
    BY <2>1 DEF FreshIInv, RowsOK
  <2>3. /\ row \in Row
        /\ row.text = IF mem.text # base.text THEN mem.text ELSE rows[c].text
        /\ row.meta = IF mem.meta # base.meta THEN mem.meta ELSE rows[c].meta
        /\ row.status = IF mem.status # base.status THEN mem.status ELSE rows[c].status
    BY <2>1, MergeRow
  <2>4. /\ base.text = base.meta.hash /\ base.text <= version
        /\ rows[c].text = base.text \/ (IsDue(c) /\ rows[c].text = version)
        /\ IF IsDue(c) THEN base.status # "obsolete" => rows[c].status # "obsolete"
           ELSE base.status = "obsolete" => rows[c].status = "obsolete"
        /\ IsDue(c) /\ base.meta.at = target => rows[c].meta.at \in {target, None}
    BY <1>4 DEF KnewOK
  <2>5. CASE Renewed(c, base, mem)
    <3>1. /\ IsDue(c) /\ mem.text = version /\ mem.meta.hash = version /\ mem.meta.at = None
          /\ mem.status = "pending" /\ mem.meta.cleaned = FALSE /\ base.text # version
      BY <1>4, <2>5 DEF Renewed, NewRow
    <3>2. mem.meta # base.meta
      BY <2>4, <3>1
    <3>3. row.text = version /\ row.meta = mem.meta /\ row.status # "obsolete"
      BY <2>3, <2>4, <3>1, <3>2
    <3>4. RowOK(row, c) /\ Fresh(row, c)
      BY <1>1, <3>1, <3>3 DEF RowOK, Fresh
    <3>5. MovesTo(c, row) /\ KnewTo(c, mem, row)
      BY <1>1, <2>1, <3>1, <3>3 DEF MovesTo, KnewTo
    <3>6. Kept(c, mem, mem)
      BY <1>1, <3>1 DEF Kept
    <3> QED
      BY <2>3, <3>4, <3>5, <3>6
  <2>6. CASE Untouched(c, base, mem)
    <3>1. IsDue(c) /\ mem = base /\ base.text = version /\ base.status # "obsolete"
      BY <2>6 DEF Untouched
    <3>2. row.text = rows[c].text /\ row.meta = rows[c].meta /\ row.status = rows[c].status
      BY <2>3, <3>1
    <3>3. RowOK(row, c) /\ Fresh(row, c)
      BY <2>2, <3>2 DEF RowOK, Fresh
    <3>4. MovesTo(c, row) /\ KnewTo(c, mem, row)
      BY <2>1, <2>4, <3>1, <3>2 DEF MovesTo, KnewTo
    <3>5. Kept(c, mem, mem)
      BY <1>4, <3>1 DEF Kept
    <3> QED
      BY <2>3, <3>3, <3>4, <3>5
  <2>7. CASE Dropped(c, base, mem)
    <3>1. ~IsDue(c) /\ mem.text = base.text /\ mem.meta = base.meta /\ mem.status = "obsolete"
      BY <2>1, <2>7 DEF Dropped, Row
    <3>2. row.text = rows[c].text /\ row.meta = rows[c].meta /\ row.status = "obsolete"
      BY <2>3, <2>4, <3>1
    <3>3. RowOK(row, c) /\ Fresh(row, c)
      BY <2>2, <3>1, <3>2 DEF RowOK, Fresh
    <3>4. MovesTo(c, row) /\ KnewTo(c, mem, row)
      BY <2>1, <2>4, <3>1, <3>2 DEF MovesTo, KnewTo
    <3>5. Kept(c, mem, mem)
      BY <1>1, <3>1 DEF Kept
    <3> QED
      BY <2>3, <3>3, <3>4, <3>5
  <2> QED
    BY <2>5, <2>6, <2>7
<1> QED
  BY <1>3, <1>4

(* One row of the last commit: it says success only of a point that is     *)
(* written.                                                                *)
LEMMA SaveRow ==
  ASSUME FreshIInv, NEW c \in Chunks, NEW m, c \in DOMAIN m.mem, m.mem[c] \in Row,
         m.base[c] \in Row \cup {None},
         KnewOK(c, m.base[c]), Kept(c, m.base[c], m.mem[c]), IsDue(c) => Answered(c, m),
         NEW row, row = Merge(rows[c], m.base[c], m.mem[c])
  PROVE  row \in Row /\ RowOK(row, c) /\ Fresh(row, c) /\ MovesTo(c, row)
<1>1. PICK base, mem : base = m.base[c] /\ mem = m.mem[c]
  OBVIOUS
<1>2. /\ version \in 1 .. LastVersion /\ None \notin Row /\ None \notin Targets
      /\ rows \in [Chunks -> Row \cup {None}]
  BY RowNullAssumption, NoTargetAssumption DEF FreshIInv, TablesOK
<1>3. /\ base # None /\ mem.text = base.text /\ mem.meta.hash = base.meta.hash
      /\ IF IsDue(c) THEN base.text = version /\ base.status # "obsolete"
         ELSE base.status = "obsolete" /\ mem.status = "obsolete"
      /\ mem.meta.cleaned # base.meta.cleaned /\ IsDue(c) => base.status = "pending" /\ base.meta.at = None
  BY <1>1 DEF Kept
<1>4. base \in Row /\ mem \in Row /\ Present(c) /\ rows[c] \in Row
  BY <1>1, <1>2, <1>3 DEF KnewOK, Present
<1>5. RowOK(rows[c], c) /\ Fresh(rows[c], c)
  BY <1>4 DEF FreshIInv, RowsOK
<1>6. /\ row \in Row
      /\ row.text = IF mem.text # base.text THEN mem.text ELSE rows[c].text
      /\ row.meta = IF mem.meta # base.meta THEN mem.meta ELSE rows[c].meta
      /\ row.status = IF mem.status # base.status THEN mem.status ELSE rows[c].status
  BY <1>1, <1>4, MergeRow
<1>7. /\ base.text = base.meta.hash /\ base.text <= version
      /\ rows[c].text = base.text \/ (IsDue(c) /\ rows[c].text = version)
      /\ IF IsDue(c) THEN base.status # "obsolete" => rows[c].status # "obsolete"
         ELSE base.status = "obsolete" => rows[c].status = "obsolete"
      /\ IsDue(c) /\ base.meta.at = target => rows[c].meta.at \in {target, None}
  BY <1>1, <1>3 DEF KnewOK
<1>8. rows[c].text = rows[c].meta.hash /\ rows[c].text <= version
  BY <1>5 DEF RowOK
<1>9. CASE ~IsDue(c)
  <2>1. row.text = rows[c].text /\ row.meta.hash = row.text /\ row.status = "obsolete"
    BY <1>3, <1>6, <1>7, <1>8, <1>9
  <2>2. RowOK(row, c) /\ Fresh(row, c)
    BY <1>8, <1>9, <2>1 DEF RowOK, Fresh
  <2>3. MovesTo(c, row)
    BY <1>4, <1>9, <2>1 DEF MovesTo
  <2> QED
    BY <1>6, <2>2, <2>3
<1>10. CASE IsDue(c)
  <2>1. row.text = version /\ rows[c].text = version /\ row.meta.hash = version
    BY <1>3, <1>6, <1>7, <1>8, <1>10
  <2>2. row.status # "obsolete" /\ rows[c].status # "obsolete"
    <3>1. rows[c].status # "obsolete"
      BY <1>3, <1>7, <1>10
    <3>2. mem.status # "obsolete"
      BY <1>1, <1>10 DEF Answered
    <3> QED
      BY <1>6, <3>1, <3>2
  <2>3. RowOK(row, c)
    BY <1>2, <2>1, <2>2 DEF RowOK
  <2>4. CASE mem.status = "failed" /\ mem.meta.at = base.meta.at
    <3>1. CASE mem.meta = base.meta
      <4>1. row.meta = rows[c].meta
        BY <1>6, <3>1
      <4>2. row.status \in {"failed", rows[c].status}
        BY <1>6, <2>4
      <4>3. Fresh(row, c)
        BY <1>5, <2>1, <4>1, <4>2 DEF Fresh
      <4>4. MovesTo(c, row)
        BY <1>4, <1>10, <2>1, <2>2, <4>1 DEF MovesTo
      <4> QED
        BY <1>6, <2>3, <4>3, <4>4
    <3>2. CASE mem.meta # base.meta
      <4>1. mem.meta.cleaned # base.meta.cleaned
        BY <1>3, <1>4, <2>4, <3>2 DEF Row
      <4>2. base.status = "pending" /\ base.meta.at = None
        BY <1>3, <1>10, <4>1
      <4>3. row.status = "failed" /\ row.meta.at = None
        BY <1>6, <2>4, <3>2, <4>2
      <4> QED
        BY <1>4, <1>6, <1>10, <2>1, <2>2, <2>3, <4>3 DEF Fresh, MovesTo
    <3> QED
      BY <3>1, <3>2
  <2>5. CASE mem.status = "success" /\ mem.meta.at = target /\ Written(c)
    <3>1. row.meta.at \in {target, None}
      <4>1. CASE mem.meta # base.meta
        BY <1>6, <2>5, <4>1
      <4>2. CASE mem.meta = base.meta
        BY <1>6, <1>7, <1>10, <2>5, <4>2
      <4> QED
        BY <4>1, <4>2
    <3>2. Fresh(row, c)
      BY <1>2, <2>1, <2>5, <3>1 DEF Fresh, Written
    <3>3. MovesTo(c, row)
      BY <1>4, <1>10, <2>1, <2>2, <3>1 DEF MovesTo
    <3> QED
      BY <1>6, <2>3, <3>2, <3>3
  <2> QED
    BY <1>1, <1>10, <2>4, <2>5 DEF Answered
<1> QED
  BY <1>9, <1>10

(* The rows after a commit, from each of its rows. *)
LEMMA CommittedRows ==
  ASSUME FreshIInv, NEW mem, NEW base, DOMAIN mem \in SUBSET Chunks,
         \A c \in DOMAIN mem :
            LET row == Merge(rows[c], base[c], mem[c]) IN
            row \in Row /\ RowOK(row, c) /\ Fresh(row, c) /\ MovesTo(c, row),
         rows' = Stored(base, mem), UNCHANGED <<points, overtaken, emptied, version, target>>
  PROVE  /\ rows' \in [Chunks -> Row \cup {None}] /\ RowsOK' /\ (\A c \in Chunks : Moves(c))
         /\ \A c \in Chunks : Written(c) => Written(c)'
         /\ \A c \in DOMAIN mem : rows'[c] = Merge(rows[c], base[c], mem[c]) /\ Present(c)'
<1>1. rows \in [Chunks -> Row \cup {None}] /\ RowsOK /\ None \notin Row
  BY RowNullAssumption DEF FreshIInv, TablesOK
<1>2. \A c \in Chunks : rows'[c] = IF c \in DOMAIN mem THEN Merge(rows[c], base[c], mem[c]) ELSE rows[c]
  BY DEF Stored
<1>3. rows' \in [Chunks -> Row \cup {None}]
  <2>1. \A c \in Chunks : rows'[c] \in Row \cup {None}
    BY <1>1, <1>2
  <2> QED
    BY <2>1 DEF Stored
<1>4. \A c : IsDue(c)' <=> IsDue(c)
  BY SameDue
<1>5. ASSUME NEW c \in Chunks
      PROVE  /\ Present(c)' => RowOK(rows[c], c)' /\ Fresh(rows[c], c)'
             /\ Moves(c)
  <2>1. PICK row : row = rows'[c]
    OBVIOUS
  <2>2. CASE c \in DOMAIN mem
    <3>1. row \in Row /\ RowOK(row, c) /\ Fresh(row, c) /\ MovesTo(c, row)
      BY <1>2, <2>1, <2>2
    <3>2. RowOK(row, c)' /\ Fresh(row, c)'
      BY <1>4, <3>1 DEF RowOK, Fresh
    <3>3. (RowOK(rows[c], c) /\ Fresh(rows[c], c))'
      BY <2>1, <3>2
    <3>4. Moves(c)
      BY <1>1, <2>1, <3>1 DEF Moves, MovesTo, Present
    <3> QED
      BY <3>3, <3>4
  <2>3. CASE c \notin DOMAIN mem
    <3>1. rows'[c] = rows[c]
      BY <1>2, <2>3
    <3>2. Present(c)' => RowOK(rows[c], c)' /\ Fresh(rows[c], c)'
      BY <1>1, <1>4, <3>1 DEF RowsOK, RowOK, Fresh, Present
    <3>3. Moves(c)
      BY <3>1 DEF Moves, Present
    <3> QED
      BY <3>2, <3>3
  <2> QED
    BY <2>2, <2>3
<1>6. RowsOK'
  BY <1>5 DEF RowsOK
<1>7. \A c \in Chunks : Written(c) => Written(c)'
  BY DEF Written
<1>8. \A c \in DOMAIN mem : rows'[c] = Merge(rows[c], base[c], mem[c]) /\ Present(c)'
  BY <1>1, <1>2 DEF Present
<1> QED
  BY <1>3, <1>5, <1>6, <1>7, <1>8

(* A commit that is the page's last. *)
LEMMA TurnsOver ==
  ASSUME FreshIInv, NEW w \in Workers, NEW n, CrawlerOK(n), n.phase \notin AtChunks, ~rebuild.on,
         crawler' = [crawler EXCEPT ![w] = n],
         UNCHANGED <<rebuild, points, overtaken, emptied, version, target>>,
         runStatus' \in Statuses, held' \in Held, rows' \in [Chunks -> Row \cup {None}],
         RowsOK', \A c \in Chunks : Moves(c), \A c \in Chunks : Written(c) => Written(c)'
  PROVE  FreshIInv'
<1>1. /\ points' \in [Targets -> [Chunks -> 0 .. LastVersion]]
      /\ overtaken' \subseteq Targets \X Chunks
  BY DEF FreshIInv, TablesOK
<1> QED
  BY <1>1, WorkerKeeps DEF Held, Statuses

(* The rows are committed before any vector is written. *)
LEMMA CommitChunksFresh == ASSUME FreshIInv, NEW w \in Workers, CommitChunks(w) PROVE FreshIInv'
<1>1. PICK m : m = crawler[w]
  OBVIOUS
<1>2. /\ CrawlerOK(m) /\ MemoryOK(m) /\ GoneOK(m) /\ ~rebuild.on /\ m.phase = "chunks"
      /\ DOMAIN m.mem \in SUBSET Chunks /\ m.mem \in [DOMAIN m.mem -> Row]
      /\ m.base \in [DOMAIN m.mem -> Row \cup {None}]
  BY <1>1, AtRows DEF CommitChunks, AtChunks
<1>3. /\ rows' = Stored(m.base, m.mem) /\ held' = CommittedBy(w)
      /\ UNCHANGED <<runStatus, points, overtaken, rebuild, emptied, version, target>>
      /\ \A c \in DOMAIN m.base : ~(m.base[c] = None /\ Present(c))
  BY <1>1 DEF CommitChunks, Collisions
<1>4. \A c \in DOMAIN m.mem :
        LET row == Merge(rows[c], m.base[c], m.mem[c]) IN
        /\ row \in Row /\ RowOK(row, c) /\ Fresh(row, c) /\ MovesTo(c, row)
        /\ KnewTo(c, m.mem[c], row) /\ Kept(c, m.mem[c], m.mem[c])
  <2>1. ASSUME NEW c \in DOMAIN m.mem, NEW row, row = Merge(rows[c], m.base[c], m.mem[c])
        PROVE  /\ row \in Row /\ RowOK(row, c) /\ Fresh(row, c) /\ MovesTo(c, row)
               /\ KnewTo(c, m.mem[c], row) /\ Kept(c, m.mem[c], m.mem[c])
    <3>1. c \in Chunks /\ m.base[c] \in Row \cup {None} /\ m.mem[c] \in Row
      BY <1>2
    <3>2. m.base[c] = None => ~Present(c)
      BY <1>2, <1>3
    <3>3. /\ KnewOK(c, m.base[c])
          /\ \/ Renewed(c, m.base[c], m.mem[c])
             \/ Untouched(c, m.base[c], m.mem[c])
             \/ Dropped(c, m.base[c], m.mem[c])
      BY <1>2 DEF MemoryOK
    <3> QED
      BY <2>1, <3>1, <3>2, <3>3, CommitRow
  <2> QED
    BY <2>1
<1>5. /\ rows' \in [Chunks -> Row \cup {None}] /\ RowsOK' /\ (\A c \in Chunks : Moves(c))
      /\ \A c \in Chunks : Written(c) => Written(c)'
      /\ \A c \in DOMAIN m.mem : rows'[c] = Merge(rows[c], m.base[c], m.mem[c]) /\ Present(c)'
  BY <1>2, <1>3, <1>4, CommittedRows
<1>6. held' \in Held /\ runStatus' \in Statuses
  BY <1>3, TablesAt, HeldKept
<1>7. m \in CrawlerState
  BY <1>2 DEF CrawlerOK
<1>8. CASE m.todo = {} /\ m.gone = {}
  <2>1. crawler' = [crawler EXCEPT ![w] = Turned([m EXCEPT !.good = m.good + 1])]
    BY <1>1, <1>8 DEF CommitChunks
  <2>2. m.good + 1 \in Nat /\ m.good + 1 < m.page + 1 /\ m.phase \in AtPage
    BY <1>2, <1>7 DEF CrawlerOK, CrawlerState, AtPage, AtChunks
  <2>3. PICK n : n = Turned([m EXCEPT !.good = m.good + 1])
    OBVIOUS
  <2>4. CrawlerOK(n) /\ n.phase \notin AtChunks
    BY <1>2, <2>2, <2>3, TurnedOK DEF AtChunks
  <2> QED
    BY <1>2, <1>3, <1>5, <1>6, <2>1, <2>3, <2>4, TurnsOver
<1>9. CASE ~(m.todo = {} /\ m.gone = {})
  <2>1. PICK n : n = [m EXCEPT !.phase = "open", !.base = m.mem]
    OBVIOUS
  <2>2. crawler' = [crawler EXCEPT ![w] = n]
    BY <1>1, <1>9, <2>1 DEF CommitChunks
  <2>3. /\ n.phase = "open" /\ n.page = m.page /\ n.good = m.good /\ n.run = m.run
        /\ n.mem = m.mem /\ n.base = m.mem /\ n.gone = m.gone /\ n.todo = m.todo
    BY <1>7, <2>1 DEF CrawlerState
  <2>4. n \in CrawlerState
    <3>1. m.mem \in Loaded
      BY <1>2 DEF Loaded
    <3> QED
      BY <1>7, <2>1, <3>1 DEF CrawlerState, Phases
  <2>5. CrawlerOK(n)
    BY <1>2, <2>3, <2>4 DEF CrawlerOK, AtPage, AtChunks
  <2>6. \A c : IsDue(c)' <=> IsDue(c)
    BY <1>3, SameDue
  <2>7. MemoryOK(n)'
    <3>1. ASSUME NEW c \in DOMAIN m.mem
          PROVE  /\ KnewOK(c, n.base[c])' /\ (c \in n.todo <=> IsDue(c)')
                 /\ Kept(c, n.base[c], n.mem[c])' /\ Same(n.base[c], n.mem[c])'
      <4>1. PICK row : row = Merge(rows[c], m.base[c], m.mem[c])
        OBVIOUS
      <4>2. KnewTo(c, m.mem[c], row) /\ Kept(c, m.mem[c], m.mem[c])
        BY <1>4, <4>1
      <4>3. rows'[c] = row /\ Present(c)' /\ m.mem[c] # None
        BY <1>2, <1>5, <4>1, RowNullAssumption
      <4>4. KnewOK(c, m.mem[c])'
        BY <1>3, <2>6, <4>2, <4>3 DEF KnewOK, KnewTo
      <4>5. Kept(c, m.mem[c], m.mem[c])'
        BY <1>3, <2>6, <4>2 DEF Kept
      <4>6. c \in m.todo <=> IsDue(c)'
        BY <1>2, <2>6 DEF MemoryOK
      <4> QED
        BY <2>3, <4>4, <4>5, <4>6 DEF Same
    <3>2. DOMAIN n.mem = DOMAIN m.mem /\ n.phase = "open"
      BY <2>3
    <3>3. \A c \in DOMAIN n.mem :
                 /\ KnewOK(c, n.base[c])' /\ (c \in n.todo <=> IsDue(c)')
                 /\ Kept(c, n.base[c], n.mem[c])' /\ Same(n.base[c], n.mem[c])'
      BY <3>1, <3>2
    <3> QED
      BY <3>2, <3>3 DEF MemoryOK
  <2>8. GoneOK(n)'
    BY <1>2, <2>3, <2>6 DEF GoneOK
  <2>9. /\ points' \in [Targets -> [Chunks -> 0 .. LastVersion]]
        /\ overtaken' \subseteq Targets \X Chunks
    BY <1>3 DEF FreshIInv, TablesOK
  <2> QED
    BY <1>2, <1>3, <1>5, <1>6, <2>2, <2>5, <2>7, <2>8, <2>9, WorkerKeeps DEF Held, Statuses
<1> QED
  BY <1>8, <1>9

(* What Qdrant has answered is committed. *)
LEMMA SaveIndexFresh == ASSUME FreshIInv, NEW w \in Workers, SaveIndex(w) PROVE FreshIInv'
<1>1. PICK m : m = crawler[w]
  OBVIOUS
<1>2. /\ CrawlerOK(m) /\ MemoryOK(m) /\ ~rebuild.on /\ m.phase = "vectors" /\ m.todo = {}
      /\ DOMAIN m.mem \in SUBSET Chunks /\ m.mem \in [DOMAIN m.mem -> Row]
      /\ m.base \in [DOMAIN m.mem -> Row \cup {None}]
  BY <1>1, AtRows DEF SaveIndex, AtChunks
<1>3. /\ rows' = Stored(m.base, m.mem)
      /\ crawler' = [crawler EXCEPT ![w] = Turned([m EXCEPT !.good = m.good + 1])]
      /\ UNCHANGED <<runStatus, held, points, overtaken, rebuild, emptied, version, target>>
  BY <1>1 DEF SaveIndex
<1>4. \A c \in DOMAIN m.mem :
        LET row == Merge(rows[c], m.base[c], m.mem[c]) IN
        row \in Row /\ RowOK(row, c) /\ Fresh(row, c) /\ MovesTo(c, row)
  <2>1. ASSUME NEW c \in DOMAIN m.mem, NEW row, row = Merge(rows[c], m.base[c], m.mem[c])
        PROVE  row \in Row /\ RowOK(row, c) /\ Fresh(row, c) /\ MovesTo(c, row)
    <3>1. c \in Chunks /\ m.base[c] \in Row \cup {None} /\ m.mem[c] \in Row
      BY <1>2
    <3>2. KnewOK(c, m.base[c]) /\ Kept(c, m.base[c], m.mem[c]) /\ (IsDue(c) => Answered(c, m))
      BY <1>2 DEF MemoryOK, AtVectors
    <3> QED
      BY <2>1, <3>1, <3>2, SaveRow
  <2> QED
    BY <2>1
<1>5. /\ rows' \in [Chunks -> Row \cup {None}] /\ RowsOK' /\ (\A c \in Chunks : Moves(c))
      /\ \A c \in Chunks : Written(c) => Written(c)'
  BY <1>2, <1>3, <1>4, CommittedRows
<1>6. held' \in Held /\ runStatus' \in Statuses
  BY <1>3, TablesAt
<1>7. m.good + 1 \in Nat /\ m.good + 1 < m.page + 1 /\ m.phase \in AtPage
  BY <1>2 DEF CrawlerOK, CrawlerState, AtPage, AtChunks
<1>8. PICK n : n = Turned([m EXCEPT !.good = m.good + 1])
  OBVIOUS
<1>9. CrawlerOK(n) /\ n.phase \notin AtChunks
  BY <1>2, <1>7, <1>8, TurnedOK DEF AtChunks
<1> QED
  BY <1>2, <1>3, <1>5, <1>6, <1>8, <1>9, TurnsOver
-----------------------------------------------------------------------------
(* The operator. *)
LEMMA DormantOK ==
  /\ Dormant \in [on : BOOLEAN, at : Targets \cup {None}, mem : Remembered, todo : SUBSET Chunks]
  /\ ~Dormant.on
<1>1. [c \in {} |-> None] \in Remembered
  BY AsleepOK DEF Asleep, CrawlerOK, CrawlerState
<1> QED
  BY <1>1 DEF Dormant

(* At first there is nothing. *)
LEMMA InitFresh == IndexInit => FreshIInv
<1> SUFFICES ASSUME IndexInit PROVE FreshIInv
  OBVIOUS
<1>1. \A c \in Chunks : ~Present(c)
  BY DEF IndexInit, Present
<1>2. \A w \in Workers : crawler[w] = Asleep /\ crawler[w].phase = "idle"
  BY DEF IndexInit, Asleep
<1>3. TablesOK
  <2>1. RebuildOK
    BY DormantOK DEF IndexInit, RebuildOK
  <2>2. DOMAIN crawler = Workers /\ \A w \in Workers : CrawlerOK(crawler[w])
    BY <1>2, AsleepOK DEF IndexInit
  <2>3. points \in [Targets -> [Chunks -> 0 .. LastVersion]]
    BY VersionAssumption DEF IndexInit
  <2>4. /\ runStatus \in [Runs -> {"absent", "queued", "running", "success", "partial", "failed"}]
        /\ held \in [Items -> {{}, {None}} \cup {{w} : w \in Workers}]
        /\ rows \in [Chunks -> Row \cup {None}]
    BY DEF IndexInit
  <2>5. emptied \subseteq Targets /\ overtaken \subseteq Targets \X Chunks
        /\ version \in 1 .. LastVersion /\ target \in Targets
    BY VersionAssumption DEF IndexInit
  <2> QED
    BY <2>1, <2>2, <2>3, <2>4, <2>5 DEF TablesOK
<1>4. RowsOK
  BY <1>1 DEF RowsOK
<1>5. MemoriesOK
  BY <1>2 DEF MemoriesOK, AtChunks
<1>6. RebuildsAlone
  BY DormantOK DEF RebuildsAlone, IndexInit
<1> QED
  BY <1>3, <1>4, <1>5, <1>6 DEF FreshIInv

(* Idle workers hold nothing. *)
LEMMA IdleMemories ==
  ASSUME \A w \in Workers : crawler[w].phase = "idle", UNCHANGED crawler PROVE MemoriesOK'
BY DEF MemoriesOK, AtChunks

(* Workers that do not move keep their shape. *)
LEMMA SameCrawlers ==
  ASSUME TablesOK, UNCHANGED crawler
  PROVE  DOMAIN crawler' = Workers /\ \A w \in Workers : CrawlerOK(crawler[w])'
BY DEF TablesOK, CrawlerOK

(* The chunker's version or the target changes. *)
LEMMA ReconfigureFresh ==
  ASSUME FreshIInv, NEW v \in 1 .. LastVersion, NEW t \in Targets, Reconfigure(v, t)
  PROVE  FreshIInv'
<1>1. /\ version' = v /\ target' = t /\ v >= version /\ Quiet
      /\ UNCHANGED <<runStatus, held, rows, points, overtaken, crawler, rebuild, emptied>>
  BY DEF Reconfigure
<1>2. TablesOK /\ RowsOK /\ version \in 1 .. LastVersion /\ rows \in [Chunks -> Row \cup {None}]
  BY DEF FreshIInv, TablesOK
<1>3. TablesOK'
  <2>1. RebuildOK'
    BY <1>1, <1>2 DEF TablesOK, RebuildOK
  <2>2. DOMAIN crawler' = Workers /\ \A w \in Workers : CrawlerOK(crawler[w])'
    BY <1>1, <1>2, SameCrawlers
  <2> QED
    BY <1>1, <1>2, <2>1, <2>2 DEF TablesOK
<1>4. RowsOK'
  <2>1. ASSUME NEW c \in Chunks, Present(c) PROVE RowOK(rows[c], c)' /\ Fresh(rows[c], c)'
    <3>1. rows[c] \in Row /\ RowOK(rows[c], c) /\ Fresh(rows[c], c)
      BY <1>2, <2>1 DEF RowsOK, Present
    <3>2. rows[c].text \in Nat /\ rows[c].text <= version
      BY <3>1 DEF Row, RowOK
    <3>3. v = version => (IsDue(c)' <=> IsDue(c))
      BY <1>1 DEF IsDue, Expected
    <3>4. RowOK(rows[c], c)'
      BY <1>1, <1>2, <3>1, <3>2, <3>3 DEF RowOK
    <3>5. Fresh(rows[c], c)'
      BY <1>1, <3>1 DEF Fresh
    <3> QED
      BY <3>4, <3>5
  <2> QED
    BY <1>1, <2>1 DEF RowsOK, Present
<1>5. MemoriesOK'
  BY <1>1, IdleMemories DEF Quiet
<1>6. RebuildsAlone'
  BY <1>1 DEF Quiet, RebuildsAlone
<1> QED
  BY <1>3, <1>4, <1>5, <1>6 DEF FreshIInv

(* A rebuild starts, with or without emptying the collection. *)
LEMMA StartRebuildFresh ==
  ASSUME FreshIInv, NEW reset \in BOOLEAN, StartRebuild(reset) PROVE FreshIInv'
<1>1. PICK live : live = {c \in Chunks : Present(c) /\ rows[c].status # "obsolete"}
  OBVIOUS
<1>2. /\ points' = IF reset THEN [points EXCEPT ![target] = [c \in Chunks |-> 0]] ELSE points
      /\ emptied' = IF reset THEN emptied \cup {target} ELSE emptied
      /\ rebuild' = [on |-> TRUE, at |-> target, mem |-> [c \in live |-> rows[c]], todo |-> live]
      /\ UNCHANGED <<runStatus, held, rows, crawler, overtaken, version, target>>
      /\ \A w \in Workers : crawler[w].phase = "idle"
  BY <1>1 DEF StartRebuild, Quiet
<1>3. /\ TablesOK /\ RowsOK /\ rows \in [Chunks -> Row \cup {None}] /\ target \in Targets
      /\ points \in [Targets -> [Chunks -> 0 .. LastVersion]] /\ emptied \subseteq Targets
  BY DEF FreshIInv, TablesOK
<1>4. points' \in [Targets -> [Chunks -> 0 .. LastVersion]] /\ emptied' \subseteq Targets
  <2>1. [c \in Chunks |-> 0] \in [Chunks -> 0 .. LastVersion]
    BY VersionAssumption
  <2> QED
    BY <1>2, <1>3, <2>1
<1>5. RebuildOK'
  <2>1. live \in SUBSET Chunks /\ [c \in live |-> rows[c]] \in [live -> Row]
    BY <1>1, <1>3 DEF Present
  <2>2. [c \in live |-> rows[c]] \in Remembered
    BY <2>1 DEF Remembered
  <2>3. rebuild'.on = TRUE /\ rebuild'.at = target /\ rebuild'.todo = live
        /\ rebuild'.mem = [c \in live |-> rows[c]]
    BY <1>2
  <2>4. rebuild' \in [on : BOOLEAN, at : Targets \cup {None}, mem : Remembered, todo : SUBSET Chunks]
    BY <1>2, <1>3, <2>1, <2>2
  <2> QED
    BY <1>3, <2>3, <2>4 DEF RebuildOK
<1>6. TablesOK'
  <2>1. DOMAIN crawler' = Workers /\ \A w \in Workers : CrawlerOK(crawler[w])'
    BY <1>2, <1>3, SameCrawlers
  <2> QED
    BY <1>2, <1>3, <1>4, <1>5, <2>1 DEF TablesOK
<1>7. RowsOK'
  <2>1. \A c : IsDue(c)' <=> IsDue(c)
    BY <1>2, SameDue
  <2>2. ASSUME NEW c \in Chunks, Present(c) PROVE RowOK(rows[c], c)' /\ Fresh(rows[c], c)'
    <3>1. RowOK(rows[c], c) /\ Fresh(rows[c], c)
      BY <2>2, <1>3 DEF RowsOK
    <3>2. RowOK(rows[c], c)'
      BY <1>2, <2>1, <3>1 DEF RowOK
    <3>3. ASSUME rows[c].status = "success", rows[c].meta.at \in Targets \ emptied'
          PROVE  rows[c].meta.at \in Targets \ emptied
                 /\ points'[rows[c].meta.at][c] = points[rows[c].meta.at][c]
      BY <1>2, <1>3, <3>3
    <3>4. Fresh(rows[c], c)'
      BY <1>2, <3>1, <3>3 DEF Fresh
    <3> QED
      BY <3>2, <3>4
  <2> QED
    BY <1>2, <2>2 DEF RowsOK, Present
<1>8. MemoriesOK'
  BY <1>2, IdleMemories
<1>9. RebuildsAlone'
  <2>1. \A c \in DOMAIN rebuild'.mem : c \in rebuild'.todo /\ rebuild'.mem[c] = rows[c]
    BY <1>2
  <2>2. DOMAIN rebuild'.mem = {c \in Chunks : Present(c) /\ rows[c].status # "obsolete"}
    BY <1>1, <1>2
  <2> QED
    BY <1>2, <2>1, <2>2 DEF RebuildsAlone, Present
<1> QED
  BY <1>6, <1>7, <1>8, <1>9 DEF FreshIInv

(* A rebuild dies. *)
LEMMA RebuildDiesFresh == ASSUME FreshIInv, RebuildDies PROVE FreshIInv'
<1>1. /\ rebuild' = Dormant /\ \A w \in Workers : crawler[w].phase = "idle"
      /\ UNCHANGED <<runStatus, held, rows, points, overtaken, crawler, emptied, version, target>>
  BY DEF RebuildDies, FreshIInv, RebuildsAlone
<1>2. TablesOK'
  <2>1. RebuildOK'
    BY <1>1, DormantOK DEF RebuildOK
  <2>2. DOMAIN crawler' = Workers /\ \A w \in Workers : CrawlerOK(crawler[w])'
    BY <1>1, SameCrawlers DEF FreshIInv
  <2> QED
    BY <1>1, <2>1, <2>2 DEF FreshIInv, TablesOK
<1>3. RowsOK'
  BY <1>1, RowsStay DEF FreshIInv
<1>4. MemoriesOK'
  BY <1>1, IdleMemories
<1>5. RebuildsAlone'
  BY <1>1, DormantOK DEF RebuildsAlone
<1> QED
  BY <1>2, <1>3, <1>4, <1>5 DEF FreshIInv
Rebuilt(c, mem) ==
    /\ mem.text = rows[c].text /\ mem.meta.hash = rows[c].meta.hash
    /\ \/ mem.status = "failed"
       \/ /\ mem.status = "success" /\ mem.meta.at = rebuild.at
          /\ \/ points[rebuild.at][c] = rows[c].text
             \/ points[rebuild.at][c] = 0 /\ <<rebuild.at, c>> \in overtaken

(* What a rebuild knows of the rows, which nobody else writes. *)
LEMMA RebuildAt ==
  ASSUME FreshIInv, rebuild.on
  PROVE  /\ \A w \in Workers : crawler[w].phase = "idle"
         /\ rebuild.at \in Targets /\ DOMAIN rebuild.mem \in SUBSET Chunks
         /\ rebuild.todo \subseteq DOMAIN rebuild.mem
         /\ rebuild.mem \in [DOMAIN rebuild.mem -> Row]
         /\ \A c \in DOMAIN rebuild.mem :
               /\ Present(c) /\ rows[c] \in Row /\ RowOK(rows[c], c) /\ Fresh(rows[c], c)
               /\ IF c \in rebuild.todo THEN rebuild.mem[c] = rows[c] ELSE Rebuilt(c, rebuild.mem[c])
         /\ \A c \in Chunks \ DOMAIN rebuild.mem : Present(c) => rows[c].status = "obsolete"
<1>1. RebuildOK /\ RowsOK /\ rows \in [Chunks -> Row \cup {None}] /\ RebuildsAlone
  BY DEF FreshIInv, TablesOK
<1>2. rebuild.mem \in Remembered
  BY <1>1 DEF RebuildOK
<1>3. DOMAIN rebuild.mem \in SUBSET Chunks /\ rebuild.mem \in [DOMAIN rebuild.mem -> Row]
  BY <1>2 DEF Remembered
<1>4. DOMAIN rebuild.mem = {c \in Chunks : Present(c) /\ rows[c].status # "obsolete"}
  BY <1>1 DEF RebuildsAlone
<1>5. \A c \in DOMAIN rebuild.mem : Present(c) /\ rows[c] \in Row
  BY <1>1, <1>4 DEF Present
<1>6. \A c \in DOMAIN rebuild.mem : RowOK(rows[c], c) /\ Fresh(rows[c], c)
  BY <1>1, <1>3, <1>5 DEF RowsOK
<1>7. \A c \in DOMAIN rebuild.mem :
         IF c \in rebuild.todo THEN rebuild.mem[c] = rows[c] ELSE Rebuilt(c, rebuild.mem[c])
  BY <1>1 DEF RebuildsAlone, Rebuilt
<1>8. \A w \in Workers : crawler[w].phase = "idle"
  BY <1>1 DEF RebuildsAlone
<1> QED
  BY <1>1, <1>3, <1>4, <1>5, <1>6, <1>7, <1>8 DEF RebuildOK

(* The rebuild writes a chunk, or not. *)
LEMMA RebuildChunkFresh == ASSUME FreshIInv, RebuildChunk PROVE FreshIInv'
<1>1. PICK c : c = CHOOSE x \in rebuild.todo : TRUE
  OBVIOUS
<1>2. rebuild.on /\ c \in rebuild.todo
  BY <1>1 DEF RebuildChunk
<1>3. /\ \A w \in Workers : crawler[w].phase = "idle"
      /\ rebuild.at \in Targets /\ DOMAIN rebuild.mem \in SUBSET Chunks
      /\ rebuild.todo \subseteq DOMAIN rebuild.mem
      /\ rebuild.mem \in [DOMAIN rebuild.mem -> Row]
      /\ \A d \in DOMAIN rebuild.mem :
            /\ Present(d) /\ rows[d] \in Row /\ RowOK(rows[d], d) /\ Fresh(rows[d], d)
            /\ IF d \in rebuild.todo THEN rebuild.mem[d] = rows[d] ELSE Rebuilt(d, rebuild.mem[d])
      /\ \A d \in Chunks \ DOMAIN rebuild.mem : Present(d) => rows[d].status = "obsolete"
  BY <1>2, RebuildAt
<1>4. PICK at, row : at = rebuild.at /\ row = rebuild.mem[c]
  OBVIOUS
<1>5. c \in Chunks /\ at \in Targets /\ row \in Row /\ row = rows[c]
  BY <1>2, <1>3, <1>4
<1>6. RebuildOK
  BY DEF FreshIInv, TablesOK
<1>7. PICK self : self = [rebuild EXCEPT !.todo = rebuild.todo \ {c}]
  OBVIOUS
<1>8. /\ self.on /\ self.at = at /\ self.mem = rebuild.mem /\ self.todo = rebuild.todo \ {c}
      /\ self \in [on : BOOLEAN, at : Targets \cup {None}, mem : Remembered, todo : SUBSET Chunks]
  BY <1>2, <1>4, <1>6, <1>7 DEF RebuildOK
<1>9. PICK x : /\ rebuild' = [self EXCEPT !.mem[c] = x]
               /\ \/ x = Succeeded(row, at) /\ Puts(at, c, row.text)
                  \/ x = Failed(row) /\ (Puts(at, c, row.text) \/ UNCHANGED <<points, overtaken>>)
  <2>1. PICK yes : yes = [self EXCEPT !.mem[c] = Succeeded(row, at)]
    OBVIOUS
  <2>2. PICK no : no = [self EXCEPT !.mem[c] = Failed(row)]
    OBVIOUS
  <2>3. self.mem[c] = row /\ rebuild.at = at
    BY <1>4, <1>8
  <2>4. \/ /\ Puts(at, c, self.mem[c].text)
           /\ rebuild' = [self EXCEPT !.mem[c] = Succeeded(self.mem[c], at)]
        \/ /\ Puts(at, c, self.mem[c].text) \/ UNCHANGED <<points, overtaken>>
           /\ rebuild' = [self EXCEPT !.mem[c] = Failed(self.mem[c])]
    BY <1>1, <1>7, <2>3 DEF RebuildChunk
  <2>5. \/ Puts(at, c, row.text) /\ rebuild' = yes
        \/ (Puts(at, c, row.text) \/ UNCHANGED <<points, overtaken>>) /\ rebuild' = no
    BY <2>1, <2>2, <2>3, <2>4
  <2> QED
    BY <2>1, <2>2, <2>5
<1>10. UNCHANGED <<runStatus, held, rows, crawler, emptied, version, target>>
  BY DEF RebuildChunk
<1>11. /\ x \in Row /\ x.text = row.text /\ x.meta.hash = row.meta.hash
       /\ \/ x.status = "success" /\ x.meta.at = at /\ Puts(at, c, row.text)
          \/ x.status = "failed"
  <2>1. /\ Failed(row) \in Row /\ Failed(row).text = row.text
        /\ Failed(row).meta = row.meta /\ Failed(row).status = "failed"
        /\ Succeeded(row, at) \in Row /\ Succeeded(row, at).text = row.text
        /\ Succeeded(row, at).meta.hash = row.meta.hash
        /\ Succeeded(row, at).meta.at = at /\ Succeeded(row, at).status = "success"
    BY <1>5 DEF Failed, Succeeded, Row
  <2> QED
    BY <1>9, <2>1
<1>12. points \in [Targets -> [Chunks -> 0 .. LastVersion]] /\ overtaken \subseteq Targets \X Chunks
  BY DEF FreshIInv, TablesOK
<1>13. /\ points' \in [Targets -> [Chunks -> 0 .. LastVersion]]
       /\ overtaken' \subseteq Targets \X Chunks
       /\ \A s \in Targets, d \in Chunks :
             \/ points'[s][d] = points[s][d] /\ (<<s, d>> \in overtaken' <=> <<s, d>> \in overtaken)
             \/ s = at /\ d = c /\ points'[s][d] = row.text
       /\ Puts(at, c, row.text) => points'[at][c] = row.text
  <2>1. row.text \in 0 .. LastVersion
    BY <1>5 DEF Row
  <2>2. CASE Puts(at, c, row.text)
    <3>1. points' = [points EXCEPT ![at][c] = row.text] /\ overtaken' = overtaken \ {<<at, c>>}
      BY <2>2 DEF Puts
    <3>2. points' \in [Targets -> [Chunks -> 0 .. LastVersion]] /\ overtaken' \subseteq Targets \X Chunks
          /\ points'[at][c] = row.text
      BY <1>5, <1>12, <2>1, <3>1
    <3>3. \A s \in Targets, d \in Chunks :
             \/ points'[s][d] = points[s][d] /\ (<<s, d>> \in overtaken' <=> <<s, d>> \in overtaken)
             \/ s = at /\ d = c
      BY <1>5, <1>12, <3>1
    <3> QED
      BY <3>2, <3>3
  <2>3. CASE UNCHANGED <<points, overtaken>> /\ ~Puts(at, c, row.text)
    BY <1>12, <2>3
  <2> QED
    BY <1>9, <2>2, <2>3
<1>14. /\ rebuild'.on /\ rebuild'.at = at /\ rebuild'.todo = rebuild.todo \ {c}
       /\ rebuild'.mem = [rebuild.mem EXCEPT ![c] = x]
  BY <1>8, <1>9
<1>15. rebuild'.mem \in [DOMAIN rebuild.mem -> Row] /\ DOMAIN rebuild'.mem = DOMAIN rebuild.mem
       /\ rebuild'.mem[c] = x /\ \A d \in DOMAIN rebuild.mem : d # c => rebuild'.mem[d] = rebuild.mem[d]
  BY <1>2, <1>3, <1>11, <1>14
<1>16. RebuildOK'
  <2>1. rebuild'.mem \in Remembered
    BY <1>3, <1>15 DEF Remembered
  <2>2. rebuild' = [self EXCEPT !.mem = rebuild'.mem]
    BY <1>8, <1>9, <1>14
  <2>3. rebuild' \in [on : BOOLEAN, at : Targets \cup {None}, mem : Remembered, todo : SUBSET Chunks]
    BY <1>8, <2>1, <2>2
  <2> QED
    BY <1>3, <1>5, <1>14, <1>15, <2>3 DEF RebuildOK
<1>17. TablesOK'
  <2>1. DOMAIN crawler' = Workers /\ \A w \in Workers : CrawlerOK(crawler[w])'
    BY <1>10, SameCrawlers DEF FreshIInv
  <2> QED
    BY <1>10, <1>13, <1>16, <2>1 DEF FreshIInv, TablesOK
<1>18. RowsOK'
  <2>1. \A d : IsDue(d)' <=> IsDue(d)
    BY <1>10, SameDue
  <2>2. ASSUME NEW d \in Chunks, Present(d) PROVE RowOK(rows[d], d)' /\ Fresh(rows[d], d)'
    <3>1. RowOK(rows[d], d) /\ Fresh(rows[d], d)
      BY <2>2 DEF FreshIInv, RowsOK
    <3>2. RowOK(rows[d], d)'
      BY <1>10, <2>1, <3>1 DEF RowOK
    <3>3. Fresh(rows[d], d)'
      BY <1>5, <1>10, <1>13, <3>1 DEF Fresh
    <3> QED
      BY <3>2, <3>3
  <2> QED
    BY <1>10, <2>2 DEF RowsOK, Present
<1>19. MemoriesOK'
  BY <1>3, <1>10, IdleMemories
<1>20. RebuildsAlone'
  <2>1. ASSUME NEW d \in DOMAIN rebuild.mem
        PROVE  IF d \in rebuild'.todo THEN rebuild'.mem[d] = rows'[d]
               ELSE /\ rebuild'.mem[d].text = rows'[d].text
                    /\ rebuild'.mem[d].meta.hash = rows'[d].meta.hash
                    /\ \/ rebuild'.mem[d].status = "failed"
                       \/ /\ rebuild'.mem[d].status = "success" /\ rebuild'.mem[d].meta.at = rebuild'.at
                          /\ \/ points'[rebuild'.at][d] = rows'[d].text
                             \/ points'[rebuild'.at][d] = 0 /\ <<rebuild'.at, d>> \in overtaken'
    <3>1. CASE d = c
      BY <1>5, <1>10, <1>11, <1>13, <1>14, <1>15, <3>1
    <3>2. CASE d # c
      <4>1. IF d \in rebuild.todo THEN rebuild.mem[d] = rows[d] ELSE Rebuilt(d, rebuild.mem[d])
        BY <1>3
      <4>2. rebuild'.mem[d] = rebuild.mem[d] /\ (d \in rebuild'.todo <=> d \in rebuild.todo)
            /\ d \in Chunks /\ rebuild'.at = rebuild.at
        BY <1>3, <1>4, <1>14, <1>15, <3>2
      <4>3. /\ points'[at][d] = points[at][d] 
            /\ <<at, d>> \in overtaken' <=> <<at, d>> \in overtaken
        BY <1>5, <1>13, <3>2, <4>2
      <4> QED
        BY <1>4, <1>10, <4>1, <4>2, <4>3 DEF Rebuilt
    <3> QED
      BY <3>1, <3>2
  <2>2. DOMAIN rebuild.mem = {d \in Chunks : Present(d) /\ rows[d].status # "obsolete"}
    BY <1>2 DEF FreshIInv, RebuildsAlone
  <2>3. DOMAIN rebuild'.mem = {d \in Chunks : Present(d)' /\ rows'[d].status # "obsolete"}
    BY <1>10, <1>15, <2>2 DEF Present
  <2> QED
    BY <1>3, <1>10, <1>15, <2>1, <2>3 DEF RebuildsAlone
<1> QED
  BY <1>17, <1>18, <1>19, <1>20 DEF FreshIInv

(* The rebuild records what Qdrant has answered. *)
LEMMA FinishRebuildFresh == ASSUME FreshIInv, FinishRebuild PROVE FreshIInv'
<1>1. /\ rebuild.on /\ rebuild.todo = {} /\ rows' = Stored(rows, rebuild.mem)
      /\ emptied' = emptied \ {rebuild.at} /\ rebuild' = Dormant
      /\ UNCHANGED <<runStatus, held, points, overtaken, crawler, version, target>>
  BY DEF FinishRebuild
<1>2. /\ \A w \in Workers : crawler[w].phase = "idle"
      /\ rebuild.at \in Targets /\ DOMAIN rebuild.mem \in SUBSET Chunks
      /\ rebuild.mem \in [DOMAIN rebuild.mem -> Row]
      /\ \A d \in DOMAIN rebuild.mem :
            /\ Present(d) /\ rows[d] \in Row /\ RowOK(rows[d], d)
            /\ Rebuilt(d, rebuild.mem[d])
      /\ \A d \in Chunks \ DOMAIN rebuild.mem : Present(d) => rows[d].status = "obsolete"
  BY <1>1, RebuildAt
<1>3. rows \in [Chunks -> Row \cup {None}] /\ RowsOK
  BY DEF FreshIInv, TablesOK
<1>4. \A c \in Chunks :
        rows'[c] = IF c \in DOMAIN rebuild.mem THEN Merge(rows[c], rows[c], rebuild.mem[c]) ELSE rows[c]
  BY <1>1 DEF Stored
<1>5. ASSUME NEW c \in DOMAIN rebuild.mem
      PROVE  /\ rows'[c] \in Row /\ rows'[c].text = rebuild.mem[c].text
             /\ rows'[c].meta = rebuild.mem[c].meta /\ rows'[c].status = rebuild.mem[c].status
  <2>1. rows[c] \in Row /\ rebuild.mem[c] \in Row /\ c \in Chunks
    BY <1>2
  <2>2. rows'[c] = Merge(rows[c], rows[c], rebuild.mem[c])
    BY <1>4, <2>1
  <2> QED
    BY <2>1, <2>2, MergeRow
<1>6. rows' \in [Chunks -> Row \cup {None}]
  <2>1. \A c \in Chunks : rows'[c] \in Row \cup {None}
    BY <1>3, <1>4, <1>5
  <2> QED
    BY <1>1, <2>1 DEF Stored
<1>7. TablesOK'
  <2>1. RebuildOK'
    BY <1>1, DormantOK DEF RebuildOK
  <2>2. DOMAIN crawler' = Workers /\ \A w \in Workers : CrawlerOK(crawler[w])'
    BY <1>1, SameCrawlers DEF FreshIInv
  <2> QED
    BY <1>1, <1>6, <2>1, <2>2 DEF FreshIInv, TablesOK
<1>8. RowsOK'
  <2>1. \A d : IsDue(d)' <=> IsDue(d)
    BY <1>1, SameDue
  <2>2. ASSUME NEW c \in Chunks, Present(c)' PROVE RowOK(rows[c], c)' /\ Fresh(rows[c], c)'
    <3>1. PICK row : row = rows'[c]
      OBVIOUS
    <3>2. CASE c \in DOMAIN rebuild.mem
      <4>1. Rebuilt(c, rebuild.mem[c]) /\ RowOK(rows[c], c)
        BY <1>2, <3>2
      <4>2. /\ row.text = rows[c].text /\ row.meta.hash = rows[c].meta.hash
            /\ \/ row.status = "failed"
               \/ /\ row.status = "success" /\ row.meta.at = rebuild.at
                  /\ \/ points[rebuild.at][c] = row.text
                     \/ points[rebuild.at][c] = 0 /\ <<rebuild.at, c>> \in overtaken
        BY <1>5, <3>1, <3>2, <4>1 DEF Rebuilt
      <4>3. RowOK(row, c)'
        BY <1>1, <2>1, <4>1, <4>2 DEF RowOK
      <4>4. Fresh(row, c)'
        BY <1>1, <4>2 DEF Fresh
      <4>5. (RowOK(rows[c], c) /\ Fresh(rows[c], c))'
        BY <3>1, <4>3, <4>4
      <4> QED
        BY <4>5
    <3>3. CASE c \notin DOMAIN rebuild.mem
      <4>1. rows'[c] = rows[c] /\ Present(c)
        BY <1>4, <2>2, <3>3 DEF Present
      <4>2. rows[c].status = "obsolete" /\ RowOK(rows[c], c)
        BY <1>2, <1>3, <3>3, <4>1 DEF RowsOK
      <4>3. RowOK(rows[c], c)'
        BY <1>1, <2>1, <4>1, <4>2 DEF RowOK
      <4>4. Fresh(rows[c], c)'
        BY <4>1, <4>2 DEF Fresh
      <4> QED
        BY <4>3, <4>4
    <3> QED
      BY <3>2, <3>3
  <2> QED
    BY <2>2 DEF RowsOK
<1>9. MemoriesOK'
  BY <1>1, <1>2, IdleMemories
<1>10. RebuildsAlone'
  BY <1>1, DormantOK DEF RebuildsAlone
<1> QED
  BY <1>7, <1>8, <1>9, <1>10 DEF FreshIInv

(* A step that changes nothing. *)
LEMMA StutterFresh == ASSUME FreshIInv, UNCHANGED indexVars PROVE FreshIInv'
<1>1. UNCHANGED <<runStatus, held, rows, points, crawler, rebuild, emptied, overtaken, version, target>>
  BY DEF indexVars
<1>2. RowsOK' /\ (\A c \in Chunks : Moves(c)) /\ (\A c \in Chunks : Written(c) => Written(c)')
  BY <1>1, RowsStay DEF FreshIInv
<1>3. DOMAIN crawler' = Workers /\ \A w \in Workers : CrawlerOK(crawler[w])'
  BY <1>1, SameCrawlers DEF FreshIInv
<1>4. RebuildOK'
  BY <1>1 DEF FreshIInv, TablesOK, RebuildOK
<1>5. TablesOK'
  BY <1>1, <1>3, <1>4 DEF FreshIInv, TablesOK
<1>6. MemoriesOK'
  <2>1. ASSUME NEW x \in Workers, crawler'[x].phase \in AtChunks
        PROVE  (MemoryOK(crawler[x]) /\ GoneOK(crawler[x]))'
    <3>1. PICK n : n = crawler'[x]
      OBVIOUS
    <3>2. CrawlerOK(n) /\ MemoryOK(n) /\ GoneOK(n)
      BY <1>1, <2>1, <3>1 DEF FreshIInv, TablesOK, MemoriesOK
    <3>3. MemoryOK(n)' /\ GoneOK(n)'
      BY <1>1, <1>2, <3>2, MemoryMoves
    <3> QED
      BY <3>1, <3>3
  <2> QED
    BY <2>1 DEF MemoriesOK
<1>7. RebuildsAlone'
  BY <1>1 DEF FreshIInv, RebuildsAlone, Present
<1> QED
  BY <1>2, <1>5, <1>6, <1>7 DEF FreshIInv

(* Every step keeps the invariant of the rows. *)
LEMMA NextFresh == ASSUME FreshIInv, [IndexNext]_indexVars PROVE FreshIInv'
<1>1. ASSUME NEW r \in Runs, Trigger(r) PROVE FreshIInv'
  BY <1>1, TriggerFresh
<1>2. ASSUME NEW w \in Workers,
             (\E r \in Runs : Claim(w, r)) \/ WorkerStep(w) \/ PageFails(w) \/ WorkerDies(w)
      PROVE  FreshIInv'
  <2>1. CASE \E r \in Runs : Claim(w, r)
    BY <2>1, ClaimFresh
  <2>2. CASE MarkRunFailed(w) \/ FinishRun(w) \/ WorkerDies(w)
    BY <2>2, StopsFresh
  <2>3. CASE Discover(w)
    BY <2>3, DiscoverFresh
  <2>4. CASE ReadPage(w)
    BY <2>4, ReadPageFresh
  <2>5. CASE NormalizeItem(w)
    BY <2>5, NormalizeItemFresh
  <2>6. CASE LoadChunks(w)
    BY <2>6, LoadChunksFresh
  <2>7. CASE ReloadChunks(w)
    BY <2>7, ReloadChunksFresh
  <2>8. CASE CommitChunks(w)
    BY <2>8, CommitChunksFresh
  <2>9. CASE OpenIndex(w) \/ OpenIndexFails(w)
    BY <2>9, OpenIndexFresh
  <2>10. CASE DeletePoint(w)
    BY <2>10, DeletePointFresh
  <2>11. CASE UpsertChunk(w)
    BY <2>11, UpsertChunkFresh
  <2>12. CASE SaveIndex(w)
    BY <2>12, SaveIndexFresh
  <2>13. CASE PageFails(w) \/ BreakDeadlock(w)
    BY <2>13, PageFailsFresh DEF BreakDeadlock
  <2> QED
    BY <1>2, <2>1, <2>2, <2>3, <2>4, <2>5, <2>6, <2>7, <2>8, <2>9, <2>10, <2>11, <2>12, <2>13
    DEF WorkerStep
<1>3. ASSUME NEW v \in 1 .. LastVersion, NEW t \in Targets, Reconfigure(v, t) PROVE FreshIInv'
  BY <1>3, ReconfigureFresh
<1>4. ASSUME NEW reset \in BOOLEAN, StartRebuild(reset) PROVE FreshIInv'
  BY <1>4, StartRebuildFresh
<1>5. CASE RebuildChunk \/ FinishRebuild \/ RebuildDies
  BY <1>5, RebuildChunkFresh, FinishRebuildFresh, RebuildDiesFresh
<1>6. CASE UNCHANGED indexVars
  BY <1>6, StutterFresh
<1> QED
  BY <1>1, <1>2, <1>3, <1>4, <1>5, <1>6 DEF IndexNext

(* In every state the rows say what the points are, and the sessions know  *)
(* of each row what it was or what it has become.                          *)
THEOREM FreshInductive == IndexSpec => []FreshIInv
<1>1. IndexInit => FreshIInv
  BY InitFresh
<1>2. FreshIInv /\ [IndexNext]_indexVars => FreshIInv'
  BY NextFresh
<1> QED
  BY <1>1, <1>2, PTL DEF IndexSpec

-----------------------------------------------------------------------------
(***************************************************************************)
(* What a run has earned.                                                  *)
(***************************************************************************)
(* The runs. *)
Active(w) == crawler[w].phase # "idle"
RunsAreClaimed ==
    \A w \in Workers : Active(w) =>
        /\ runStatus[crawler[w].run] = "running"
        /\ \A x \in Workers \ {w} : Active(x) => crawler[x].run # crawler[w].run

(* A page has failed, or a vector call: the run cannot end in success. *)
Spoilt(m) == m.unindexed \/ m.good + 1 < m.page
Tainted(q) ==
    \/ runStatus[q] \in {"partial", "failed"}
    \/ /\ runStatus[q] = "running"
       /\ \A x \in Workers : Active(x) /\ crawler[x].run = q => Spoilt(crawler[x])
Rewriting(m, c) ==
    /\ m.phase \in AtVectors /\ c \in DOMAIN m.base
    /\ m.base[c].status = "pending" /\ m.base[c].meta.at = None

(* What is not indexed was taken from the run by another one, which has    *)
(* yet to write it or cannot succeed any more.                             *)
Takes(q, c) ==
    Tainted(q) \/ \E x \in Workers : crawler[x].run = q /\ Rewriting(crawler[x], c)
Excused(r, c) == \E q \in Runs \ {r} : q \in takers[r][c] /\ Takes(q, c)
Reached(c) == rows[c].status = "success" /\ rows[c].meta.at = target
Settled(r, c) == Present(c) /\ rows[c].text = version /\ (Reached(c) \/ Excused(r, c))

ItemsOf(r, n) == ToSet(PagesOf[r][n])

(* The pages that are done; what the session holds of their chunks is not  *)
(* what an older text was cut into.                                        *)
Current(m, c) ==
    m.phase = "chunks" /\ c \in DOMAIN m.base => m.base[c] # None /\ m.base[c].text = version
PageDone(m, n) ==
    \A i \in ItemsOf(m.run, n) :
        held[i] = {None} /\ \A c \in Expected(i, version) : Settled(m.run, c) /\ Current(m, c)
PagesDone(m) ==
    m.phase # "idle" /\ ~Spoilt(m) => \A n \in 1 .. m.page - 1 : PageDone(m, n)

(* The page at work: its items are there, and the chunks the session does  *)
(* not hold need nothing.                                                  *)
Taken(w, m, i) == IF m.phase \in AtVectors THEN held[i] = {None} ELSE held[i] \in {{None}, {w}}
ItemsTaken(w, m) ==
    /\ m.phase = "items" =>
          \A i \in ItemsOf(m.run, m.page) : i \in ToSet(m.left) \/ Taken(w, m, i)
    /\ m.phase \in AtChunks =>
          \A i \in ItemsOf(m.run, m.page) :
              /\ Taken(w, m, i)
              /\ \A c \in Expected(i, version) : c \in DOMAIN m.mem \/ Settled(m.run, c)

StillKnown(r, c, base) ==
    IsDue(c) /\ base # None =>
        /\ base.status = "success" => rows[c].status = "success" \/ Excused(r, c)
        /\ base.meta.at = target => rows[c].meta.at = target \/ Excused(r, c)
KnownOnes(m) ==
    m.phase \in AtChunks => \A c \in DOMAIN m.base : StillKnown(m.run, c, m.base[c])

Earned(w, m) == PagesDone(m) /\ ItemsTaken(w, m) /\ KnownOnes(m)
AllEarned == \A w \in Workers : Earned(w, crawler[w])
EarnedIInv == FreshIInv /\ RunsAreClaimed /\ AllEarned
-----------------------------------------------------------------------------
(* A run at work has done pages of its own only. *)
LEMMA BeforePages ==
  ASSUME NEW m, CrawlerOK(m), m.phase # "idle"
  PROVE  /\ m.run \in Runs /\ m.page \in Nat /\ m.good \in Nat
         /\ \A n \in 1 .. m.page - 1 : n \in 1 .. Len(PagesOf[m.run])
<1>1. m \in CrawlerState /\ m.run \in Runs
  BY DEF CrawlerOK
<1>2. m.page \in Nat /\ m.good \in Nat /\ m.phase \in Phases
  BY <1>1 DEF CrawlerState
<1>3. Len(PagesOf[m.run]) \in Nat
  BY <1>1, PagesAssumption
<1>4. m.page <= Len(PagesOf[m.run]) + 1
  BY <1>2, <1>3 DEF CrawlerOK, Phases, AtPage, AtChunks
<1> QED
  BY <1>1, <1>2, <1>3, <1>4

(* The chunks of a page's items are due. *)
LEMMA PageItems ==
  ASSUME version \in 1 .. LastVersion, NEW r \in Runs, NEW n \in 1 .. Len(PagesOf[r]),
         NEW i \in ItemsOf(r, n)
  PROVE  i \in Items /\ \A c \in Expected(i, version) : c \in Chunks /\ IsDue(c)
<1>1. PagesOf[r] \in Seq(Seq(Items))
  BY PagesAssumption
<1>2. PagesOf[r][n] \in Seq(Items)
  BY <1>1
<1>3. i \in Items
  BY <1>2 DEF ItemsOf, ToSet
<1> QED
  BY <1>3, DueChunks DEF IsDue

(* What a run has written is known of it until it is indexed.              *)
TakersFollow(q) ==
    \A r \in Runs, c \in Chunks :
        /\ takers[r][c] \subseteq takers'[r][c] \/ Reached(c)'
        /\ runStatus[r] = "running" /\ rows'[c] # rows[c] =>
              q \in takers'[r][c] \/ Reached(c)'

(* A step of worker w, whose run is q. *)
Within(w, q) ==
    /\ TakersFollow(q)
    /\ \A x \in Workers \ {w} : crawler'[x] = crawler[x]
    /\ Active(w) => crawler[w].run = q
    /\ Active(w)' => crawler'[w].run = q
    /\ \A p \in Runs \ {q} : runStatus'[p] = runStatus[p]
    /\ Tainted(q) => Tainted(q)'
    /\ UNCHANGED <<version, target>>
(* It leaves other runs an excuse. *)
Owes(w, q, c) == Tainted(q)' \/ (Rewriting(crawler'[w], c) /\ crawler'[w].run = q)
RowStep(w, q, c) ==
    IsDue(c) =>
        /\ Rewriting(crawler[w], c) => Owes(w, q, c) \/ Reached(c)'
        /\ Present(c) =>
              /\ rows[c].status = "success" => rows'[c].status = "success" \/ Owes(w, q, c)
              /\ rows[c].meta.at = target => rows'[c].meta.at = target \/ Owes(w, q, c)

(* Commits keep the history. *)
LEMMA HistoryFollows ==
  ASSUME NEW q, NEW new, rows' = new, takers' = TakenBy(q, new), target' = target
  PROVE  TakersFollow(q)
<1> SUFFICES ASSUME NEW r \in Runs, NEW c \in Chunks
             PROVE  /\ takers[r][c] \subseteq takers'[r][c] \/ Reached(c)'
                    /\ runStatus[r] = "running" /\ rows'[c] # rows[c] =>
                          q \in takers'[r][c] \/ Reached(c)'
  BY DEF TakersFollow
<1>1. takers'[r][c] = IF runStatus[r] # "running" THEN takers[r][c]
                      ELSE IF Indexed(new[c]) THEN {}
                      ELSE IF new[c] # rows[c] THEN takers[r][c] \cup {q} ELSE takers[r][c]
  BY DEF TakenBy
<1>2. Indexed(new[c]) => Reached(c)'
  BY DEF Indexed, Reached
<1> QED
  BY <1>1, <1>2

(* A run that cannot succeed any more will not. *)
LEMMA TaintStays ==
  ASSUME NEW w \in Workers, NEW q \in Runs, Within(w, q), NEW p \in Runs, Tainted(p)
  PROVE  Tainted(p)'
<1>1. CASE p = q
  BY <1>1 DEF Within
<1>2. CASE p # q
  <2>1. runStatus'[p] = runStatus[p]
    BY <1>2 DEF Within
  <2>2. ASSUME NEW x \in Workers, Active(x)', crawler'[x].run = p
        PROVE  crawler'[x] = crawler[x] /\ Active(x) /\ crawler[x].run = p
    <3>1. x # w
      BY <1>2, <2>2 DEF Within
    <3>2. crawler'[x] = crawler[x]
      BY <3>1 DEF Within
    <3> QED
      BY <2>2, <3>2 DEF Active
  <2>3. \A x \in Workers : Active(x)' /\ crawler'[x].run = p =>
            crawler'[x] = crawler[x] /\ Active(x) /\ crawler[x].run = p
    BY <2>2
  <2>4. CASE runStatus[p] \in {"partial", "failed"}
    BY <2>1, <2>4 DEF Tainted
  <2>5. CASE runStatus[p] = "running" /\
             \A x \in Workers : Active(x) /\ crawler[x].run = p => Spoilt(crawler[x])
    BY <2>1, <2>3, <2>5 DEF Tainted, Spoilt
  <2> QED
    BY <2>4, <2>5 DEF Tainted
<1> QED
  BY <1>1, <1>2

(* What a worker owes excuses the runs it has taken the chunk from.        *)
LEMMA OwesExcuse ==
  ASSUME NEW w \in Workers, NEW q \in Runs, NEW r \in Runs, r # q, NEW c, Owes(w, q, c),
         q \in takers'[r][c]
  PROVE  Excused(r, c)'
<1>1. Takes(q, c)'
  <2>1. CASE Tainted(q)'
    BY <2>1 DEF Takes
  <2>2. CASE Rewriting(crawler'[w], c) /\ crawler'[w].run = q
    <3>1. crawler'[w].run = q /\ Rewriting(crawler[w], c)'
      BY <2>2 DEF Rewriting
    <3> QED
      BY <3>1 DEF Takes
  <2> QED
    BY <2>1, <2>2 DEF Owes
<1> QED
  BY <1>1 DEF Excused

(* An excuse holds until the chunk is indexed again. *)
LEMMA ExcuseMoves ==
  ASSUME NEW w \in Workers, NEW q \in Runs, Within(w, q), NEW r \in Runs, NEW c \in Chunks,
         Excused(r, c), r # q => (Rewriting(crawler[w], c) => Owes(w, q, c) \/ Reached(c)')
  PROVE  Excused(r, c)' \/ Reached(c)'
<1>1. PICK p \in Runs \ {r} : p \in takers[r][c] /\ Takes(p, c)
  BY DEF Excused
<1>2. p \in takers'[r][c] \/ Reached(c)'
  BY <1>1 DEF Within, TakersFollow
<1>3. CASE Tainted(p)
  <2>1. Tainted(p)'
    BY <1>1, <1>3, TaintStays
  <2>2. Takes(p, c)'
    BY <2>1 DEF Takes
  <2> QED
    BY <1>1, <1>2, <2>2 DEF Excused
<1>4. ASSUME NEW x \in Workers, crawler[x].run = p, Rewriting(crawler[x], c)
      PROVE  Excused(r, c)' \/ Reached(c)'
  <2>1. CASE x # w
    <3>1. crawler'[x] = crawler[x]
      BY <2>1 DEF Within
    <3>2. crawler'[x].run = p /\ Rewriting(crawler[x], c)'
      BY <1>4, <3>1 DEF Rewriting
    <3>3. Takes(p, c)'
      BY <3>2 DEF Takes
    <3> QED
      BY <1>1, <1>2, <3>3 DEF Excused
  <2>2. CASE x = w
    <3>1. Active(w)
      BY <1>4, <2>2 DEF Rewriting, Active, AtVectors
    <3>2. p = q
      BY <1>4, <2>2, <3>1 DEF Within
    <3> QED
      BY <1>1, <1>2, <1>4, <2>2, <3>2, OwesExcuse
  <2> QED
    BY <2>1, <2>2
<1> QED
  BY <1>1, <1>3, <1>4 DEF Takes

(* What the step of one worker leaves of what another run has indexed. *)
LEMMA OtherRun ==
  ASSUME NEW w \in Workers, NEW q \in Runs, Within(w, q), NEW r \in Runs, r # q,
         runStatus[r] = "running", NEW c \in Chunks, IsDue(c), Moves(c), RowStep(w, q, c)
  PROVE  /\ Settled(r, c) => Settled(r, c)'
         /\ \A base : base # None /\ Present(c) /\ StillKnown(r, c, base) => StillKnown(r, c, base)'
<1>1. Excused(r, c) => Excused(r, c)' \/ Reached(c)'
  BY ExcuseMoves DEF RowStep
<1>2. Owes(w, q, c) /\ rows'[c] # rows[c] => Excused(r, c)' \/ Reached(c)'
  BY OwesExcuse DEF Within, TakersFollow
<1>3. UNCHANGED <<version, target>> /\ (IsDue(c)' <=> IsDue(c))
  BY SameDue DEF Within
<1>4. Present(c) =>
        /\ rows[c].status = "success" => rows'[c].status = "success" \/ Excused(r, c)'
        /\ rows[c].meta.at = target => rows'[c].meta.at = target \/ Excused(r, c)'
        /\ Present(c)' /\ (rows[c].text = version => rows'[c].text = version)
  BY <1>2, <1>3 DEF RowStep, Moves, Reached
<1>5. Reached(c)' <=> rows'[c].status = "success" /\ rows'[c].meta.at = target
  BY <1>3 DEF Reached
<1>6. Settled(r, c) => Settled(r, c)'
  BY <1>1, <1>3, <1>4, <1>5 DEF Settled, Reached
<1>7. ASSUME NEW base, base # None, Present(c), StillKnown(r, c, base)
      PROVE  StillKnown(r, c, base)'
  BY <1>1, <1>3, <1>4, <1>5, <1>7 DEF StillKnown
<1> QED
  BY <1>6, <1>7
(* The other workers keep what they have. *)
HeldStays(y) ==
    \A i \in Items : (held[i] = {None} => held'[i] = {None}) /\ (held[i] = {y} => held'[i] = {y})

(* A worker that does not move keeps what it has earned. *)
LEMMA KeepsEarned ==
  ASSUME version \in 1 .. LastVersion, UNCHANGED version, NEW y, NEW m, CrawlerOK(m), Earned(y, m),
         HeldStays(y), m.phase \in AtChunks => MemoryOK(m),
         m.phase # "idle" => \A c \in Chunks : IsDue(c) =>
             /\ Settled(m.run, c) => Settled(m.run, c)'
             /\ \A base : base # None /\ Present(c) /\ StillKnown(m.run, c, base) =>
                   StillKnown(m.run, c, base)'
  PROVE  Earned(y, m)'
<1>1. CASE m.phase = "idle"
  BY <1>1 DEF Earned, PagesDone, ItemsTaken, KnownOnes, AtChunks
<1>2. CASE m.phase # "idle"
  <2>1. /\ m.run \in Runs /\ m.page \in Nat
        /\ \A n \in 1 .. m.page - 1 : n \in 1 .. Len(PagesOf[m.run])
    BY <1>2, BeforePages
  <2>2. PagesDone(m)'
    <3>1. ASSUME ~Spoilt(m), NEW n \in 1 .. m.page - 1 PROVE PageDone(m, n)'
      <4>1. PageDone(m, n) /\ n \in 1 .. Len(PagesOf[m.run])
        BY <1>2, <2>1, <3>1 DEF Earned, PagesDone
      <4>2. ASSUME NEW i \in ItemsOf(m.run, n)
            PROVE  /\ held'[i] = {None}
                   /\ \A c \in Expected(i, version) : Settled(m.run, c)' /\ Current(m, c)'
        <5>1. /\ i \in Items /\ held[i] = {None}
              /\ \A c \in Expected(i, version) :
                    c \in Chunks /\ IsDue(c) /\ Settled(m.run, c) /\ Current(m, c)
          BY <2>1, <4>1, <4>2, PageItems DEF PageDone
        <5> QED
          BY <1>2, <5>1 DEF HeldStays, Current
      <4> QED
        BY <4>2 DEF PageDone, ItemsOf
    <3> QED
      BY <3>1 DEF PagesDone, Spoilt
  <2>3. ItemsTaken(y, m)'
    <3>1. ASSUME m.phase \in AtChunks \cup {"items"}, NEW i \in ItemsOf(m.run, m.page)
          PROVE  /\ i \in Items
                 /\ \A c \in Expected(i, version) : c \in Chunks /\ IsDue(c)
                 /\ Taken(y, m, i) => Taken(y, m, i)'
      <4>1. m.page \in 1 .. Len(PagesOf[m.run])
        BY <3>1 DEF CrawlerOK, AtPage
      <4>2. i \in Items /\ \A c \in Expected(i, version) : c \in Chunks /\ IsDue(c)
        BY <2>1, <3>1, <4>1, PageItems
      <4> QED
        BY <4>2 DEF HeldStays, Taken
    <3>2. ASSUME m.phase = "items", NEW i \in ItemsOf(m.run, m.page)
          PROVE  i \in ToSet(m.left) \/ Taken(y, m, i)'
      BY <3>1, <3>2 DEF Earned, ItemsTaken
    <3>3. ASSUME m.phase \in AtChunks, NEW i \in ItemsOf(m.run, m.page)
          PROVE  /\ Taken(y, m, i)'
                 /\ \A c \in Expected(i, version) : c \in DOMAIN m.mem \/ Settled(m.run, c)'
      BY <1>2, <3>1, <3>3 DEF Earned, ItemsTaken
    <3> QED
      BY <3>2, <3>3 DEF ItemsTaken, ItemsOf
  <2>4. KnownOnes(m)'
    <3>1. ASSUME m.phase \in AtChunks, NEW c \in DOMAIN m.base
          PROVE  StillKnown(m.run, c, m.base[c])'
      <4>1. StillKnown(m.run, c, m.base[c]) /\ KnewOK(c, m.base[c]) /\ c \in Chunks
        BY <3>1 DEF Earned, KnownOnes, MemoryOK, CrawlerOK, CrawlerState, Remembered
      <4>2. IsDue(c)' <=> IsDue(c)
        BY SameDue
      <4>3. CASE IsDue(c) /\ m.base[c] # None
        <5>1. Present(c)
          BY <4>1, <4>3 DEF KnewOK
        <5> QED
          BY <1>2, <4>1, <4>3, <5>1
      <4>4. CASE ~(IsDue(c) /\ m.base[c] # None)
        BY <4>2, <4>4 DEF StillKnown
      <4> QED
        BY <4>3, <4>4
    <3> QED
      BY <3>1 DEF KnownOnes
  <2> QED
    BY <2>2, <2>3, <2>4 DEF Earned
<1> QED
  BY <1>1, <1>2

(* A step of a worker, from what it earns itself and what it does to each  *)
(* row.                                                                    *)
LEMMA WorkerEarns ==
  ASSUME EarnedIInv, FreshIInv', NEW w \in Workers, NEW q \in Runs, NEW n, n = crawler'[w],
         Within(w, q), \A y \in Workers \ {w} : Active(y) => crawler[y].run # q,
         \A c \in Chunks : Moves(c) /\ RowStep(w, q, c),
         \A y \in Workers \ {w} : HeldStays(y),
         n.phase # "idle" => runStatus'[q] = "running",
         Earned(w, n)'
  PROVE  EarnedIInv'
<1>1. FreshIInv /\ RunsAreClaimed /\ version \in 1 .. LastVersion
  BY DEF EarnedIInv, FreshIInv, TablesOK
<1>2. UNCHANGED <<version, target>> /\ \A x \in Workers \ {w} : crawler'[x] = crawler[x]
  BY DEF Within
<1>3. RunsAreClaimed'
  <2>1. ASSUME NEW y \in Workers, Active(y)' PROVE runStatus'[crawler'[y].run] = "running"
    <3>1. CASE y = w
      BY <2>1, <3>1 DEF Active, Within
    <3>2. CASE y # w
      <4>1. crawler'[y] = crawler[y] /\ Active(y) /\ crawler[y].run # q
        BY <1>2, <2>1, <3>2 DEF Active
      <4>2. crawler[y].run \in Runs /\ runStatus[crawler[y].run] = "running"
        BY <1>1, <4>1, AtWork DEF RunsAreClaimed, Active
      <4> QED
        BY <4>1, <4>2 DEF Within
    <3> QED
      BY <3>1, <3>2
  <2>2. ASSUME NEW y \in Workers, NEW x \in Workers \ {y}, Active(y)', Active(x)'
        PROVE  crawler'[x].run # crawler'[y].run
    <3>1. CASE y = w
      <4>1. crawler'[x] = crawler[x] /\ Active(x)
        BY <1>2, <2>2, <3>1 DEF Active
      <4> QED
        BY <2>2, <3>1, <4>1 DEF Within
    <3>2. CASE x = w
      <4>1. crawler'[y] = crawler[y] /\ Active(y)
        BY <1>2, <2>2, <3>2 DEF Active
      <4> QED
        BY <2>2, <3>2, <4>1 DEF Within
    <3>3. CASE x # w /\ y # w
      <4>1. crawler'[y] = crawler[y] /\ Active(y) /\ crawler'[x] = crawler[x] /\ Active(x)
        BY <1>2, <2>2, <3>3 DEF Active
      <4> QED
        BY <1>1, <2>2, <4>1 DEF RunsAreClaimed
    <3> QED
      BY <3>1, <3>2, <3>3
  <2> QED
    BY <2>1, <2>2 DEF RunsAreClaimed
<1>4. AllEarned'
  <2>1. ASSUME NEW y \in Workers PROVE Earned(y, crawler[y])'
    <3>1. CASE y = w
      <4>1. Earned(w, n)' /\ n = crawler'[w]
        OBVIOUS
      <4> QED
        BY <3>1, <4>1
    <3>2. CASE y # w
      <4>1. PICK m : m = crawler[y]
        OBVIOUS
      <4>2. CrawlerOK(m) /\ Earned(y, m) /\ m = crawler'[y] /\ (m.phase \in AtChunks => MemoryOK(m))
        BY <1>1, <1>2, <3>2, <4>1
        DEF EarnedIInv, AllEarned, FreshIInv, TablesOK, MemoriesOK
      <4>3. m.phase # "idle" => m.run # q /\ m.run \in Runs /\ runStatus[m.run] = "running"
        BY <1>1, <3>2, <4>1, AtWork DEF Active, RunsAreClaimed
      <4>4. m.phase # "idle" => \A c \in Chunks : IsDue(c) =>
               /\ Settled(m.run, c) => Settled(m.run, c)'
               /\ \A base : base # None /\ Present(c) /\ StillKnown(m.run, c, base) =>
                     StillKnown(m.run, c, base)'
        <5>1. ASSUME m.phase # "idle", NEW c \in Chunks, IsDue(c)
              PROVE  /\ Settled(m.run, c) => Settled(m.run, c)'
                     /\ \A base : base # None /\ Present(c) /\ StillKnown(m.run, c, base) =>
                           StillKnown(m.run, c, base)'
          <6>1. Moves(c) /\ RowStep(w, q, c)
            OBVIOUS
          <6> QED
            BY <4>3, <5>1, <6>1, OtherRun
        <5> QED
          BY <5>1
      <4>5. Earned(y, m)'
        BY <1>1, <1>2, <3>2, <4>2, <4>4, KeepsEarned
      <4> QED
        BY <4>2, <4>5
    <3> QED
      BY <3>1, <3>2
  <2> QED
    BY <2>1 DEF AllEarned
<1> QED
  BY <1>3, <1>4 DEF EarnedIInv
-----------------------------------------------------------------------------
(* The worker's own run. *)
LEMMA TaintOwn ==
  ASSUME RunsAreClaimed, NEW w \in Workers, Active(w), NEW q, q = crawler[w].run,
         NEW n, n = crawler'[w], \A x \in Workers \ {w} : crawler'[x] = crawler[x],
         n.phase # "idle" => n.run = q, runStatus'[q] = runStatus[q]
  PROVE  /\ n.phase = "idle" \/ Spoilt(n) => Tainted(q)'
         /\ Tainted(q) => Spoilt(crawler[w])
<1>1. runStatus[q] = "running" /\ \A x \in Workers \ {w} : Active(x) => crawler[x].run # q
  BY DEF RunsAreClaimed
<1>2. ASSUME n.phase = "idle" \/ Spoilt(n), NEW x \in Workers, Active(x)', crawler'[x].run = q
      PROVE  Spoilt(crawler[x])'
  <2>1. CASE x = w
    BY <1>2, <2>1 DEF Active, Spoilt
  <2>2. CASE x # w
    BY <1>1, <1>2, <2>2 DEF Active
  <2> QED
    BY <2>1, <2>2
<1>3. Tainted(q) => Spoilt(crawler[w])
  BY <1>1 DEF Tainted
<1> QED
  BY <1>1, <1>2, <1>3 DEF Tainted

(* What the worker's own run has indexed stays when the row does. *)
LEMMA OwnRun ==
  ASSUME NEW w \in Workers, NEW q \in Runs, Within(w, q), NEW c \in Chunks, IsDue(c), Moves(c),
         Settled(q, c), Reached(c) => Reached(c)'
  PROVE  Settled(q, c)'
<1>1. Excused(q, c) => Excused(q, c)' \/ Reached(c)'
  BY ExcuseMoves
<1>2. version' = version
  BY DEF Within
<1> QED
  BY <1>1, <1>2 DEF Settled, Moves

(* Rows that a step leaves alone. *)
LEMMA OwnQuiet ==
  ASSUME NEW w \in Workers, NEW q \in Runs, Within(w, q), NEW c \in Chunks, UNCHANGED rows
  PROVE  /\ Moves(c)
         /\ IsDue(c) /\ Settled(q, c) => Settled(q, c)'
         /\ \A base : StillKnown(q, c, base) => StillKnown(q, c, base)'
<1>1. Moves(c)
  BY DEF Moves, Present
<1>2. UNCHANGED <<version, target>> /\ (IsDue(c)' <=> IsDue(c))
  BY SameDue DEF Within
<1>3. Reached(c) => Reached(c)'
  BY <1>2 DEF Reached
<1>4. Excused(q, c) => Excused(q, c)' \/ Reached(c)'
  BY ExcuseMoves
<1>5. \A base : StillKnown(q, c, base) => StillKnown(q, c, base)'
  BY <1>2, <1>4 DEF StillKnown, Reached
<1> QED
  BY <1>1, <1>3, <1>5, OwnRun

(* What is known of a worker at work. *)
LEMMA AtEarned ==
  ASSUME EarnedIInv, NEW w \in Workers, NEW m, m = crawler[w], m.phase # "idle"
  PROVE  /\ FreshIInv /\ CrawlerOK(m) /\ Earned(w, m) /\ m.run \in Runs /\ Active(w)
         /\ runStatus[m.run] = "running" /\ RunsAreClaimed
         /\ \A y \in Workers \ {w} : Active(y) => crawler[y].run # m.run
         /\ version \in 1 .. LastVersion /\ DOMAIN crawler = Workers
         /\ held \in Held
<1>1. FreshIInv /\ RunsAreClaimed /\ AllEarned
  BY DEF EarnedIInv
<1>2. CrawlerOK(m) /\ m.run \in Runs /\ DOMAIN crawler = Workers
  BY <1>1, AtWork
<1> QED
  BY <1>1, <1>2, TablesAt DEF RunsAreClaimed, AllEarned, Active, FreshIInv, TablesOK

(* A step of a worker that leaves the rows alone. *)
LEMMA QuietEarns ==
  ASSUME EarnedIInv, FreshIInv', NEW w \in Workers, NEW m, m = crawler[w], m.phase # "idle",
         NEW n, crawler' = [crawler EXCEPT ![w] = n], UNCHANGED <<rows, takers, version, target>>,
         n.phase # "idle" => n.run = m.run /\ runStatus' = runStatus,
         \A p \in Runs \ {m.run} : runStatus'[p] = runStatus[p],
         Tainted(m.run) => Tainted(m.run)',
         \A c \in Chunks : Rewriting(m, c) => Owes(w, m.run, c),
         \A y \in Workers \ {w} : HeldStays(y),
         Within(w, m.run) => Earned(w, n)'
  PROVE  EarnedIInv'
<1>1. /\ m.run \in Runs /\ Active(w) /\ runStatus[m.run] = "running" /\ DOMAIN crawler = Workers
      /\ \A y \in Workers \ {w} : Active(y) => crawler[y].run # m.run
  BY AtEarned
<1>2. n = crawler'[w] /\ \A x \in Workers \ {w} : crawler'[x] = crawler[x]
  BY <1>1
<1>3. Within(w, m.run)
  BY <1>2 DEF Within, Active, TakersFollow
<1>4. \A c \in Chunks : Moves(c) /\ RowStep(w, m.run, c)
  BY <1>1, <1>3, OwnQuiet DEF RowStep
<1>5. n.phase # "idle" => runStatus'[m.run] = "running"
  BY <1>1
<1> QED
  BY <1>1, <1>2, <1>3, <1>4, <1>5, WorkerEarns

(* An idle worker has nothing to earn. *)
LEMMA IdleEarned == ASSUME NEW w, NEW n, n.phase = "idle" PROVE Earned(w, n)'
BY DEF Earned, PagesDone, ItemsTaken, KnownOnes, AtChunks

(* The items of other workers. *)
LEMMA HeldOthers ==
  ASSUME held \in Held, NEW w \in Workers,
         held' = held \/ held' = ReleasedBy(w) \/ held' = CommittedBy(w)
  PROVE  \A y \in Workers \ {w} : HeldStays(y)
BY HeldKept DEF HeldStays

(* A run ends, or its worker dies. *)
LEMMA StopsEarned ==
  ASSUME EarnedIInv, FreshIInv', NEW w \in Workers, MarkRunFailed(w) \/ FinishRun(w) \/ WorkerDies(w)
  PROVE  EarnedIInv'
<1>1. PICK m : m = crawler[w]
  OBVIOUS
<1>2. m.phase # "idle"
  BY <1>1 DEF MarkRunFailed, FinishRun, WorkerDies
<1>3. /\ FreshIInv /\ CrawlerOK(m) /\ Earned(w, m) /\ m.run \in Runs /\ Active(w)
      /\ runStatus[m.run] = "running" /\ RunsAreClaimed
      /\ \A y \in Workers \ {w} : Active(y) => crawler[y].run # m.run
      /\ version \in 1 .. LastVersion /\ DOMAIN crawler = Workers
      /\ held \in Held
  BY <1>1, <1>2, AtEarned
<1>4. /\ crawler' = [crawler EXCEPT ![w] = Asleep] /\ Asleep.phase = "idle"
      /\ UNCHANGED <<rows, takers, version, target>>
  BY DEF MarkRunFailed, FinishRun, WorkerDies, Asleep
<1>5. Earned(w, Asleep)'
  BY <1>4, IdleEarned
<1>6. \A y \in Workers \ {w} : HeldStays(y)
  BY <1>3, HeldOthers DEF MarkRunFailed, FinishRun, WorkerDies
<1>7. \A p \in Runs \ {m.run} : runStatus'[p] = runStatus[p]
  <2>1. runStatus \in Statuses
    BY <1>3, TablesAt
  <2> QED
    BY <1>1, <1>3, <2>1 DEF MarkRunFailed, FinishRun, WorkerDies, Statuses
<1>8. \A x \in Workers \ {w} : crawler'[x] = crawler[x]
  BY <1>3, <1>4
<1>9. Asleep = crawler'[w]
  BY <1>3, <1>4
<1>10. runStatus \in Statuses
  BY <1>3, TablesAt
<1>11. CASE MarkRunFailed(w)
  <2>1. runStatus'[m.run] = "failed" /\ m.phase \in {"discover", "finish"}
    BY <1>1, <1>3, <1>10, <1>11 DEF MarkRunFailed, Statuses
  <2>2. Tainted(m.run)'
    BY <2>1 DEF Tainted
  <2>3. \A c : ~Rewriting(m, c)
    BY <2>1 DEF Rewriting, AtVectors
  <2> QED
    BY <1>1, <1>2, <1>4, <1>5, <1>6, <1>7, <2>2, <2>3, QuietEarns
<1>12. CASE FinishRun(w)
  <2>1. runStatus'[m.run] = Verdict(m) /\ m.phase = "finish"
    BY <1>1, <1>3, <1>10, <1>12 DEF FinishRun, Statuses
  <2>2. Tainted(m.run) => Spoilt(m)
    BY <1>1, <1>3 DEF Tainted
  <2>3. Spoilt(m) => Verdict(m) \in {"partial", "failed"}
    <3>1. m.page = Len(PagesOf[m.run]) + 1 /\ m.good \in Nat /\ Len(PagesOf[m.run]) \in Nat
      BY <1>3, <2>1, PagesAssumption DEF CrawlerOK, CrawlerState
    <3> QED
      BY <3>1 DEF Spoilt, Verdict
  <2>4. Tainted(m.run) => Tainted(m.run)'
    BY <2>1, <2>2, <2>3 DEF Tainted
  <2>5. \A c : ~Rewriting(m, c)
    BY <2>1 DEF Rewriting, AtVectors
  <2> QED
    BY <1>1, <1>2, <1>4, <1>5, <1>6, <1>7, <2>4, <2>5, QuietEarns
<1>13. CASE WorkerDies(w)
  <2>1. runStatus' = runStatus
    BY <1>13 DEF WorkerDies
  <2>2. Tainted(m.run)'
    BY <1>1, <1>3, <1>4, <1>8, <1>9, <2>1, TaintOwn
  <2> QED
    BY <1>1, <1>2, <1>4, <1>5, <1>6, <1>7, <2>2, QuietEarns DEF Owes
<1> QED
  BY <1>11, <1>12, <1>13

(* A page fails: the run cannot succeed any more. *)
LEMMA PageFailsEarned ==
  ASSUME EarnedIInv, FreshIInv', NEW w \in Workers, PageFails(w) PROVE EarnedIInv'
<1>1. PICK m : m = crawler[w]
  OBVIOUS
<1>2. m.phase \notin {"idle", "discover", "finish"}
  BY <1>1 DEF PageFails, InPage
<1>3. /\ CrawlerOK(m) /\ m.run \in Runs /\ Active(w) /\ RunsAreClaimed
      /\ DOMAIN crawler = Workers /\ held \in Held
  BY <1>1, <1>2, AtEarned
<1>4. m.phase \in AtPage /\ m.good \in Nat /\ m.page \in Nat /\ m.good < m.page + 1
      /\ m.good < m.page /\ [m EXCEPT !.good = m.good] = m
  BY <1>2, <1>3 DEF CrawlerOK, CrawlerState, Phases, AtPage, AtChunks
<1>5. PICK n : n = Turned(m)
  OBVIOUS
<1>6. n.phase \in {"page", "finish"} /\ n.run = m.run /\ n.page = m.page + 1 /\ n.good = m.good
  BY <1>3, <1>4, <1>5, TurnedOK
<1>7. Spoilt(n)
  BY <1>4, <1>6 DEF Spoilt
<1>8. crawler' = [crawler EXCEPT ![w] = n] /\ UNCHANGED <<rows, takers, version, target, runStatus>>
  BY <1>1, <1>5 DEF PageFails
<1>9. n = crawler'[w] /\ \A x \in Workers \ {w} : crawler'[x] = crawler[x]
  BY <1>3, <1>8
<1>10. Tainted(m.run)'
  BY <1>1, <1>3, <1>6, <1>7, <1>8, <1>9, TaintOwn
<1>11. Earned(w, n)'
  <2>1. PagesDone(n)'
    BY <1>7 DEF PagesDone, Spoilt
  <2>2. n.phase \notin AtChunks \cup {"items"}
    BY <1>6 DEF AtChunks
  <2>3. ItemsTaken(w, n)' /\ KnownOnes(n)'
    BY <2>2 DEF ItemsTaken, KnownOnes
  <2> QED
    BY <2>1, <2>3 DEF Earned
<1>12. \A y \in Workers \ {w} : HeldStays(y)
  BY <1>3, HeldOthers DEF PageFails
<1> QED
  BY <1>1, <1>2, <1>6, <1>8, <1>10, <1>11, <1>12, QuietEarns DEF Owes

(* A step that stays on the page, or enters the first one. *)
LEMMA PagesStay ==
  ASSUME EarnedIInv, NEW w \in Workers, NEW m, m = crawler[w], m.phase # "idle", Within(w, m.run),
         UNCHANGED rows, HeldStays(w), NEW n, n.run = m.run, n.page = m.page, Spoilt(m) => Spoilt(n),
         \A c \in Chunks : Settled(m.run, c) /\ Current(m, c) => Current(n, c)
  PROVE  PagesDone(n)'
<1>1. /\ CrawlerOK(m) /\ Earned(w, m) /\ m.run \in Runs /\ version \in 1 .. LastVersion
      /\ version' = version
  BY AtEarned DEF Within
<1>2. \A k \in 1 .. m.page - 1 : k \in 1 .. Len(PagesOf[m.run])
  BY <1>1, BeforePages
<1>3. ASSUME ~Spoilt(n), NEW k \in 1 .. n.page - 1 PROVE PageDone(n, k)'
  <2>1. PageDone(m, k) /\ k \in 1 .. Len(PagesOf[m.run])
    BY <1>1, <1>2, <1>3 DEF Earned, PagesDone
  <2>2. ASSUME NEW i \in ItemsOf(m.run, k)
        PROVE  /\ held'[i] = {None}
               /\ \A c \in Expected(i, version) : Settled(m.run, c)' /\ Current(n, c)'
    <3>1. /\ i \in Items /\ held[i] = {None}
          /\ \A c \in Expected(i, version) :
                c \in Chunks /\ IsDue(c) /\ Settled(m.run, c) /\ Current(m, c)
      BY <1>1, <2>1, <2>2, PageItems DEF PageDone
    <3>2. \A c \in Expected(i, version) : Settled(m.run, c)'
      BY <1>1, <3>1, OwnQuiet
    <3> QED
      BY <1>1, <3>1, <3>2 DEF HeldStays, Current
  <2> QED
    BY <1>1, <2>2 DEF PageDone, ItemsOf
<1> QED
  BY <1>3 DEF PagesDone, Spoilt

(* The pages are listed. *)
LEMMA DiscoverEarned ==
  ASSUME EarnedIInv, FreshIInv', NEW w \in Workers, Discover(w) PROVE EarnedIInv'
<1>1. PICK m : m = crawler[w]
  OBVIOUS
<1>2. m.phase = "discover"
  BY <1>1 DEF Discover
<1>3. /\ CrawlerOK(m) /\ m.run \in Runs /\ Active(w) /\ RunsAreClaimed
      /\ DOMAIN crawler = Workers /\ held \in Held
  BY <1>1, <1>2, AtEarned
<1>4. PICK n : n = [m EXCEPT !.phase = "page", !.page = 1]
  OBVIOUS
<1>5. n.phase = "page" /\ n.run = m.run /\ n.page = 1 /\ n.good = m.good /\ n.unindexed = m.unindexed
  BY <1>3, <1>4 DEF CrawlerOK, CrawlerState
<1>6. crawler' = [crawler EXCEPT ![w] = n] /\ UNCHANGED <<rows, takers, version, target, runStatus, held>>
  BY <1>1, <1>4 DEF Discover
<1>7. n = crawler'[w] /\ \A x \in Workers \ {w} : crawler'[x] = crawler[x]
  BY <1>3, <1>6
<1>8. m.page = 0 /\ m.good = 0
  BY <1>2, <1>3 DEF CrawlerOK
<1>9. Spoilt(m) => Spoilt(n)
  BY <1>5, <1>8 DEF Spoilt
<1>10. Tainted(m.run) => Tainted(m.run)'
  BY <1>1, <1>3, <1>5, <1>6, <1>7, <1>9, TaintOwn
<1>11. Earned(w, n)'
  <2>1. 1 .. n.page - 1 = {}
    BY <1>5
  <2>2. n.phase \notin AtChunks \cup {"items"}
    BY <1>5 DEF AtChunks
  <2> QED
    BY <2>1, <2>2 DEF Earned, PagesDone, ItemsTaken, KnownOnes
<1>12. \A y \in Workers \ {w} : HeldStays(y)
  BY <1>3, <1>6, HeldOthers
<1>13. \A c : ~Rewriting(m, c)
  BY <1>2 DEF Rewriting, AtVectors
<1> QED
  BY <1>1, <1>2, <1>5, <1>6, <1>10, <1>11, <1>12, <1>13, QuietEarns

(* A page is read. *)
LEMMA ReadPageEarned ==
  ASSUME EarnedIInv, FreshIInv', NEW w \in Workers, ReadPage(w) PROVE EarnedIInv'
<1>1. PICK m : m = crawler[w]
  OBVIOUS
<1>2. m.phase = "page"
  BY <1>1 DEF ReadPage
<1>3. /\ CrawlerOK(m) /\ m.run \in Runs /\ Active(w) /\ RunsAreClaimed
      /\ DOMAIN crawler = Workers /\ held \in Held
  BY <1>1, <1>2, AtEarned
<1>4. PICK n : n = [m EXCEPT !.phase = "items", !.left = PagesOf[m.run][m.page]]
  OBVIOUS
<1>5. n.phase = "items" /\ n.run = m.run /\ n.page = m.page /\ n.good = m.good
      /\ n.unindexed = m.unindexed /\ n.left = PagesOf[m.run][m.page]
  BY <1>3, <1>4 DEF CrawlerOK, CrawlerState
<1>6. crawler' = [crawler EXCEPT ![w] = n] /\ UNCHANGED <<rows, takers, version, target, runStatus, held>>
  BY <1>1, <1>4 DEF ReadPage
<1>7. n = crawler'[w] /\ \A x \in Workers \ {w} : crawler'[x] = crawler[x]
  BY <1>3, <1>6
<1>8. Spoilt(m) => Spoilt(n)
  BY <1>5 DEF Spoilt
<1>9. Tainted(m.run) => Tainted(m.run)'
  BY <1>1, <1>3, <1>5, <1>6, <1>7, <1>8, TaintOwn
<1>10. ASSUME Within(w, m.run) PROVE Earned(w, n)'
  <2>1. PagesDone(n)'
    BY <1>1, <1>2, <1>5, <1>6, <1>8, <1>10, PagesStay DEF HeldStays, Current
  <2>2. ItemsTaken(w, n)'
    BY <1>5 DEF ItemsTaken, ItemsOf, AtChunks
  <2>3. KnownOnes(n)'
    BY <1>5 DEF KnownOnes, AtChunks
  <2> QED
    BY <2>1, <2>2, <2>3 DEF Earned
<1>11. \A y \in Workers \ {w} : HeldStays(y)
  BY <1>3, <1>6, HeldOthers
<1>12. \A c : ~Rewriting(m, c)
  BY <1>2 DEF Rewriting, AtVectors
<1> QED
  BY <1>1, <1>2, <1>5, <1>6, <1>9, <1>10, <1>11, <1>12, QuietEarns

(* An element of a list is its head or in its tail. *)
LEMMA HeadOrTail ==
  ASSUME NEW S, NEW s \in Seq(S), s # <<>>, NEW i \in ToSet(s)
  PROVE  i = Head(s) \/ i \in ToSet(Tail(s))
<1>1. PICK k \in DOMAIN s : i = s[k]
  BY DEF ToSet
<1>2. k \in 1 .. Len(s)
  BY <1>1
<1>3. CASE k = 1
  BY <1>1, <1>3
<1>4. CASE k # 1
  <2>1. k - 1 \in 1 .. Len(Tail(s)) /\ Tail(s)[k - 1] = s[k]
    BY <1>2, <1>4
  <2>2. k - 1 \in DOMAIN Tail(s)
    BY <2>1
  <2> QED
    BY <1>1, <2>1, <2>2 DEF ToSet
<1> QED
  BY <1>3, <1>4

(* An item is found or inserted. *)
LEMMA NormalizeItemEarned ==
  ASSUME EarnedIInv, FreshIInv', NEW w \in Workers, NormalizeItem(w) PROVE EarnedIInv'
<1>1. PICK m : m = crawler[w]
  OBVIOUS
<1>2. m.phase = "items" /\ m.left # <<>>
  BY <1>1 DEF NormalizeItem
<1>3. /\ CrawlerOK(m) /\ m.run \in Runs /\ Active(w) /\ RunsAreClaimed /\ Earned(w, m)
      /\ DOMAIN crawler = Workers /\ held \in Held /\ version \in 1 .. LastVersion
  BY <1>1, <1>2, AtEarned
<1>4. PICK h : h = Head(m.left)
  OBVIOUS
<1>5. m.left \in Seq(Items) /\ h \in Items
  <2>1. m.left \in Seq(Items)
    BY <1>3 DEF CrawlerOK, CrawlerState
  <2> QED
    BY <1>2, <1>4, <2>1
<1>6. PICK n : n = [m EXCEPT !.left = Tail(m.left)]
  OBVIOUS
<1>7. n.phase = "items" /\ n.run = m.run /\ n.page = m.page /\ n.good = m.good
      /\ n.unindexed = m.unindexed /\ n.left = Tail(m.left)
  BY <1>2, <1>3, <1>6 DEF CrawlerOK, CrawlerState
<1>8. /\ crawler' = [crawler EXCEPT ![w] = n] /\ UNCHANGED <<rows, takers, version, target, runStatus>>
      /\ held' = [held EXCEPT ![h] = IF held[h] = {} THEN {w} ELSE held[h]]
  BY <1>1, <1>4, <1>6 DEF NormalizeItem
<1>9. n = crawler'[w] /\ \A x \in Workers \ {w} : crawler'[x] = crawler[x]
  BY <1>3, <1>8
<1>10. Spoilt(m) => Spoilt(n)
  BY <1>7 DEF Spoilt
<1>11. Tainted(m.run) => Tainted(m.run)'
  BY <1>1, <1>3, <1>7, <1>8, <1>9, <1>10, TaintOwn
<1>12. \A i \in Items : held'[i] = IF i = h /\ held[i] = {} THEN {w} ELSE held[i]
  BY <1>3, <1>5, <1>8 DEF Held
<1>13. \A y : HeldStays(y)
  BY <1>12 DEF HeldStays
<1>14. held'[h] \in {{None}, {w}}
  <2>1. held[h] \in {{}, {None}} \cup {{x} : x \in Workers}
    BY <1>3, <1>5 DEF Held
  <2>2. \A u \in Workers \ {w} : u \notin held[h]
    BY <1>1, <1>2, <1>4 DEF NormalizeItem, Waits
  <2>3. held[h] \in {{}, {None}, {w}}
    BY <2>1, <2>2
  <2> QED
    BY <1>5, <1>12, <2>3
<1>15. ASSUME Within(w, m.run) PROVE Earned(w, n)'
  <2>1. PagesDone(n)'
    BY <1>1, <1>2, <1>7, <1>8, <1>10, <1>13, <1>15, PagesStay DEF Current
  <2>2. ItemsTaken(w, n)'
    <3>1. ASSUME NEW i \in ItemsOf(n.run, n.page) PROVE i \in ToSet(n.left) \/ Taken(w, n, i)'
      <4>1. i \in ToSet(m.left) \/ Taken(w, m, i)
        BY <1>2, <1>3, <1>7, <3>1 DEF Earned, ItemsTaken
      <4>2. i \in Items
        <5>1. m.page \in 1 .. Len(PagesOf[m.run])
          BY <1>2, <1>3 DEF CrawlerOK, AtPage
        <5> QED
          BY <1>3, <1>7, <3>1, <5>1, PageItems
      <4>3. ~(n.phase \in AtVectors) /\ ~(m.phase \in AtVectors)
        BY <1>2, <1>7 DEF AtVectors
      <4>4. CASE i \in ToSet(m.left)
        <5>1. i = h \/ i \in ToSet(n.left)
          BY <1>2, <1>4, <1>5, <1>7, <4>4, HeadOrTail
        <5> QED
          BY <1>14, <4>3, <5>1 DEF Taken
      <4>5. CASE Taken(w, m, i)
        BY <1>13, <4>2, <4>3, <4>5 DEF Taken, HeldStays
      <4> QED
        BY <4>1, <4>4, <4>5
    <3> QED
      BY <1>7, <3>1 DEF ItemsTaken, ItemsOf, AtChunks
  <2>3. KnownOnes(n)'
    BY <1>7 DEF KnownOnes, AtChunks
  <2> QED
    BY <2>1, <2>2, <2>3 DEF Earned
<1>16. \A c : ~Rewriting(m, c)
  BY <1>2 DEF Rewriting, AtVectors
<1> QED
  BY <1>1, <1>2, <1>7, <1>8, <1>11, <1>13, <1>15, <1>16, QuietEarns

(* A due row that needs no indexing is indexed. *)
LEMMA NeedsNothing ==
  ASSUME FreshIInv, NEW c \in Chunks, Present(c), IsDue(c), rows[c].text = version,
         ~RequiresIndexing(rows[c]), NEW r
  PROVE  Settled(r, c)
<1>1. rows[c] \in Row /\ RowOK(rows[c], c)
  BY DEF FreshIInv, TablesOK, RowsOK, Present
<1>2. rows[c].status \in {"pending", "success", "failed", "obsolete"}
  BY <1>1 DEF Row
<1>3. rows[c].status = "success" /\ rows[c].meta.at = target
  BY <1>1, <1>2 DEF RowOK, RequiresIndexing
<1> QED
  BY <1>3 DEF Settled, Reached

(* The items' rows are loaded: those that are not taken need nothing. *)
LEMMA LoadChunksEarned ==
  ASSUME EarnedIInv, FreshIInv', NEW w \in Workers, LoadChunks(w) PROVE EarnedIInv'
<1>1. PICK m : m = crawler[w]
  OBVIOUS
<1>2. m.phase = "items" /\ m.left = <<>>
  BY <1>1 DEF LoadChunks
<1>3. /\ CrawlerOK(m) /\ m.run \in Runs /\ Active(w) /\ RunsAreClaimed /\ Earned(w, m)
      /\ DOMAIN crawler = Workers /\ held \in Held /\ version \in 1 .. LastVersion /\ FreshIInv
  BY <1>1, <1>2, AtEarned
<1>4. PICK items : items = ItemsOf(m.run, m.page)
  OBVIOUS
<1>5. PICK todo : todo = Rewritten(items) \cup Missing(items) \cup Unindexed(items)
  OBVIOUS
<1>6. PICK known : known = todo \cup Surplus(items)
  OBVIOUS
<1>7. PICK n : n = [m EXCEPT !.phase = "chunks", !.todo = todo, !.gone = ObsoletePoints(items),
                        !.base = [c \in known |-> rows[c]],
                        !.mem = [c \in known |-> Reconciled(items)[c]]]
  OBVIOUS
<1>8. /\ crawler' = [crawler EXCEPT ![w] = n]
      /\ UNCHANGED <<rows, takers, version, target, runStatus, held>>
  BY ZenonT(40), <1>1, <1>4, <1>5, <1>6, <1>7 DEF LoadChunks, ItemsOf
<1>9. /\ n.phase = "chunks" /\ n.run = m.run /\ n.page = m.page /\ n.good = m.good
      /\ n.unindexed = m.unindexed /\ n.base = [c \in known |-> rows[c]]
      /\ DOMAIN n.mem = known /\ DOMAIN n.base = known
  BY <1>3, <1>7 DEF CrawlerOK, CrawlerState
<1>10. n = crawler'[w] /\ \A x \in Workers \ {w} : crawler'[x] = crawler[x]
  BY <1>3, <1>8
<1>11. Spoilt(m) => Spoilt(n)
  BY <1>9 DEF Spoilt
<1>12. Tainted(m.run) => Tainted(m.run)'
  BY <1>1, <1>3, <1>8, <1>9, <1>10, <1>11, TaintOwn
<1>13. \A i \in items : i \in Items /\ \A c \in Expected(i, version) : c \in Chunks /\ IsDue(c)
  <2>1. m.page \in 1 .. Len(PagesOf[m.run])
    BY <1>2, <1>3 DEF CrawlerOK, AtPage
  <2> QED
    BY <1>3, <1>4, <2>1, PageItems
<1>14. ASSUME NEW i \in items, NEW c \in Expected(i, version), c \notin known
       PROVE  Settled(m.run, c)
  <2>1. c \in Chunks /\ IsDue(c)
    BY <1>13
  <2>2. Present(c) /\ ~IsStale(rows[c]) /\ ~RequiresIndexing(rows[c])
    BY <1>5, <1>6, <1>14 DEF Rewritten, Missing, Unindexed
  <2>3. rows[c].text = version
    BY <1>3, <2>1, <2>2 DEF IsStale, FreshIInv, RowsOK, RowOK
  <2> QED
    BY <1>3, <2>1, <2>2, <2>3, NeedsNothing
<1>15. ASSUME Within(w, m.run) PROVE Earned(w, n)'
  <2>1. PagesDone(n)'
    <3>1. \A c \in Chunks : Settled(m.run, c) /\ Current(m, c) => Current(n, c)
      BY <1>9 DEF Settled, Current, Present
    <3>2. HeldStays(w)
      BY <1>8 DEF HeldStays
    <3> QED
      BY <1>1, <1>2, <1>8, <1>9, <1>11, <1>15, <3>1, <3>2, PagesStay
  <2>2. ItemsTaken(w, n)'
    <3>1. ASSUME NEW i \in ItemsOf(n.run, n.page)
          PROVE  /\ Taken(w, n, i)'
                 /\ \A c \in Expected(i, version) : c \in DOMAIN n.mem \/ Settled(n.run, c)'
      <4>1. i \in items
        BY <1>4, <1>9, <3>1
      <4>2. i \notin ToSet(m.left)
        BY <1>2 DEF ToSet
      <4>3. Taken(w, m, i)
        BY <1>2, <1>3, <1>4, <4>1, <4>2 DEF Earned, ItemsTaken
      <4>4. Taken(w, n, i)'
        BY <1>2, <1>8, <1>9, <4>3 DEF Taken, AtVectors
      <4>5. ASSUME NEW c \in Expected(i, version), c \notin DOMAIN n.mem PROVE Settled(n.run, c)'
        <5>1. c \in Chunks /\ IsDue(c) /\ Settled(m.run, c)
          BY <1>9, <1>13, <1>14, <4>1, <4>5
        <5> QED
          BY <1>3, <1>8, <1>9, <1>15, <5>1, OwnQuiet
      <4> QED
        BY <4>4, <4>5
    <3> QED
      BY <1>8, <1>9, <3>1 DEF ItemsTaken, ItemsOf
  <2>3. KnownOnes(n)'
    <3>1. ASSUME NEW c \in DOMAIN n.base PROVE StillKnown(n.run, c, n.base[c])'
      BY <1>8, <1>9, <3>1 DEF StillKnown
    <3> QED
      BY <3>1 DEF KnownOnes
  <2> QED
    BY <2>1, <2>2, <2>3 DEF Earned
<1>16. \A c : ~Rewriting(m, c)
  BY <1>2 DEF Rewriting, AtVectors
<1>17. \A y \in Workers \ {w} : HeldStays(y)
  BY <1>3, <1>8, HeldOthers
<1> QED
  BY <1>1, <1>2, <1>8, <1>9, <1>12, <1>15, <1>16, <1>17, QuietEarns

(* Rows that others have inserted are loaded again: those that are let go  *)
(* need nothing.                                                           *)
LEMMA ReloadChunksEarned ==
  ASSUME EarnedIInv, FreshIInv', NEW w \in Workers, ReloadChunks(w) PROVE EarnedIInv'
<1>1. PICK m : m = crawler[w]
  OBVIOUS
<1>2. m.phase = "chunks"
  BY <1>1 DEF ReloadChunks
<1>3. /\ CrawlerOK(m) /\ m.run \in Runs /\ Active(w) /\ RunsAreClaimed /\ Earned(w, m)
      /\ DOMAIN crawler = Workers /\ held \in Held /\ version \in 1 .. LastVersion /\ FreshIInv
  BY <1>1, <1>2, AtEarned
<1>4. MemoryOK(m) /\ DOMAIN m.mem \in SUBSET Chunks /\ DOMAIN m.base = DOMAIN m.mem
  BY <1>1, <1>2, <1>3, AtRows DEF AtChunks, CrawlerOK
<1>5. PICK clashes : clashes = Collisions(w)
  OBVIOUS
<1>6. clashes = {c \in DOMAIN m.base : m.base[c] = None /\ Present(c)}
  BY <1>1, <1>5 DEF Collisions
<1>7. PICK settled : settled = {c \in clashes : ~RequiresIndexing(rows[c])}
  OBVIOUS
<1>8. PICK known : known = DOMAIN m.base \ settled
  OBVIOUS
<1>9. PICK n : n = [m EXCEPT !.todo = m.todo \ settled,
                        !.base = [c \in known |-> IF c \in clashes THEN rows[c] ELSE m.base[c]],
                        !.mem = [c \in known |-> IF c \in clashes THEN rows[c] ELSE m.mem[c]],
                        !.gone = {g \in m.gone : \/ m.mem[g.chunk].status = "obsolete"
                                                 \/ \A c \in clashes : c[1] # g.chunk[1]}]
  OBVIOUS
<1>10. /\ crawler' = [crawler EXCEPT ![w] = n]
       /\ UNCHANGED <<rows, takers, version, target, runStatus, held>>
  BY <1>1, <1>5, <1>7, <1>8, <1>9 DEF ReloadChunks
<1>11. /\ n.phase = "chunks" /\ n.run = m.run /\ n.page = m.page /\ n.good = m.good
       /\ n.unindexed = m.unindexed
       /\ n.base = [c \in known |-> IF c \in clashes THEN rows[c] ELSE m.base[c]]
       /\ DOMAIN n.mem = known /\ DOMAIN n.base = known
  BY <1>2, <1>3, <1>9 DEF CrawlerOK, CrawlerState
<1>12. n = crawler'[w] /\ \A x \in Workers \ {w} : crawler'[x] = crawler[x]
  BY <1>3, <1>10
<1>13. Spoilt(m) => Spoilt(n)
  BY <1>11 DEF Spoilt
<1>14. Tainted(m.run) => Tainted(m.run)'
  BY <1>1, <1>3, <1>10, <1>11, <1>12, <1>13, TaintOwn
<1>15. ASSUME NEW c \in settled, IsDue(c) PROVE Settled(m.run, c)
  <2>1. c \in Chunks /\ m.base[c] = None /\ Present(c) /\ ~RequiresIndexing(rows[c])
    BY <1>4, <1>6, <1>7
  <2>2. KnewOK(c, m.base[c])
    BY <1>4, <1>6, <1>7 DEF MemoryOK
  <2>3. rows[c].text = version
    BY <1>15, <2>1, <2>2 DEF KnewOK
  <2> QED
    BY <1>3, <1>15, <2>1, <2>3, NeedsNothing
<1>16. ASSUME Within(w, m.run) PROVE Earned(w, n)'
  <2>1. PagesDone(n)'
    <3>1. \A c \in Chunks : Settled(m.run, c) /\ Current(m, c) => Current(n, c)
      BY <1>2, <1>8, <1>11 DEF Settled, Current, Present
    <3>2. HeldStays(w)
      BY <1>10 DEF HeldStays
    <3> QED
      BY <1>1, <1>2, <1>10, <1>11, <1>13, <1>16, <3>1, <3>2, PagesStay
  <2>2. ItemsTaken(w, n)'
    <3>1. ASSUME NEW i \in ItemsOf(n.run, n.page)
          PROVE  /\ Taken(w, n, i)'
                 /\ \A c \in Expected(i, version) : c \in DOMAIN n.mem \/ Settled(n.run, c)'
      <4>1. /\ Taken(w, m, i)
            /\ \A c \in Expected(i, version) : c \in DOMAIN m.mem \/ Settled(m.run, c)
        BY <1>2, <1>3, <1>11, <3>1 DEF Earned, ItemsTaken, AtChunks
      <4>2. \A c \in Expected(i, version) : c \in Chunks /\ IsDue(c)
        <5>1. m.page \in 1 .. Len(PagesOf[m.run])
          BY <1>2, <1>3 DEF CrawlerOK, AtPage, AtChunks
        <5> QED
          BY <1>3, <1>11, <3>1, <5>1, PageItems
      <4>3. Taken(w, n, i)'
        BY <1>2, <1>10, <1>11, <4>1 DEF Taken, AtVectors
      <4>4. ASSUME NEW c \in Expected(i, version), c \notin DOMAIN n.mem PROVE Settled(n.run, c)'
        <5>1. Settled(m.run, c)
          BY <1>4, <1>8, <1>11, <1>15, <4>1, <4>2, <4>4
        <5> QED
          BY <1>3, <1>10, <1>11, <1>16, <4>2, <5>1, OwnQuiet
      <4> QED
        BY <4>3, <4>4
    <3> QED
      BY <1>10, <1>11, <3>1 DEF ItemsTaken, ItemsOf
  <2>3. KnownOnes(n)'
    <3>1. ASSUME NEW c \in DOMAIN n.base PROVE StillKnown(n.run, c, n.base[c])'
      <4>1. c \in known /\ c \in DOMAIN m.base /\ c \in Chunks
        BY <1>4, <1>8, <1>11, <3>1
      <4>2. CASE c \in clashes
        <5>1. n.base[c] = rows[c]
          BY <1>11, <4>1, <4>2
        <5> QED
          BY <1>10, <5>1 DEF StillKnown
      <4>3. CASE c \notin clashes
        <5>1. n.base[c] = m.base[c] /\ StillKnown(m.run, c, m.base[c])
          BY <1>2, <1>3, <1>11, <4>1, <4>3 DEF Earned, KnownOnes, AtChunks
        <5> QED
          BY <1>3, <1>10, <1>11, <1>16, <4>1, <5>1, OwnQuiet
      <4> QED
        BY <4>2, <4>3
    <3> QED
      BY <3>1 DEF KnownOnes
  <2> QED
    BY <2>1, <2>2, <2>3 DEF Earned
<1>17. \A c : ~Rewriting(m, c)
  BY <1>2 DEF Rewriting, AtVectors
<1>18. \A y \in Workers \ {w} : HeldStays(y)
  BY <1>3, <1>10, HeldOthers
<1> QED
  BY <1>1, <1>2, <1>10, <1>11, <1>14, <1>16, <1>17, <1>18, QuietEarns

(* The steps between the two commits of a page. *)
LEMMA BetweenCommits ==
  ASSUME EarnedIInv, FreshIInv', NEW w \in Workers, NEW m, m = crawler[w], m.phase \in AtVectors,
         NEW n, crawler' = [crawler EXCEPT ![w] = n],
         UNCHANGED <<rows, takers, version, target, runStatus, held>>,
         n.phase = "vectors", n.run = m.run, n.page = m.page, n.base = m.base,
         DOMAIN n.mem = DOMAIN m.mem, Spoilt(m) => Spoilt(n)
  PROVE  EarnedIInv'
<1>1. m.phase # "idle" /\ m.phase \in AtChunks
  BY DEF AtVectors, AtChunks
<1>2. /\ CrawlerOK(m) /\ m.run \in Runs /\ Active(w) /\ RunsAreClaimed /\ Earned(w, m)
      /\ DOMAIN crawler = Workers /\ held \in Held /\ version \in 1 .. LastVersion /\ FreshIInv
  BY <1>1, AtEarned
<1>3. n = crawler'[w] /\ \A x \in Workers \ {w} : crawler'[x] = crawler[x]
  BY <1>2
<1>4. Tainted(m.run) => Tainted(m.run)'
  BY <1>2, <1>3, TaintOwn
<1>5. ASSUME Within(w, m.run) PROVE Earned(w, n)'
  <2>1. PagesDone(n)'
    BY <1>1, <1>5, PagesStay DEF Current, HeldStays
  <2>2. ItemsTaken(w, n)'
    <3>1. ASSUME NEW i \in ItemsOf(n.run, n.page)
          PROVE  /\ Taken(w, n, i)'
                 /\ \A c \in Expected(i, version) : c \in DOMAIN n.mem \/ Settled(n.run, c)'
      <4>1. /\ Taken(w, m, i)
            /\ \A c \in Expected(i, version) : c \in DOMAIN m.mem \/ Settled(m.run, c)
        BY <1>1, <1>2, <3>1 DEF Earned, ItemsTaken
      <4>2. \A c \in Expected(i, version) : c \in Chunks /\ IsDue(c)
        <5>1. m.page \in 1 .. Len(PagesOf[m.run])
          BY <1>1, <1>2 DEF CrawlerOK, AtPage, AtChunks
        <5> QED
          BY <1>2, <3>1, <5>1, PageItems
      <4>3. Taken(w, n, i)'
        BY <4>1 DEF Taken, AtVectors
      <4> QED
        BY <1>2, <1>5, <4>1, <4>2, <4>3, OwnQuiet
    <3> QED
      BY <3>1 DEF ItemsTaken, ItemsOf
  <2>3. KnownOnes(n)'
    <3>1. ASSUME NEW c \in DOMAIN n.base PROVE StillKnown(n.run, c, n.base[c])'
      <4>1. c \in Chunks /\ StillKnown(m.run, c, m.base[c])
        BY <1>1, <1>2, <3>1 DEF Earned, KnownOnes, CrawlerOK, CrawlerState, Remembered
      <4> QED
        BY <1>2, <1>5, <4>1, OwnQuiet
    <3> QED
      BY <3>1 DEF KnownOnes
  <2> QED
    BY <2>1, <2>2, <2>3 DEF Earned
<1>6. ASSUME NEW c \in Chunks, Rewriting(m, c) PROVE Owes(w, m.run, c)
  BY <1>3, <1>6 DEF Rewriting, Owes, AtVectors
<1>7. \A y \in Workers \ {w} : HeldStays(y)
  BY <1>2, HeldOthers
<1> QED
  BY <1>1, <1>4, <1>5, <1>6, <1>7, QuietEarns

(* The calls to Qdrant. *)
LEMMA VectorsEarned ==
  ASSUME EarnedIInv, FreshIInv', NEW w \in Workers,
         OpenIndex(w) \/ OpenIndexFails(w) \/ DeletePoint(w) \/ UpsertChunk(w)
  PROVE  EarnedIInv'
<1>1. PICK m : m = crawler[w]
  OBVIOUS
<1>2. m.phase \in AtVectors
  BY <1>1 DEF OpenIndex, OpenIndexFails, DeletePoint, UpsertChunk, AtVectors
<1>3. CrawlerOK(m) /\ DOMAIN crawler = Workers
  BY <1>1, <1>2, AtEarned DEF AtVectors
<1>4. m \in CrawlerState
  BY <1>3 DEF CrawlerOK
<1>5. UNCHANGED <<rows, takers, version, target, runStatus, held>>
  BY DEF OpenIndex, OpenIndexFails, DeletePoint, UpsertChunk
<1>6. PICK n : n = crawler'[w]
  OBVIOUS
<1>7. /\ crawler' = [crawler EXCEPT ![w] = n] /\ n.phase = "vectors" /\ n.run = m.run
      /\ n.page = m.page /\ n.base = m.base /\ DOMAIN n.mem = DOMAIN m.mem
      /\ n.good = m.good /\ (m.unindexed => n.unindexed)
  <2>1. CASE OpenIndex(w)
    BY <1>1, <1>3, <1>4, <1>6, <2>1 DEF OpenIndex, CrawlerState
  <2>2. CASE OpenIndexFails(w)
    BY <1>1, <1>3, <1>4, <1>6, <2>2 DEF OpenIndexFails, CrawlerState
  <2>3. CASE DeletePoint(w)
    <3>1. PICK g : g = CHOOSE x \in m.gone : TRUE
      OBVIOUS
    <3>2. PICK self : self = [m EXCEPT !.gone = m.gone \ {g}]
      OBVIOUS
    <3>3. PICK l \in {self, [self EXCEPT !.mem[g.chunk] = Cleaned(self.mem[g.chunk])],
                      [self EXCEPT !.unindexed = TRUE]} :
             crawler' = [crawler EXCEPT ![w] = l]
      BY <1>1, <2>3, <3>1, <3>2 DEF DeletePoint
    <3>4. /\ self.phase = "vectors" /\ self.run = m.run /\ self.page = m.page /\ self.base = m.base
          /\ self.mem = m.mem /\ self.good = m.good /\ self.unindexed = m.unindexed
          /\ DOMAIN self = DOMAIN m
      BY <1>1, <1>4, <2>3, <3>2 DEF DeletePoint, CrawlerState
    <3>5. /\ l.phase = "vectors" /\ l.run = m.run /\ l.page = m.page /\ l.base = m.base
          /\ DOMAIN l.mem = DOMAIN m.mem /\ l.good = m.good /\ (m.unindexed => l.unindexed)
      BY <1>4, <3>3, <3>4 DEF CrawlerState
    <3>6. l = n
      BY <1>3, <1>6, <3>3
    <3> QED
      BY <3>3, <3>5, <3>6
  <2>4. CASE UpsertChunk(w)
    <3>1. PICK c : c = CHOOSE x \in m.todo : TRUE
      OBVIOUS
    <3>2. PICK self : self = [m EXCEPT !.todo = m.todo \ {c}]
      OBVIOUS
    <3>3. PICK yes : yes = [self EXCEPT !.mem[c] = Succeeded(self.mem[c], target)]
      OBVIOUS
    <3>4. PICK no : no = [self EXCEPT !.mem[c] = Failed(self.mem[c]), !.unindexed = TRUE]
      OBVIOUS
    <3>5. crawler' = [crawler EXCEPT ![w] = yes] \/ crawler' = [crawler EXCEPT ![w] = no]
      BY <1>1, <2>4, <3>1, <3>2, <3>3, <3>4 DEF UpsertChunk
    <3>6. /\ self.phase = "vectors" /\ self.run = m.run /\ self.page = m.page /\ self.base = m.base
          /\ self.mem = m.mem /\ self.good = m.good /\ self.unindexed = m.unindexed
          /\ DOMAIN self = DOMAIN m
      BY <1>1, <1>4, <2>4, <3>2 DEF UpsertChunk, CrawlerState
    <3>7. /\ yes.phase = "vectors" /\ yes.run = m.run /\ yes.page = m.page /\ yes.base = m.base
          /\ DOMAIN yes.mem = DOMAIN m.mem /\ yes.good = m.good /\ yes.unindexed = m.unindexed
      BY <1>4, <3>3, <3>6 DEF CrawlerState
    <3>8. /\ no.phase = "vectors" /\ no.run = m.run /\ no.page = m.page /\ no.base = m.base
          /\ DOMAIN no.mem = DOMAIN m.mem /\ no.good = m.good /\ no.unindexed
      BY <1>4, <3>4, <3>6 DEF CrawlerState
    <3>9. CASE crawler' = [crawler EXCEPT ![w] = yes]
      <4>1. n = yes
        BY <1>3, <1>6, <3>9
      <4> QED
        BY <3>7, <3>9, <4>1
    <3>10. CASE crawler' = [crawler EXCEPT ![w] = no]
      <4>1. n = no
        BY <1>3, <1>6, <3>10
      <4> QED
        BY <3>8, <3>10, <4>1
    <3> QED
      BY <3>5, <3>9, <3>10
  <2> QED
    BY <2>1, <2>2, <2>3, <2>4
<1>8. Spoilt(m) => Spoilt(n)
  BY <1>7 DEF Spoilt
<1> QED
  BY <1>1, <1>2, <1>5, <1>7, <1>8, BetweenCommits

(* Commits. *)
LEMMA RowStays ==
  ASSUME NEW w \in Workers, NEW q \in Runs, Within(w, q), NEW c \in Chunks, rows'[c] = rows[c]
  PROVE  /\ Moves(c)
         /\ IsDue(c) /\ Settled(q, c) => Settled(q, c)'
         /\ \A base : StillKnown(q, c, base) => StillKnown(q, c, base)'
         /\ ~Rewriting(crawler[w], c) => RowStep(w, q, c)
<1>1. Moves(c)
  BY DEF Moves, Present
<1>2. UNCHANGED <<version, target>> /\ (IsDue(c)' <=> IsDue(c))
  BY SameDue DEF Within
<1>3. Reached(c) => Reached(c)'
  BY <1>2 DEF Reached
<1>4. Excused(q, c) => Excused(q, c)' \/ Reached(c)'
  BY ExcuseMoves
<1>5. \A base : StillKnown(q, c, base) => StillKnown(q, c, base)'
  BY <1>2, <1>4 DEF StillKnown, Reached
<1>6. ~Rewriting(crawler[w], c) => RowStep(w, q, c)
  BY DEF RowStep
<1> QED
  BY <1>1, <1>3, <1>5, <1>6, OwnRun

(* A commit that changes no column. *)
LEMMA SameRow ==
  ASSUME NEW row \in Row, NEW base \in Row PROVE Merge(row, base, base) = row
<1>1. base # None /\ DOMAIN row = {"text", "meta", "status", "named"}
  BY RowNullAssumption DEF Row
<1>2. Merge(row, base, base) = [col \in DOMAIN row |-> row[col]]
  BY <1>1 DEF Merge
<1> QED
  BY <1>2 DEF Row

(* The first commit of a page: what is due has been renewed, or is as it was. *)
LEMMA FirstCommit ==
  ASSUME EarnedIInv, NEW w \in Workers, CommitChunks(w), NEW m, m = crawler[w]
  PROVE  /\ \A c \in Chunks : Moves(c)
         /\ \A c \in Chunks \ DOMAIN m.mem : rows'[c] = rows[c]
         /\ \A c \in DOMAIN m.mem :
               /\ c \in Chunks
               /\ IsDue(c) =>
                     /\ c \in m.todo
                     /\ \/ Renewed(c, m.base[c], m.mem[c])
                        \/ /\ m.base[c] # None /\ m.mem[c] = m.base[c] /\ rows'[c] = rows[c]
<1>1. FreshIInv /\ m.phase = "chunks"
  BY DEF EarnedIInv, CommitChunks
<1>2. /\ CrawlerOK(m) /\ MemoryOK(m)
      /\ DOMAIN m.mem \in SUBSET Chunks /\ m.mem \in [DOMAIN m.mem -> Row]
      /\ m.base \in [DOMAIN m.mem -> Row \cup {None}]
  BY <1>1, AtRows DEF AtChunks
<1>3. /\ rows' = Stored(m.base, m.mem)
      /\ UNCHANGED <<points, overtaken, emptied, version, target>>
      /\ \A c \in DOMAIN m.base : ~(m.base[c] = None /\ Present(c))
  BY DEF CommitChunks, Collisions
<1>4. ASSUME NEW c \in DOMAIN m.mem
      PROVE  /\ c \in Chunks /\ m.base[c] \in Row \cup {None} /\ m.mem[c] \in Row
             /\ m.base[c] = None => ~Present(c)
             /\ KnewOK(c, m.base[c])
             /\ \/ Renewed(c, m.base[c], m.mem[c])
                \/ Untouched(c, m.base[c], m.mem[c])
                \/ Dropped(c, m.base[c], m.mem[c])
             /\ IsDue(c) => c \in m.todo
  BY <1>1, <1>2, <1>3 DEF MemoryOK
<1>5. \A c \in DOMAIN m.mem :
        LET row == Merge(rows[c], m.base[c], m.mem[c]) IN
        row \in Row /\ RowOK(row, c) /\ Fresh(row, c) /\ MovesTo(c, row)
  <2>1. ASSUME NEW c \in DOMAIN m.mem, NEW row, row = Merge(rows[c], m.base[c], m.mem[c])
        PROVE  row \in Row /\ RowOK(row, c) /\ Fresh(row, c) /\ MovesTo(c, row)
    BY <1>1, <1>4, <2>1, CommitRow
  <2> QED
    BY <2>1
<1>6. /\ \A c \in Chunks : Moves(c)
      /\ \A c \in DOMAIN m.mem : rows'[c] = Merge(rows[c], m.base[c], m.mem[c]) /\ Present(c)'
  BY <1>1, <1>2, <1>3, <1>5, CommittedRows
<1>7. \A c \in Chunks \ DOMAIN m.mem : rows'[c] = rows[c]
  BY <1>3 DEF Stored
<1>8. ASSUME NEW c \in DOMAIN m.mem, IsDue(c), Untouched(c, m.base[c], m.mem[c])
      PROVE  m.base[c] # None /\ m.mem[c] = m.base[c] /\ rows'[c] = rows[c]
  <2>1. m.base[c] # None /\ m.mem[c] = m.base[c] /\ m.base[c] \in Row
    BY <1>4, <1>8 DEF Untouched
  <2>2. rows[c] \in Row
    BY <1>1, <1>4, <2>1 DEF KnewOK, Present, FreshIInv, TablesOK
  <2> QED
    BY <1>6, <2>1, <2>2, SameRow
<1>9. ASSUME NEW c \in DOMAIN m.mem, IsDue(c)
      PROVE  ~Dropped(c, m.base[c], m.mem[c])
  BY <1>9 DEF Dropped
<1> QED
  BY <1>4, <1>6, <1>7, <1>8, <1>9

(* The rows are committed: what is taken from another run is being         *)
(* written.                                                                *)
LEMMA CommitChunksEarned ==
  ASSUME EarnedIInv, FreshIInv', NEW w \in Workers, CommitChunks(w) PROVE EarnedIInv'
<1>1. PICK m : m = crawler[w]
  OBVIOUS
<1>2. m.phase = "chunks"
  BY <1>1 DEF CommitChunks
<1>3. /\ CrawlerOK(m) /\ m.run \in Runs /\ Active(w) /\ RunsAreClaimed /\ Earned(w, m)
      /\ DOMAIN crawler = Workers /\ held \in Held /\ version \in 1 .. LastVersion /\ FreshIInv
      /\ runStatus[m.run] = "running"
      /\ \A y \in Workers \ {w} : Active(y) => crawler[y].run # m.run
  BY <1>1, <1>2, AtEarned
<1>4. /\ m \in CrawlerState /\ m.good \in Nat /\ m.page \in 1 .. Len(PagesOf[m.run])
      /\ m.page \in Nat /\ m.good < m.page /\ DOMAIN m.base = DOMAIN m.mem
  BY <1>2, <1>3, PagesAssumption DEF CrawlerOK, CrawlerState, AtPage, AtChunks
<1>5. /\ \A c \in Chunks : Moves(c)
      /\ \A c \in Chunks \ DOMAIN m.mem : rows'[c] = rows[c]
      /\ \A c \in DOMAIN m.mem :
            /\ c \in Chunks
            /\ IsDue(c) =>
                  /\ c \in m.todo
                  /\ \/ Renewed(c, m.base[c], m.mem[c])
                     \/ /\ m.base[c] # None /\ m.mem[c] = m.base[c] /\ rows'[c] = rows[c]
  BY <1>1, FirstCommit
<1>6. held' = CommittedBy(w) /\ UNCHANGED <<runStatus, version, target>>
  BY DEF CommitChunks
<1>7. \A y \in Workers \ {w} : HeldStays(y)
  BY <1>3, <1>6, HeldOthers
<1>8. \A i \in Items : held[i] \in {{None}, {w}} => held'[i] = {None}
  BY <1>3, <1>6, HeldKept
<1>9. PICK n : n = crawler'[w]
  OBVIOUS
<1>10. \/ /\ m.todo = {} /\ n.phase \in {"page", "finish"} /\ n.run = m.run
          /\ n.page = m.page + 1 /\ n.good = m.good + 1 /\ n.unindexed = m.unindexed
       \/ /\ n.phase = "open" /\ n.run = m.run /\ n.page = m.page /\ n.good = m.good
          /\ n.unindexed = m.unindexed /\ n.base = m.mem /\ n.mem = m.mem
  <2>1. CASE m.todo = {} /\ m.gone = {}
    <3>1. n = Turned([m EXCEPT !.good = m.good + 1])
      BY <1>1, <1>3, <1>9, <2>1 DEF CommitChunks
    <3>2. m.good + 1 \in Nat /\ m.good + 1 < m.page + 1 /\ m.phase \in AtPage
      BY <1>2, <1>4 DEF AtPage, AtChunks
    <3> QED
      BY <1>3, <2>1, <3>1, <3>2, TurnedOK
  <2>2. CASE ~(m.todo = {} /\ m.gone = {})
    <3>1. n = [m EXCEPT !.phase = "open", !.base = m.mem]
      BY <1>1, <1>3, <1>9, <2>2 DEF CommitChunks
    <3> QED
      BY <1>4, <3>1 DEF CrawlerState
  <2> QED
    BY <2>1, <2>2
<1>11. \A x \in Workers \ {w} : crawler'[x] = crawler[x]
  BY <1>3 DEF CommitChunks
<1>12. n.phase # "idle" /\ n.run = m.run /\ (Spoilt(m) <=> Spoilt(n)) /\ n.phase # "chunks"
  BY <1>4, <1>10 DEF Spoilt
<1>13. Tainted(m.run) => Tainted(m.run)'
  BY <1>1, <1>3, <1>6, <1>9, <1>11, <1>12, TaintOwn
<1>25. TakersFollow(m.run)
  BY <1>1, <1>6, HistoryFollows DEF CommitChunks
<1>14. Within(w, m.run)
  BY <1>1, <1>6, <1>9, <1>11, <1>12, <1>13, <1>25 DEF Within, Active
<1>15. \A c : ~Rewriting(m, c)
  BY <1>2 DEF Rewriting, AtVectors
<1>16. ASSUME NEW c \in Chunks PROVE RowStep(w, m.run, c)
  <2>1. CASE rows'[c] = rows[c]
    BY <1>1, <1>3, <1>14, <1>15, <2>1, RowStays
  <2>2. CASE rows'[c] # rows[c] /\ IsDue(c)
    <3>1. c \in DOMAIN m.mem /\ m.todo # {} /\ Renewed(c, m.base[c], m.mem[c])
      BY <1>5, <2>2
    <3>2. n.phase = "open" /\ n.base = m.mem /\ n.run = m.run
      BY <1>10, <3>1
    <3>3. Rewriting(n, c)
      BY <3>1, <3>2 DEF Rewriting, AtVectors, Renewed, NewRow
    <3>4. Owes(w, m.run, c)
      BY <1>9, <3>2, <3>3 DEF Owes
    <3> QED
      BY <3>4 DEF RowStep
  <2>3. CASE ~IsDue(c)
    BY <2>3 DEF RowStep
  <2> QED
    BY <2>1, <2>2, <2>3
<1>17. ASSUME NEW c \in Chunks, IsDue(c), Settled(m.run, c), Current(m, c) \/ c \notin DOMAIN m.mem
       PROVE  Settled(m.run, c)'
  <2>1. rows'[c] = rows[c]
    BY <1>2, <1>4, <1>5, <1>17 DEF Current, Renewed
  <2> QED
    BY <1>3, <1>14, <1>17, <2>1, RowStays
<1>18. \A i \in ItemsOf(m.run, m.page) : i \in Items /\ \A c \in Expected(i, version) : c \in Chunks /\ IsDue(c)
  BY <1>3, <1>4, PageItems
<1>19. \A i \in ItemsOf(m.run, m.page) :
          /\ held[i] \in {{None}, {w}}
          /\ \A c \in Expected(i, version) : c \in DOMAIN m.mem \/ Settled(m.run, c)
  BY <1>2, <1>3 DEF Earned, ItemsTaken, Taken, AtChunks, AtVectors
<1>20. PagesDone(n)'
  <2>1. ASSUME ~Spoilt(n), NEW k \in 1 .. n.page - 1 PROVE PageDone(n, k)'
    <3>1. CASE k = m.page
      <4>1. m.todo = {}
        BY <1>4, <1>10, <2>1, <3>1
      <4>2. ASSUME NEW i \in ItemsOf(m.run, k)
            PROVE  held'[i] = {None} /\ \A c \in Expected(i, version) : Settled(m.run, c)'
        <5>1. held'[i] = {None}
          BY <1>8, <1>18, <1>19, <3>1, <4>2
        <5>2. ASSUME NEW c \in Expected(i, version) PROVE Settled(m.run, c)'
          <6>1. c \in Chunks /\ IsDue(c)
            BY <1>18, <3>1, <4>2
          <6>2. c \notin DOMAIN m.mem
            BY <1>5, <4>1, <6>1
          <6> QED
            BY <1>17, <1>19, <3>1, <4>2, <6>1, <6>2
        <5> QED
          BY <5>1, <5>2
      <4> QED
        BY <1>6, <1>12, <4>2 DEF PageDone, ItemsOf, Current
    <3>2. CASE k # m.page
      <4>1. k \in 1 .. m.page - 1
        BY <1>4, <1>10, <2>1, <3>2
      <4>2. PageDone(m, k) /\ k \in 1 .. Len(PagesOf[m.run])
        <5>1. m.phase # "idle" /\ ~Spoilt(m)
          BY <1>2, <1>12, <2>1
        <5>2. PageDone(m, k)
          BY <1>3, <4>1, <5>1 DEF Earned, PagesDone
        <5> QED
          BY <1>3, <4>1, <5>1, <5>2, BeforePages
      <4>3. ASSUME NEW i \in ItemsOf(m.run, k)
            PROVE  held'[i] = {None} /\ \A c \in Expected(i, version) : Settled(m.run, c)'
        <5>1. /\ i \in Items /\ held[i] = {None}
              /\ \A c \in Expected(i, version) :
                    c \in Chunks /\ IsDue(c) /\ Settled(m.run, c) /\ Current(m, c)
          BY <1>3, <4>2, <4>3, PageItems DEF PageDone
        <5> QED
          BY <1>8, <1>17, <5>1
      <4> QED
        BY <1>6, <1>12, <4>3 DEF PageDone, ItemsOf, Current
    <3> QED
      BY <3>1, <3>2
  <2> QED
    BY <2>1 DEF PagesDone, Spoilt
<1>21. ItemsTaken(w, n)'
  <2>1. CASE n.phase = "open"
    <3>1. n.page = m.page /\ n.mem = m.mem
      BY <1>10, <2>1
    <3>2. ASSUME NEW i \in ItemsOf(m.run, m.page)
          PROVE  /\ Taken(w, n, i)'
                 /\ \A c \in Expected(i, version) : c \in DOMAIN n.mem \/ Settled(m.run, c)'
      <4>1. Taken(w, n, i)'
        BY <1>8, <1>18, <1>19, <2>1 DEF Taken, AtVectors
      <4>2. ASSUME NEW c \in Expected(i, version), c \notin DOMAIN n.mem PROVE Settled(m.run, c)'
        BY <1>17, <1>18, <1>19, <3>1, <4>2
      <4> QED
        BY <4>1, <4>2
    <3> QED
      BY <1>6, <1>12, <2>1, <3>1, <3>2 DEF ItemsTaken, ItemsOf
  <2>2. CASE n.phase # "open"
    <3>1. n.phase \notin AtChunks \cup {"items"}
      BY <1>10, <2>2 DEF AtChunks
    <3> QED
      BY <3>1 DEF ItemsTaken
  <2> QED
    BY <2>1, <2>2
<1>22. KnownOnes(n)'
  <2>1. ASSUME n.phase = "open", NEW c \in DOMAIN n.base PROVE StillKnown(n.run, c, n.base[c])'
    <3>1. n.base = m.mem /\ n.run = m.run /\ c \in DOMAIN m.mem /\ c \in Chunks
      BY <1>5, <1>10, <2>1
    <3>2. CASE IsDue(c) /\ Renewed(c, m.base[c], m.mem[c])
      <4>1. n.base[c].status = "pending" /\ n.base[c].meta.at = None
        BY <3>1, <3>2 DEF Renewed, NewRow
      <4>2. target' # None
        BY <1>3, <1>6, NoTargetAssumption DEF FreshIInv, TablesOK
      <4> QED
        BY <4>1, <4>2 DEF StillKnown
    <3>3. CASE IsDue(c) /\ ~Renewed(c, m.base[c], m.mem[c])
      <4>1. n.base[c] = m.base[c] /\ rows'[c] = rows[c]
        BY <1>5, <3>1, <3>3
      <4>2. StillKnown(m.run, c, m.base[c])
        BY <1>2, <1>3, <1>4, <3>1 DEF Earned, KnownOnes, AtChunks
      <4> QED
        BY <1>3, <1>14, <3>1, <4>1, <4>2, RowStays
    <3>4. CASE ~IsDue(c)
      <4>1. ~IsDue(c)'
        BY <1>6, <3>4, SameDue
      <4> QED
        BY <4>1 DEF StillKnown
    <3> QED
      BY <3>2, <3>3, <3>4
  <2>2. n.phase \in AtChunks => n.phase = "open"
    BY <1>10 DEF AtChunks
  <2> QED
    BY <2>1, <2>2 DEF KnownOnes
<1>23. Earned(w, n)'
  BY <1>20, <1>21, <1>22 DEF Earned
<1>24. runStatus'[m.run] = "running"
  BY <1>3, <1>6
<1> QED
  BY <1>3, <1>5, <1>7, <1>9, <1>14, <1>16, <1>23, <1>24, WorkerEarns

(* The last commit of a page: what Qdrant has taken is recorded. *)
LEMMA SavedRow ==
  ASSUME NEW old \in Row, NEW base \in Row, NEW mem \in Row,
         mem.status = "success", mem.meta.at = target, NEW row, row = Merge(old, base, mem)
  PROVE  /\ old.status = "success" \/ base.status # "success" => row.status = "success"
         /\ old.meta.at = target \/ base.meta.at # target => row.meta.at = target
BY MergeRow

(* The last commit of a page: a due row is indexed, or a vector call has   *)
(* failed.                                                                 *)
LEMMA LastCommit ==
  ASSUME EarnedIInv, NEW w \in Workers, SaveIndex(w), NEW m, m = crawler[w]
  PROVE  /\ \A c \in Chunks : Moves(c)
         /\ \A c \in Chunks \ DOMAIN m.mem : rows'[c] = rows[c]
         /\ \A c \in DOMAIN m.mem :
               /\ c \in Chunks
               /\ IsDue(c) =>
                     /\ Present(c) /\ rows[c].text = version /\ m.base[c] # None
                     /\ \/ m.unindexed
                        \/ /\ rows[c].status = "success" \/ m.base[c].status # "success" =>
                                 rows'[c].status = "success"
                           /\ rows[c].meta.at = target \/ m.base[c].meta.at # target =>
                                 rows'[c].meta.at = target
<1>1. FreshIInv /\ m.phase = "vectors" /\ m.todo = {}
  BY DEF EarnedIInv, SaveIndex
<1>2. /\ CrawlerOK(m) /\ MemoryOK(m)
      /\ DOMAIN m.mem \in SUBSET Chunks /\ m.mem \in [DOMAIN m.mem -> Row]
      /\ m.base \in [DOMAIN m.mem -> Row \cup {None}]
  BY <1>1, AtRows DEF AtChunks
<1>3. rows' = Stored(m.base, m.mem) /\ UNCHANGED <<points, overtaken, emptied, version, target>>
  BY DEF SaveIndex
<1>4. ASSUME NEW c \in DOMAIN m.mem
      PROVE  /\ c \in Chunks /\ m.base[c] \in Row \cup {None} /\ m.mem[c] \in Row
             /\ KnewOK(c, m.base[c]) /\ Kept(c, m.base[c], m.mem[c])
             /\ IsDue(c) => Answered(c, m)
  BY <1>1, <1>2 DEF MemoryOK, AtVectors
<1>5. \A c \in DOMAIN m.mem :
        LET row == Merge(rows[c], m.base[c], m.mem[c]) IN
        row \in Row /\ RowOK(row, c) /\ Fresh(row, c) /\ MovesTo(c, row)
  <2>1. ASSUME NEW c \in DOMAIN m.mem, NEW row, row = Merge(rows[c], m.base[c], m.mem[c])
        PROVE  row \in Row /\ RowOK(row, c) /\ Fresh(row, c) /\ MovesTo(c, row)
    BY <1>1, <1>4, <2>1, SaveRow
  <2> QED
    BY <2>1
<1>6. /\ \A c \in Chunks : Moves(c)
      /\ \A c \in DOMAIN m.mem : rows'[c] = Merge(rows[c], m.base[c], m.mem[c]) /\ Present(c)'
  BY <1>1, <1>2, <1>3, <1>5, CommittedRows
<1>7. \A c \in Chunks \ DOMAIN m.mem : rows'[c] = rows[c]
  BY <1>3 DEF Stored
<1>8. ASSUME NEW c \in DOMAIN m.mem, IsDue(c)
      PROVE  /\ Present(c) /\ rows[c].text = version /\ m.base[c] # None
             /\ \/ m.unindexed
                \/ /\ rows[c].status = "success" \/ m.base[c].status # "success" =>
                         rows'[c].status = "success"
                   /\ rows[c].meta.at = target \/ m.base[c].meta.at # target =>
                         rows'[c].meta.at = target
  <2>1. Present(c) /\ rows[c].text = version
    BY <1>1, <1>2, <1>8, VectorRow DEF AtVectors
  <2>2. m.base[c] # None /\ m.base[c] \in Row /\ m.mem[c] \in Row
    BY <1>4 DEF Kept
  <2>3. rows[c] \in Row
    BY <1>1, <1>4, <2>1 DEF Present, FreshIInv, TablesOK
  <2>4. CASE m.unindexed
    BY <2>1, <2>2, <2>4
  <2>5. CASE m.mem[c].status = "success" /\ m.mem[c].meta.at = target
    <3>1. rows'[c] = Merge(rows[c], m.base[c], m.mem[c])
      BY <1>6
    <3>2. /\ rows[c].status = "success" \/ m.base[c].status # "success" =>
                 rows'[c].status = "success"
          /\ rows[c].meta.at = target \/ m.base[c].meta.at # target =>
                 rows'[c].meta.at = target
      BY <2>2, <2>3, <2>5, <3>1, SavedRow
    <3> QED
      BY <2>1, <2>2, <3>2
  <2> QED
    BY <1>4, <1>8, <2>4, <2>5 DEF Answered
<1> QED
  BY <1>4, <1>6, <1>7, <1>8

(* What Qdrant has answered is committed, and the page is done. *)
LEMMA SaveIndexEarned ==
  ASSUME EarnedIInv, FreshIInv', NEW w \in Workers, SaveIndex(w) PROVE EarnedIInv'
<1>1. PICK m : m = crawler[w]
  OBVIOUS
<1>2. m.phase = "vectors"
  BY <1>1 DEF SaveIndex
<1>3. /\ CrawlerOK(m) /\ m.run \in Runs /\ Active(w) /\ RunsAreClaimed /\ Earned(w, m)
      /\ DOMAIN crawler = Workers /\ held \in Held /\ version \in 1 .. LastVersion /\ FreshIInv
      /\ runStatus[m.run] = "running"
      /\ \A y \in Workers \ {w} : Active(y) => crawler[y].run # m.run
  BY <1>1, <1>2, AtEarned
<1>4. /\ m.good \in Nat /\ m.page \in 1 .. Len(PagesOf[m.run])
      /\ m.page \in Nat /\ m.good < m.page /\ DOMAIN m.base = DOMAIN m.mem
  BY <1>2, <1>3, PagesAssumption DEF CrawlerOK, CrawlerState, AtPage, AtChunks
<1>5. /\ \A c \in Chunks : Moves(c)
      /\ \A c \in Chunks \ DOMAIN m.mem : rows'[c] = rows[c]
      /\ \A c \in DOMAIN m.mem :
            /\ c \in Chunks
            /\ IsDue(c) =>
                  /\ Present(c) /\ rows[c].text = version /\ m.base[c] # None
                  /\ \/ m.unindexed
                     \/ /\ rows[c].status = "success" \/ m.base[c].status # "success" =>
                              rows'[c].status = "success"
                        /\ rows[c].meta.at = target \/ m.base[c].meta.at # target =>
                              rows'[c].meta.at = target
  BY <1>1, LastCommit
<1>6. UNCHANGED <<runStatus, held, version, target>>
  BY DEF SaveIndex
<1>7. \A y \in Workers \ {w} : HeldStays(y)
  BY <1>3, <1>6, HeldOthers
<1>8. PICK n : n = crawler'[w]
  OBVIOUS
<1>9. /\ n.phase \in {"page", "finish"} /\ n.run = m.run
      /\ n.page = m.page + 1 /\ n.good = m.good + 1 /\ n.unindexed = m.unindexed
  <2>1. n = Turned([m EXCEPT !.good = m.good + 1])
    BY <1>1, <1>3, <1>8 DEF SaveIndex
  <2>2. m.good + 1 \in Nat /\ m.good + 1 < m.page + 1 /\ m.phase \in AtPage
    BY <1>2, <1>4 DEF AtPage, AtChunks
  <2> QED
    BY <1>3, <2>1, <2>2, TurnedOK
<1>10. \A x \in Workers \ {w} : crawler'[x] = crawler[x]
  BY <1>3 DEF SaveIndex
<1>11. n.phase # "idle" /\ (Spoilt(m) <=> Spoilt(n)) /\ (m.unindexed => Spoilt(n))
  BY <1>4, <1>9 DEF Spoilt
<1>12. /\ Spoilt(n) => Tainted(m.run)'
       /\ Tainted(m.run) => Tainted(m.run)'
  BY <1>1, <1>3, <1>6, <1>8, <1>9, <1>10, <1>11, TaintOwn
<1>22. TakersFollow(m.run)
  BY <1>1, <1>6, HistoryFollows DEF SaveIndex
<1>13. Within(w, m.run)
  BY <1>1, <1>6, <1>8, <1>9, <1>10, <1>12, <1>22 DEF Within, Active
<1>14. target # None
  BY <1>3, NoTargetAssumption DEF FreshIInv, TablesOK
<1>15. ASSUME NEW c \in Chunks PROVE RowStep(w, m.run, c)
  <2>1. CASE c \notin DOMAIN m.mem
    <3>1. ~Rewriting(m, c) /\ rows'[c] = rows[c]
      BY <1>4, <1>5, <2>1 DEF Rewriting
    <3> QED
      BY <1>1, <1>3, <1>13, <3>1, RowStays
  <2>2. CASE m.unindexed
    BY <1>11, <1>12, <2>2 DEF RowStep, Owes
  <2>3. CASE c \in DOMAIN m.mem /\ ~m.unindexed /\ IsDue(c)
    <3>1. /\ rows[c].status = "success" \/ m.base[c].status # "success" => rows'[c].status = "success"
          /\ rows[c].meta.at = target \/ m.base[c].meta.at # target => rows'[c].meta.at = target
      BY <1>5, <2>3
    <3>2. Rewriting(m, c) => Reached(c)'
      BY <1>6, <1>14, <3>1 DEF Rewriting, Reached
    <3> QED
      BY <1>1, <3>1, <3>2 DEF RowStep
  <2>4. CASE ~IsDue(c)
    BY <2>4 DEF RowStep
  <2> QED
    BY <2>1, <2>2, <2>3, <2>4
<1>16. ASSUME ~m.unindexed, NEW c \in Chunks, IsDue(c), Settled(m.run, c)
       PROVE  Settled(m.run, c)'
  <2>1. CASE c \notin DOMAIN m.mem
    <3>1. rows'[c] = rows[c]
      BY <1>5, <2>1
    <3> QED
      BY <1>3, <1>13, <1>16, <3>1, RowStays
  <2>2. CASE c \in DOMAIN m.mem
    <3>1. Reached(c) => Reached(c)'
      BY <1>5, <1>6, <1>16, <2>2 DEF Reached
    <3> QED
      BY <1>3, <1>5, <1>13, <1>16, <3>1, OwnRun
  <2> QED
    BY <2>1, <2>2
<1>17. ASSUME ~m.unindexed, NEW c \in DOMAIN m.mem, IsDue(c)
       PROVE  Settled(m.run, c)'
  <2>1. c \in Chunks /\ Present(c) /\ rows[c].text = version /\ m.base[c] # None /\ Moves(c)
    BY <1>5, <1>17
  <2>2. Present(c)' /\ rows'[c].text = version'
    BY <1>6, <2>1 DEF Moves
  <2>3. StillKnown(m.run, c, m.base[c])
    BY <1>2, <1>3, <1>4, <1>17 DEF Earned, KnownOnes, AtChunks
  <2>4. Excused(m.run, c) => Excused(m.run, c)' \/ Reached(c)'
    BY <1>3, <1>5, <1>13, <1>17, ExcuseMoves
  <2>5. Reached(c)' \/ Excused(m.run, c)'
    BY <1>5, <1>6, <1>17, <2>1, <2>3, <2>4 DEF StillKnown, Reached
  <2> QED
    BY <2>2, <2>5 DEF Settled
<1>18. PagesDone(n)'
  <2>1. ASSUME ~Spoilt(n), NEW k \in 1 .. n.page - 1 PROVE PageDone(n, k)'
    <3>1. ~m.unindexed /\ k \in 1 .. m.page
      BY <1>4, <1>9, <1>11, <2>1
    <3>2. CASE k = m.page
      <4>1. \A i \in ItemsOf(m.run, m.page) :
               /\ held[i] = {None}
               /\ \A c \in Expected(i, version) : c \in DOMAIN m.mem \/ Settled(m.run, c)
        BY <1>2, <1>3 DEF Earned, ItemsTaken, Taken, AtChunks, AtVectors
      <4>2. \A i \in ItemsOf(m.run, m.page) : \A c \in Expected(i, version) : c \in Chunks /\ IsDue(c)
        BY <1>3, <1>4, PageItems
      <4>3. ASSUME NEW i \in ItemsOf(m.run, k)
            PROVE  held'[i] = {None} /\ \A c \in Expected(i, version) : Settled(m.run, c)'
        BY <1>6, <1>16, <1>17, <3>1, <3>2, <4>1, <4>2, <4>3
      <4> QED
        BY <1>6, <1>9, <4>3 DEF PageDone, ItemsOf, Current
    <3>3. CASE k # m.page
      <4>1. k \in 1 .. m.page - 1
        BY <1>4, <3>1, <3>3
      <4>2. PageDone(m, k) /\ k \in 1 .. Len(PagesOf[m.run])
        <5>1. m.phase # "idle" /\ ~Spoilt(m)
          BY <1>2, <1>11, <2>1
        <5>2. PageDone(m, k)
          BY <1>3, <4>1, <5>1 DEF Earned, PagesDone
        <5> QED
          BY <1>3, <4>1, <5>1, <5>2, BeforePages
      <4>3. ASSUME NEW i \in ItemsOf(m.run, k)
            PROVE  held'[i] = {None} /\ \A c \in Expected(i, version) : Settled(m.run, c)'
        <5>1. /\ held[i] = {None}
              /\ \A c \in Expected(i, version) : c \in Chunks /\ IsDue(c) /\ Settled(m.run, c)
          BY <1>3, <4>2, <4>3, PageItems DEF PageDone
        <5> QED
          BY <1>6, <1>16, <3>1, <5>1
      <4> QED
        BY <1>6, <1>9, <4>3 DEF PageDone, ItemsOf, Current
    <3> QED
      BY <3>2, <3>3
  <2> QED
    BY <2>1 DEF PagesDone, Spoilt
<1>19. ItemsTaken(w, n)' /\ KnownOnes(n)'
  <2>1. n.phase \notin AtChunks \cup {"items"}
    BY <1>9 DEF AtChunks
  <2> QED
    BY <2>1 DEF ItemsTaken, KnownOnes
<1>20. Earned(w, n)'
  BY <1>18, <1>19 DEF Earned
<1>21. runStatus'[m.run] = "running"
  BY <1>3, <1>6
<1> QED
  BY <1>3, <1>5, <1>7, <1>8, <1>13, <1>15, <1>20, <1>21, WorkerEarns

(* A run is claimed. *)
LEMMA ClaimEarned ==
  ASSUME EarnedIInv, FreshIInv', NEW w \in Workers, NEW r \in Runs, Claim(w, r) PROVE EarnedIInv'
<1>1. PICK n : n = [Asleep EXCEPT !.phase = "discover", !.run = r]
  OBVIOUS
<1>2. n.phase = "discover" /\ n.run = r /\ n.page = 0
  BY <1>1 DEF Asleep
<1>3. /\ crawler[w].phase = "idle" /\ runStatus[r] = "queued" /\ crawler' = [crawler EXCEPT ![w] = n]
      /\ runStatus' = [runStatus EXCEPT ![r] = "running"]
      /\ UNCHANGED <<held, rows, takers, version, target>>
  BY <1>1 DEF Claim
<1>4. FreshIInv /\ RunsAreClaimed /\ runStatus \in Statuses /\ held \in Held /\ DOMAIN crawler = Workers
  BY TablesAt DEF EarnedIInv, FreshIInv, TablesOK
<1>5. n = crawler'[w] /\ \A x \in Workers \ {w} : crawler'[x] = crawler[x]
  BY <1>3, <1>4
<1>6. runStatus'[r] = "running" /\ \A p \in Runs \ {r} : runStatus'[p] = runStatus[p]
  BY <1>3, <1>4 DEF Statuses
<1>7. ~Tainted(r) /\ ~Active(w)
  BY <1>3 DEF Tainted, Active
<1>8. Within(w, r)
  BY <1>2, <1>3, <1>5, <1>6, <1>7 DEF Within, Active, TakersFollow
<1>9. \A y \in Workers \ {w} : Active(y) => crawler[y].run # r
  BY <1>3, <1>4 DEF RunsAreClaimed
<1>10. \A c : ~Rewriting(crawler[w], c)
  BY <1>3 DEF Rewriting, AtVectors
<1>11. \A c \in Chunks : Moves(c) /\ RowStep(w, r, c)
  BY <1>3, <1>8, <1>10, RowStays
<1>12. \A y \in Workers \ {w} : HeldStays(y)
  BY <1>3, <1>4, HeldOthers
<1>13. Earned(w, n)'
  <2>1. 1 .. n.page - 1 = {}
    BY <1>2
  <2>2. n.phase \notin AtChunks \cup {"items"}
    BY <1>2 DEF AtChunks
  <2> QED
    BY <2>1, <2>2 DEF Earned, PagesDone, ItemsTaken, KnownOnes
<1> QED
  BY <1>5, <1>6, <1>8, <1>9, <1>11, <1>12, <1>13, WorkerEarns

(* Steps of no worker. *)
LEMMA NobodyMoves ==
  ASSUME EarnedIInv, FreshIInv', UNCHANGED <<crawler, rows, takers, held, version, target>>,
         \A p \in Runs : Tainted(p) => Tainted(p)',
         \A w \in Workers : Active(w) => runStatus'[crawler[w].run] = "running"
  PROVE  EarnedIInv'
<1>1. FreshIInv /\ RunsAreClaimed /\ version \in 1 .. LastVersion
  BY DEF EarnedIInv, FreshIInv, TablesOK
<1>2. RunsAreClaimed'
  BY <1>1 DEF RunsAreClaimed, Active
<1>3. ASSUME NEW r \in Runs, NEW c \in Chunks
      PROVE  /\ Settled(r, c) => Settled(r, c)'
             /\ \A base : StillKnown(r, c, base) => StillKnown(r, c, base)'
  <2>1. Excused(r, c) => Excused(r, c)'
    BY DEF Excused, Takes, Rewriting
  <2>2. IsDue(c)' <=> IsDue(c)
    BY SameDue
  <2>3. Settled(r, c) => Settled(r, c)'
    BY <2>1 DEF Settled, Reached, Present
  <2> QED
    BY <2>1, <2>2, <2>3 DEF StillKnown
<1>4. ASSUME NEW y \in Workers PROVE Earned(y, crawler[y])'
  <2>1. PICK m : m = crawler[y]
    OBVIOUS
  <2>2. CrawlerOK(m) /\ Earned(y, m) /\ m = crawler'[y] /\ (m.phase \in AtChunks => MemoryOK(m))
    BY <1>1, <2>1 DEF EarnedIInv, AllEarned, FreshIInv, TablesOK, MemoriesOK
  <2>3. m.phase # "idle" => m.run \in Runs
    BY <2>2 DEF CrawlerOK
  <2>4. HeldStays(y)
    BY DEF HeldStays
  <2>5. m.phase # "idle" => \A c \in Chunks : IsDue(c) =>
             /\ Settled(m.run, c) => Settled(m.run, c)'
             /\ \A base : base # None /\ Present(c) /\ StillKnown(m.run, c, base) =>
                   StillKnown(m.run, c, base)'
    BY <1>3, <2>3
  <2>6. Earned(y, m)'
    BY <1>1, <2>2, <2>4, <2>5, KeepsEarned
  <2> QED
    BY <2>2, <2>6
<1> QED
  BY <1>2, <1>4 DEF EarnedIInv, AllEarned

(* A run is queued. *)
LEMMA TriggerEarned ==
  ASSUME EarnedIInv, FreshIInv', NEW r \in Runs, Trigger(r) PROVE EarnedIInv'
<1>1. /\ runStatus[r] = "absent" /\ runStatus' = [runStatus EXCEPT ![r] = "queued"]
      /\ UNCHANGED <<crawler, rows, takers, held, version, target>>
  BY DEF Trigger
<1>2. runStatus \in Statuses /\ RunsAreClaimed
  BY TablesAt DEF EarnedIInv
<1>3. \A p \in Runs \ {r} : runStatus'[p] = runStatus[p]
  BY <1>1, <1>2 DEF Statuses
<1>4. ~Tainted(r)
  BY <1>1 DEF Tainted
<1>5. ASSUME NEW p \in Runs, Tainted(p) PROVE Tainted(p)'
  <2>1. runStatus'[p] = runStatus[p]
    BY <1>3, <1>4, <1>5
  <2> QED
    BY <1>1, <1>5, <2>1 DEF Tainted, Active, Spoilt
<1>6. ASSUME NEW w \in Workers, Active(w) PROVE runStatus'[crawler[w].run] = "running"
  <2>1. runStatus[crawler[w].run] = "running" /\ crawler[w].run \in Runs
    BY <1>2, <1>6, AtWork DEF RunsAreClaimed, Active, EarnedIInv
  <2> QED
    BY <1>1, <1>3, <2>1
<1> QED
  BY <1>1, <1>5, <1>6, NobodyMoves

(* A step that changes nothing. *)
LEMMA StutterEarned == ASSUME EarnedIInv, FreshIInv', UNCHANGED indexVars PROVE EarnedIInv'
<1>1. UNCHANGED <<crawler, rows, takers, held, version, target, runStatus>>
  BY DEF indexVars
<1>2. \A p \in Runs : Tainted(p) => Tainted(p)'
  BY <1>1 DEF Tainted, Active, Spoilt
<1>3. \A w \in Workers : Active(w) => runStatus'[crawler[w].run] = "running"
  BY <1>1 DEF EarnedIInv, RunsAreClaimed
<1> QED
  BY <1>1, <1>2, <1>3, NobodyMoves

(* While all workers are idle there is nothing to earn. *)
LEMMA AllIdle ==
  ASSUME \A w \in Workers : crawler[w].phase = "idle" PROVE RunsAreClaimed /\ AllEarned
BY DEF RunsAreClaimed, Active, AllEarned, Earned, PagesDone, ItemsTaken, KnownOnes, AtChunks

(* The operator's steps are taken while all workers are idle. *)
LEMMA OperatorEarned ==
  ASSUME EarnedIInv, FreshIInv',
         \/ \E v \in 1 .. LastVersion, t \in Targets : Reconfigure(v, t)
         \/ \E reset \in BOOLEAN : StartRebuild(reset)
         \/ RebuildChunk \/ FinishRebuild \/ RebuildDies
  PROVE  EarnedIInv'
<1>1. crawler' = crawler
  BY DEF Reconfigure, StartRebuild, RebuildChunk, FinishRebuild, RebuildDies
<1>2. \A w \in Workers : crawler[w].phase = "idle"
  BY DEF Reconfigure, StartRebuild, RebuildChunk, FinishRebuild, RebuildDies, Quiet, EarnedIInv,
         FreshIInv, RebuildsAlone
<1>3. (RunsAreClaimed /\ AllEarned)'
  <2>1. (\A w \in Workers : crawler[w].phase = "idle")'
    BY <1>1, <1>2
  <2> QED
    BY <2>1, AllIdle, PTL
<1> QED
  BY <1>3 DEF EarnedIInv

(* Every step keeps what the runs have earned. *)
LEMMA NextEarned == ASSUME EarnedIInv, [IndexNext]_indexVars PROVE EarnedIInv'
<1>1. FreshIInv'
  BY NextFresh DEF EarnedIInv
<1>2. CASE \E r \in Runs : Trigger(r)
  BY <1>1, <1>2, TriggerEarned
<1>3. ASSUME NEW w \in Workers,
             (\E r \in Runs : Claim(w, r)) \/ WorkerStep(w) \/ PageFails(w) \/ WorkerDies(w)
      PROVE  EarnedIInv'
  <2>1. CASE \E r \in Runs : Claim(w, r)
    BY <1>1, <2>1, ClaimEarned
  <2>2. CASE MarkRunFailed(w) \/ FinishRun(w) \/ WorkerDies(w)
    BY <1>1, <2>2, StopsEarned
  <2>3. CASE Discover(w)
    BY <1>1, <2>3, DiscoverEarned
  <2>4. CASE ReadPage(w)
    BY <1>1, <2>4, ReadPageEarned
  <2>5. CASE NormalizeItem(w)
    BY <1>1, <2>5, NormalizeItemEarned
  <2>6. CASE LoadChunks(w)
    BY <1>1, <2>6, LoadChunksEarned
  <2>7. CASE ReloadChunks(w)
    BY <1>1, <2>7, ReloadChunksEarned
  <2>8. CASE CommitChunks(w)
    BY <1>1, <2>8, CommitChunksEarned
  <2>9. CASE OpenIndex(w) \/ OpenIndexFails(w) \/ DeletePoint(w) \/ UpsertChunk(w)
    BY <1>1, <2>9, VectorsEarned
  <2>10. CASE SaveIndex(w)
    BY <1>1, <2>10, SaveIndexEarned
  <2>11. CASE PageFails(w) \/ BreakDeadlock(w)
    BY <1>1, <2>11, PageFailsEarned DEF BreakDeadlock
  <2> QED
    BY <1>3, <2>1, <2>2, <2>3, <2>4, <2>5, <2>6, <2>7, <2>8, <2>9, <2>10, <2>11 DEF WorkerStep
<1>4. CASE \/ \E v \in 1 .. LastVersion, t \in Targets : Reconfigure(v, t)
           \/ \E reset \in BOOLEAN : StartRebuild(reset)
           \/ RebuildChunk \/ FinishRebuild \/ RebuildDies
  BY <1>1, <1>4, OperatorEarned
<1>5. CASE UNCHANGED indexVars
  BY <1>1, <1>5, StutterEarned
<1> QED
  BY <1>2, <1>3, <1>4, <1>5 DEF IndexNext

(* In every state, what a run has done is indexed, or another run has taken *)
(* it and has yet to write it or cannot succeed any more.                  *)
THEOREM EarnedInductive == IndexSpec => []EarnedIInv
<1>1. IndexInit => EarnedIInv
  <2> SUFFICES ASSUME IndexInit PROVE EarnedIInv
    OBVIOUS
  <2>1. \A w \in Workers : crawler[w].phase = "idle"
    BY DEF IndexInit, Asleep
  <2> QED
    BY <2>1, InitFresh, AllIdle DEF EarnedIInv
<1>2. EarnedIInv /\ [IndexNext]_indexVars => EarnedIInv'
  BY NextEarned
<1> QED
  BY <1>1, <1>2, PTL DEF IndexSpec
-----------------------------------------------------------------------------
EarnsSuccess ==
    \A r \in Runs : runStatus'[r] = "success" /\ runStatus[r] # "success" =>
         \A i \in UNION {ToSet(p) : p \in ToSet(PagesOf[r])} :
            /\ held[i] = {None}
            /\ \A c \in Expected(i, version) :
                 \/ Indexed(rows[c])
                 \/ /\ Present(c)
                    /\ \E q \in takers[r][c] \ {r} :
                          runStatus[q] \in {"running", "partial", "failed"}

(* Only the end of a run with that verdict sets success. *)
LEMMA StatusesChange ==
  ASSUME runStatus \in Statuses, [IndexNext]_indexVars, NEW r \in Runs,
         runStatus'[r] = "success", runStatus[r] # "success"
  PROVE  \E w \in Workers : FinishRun(w) /\ crawler[w].run = r /\ Verdict(crawler[w]) = "success"
<1>1. runStatus' # runStatus
  OBVIOUS
<1>2. ASSUME NEW p \in Runs, Trigger(p) PROVE FALSE
  BY <1>2 DEF Trigger, Statuses
<1>3. ASSUME NEW w \in Workers, NEW p \in Runs, Claim(w, p) PROVE FALSE
  BY <1>3 DEF Claim, Statuses
<1>4. ASSUME NEW w \in Workers, MarkRunFailed(w) PROVE FALSE
  BY <1>4 DEF MarkRunFailed, Statuses
<1>5. ASSUME NEW w \in Workers, FinishRun(w)
      PROVE  crawler[w].run = r /\ Verdict(crawler[w]) = "success"
  BY <1>5 DEF FinishRun, Statuses
<1>6. ASSUME NEW w \in Workers,
             \/ Discover(w) \/ ReadPage(w) \/ NormalizeItem(w) \/ LoadChunks(w) \/ ReloadChunks(w)
             \/ CommitChunks(w) \/ OpenIndexFails(w) \/ OpenIndex(w) \/ DeletePoint(w)
             \/ UpsertChunk(w) \/ SaveIndex(w) \/ BreakDeadlock(w) \/ PageFails(w) \/ WorkerDies(w)
      PROVE  runStatus' = runStatus
  BY <1>6 DEF Discover, ReadPage, NormalizeItem, LoadChunks, ReloadChunks, CommitChunks,
              OpenIndexFails, OpenIndex, DeletePoint, UpsertChunk, SaveIndex, BreakDeadlock,
              PageFails, WorkerDies
<1>7. ASSUME \/ \E v \in 1 .. LastVersion, t \in Targets : Reconfigure(v, t)
             \/ \E reset \in BOOLEAN : StartRebuild(reset)
             \/ RebuildChunk \/ FinishRebuild \/ RebuildDies
      PROVE  runStatus' = runStatus
  BY <1>7 DEF Reconfigure, StartRebuild, RebuildChunk, FinishRebuild, RebuildDies
<1>8. UNCHANGED indexVars => runStatus' = runStatus
  BY DEF indexVars
<1> QED
  BY <1>1, <1>2, <1>3, <1>4, <1>5, <1>6, <1>7, <1>8 DEF IndexNext, WorkerStep

(* An item of a run is on one of its pages. *)
LEMMA ItemsOfPages ==
  ASSUME NEW r \in Runs, NEW i \in UNION {ToSet(p) : p \in ToSet(PagesOf[r])}
  PROVE  \E k \in 1 .. Len(PagesOf[r]) : i \in ItemsOf(r, k)
<1>1. PICK p \in ToSet(PagesOf[r]) : i \in ToSet(p)
  OBVIOUS
<1>2. PagesOf[r] \in Seq(Seq(Items))
  BY PagesAssumption
<1>3. PICK k \in 1 .. Len(PagesOf[r]) : p = PagesOf[r][k]
  BY <1>1, <1>2 DEF ToSet
<1> QED
  BY <1>1, <1>3 DEF ItemsOf

(* A run that ends in success has all its pages done. *)
LEMMA EarnsStep == ASSUME EarnedIInv, [IndexNext]_indexVars PROVE EarnsSuccess
<1>1. ASSUME NEW r \in Runs, runStatus'[r] = "success", runStatus[r] # "success",
             NEW i \in UNION {ToSet(p) : p \in ToSet(PagesOf[r])}
      PROVE  /\ held[i] = {None}
             /\ \A c \in Expected(i, version) :
                  \/ Indexed(rows[c])
                  \/ /\ Present(c)
                     /\ \E q \in takers[r][c] \ {r} :
                           runStatus[q] \in {"running", "partial", "failed"}
  <2>1. PICK w \in Workers :
              FinishRun(w) /\ crawler[w].run = r /\ Verdict(crawler[w]) = "success"
    BY <1>1, StatusesChange, TablesAt DEF EarnedIInv
  <2>2. PICK m : m = crawler[w]
    OBVIOUS
  <2>3. m.phase = "finish" /\ m.run = r /\ Verdict(m) = "success" /\ m.phase # "idle"
    BY <2>1, <2>2 DEF FinishRun
  <2>4. CrawlerOK(m) /\ Earned(w, m)
    BY <2>2, <2>3, AtEarned
  <2>5. /\ Len(PagesOf[r]) \in Nat /\ m.page = Len(PagesOf[r]) + 1
        /\ m.good = Len(PagesOf[r]) /\ ~m.unindexed
    BY <2>3, <2>4, PagesAssumption DEF CrawlerOK, Verdict
  <2>6. ~Spoilt(m)
    BY <2>5 DEF Spoilt
  <2>7. PICK k \in 1 .. Len(PagesOf[r]) : i \in ItemsOf(r, k)
    BY <1>1, ItemsOfPages
  <2>8. PageDone(m, k)
    BY <2>3, <2>4, <2>5, <2>6, <2>7 DEF Earned, PagesDone
  <2>9. held[i] = {None} /\ \A c \in Expected(i, version) : Settled(r, c)
    BY <2>3, <2>7, <2>8 DEF PageDone
  <2>10. ASSUME NEW c, Excused(r, c)
         PROVE  \E q \in takers[r][c] \ {r} : runStatus[q] \in {"running", "partial", "failed"}
    <3>1. PICK q \in Runs \ {r} : q \in takers[r][c] /\ Takes(q, c)
      BY <2>10 DEF Excused
    <3>2. CASE Tainted(q)
      BY <3>1, <3>2 DEF Tainted
    <3>3. ASSUME NEW x \in Workers, crawler[x].run = q, Rewriting(crawler[x], c)
          PROVE  runStatus[q] = "running"
      <4>1. crawler[x].phase # "idle"
        BY <3>3 DEF Rewriting, AtVectors
      <4> QED
        BY <3>3, <4>1, AtEarned
    <3> QED
      BY <3>1, <3>2, <3>3 DEF Takes
  <2> QED
    BY <2>9, <2>10 DEF Settled, Reached, Indexed, Present
<1> QED
  BY <1>1 DEF EarnsSuccess

(* The history names runs. *)
TakersOK == takers \in [Runs -> [Chunks -> SUBSET Runs]]
LEMMA TakersTyped == ASSUME TakersOK, EarnedIInv, [IndexNext]_indexVars PROVE TakersOK'
<1>1. ASSUME NEW w \in Workers, CommitChunks(w) \/ SaveIndex(w) PROVE TakersOK'
  <2>1. PICK q, new : q = crawler[w].run /\ takers' = TakenBy(q, new)
    BY <1>1 DEF CommitChunks, SaveIndex
  <2>2. q \in Runs
    <3>1. crawler[w].phase # "idle"
      BY <1>1 DEF CommitChunks, SaveIndex
    <3> QED
      BY <2>1, <3>1, AtEarned
  <2>3. \A r \in Runs, c \in Chunks : takers[r][c] \in SUBSET Runs
    BY DEF TakersOK
  <2>4. ASSUME NEW r \in Runs, NEW c \in Chunks
        PROVE  (IF runStatus[r] # "running" THEN takers[r][c]
                ELSE IF Indexed(new[c]) THEN {}
                ELSE IF new[c] # rows[c] THEN takers[r][c] \cup {q} ELSE takers[r][c])
               \in SUBSET Runs
    BY <2>2, <2>3
  <2> QED
    BY <2>1, <2>4 DEF TakersOK, TakenBy
<1>2. ASSUME NEW w \in Workers,
             \/ MarkRunFailed(w) \/ Discover(w) \/ ReadPage(w) \/ NormalizeItem(w)
             \/ LoadChunks(w) \/ ReloadChunks(w) \/ OpenIndexFails(w) \/ OpenIndex(w)
             \/ DeletePoint(w) \/ UpsertChunk(w) \/ BreakDeadlock(w) \/ FinishRun(w)
             \/ PageFails(w) \/ WorkerDies(w) \/ \E r \in Runs : Claim(w, r)
      PROVE  takers' = takers
  BY <1>2 DEF MarkRunFailed, Discover, ReadPage, NormalizeItem, LoadChunks, ReloadChunks,
              OpenIndexFails, OpenIndex, DeletePoint, UpsertChunk, BreakDeadlock, FinishRun,
              PageFails, WorkerDies, Claim
<1>3. ASSUME \/ \E r \in Runs : Trigger(r)
             \/ \E v \in 1 .. LastVersion, t \in Targets : Reconfigure(v, t)
             \/ \E reset \in BOOLEAN : StartRebuild(reset)
             \/ RebuildChunk \/ FinishRebuild \/ RebuildDies \/ UNCHANGED indexVars
      PROVE  takers' = takers
  BY <1>3 DEF Trigger, Reconfigure, StartRebuild, RebuildChunk, FinishRebuild, RebuildDies, indexVars
<1> QED
  BY <1>1, <1>2, <1>3 DEF IndexNext, WorkerStep, TakersOK

(* Success means indexed: for a row as long as it says so, and for a run   *)
(* at the moment it ends, but for the chunks that another run has taken    *)
(* from it meanwhile and not indexed.                                      *)
THEOREM SuccessTrue == IndexSpec => SuccessIsTrue
<1>1. FreshIInv /\ TakersOK => IndexTypeOK /\ SuccessIsFresh
  <2> SUFFICES ASSUME FreshIInv, TakersOK PROVE IndexTypeOK /\ SuccessIsFresh
    OBVIOUS
  <2>1. IndexTypeOK
    BY DEF FreshIInv, TablesOK, TakersOK, IndexTypeOK, CrawlerOK, CrawlerState
  <2>2. SuccessIsFresh
    BY DEF FreshIInv, RowsOK, Fresh, SuccessIsFresh
  <2> QED
    BY <2>1, <2>2
<1>2. EarnedIInv => FreshIInv
  BY DEF EarnedIInv
<1>3. EarnedIInv /\ [IndexNext]_indexVars => EarnsSuccess
  BY EarnsStep
<1>4. EarnsSuccess => [EarnsSuccess]_indexVars
  OBVIOUS
<1>5. SuccessIsEarned <=> [][EarnsSuccess]_indexVars
  BY DEF SuccessIsEarned, EarnsSuccess
<1>8. IndexInit => TakersOK
  BY DEF IndexInit, TakersOK
<1>9. TakersOK /\ EarnedIInv /\ [IndexNext]_indexVars => TakersOK'
  BY TakersTyped
<1>10. IndexSpec => []TakersOK
  BY <1>8, <1>9, EarnedInductive, PTL DEF IndexSpec
<1>6. IndexSpec => [](IndexTypeOK /\ SuccessIsFresh)
  BY <1>1, <1>2, <1>10, EarnedInductive, PTL
<1>7. IndexSpec => [][EarnsSuccess]_indexVars
  BY <1>3, EarnedInductive, PTL DEF IndexSpec
<1> QED
  BY <1>5, <1>6, <1>7 DEF SuccessIsTrue

-----------------------------------------------------------------------------
(* What an answer is made of.                                              *)

LEMMA SeqOfSet ==
  ASSUME NEW S, IsFiniteSet(S)
  PROVE  SetToSeq(S) \in [1 .. Cardinality(S) -> S] /\ Cardinality(S) \in Nat
<1>1. Cardinality(S) \in Nat /\ \E f \in [1 .. Cardinality(S) -> S] : IsInjective(f)
  BY FS_CardinalityType DEF ExistsBijection, Bijection, Injection
<1> QED
  BY <1>1 DEF SetToSeq

LEMMA Appended ==
  ASSUME NEW S, NEW q \in Seq(S), NEW x \in S, NEW r, r = Append(q, x)
  PROVE  /\ r \in Seq(S) /\ Len(q) \in Nat /\ DOMAIN q = 1 .. Len(q) /\ DOMAIN r = 1 .. Len(q) + 1
         /\ r[Len(q) + 1] = x /\ \A i \in DOMAIN q : i \in DOMAIN r /\ r[i] = q[i]
<1> DEFINE n == Len(q)
<1>1. n \in Nat /\ DOMAIN q = 1 .. n
  OBVIOUS
<1>2. r \in Seq(S) /\ Len(r) = n + 1 /\ (\A i \in 1 .. n : r[i] = q[i]) /\ r[n + 1] = x
  BY AppendProperties
<1>3. DOMAIN r = 1 .. Len(r)
  BY <1>2
<1> HIDE DEF n
<1>4. \A i \in 1 .. n : i \in 1 .. n + 1
  BY <1>1
<1> QED
  BY <1>1, <1>2, <1>3, <1>4 DEF n

-----------------------------------------------------------------------------
(* Lists of hits: sorting.                                                 *)

Ahead(s, key, i, j) == key[s[i]] > key[s[j]] \/ (key[s[i]] = key[s[j]] /\ i < j)
Before(s, key, i) == {j \in DOMAIN s : Ahead(s, key, j, i)}

(* How many come before an element is its place. *)
LEMMA Places ==
  ASSUME NEW s, NEW n \in Nat, DOMAIN s = 1 .. n, NEW key, \A i \in 1 .. n : key[s[i]] \in Int
  PROVE  /\ \A i \in 1 .. n : Cardinality(Before(s, key, i)) \in 0 .. n - 1
         /\ \A i, j \in 1 .. n : Ahead(s, key, i, j) =>
               Cardinality(Before(s, key, i)) < Cardinality(Before(s, key, j))
<1>1. IsFiniteSet(1 .. n) /\ Cardinality(1 .. n) = n
  BY FS_Interval
<1>2. ASSUME NEW i \in 1 .. n
      PROVE  /\ Before(s, key, i) \subseteq 1 .. n /\ IsFiniteSet(Before(s, key, i))
             /\ Cardinality(Before(s, key, i)) \in Nat
  <2>1. Before(s, key, i) \in SUBSET (1 .. n)
    BY DEF Before
  <2> QED
    BY <1>1, <2>1, FS_Subset, FS_CardinalityType
<1>3. ASSUME NEW i \in 1 .. n PROVE Cardinality(Before(s, key, i)) \in 0 .. n - 1
  <2>1. i \notin Before(s, key, i)
    BY DEF Before, Ahead
  <2>2. Before(s, key, i) \in SUBSET (1 .. n) /\ Before(s, key, i) # 1 .. n
    BY <1>2, <2>1
  <2>3. Cardinality(Before(s, key, i)) <= n /\ Cardinality(Before(s, key, i)) # n
    BY <1>1, <2>2, FS_Subset
  <2> QED
    BY <1>2, <2>3
<1>4. ASSUME NEW i \in 1 .. n, NEW j \in 1 .. n, Ahead(s, key, i, j)
      PROVE  Cardinality(Before(s, key, i)) < Cardinality(Before(s, key, j))
  <2>1. i \in Before(s, key, j) /\ i \notin Before(s, key, i)
    BY <1>4 DEF Before, Ahead
  <2>2. \A k \in 1 .. n : Ahead(s, key, k, i) => Ahead(s, key, k, j)
    BY <1>4 DEF Ahead
  <2>3. Before(s, key, i) \in SUBSET Before(s, key, j)
    BY <2>2 DEF Before
  <2>4. IsFiniteSet(Before(s, key, j)) /\ Before(s, key, j) # Before(s, key, i)
    BY <1>2, <2>1
  <2>5. /\ Cardinality(Before(s, key, i)) <= Cardinality(Before(s, key, j))
        /\ Cardinality(Before(s, key, i)) # Cardinality(Before(s, key, j))
    BY <2>3, <2>4, FS_Subset
  <2> QED
    BY <1>2, <2>5
<1> QED
  BY <1>3, <1>4

(* Each place is taken, so that sorting is a permutation. *)
Permutes(f, s, key, n) ==
  /\ f \in [1 .. n -> 1 .. n]
  /\ \A i \in 1 .. n : \E k \in 1 .. n : f[k] = i
  /\ \A k, m \in 1 .. n : k < m => Ahead(s, key, f[k], f[m])
  /\ SortedBy(s, key) = [k \in 1 .. n |-> s[f[k]]]

LEMMA SortedPermutes ==
  ASSUME NEW s, NEW n \in Nat, DOMAIN s = 1 .. n, NEW key, \A i \in 1 .. n : key[s[i]] \in Int
  PROVE  \E f : Permutes(f, s, key, n)
<1> DEFINE rank(i) == Cardinality(Before(s, key, i))
           g == [i \in 1 .. n |-> rank(i) + 1]
           f == [k \in 1 .. n |-> CHOOSE i \in 1 .. n : rank(i) = k - 1]
<1>1. /\ \A i \in 1 .. n : rank(i) \in 0 .. n - 1
      /\ \A i, j \in 1 .. n : Ahead(s, key, i, j) => rank(i) < rank(j)
  BY Places
<1>2. \A i, j \in 1 .. n : i # j => Ahead(s, key, i, j) \/ Ahead(s, key, j, i)
  BY DEF Ahead
<1>3. SortedBy(s, key) = [k \in 1 .. n |-> s[f[k]]]
  BY DEF SortedBy, Before, Ahead
<1> HIDE DEF rank
<1>4. \A i, j \in 1 .. n : i # j => rank(i) # rank(j)
  BY <1>1, <1>2
<1>5. \A k \in 1 .. n : \E i \in 1 .. n : rank(i) = k - 1
  <2>1. g \in [1 .. n -> 1 .. n]
    BY <1>1
  <2>2. \A i, j \in 1 .. n : g[i] = g[j] => i = j
    BY <1>1, <1>4
  <2>3. g \in Injection(1 .. n, 1 .. n)
    BY <2>1, <2>2 DEF Injection, IsInjective
  <2>4. IsFiniteSet(1 .. n)
    BY FS_Interval
  <2>5. g \in Surjection(1 .. n, 1 .. n)
    <3> HIDE DEF g
    <3> QED
      BY <2>3, <2>4, FS_Injection
  <2>6. \A k \in 1 .. n : \E i \in 1 .. n : g[i] = k
    BY <2>5 DEF Surjection
  <2> SUFFICES ASSUME NEW k \in 1 .. n PROVE \E i \in 1 .. n : rank(i) = k - 1
    OBVIOUS
  <2>7. PICK i \in 1 .. n : g[i] = k
    BY <2>6
  <2>8. rank(i) + 1 = k /\ rank(i) \in Int
    BY <1>1, <2>7
  <2> QED
    BY <2>8
<1>6. \A k \in 1 .. n : f[k] \in 1 .. n /\ rank(f[k]) = k - 1
  BY <1>5
<1> HIDE DEF f
<1>7. f \in [1 .. n -> 1 .. n]
  BY <1>6 DEF f
<1>8. ASSUME NEW i \in 1 .. n PROVE \E k \in 1 .. n : f[k] = i
  <2>1. PICK k \in 1 .. n : k = rank(i) + 1
    BY <1>1
  <2>2. rank(f[k]) = rank(i)
    BY <1>1, <1>6, <2>1
  <2> QED
    BY <1>4, <1>6, <2>2
<1>9. ASSUME NEW k \in 1 .. n, NEW m \in 1 .. n, k < m PROVE Ahead(s, key, f[k], f[m])
  <2>1. rank(f[k]) < rank(f[m]) /\ f[k] \in 1 .. n /\ f[m] \in 1 .. n
    BY <1>6, <1>9
  <2>2. rank(f[k]) \in Int /\ rank(f[m]) \in Int
    BY <1>1, <2>1
  <2>3. f[k] # f[m] /\ ~(rank(f[m]) < rank(f[k]))
    BY <2>1, <2>2
  <2>4. ~Ahead(s, key, f[m], f[k])
    BY <1>1, <2>1, <2>3
  <2> QED
    BY <1>2, <2>1, <2>3, <2>4
<1> QED
  BY <1>3, <1>7, <1>8, <1>9 DEF Permutes

(* A sorted list has the same elements, the larger keys first. *)
LEMMA Sorted ==
  ASSUME NEW S, NEW s \in Seq(S), NEW key, \A i \in DOMAIN s : key[s[i]] \in Int,
         NEW r, r = SortedBy(s, key)
  PROVE  /\ r \in Seq(S) /\ Len(r) = Len(s) /\ DOMAIN r = DOMAIN s
         /\ \A k \in DOMAIN r : \E i \in DOMAIN s : r[k] = s[i]
         /\ \A i \in DOMAIN s : \E k \in DOMAIN r : r[k] = s[i]
         /\ \A k, m \in DOMAIN r : k < m => key[r[k]] >= key[r[m]]
<1> DEFINE n == Len(s)
<1>1. n \in Nat /\ DOMAIN s = 1 .. n /\ \A i \in 1 .. n : s[i] \in S
  OBVIOUS
<1>0. \A i \in 1 .. n : key[s[i]] \in Int
  BY <1>1
<1> HIDE DEF n
<1>2. PICK f : Permutes(f, s, key, n)
  BY <1>0, <1>1, SortedPermutes
<1>3. DOMAIN r = 1 .. n /\ \A k \in 1 .. n : r[k] = s[f[k]] /\ f[k] \in 1 .. n
  BY <1>2 DEF Permutes
<1>4. r \in [1 .. n -> S]
  BY <1>1, <1>2 DEF Permutes
<1>5. r \in Seq(S) /\ Len(r) = n
  BY <1>1, <1>4
<1>6. ASSUME NEW k \in 1 .. n, NEW m \in 1 .. n, k < m PROVE key[r[k]] >= key[r[m]]
  <2>1. key[s[f[k]]] \in Int /\ key[s[f[m]]] \in Int /\ Ahead(s, key, f[k], f[m])
    BY <1>0, <1>2, <1>3, <1>6 DEF Permutes
  <2> QED
    BY <1>3, <2>1 DEF Ahead
<1>7. ASSUME NEW i \in 1 .. n PROVE \E k \in 1 .. n : r[k] = s[i]
  <2>1. PICK k \in 1 .. n : f[k] = i
    BY <1>2 DEF Permutes
  <2> QED
    BY <1>3, <2>1
<1> QED
  BY <1>1, <1>3, <1>5, <1>6, <1>7 DEF n

HitSet == [p : Passages, of : Contents, v : 0 .. Unhydrated, k : 0 .. Unhydrated, score : Nat]

LEMMA Extremes ==
  ASSUME NEW a \in Int, NEW b \in Int
  PROVE  /\ Min({a, b}) = IF a <= b THEN a ELSE b
         /\ Max({a, b}) = IF a <= b THEN b ELSE a
BY DEF Min, Max

LEMMA FoundIsOf ==
  ASSUME NEW S, IsFiniteSet(S), NEW key, \A x \in S : key[x] \in Int
  PROVE  /\ Found(S, key) \in Seq(S)
         /\ \A n \in DOMAIN Found(S, key) : Found(S, key)[n] \in S
<1> DEFINE s == SetToSeq(S)
<1>1. s \in Seq(S) /\ \A i \in DOMAIN s : s[i] \in S
  BY SeqOfSet
<1> HIDE DEF s
<1>2. \A i \in DOMAIN s : key[s[i]] \in Int
  BY <1>1
<1>3. SortedBy(s, key) \in Seq(S)
  BY <1>1, <1>2, Sorted
<1>4. Found(S, key) = SortedBy(s, key)
  BY DEF Found, s
<1> QED
  BY <1>3, <1>4

LEMMA FirstIsOf ==
  ASSUME NEW S, NEW s \in Seq(S), NEW n \in Nat
  PROVE  \E m \in Nat : DOMAIN First(s, n) = 1 .. m /\ 1 .. m \subseteq DOMAIN s
<1> DEFINE l == Len(s)
           m == Min({n, l})
<1>1. l \in Nat /\ DOMAIN s = 1 .. l
  OBVIOUS
<1>2. m \in Nat /\ m <= l
  <2> HIDE DEF l
  <2> QED
    BY <1>1, Extremes
<1>3. First(s, n) = SubSeq(s, 1, m)
  BY DEF First
<1> HIDE DEF m, l
<1>4. DOMAIN SubSeq(s, 1, m) = 1 .. m
  <2>1. 1 \in 1 .. l + 1 /\ m \in 1 - 1 .. l
    BY <1>1, <1>2
  <2>2. SubSeq(s, 1, m) \in Seq(S) /\ Len(SubSeq(s, 1, m)) = m - 1 + 1
    BY <2>1, SubSeqProperties DEF l
  <2>3. m - 1 + 1 = m
    BY <1>2
  <2> QED
    BY <2>2, <2>3
<1>5. 1 .. m \subseteq 1 .. l
  BY <1>1, <1>2
<1> QED
  BY <1>1, <1>2, <1>3, <1>4, <1>5

LEMMA ScoreIsNat ==
  ASSUME NEW v \in 0 .. Unhydrated, NEW k \in 0 .. Unhydrated
  PROVE  Score(v, k) \in Nat
<1> DEFINE a == Or0(v)
           b == Or0(k)
<1>1. a \in 0 .. 100 /\ b \in 0 .. 100
  BY DEF Or0, Unhydrated
<1>2. Score(v, k) = Min({10000, Max({100 * a, 85 * b}) + 10 * Min({a, b})})
  BY DEF Score
<1> HIDE DEF a, b
<1>3. Max({100 * a, 85 * b}) \in Nat /\ Min({a, b}) \in Nat
  <2> DEFINE p == 100 * a
             q == 85 * b
  <2>1. p \in Nat /\ q \in Nat /\ a \in Nat /\ b \in Nat
    BY <1>1
  <2> HIDE DEF p, q
  <2>2. Max({p, q}) = IF p <= q THEN q ELSE p
    BY <2>1, Extremes
  <2>3. Min({a, b}) = IF a <= b THEN a ELSE b
    BY <2>1, Extremes
  <2> QED
    BY <2>1, <2>2, <2>3 DEF p, q
<1> DEFINE x == Max({100 * a, 85 * b})
           y == Min({a, b})
<1>4. x \in Nat /\ y \in Nat
  BY <1>3
<1> HIDE DEF x, y
<1>5. Min({10000, x + 10 * y}) \in Nat
  <2>1. x + 10 * y \in Nat /\ 10000 \in Nat
    BY <1>4
  <2> QED
    BY <2>1, Extremes
<1> QED
  BY <1>2, <1>5 DEF x, y

LEMMA HitIsHit ==
  ASSUME NEW p \in Passages, NEW of \in Contents, NEW v \in 0 .. Unhydrated, NEW k \in 0 .. Unhydrated
  PROVE  Hit(p, of, v, k) \in HitSet
BY ScoreIsNat DEF Hit, HitSet

(* What a search is asked with: scores of all passages. *)
Asked == ask.vector \in [Passages -> 0 .. 100] /\ ask.keyword \in [Passages -> 0 .. 100]
ReadStores ==
  /\ shown \subseteq Passages
  /\ DOMAIN vectors \subseteq Passages /\ \A p \in DOMAIN vectors : vectors[p].of \in Contents

LEMMA VectorHitsAreHits ==
  ASSUME Asked, ReadStores
  PROVE  VectorHits \in Seq(HitSet)
<1> DEFINE found == {p \in DOMAIN vectors : vectors[p].fits /\ ask.vector[p] >= Threshold}
           F == Found(found, ask.vector)
           h(n) == Hit(F[n], vectors[F[n]].of, ask.vector[F[n]], Unhydrated)
<1>1. found \subseteq Passages /\ IsFiniteSet(found)
  BY SearchAssumption, FS_Subset DEF ReadStores
<1>2. \A p \in found : ask.vector[p] \in 0 .. 100 /\ vectors[p].of \in Contents
  BY <1>1 DEF Asked, ReadStores
<1>3. VectorHits = [n \in DOMAIN First(F, VectorLimit) |-> h(n)]
  BY DEF VectorHits
<1>4. F \in Seq(found) /\ \A n \in DOMAIN F : F[n] \in found
  <2>1. \A p \in found : ask.vector[p] \in Int
    BY <1>2
  <2> HIDE DEF found
  <2> QED
    BY <1>1, <2>1, FoundIsOf
<1> HIDE DEF found, F
<1>5. PICK m \in Nat : DOMAIN First(F, VectorLimit) = 1 .. m /\ 1 .. m \subseteq DOMAIN F
  BY <1>4, SearchAssumption, FirstIsOf
<1>6. ASSUME NEW n \in 1 .. m PROVE h(n) \in HitSet
  <2>1. F[n] \in found
    BY <1>4, <1>5
  <2>2. F[n] \in Passages /\ vectors[F[n]].of \in Contents /\ ask.vector[F[n]] \in 0 .. Unhydrated
    BY <1>1, <1>2, <2>1 DEF Unhydrated
  <2>3. Unhydrated \in 0 .. Unhydrated
    BY DEF Unhydrated
  <2> QED
    BY <2>2, <2>3, HitIsHit
<1> HIDE DEF h
<1>7. VectorHits \in [1 .. m -> HitSet]
  BY <1>3, <1>5, <1>6
<1> QED
  BY <1>7

LEMMA KeywordHitsAreHits ==
  ASSUME Asked, ReadStores
  PROVE  KeywordHits \in Seq(HitSet)
<1>1. PICK found : /\ found \subseteq Searchable
                   /\ KeywordHits = [n \in DOMAIN First(Found(found, ask.keyword), KeywordLimit) |->
                        LET p == Found(found, ask.keyword)[n] IN
                        Hit(p, ContentOf[p], Unhydrated, ask.keyword[p])]
  <2> DEFINE match == {p \in Searchable : ask.keyword[p] >= Threshold}
             better(p) == {q \in match : /\ ContentOf[q] = ContentOf[p]
                                    /\ \/ ask.keyword[q] > ask.keyword[p]
                                       \/ ask.keyword[q] = ask.keyword[p]
                                            /\ Position[q] < Position[p]}
             all == {p \in match : Cardinality(better(p)) < 2}
  <2>1. all \subseteq Searchable
    OBVIOUS
  <2>2. KeywordHits = [n \in DOMAIN First(Found(all, ask.keyword), KeywordLimit) |->
                        LET p == Found(all, ask.keyword)[n] IN
                        Hit(p, ContentOf[p], Unhydrated, ask.keyword[p])]
    BY DEF KeywordHits
  <2> QED
    BY <2>1, <2>2
<1> DEFINE F == Found(found, ask.keyword)
           h(n) == Hit(F[n], ContentOf[F[n]], Unhydrated, ask.keyword[F[n]])
<1>2. found \subseteq Passages /\ IsFiniteSet(found)
  BY <1>1, SearchAssumption, FS_Subset DEF ReadStores, Searchable
<1>3. \A p \in found : ask.keyword[p] \in 0 .. 100
  BY <1>2 DEF Asked
<1>4. F \in Seq(found) /\ \A n \in DOMAIN F : F[n] \in found
  <2>1. \A p \in found : ask.keyword[p] \in Int
    BY <1>3
  <2> QED
    BY <1>2, <2>1, FoundIsOf
<1>5. KeywordHits = [n \in DOMAIN First(F, KeywordLimit) |-> h(n)]
  BY <1>1
<1> HIDE DEF F
<1>6. PICK m \in Nat : DOMAIN First(F, KeywordLimit) = 1 .. m /\ 1 .. m \subseteq DOMAIN F
  BY <1>4, SearchAssumption, FirstIsOf
<1>7. ASSUME NEW n \in 1 .. m PROVE h(n) \in HitSet
  <2>1. F[n] \in found
    BY <1>4, <1>6
  <2>2. F[n] \in Passages /\ ContentOf[F[n]] \in Contents /\ ask.keyword[F[n]] \in 0 .. Unhydrated
    BY <1>2, <1>3, <2>1, SearchAssumption DEF Unhydrated
  <2>3. Unhydrated \in 0 .. Unhydrated
    BY DEF Unhydrated
  <2> QED
    BY <2>2, <2>3, HitIsHit
<1> HIDE DEF h
<1>8. KeywordHits \in [1 .. m -> HitSet]
  BY <1>5, <1>6, <1>7
<1> QED
  BY <1>8

KeepIn(c, acc, x) == IF x \in c THEN Append(acc, x) ELSE acc
Keeping == INSTANCE DataInduction WITH Op <- KeepIn

LEMMA OnlyKeeps ==
  ASSUME NEW E, NEW list \in Seq(E), NEW S
  PROVE  Only(list, S) \in Seq(E) /\ \A n \in DOMAIN Only(list, S) : Only(list, S)[n] \in S
<1> DEFINE n == Len(list)
           Good(acc) == acc \in Seq(E) /\ \A i \in DOMAIN acc : acc[i] \in S
           T == [k \in 0 .. n |-> {acc \in Seq(E) : Good(acc)}]
<1>1. n \in Nat /\ DOMAIN list = 1 .. n /\ \A i \in 1 .. n : list[i] \in E
  OBVIOUS
<1>2. Only(list, S) = Keeping!Fold(S, <<>>, list)
  BY Zenon DEF Only, KeepIn, Keeping!Fold, Keeping!Iter, FoldLeft, MapThenFoldSet, Max, Keeping!Max
<1>3. <<>> \in T[0]
  <2>1. Good(<<>>) /\ 0 \in 0 .. n
    BY <1>1, EmptySeq
  <2> QED
    BY <2>1
<1>4. ASSUME NEW k \in 1 .. n, NEW acc \in T[k - 1] PROVE KeepIn(S, acc, list[k]) \in T[k]
  <2>1. k - 1 \in 0 .. n /\ k \in 0 .. n
    BY <1>1
  <2>2. Good(acc)
    BY <1>4, <2>1
  <2>3. CASE list[k] \in S
    <3>1. Append(acc, list[k]) \in Seq(E)
      BY <1>1, <2>2
    <3>2. \A i \in DOMAIN Append(acc, list[k]) : Append(acc, list[k])[i] \in S
      <4>1. acc \in Seq(S)
        BY <2>2
      <4> QED
        BY <2>3, <4>1
    <3> QED
      BY <2>1, <2>3, <3>1, <3>2 DEF KeepIn
  <2>4. CASE list[k] \notin S
    BY <2>1, <2>2, <2>4 DEF KeepIn
  <2> QED
    BY <2>3, <2>4
<1>5. Keeping!Fold(S, <<>>, list) \in T[n]
  <2>1. \A k \in 1 .. n : \A acc \in T[k - 1] : KeepIn(S, acc, list[k]) \in T[k]
    BY <1>4
  <2> HIDE DEF T, n
  <2> QED
    BY <1>1, <1>3, <2>1, Keeping!FoldKeeps
<1>6. n \in 0 .. n
  BY <1>1
<1> HIDE DEF n
<1> QED
  BY <1>2, <1>5, <1>6

LEMMA MergedAreHits ==
  ASSUME NEW vs \in Seq(HitSet), NEW ks \in Seq(HitSet)
  PROVE  Merged(vs, ks) \in Seq(HitSet)
<1> DEFINE both(h) == {n \in DOMAIN ks : ks[n].p = h.p}
           kept(h) == CHOOSE n \in both(h) : TRUE
           join(h) == IF both(h) = {} THEN h ELSE LET k == ks[kept(h)] IN Hit(h.p, k.of, h.v, k.k)
           S == {k \in Range(ks) : ~Holds(vs, k.p)}
           first == [n \in DOMAIN vs |-> join(vs[n])]
<1>1. Merged(vs, ks) = first \o Only(ks, S)
  BY DEF Merged
<1>2. \A k \in HitSet : k.p \in Passages /\ k.of \in Contents /\ k.v \in 0 .. Unhydrated /\ k.k \in 0 .. Unhydrated
  BY DEF HitSet
<1>3. ASSUME NEW h \in HitSet PROVE join(h) \in HitSet
  <2>1. CASE both(h) = {}
    BY <2>1
  <2>2. CASE both(h) # {}
    <3>1. kept(h) \in DOMAIN ks
      BY <2>2
    <3>2. ks[kept(h)] \in HitSet
      BY <3>1
    <3>3. Hit(h.p, ks[kept(h)].of, h.v, ks[kept(h)].k) \in HitSet
      BY <1>2, <3>2, HitIsHit
    <3> QED
      BY <2>2, <3>3
  <2> QED
    BY <2>1, <2>2
<1> HIDE DEF join, S
<1>4. first \in Seq(HitSet)
  <2>1. \A n \in DOMAIN vs : join(vs[n]) \in HitSet
    BY <1>3
  <2>2. PICK l \in Nat : DOMAIN vs = 1 .. l
    OBVIOUS
  <2>3. first \in [1 .. l -> HitSet]
    BY <2>1, <2>2
  <2> HIDE DEF first
  <2> QED
    BY <2>2, <2>3
<1>5. Only(ks, S) \in Seq(HitSet)
  BY OnlyKeeps
<1> HIDE DEF first
<1> QED
  BY <1>1, <1>4, <1>5, ConcatProperties

LEMMA RankedAreHits ==
  ASSUME NEW list \in Seq(HitSet)
  PROVE  Ranked(list) \in Seq(HitSet)
<1> DEFINE key == [h \in Range(list) |-> 1000 * h.score + Or0(h.v)]
<1>1. \A h \in HitSet : 1000 * h.score + Or0(h.v) \in Int
  <2> SUFFICES ASSUME NEW h \in HitSet PROVE 1000 * h.score + Or0(h.v) \in Int
    OBVIOUS
  <2>0. h.score \in Nat /\ h.v \in 0 .. Unhydrated
    BY DEF HitSet
  <2>1. h.score \in Nat /\ Or0(h.v) \in Nat
    <3> DEFINE v == h.v
    <3>1. v \in 0 .. 101
      BY <2>0 DEF Unhydrated
    <3> HIDE DEF v
    <3>2. Or0(v) \in Nat
      BY <3>1 DEF Or0, Unhydrated
    <3> QED
      BY <2>0, <3>2 DEF v
  <2> QED
    BY <2>1
<1>2. \A i \in DOMAIN list : list[i] \in HitSet /\ list[i] \in Range(list)
  BY DEF Range
<1>3. \A i \in DOMAIN list : key[list[i]] \in Int
  BY <1>1, <1>2
<1>4. Ranked(list) = SortedBy(list, key)
  BY DEF Ranked
<1> HIDE DEF key
<1> QED
  BY <1>3, <1>4, Sorted

(* What the rows leave of the hits. *)
LEMMA HydratedAreFit ==
  ASSUME NEW list \in Seq(HitSet)
  PROVE  /\ Hydrated(list) \in Seq(HitSet)
         /\ \A n \in DOMAIN Hydrated(list) : Hydrated(list)[n].p \in Searchable
<1> DEFINE S == {h \in Range(list) : /\ h.p \in Searchable /\ h.of = ContentOf[h.p]
                                     /\ ask.video => ContentOf[h.p] \notin Unrelated}
<1>1. Hydrated(list) = Only(list, S)
  BY Zenon DEF Hydrated
<1>2. \A h \in S : h.p \in Searchable
  BY Zenon
<1> HIDE DEF S
<1>3. Only(list, S) \in Seq(HitSet) /\ \A n \in DOMAIN Only(list, S) : Only(list, S)[n] \in S
  BY OnlyKeeps
<1> QED
  BY <1>1, <1>2, <1>3

-----------------------------------------------------------------------------
(* Lists of hits: the rounds of a selection.                               *)

ItemOf(h) == ContentOf[h.p]

(* Counting an item in a longer list. *)
LEMMA Counted ==
  ASSUME NEW acc \in Seq(HitSet), NEW i
  PROVE  /\ ItemCount(acc, i) \in Nat
         /\ ItemCount(acc, i) = 0 <=> \A n \in DOMAIN acc : ItemOf(acc[n]) # i
         /\ \A h \in HitSet : ItemCount(Append(acc, h), i) =
               IF ItemOf(h) = i THEN ItemCount(acc, i) + 1 ELSE ItemCount(acc, i)
<1> DEFINE n == Len(acc)
           C == {m \in DOMAIN acc : ContentOf[acc[m].p] = i}
<1>1. n \in Nat /\ DOMAIN acc = 1 .. n
  OBVIOUS
<1>2. ItemCount(acc, i) = Cardinality(C)
  BY DEF ItemCount
<1>3. C \in SUBSET (1 .. n) /\ IsFiniteSet(1 .. n)
  <2>1. IsFiniteSet(1 .. n)
    BY <1>1, FS_Interval
  <2> QED
    BY <1>1, <2>1
<1>4. IsFiniteSet(C) /\ Cardinality(C) \in Nat
  <2> HIDE DEF C, n
  <2> QED
    BY <1>3, FS_Subset, FS_CardinalityType
<1>5. Cardinality(C) = 0 <=> C = {}
  BY <1>4, FS_EmptySet
<1>6. ASSUME NEW h \in HitSet
      PROVE  ItemCount(Append(acc, h), i) =
               IF ItemOf(h) = i THEN ItemCount(acc, i) + 1 ELSE ItemCount(acc, i)
  <2> DEFINE r == Append(acc, h)
             D == {m \in DOMAIN r : ContentOf[r[m].p] = i}
  <2>1. /\ DOMAIN r = 1 .. n + 1 /\ r[n + 1] = h
        /\ \A m \in DOMAIN acc : m \in DOMAIN r /\ r[m] = acc[m]
    BY Appended
  <2>2. ItemCount(r, i) = Cardinality(D)
    BY DEF ItemCount
  <2> HIDE DEF r, n
  <2>3. \A m \in DOMAIN r : m \in DOMAIN acc \/ m = n + 1
    BY <1>1, <2>1
  <2>4. n + 1 \in DOMAIN r /\ n + 1 \notin DOMAIN acc
    BY <1>1, <2>1
  <2>5. CASE ItemOf(h) = i
    <3>1. D = C \cup {n + 1} /\ n + 1 \notin C
      BY <2>1, <2>3, <2>4, <2>5 DEF ItemOf
    <3>2. Cardinality(D) = Cardinality(C) + 1
      <4> HIDE DEF C, D
      <4> QED
        BY <1>4, <3>1, FS_AddElement
    <3> QED
      BY <1>2, <2>2, <2>5, <3>2 DEF r
  <2>6. CASE ItemOf(h) # i
    <3>1. D = C
      BY <2>1, <2>3, <2>4, <2>6 DEF ItemOf
    <3> QED
      BY <1>2, <2>2, <2>6, <3>1 DEF r
  <2> QED
    BY <2>5, <2>6
<1>7. C = {} <=> \A m \in DOMAIN acc : ItemOf(acc[m]) # i
  BY DEF ItemOf
<1> HIDE DEF C
<1> QED
  BY <1>2, <1>4, <1>5, <1>6, <1>7

(* One hit more. *)
Extends(acc, h, r) ==
  /\ r \in Seq(HitSet) /\ Len(acc) \in Nat /\ Len(r) = Len(acc) + 1
  /\ \A n \in DOMAIN acc : n \in DOMAIN r /\ r[n] = acc[n]
  /\ \A n \in DOMAIN r : (n = Len(acc) + 1 /\ r[n] = h) \/ (n \in DOMAIN acc /\ r[n] = acc[n])
  /\ Len(acc) + 1 \in DOMAIN r /\ \A n \in DOMAIN acc : n \in Int /\ n <= Len(acc)
  /\ Holds(r, h.p) /\ \A p : Holds(acc, p) => Holds(r, p)
  /\ \A i : ItemCount(r, i) = IF ItemOf(h) = i THEN ItemCount(acc, i) + 1 ELSE ItemCount(acc, i)
  /\ \A i : ItemCount(acc, i) \in Nat /\ ItemCount(r, i) \in Nat
            /\ ItemCount(acc, i) <= ItemCount(r, i) /\ ItemCount(r, i) <= ItemCount(acc, i) + 1

LEMMA Longer ==
  ASSUME NEW acc \in Seq(HitSet), NEW h \in HitSet, NEW r, r = Append(acc, h)
  PROVE  Extends(acc, h, r)
<1> DEFINE n == Len(acc)
<1>1. /\ r \in Seq(HitSet) /\ n \in Nat /\ DOMAIN acc = 1 .. n /\ DOMAIN r = 1 .. n + 1
      /\ r[n + 1] = h /\ \A m \in DOMAIN acc : m \in DOMAIN r /\ r[m] = acc[m]
  BY Appended
<1>2. Len(r) = n + 1
  BY AppendProperties
<1>3. \A i : ItemCount(acc, i) \in Nat /\ ItemCount(r, i) \in Nat
  BY <1>1, Counted
<1>4. \A i : ItemCount(r, i) = IF ItemOf(h) = i THEN ItemCount(acc, i) + 1 ELSE ItemCount(acc, i)
  BY Counted
<1> HIDE DEF n
<1>5. ASSUME NEW i PROVE ItemCount(acc, i) <= ItemCount(r, i) /\ ItemCount(r, i) <= ItemCount(acc, i) + 1
  BY <1>3, <1>4
<1>6. \A m \in DOMAIN r : m \in DOMAIN acc \/ m = n + 1
  BY <1>1
<1>7. n + 1 \in DOMAIN r /\ \A m \in DOMAIN acc : m \in Int /\ m <= n
  BY <1>1
<1>8. Holds(r, h.p) /\ \A p : Holds(acc, p) => Holds(r, p)
  BY <1>1, <1>7 DEF Holds
<1> QED
  BY <1>1, <1>2, <1>3, <1>4, <1>5, <1>6, <1>7, <1>8 DEF n, Extends

(* A hit of the selection comes from the list, and the hits of its item    *)
(* that are before it are held.                                            *)
Leads(acc, list, m) ==
  \A k \in DOMAIN list : k < m /\ ItemOf(list[k]) = ItemOf(list[m]) => Holds(acc, list[k].p)
Drawn(acc, list) ==
  /\ acc \in Seq(HitSet)
  /\ \A n \in DOMAIN acc : \E m \in DOMAIN list : acc[n] = list[m] /\ Leads(acc, list, m)

(* The hits of an item are in the order of their scores. *)
Descending(list) ==
  \A i, j \in DOMAIN list : i < j /\ ItemOf(list[i]) = ItemOf(list[j]) => list[i].score >= list[j].score

(* What a round has passed is held, or its item has its allowance, or the  *)
(* selection is complete.                                                  *)
Passed(acc, list, k, most, cap) ==
  \A m \in DOMAIN list : m <= k =>
      Holds(acc, list[m].p) \/ ItemCount(acc, ItemOf(list[m])) >= most \/ Len(acc) >= cap

TakeHit(c, acc, h) ==
  IF Len(acc) >= c[2] \/ Holds(acc, h.p) \/ ItemCount(acc, ContentOf[h.p]) >= c[1]
  THEN acc ELSE Append(acc, h)
Taking == INSTANCE DataInduction WITH Op <- TakeHit

(* One hit of a round. *)
Selects(acc, list, k, most, cap) ==
  Drawn(acc, list) /\ (Descending(list) => Descending(acc)) /\ Passed(acc, list, k, most, cap)

LEMMA SelectsOne ==
  ASSUME NEW list \in Seq(HitSet), NEW k \in DOMAIN list, NEW most \in Nat, NEW cap \in Nat, NEW acc,
         Selects(acc, list, k - 1, most, cap), NEW r, r = TakeHit(<<most, cap>>, acc, list[k])
  PROVE  Selects(r, list, k, most, cap)
<1> DEFINE h == list[k]
           stays == Len(acc) >= cap \/ Holds(acc, h.p) \/ ItemCount(acc, ItemOf(h)) >= most
<1>1. r = IF stays THEN acc ELSE Append(acc, h)
  BY DEF TakeHit, ItemOf
<1>2. h \in HitSet /\ k \in Nat /\ DOMAIN list \subseteq Nat /\ acc \in Seq(HitSet)
  BY DEF Selects, Drawn
<1>3. CASE stays
  <2>1. \A m \in DOMAIN list : m <= k => m <= k - 1 \/ m = k
    BY <1>2
  <2>2. Passed(acc, list, k, most, cap)
    BY <1>3, <2>1 DEF Passed, Selects
  <2> QED
    BY <1>1, <1>3, <2>2 DEF Selects
<1>4. CASE ~stays
  <2> HIDE DEF h
  <2>1. r = Append(acc, h)
    BY <1>1, <1>4
  <2>2. /\ r \in Seq(HitSet) /\ Len(acc) \in Nat /\ Len(r) = Len(acc) + 1
        /\ \A n \in DOMAIN acc : n \in DOMAIN r /\ r[n] = acc[n]
        /\ \A n \in DOMAIN r : (n = Len(acc) + 1 /\ r[n] = h) \/ (n \in DOMAIN acc /\ r[n] = acc[n])
        /\ Len(acc) + 1 \in DOMAIN r /\ \A n \in DOMAIN acc : n \in Int /\ n <= Len(acc)
        /\ Holds(r, h.p) /\ \A p : Holds(acc, p) => Holds(r, p)
        /\ \A i : ItemCount(acc, i) \in Nat /\ ItemCount(r, i) \in Nat
                  /\ ItemCount(acc, i) <= ItemCount(r, i)
    <3>1. Extends(acc, h, r)
      BY <1>2, <2>1, Longer
    <3> QED
      BY <3>1 DEF Extends
  <2>3. ~(Len(acc) >= cap) /\ ~Holds(acc, h.p) /\ ~(ItemCount(acc, ItemOf(h)) >= most)
    BY <1>4
  <2> HIDE DEF stays
  <2>4. Leads(acc, list, k)
    <3> SUFFICES ASSUME NEW j \in DOMAIN list, j < k, ItemOf(list[j]) = ItemOf(list[k])
                 PROVE  Holds(acc, list[j].p)
      BY DEF Leads
    <3>1. j <= k - 1
      BY <1>2
    <3>2. Holds(acc, list[j].p) \/ ItemCount(acc, ItemOf(list[j])) >= most \/ Len(acc) >= cap
      BY <3>1 DEF Selects, Passed
    <3> QED
      BY <2>3, <3>2 DEF h
  <2>5. \A m \in DOMAIN list : Leads(acc, list, m) => Leads(r, list, m)
    BY <2>2 DEF Leads
  <2>6. Drawn(r, list)
    <3> SUFFICES ASSUME NEW n \in DOMAIN r
                 PROVE  \E m \in DOMAIN list : r[n] = list[m] /\ Leads(r, list, m)
      BY <2>2 DEF Drawn
    <3>1. CASE r[n] = h
      BY <2>4, <2>5, <3>1 DEF h
    <3>2. CASE n \in DOMAIN acc /\ r[n] = acc[n]
      <4>1. PICK m \in DOMAIN list : acc[n] = list[m] /\ Leads(acc, list, m)
        BY <3>2 DEF Selects, Drawn
      <4> QED
        BY <2>5, <3>2, <4>1
    <3> QED
      BY <2>2, <3>1, <3>2
  <2>7. ASSUME Descending(list) PROVE Descending(r)
    <3> SUFFICES ASSUME NEW i \in DOMAIN r, NEW j \in DOMAIN r, i < j, ItemOf(r[i]) = ItemOf(r[j])
                 PROVE  r[i].score >= r[j].score
      BY DEF Descending
    <3>1. i \in DOMAIN acc /\ r[i] = acc[i]
      <4>1. i # Len(acc) + 1
        <5>1. j \in Int /\ j <= Len(acc) + 1
          BY <2>2
        <5> QED
          BY <2>2, <5>1
      <4> QED
        BY <2>2, <4>1
    <3>2. CASE j \in DOMAIN acc /\ r[j] = acc[j]
      BY <2>7, <3>1, <3>2 DEF Descending, Selects
    <3>3. CASE r[j] = h
      <4>1. PICK m \in DOMAIN list : acc[i] = list[m] /\ Leads(acc, list, m)
        BY <3>1 DEF Selects, Drawn
      <4>2. m # k
        BY <2>3, <3>1, <4>1 DEF h, Holds
      <4>3. ~(k < m)
        BY <2>3, <3>1, <3>3, <4>1 DEF Leads, h
      <4>4. m < k
        BY <1>2, <4>2, <4>3
      <4> QED
        BY <2>7, <3>1, <3>3, <4>1, <4>4 DEF Descending, h
    <3> QED
      BY <2>2, <3>2, <3>3
  <2>8. Passed(r, list, k, most, cap)
    <3> SUFFICES ASSUME NEW m \in DOMAIN list, m <= k
                 PROVE  Holds(r, list[m].p) \/ ItemCount(r, ItemOf(list[m])) >= most \/ Len(r) >= cap
      BY DEF Passed
    <3>1. CASE m = k
      BY <2>2, <3>1 DEF h
    <3>2. CASE m # k
      <4>1. m <= k - 1
        BY <1>2, <3>2
      <4>2. Holds(acc, list[m].p) \/ ItemCount(acc, ItemOf(list[m])) >= most \/ Len(acc) >= cap
        BY <4>1 DEF Selects, Passed
      <4>3. CASE Holds(acc, list[m].p)
        BY <2>2, <4>3
      <4>4. CASE ItemCount(acc, ItemOf(list[m])) >= most
        <5> DEFINE a == ItemCount(acc, ItemOf(list[m]))
                   b == ItemCount(r, ItemOf(list[m]))
        <5>1. a \in Nat /\ b \in Nat /\ a <= b /\ a >= most
          BY <2>2, <4>4
        <5> HIDE DEF a, b
        <5>2. b >= most
          BY <5>1
        <5> QED
          BY <5>2 DEF b
      <4>5. CASE Len(acc) >= cap
        BY <2>3, <4>5
      <4> QED
        BY <4>2, <4>3, <4>4, <4>5
    <3> QED
      BY <3>1, <3>2
  <2> QED
    BY <2>6, <2>7, <2>8 DEF Selects
<1> QED
  BY <1>3, <1>4

(* No item has two hits; each item of the list has one, or there is no     *)
(* room for it.                                                            *)
NoSecond(acc) == \A i : ItemCount(acc, i) <= 1
AllItems(acc, list) == \A m \in DOMAIN list : ItemCount(acc, ItemOf(list[m])) >= 1
Full(acc, list, cap) == AllItems(acc, list) \/ (Len(acc) >= cap /\ NoSecond(acc))

(* The first round takes one hit of an item; what it has filled the others *)
(* do not change.                                                          *)
LEMMA FillsOne ==
  ASSUME NEW list, NEW most \in Nat, NEW cap \in Nat,
         NEW acc \in Seq(HitSet), NEW h \in HitSet, NEW r, r = TakeHit(<<most, cap>>, acc, h)
  PROVE  /\ most = 1 /\ NoSecond(acc) => NoSecond(r)
         /\ Full(acc, list, cap) => Full(r, list, cap)
<1>1. CASE r = acc
  BY <1>1
<1>2. CASE r # acc
  <2>1. /\ r = Append(acc, h) /\ ~(Len(acc) >= cap) /\ ~(ItemCount(acc, ItemOf(h)) >= most)
    BY <1>2 DEF TakeHit, ItemOf
  <2>2. Extends(acc, h, r)
    BY <2>1, Longer
  <2>3. \A i : ItemCount(acc, i) \in Nat /\ ItemCount(r, i) \in Nat /\ ItemCount(acc, i) <= ItemCount(r, i)
    BY <2>2 DEF Extends
  <2>4. ASSUME most = 1, NoSecond(acc), NEW i PROVE ItemCount(r, i) <= 1
    <3> DEFINE a == ItemCount(acc, i)
               b == ItemCount(r, i)
    <3>0. a \in Nat /\ b = IF ItemOf(h) = i THEN a + 1 ELSE a
      BY <2>2 DEF Extends
    <3>1. a \in Nat /\ a <= 1 /\ b = IF ItemOf(h) = i THEN a + 1 ELSE a
      BY <2>4, <3>0 DEF NoSecond
    <3>2. ItemOf(h) = i => ~(a >= 1)
      BY <2>1, <2>4
    <3> HIDE DEF a, b
    <3>3. b <= 1
      BY <3>1, <3>2
    <3> QED
      BY <3>3 DEF b
  <2>5. ASSUME AllItems(acc, list) PROVE AllItems(r, list)
    <3> SUFFICES ASSUME NEW m \in DOMAIN list PROVE ItemCount(r, ItemOf(list[m])) >= 1
      BY DEF AllItems
    <3> DEFINE a == ItemCount(acc, ItemOf(list[m]))
               b == ItemCount(r, ItemOf(list[m]))
    <3>1. a \in Nat /\ b \in Nat /\ a <= b /\ a >= 1
      BY <2>3, <2>5 DEF AllItems
    <3> HIDE DEF a, b
    <3>2. b >= 1
      BY <3>1
    <3> QED
      BY <3>2 DEF b
  <2> QED
    BY <2>1, <2>4, <2>5 DEF NoSecond, Full
<1> QED
  BY <1>1, <1>2

(* A round goes through the whole list. *)
RoundKeeps(r, acc, list, most, cap) ==
  /\ Drawn(r, list)
  /\ Descending(list) => Descending(r)
  /\ most = 1 /\ NoSecond(acc) => Full(r, list, cap)
  /\ Full(acc, list, cap) => Full(r, list, cap)

LEMMA RoundSelects ==
  ASSUME NEW list \in Seq(HitSet), NEW most \in Nat, NEW cap \in Nat,
         NEW acc, Drawn(acc, list), Descending(list) => Descending(acc),
         NEW r, r = Round(acc, list, most, cap)
  PROVE  RoundKeeps(r, acc, list, most, cap)
<1> DEFINE c == <<most, cap>>
           n == Len(list)
           Good(x, k) == /\ Selects(x, list, k, most, cap)
                         /\ most = 1 /\ NoSecond(acc) => NoSecond(x)
                         /\ Full(acc, list, cap) => Full(x, list, cap)
           T == [k \in 0 .. n |-> {x \in Seq(HitSet) : Good(x, k)}]
<1>1. n \in Nat /\ DOMAIN list = 1 .. n /\ \A k \in 1 .. n : list[k] \in HitSet
  OBVIOUS
<1>2. r = Taking!Fold(c, acc, list)
  BY SMT DEF Round, TakeHit, Taking!Fold, Taking!Iter, FoldLeft, MapThenFoldSet, Max, Taking!Max
<1>3. \A k \in 0 .. n : \A x : x \in T[k] <=> x \in Seq(HitSet) /\ Good(x, k)
  OBVIOUS
<1> HIDE DEF T, n, c
<1>4. acc \in T[0]
  <2>1. Passed(acc, list, 0, most, cap)
    BY <1>1 DEF Passed
  <2>2. acc \in Seq(HitSet) /\ 0 \in 0 .. n
    BY <1>1 DEF Drawn
  <2>3. Good(acc, 0)
    BY <2>1 DEF Selects
  <2> HIDE DEF Good
  <2> QED
    BY <1>3, <2>2, <2>3
<1>5. ASSUME NEW k \in 1 .. n, NEW x \in T[k - 1] PROVE TakeHit(c, x, list[k]) \in T[k]
  <2> DEFINE y == TakeHit(c, x, list[k])
  <2>1. k - 1 \in 0 .. n /\ k \in 0 .. n /\ k \in DOMAIN list /\ list[k] \in HitSet
    BY <1>1
  <2>2. x \in Seq(HitSet) /\ Good(x, k - 1)
    BY <1>3, <2>1
  <2>3. Selects(y, list, k, most, cap)
    BY <2>1, <2>2, SelectsOne DEF c
  <2>4. /\ most = 1 /\ NoSecond(x) => NoSecond(y)
        /\ Full(x, list, cap) => Full(y, list, cap)
    BY <2>1, <2>2, FillsOne DEF c
  <2>5. y \in Seq(HitSet)
    BY <2>3 DEF Selects, Drawn
  <2>6. Good(y, k)
    BY <2>2, <2>3, <2>4
  <2> HIDE DEF Good
  <2> QED
    BY <1>3, <2>1, <2>5, <2>6
<1>6. Taking!Fold(c, acc, list) \in T[n]
  BY <1>1, <1>4, <1>5, Taking!FoldKeeps
<1>7. n \in 0 .. n
  BY <1>1
<1>8. r \in Seq(HitSet) /\ Good(r, n)
  BY <1>2, <1>3, <1>6, <1>7
<1>9. ASSUME most = 1, NoSecond(r) PROVE Full(r, list, cap)
  <2>1. ASSUME ~(Len(r) >= cap), NEW m \in DOMAIN list PROVE ItemCount(r, ItemOf(list[m])) >= 1
    <3>1. m <= n
      BY <1>1
    <3>2. Holds(r, list[m].p) \/ ItemCount(r, ItemOf(list[m])) >= 1
      BY <1>8, <1>9, <2>1, <3>1 DEF Selects, Passed
    <3>3. CASE Holds(r, list[m].p)
      <4>1. ItemCount(r, ItemOf(list[m])) # 0
        BY <1>8, <3>3, Counted DEF Holds, ItemOf
      <4>2. ItemCount(r, ItemOf(list[m])) \in Nat
        BY <1>8, Counted
      <4> QED
        BY <4>1, <4>2
    <3> QED
      BY <3>2, <3>3
  <2> QED
    BY <1>9, <2>1 DEF Full, AllItems
<1> QED
  BY <1>8, <1>9 DEF RoundKeeps, Selects

(* A selection goes through the list once for each allowance.              *)
NextRound(c, acc, most) == Round(acc, c[1], most, c[2])
Rounding == INSTANCE DataInduction WITH Op <- NextRound

LEMMA DiverseSelects ==
  ASSUME NEW list \in Seq(HitSet), NEW cap \in Nat, NEW n \in Nat, n >= 1,
         NEW allowances, DOMAIN allowances = 1 .. n, \A a \in 1 .. n : allowances[a] \in Nat,
         NEW r, r = Diverse(list, allowances, cap)
  PROVE  /\ Drawn(r, list)
         /\ Descending(list) => Descending(r)
         /\ allowances[1] = 1 => Full(r, list, cap)
<1> DEFINE c == <<list, cap>>
           Good(x, a) == /\ Drawn(x, list)
                         /\ Descending(list) => Descending(x)
                         /\ allowances[1] = 1 => (a = 0 /\ x = <<>>) \/ Full(x, list, cap)
           T == [a \in 0 .. n |-> {x \in Seq(HitSet) : Good(x, a)}]
<1>1. r = Rounding!Fold(c, <<>>, allowances)
  BY SMT DEF Diverse, NextRound, Rounding!Fold, Rounding!Iter, FoldLeft, MapThenFoldSet, Max, Rounding!Max
<1>2. \A a \in 0 .. n : \A x : x \in T[a] <=> x \in Seq(HitSet) /\ Good(x, a)
  OBVIOUS
<1> HIDE DEF T
<1>3. <<>> \in Seq(HitSet) /\ DOMAIN <<>> = {}
  OBVIOUS
<1>4. <<>> \in T[0]
  <2>1. Good(<<>>, 0) /\ 0 \in 0 .. n
    BY <1>3 DEF Drawn, Descending
  <2> HIDE DEF Good
  <2> QED
    BY <1>2, <1>3, <2>1
<1>5. NoSecond(<<>>)
  <2>1. \A i : ItemCount(<<>>, i) = 0
    BY <1>3, Counted
  <2> QED
    BY <2>1 DEF NoSecond
<1>6. ASSUME NEW a \in 1 .. n, NEW x \in T[a - 1] PROVE NextRound(c, x, allowances[a]) \in T[a]
  <2> DEFINE y == NextRound(c, x, allowances[a])
  <2>1. a - 1 \in 0 .. n /\ a \in 0 .. n /\ allowances[a] \in Nat /\ (a - 1 = 0 => a = 1)
    OBVIOUS
  <2>2. x \in Seq(HitSet) /\ Good(x, a - 1)
    BY <1>2, <2>1
  <2>3. y = Round(x, list, allowances[a], cap)
    BY DEF NextRound
  <2> HIDE DEF y
  <2>4. RoundKeeps(y, x, list, allowances[a], cap)
    BY <2>1, <2>2, <2>3, RoundSelects
  <2>5. Good(y, a)
    BY <1>5, <2>1, <2>2, <2>4 DEF RoundKeeps
  <2>6. y \in Seq(HitSet)
    BY <2>4 DEF RoundKeeps, Drawn
  <2> HIDE DEF Good
  <2> QED
    BY <1>2, <2>1, <2>5, <2>6 DEF y
<1>7. Rounding!Fold(c, <<>>, allowances) \in T[n]
  <2> HIDE DEF c
  <2> QED
    BY <1>4, <1>6, Rounding!FoldKeeps
<1>8. Good(r, n)
  <2> HIDE DEF Good
  <2> QED
    BY <1>1, <1>2, <1>7
<1> QED
  BY <1>8

(* The selection of a descending list has each item's first hits, and a    *)
(* second hit of an item only when every item has one.                     *)
LEMMA SelectsSources ==
  ASSUME NEW list \in Seq(HitSet), Descending(list), NEW cap,
         NEW r, Drawn(r, list), Full(r, list, cap)
  PROVE  SourcesFirst(r, list)
<1> DEFINE items(l) == {ContentOf[l[n].p] : n \in DOMAIN l}
<1>1. ASSUME NEW i \in items(r), ItemCount(r, i) > 1 PROVE items(list) = items(r)
  <2>0. r \in Seq(HitSet)
    BY DEF Drawn
  <2>1. ItemCount(r, i) \in Nat
    BY <2>0, Counted
  <2>2. ~NoSecond(r)
    BY <1>1, <2>1 DEF NoSecond
  <2>3. AllItems(r, list)
    BY <2>2 DEF Full
  <2>4. ASSUME NEW m \in DOMAIN list PROVE \E n \in DOMAIN r : ItemOf(r[n]) = ItemOf(list[m])
    <3>1. ItemCount(r, ItemOf(list[m])) >= 1
      BY <2>3 DEF AllItems
    <3>2. ItemCount(r, ItemOf(list[m])) # 0
      BY <3>1
    <3> QED
      BY <2>0, <3>2, Counted
  <2>5. \A n \in DOMAIN r : \E m \in DOMAIN list : ItemOf(r[n]) = ItemOf(list[m])
    BY DEF Drawn
  <2>6. \A x : x \in items(list) <=> \E m \in DOMAIN list : ItemOf(list[m]) = x
    BY DEF ItemOf
  <2>7. \A x : x \in items(r) <=> \E m \in DOMAIN r : ItemOf(r[m]) = x
    BY DEF ItemOf
  <2> HIDE DEF items
  <2>8. \A x : x \in items(list) <=> x \in items(r)
    BY <2>4, <2>5, <2>6, <2>7
  <2>9. items(list) \subseteq items(r) /\ items(r) \subseteq items(list)
    BY <2>8
  <2> QED
    BY <2>9
<1>2. ASSUME NEW n \in DOMAIN r, NEW m \in DOMAIN list, ItemOf(r[n]) = ItemOf(list[m]),
             list[m].score > r[n].score
      PROVE  Holds(r, list[m].p)
  <2>1. PICK k \in DOMAIN list : r[n] = list[k] /\ Leads(r, list, k)
    BY DEF Drawn
  <2>2. list[m].score \in Nat /\ list[k].score \in Nat /\ m \in Nat /\ k \in Nat
    <3>1. list[m] \in HitSet /\ list[k] \in HitSet /\ DOMAIN list \subseteq Nat
      OBVIOUS
    <3> QED
      BY <3>1 DEF HitSet
  <2>3. ~(k < m)
    <3> SUFFICES ASSUME k < m PROVE FALSE
      OBVIOUS
    <3>1. list[k].score >= list[m].score
      BY <1>2, <2>1 DEF Descending
    <3> QED
      BY <1>2, <2>1, <2>2, <3>1
  <2>4. m # k
    BY <1>2, <2>1, <2>2
  <2>5. m < k
    BY <2>2, <2>3, <2>4
  <2> QED
    BY <1>2, <2>1, <2>5 DEF Leads
<1> QED
  BY <1>1, <1>2 DEF SourcesFirst, ItemOf

-----------------------------------------------------------------------------
(* Reranking: an accepted answer is a permutation.                         *)
LEMMA ReorderKeeps ==
  ASSUME evidence \in Seq(HitSet), NEW answer \in Answers, Accepted(answer),
         NEW r, r = Reordered(answer)
  PROVE  r \in Seq(HitSet) /\ Len(r) = Len(evidence) /\ ToSet(r) = ToSet(evidence)
<1> DEFINE n == Len(evidence)
           own == [i \in DOMAIN evidence |-> i]
           at(i) == CHOOSE m \in DOMAIN answer : answer[m].index = i
           scoreAt == [i \in DOMAIN evidence |-> answer[at(i)].score]
           order == SortedBy(own, scoreAt)
<1>1. n \in Nat /\ DOMAIN evidence = 1 .. n /\ \A i \in 1 .. n : evidence[i] \in HitSet
  OBVIOUS
<1>2. DOMAIN answer = 1 .. n /\ \A m \in 1 .. n : answer[m].index \in 1 .. n /\ answer[m].score \in Int
  <2>1. PICK k \in {n, n + 1} : answer \in [1 .. k -> [index : 1 .. n + 1, score : RerankScores]]
    BY DEF Answers
  <2>2. Len(answer) = k /\ k \in Nat /\ DOMAIN answer = 1 .. k
    BY <1>1, <2>1
  <2>3. k = n
    BY <2>2 DEF Accepted
  <2>4. \A m \in 1 .. n : answer[m].index \in 1 .. n
    BY <1>1, <2>2, <2>3 DEF Accepted
  <2>5. \A m \in 1 .. n : answer[m].score \in RerankScores
    BY <2>1, <2>3
  <2> QED
    BY <2>2, <2>3, <2>4, <2>5, SearchAssumption
<1>3. \A m, k \in 1 .. n : answer[m].index = answer[k].index => m = k
  BY <1>2 DEF Accepted
<1>4. r = [m \in DOMAIN order |-> evidence[order[m]]]
  BY DEF Reordered
<1> HIDE DEF n
<1>5. \A i \in 1 .. n : \E m \in 1 .. n : answer[m].index = i
  <2> DEFINE g == [m \in 1 .. n |-> answer[m].index]
  <2>1. g \in [1 .. n -> 1 .. n]
    BY <1>2
  <2>2. \A m, k \in 1 .. n : g[m] = g[k] => m = k
    BY <1>3
  <2>3. \A m \in 1 .. n : g[m] = answer[m].index
    OBVIOUS
  <2> HIDE DEF g
  <2>4. g \in Injection(1 .. n, 1 .. n)
    BY <2>1, <2>2 DEF Injection, IsInjective
  <2>5. IsFiniteSet(1 .. n)
    BY <1>1, FS_Interval
  <2>6. g \in Surjection(1 .. n, 1 .. n)
    BY <2>4, <2>5, FS_Injection
  <2>7. \A k \in 1 .. n : \E i \in 1 .. n : g[i] = k
    BY <2>6 DEF Surjection
  <2> QED
    BY <2>3, <2>7
<1>6. own \in Seq(1 .. n) /\ DOMAIN own = 1 .. n /\ Len(own) = n /\ \A i \in 1 .. n : own[i] = i
  <2>1. own \in [1 .. n -> 1 .. n]
    BY <1>1
  <2> QED
    BY <1>1, <2>1
<1>7. \A i \in DOMAIN own : scoreAt[own[i]] \in Int
  <2> SUFFICES ASSUME NEW i \in 1 .. n PROVE scoreAt[i] \in Int
    BY <1>6
  <2>1. at(i) \in 1 .. n
    BY <1>2, <1>5
  <2>2. scoreAt[i] = answer[at(i)].score
    BY <1>1
  <2> HIDE DEF scoreAt, at
  <2> QED
    BY <1>2, <2>1, <2>2
<1> HIDE DEF own, scoreAt
<1>8. /\ order \in Seq(1 .. n) /\ Len(order) = Len(own) /\ DOMAIN order = DOMAIN own
      /\ \A k \in DOMAIN order : \E i \in DOMAIN own : order[k] = own[i]
      /\ \A i \in DOMAIN own : \E k \in DOMAIN order : order[k] = own[i]
  <2>1. own \in Seq(1 .. n)
    BY <1>6
  <2> QED
    BY <1>7, <2>1, Sorted
<1> HIDE DEF order
<1>9. DOMAIN order = 1 .. n /\ (\A k \in 1 .. n : order[k] \in 1 .. n) /\ \A i \in 1 .. n : \E k \in 1 .. n : order[k] = i
  <2>1. DOMAIN order = 1 .. n /\ DOMAIN own = 1 .. n /\ \A i \in 1 .. n : own[i] = i
    BY <1>6, <1>8
  <2>2. ASSUME NEW k \in 1 .. n PROVE order[k] \in 1 .. n
    <3>1. PICK i \in DOMAIN own : order[k] = own[i]
      BY <1>8, <2>1
    <3> QED
      BY <2>1, <3>1
  <2>3. ASSUME NEW i \in 1 .. n PROVE \E k \in 1 .. n : order[k] = i
    BY <1>8, <2>1
  <2> QED
    BY <2>1, <2>2, <2>3
<1>10. r \in [1 .. n -> HitSet] /\ \A k \in 1 .. n : r[k] = evidence[order[k]]
  BY <1>1, <1>4, <1>9
<1>11. r \in Seq(HitSet) /\ Len(r) = n /\ DOMAIN r = 1 .. n
  BY <1>1, <1>10
<1>12. /\ \A k \in 1 .. n : \E m \in 1 .. n : r[k] = evidence[m]
       /\ \A m \in 1 .. n : \E k \in 1 .. n : evidence[m] = r[k]
  <2>1. ASSUME NEW k \in 1 .. n PROVE \E m \in 1 .. n : r[k] = evidence[m]
    BY <1>9, <1>10
  <2>2. ASSUME NEW m \in 1 .. n PROVE \E k \in 1 .. n : evidence[m] = r[k]
    <3>1. PICK k \in 1 .. n : order[k] = m
      BY <1>9
    <3> QED
      BY <1>10, <3>1
  <2> QED
    BY <2>1, <2>2
<1>13. ToSet(r) = {r[k] : k \in 1 .. n} /\ ToSet(evidence) = {evidence[k] : k \in 1 .. n}
  BY <1>1, <1>11 DEF ToSet
<1>14. ToSet(r) \subseteq ToSet(evidence) /\ ToSet(evidence) \subseteq ToSet(r)
  BY <1>12, <1>13
<1> QED
  BY <1>11, <1>14 DEF n

-----------------------------------------------------------------------------
(* The context: a passage and its neighbours.                              *)

BlockSet == [p : Passages, length : Nat, ids : SUBSET Passages]

FitMore(c, acc, q) ==
  IF acc.length + PassageLength[q] + 2 <= c
  THEN [length |-> acc.length + PassageLength[q] + 2, ids |-> acc.ids \cup {q}] ELSE acc
Fitting == INSTANCE DataInduction WITH Op <- FitMore

LEMMA FilledFits ==
  ASSUME NEW p \in Passages, NEW budget \in Nat, NEW nearby, nearby \subseteq Passages,
         NEW f, f = Filled(p, budget, nearby)
  PROVE  /\ f.length \in 0 .. budget /\ p \in f.ids
         /\ f.ids \subseteq {p} \cup {q \in nearby : ContentOf[q] = ContentOf[p]}
<1> DEFINE S == {q \in nearby : Beside(p, q)}
           key == [q \in S |-> 1000 - Position[q]]
           list == InOrder(S)
           same == {p} \cup {q \in nearby : ContentOf[q] = ContentOf[p]}
           base == [length |-> Min({budget, PassageLength[p]}), ids |-> {p}]
           Good(x) == x.length <= budget /\ p \in x.ids
           G == {x \in [length : Nat, ids : SUBSET same] : Good(x)}
           n == Len(list)
           T == [k \in 0 .. n |-> G]
<1>1. /\ S \subseteq nearby /\ \A q \in S : ContentOf[q] = ContentOf[p]
      /\ IsFiniteSet(S) /\ \A q \in S : Position[q] \in Nat
  <2>1. S \subseteq nearby /\ S \subseteq Passages
    OBVIOUS
  <2>2. \A q \in S : ContentOf[q] = ContentOf[p]
    BY DEF Beside
  <2>3. IsFiniteSet(S)
    <3> HIDE DEF S
    <3> QED
      BY <2>1, SearchAssumption, FS_Subset
  <2> QED
    BY <2>1, <2>2, <2>3, SearchAssumption
<1>2. list \in Seq(S)
  <2>1. list = Found(S, key)
    BY DEF InOrder
  <2> HIDE DEF S
  <2>2. \A q \in S : key[q] \in Int
    BY <1>1
  <2> HIDE DEF key, list
  <2> QED
    BY <1>1, <2>1, <2>2, FoundIsOf
<1>3. f = Fitting!Fold(budget, base, list)
  BY Zenon DEF Filled, FitMore, Fitting!Fold, Fitting!Iter, FoldLeft, MapThenFoldSet, Max, Fitting!Max
<1> HIDE DEF S, list
<1>4. n \in Nat /\ DOMAIN list = 1 .. n /\ \A k \in 1 .. n : list[k] \in S
  BY <1>2
<1> HIDE DEF n
<1>5. base \in G
  <2>1. PassageLength[p] \in Nat
    BY SearchAssumption
  <2>2. Min({budget, PassageLength[p]}) \in Nat /\ Min({budget, PassageLength[p]}) <= budget
    <3> DEFINE l == PassageLength[p]
    <3> HIDE DEF l
    <3>1. Min({budget, l}) = IF budget <= l THEN budget ELSE l
      BY <2>1, Extremes DEF l
    <3>2. l \in Nat
      BY <2>1 DEF l
    <3> QED
      BY <3>1, <3>2 DEF l
  <2> QED
    BY <2>2
<1>6. ASSUME NEW q \in S, NEW x \in G PROVE FitMore(budget, x, q) \in G
  <2>1. q \in same /\ PassageLength[q] \in Nat
    BY <1>1, SearchAssumption
  <2>2. x.length \in Nat /\ x.length <= budget /\ p \in x.ids /\ x.ids \subseteq same
    OBVIOUS
  <2> DEFINE l == x.length + PassageLength[q] + 2
  <2>3. CASE l <= budget
    <3>1. l \in Nat
      BY <2>1, <2>2
    <3>2. FitMore(budget, x, q) = [length |-> l, ids |-> x.ids \cup {q}]
      BY <2>3 DEF FitMore
    <3> HIDE DEF l
    <3>3. x.ids \cup {q} \in SUBSET same /\ p \in x.ids \cup {q}
      BY <2>1, <2>2
    <3> QED
      BY <2>3, <3>1, <3>2, <3>3
  <2>4. CASE ~(l <= budget)
    <3>1. FitMore(budget, x, q) = x
      BY <2>4 DEF FitMore
    <3> QED
      BY <3>1
  <2> QED
    BY <2>3, <2>4
<1>7. Fitting!Fold(budget, base, list) \in G
  <2> HIDE DEF G, base
  <2>1. \A k \in 0 .. n : T[k] = G
    OBVIOUS
  <2>2. 0 \in 0 .. n /\ n \in 0 .. n /\ \A k \in 1 .. n : k \in 0 .. n /\ k - 1 \in 0 .. n
    BY <1>4
  <2> HIDE DEF T
  <2>3. base \in T[0] /\ \A k \in 1 .. n : \A x \in T[k - 1] : FitMore(budget, x, list[k]) \in T[k]
    BY <1>4, <1>5, <1>6, <2>1, <2>2
  <2>4. Fitting!Fold(budget, base, list) \in T[n]
    BY <1>4, <2>3, Fitting!FoldKeeps
  <2> QED
    BY <2>1, <2>2, <2>4
<1>8. f \in G
  BY <1>3, <1>7
<1> HIDE DEF same
<1>9. f.length \in Nat /\ f.length <= budget /\ p \in f.ids /\ f.ids \subseteq same
  BY <1>8
<1> QED
  BY <1>9 DEF same

AddBlock(c, acc, b) == acc + HeaderLength + b.length + 2
Adding == INSTANCE DataInduction WITH Op <- AddBlock

LEMMA UsedGrows ==
  /\ Used(<<>>) = 0
  /\ \A list \in Seq(BlockSet), b \in BlockSet :
        Used(Append(list, b)) = Used(list) + HeaderLength + b.length + 2
<1>1. \A list : Used(list) = Adding!Fold(0, 0, list)
  BY Zenon DEF Used, AddBlock, Adding!Fold, Adding!Iter, FoldLeft, MapThenFoldSet, Max, Adding!Max
<1>2. Adding!Fold(0, 0, <<>>) = 0
  BY Adding!FoldOfNone
<1>3. ASSUME NEW list \in Seq(BlockSet), NEW b \in BlockSet
      PROVE  Adding!Fold(0, 0, Append(list, b)) = AddBlock(0, Adding!Fold(0, 0, list), b)
  BY Adding!FoldAppends
<1> QED
  BY <1>1, <1>2, <1>3 DEF AddBlock

-----------------------------------------------------------------------------
(* The context: one passage after another.                                 *)

(* A block is of a passage and of its item's rows, within   the share. *)
BlockFits(b, cited, nearby, among) ==
  /\ \E n \in DOMAIN cited : b.p = cited[n].p
  /\ b.p \in b.ids /\ b.ids \subseteq {b.p} \cup nearby
  /\ \A q \in b.ids : ContentOf[q] = ContentOf[b.p]
  /\ b.length <= MaxChars \div among
ListFits(list, cited, nearby, among) ==
  /\ list \in Seq(BlockSet)
  /\ \A n \in DOMAIN list : BlockFits(list[n], cited, nearby, among)
  /\ Used(list) \in Nat /\ Used(list) <= MaxChars

LEMMA OneBlock ==
  ASSUME NEW cited \in Seq(HitSet), NEW k \in DOMAIN cited, NEW nearby, nearby \subseteq Passages,
         NEW among \in Nat \ {0},
         NEW acc, acc \in [list : Seq(BlockSet), full : BOOLEAN], ListFits(acc.list, cited, nearby, among),
         NEW r, r = WithBlock(acc, cited[k], nearby, among)
  PROVE  r \in [list : Seq(BlockSet), full : BOOLEAN] /\ ListFits(r.list, cited, nearby, among)
<1> DEFINE p == cited[k].p
           share == MaxChars \div among
           left == MaxChars - Used(acc.list)
           room == left - HeaderLength - 2
           budget == Budget(left, among)
           f == Filled(p, budget, nearby)
           b == [p |-> p, length |-> f.length, ids |-> f.ids]
<1>1. p \in Passages
  <2>1. cited[k] \in HitSet
    OBVIOUS
  <2> QED
    BY <2>1 DEF HitSet
<1>2. r = IF acc.full \/ budget < 1 THEN [acc EXCEPT !.full = TRUE]
          ELSE IF f.length = 0 THEN acc ELSE [acc EXCEPT !.list = Append(@, b)]
  BY DEF WithBlock
<1>3. CASE acc.full \/ budget < 1
  BY <1>2, <1>3
<1>4. CASE ~(acc.full \/ budget < 1) /\ f.length = 0
  BY <1>2, <1>4
<1>5. CASE ~(acc.full \/ budget < 1) /\ f.length # 0
  <2>1. r = [acc EXCEPT !.list = Append(@, b)]
    BY <1>2, <1>5
  <2>2. share \in Nat /\ room \in Int /\ budget = Min({room, share})
    <3>1. MaxChars \in Nat /\ HeaderLength \in Nat
      BY SearchAssumption
    <3>2. share \in Nat
      BY <3>1, Adding!Division
    <3>3. Used(acc.list) \in Nat
      BY DEF ListFits
    <3>4. budget = Min({room, share})
      BY DEF Budget
    <3>5. room \in Int
      BY <3>1, <3>3
    <3> QED
      BY <3>2, <3>4, <3>5
  <2>3. ~(budget < 1)
    BY <1>5
  <2> DEFINE u == Used(acc.list)
             h == HeaderLength
  <2>4. u \in Nat /\ h \in Nat /\ MaxChars \in Nat /\ room = MaxChars - u - h - 2
    BY SearchAssumption DEF ListFits
  <2> HIDE DEF room, share, budget, u, h
  <2>5. budget \in Nat /\ budget <= room /\ budget <= share
    <3>1. Min({room, share}) = IF room <= share THEN room ELSE share
      BY <2>2, Extremes
    <3> QED
      BY <2>2, <2>3, <3>1
  <2>6. /\ f.length \in 0 .. budget /\ p \in f.ids
        /\ f.ids \subseteq {p} \cup {q \in nearby : ContentOf[q] = ContentOf[p]}
    BY <1>1, <2>5, FilledFits
  <2> HIDE DEF f, p
  <2>7. b.length \in Nat /\ b.length <= share /\ b.length <= room
    BY <2>2, <2>5, <2>6
  <2>8. b \in BlockSet
    BY <1>1, <2>6, <2>7 DEF BlockSet
  <2>9. BlockFits(b, cited, nearby, among)
    <3>1. \A q \in f.ids : q \in {p} \cup nearby /\ ContentOf[q] = ContentOf[p]
      BY <2>6
    <3>2. b.p = p /\ b.ids = f.ids
      OBVIOUS
    <3>3. b.length <= MaxChars \div among
      BY <2>7 DEF share
    <3>4. \E n \in DOMAIN cited : b.p = cited[n].p
      BY <3>2 DEF p
    <3> HIDE DEF b
    <3> QED
      BY <2>6, <3>1, <3>2, <3>3, <3>4 DEF BlockFits
  <2> HIDE DEF b
  <2> DEFINE more == Append(acc.list, b)
             l == b.length
  <2>10. acc.list \in Seq(BlockSet)
    OBVIOUS
  <2>11. /\ more \in Seq(BlockSet)
         /\ \A n \in DOMAIN more : more[n] = b \/ (n \in DOMAIN acc.list /\ more[n] = acc.list[n])
    <3> DEFINE m == Len(acc.list)
    <3>1. /\ more \in Seq(BlockSet) /\ m \in Nat /\ DOMAIN acc.list = 1 .. m /\ DOMAIN more = 1 .. m + 1
          /\ more[m + 1] = b /\ \A i \in DOMAIN acc.list : i \in DOMAIN more /\ more[i] = acc.list[i]
      BY <2>8, <2>10, Appended
    <3> HIDE DEF m, more
    <3>2. \A n \in DOMAIN more : n = m + 1 \/ n \in DOMAIN acc.list
      BY <3>1
    <3> QED
      BY <3>1, <3>2
  <2>12. Used(more) = u + h + l + 2
    BY <2>8, <2>10, UsedGrows DEF u, h
  <2> HIDE DEF more, l
  <2>13. l \in Nat /\ l <= room
    BY <2>7 DEF l
  <2>14. Used(more) \in Nat /\ Used(more) <= MaxChars
    BY <2>4, <2>12, <2>13
  <2>15. \A n \in DOMAIN more : BlockFits(more[n], cited, nearby, among)
    BY <2>9, <2>11 DEF ListFits
  <2>16. r.list = more /\ r \in [list : Seq(BlockSet), full : BOOLEAN]
    BY <2>1, <2>11 DEF more
  <2> QED
    BY <2>11, <2>14, <2>15, <2>16 DEF ListFits
<1> QED
  BY <1>3, <1>4, <1>5

BlockAdded(c, acc, h) == WithBlock(acc, h, c[1], c[2])
Building == INSTANCE DataInduction WITH Op <- BlockAdded

Context(cited, nearby, among) ==
  FoldLeft(LAMBDA acc, h : WithBlock(acc, h, nearby, among), [list |-> <<>>, full |-> FALSE], cited)

LEMMA ContextOf ==
  ASSUME NEW cited \in Seq(HitSet), NEW nearby, nearby \subseteq Passages,
         NEW among \in Nat, cited # <<>> => among # 0,
         NEW r, r = Context(cited, nearby, among)
  PROVE  ListFits(r.list, cited, nearby, among)
<1> DEFINE c == <<nearby, among>>
           base == [list |-> <<>>, full |-> FALSE]
           n == Len(cited)
           Contexts == [list : Seq(BlockSet), full : BOOLEAN]
           G == {x \in Contexts : ListFits(x.list, cited, nearby, among)}
           T == [k \in 0 .. n |-> G]
<1>1. n \in Nat /\ DOMAIN cited = 1 .. n /\ (n # 0 => among # 0)
  <2>2. n # 0 => cited # <<>>
    <3>1. Len(<<>>) = 0
      BY EmptySeq
    <3> QED
      BY <3>1
  <2>3. n \in Nat /\ DOMAIN cited = 1 .. n
    OBVIOUS
  <2> QED
    BY <2>2, <2>3
<1>2. r = Building!Fold(c, base, cited)
  BY SMT DEF Context, BlockAdded, Building!Fold, Building!Iter, FoldLeft, MapThenFoldSet, Max, Building!Max
<1>3. base \in G
  <2>1. <<>> \in Seq(BlockSet) /\ DOMAIN <<>> = {}
    OBVIOUS
  <2>0. base.list = <<>>
    OBVIOUS
  <2>2. Used(<<>>) \in Nat /\ Used(<<>>) <= MaxChars
    <3>1. Used(<<>>) = 0
      BY UsedGrows
    <3>2. MaxChars \in Nat
      BY SearchAssumption
    <3> QED
      BY <3>1, <3>2
  <2>3. ListFits(base.list, cited, nearby, among)
    BY <2>0, <2>1, <2>2 DEF ListFits
  <2> QED
    BY <2>1, <2>3
<1>4. ASSUME NEW k \in 1 .. n, NEW x \in G PROVE BlockAdded(c, x, cited[k]) \in G
  <2>1. among \in Nat \ {0} /\ k \in DOMAIN cited
    <3> HIDE DEF n, G
    <3>1. n # 0
      BY <1>1
    <3> QED
      BY <1>1, <3>1
  <2>2. x \in Contexts /\ ListFits(x.list, cited, nearby, among)
    OBVIOUS
  <2> DEFINE y == WithBlock(x, cited[k], nearby, among)
  <2>3. BlockAdded(c, x, cited[k]) = y
    BY DEF BlockAdded
  <2>4. y \in Contexts /\ ListFits(y.list, cited, nearby, among)
    BY <2>1, <2>2, OneBlock
  <2> HIDE DEF y
  <2> QED
    BY <2>3, <2>4
<1>5. Building!Fold(c, base, cited) \in G
  <2> HIDE DEF G, base, c, n
  <2>1. \A k \in 0 .. n : T[k] = G
    OBVIOUS
  <2>2. 0 \in 0 .. n /\ n \in 0 .. n /\ \A k \in 1 .. n : k \in 0 .. n /\ k - 1 \in 0 .. n
    <3>1. n \in Nat
      BY <1>1
    <3> QED
      BY <3>1
  <2> HIDE DEF T
  <2>3. base \in T[0] /\ \A k \in 1 .. n : \A x \in T[k - 1] : BlockAdded(c, x, cited[k]) \in T[k]
    BY <1>3, <1>4, <2>1, <2>2
  <2>4. Building!Fold(c, base, cited) \in T[n]
    BY <1>1, <2>3, Building!FoldKeeps
  <2> QED
    BY <2>1, <2>2, <2>4
<1> QED
  BY <1>2, <1>5

-----------------------------------------------------------------------------
(* Answers: the invariant.                                                 *)

Early == {"idle", "vector", "keyword", "hydrate"}
Late == {"rerank", "texts", "select", "hits", "neighbours", "done"}
Questions == [stage : Early \cup Late, vector : [Passages -> 0 .. 100],
              keyword : [Passages -> 0 .. 100], video : BOOLEAN, ranked : BOOLEAN]

Kinds ==
  /\ ReadStores /\ ask \in Questions
  /\ hits \in Seq(HitSet) /\ evidence \in Seq(HitSet) /\ selected \in Seq(HitSet)

(* What can be shown has been noted since the question, and since the      *)
(* hydration; the evidence comes from there.                               *)
Noted ==
  /\ ask.stage # "idle" => Searchable \subseteq seen
  /\ ask.stage \in Late => shown \subseteq legible
  /\ ask.stage \in Early => evidence = <<>>
  /\ \A n \in DOMAIN evidence : evidence[n].p \in seen

(* The selection is of the evidence, and the hits read again of both.      *)
Chosen ==
  /\ ask.stage = "hits" => \A n \in DOMAIN selected : Holds(evidence, selected[n].p)
  /\ ask.stage = "neighbours" =>
        /\ hits # <<>> => Len(selected) # 0
        /\ \A n \in DOMAIN hits : Holds(evidence, hits[n].p) /\ hits[n].p \in legible

Finished ==
  /\ ask.stage # "done" => blocks = <<>>
  /\ ask.stage = "done" =>
        /\ \A n \in DOMAIN blocks :
              /\ Holds(evidence, blocks[n].p) /\ blocks[n].p \in blocks[n].ids
              /\ \A q \in blocks[n].ids : q \in legible /\ ContentOf[q] = ContentOf[blocks[n].p]
              /\ blocks[n].length <= MaxChars \div Len(selected)
        /\ Used(blocks) \in Nat /\ Used(blocks) <= MaxChars

(* Before the reranking the evidence is in the order of the scores.        *)
InScoreOrder ==
  /\ ask.stage \in {"rerank", "texts", "select"} /\ ~ask.ranked => Descending(evidence)
  /\ ask.stage \in Early \cup {"rerank", "texts"} => ~ask.ranked
  /\ SourcesComeFirst

SearchIInv == Kinds /\ Noted /\ Chosen /\ Finished /\ InScoreOrder

LEMMA StageMoves ==
  ASSUME ask \in Questions, NEW s, NEW t \in Early \cup Late, At(s, t)
  PROVE  ask.stage = s /\ ask' \in Questions /\ ask'.stage = t /\ ask'.ranked = ask.ranked
BY DEF At, Questions

LEMMA SearchStarts == SearchInit => SearchIInv
<1> SUFFICES ASSUME SearchInit PROVE SearchIInv
  OBVIOUS
<1>1. <<>> \in Seq(HitSet) /\ DOMAIN <<>> = {}
  OBVIOUS
<1>2. ask = NoQuestion /\ ask.stage = "idle" /\ "idle" \in Early /\ ~ask.ranked
  BY DEF SearchInit, NoQuestion, Early
<1>3. ask \in Questions
  BY <1>2 DEF NoQuestion, Questions
<1>4. ReadStores
  <2>1. \A p \in Passages : ContentOf[p] \in Contents
    BY SearchAssumption
  <2> QED
    BY <2>1 DEF SearchInit, ReadStores
<1>5. "idle" \notin Late
  BY DEF Late
<1>6. Kinds
  BY <1>1, <1>3, <1>4 DEF SearchInit, Kinds
<1>7. Noted
  BY <1>1, <1>2, <1>5 DEF SearchInit, Noted
<1>8. Chosen /\ Finished
  BY <1>2 DEF SearchInit, Chosen, Finished
<1>9. InScoreOrder
  BY <1>2 DEF InScoreOrder, SourcesComeFirst
<1> QED
  BY <1>6, <1>7, <1>8, <1>9 DEF SearchIInv

LEMMA SameOrder == InScoreOrder /\ UNCHANGED <<ask, hits, evidence, selected>> => InScoreOrder'
<1> SUFFICES ASSUME InScoreOrder, UNCHANGED <<ask, hits, evidence, selected>> PROVE InScoreOrder'
  OBVIOUS
<1>1. /\ ask.stage = "rerank" => SourcesFirst(evidence, hits)
      /\ ask.stage = "hits" /\ ~ask.ranked => SourcesFirst(selected, evidence)
  BY DEF InScoreOrder, SourcesComeFirst
<1>2. /\ ask'.stage = "rerank" => SourcesFirst(evidence', hits')
      /\ ask'.stage = "hits" /\ ~ask'.ranked => SourcesFirst(selected', evidence')
  BY <1>1
<1>3. SourcesComeFirst'
  BY <1>2 DEF SourcesComeFirst, SourcesFirst, ItemCount, Holds
<1> QED
  BY <1>3 DEF InScoreOrder, Descending, ItemOf

LEMMA WriteKeeps == SearchIInv /\ Write => SearchIInv'
<1> SUFFICES ASSUME SearchIInv, Write PROVE SearchIInv'
  OBVIOUS
<1>1. /\ seen' = seen \cup Searchable' /\ legible' = legible \cup shown'
      /\ ask' = ask /\ hits' = hits /\ evidence' = evidence /\ selected' = selected /\ blocks' = blocks
      /\ ask.stage # "done"
  BY DEF Write
<1>2. ReadStores'
  <2>0. ReadStores
    BY DEF SearchIInv, Kinds
  <2>1. CASE \E p \in Passages : /\ shown' \in {shown \ {p}, shown \cup {p}}
                                 /\ UNCHANGED <<fitting, vectors>>
    BY <2>0, <2>1 DEF ReadStores
  <2>2. CASE \E i \in Contents : /\ fitting' \in {fitting \ {i}, fitting \cup {i}}
                                 /\ UNCHANGED <<shown, vectors>>
    BY <2>0, <2>2 DEF ReadStores
  <2> DEFINE Edited(p, of, fits) ==
               /\ vectors' \in {[q \in DOMAIN vectors \ {p} |-> vectors[q]],
                               [q \in DOMAIN vectors \cup {p} |->
                                   IF q = p THEN [of |-> of, fits |-> fits] ELSE vectors[q]]}
               /\ UNCHANGED <<shown, fitting>>
  <2>3. ASSUME NEW p \in Passages, NEW of \in Contents, NEW fits \in BOOLEAN, Edited(p, of, fits)
        PROVE  ReadStores'
    <3>1. CASE vectors' = [q \in DOMAIN vectors \ {p} |-> vectors[q]]
      BY <2>0, <2>3, <3>1 DEF ReadStores
    <3>2. CASE vectors' = [q \in DOMAIN vectors \cup {p} |->
                             IF q = p THEN [of |-> of, fits |-> fits] ELSE vectors[q]]
      <4>1. DOMAIN vectors' \subseteq Passages
        BY <2>0, <3>2 DEF ReadStores
      <4>2. ASSUME NEW q \in DOMAIN vectors' PROVE vectors'[q].of \in Contents
        <5>1. vectors'[q] = IF q = p THEN [of |-> of, fits |-> fits] ELSE vectors[q]
          BY <3>2
        <5>2. q # p => q \in DOMAIN vectors
          BY <3>2
        <5>3. [of |-> of, fits |-> fits].of = of
          OBVIOUS
        <5> QED
          BY <2>0, <5>1, <5>2, <5>3 DEF ReadStores
      <4> QED
        BY <2>0, <2>3, <4>1, <4>2 DEF ReadStores
    <3> QED
      BY <2>3, <3>1, <3>2
  <2>4. \/ \E p \in Passages : /\ shown' \in {shown \ {p}, shown \cup {p}}
                              /\ UNCHANGED <<fitting, vectors>>
        \/ \E i \in Contents : /\ fitting' \in {fitting \ {i}, fitting \cup {i}}
                              /\ UNCHANGED <<shown, vectors>>
        \/ \E p \in Passages, of \in Contents, fits \in BOOLEAN : Edited(p, of, fits)
    BY Zenon DEF Write
  <2> HIDE DEF Edited
  <2> QED
    BY <2>1, <2>2, <2>3, <2>4
<1>3. Kinds'
  BY <1>1, <1>2 DEF SearchIInv, Kinds
<1>4. Noted'
  BY <1>1 DEF SearchIInv, Noted
<1>5. Chosen'
  BY <1>1 DEF SearchIInv, Chosen, Holds
<1>6. Finished'
  BY <1>1 DEF SearchIInv, Finished
<1>7. InScoreOrder'
  BY <1>1, SameOrder DEF SearchIInv
<1> QED
  BY <1>3, <1>4, <1>5, <1>6, <1>7 DEF SearchIInv

LEMMA AskKeeps ==
  ASSUME SearchIInv, NEW profile \in Profiles, NEW video \in BOOLEAN, Ask(profile, video)
  PROVE  SearchIInv'
<1>1. /\ ask.stage = "idle" /\ seen' = Searchable
      /\ ask' = [stage |-> "vector", vector |-> profile[1], keyword |-> profile[2],
                 video |-> video, ranked |-> FALSE]
      /\ UNCHANGED <<shown, fitting, vectors, hits, evidence, selected, blocks>>
  BY DEF Ask
<1>2. profile[1] \in [Passages -> 0 .. 100] /\ profile[2] \in [Passages -> 0 .. 100]
  BY SearchAssumption
<1>3. "vector" \in Early /\ "idle" \in Early /\ "vector" \notin Late
  BY DEF Early, Late
<1>4. ask' \in Questions /\ ask'.stage = "vector" /\ ~ask'.ranked
  BY <1>1, <1>2, <1>3 DEF Questions
<1>5. evidence = <<>> /\ blocks = <<>>
  BY <1>1, <1>3 DEF SearchIInv, Noted, Finished
<1>6. Kinds'
  BY <1>1, <1>4 DEF SearchIInv, Kinds, ReadStores
<1>7. Noted'
  BY <1>1, <1>3, <1>4, <1>5 DEF Noted, Searchable
<1>8. Chosen' /\ Finished'
  BY <1>1, <1>4, <1>5 DEF Chosen, Finished
<1>9. InScoreOrder'
  BY <1>4 DEF InScoreOrder, SourcesComeFirst
<1> QED
  BY <1>6, <1>7, <1>8, <1>9 DEF SearchIInv

LEMMA SearchesKeep == SearchIInv /\ (SearchVectors \/ SearchKeywords) => SearchIInv'
<1> SUFFICES ASSUME SearchIInv, SearchVectors \/ SearchKeywords PROVE SearchIInv'
  OBVIOUS
<1>1. UNCHANGED <<shown, fitting, vectors, evidence, selected, blocks, seen, legible>>
  BY DEF SearchVectors, SearchKeywords
<1>2. Asked /\ ReadStores /\ ask \in Questions /\ hits \in Seq(HitSet)
  BY DEF SearchIInv, Kinds, Questions, Asked
<1>3. /\ ask' \in Questions /\ ask'.ranked = ask.ranked
      /\ ask.stage \in Early /\ ask.stage # "idle" /\ ask'.stage \in Early /\ ask'.stage # "idle"
  <2>1. "keyword" \in Early /\ "hydrate" \in Early /\ "vector" \in Early
    BY DEF Early
  <2>2. CASE SearchVectors
    <3>1. At("vector", "keyword")
      BY <2>2 DEF SearchVectors
    <3> QED
      BY <1>2, <2>1, <3>1, StageMoves
  <2>3. CASE SearchKeywords
    <3>1. At("keyword", "hydrate")
      BY <2>3 DEF SearchKeywords
    <3> QED
      BY <1>2, <2>1, <3>1, StageMoves
  <2> QED
    BY <2>2, <2>3
<1>4. hits' \in Seq(HitSet)
  <2>1. CASE SearchVectors
    <3>1. <<>> \in Seq(HitSet)
      OBVIOUS
    <3> QED
      BY <1>2, <2>1, <3>1, VectorHitsAreHits DEF SearchVectors
  <2>2. CASE SearchKeywords
    <3>1. KeywordHits \in Seq(HitSet)
      BY <1>2, KeywordHitsAreHits
    <3>2. Merged(hits, KeywordHits) \in Seq(HitSet)
      BY <1>2, <3>1, MergedAreHits
    <3> QED
      BY <2>2, <3>2, RankedAreHits DEF SearchKeywords
  <2> QED
    BY <2>1, <2>2
<1>5. Early \cap (Late \cup {"hits", "neighbours", "done", "rerank", "texts", "select"}) = {}
  BY DEF Early, Late
<1>6. Kinds'
  BY <1>1, <1>3, <1>4 DEF SearchIInv, Kinds, ReadStores
<1>7. Noted'
  BY <1>1, <1>3, <1>5 DEF SearchIInv, Noted, Searchable
<1>8. Chosen' /\ Finished'
  BY <1>1, <1>3, <1>5 DEF SearchIInv, Chosen, Finished
<1>9. InScoreOrder'
  BY <1>3, <1>5 DEF SearchIInv, InScoreOrder, SourcesComeFirst
<1> QED
  BY <1>6, <1>7, <1>8, <1>9 DEF SearchIInv

LEMMA HydrateKeeps == SearchIInv /\ Hydrate => SearchIInv'
<1> SUFFICES ASSUME SearchIInv, Hydrate PROVE SearchIInv'
  OBVIOUS
<1>1. /\ hits' = SortedBy(Hydrated(hits), [h \in Range(Hydrated(hits)) |-> h.score])
      /\ evidence' = Shortlist(hits') /\ legible' = shown
      /\ UNCHANGED <<shown, fitting, vectors, selected, blocks, seen>>
  BY DEF Hydrate
<1>2. ask.stage = "hydrate" /\ ask' \in Questions /\ ask'.stage = "rerank" /\ ask'.ranked = ask.ranked
  <2>1. At("hydrate", "rerank") /\ "rerank" \in Early \cup Late /\ ask \in Questions
    BY DEF Hydrate, Late, SearchIInv, Kinds
  <2> QED
    BY <2>1, StageMoves
<1>3. "hydrate" \in Early /\ "rerank" \in Late /\ "rerank" \notin Early /\ ~ask.ranked
  BY <1>2 DEF Early, Late, SearchIInv, InScoreOrder
<1>4. /\ hits' \in Seq(HitSet) /\ Descending(hits')
      /\ \A n \in DOMAIN hits' : hits'[n].p \in Searchable
  <2> DEFINE s == Hydrated(hits)
             key == [h \in Range(s) |-> h.score]
  <2>1. s \in Seq(HitSet) /\ \A n \in DOMAIN s : s[n].p \in Searchable
    BY HydratedAreFit DEF SearchIInv, Kinds
  <2>2. \A i \in DOMAIN s : key[s[i]] = s[i].score /\ key[s[i]] \in Int
    <3>1. \A i \in DOMAIN s : s[i] \in HitSet /\ s[i] \in Range(s)
      BY <2>1 DEF Range
    <3>2. \A h \in HitSet : h.score \in Int
      BY DEF HitSet
    <3> QED
      BY <3>1, <3>2
  <2>3. hits' = SortedBy(s, key)
    BY <1>1
  <2> HIDE DEF s, key
  <2>4. /\ hits' \in Seq(HitSet) /\ DOMAIN hits' = DOMAIN s
        /\ \A k \in DOMAIN hits' : \E i \in DOMAIN s : hits'[k] = s[i]
        /\ \A k, m \in DOMAIN hits' : k < m => key[hits'[k]] >= key[hits'[m]]
    <3>1. s \in Seq(HitSet)
      BY <2>1
    <3>2. \A i \in DOMAIN s : key[s[i]] \in Int
      BY <2>2
    <3>3. hits' \in Seq(HitSet) /\ DOMAIN hits' = DOMAIN s
      BY <2>3, <3>1, <3>2, Sorted
    <3>4. \A k \in DOMAIN hits' : \E i \in DOMAIN s : hits'[k] = s[i]
      BY <2>3, <3>1, <3>2, Sorted
    <3>5. \A k, m \in DOMAIN hits' : k < m => key[hits'[k]] >= key[hits'[m]]
      BY <2>3, <3>1, <3>2, Sorted
    <3> QED
      BY <3>3, <3>4, <3>5
  <2>5. \A k \in DOMAIN hits' : key[hits'[k]] = hits'[k].score /\ hits'[k].p \in Searchable
    BY <2>1, <2>2, <2>4
  <2> QED
    BY <2>4, <2>5 DEF Descending
<1>5. /\ Drawn(evidence', hits') /\ Descending(evidence')
      /\ Full(evidence', hits', TopK)
  <2>1. PerContent \in Nat /\ PerContent >= 1 /\ TopK \in Nat
    <3>1. MaxPerContent \in Nat /\ MaxPerContent >= 1 /\ TopK \in Nat
      BY SearchAssumption
    <3> QED
      BY <3>1 DEF PerContent
  <2> DEFINE a == OneToMost(PerContent)
  <2>2. DOMAIN a = 1 .. PerContent /\ (\A i \in 1 .. PerContent : a[i] \in Nat) /\ a[1] = 1
    BY <2>1 DEF OneToMost
  <2>3. evidence' = Diverse(hits', a, TopK)
    BY <1>1 DEF Shortlist
  <2> HIDE DEF a
  <2> QED
    BY <1>4, <2>1, <2>2, <2>3, DiverseSelects
<1>6. evidence' \in Seq(HitSet) /\ \A n \in DOMAIN evidence' : \E m \in DOMAIN hits' : evidence'[n] = hits'[m]
  BY <1>5 DEF Drawn
<1>7. SourcesFirst(evidence', hits')
  BY <1>4, <1>5, SelectsSources
<1>8. Kinds'
  BY <1>1, <1>2, <1>4, <1>6 DEF SearchIInv, Kinds, ReadStores
<1>9. Noted'
  <2>1. Searchable \subseteq seen
    BY <1>2 DEF SearchIInv, Noted
  <2>2. \A n \in DOMAIN evidence' : evidence'[n].p \in seen
    BY <1>4, <1>6, <2>1
  <2> QED
    BY <1>1, <1>2, <1>3, <2>1, <2>2 DEF Noted, Searchable
<1>10. Chosen' /\ Finished'
  BY <1>1, <1>2 DEF SearchIInv, Chosen, Finished
<1>11. InScoreOrder'
  BY <1>2, <1>3, <1>5, <1>7 DEF InScoreOrder, SourcesComeFirst, SourcesFirst, Descending, ItemOf, Holds, ItemCount
<1> QED
  BY <1>8, <1>9, <1>10, <1>11 DEF SearchIInv

LEMMA OrderKeeps == SearchIInv /\ (Rerank \/ KeepOrder) => SearchIInv'
<1> SUFFICES ASSUME SearchIInv, Rerank \/ KeepOrder PROVE SearchIInv'
  OBVIOUS
<1>1. UNCHANGED <<shown, fitting, vectors, hits, evidence, selected, blocks, seen, legible>>
  BY DEF Rerank, KeepOrder
<1>2. /\ ask.stage \in {"rerank", "texts"} /\ ask'.stage \in {"texts", "select"}
      /\ ask' \in Questions /\ ask'.ranked = ask.ranked
  <2>1. "texts" \in Early \cup Late /\ "select" \in Early \cup Late /\ ask \in Questions
    BY DEF Late, SearchIInv, Kinds
  <2>2. At("rerank", "texts") \/ At("rerank", "select") \/ At("texts", "select")
    BY DEF Rerank, KeepOrder
  <2> QED
    BY <2>1, <2>2, StageMoves
<1>3. {"rerank", "texts", "select"} \subseteq Late /\ Early \cap Late = {}
  BY DEF Early, Late
<1>4. Kinds'
  BY <1>1, <1>2 DEF SearchIInv, Kinds, ReadStores
<1>5. Noted'
  BY <1>1, <1>2, <1>3 DEF SearchIInv, Noted, Searchable
<1>6. Chosen' /\ Finished'
  BY <1>1, <1>2 DEF SearchIInv, Chosen, Finished
<1>7. InScoreOrder'
  BY <1>1, <1>2, <1>3 DEF SearchIInv, InScoreOrder, SourcesComeFirst, Descending, ItemOf
<1> QED
  BY <1>4, <1>5, <1>6, <1>7 DEF SearchIInv

LEMMA ReorderStep ==
  ASSUME SearchIInv, NEW answer \in Answers, Reorder(answer)
  PROVE  SearchIInv' /\ Len(evidence') = Len(evidence) /\ ToSet(evidence') = ToSet(evidence)
<1>1. /\ ask.stage = "texts" /\ Accepted(answer) /\ evidence' = Reordered(answer)
      /\ ask' = [ask EXCEPT !.stage = "select", !.ranked = TRUE]
      /\ UNCHANGED <<shown, fitting, vectors, hits, selected, blocks, seen, legible>>
  BY DEF Reorder
<1>2. ask' \in Questions /\ ask'.stage = "select" /\ ask'.ranked
  <2>1. "select" \in Late
    BY DEF Late
  <2> QED
    BY <1>1, <2>1 DEF SearchIInv, Kinds, Questions
<1>3. "texts" \in Late /\ "select" \in Late /\ Early \cap (Late \cup {"rerank", "texts", "select"}) = {}
  BY DEF Early, Late
<1>4. evidence \in Seq(HitSet)
  BY DEF SearchIInv, Kinds
<1>5. evidence' \in Seq(HitSet) /\ Len(evidence') = Len(evidence) /\ ToSet(evidence') = ToSet(evidence)
  BY <1>1, <1>4, ReorderKeeps
<1>6. \A n \in DOMAIN evidence' : \E m \in DOMAIN evidence : evidence'[n] = evidence[m]
  BY <1>5 DEF ToSet
<1>7. Kinds'
  BY <1>1, <1>2, <1>5 DEF SearchIInv, Kinds, ReadStores
<1>8. Noted'
  BY <1>1, <1>2, <1>3, <1>6 DEF SearchIInv, Noted, Searchable
<1>9. Chosen' /\ Finished'
  BY <1>1, <1>2 DEF SearchIInv, Chosen, Finished
<1>10. InScoreOrder'
  BY <1>2, <1>3 DEF InScoreOrder, SourcesComeFirst
<1> QED
  BY <1>5, <1>7, <1>8, <1>9, <1>10 DEF SearchIInv

LEMMA SelectEvidenceKeeps == SearchIInv /\ SelectEvidence => SearchIInv'
<1> SUFFICES ASSUME SearchIInv, SelectEvidence PROVE SearchIInv'
  OBVIOUS
<1>1. /\ selected' = Diverse(evidence, IF ask.ranked THEN <<2>> ELSE OneToMost(2), MaxEvidence)
      /\ UNCHANGED <<shown, fitting, vectors, hits, evidence, blocks, seen, legible>>
  BY DEF SelectEvidence
<1>2. ask.stage = "select" /\ ask' \in Questions /\ ask'.stage = "hits" /\ ask'.ranked = ask.ranked
  <2>1. At("select", "hits") /\ "hits" \in Early \cup Late /\ ask \in Questions
    BY DEF SelectEvidence, Late, SearchIInv, Kinds
  <2> QED
    BY <2>1, StageMoves
<1>3. {"select", "hits"} \subseteq Late /\ Early \cap (Late \cup {"rerank", "texts", "select"}) = {}
  BY DEF Early, Late
<1>4. evidence \in Seq(HitSet) /\ MaxEvidence \in Nat
  BY SearchAssumption DEF SearchIInv, Kinds
<1>5. Drawn(selected', evidence) /\ (~ask.ranked /\ Descending(evidence) => SourcesFirst(selected', evidence))
  <2>1. CASE ask.ranked
    <3>1. selected' = Diverse(evidence, <<2>>, MaxEvidence)
      BY <1>1, <2>1
    <3>2. DOMAIN <<2>> = 1 .. 1 /\ \A a \in 1 .. 1 : <<2>>[a] \in Nat
      OBVIOUS
    <3>3. 1 \in Nat /\ 1 >= 1
      OBVIOUS
    <3>4. Drawn(selected', evidence)
      BY <1>4, <3>1, <3>2, <3>3, DiverseSelects
    <3> QED
      BY <2>1, <3>4
  <2>2. CASE ~ask.ranked
    <3> DEFINE a == OneToMost(2)
    <3>1. selected' = Diverse(evidence, a, MaxEvidence)
      BY <1>1, <2>2
    <3>2. DOMAIN a = 1 .. 2 /\ (\A i \in 1 .. 2 : a[i] \in Nat) /\ a[1] = 1
      BY DEF OneToMost
    <3>3. 2 \in Nat /\ 2 >= 1
      OBVIOUS
    <3> HIDE DEF a
    <3>4. Drawn(selected', evidence) /\ Full(selected', evidence, MaxEvidence)
      BY <1>4, <3>1, <3>2, <3>3, DiverseSelects
    <3> QED
      BY <1>4, <3>4, SelectsSources
  <2> QED
    BY <2>1, <2>2
<1>6. selected' \in Seq(HitSet) /\ \A n \in DOMAIN selected' : Holds(evidence, selected'[n].p)
  BY <1>5 DEF Drawn, Holds
<1>7. Kinds'
  BY <1>1, <1>2, <1>4, <1>6 DEF SearchIInv, Kinds, ReadStores
<1>8. Noted'
  BY <1>1, <1>2, <1>3 DEF SearchIInv, Noted, Searchable
<1>9. Chosen'
  BY <1>1, <1>2, <1>6 DEF Chosen, Holds
<1>10. Finished'
  BY <1>1, <1>2 DEF SearchIInv, Finished
<1>11. InScoreOrder'
  <2>1. ~ask.ranked => SourcesFirst(selected', evidence)
    BY <1>2, <1>5 DEF SearchIInv, InScoreOrder
  <2>2. ~ask.ranked => SourcesFirst(selected', evidence')
    BY <1>1, <2>1
  <2>3. SourcesComeFirst'
    BY <1>2, <2>2 DEF SourcesComeFirst, SourcesFirst, ItemCount, Holds
  <2> QED
    BY <1>2, <1>3, <2>3 DEF InScoreOrder
<1> QED
  BY <1>7, <1>8, <1>9, <1>10, <1>11 DEF SearchIInv

LEMMA ReadHitsKeeps == SearchIInv /\ ReadHits => SearchIInv'
<1> SUFFICES ASSUME SearchIInv, ReadHits PROVE SearchIInv'
  OBVIOUS
<1> DEFINE S == {h \in Range(selected) : h.p \in shown}
<1>1. /\ hits' = Only(selected, S)
      /\ UNCHANGED <<shown, fitting, vectors, evidence, selected, blocks, seen, legible>>
  BY DEF ReadHits
<1>2. ask.stage = "hits" /\ ask' \in Questions /\ ask'.stage = "neighbours" /\ ask'.ranked = ask.ranked
  <2>1. At("hits", "neighbours") /\ "neighbours" \in Early \cup Late /\ ask \in Questions
    BY DEF ReadHits, Late, SearchIInv, Kinds
  <2> QED
    BY <2>1, StageMoves
<1>3. {"hits", "neighbours"} \subseteq Late /\ Early \cap (Late \cup {"neighbours"}) = {}
  BY DEF Early, Late
<1>4. selected \in Seq(HitSet) /\ shown \subseteq legible
  BY <1>2, <1>3 DEF SearchIInv, Kinds, Noted
<1>5. \A h \in S : h.p \in shown /\ \E m \in DOMAIN selected : h = selected[m]
  BY DEF Range
<1> HIDE DEF S
<1>6. hits' \in Seq(HitSet) /\ \A n \in DOMAIN hits' : hits'[n] \in S
  BY <1>1, <1>4, OnlyKeeps
<1>7. \A n \in DOMAIN hits' : Holds(evidence, hits'[n].p) /\ hits'[n].p \in legible
  <2>1. \A m \in DOMAIN selected : Holds(evidence, selected[m].p)
    BY <1>2 DEF SearchIInv, Chosen
  <2> QED
    BY <1>4, <1>5, <1>6, <2>1
<1>8. hits' # <<>> => Len(selected) # 0
  <2> SUFFICES ASSUME hits' # <<>> PROVE Len(selected) # 0
    OBVIOUS
  <2>1. 1 \in DOMAIN hits'
    BY <1>6, EmptySeq
  <2>2. PICK m \in DOMAIN selected : hits'[1] = selected[m]
    BY <1>5, <1>6, <2>1
  <2>3. DOMAIN selected = 1 .. Len(selected) /\ Len(selected) \in Nat
    BY <1>4
  <2> QED
    BY <2>2, <2>3
<1>9. Kinds'
  BY <1>1, <1>2, <1>4, <1>6 DEF SearchIInv, Kinds, ReadStores
<1>10. Noted'
  BY <1>1, <1>2, <1>3 DEF SearchIInv, Noted, Searchable
<1>11. Chosen'
  BY <1>1, <1>2, <1>7, <1>8 DEF Chosen, Holds
<1>12. Finished'
  BY <1>1, <1>2 DEF SearchIInv, Finished
<1>13. InScoreOrder'
  BY <1>2, <1>3 DEF InScoreOrder, SourcesComeFirst
<1> QED
  BY <1>9, <1>10, <1>11, <1>12, <1>13 DEF SearchIInv

LEMMA BuildContextKeeps == SearchIInv /\ BuildContext => SearchIInv'
<1> SUFFICES ASSUME SearchIInv, BuildContext PROVE SearchIInv'
  OBVIOUS
<1> DEFINE n == Len(selected)
           C == Context(hits, shown, n)
<1>1. blocks' = C.list
  BY DEF BuildContext, Context
<1>2. UNCHANGED <<shown, fitting, vectors, hits, evidence, selected, seen, legible>>
  BY DEF BuildContext
<1>3. ask.stage = "neighbours" /\ ask' \in Questions /\ ask'.stage = "done" /\ ask'.ranked = ask.ranked
  <2>1. At("neighbours", "done") /\ "done" \in Early \cup Late /\ ask \in Questions
    BY DEF BuildContext, Late, SearchIInv, Kinds
  <2> QED
    BY <2>1, StageMoves
<1>4. {"done", "neighbours"} \subseteq Late /\ Early \cap (Late \cup {"done"}) = {}
  BY DEF Early, Late
<1>5. hits \in Seq(HitSet) /\ shown \subseteq Passages /\ shown \subseteq legible
  BY <1>3, <1>4 DEF SearchIInv, Kinds, ReadStores, Noted
<1>6. n \in Nat /\ (hits # <<>> => n # 0)
  <2>1. selected \in Seq(HitSet)
    BY DEF SearchIInv, Kinds
  <2> QED
    BY <1>3, <2>1 DEF SearchIInv, Chosen
<1>7. ListFits(blocks', hits, shown, n)
  <2> HIDE DEF n
  <2> QED
    BY <1>1, <1>5, <1>6, ContextOf
<1>8. ASSUME NEW m \in DOMAIN blocks'
      PROVE  /\ Holds(evidence, blocks'[m].p) /\ blocks'[m].p \in blocks'[m].ids
             /\ \A q \in blocks'[m].ids : q \in legible /\ ContentOf[q] = ContentOf[blocks'[m].p]
             /\ blocks'[m].length <= MaxChars \div n
  <2> DEFINE b == blocks'[m]
  <2>1. BlockFits(b, hits, shown, n)
    BY <1>7 DEF ListFits
  <2> HIDE DEF b, n
  <2>2. PICK k \in DOMAIN hits : b.p = hits[k].p
    BY <2>1 DEF BlockFits
  <2>3. Holds(evidence, b.p) /\ b.p \in legible
    BY <1>3, <2>2 DEF SearchIInv, Chosen
  <2>4. \A q \in b.ids : q \in legible /\ ContentOf[q] = ContentOf[b.p]
    BY <1>5, <2>1, <2>3 DEF BlockFits
  <2>5. b.p \in b.ids /\ b.length <= MaxChars \div n
    BY <2>1 DEF BlockFits
  <2> QED
    BY <2>3, <2>4, <2>5 DEF b
<1>9. Used(blocks') \in Nat /\ Used(blocks') <= MaxChars
  BY <1>7 DEF ListFits
<1>10. Kinds'
  BY <1>2, <1>3 DEF SearchIInv, Kinds, ReadStores
<1>11. Noted'
  BY <1>2, <1>3, <1>4 DEF SearchIInv, Noted, Searchable
<1>12. Chosen'
  BY <1>3 DEF Chosen
<1>13. Finished'
  BY <1>2, <1>3, <1>8, <1>9 DEF Finished, Holds
<1>14. InScoreOrder'
  BY <1>3, <1>4 DEF InScoreOrder, SourcesComeFirst
<1> QED
  BY <1>10, <1>11, <1>12, <1>13, <1>14 DEF SearchIInv

LEMMA SearchStays == SearchIInv /\ UNCHANGED searchVars => SearchIInv'
<1> SUFFICES ASSUME SearchIInv, UNCHANGED searchVars PROVE SearchIInv'
  OBVIOUS
<1>1. UNCHANGED <<shown, fitting, vectors, ask, hits, evidence, selected, blocks, seen, legible>>
  BY DEF searchVars
<1>2. Kinds' /\ Noted'
  BY <1>1 DEF SearchIInv, Kinds, ReadStores, Noted, Searchable
<1>3. Chosen' /\ Finished'
  BY <1>1 DEF SearchIInv, Chosen, Finished, Holds
<1>4. InScoreOrder'
  BY <1>1, SameOrder DEF SearchIInv
<1> QED
  BY <1>2, <1>3, <1>4 DEF SearchIInv

(* The invariant is inductive.                                             *)
LEMMA SearchInductive == SearchSpec => []SearchIInv
<1>1. SearchIInv /\ [SearchNext]_searchVars => SearchIInv'
  <2> SUFFICES ASSUME SearchIInv, [SearchNext]_searchVars PROVE SearchIInv'
    OBVIOUS
  <2>1. ASSUME NEW profile \in Profiles, NEW video \in BOOLEAN, Ask(profile, video) PROVE SearchIInv'
    BY <2>1, AskKeeps
  <2>2. ASSUME NEW answer \in Answers, Reorder(answer) PROVE SearchIInv'
    BY <2>2, ReorderStep
  <2> QED
    BY <2>1, <2>2, SearchesKeep, HydrateKeeps, OrderKeeps, SelectEvidenceKeeps, ReadHitsKeeps,
       BuildContextKeeps, WriteKeeps, SearchStays DEF SearchNext
<1> QED
  BY <1>1, SearchStarts, PTL DEF SearchSpec

(* The context of an answer is grounded in what may be shown, has one      *)
(* passage of each item first, keeps to its budget, and the reranking      *)
(* neither loses nor adds a passage: for all passages, scores, limits and  *)
(* writes of the indexers meanwhile.                                       *)
THEOREM AnswerSound == SearchSpec => AnswerIsSound
<1>1. SearchIInv => AnswerIsGrounded /\ SourcesComeFirst /\ ContextFits
  <2> SUFFICES ASSUME SearchIInv PROVE AnswerIsGrounded /\ SourcesComeFirst /\ ContextFits
    OBVIOUS
  <2>1. \A n \in DOMAIN evidence : evidence[n].p \in seen
    BY DEF SearchIInv, Noted
  <2>2. SourcesComeFirst
    BY DEF SearchIInv, InScoreOrder
  <2>3. MaxChars \in Nat
    BY SearchAssumption
  <2>4. CASE ask.stage = "done"
    <3>1. Used(blocks) - 2 <= MaxChars
      BY <2>3, <2>4 DEF SearchIInv, Finished
    <3> QED
      BY <2>1, <2>2, <2>4, <3>1 DEF SearchIInv, Finished, AnswerIsGrounded, ContextFits
  <2>5. CASE ask.stage # "done"
    <3>1. blocks = <<>> /\ DOMAIN <<>> = {}
      BY <2>5 DEF SearchIInv, Finished
    <3>2. Used(blocks) - 2 <= MaxChars
      BY <2>3, <3>1, UsedGrows
    <3> QED
      BY <2>1, <2>2, <3>1, <3>2 DEF AnswerIsGrounded, ContextFits
  <2> QED
    BY <2>4, <2>5
<1>2. SearchIInv /\ [SearchNext]_searchVars =>
         [ask.stage = "texts" => Len(evidence') = Len(evidence) /\ ToSet(evidence') = ToSet(evidence)]_searchVars
  <2> SUFFICES ASSUME SearchIInv, SearchNext, ask.stage = "texts"
               PROVE  Len(evidence') = Len(evidence) /\ ToSet(evidence') = ToSet(evidence)
    OBVIOUS
  <2>1. ASSUME NEW answer \in Answers, Reorder(answer)
        PROVE  Len(evidence') = Len(evidence) /\ ToSet(evidence') = ToSet(evidence)
    BY <2>1, ReorderStep
  <2>2. CASE evidence' = evidence
    BY <2>2
  <2>3. Write \/ KeepOrder => evidence' = evidence
    BY DEF Write, KeepOrder
  <2>4. ~(\E profile \in Profiles, video \in BOOLEAN : Ask(profile, video))
    BY DEF Ask
  <2>5. ~SearchVectors /\ ~SearchKeywords /\ ~Hydrate /\ ~Rerank /\ ~SelectEvidence /\ ~ReadHits /\ ~BuildContext
    BY DEF SearchVectors, SearchKeywords, Hydrate, Rerank, SelectEvidence, ReadHits, BuildContext, At
  <2> QED
    BY <2>1, <2>2, <2>3, <2>4, <2>5 DEF SearchNext
<1> QED
  BY <1>1, <1>2, SearchInductive, PTL DEF SearchSpec, AnswerIsSound, RerankKeepsAll

=============================================================================
