----------------------------- MODULE TextCutting -----------------------------
(***************************************************************************)
(* How texts are cut into chunks, in every place that does it:             *)
(* app/services/chunking.py (articles and comments), ifixit_rag (lines and *)
(* sentences), parrot_documents (windows that end at a line, and groups of *)
(* blocks), drone_documents (lines with a repeated context) and the video  *)
(* crawler (timed transcript groups).  The functions are pure: a state is  *)
(* one input, chosen at the start, and its cut.                            *)
(*                                                                         *)
(* A character matters by its kind: "x" stands for itself, " " is a blank, *)
(* "n" a line break and "." the end of a sentence.  A cut is <<a, b>>: it  *)
(* holds the characters a + 1 .. b.                                        *)
(***************************************************************************)
EXTENDS Integers, Sequences, FiniteSets, SequencesExt

CONSTANTS
    MaxText,    \* longest text
    MaxLimit,   \* greatest limit
    MaxUnits,   \* most segments, lines or blocks of one input
    Carry       \* how much of a full part the next one repeats

ASSUME CutBounds == MaxText \in Nat /\ MaxLimit \in Nat \ {0} /\ MaxUnits \in Nat /\ Carry \in Nat

VARIABLES cutter, text, limit, cuts
cutVars == <<cutter, text, limit, cuts>>

Least(a, b) == IF a < b THEN a ELSE b
Greatest(a, b) == IF a > b THEN a ELSE b
CutTexts == UNION {[1 .. n -> {"x", " ", "n", "."}] : n \in 0 .. MaxText}
Blank(t, i) == t[i] \in {" ", "n"}
Ink(t) == {i \in DOMAIN t : ~Blank(t, i)}
LastOf(S) == CHOOSE x \in S : \A y \in S : y <= x
FirstOf(S) == CHOOSE x \in S : \A y \in S : x <= y

-----------------------------------------------------------------------------
(* chunking.py.                                                            *)

TrimmedSpan(t) == IF Ink(t) = {} THEN <<0, 0>> ELSE <<FirstOf(Ink(t)) - 1, LastOf(Ink(t))>>

Slices(a, b, max) ==
    [k \in 1 .. (b - a + max - 1) \div max |-> <<a + (k - 1) * max, Least(a + k * max, b)>>]

CommentCuts(t, max) ==
    LET body == TrimmedSpan(t) IN
    IF body[1] = body[2] THEN << <<0, 0>> >> ELSE Slices(body[1], body[2], max)

(* Paragraphs end at two line breaks in a row, found from the left.        *)
ParagraphBreaks(t) ==
    LET first[i \in 0 .. Len(t)] ==
            IF i = 0 THEN FALSE
            ELSE t[i] = "n" /\ i < Len(t) /\ t[i + 1] = "n" /\ ~first[i - 1]
    IN  {i \in DOMAIN t : first[i]}

(* The first paragraph that is not blank, without the blanks around it.    *)
LeadParagraph(t) ==
    LET start == TrimmedSpan(t)[1]
        ends == {i - 1 : i \in {k \in ParagraphBreaks(t) : k > start}} \cup {Len(t)}
    IN  <<start, LastOf({i \in Ink(t) : i <= FirstOf(ends)})>>

SkipBlanks(t, a) == FirstOf({i - 1 : i \in {k \in Ink(t) : k > a}} \cup {Len(t)})

\* Mutant: what the lead leaves of a long first paragraph is skipped with it.
LeadIsParagraph(t, max) ==
    IF Ink(t) = {} THEN [lead |-> <<0, 0>>, body |-> <<0, 0>>]
    ELSE LET p == LeadParagraph(t)
             stop == Least(p[1] + max, p[2])
         IN  [lead |-> <<p[1], stop>>,
              body |-> <<Least(SkipBlanks(t, p[2]), TrimmedSpan(t)[2]), TrimmedSpan(t)[2]>>]

LeadSegment(t, max) ==
    IF Ink(t) = {} THEN [lead |-> <<0, 0>>, body |-> <<0, 0>>]
    ELSE LET p == LeadParagraph(t)
             stop == Least(p[1] + max, p[2])
             next == IF stop >= p[2] THEN SkipBlanks(t, p[2]) ELSE stop
         IN  [lead |-> <<p[1], stop>>,
              body |-> <<Least(next, TrimmedSpan(t)[2]), TrimmedSpan(t)[2]>>]

ArticleCuts(t, max) ==
    LET s == LeadSegment(t, max) IN << s.lead >> \o Slices(s.body[1], s.body[2], max)

-----------------------------------------------------------------------------
(* ifixit_rag/chunking.py: _split_ranges, with a budget of max characters. *)

RunEnd(t, i, kinds) ==
    CHOOSE e \in i + 1 .. Len(t) :
        /\ \A k \in i + 1 .. e : t[k] \in kinds
        /\ e = Len(t) \/ t[e + 1] \notin kinds

(* Where the pattern matches end: line breaks, or the blanks that follow   *)
(* the end of a sentence.                                                  *)
Boundaries(t) ==
    LET from[i \in 0 .. Len(t)] ==
            IF i = Len(t) THEN {Len(t)}
            ELSE IF t[i + 1] = "n" THEN LET e == RunEnd(t, i, {"n"}) IN {e} \cup from[e]
            ELSE IF t[i + 1] = " " /\ i > 0 /\ t[i] = "."
                 THEN LET e == RunEnd(t, i, {"n", " "}) IN {e} \cup from[e]
            ELSE from[i + 1]
    IN  from[0]

CloseRange(c, end, max) ==
    IF c.end > c.start /\ end - c.start > max
    THEN [ranges |-> Append(c.ranges, <<c.start, c.end>>), start |-> c.end, end |-> end]
    ELSE [c EXCEPT !.end = end]

SentenceCuts(t, max) ==
    IF Len(t) <= max THEN << <<0, Len(t)>> >>
    ELSE LET at == Boundaries(t)
             c == FoldLeftDomain(LAMBDA acc, e : IF e \in at THEN CloseRange(acc, e, max) ELSE acc,
                                 [ranges |-> <<>>, start |-> 0, end |-> 0], t)
         IN  IF c.end > c.start THEN Append(c.ranges, <<c.start, c.end>>) ELSE c.ranges

-----------------------------------------------------------------------------
(* parrot_documents/prepare.py: chunk_ranges.                              *)

LineCuts(t, max) ==
    LET from[a \in 0 .. Len(t)] ==
            IF a = Len(t) THEN <<>>
            ELSE LET b == Least(a + max, Len(t))
                     lines == {i \in a + max \div 2 + 1 .. b : t[i] = "n"}
                     end == IF b < Len(t) /\ lines # {} THEN LastOf(lines) ELSE b
                 IN  << <<a, end>> >> \o from[end]
    IN  from[0]

-----------------------------------------------------------------------------
(* Units: a block of parrot_documents has a length and is atomic or not, a *)
(* line of drone_documents a length, a segment of a transcript a length    *)
(* and an end in time.  A cut is <<first unit, last unit, length>>.        *)

Sizes == 1 .. MaxLimit + 1
UnitLists == UNION {[1 .. n -> [size : Sizes, mark : 0 .. 1]] : n \in 0 .. MaxUnits}

Opened(groups, k, size) == Append(groups, <<k, k, size>>)
Extended(groups, k, size) ==
    [groups EXCEPT ![Len(groups)] = <<@[1], k, @[3] + size>>]

(* Blocks that follow each other are joined by two characters; an atomic   *)
(* block (mark 1) is alone.                                                *)
BlockCuts(u, max) ==
    FoldLeftDomain(LAMBDA groups, k :
        IF /\ groups # <<>> /\ u[k].mark = 0 /\ u[k - 1].mark = 0
           /\ groups[Len(groups)][3] + u[k].size + 2 <= max
        THEN Extended(groups, k, u[k].size + 2) ELSE Opened(groups, k, u[k].size), <<>>, u)

(* Lines: a full part is closed and the next one begins with its end, at   *)
(* most Carry characters, on a line of their own.                          *)
PartCuts(u, max) ==
    FoldLeftDomain(LAMBDA parts, k :
        IF parts = <<>> THEN Opened(parts, k, u[k].size)
        ELSE LET full == parts[Len(parts)][3] IN
             IF full + u[k].size > max
             THEN Opened(parts, k, Least(full, Carry) + 1 + u[k].size)
             ELSE Extended(parts, k, u[k].size + 1), <<>>, u)

(* Segments: one a second, two when it is marked, and a group may last     *)
(* max + 1 seconds.                                                        *)
Ends(u, k) == FoldLeft(LAMBDA sum, s : sum + 1 + s.mark, 0, SubSeq(u, 1, k))
TranscriptCuts(u, max) ==
    FoldLeftDomain(LAMBDA groups, k :
        IF /\ groups # <<>>
           /\ groups[Len(groups)][3] + 1 + u[k].size <= max
           /\ Ends(u, k) - Ends(u, groups[Len(groups)][1] - 1) <= max + 1
        THEN Extended(groups, k, u[k].size + 1) ELSE Opened(groups, k, u[k].size), <<>>, u)

-----------------------------------------------------------------------------
OfText == {"comment", "article", "sentences", "lines"}
OfUnits == {"blocks", "parts", "transcript"}

CutInit ==
    /\ limit \in 1 .. MaxLimit
    /\ \/ cutter \in OfText /\ text \in CutTexts
       \/ cutter \in OfUnits /\ text \in UnitLists
    /\ cuts = <<>>

CutOf(c, t, max) ==
    CASE c = "comment" -> CommentCuts(t, max)
      [] c = "article" -> ArticleCuts(t, max)
      [] c = "sentences" -> SentenceCuts(t, max)
      [] c = "lines" -> LineCuts(t, max)
      [] c = "blocks" -> BlockCuts(t, max)
      [] c = "parts" -> PartCuts(t, max)
      [] c = "transcript" -> TranscriptCuts(t, max)

CutText ==
    /\ cutter # "done"
    /\ cuts' = CutOf(cutter, text, limit)
    /\ cutter' = "done" /\ text' = <<cutter, text>> /\ UNCHANGED limit

CutSpec == CutInit /\ [][CutText]_cutVars

-----------------------------------------------------------------------------
(* Properties.                                                             *)

(* No visible character and no unit is lost, repeated or moved: each is in *)
(* exactly one cut and the cuts are in the order of the text.              *)
CutsCoverOnce ==
    cutter = "done" =>
        LET t == text[2] IN
        /\ \A i, j \in DOMAIN cuts : i < j =>
              IF text[1] \in OfUnits THEN cuts[i][2] < cuts[j][1] ELSE cuts[i][2] <= cuts[j][1]
        /\ IF text[1] \in OfUnits
           THEN \A k \in DOMAIN t : \E i \in DOMAIN cuts : cuts[i][1] <= k /\ k <= cuts[i][2]
           ELSE \A k \in Ink(t) : \E i \in DOMAIN cuts : cuts[i][1] < k /\ k <= cuts[i][2]

(* A cut is within the limit unless it is one unit that cannot be divided; *)
(* the repeated context of a part counts on top.                           *)
CutsFit ==
    cutter = "done" =>
        LET t == text[2] IN
        \A i \in DOMAIN cuts :
            CASE text[1] \in {"comment", "article", "lines"} -> cuts[i][2] - cuts[i][1] <= limit
              [] text[1] = "sentences" ->
                    \/ cuts[i][2] - cuts[i][1] <= limit
                    \/ \A b \in Boundaries(t) : ~(cuts[i][1] < b /\ b < cuts[i][2])
              [] text[1] = "parts" ->
                    cuts[i][3] <= Greatest(limit + 1, Carry + 1 + t[cuts[i][1]].size)
              [] OTHER ->
                    \/ cuts[i][1] = cuts[i][2]
                    \/ /\ cuts[i][3] <= limit
                       /\ text[1] = "transcript" =>
                            Ends(t, cuts[i][2]) - Ends(t, cuts[i][1] - 1) <= limit + 1

(* The cutters keep the whole text, once, in cuts that fit. *)
CutsAreSound == CutsCoverOnce /\ CutsFit
=============================================================================
