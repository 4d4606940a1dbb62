----------------------------- MODULE AnswerSearch -----------------------------
(***************************************************************************)
(* What one question is answered from: the vector and the keyword search   *)
(* (services/retrieval.py), the optional reranking (reranking.py) and the  *)
(* context given to the model (answer_context.py).  Every step reads the   *)
(* stores anew while the indexers change them, so a hit may be withdrawn,  *)
(* or a point out of date, at any step.                                    *)
(*                                                                         *)
(* Scores are hundredths.  How texts give scores is left open.             *)
(***************************************************************************)
EXTENDS Integers, Sequences, FiniteSets, SequencesExt, FiniteSetsExt

CONSTANTS
    Passages,       \* content_chunks
    Contents,       \* content_items
    Unrelated,      \* videos whose description says they are off topic
    ContentOf,      \* [Passages -> Contents]
    Position,       \* [Passages -> Nat], chunk_index
    PassageLength,  \* [Passages -> Nat]
    HeaderLength,
    Profiles,       \* pairs of scores [Passages -> 0 .. 100]: vector and keyword
    RerankScores,
    VectorLimit, KeywordLimit, TopK, MaxPerContent, MaxEvidence, MaxChars,
    MaxWrites       \* bound on the writes of the indexers

ASSUME SearchAssumption ==
    /\ ContentOf \in [Passages -> Contents] /\ Unrelated \subseteq Contents
    /\ Position \in [Passages -> Nat] /\ PassageLength \in [Passages -> Nat]
    /\ \A p, q \in Passages : ContentOf[p] = ContentOf[q] /\ Position[p] = Position[q] => p = q
    /\ IsFiniteSet(Passages) /\ RerankScores \subseteq Int
    /\ Profiles \subseteq [Passages -> 0 .. 100] \X [Passages -> 0 .. 100]
    /\ {HeaderLength, VectorLimit, KeywordLimit, MaxChars, MaxWrites} \subseteq Nat
    /\ {TopK, MaxPerContent, MaxEvidence} \subseteq Nat \ {0}

VARIABLES
    shown,      \* rows the searches may show: not obsolete
    fitting,    \* items that pass the question's filters
    vectors,    \* points, as [of, fits]: the item and the filter's verdict on the payload
    writes,
    ask,        \* the question
    hits, evidence, selected, blocks,
    seen, legible   \* passages that could be shown since the question, since hydration

searchVars == <<shown, fitting, vectors, writes, ask, hits, evidence, selected, blocks, seen, legible>>

Threshold == 20     \* DEFAULT_VECTOR_SCORE_THRESHOLD, _KEYWORD_MINIMUM_MATCH_SCORE
Unhydrated == 101      \* a score that is not there
NoQuestion == [stage |-> "idle", vector |-> [p \in Passages |-> 0],
               keyword |-> [p \in Passages |-> 0], video |-> FALSE, ranked |-> FALSE]

Searchable == {p \in shown : ContentOf[p] \in fitting}

SearchInit ==
    /\ shown = Passages /\ fitting = Contents
    /\ vectors = [p \in Passages |-> [of |-> ContentOf[p], fits |-> TRUE]]
    /\ writes = 0 /\ ask = NoQuestion
    /\ hits = <<>> /\ evidence = <<>> /\ selected = <<>> /\ blocks = <<>>
    /\ seen = {} /\ legible = {}

-----------------------------------------------------------------------------
(* Lists. *)

(* sorted(): the larger key first, equal keys in the order they came. *)
SortedBy(s, key) ==
    LET ahead(i, j) == key[s[i]] > key[s[j]] \/ (key[s[i]] = key[s[j]] /\ i < j)
    IN  [n \in DOMAIN s |-> s[CHOOSE i \in DOMAIN s :
            Cardinality({j \in DOMAIN s : ahead(j, i)}) = n - 1]]
First(s, n) == SubSeq(s, 1, Min({n, Len(s)}))

Only(list, S) == FoldLeft(LAMBDA acc, x : IF x \in S THEN Append(acc, x) ELSE acc, <<>>, list)

ItemCount(list, i) == Cardinality({n \in DOMAIN list : ContentOf[list[n].p] = i})
Holds(list, p) == \E n \in DOMAIN list : list[n].p = p

(* The list is gone through once for each allowance; a hit is taken when   *)
(* its item has fewer than that.                                           *)
Round(chosen, list, most, limit) ==
    FoldLeft(LAMBDA acc, h :
        IF Len(acc) >= limit \/ Holds(acc, h.p) \/ ItemCount(acc, ContentOf[h.p]) >= most
        THEN acc ELSE Append(acc, h), chosen, list)
Diverse(list, allowances, limit) ==
    FoldLeft(LAMBDA acc, most : Round(acc, list, most, limit), <<>>, allowances)
OneToMost(n) == [a \in 1 .. n |-> a]

-----------------------------------------------------------------------------
(* Scores.  A keyword score counts for 85 hundredths; where both agree the *)
(* smaller one adds a tenth.  In units of 1/10000. *)
Or0(x) == IF x = Unhydrated THEN 0 ELSE x
Score(v, k) == Min({10000, Max({100 * Or0(v), 85 * Or0(k)}) + 10 * Min({Or0(v), Or0(k)})})

Hit(p, of, v, k) == [p |-> p, of |-> of, v |-> v, k |-> k, score |-> Score(v, k)]
Found(S, key) == SortedBy(SetToSeq(S), key)

(* The points the filter lets through, from the threshold on. *)
VectorHits ==
    LET found == {p \in DOMAIN vectors : vectors[p].fits /\ ask.vector[p] >= Threshold}
    IN  [n \in DOMAIN First(Found(found, ask.vector), VectorLimit) |->
            LET p == Found(found, ask.vector)[n] IN Hit(p, vectors[p].of, ask.vector[p], Unhydrated)]

(* Two chunks of an item at most, the best ones. *)
KeywordHits ==
    LET match == {p \in Searchable : ask.keyword[p] >= Threshold}
        better(p) == {q \in match : /\ ContentOf[q] = ContentOf[p]
                                    /\ \/ ask.keyword[q] > ask.keyword[p]
                                       \/ ask.keyword[q] = ask.keyword[p]
                                            /\ Position[q] < Position[p]}
        found == {p \in match : Cardinality(better(p)) < 2}
    IN  [n \in DOMAIN First(Found(found, ask.keyword), KeywordLimit) |->
            LET p == Found(found, ask.keyword)[n] IN Hit(p, ContentOf[p], Unhydrated, ask.keyword[p])]

(* A chunk both searches found is one hybrid hit, whose item is the row's. *)
Merged(vs, ks) ==
    LET both(h) == {n \in DOMAIN ks : ks[n].p = h.p}
        join(h) == IF both(h) = {} THEN h
                   ELSE LET k == ks[CHOOSE n \in both(h) : TRUE] IN Hit(h.p, k.of, h.v, k.k)
        alone == Only(ks, {k \in Range(ks) : ~Holds(vs, k.p)})
    IN  [n \in DOMAIN vs |-> join(vs[n])] \o alone

Ranked(list) == SortedBy(list, [h \in Range(list) |-> 1000 * h.score + Or0(h.v)])

-----------------------------------------------------------------------------
(* The question. *)

Ask(profile, video) ==
    /\ ask.stage = "idle"
    /\ ask' = [stage |-> "vector", vector |-> profile[1], keyword |-> profile[2],
               video |-> video, ranked |-> FALSE]
    /\ seen' = Searchable
    /\ UNCHANGED <<shown, fitting, vectors, writes, hits, evidence, selected, blocks, legible>>

At(stage, next) == ask.stage = stage /\ ask' = [ask EXCEPT !.stage = next]

SearchVectors ==
    /\ At("vector", "keyword")
    /\ hits' \in {VectorHits, <<>>}     \* a search that fails is left out
    /\ UNCHANGED <<shown, fitting, vectors, writes, evidence, selected, blocks, seen, legible>>

SearchKeywords ==
    /\ At("keyword", "hydrate")
    /\ hits' = Ranked(Merged(hits, KeywordHits))
    /\ UNCHANGED <<shown, fitting, vectors, writes, evidence, selected, blocks, seen, legible>>

(* The rows decide: a hit whose row is hidden, does not pass the filters   *)
(* or belongs to another item is dropped.                                  *)
HydratedAnyway(list) ==     \* Mutant: what the vector index says is believed.
    Only(list, {h \in Range(list) : ask.video => ContentOf[h.p] \notin Unrelated})
Hydrated(list) ==
    Only(list, {h \in Range(list) : /\ h.p \in Searchable /\ h.of = ContentOf[h.p]
                                    /\ ask.video => ContentOf[h.p] \notin Unrelated})

PerContent == IF ask.video THEN 1 ELSE MaxPerContent
Shortlist(list) == Diverse(list, OneToMost(PerContent), TopK)

Hydrate ==
    /\ At("hydrate", "rerank")
    /\ hits' = SortedBy(Hydrated(hits), [h \in Range(Hydrated(hits)) |-> h.score])
    /\ evidence' = Shortlist(hits')
    /\ legible' = shown
    /\ UNCHANGED <<shown, fitting, vectors, writes, selected, blocks, seen>>

-----------------------------------------------------------------------------
(* Reranking: all candidates in the order of the model's scores, equal     *)
(* ones in their own order, or the list as it was.                         *)
Answers == UNION {[1 .. n -> [index : 1 .. Len(evidence) + 1, score : RerankScores]] :
                     n \in {Len(evidence), Len(evidence) + 1}}
Accepted(answer) ==
    /\ Len(answer) = Len(evidence)
    /\ \A n \in DOMAIN answer : answer[n].index \in DOMAIN evidence
    /\ \A n, m \in DOMAIN answer : answer[n].index = answer[m].index => n = m
Reordered(answer) ==
    LET scoreAt == [i \in DOMAIN evidence |->
                       answer[CHOOSE n \in DOMAIN answer : answer[n].index = i].score]
        order == SortedBy([i \in DOMAIN evidence |-> i], scoreAt)
    IN  [n \in DOMAIN order |-> evidence[order[n]]]

Rerank ==
    /\ At("rerank", "texts")
    /\ \A n \in DOMAIN evidence : evidence[n].p \in shown
    /\ UNCHANGED <<shown, fitting, vectors, writes, hits, evidence, selected, blocks, seen, legible>>

Reorder(answer) ==
    /\ ask.stage = "texts" /\ Accepted(answer)
    /\ ask' = [ask EXCEPT !.stage = "select", !.ranked = TRUE]
    /\ evidence' = Reordered(answer)
    /\ UNCHANGED <<shown, fitting, vectors, writes, hits, selected, blocks, seen, legible>>

(* No reranker, no evidence, a text that has gone, an answer that is late, *)
(* malformed or not accepted.                                              *)
KeepOrder ==
    /\ At("rerank", "select") \/ At("texts", "select")
    /\ UNCHANGED <<shown, fitting, vectors, writes, hits, evidence, selected, blocks, seen, legible>>

-----------------------------------------------------------------------------
(* The context. *)

SelectEvidence ==
    /\ At("select", "hits")
    /\ selected' = Diverse(evidence, IF ask.ranked THEN <<2>> ELSE OneToMost(2), MaxEvidence)
    /\ UNCHANGED <<shown, fitting, vectors, writes, hits, evidence, blocks, seen, legible>>

(* The rows of the selected passages that can still be shown. *)
ReadHits ==
    /\ At("hits", "neighbours")
    /\ hits' = Only(selected, {h \in Range(selected) : h.p \in shown})
    /\ UNCHANGED <<shown, fitting, vectors, writes, evidence, selected, blocks, seen, legible>>

Beside(p, q) == /\ ContentOf[p] = ContentOf[q]
                /\ Position[p] = Position[q] + 1 \/ Position[q] = Position[p] + 1
InOrder(S) == Found(S, [q \in S |-> 1000 - Position[q]])

(* Each passage gets its share of the budget: its own text, cut, and those *)
(* neighbours that still fit as a whole.                                   *)
Budget(left, among) == Min({left - HeaderLength - 2, MaxChars \div among})
Filled(p, budget, rows) ==
    FoldLeft(LAMBDA acc, q :
        IF acc.length + PassageLength[q] + 2 <= budget
        THEN [length |-> acc.length + PassageLength[q] + 2, ids |-> acc.ids \cup {q}] ELSE acc,
        [length |-> Min({budget, PassageLength[p]}), ids |-> {p}],
        InOrder({q \in rows : Beside(p, q)}))
Used(list) == FoldLeft(LAMBDA acc, b : acc + HeaderLength + b.length + 2, 0, list)

(* The next passage's block, of the rows read for its neighbours. *)
WithBlock(acc, h, rows, among) ==
    LET budget == Budget(MaxChars - Used(acc.list), among)
        f == Filled(h.p, budget, rows)
    IN  IF acc.full \/ budget < 1 THEN [acc EXCEPT !.full = TRUE]
        ELSE IF f.length = 0 THEN acc
        ELSE [acc EXCEPT !.list = Append(@, [p |-> h.p, length |-> f.length, ids |-> f.ids])]

BuildContext ==
    /\ At("neighbours", "done")
    /\ blocks' = FoldLeft(LAMBDA acc, h : WithBlock(acc, h, shown, Len(selected)),
                          [list |-> <<>>, full |-> FALSE], hits).list
    /\ UNCHANGED <<shown, fitting, vectors, writes, hits, evidence, selected, seen, legible>>

-----------------------------------------------------------------------------
(* What the indexers do meanwhile: chunks become obsolete and come back,   *)
(* items are edited, points are deleted and written.                       *)
Write ==
    /\ ask.stage # "done"
    /\ writes < MaxWrites /\ writes' = writes + 1
    /\ \/ \E p \in Passages : /\ shown' \in {shown \ {p}, shown \cup {p}}
                               /\ UNCHANGED <<fitting, vectors>>
       \/ \E i \in Contents : /\ fitting' \in {fitting \ {i}, fitting \cup {i}}
                               /\ UNCHANGED <<shown, vectors>>
       \/ \E p \in Passages, of \in Contents, fits \in BOOLEAN :
              /\ vectors' \in {[q \in DOMAIN vectors \ {p} |-> vectors[q]],
                              [q \in DOMAIN vectors \cup {p} |->
                                  IF q = p THEN [of |-> of, fits |-> fits] ELSE vectors[q]]}
              /\ UNCHANGED <<shown, fitting>>
    /\ seen' = seen \cup Searchable' /\ legible' = legible \cup shown'
    /\ UNCHANGED <<ask, hits, evidence, selected, blocks>>

SearchNext ==
    \/ \E profile \in Profiles, video \in BOOLEAN : Ask(profile, video)
    \/ SearchVectors \/ SearchKeywords \/ Hydrate
    \/ Rerank \/ KeepOrder
    \/ \E answer \in Answers : Reorder(answer)
    \/ SelectEvidence \/ ReadHits \/ BuildContext
    \/ Write

SearchSpec == SearchInit /\ [][SearchNext]_searchVars

-----------------------------------------------------------------------------
(* Properties. *)

(* Nothing withdrawn is cited: what was hidden or filtered out during the  *)
(* whole question is no evidence, though its point or an earlier read said *)
(* otherwise; and every text of the context belongs to the passage it is   *)
(* numbered with and could still be shown after the evidence was chosen.   *)
AnswerIsGrounded ==
    /\ \A n \in DOMAIN evidence : evidence[n].p \in seen
    /\ \A n \in DOMAIN blocks :
          /\ Holds(evidence, blocks[n].p)
          /\ blocks[n].p \in blocks[n].ids
          /\ \A q \in blocks[n].ids : q \in legible /\ ContentOf[q] = ContentOf[blocks[n].p]

(* A second passage of one item never takes the place of another item's    *)
(* first one, and the first one is the item's best: in the shortlist and,  *)
(* when no reranker has ordered it, in the answer's evidence.              *)
SourcesFirst(list, all) ==
    LET items(l) == {ContentOf[l[n].p] : n \in DOMAIN l}
    IN  /\ (\E i \in items(list) : ItemCount(list, i) > 1) => items(all) = items(list)
        /\ \A n \in DOMAIN list, m \in DOMAIN all :
              (/\ ContentOf[list[n].p] = ContentOf[all[m].p]
               /\ all[m].score > list[n].score) => Holds(list, all[m].p)
SourcesComeFirst ==
    /\ ask.stage = "rerank" => SourcesFirst(evidence, hits)
    /\ ask.stage = "hits" /\ ~ask.ranked => SourcesFirst(selected, evidence)

(* The context keeps to its budget, and no passage takes more of it than   *)
(* its share.                                                              *)
ContextFits ==
    /\ Used(blocks) - 2 <= MaxChars
    /\ \A n \in DOMAIN blocks : blocks[n].length <= MaxChars \div Len(selected)

(* The model reorders the shortlist; it neither loses nor adds a passage.  *)
RerankKeepsAll ==
    [][ask.stage = "texts" =>
        /\ Len(evidence') = Len(evidence)
        /\ ToSet(evidence') = ToSet(evidence)]_searchVars

(* The context of an answer: grounded in what may be shown, one passage of *)
(* each item first, within its budget, and reranked without a loss.        *)
AnswerIsSound == [](AnswerIsGrounded /\ SourcesComeFirst /\ ContextFits) /\ RerankKeepsAll
=============================================================================
