----------------------------- MODULE MCProgress -----------------------------
(***************************************************************************)
(* Instances of the modules whose work must come to an end, each under the *)
(* fairness of its own processes.  A behaviour runs one of them, chosen at *)
(* the start.                                                              *)
(***************************************************************************)
EXTENDS ContentIndex, ForumIndex, DroneBatch, LiteraturePapers

CONSTANTS i1, i2, t1, t2, r1, r2, p1, p2, j1, j2, withDoi, noDoi, namesake

(* t1 and t2 are two targets at home and away. *)
Stores == [t \in Targets |-> IF t = t2 THEN "away" ELSE "home"]

(* Two crawl runs meet the same two items in opposite order; the newer     *)
(* chunker cuts the first item into fewer chunks.                          *)
TwoPages == [r \in Runs |-> IF r = r1 THEN <<<<i1, i2>>>> ELSE <<<<i2, i1>>>>]
Cuts == <<[i \in Items |-> IF i = i1 THEN 2 ELSE 0], [i \in Items |-> IF i = i1 THEN 1 ELSE 0]>>

(* The reply of a topic loses its text and gets it back. *)
Post(x) == [text |-> x, meta |-> "m"]
TopicSnapshots == {p1 :> Post("x") @@ p2 :> Post(x) : x \in PostTexts}
ReverseIds == [r \in 1 .. MaxRows |-> MaxRows - r]

(* Two documents, one with pictures, and a worker for each lane. *)
TwoJobs == <<j1, j2>>
LaneEach == [w \in BatchWorkers |-> w]

(* An article listed with and without its DOI, and another of that title; *)
(* what is quoted from them is left out.                                   *)
Numbers == [c \in Records |-> IF c = namesake THEN 2 ELSE 1]
Dois == [c \in Records |-> IF c = withDoi THEN 11 ELSE NoId]
Titles == [c \in Records |-> 21]
Scores == [c \in Records |-> IF c = withDoi THEN 1 ELSE 0]
Unquoted == [c \in Records |-> {}]
OneFound == {<<namesake>>, <<noDoi, withDoi>>}

VARIABLE unit
Units == {"content", "forum", "batch", "papers"}
allVars == <<unit, indexVars, forumVars, batchVars, paperVars>>

OneInit ==
    /\ unit \in Units
    /\ IndexInit /\ PostInit /\ BatchInit /\ PapersInit
    /\ unit # "content" => target = t1
    /\ unit # "forum" => aim = t1

Crawling == unit = "content" /\ IndexNext /\ UNCHANGED <<unit, forumVars, batchVars, paperVars>>
Forum == unit = "forum" /\ PostNext /\ UNCHANGED <<unit, indexVars, batchVars, paperVars>>
Batch == unit = "batch" /\ BatchNext /\ UNCHANGED <<unit, indexVars, forumVars, paperVars>>
Ranking == unit = "papers" /\ PapersNext /\ UNCHANGED <<unit, indexVars, forumVars, batchVars>>

OneNext == Crawling \/ Forum \/ Batch \/ Ranking
OneSpec == OneInit /\ [][OneNext]_allVars

(* The fairness of each module, in the behaviours that run it. *)
FairOneSpec ==
    /\ OneSpec
    /\ \A w \in Workers : WF_indexVars(unit = "content" /\ WorkerStep(w))
    /\ WF_forumVars(unit = "forum" /\ BeginPass) /\ WF_forumVars(unit = "forum" /\ PassStep)
    /\ SF_forumVars(unit = "forum" /\ StartEmbedding)
    /\ SF_forumVars(unit = "forum" /\ OpenPoints)
    /\ \A r \in 1 .. MaxRows : /\ SF_forumVars(unit = "forum" /\ EmbedRow(r))
                               /\ SF_forumVars(unit = "forum" /\ DeleteExpired(r))
    /\ WF_batchVars(unit = "batch" /\ BatchStep)
    /\ \A r \in LitRuns : WF_paperVars(unit = "papers" /\ Works(r))
=============================================================================
