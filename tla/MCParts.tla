------------------------------- MODULE MCParts -------------------------------
(***************************************************************************)
(* Instances of the parts that share no step with one another: what is     *)
(* indexed and how it is answered from, the jobs that collect and judge,   *)
(* and the pages.  A behaviour runs one of them, chosen at the start; the  *)
(* others keep their initial state.                                        *)
(***************************************************************************)
EXTENDS ContentIndex, GuideIndex, ForumIndex, DroneIndex, ModelPacer, AnswerSearch,
        TextCutting, JobRunner, VideoCrawler, SupplierRun, SupplierEvidence, CaptionGate,
        LiteraturePapers, LiteraturePanel, ChatPage, DataPanels

CONSTANTS
    t1, t2,                             \* two targets
    i1, i2, r1, r2, r3,                 \* items and runs of the crawl worker
    k1, k2, p1, p2, c1,                 \* chunks of a guide, posts, a document's chunk
    e1, e2, e3, v1, v2,                 \* passages and their contents
    shared,                             \* a lock group
    f1, f2, pic, photo, screen, broken, \* figures, their picture, and captions
    withDoi, noDoi, namesake, quoted    \* records of papers, and what can be quoted

(* t1 and t2 are two targets at home and away. *)
Stores == [t \in Targets |-> IF t = t2 THEN "away" ELSE "home"]

(* Two runs meet the same two items in opposite order, a third the first   *)
(* of them.  The newer chunker cuts the first item into more chunks and    *)
(* the other one into none.                                                *)
PagesOfRuns == [r \in Runs |-> CASE r = r1 -> <<<<i1, i2>>>>
                                 [] r = r2 -> <<<<i2, i1>>>>
                                 [] r = r3 -> <<<<i1>>>>]
Cuttings == <<[i \in Items |-> 1], [i \in Items |-> IF i = i1 THEN 2 ELSE 0]>>

(* A guide loses a chunk, changes the other, and returns to its first version. *)
GuideVersions == <<[c \in GuideChunks |-> 1], [c \in GuideChunks |-> IF c = k1 THEN 2 ELSE 0],
                   [c \in GuideChunks |-> 1]>>

(* The reply comes, goes, changes its metadata or loses its text. *)
Post(x, m) == [text |-> x, meta |-> m]
TopicSnapshots == {p1 :> Post("x", "m") @@ p2 :> q :
                       q \in {None, Post("x", "m"), Post("x", "n"), Post("y", "m")}}
ReverseIds == [r \in 1 .. MaxRows |-> MaxRows - r]

(* A document's chunk changes its text as the other one goes. *)
Chapters(x, y) == [c \in DocChunks |-> IF c = c1 THEN x ELSE y]
DocumentBundles == {Chapters(1, 1), Chapters(2, 0)}

(* Three passages of two contents, and what two questions score them. *)
PassageItems == [p \in Passages |-> IF p = e3 THEN v2 ELSE v1]
Places == [p \in Passages |-> IF p = e2 THEN 2 ELSE 1]
Lengths == [p \in Passages |-> CASE p = e1 -> 4 [] p = e2 -> 9 [] p = e3 -> 0]
Marks(x, y, z) == [p \in Passages |-> CASE p = e1 -> x [] p = e2 -> y [] p = e3 -> z]
Questions == {<<Marks(90, 80, 30), Marks(0, 0, 0)>>, <<Marks(50, 0, 20), Marks(40, 100, 19)>>}

OneGroup == [j \in JobNames |-> shared]

(* Two texts of a page, cut into parts of different lengths. *)
PageBodies == {<<2, 1>>, <<3>>}

(* Two figures of the same picture and surroundings, one of them inside a  *)
(* software's section; an older bundle knows nothing of it, or a caption.  *)
OnePicture == [f \in Figures |-> pic]
Offers == {[p \in Pictures |-> NoText], [p \in Pictures |-> screen]}

(* An article listed with and without its DOI, and another of that title. *)
Numbers == [c \in Records |-> IF c = namesake THEN 2 ELSE 1]
Dois == [c \in Records |-> IF c = withDoi THEN 11 ELSE NoId]
Titles == [c \in Records |-> 21]
Scores == [c \in Records |-> IF c = withDoi THEN 1 ELSE 0]
Abstracts == [c \in Records |-> IF c = namesake THEN {quoted} ELSE {}]
Bodied == [c \in Records |-> IF c = withDoi THEN {quoted} ELSE {}]
OneEach == {<<namesake>>, <<noDoi, withDoi>>}

VARIABLE unit
Units == {"content", "crowd", "guide", "forum", "drone", "pacer", "search", "runner",
          "crawler", "supplier", "evidence", "gate", "papers", "watch", "chat",
          "panel", "cut"}
allVars == <<unit, indexVars, guideVars, forumVars, docVars, pacerVars,
             searchVars, runnerVars, crawlerVars, supplierVars, evidenceVars,
             gateVars, paperVars, litPanelVars, chatVars, panelVars, cutVars>>

OneInit ==
    /\ unit \in Units
    /\ target = t1 /\ aim = t1
    /\ IF unit = "evidence" THEN TRUE ELSE purpose = "verify" /\ mode = "auto" /\ keys = {}
    /\ IF unit = "chat" THEN TRUE ELSE exists = {} /\ remembered = NoSession
    /\ IF unit = "panel" THEN TRUE ELSE panel = "database"
    /\ IF unit = "cut" THEN CutInit ELSE cutter = "none" /\ text = <<>> /\ limit = 0 /\ cuts = <<>>
    /\ IndexInit /\ GuideInit /\ PostInit /\ DocInit /\ PacerInit
    /\ SearchInit /\ RunnerInit /\ CrawlerInit /\ SupplierInit /\ EvidenceInit
    /\ GateInit /\ PapersInit /\ LitPanelInit /\ ChatPageInit /\ PanelInit

(* Two runs and two changes, of something that is there, the second before  *)
(* the last run; or three runs, the first of which succeeds before the      *)
(* chunker changes and the others start.                                    *)
TwoRuns ==
    unit = "content" =>
        /\ runStatus'[r3] = "absent"
        /\ changes' # changes => \E c \in Chunks : Present(c)
        /\ changes = 1 /\ changes' = 2 => \E r \in {r1, r2} : runStatus[r] \in {"absent", "queued"}
ThreeRuns ==
    unit = "crowd" =>
        /\ target' = t1 /\ ~rebuild'.on
        /\ version = 1 => runStatus'[r2] = "absent" /\ runStatus'[r3] = "absent"
        /\ version' # version => runStatus[r1] = "success"
(* Idle workers are all alike: when none is busy, the same one claims.      *)
SameClaims ==
    Quiet => \A w \in Workers \ {CHOOSE u \in Workers : TRUE} : crawler'[w] = crawler[w]
Content ==
    /\ unit \in {"content", "crowd"} /\ IndexNext /\ TwoRuns /\ ThreeRuns
    /\ SameClaims
    /\ UNCHANGED <<unit, guideVars, forumVars, docVars, pacerVars, searchVars,
                   runnerVars, crawlerVars, supplierVars, evidenceVars,
                   gateVars, paperVars, litPanelVars, chatVars, panelVars,
                   cutVars>>
Guide ==
    /\ unit = "guide" /\ GuideNext
    /\ UNCHANGED <<unit, indexVars, forumVars, docVars, pacerVars, searchVars,
                   runnerVars, crawlerVars, supplierVars, evidenceVars,
                   gateVars, paperVars, litPanelVars, chatVars, panelVars,
                   cutVars>>
(* The target changes when a post is in the index.                          *)
LateTarget == aim' # aim => \E r \in DOMAIN postRows : postRows[r].named
Forum ==
    /\ unit = "forum" /\ PostNext /\ LateTarget
    /\ UNCHANGED <<unit, indexVars, guideVars, docVars, pacerVars, searchVars,
                   runnerVars, crawlerVars, supplierVars, evidenceVars,
                   gateVars, paperVars, litPanelVars, chatVars, panelVars,
                   cutVars>>
Drone ==
    /\ unit = "drone" /\ DocNext
    /\ UNCHANGED <<unit, indexVars, guideVars, forumVars, pacerVars,
                   searchVars, runnerVars, crawlerVars, supplierVars,
                   evidenceVars, gateVars, paperVars, litPanelVars, chatVars,
                   panelVars, cutVars>>
Pacer ==
    /\ unit = "pacer" /\ PacerNext
    /\ UNCHANGED <<unit, indexVars, guideVars, forumVars, docVars, searchVars,
                   runnerVars, crawlerVars, supplierVars, evidenceVars,
                   gateVars, paperVars, litPanelVars, chatVars, panelVars,
                   cutVars>>
Question ==
    /\ unit = "search" /\ SearchNext
    /\ UNCHANGED <<unit, indexVars, guideVars, forumVars, docVars, pacerVars,
                   runnerVars, crawlerVars, supplierVars, evidenceVars,
                   gateVars, paperVars, litPanelVars, chatVars, panelVars,
                   cutVars>>
Job ==
    /\ unit = "runner" /\ RunnerNext
    /\ UNCHANGED <<unit, indexVars, guideVars, forumVars, docVars, pacerVars,
                   searchVars, crawlerVars, supplierVars, evidenceVars,
                   gateVars, paperVars, litPanelVars, chatVars, panelVars,
                   cutVars>>
Crawling ==
    /\ unit = "crawler" /\ CrawlerNext
    /\ UNCHANGED <<unit, indexVars, guideVars, forumVars, docVars, pacerVars,
                   searchVars, runnerVars, supplierVars, evidenceVars,
                   gateVars, paperVars, litPanelVars, chatVars, panelVars,
                   cutVars>>
Supply ==
    /\ unit = "supplier" /\ SupplierNext
    /\ UNCHANGED <<unit, indexVars, guideVars, forumVars, docVars, pacerVars,
                   searchVars, runnerVars, crawlerVars, evidenceVars, gateVars,
                   paperVars, litPanelVars, chatVars, panelVars, cutVars>>
Judging ==
    /\ unit = "evidence" /\ EvidenceNext
    /\ UNCHANGED <<unit, indexVars, guideVars, forumVars, docVars, pacerVars,
                   searchVars, runnerVars, crawlerVars, supplierVars, gateVars,
                   paperVars, litPanelVars, chatVars, panelVars, cutVars>>
Caption ==
    /\ unit = "gate" /\ GateNext
    /\ UNCHANGED <<unit, indexVars, guideVars, forumVars, docVars, pacerVars,
                   searchVars, runnerVars, crawlerVars, supplierVars,
                   evidenceVars, paperVars, litPanelVars, chatVars, panelVars,
                   cutVars>>
(* What a run reads and analyses is its own: it begins when no other run    *)
(* searches or ranks, and the others wait for the first.                    *)
ReadInTurn ==
    LET first == CHOOSE r \in LitRuns : TRUE
        reading == {r \in LitRuns : work[r].at \in {"fetching", "analysing"}}
        ranking == {r \in LitRuns : work[r].at \in {"searching", "ranking", "writing"}}
        waiting == IF ranking # {} THEN reading
                   ELSE IF first \in reading THEN reading \ {first} ELSE {}
    IN \A r \in waiting : work'[r] = work[r]
Ranking ==
    /\ unit = "papers" /\ PapersNext /\ ReadInTurn
    /\ UNCHANGED <<unit, indexVars, guideVars, forumVars, docVars, pacerVars,
                   searchVars, runnerVars, crawlerVars, supplierVars,
                   evidenceVars, gateVars, litPanelVars, chatVars, panelVars,
                   cutVars>>
Watching ==
    /\ unit = "watch" /\ LitPanelNext
    /\ UNCHANGED <<unit, indexVars, guideVars, forumVars, docVars, pacerVars,
                   searchVars, runnerVars, crawlerVars, supplierVars,
                   evidenceVars, gateVars, paperVars, chatVars, panelVars,
                   cutVars>>
Chatting ==
    /\ unit = "chat" /\ ChatPageNext
    /\ UNCHANGED <<unit, indexVars, guideVars, forumVars, docVars, pacerVars,
                   searchVars, runnerVars, crawlerVars, supplierVars,
                   evidenceVars, gateVars, paperVars, litPanelVars, panelVars,
                   cutVars>>
Browsing ==
    /\ unit = "panel" /\ PanelNext
    /\ UNCHANGED <<unit, indexVars, guideVars, forumVars, docVars, pacerVars,
                   searchVars, runnerVars, crawlerVars, supplierVars,
                   evidenceVars, gateVars, paperVars, litPanelVars, chatVars,
                   cutVars>>
Cutting ==
    /\ unit = "cut" /\ CutText
    /\ UNCHANGED <<unit, indexVars, guideVars, forumVars, docVars, pacerVars,
                   searchVars, runnerVars, crawlerVars, supplierVars,
                   evidenceVars, gateVars, paperVars, litPanelVars, chatVars,
                   panelVars>>

OneNext ==
    \/ Content \/ Guide \/ Forum \/ Drone \/ Pacer \/ Question
    \/ Job \/ Crawling \/ Supply \/ Judging \/ Caption \/ Ranking
    \/ Watching \/ Chatting \/ Browsing \/ Cutting
OneSpec == OneInit /\ [][OneNext]_allVars
=============================================================================
