------------------------------ MODULE JobProofs ------------------------------
(***************************************************************************)
(* The jobs that run by the clock or by hand: exclusion of the jobs of a   *)
(* lock group and ownership of containers, the crawlers' stores and        *)
(* summaries, the quality gate of the descriptions; what the supplier jobs *)
(* and the literature workers leave in their stores; what a supplier job   *)
(* may claim of its evidence; and the request budget of the document jobs. *)
(* For all jobs, crawlers, figures, pages, suppliers, records, texts,      *)
(* clients and numbers of runs, failures and kills.                        *)
(***************************************************************************)
EXTENDS JobRunner, VideoCrawler, CaptionGate, SupplierRun, LiteraturePapers,
        SupplierEvidence, ModelPacer, FiniteSetTheorems, SequenceTheorems, TLAPS

-----------------------------------------------------------------------------
(* A script that has not ended holds the lock of its job's group. *)
LockHeld == \A s \in Slots : Active(s) => holder[GroupOf[script[s].job]] = s

(* Tokens are drawn in order, one for each script that took a lock. *)
TokensAreDrawn ==
    /\ runs \in Nat
    /\ \A s \in Slots : Active(s) => script[s].token \in Nat /\ script[s].token < runs
    /\ \A j \in JobNames : box[j] # NoToken => box[j] < runs
TokensDiffer ==
    \A s, t \in Slots : Active(s) /\ Active(t) /\ script[s].token = script[t].token => s = t

(* A container with the token of a live script has the name of its job. *)
BoxIsNamed ==
    \A j \in JobNames, s \in Slots : Active(s) /\ box[j] = script[s].token => script[s].job = j

(* What cleanup has inspected is still the script's own container, or gone. *)
RemovesOwn ==
    \A s \in Slots : script[s].at = "removing" =>
        box[script[s].job] \in {NoToken, script[s].token}

RunnerIInv == RunnerTypeOK /\ LockHeld /\ TokensAreDrawn /\ TokensDiffer /\ BoxIsNamed /\ RemovesOwn

-----------------------------------------------------------------------------
LEMMA RunnerStarts == RunnerInit => RunnerIInv
<1> SUFFICES ASSUME RunnerInit PROVE RunnerIInv
  OBVIOUS
<1>1. \A s \in Slots : (IF s \in JobNames THEN s ELSE CHOOSE j \in JobNames : TRUE) \in JobNames
  BY GroupAssumption
<1>2. \A s \in Slots : script[s].at = "off" /\ script[s].job \in JobNames /\ script[s].token = NoToken
  BY <1>1 DEF RunnerInit, Off
<1>3. RunnerTypeOK
  BY <1>1 DEF RunnerInit, RunnerTypeOK, Off
<1> QED
  BY <1>2, <1>3 DEF RunnerInit, RunnerIInv, LockHeld, TokensAreDrawn, TokensDiffer, BoxIsNamed, RemovesOwn,
     Active

(* A lock is taken with a token nobody has yet. *)
LEMMA LaunchStep ==
    ASSUME RunnerIInv, NEW s \in Slots, NEW j \in JobNames, Launch(s, j), UNCHANGED box
    PROVE  RunnerIInv'
<1> USE DEF RunnerIInv
<1>1. CASE UNCHANGED <<script, holder, runs>>
  BY <1>1 DEF RunnerTypeOK, LockHeld, TokensAreDrawn, TokensDiffer, BoxIsNamed, RemovesOwn, Active
<1>2. CASE TakesLock(s, j)
  <2>1. /\ script' = [script EXCEPT ![s] = [at |-> "locked", job |-> j, token |-> runs]]
        /\ holder' = [holder EXCEPT ![GroupOf[j]] = s] /\ runs' = runs + 1
        /\ holder[GroupOf[j]] = Unlocked
    BY <1>2 DEF Launch, TakesLock
  <2>2. GroupOf[j] \in LockGroups /\ \A t \in Slots : GroupOf[script[t].job] \in LockGroups
    BY GroupAssumption DEF RunnerTypeOK
  <2>3. RunnerTypeOK'
    BY <2>1 DEF RunnerTypeOK, TokensAreDrawn
  <2>4. /\ script'[s] = [at |-> "locked", job |-> j, token |-> runs]
        /\ \A t \in Slots \ {s} : script'[t] = script[t]
    BY <2>1 DEF RunnerTypeOK
  <2>5. LockHeld'
    BY <2>1, <2>2, <2>4, RunBounds DEF LockHeld, RunnerTypeOK, Active
  <2>6. TokensAreDrawn'
    BY <2>1, <2>4 DEF TokensAreDrawn, RunnerTypeOK, Active
  <2>7. TokensDiffer'
    BY <2>1, <2>4 DEF TokensAreDrawn, TokensDiffer, RunnerTypeOK, Active
  <2>8. BoxIsNamed' /\ RemovesOwn'
    BY <2>1, <2>4, RunBounds DEF TokensAreDrawn, BoxIsNamed, RemovesOwn, RunnerTypeOK, Active
  <2> QED
    BY <2>3, <2>5, <2>6, <2>7, <2>8
<1> QED
  BY <1>1, <1>2 DEF Launch

(* The script goes on under its lock, and no container gets a new token. *)
LEMMA ScriptGoesOn ==
    ASSUME RunnerIInv, NEW s \in Slots, NEW to \in {"running", "cleanup", "removing", "exiting"},
           Active(s), Step(s, to), UNCHANGED <<holder, runs>>,
           \A j \in JobNames : box'[j] \in {box[j], NoToken}, box' \in [JobNames -> Nat \cup {NoToken}],
           to = "removing" => box'[script[s].job] = script[s].token
    PROVE  RunnerIInv'
<1> USE DEF RunnerIInv
<1>1. /\ script'[s] = [script[s] EXCEPT !.at = to]
      /\ \A t \in Slots \ {s} : script'[t] = script[t]
  BY DEF Step, RunnerTypeOK
<1>2. \A t \in Slots : /\ script'[t].job = script[t].job /\ script'[t].token = script[t].token
                       /\ Active(t)' = Active(t)
  BY <1>1 DEF RunnerTypeOK, Active
<1>3. RunnerTypeOK'
  BY DEF Step, RunnerTypeOK
<1>4. LockHeld' /\ TokensDiffer'
  BY <1>2 DEF LockHeld, TokensDiffer
<1>5. TokensAreDrawn'
  BY <1>2 DEF TokensAreDrawn
<1>6. BoxIsNamed'
  BY <1>2, RunBounds DEF BoxIsNamed, TokensAreDrawn
<1>7. RemovesOwn'
  BY <1>1, <1>2 DEF RemovesOwn, RunnerTypeOK
<1> QED
  BY <1>3, <1>4, <1>5, <1>6, <1>7

(* A container starts with the token of the script that holds the lock, so *)
(* no other script is about to remove one of that name.                    *)
LEMMA RunBoxStep == ASSUME RunnerIInv, NEW s \in Slots, RunBox(s) PROVE RunnerIInv'
<1> USE DEF RunnerIInv
<1>1. Active(s) /\ script[s].job \in JobNames
  BY DEF RunBox, Active, RunnerTypeOK
<1>2. CASE box[script[s].job] # NoToken
  <2>1. Step(s, "cleanup") /\ UNCHANGED <<holder, runs, box>>
    BY <1>2 DEF RunBox
  <2> QED
    BY <1>1, <2>1, ScriptGoesOn DEF RunnerTypeOK
<1>3. CASE box[script[s].job] = NoToken
  <2>1. /\ Step(s, "running") /\ UNCHANGED <<holder, runs>> /\ script[s].at = "locked"
        /\ box' = [box EXCEPT ![script[s].job] = script[s].token]
    BY <1>3 DEF RunBox
  <2>2. /\ script'[s] = [script[s] EXCEPT !.at = "running"]
        /\ \A t \in Slots \ {s} : script'[t] = script[t]
    BY <2>1 DEF Step, RunnerTypeOK
  <2>3. \A t \in Slots : /\ script'[t].job = script[t].job /\ script'[t].token = script[t].token
                         /\ Active(t)' = Active(t)
    BY <2>2, <1>1 DEF RunnerTypeOK, Active
  <2>4. RunnerTypeOK'
    BY <2>1, <1>1 DEF Step, RunnerTypeOK
  <2>5. LockHeld' /\ TokensDiffer'
    BY <2>1, <2>3 DEF LockHeld, TokensDiffer
  <2>6. TokensAreDrawn'
    BY <2>1, <2>3, <1>1 DEF TokensAreDrawn, RunnerTypeOK
  <2>7. BoxIsNamed'
    BY <2>1, <2>3, <1>1 DEF BoxIsNamed, TokensDiffer, RunnerTypeOK
  <2>8. \A t \in Slots : script'[t].at = "removing" => t # s /\ script[t].job # script[s].job
    BY <2>1, <2>2, <1>1 DEF LockHeld, Active, RunnerTypeOK
  <2>9. RemovesOwn'
    BY <2>1, <2>2, <2>8, <1>1 DEF RemovesOwn, RunnerTypeOK
  <2> QED
    BY <2>4, <2>5, <2>6, <2>7, <2>9
<1> QED
  BY <1>2, <1>3

LEMMA ClientStep ==
    ASSUME RunnerIInv, NEW s \in Slots,
           ClientEnds(s) \/ Inspect(s) \/ CleanupFails(s) \/ RemoveBox(s)
    PROVE  RunnerIInv'
<1>1. script[s].job \in JobNames /\ box \in [JobNames -> Nat \cup {NoToken}]
  BY DEF RunnerIInv, RunnerTypeOK
<1>2. CASE ClientEnds(s)
  BY <1>1, <1>2, ScriptGoesOn DEF ClientEnds, Active
<1>3. CASE Inspect(s)
  BY <1>1, <1>3, ScriptGoesOn DEF Inspect, FoundBox, Active
<1>4. CASE CleanupFails(s)
  BY <1>1, <1>4, ScriptGoesOn DEF CleanupFails, Active
<1>5. CASE RemoveBox(s)
  BY <1>1, <1>5, ScriptGoesOn DEF RemoveBox, Active
<1> QED
  BY <1>2, <1>3, <1>4, <1>5

(* A lock is free again when its script is gone; the container may stay.   *)
LEMMA GoneStep ==
    ASSUME RunnerIInv, NEW s \in Slots, Gone(s), UNCHANGED <<box, runs>>
    PROVE  RunnerIInv'
<1> USE DEF RunnerIInv
<1>1. /\ script'[s] = Off(script[s].job)
      /\ \A t \in Slots \ {s} : script'[t] = script[t]
  BY DEF Gone, RunnerTypeOK
<1>2. ~Active(s)'
  BY <1>1 DEF Off, Active
<1>3. RunnerTypeOK'
  BY <1>1 DEF Gone, Off, RunnerTypeOK
<1>4. LockHeld'
  BY <1>1, <1>2, GroupAssumption DEF Gone, LockHeld, Active, RunnerTypeOK
<1>5. TokensDiffer' /\ BoxIsNamed' /\ RemovesOwn'
  BY <1>1, <1>2 DEF TokensDiffer, BoxIsNamed, RemovesOwn, Active
<1>6. TokensAreDrawn'
  BY <1>1, <1>2 DEF TokensAreDrawn, Active
<1> QED
  BY <1>3, <1>4, <1>5, <1>6

LEMMA BoxEndsStep == ASSUME RunnerIInv, NEW j \in JobNames, BoxEnds(j) PROVE RunnerIInv'
<1> USE DEF RunnerIInv
<1>1. /\ box' = [box EXCEPT ![j] = NoToken] /\ UNCHANGED <<script, holder, runs>>
  BY DEF BoxEnds
<1>2. RunnerTypeOK' /\ LockHeld' /\ TokensDiffer'
  BY <1>1 DEF RunnerTypeOK, LockHeld, TokensDiffer, Active
<1>3. TokensAreDrawn'
  BY <1>1 DEF RunnerTypeOK, TokensAreDrawn, Active
<1>4. BoxIsNamed' /\ RemovesOwn'
  BY <1>1, RunBounds DEF RunnerTypeOK, TokensAreDrawn, BoxIsNamed, RemovesOwn, Active
<1> QED
  BY <1>2, <1>3, <1>4

(* The page and the bridge touch nothing of the scripts. *)
LEMMA PageStep == ASSUME RunnerIInv, UNCHANGED <<script, holder, box, runs>> PROVE RunnerIInv'
  BY DEF RunnerIInv, RunnerTypeOK, LockHeld, TokensAreDrawn, TokensDiffer, BoxIsNamed, RemovesOwn, Active

-----------------------------------------------------------------------------
(* Every step of the scripts keeps the lock, and the box, with the script  *)
(* that drew its token.                                                    *)
THEOREM RunnerInductive == RunnerSpec => []RunnerIInv
<1>1. ASSUME RunnerIInv, [RunnerNext]_runnerVars PROVE RunnerIInv'
  <2> USE <1>1
  <2>1. ASSUME NEW s \in Slots, ScriptStep(s) PROVE RunnerIInv'
    BY <2>1, RunBoxStep, ClientStep, GoneStep DEF ScriptStep, Exit, KillScript
  <2>2. ASSUME NEW j \in JobNames, TimerFires(j) \/ StartUnit(j) PROVE RunnerIInv'
    BY <2>2, LaunchStep, PageStep DEF TimerFires, StartUnit, Slots
  <2>3. ASSUME NEW h \in Hands, NEW j \in JobNames, ByHand(h, j) PROVE RunnerIInv'
    BY <2>3, LaunchStep DEF ByHand, Slots
  <2>4. ASSUME NEW j \in JobNames, BoxEnds(j) PROVE RunnerIInv'
    BY <2>4, BoxEndsStep
  <2>5. ASSUME NEW j \in JobNames, Press(j) \/ Check(j) \/ BridgeFails(j) \/ Reply(j) PROVE RunnerIInv'
    BY <2>5, PageStep DEF Press, Check, BridgeFails, Reply
  <2>6. CASE RefreshTasks \/ UNCHANGED runnerVars
    BY <2>6, PageStep DEF RefreshTasks, runnerVars
  <2> QED
    BY <2>1, <2>2, <2>3, <2>4, <2>5, <2>6 DEF RunnerNext
<1> QED
  BY <1>1, RunnerStarts, PTL DEF RunnerSpec

(* Two containers of one group belong to two live scripts only if these    *)
(* scripts held one lock together.                                         *)
LEMMA LockExcludes == RunnerIInv => GroupRunsOnce
<1> SUFFICES ASSUME RunnerIInv, NEW i \in JobNames, NEW j \in JobNames, i # j, GroupOf[i] = GroupOf[j],
                    ~Orphan(i), ~Orphan(j)
             PROVE  FALSE
  BY DEF GroupRunsOnce
<1>1. PICK s \in Slots : Active(s) /\ script[s].token = box[i]
  BY DEF Orphan
<1>2. PICK t \in Slots : Active(t) /\ script[t].token = box[j]
  BY DEF Orphan
<1>3. script[s].job = i /\ script[t].job = j
  BY <1>1, <1>2 DEF RunnerIInv, BoxIsNamed
<1>4. s = t
  BY <1>1, <1>2, <1>3 DEF RunnerIInv, LockHeld
<1> QED
  BY <1>3, <1>4

(* However units, hands, the page and kills interleave, jobs of one group  *)
(* run one at a time and every script removes its own container only.      *)
THEOREM BoxesOwned == RunnerSpec => BoxesAreOwned
<1>1. RunnerIInv => RunnerTypeOK /\ GroupRunsOnce
  BY LockExcludes DEF RunnerIInv
<1>2. ASSUME RunnerIInv,
             NEW j \in JobNames, NEW s \in Slots, box[j] # NoToken, RemoveBox(s), box'[j] # box[j]
      PROVE  box[j] = script[s].token
  BY <1>2 DEF RunnerIInv, RunnerTypeOK, RemoveBox, RemovesOwn
<1>3. ASSUME RunnerIInv
      PROVE  [\A j \in JobNames, s \in Slots :
                box[j] # NoToken /\ RemoveBox(s) /\ box'[j] # box[j] =>
                    box[j] = script[s].token]_runnerVars
  BY <1>2, <1>3
<1> QED
  BY <1>1, <1>3, RunnerInductive, PTL DEF BoxesAreOwned, OwnBoxOnly

-----------------------------------------------------------------------------
(***************************************************************************)
(* The crawlers of the video site.                                         *)
(***************************************************************************)
Working == {"collect", "look", "insert", "upsert", "commit"}
CrawlMemory ==
    [phase : {"off", "search", "page", "ended", "broken"} \cup Working, existing : SUBSET Videos,
     pages : Nat, items : Seq(Videos), more : BOOLEAN, seen : SUBSET Videos,
     video : Videos \cup {Nobody}, tries : Nat, sent : 0 .. VideoChunks, mine : SUBSET Videos,
     results : SUBSET (Videos \X Outcomes)]

(* A process at work has a video and is short of its target, has sent no   *)
(* more points than it has chunks, and counts as successes what it stored. *)
MemoryOK(r) ==
    /\ r \in CrawlMemory
    /\ r.phase \in Working => r.video \in Videos
    /\ r.sent # 0 => r.phase \in {"upsert", "commit"}
    /\ r.phase = "upsert" => r.sent < VideoChunks
    /\ r.phase = "commit" => r.sent = VideoChunks
    /\ Successes(r) = r.mine /\ IsFiniteSet(r.mine)
    /\ Cardinality(r.mine) <= SuccessTarget
    /\ r.phase \in Working => Cardinality(r.mine) < SuccessTarget

(* Whoever inserts a video holds its key, and nobody has committed it.     *)
KeysAreHeld ==
    \A c \in Crawlers, v \in Videos :
        inserting[v] = c <=> crawl[c].phase \in {"upsert", "commit"} /\ crawl[c].video = v
InsertsAreFirst == \A v \in Videos : inserting[v] # Nobody => contents[v] = 0

VideosOK ==
    /\ contents \in [Videos -> Nat] /\ embedded \in [Videos -> 0 .. VideoChunks]
    /\ strays \in [Videos -> Nat]
    /\ inserting \in [Videos -> Crawlers \cup {Nobody}]
    /\ DOMAIN crawl = Crawlers /\ crawl = [c \in Crawlers |-> crawl[c]]

CrawlIInv ==
    /\ VideosOK /\ (\A c \in Crawlers : MemoryOK(crawl[c]))
    /\ KeysAreHeld /\ InsertsAreFirst /\ VideoIsStoredOnce

LEMMA LimitsArePositive == VideoChunks \in Nat \ {0} /\ SuccessTarget \in Nat \ {0}
  BY CrawlerAssumption

LEMMA OffMemory == CrawlerOff \in CrawlMemory /\ CrawlerOff.existing = {} /\ CrawlerOff.phase = "off"
<1>1. <<>> \in Seq(Videos) /\ 0 \in 0 .. VideoChunks /\ 0 \in Nat
  BY LimitsArePositive
<1> QED
  BY <1>1 DEF CrawlerOff, CrawlMemory

LEMMA OffOK ==
  ASSUME NEW phase \in {"off", "search", "broken"}, NEW before \in SUBSET Videos
  PROVE  MemoryOK([CrawlerOff EXCEPT !.phase = phase, !.existing = before])
<1> DEFINE r == [CrawlerOff EXCEPT !.phase = phase, !.existing = before]
<1>1. CrawlerOff \in CrawlMemory
  BY OffMemory
<1>2. /\ r \in CrawlMemory /\ r.phase = phase /\ r.sent = CrawlerOff.sent
      /\ r.results = CrawlerOff.results /\ r.mine = CrawlerOff.mine
  BY <1>1 DEF CrawlMemory
<1>3. r.sent = 0 /\ r.results = {} /\ r.mine = {}
  <2>1. CrawlerOff.sent = 0 /\ CrawlerOff.results = {} /\ CrawlerOff.mine = {}
    BY DEF CrawlerOff
  <2> QED
    BY <1>2, <2>1
<1> HIDE DEF r
<1>4. Successes(r) = {} /\ IsFiniteSet({}) /\ Cardinality({}) = 0
  BY <1>3, FS_EmptySet DEF Successes
<1> QED
  BY <1>2, <1>3, <1>4, LimitsArePositive DEF MemoryOK, Working, r

LEMMA ReportsMemory ==
  ASSUME NEW r, MemoryOK(r), r.phase \in Working, NEW outcome \in Outcomes
  PROVE  LET q == Reports(r, outcome)
         IN  /\ q \in CrawlMemory /\ q.phase = "page" /\ q.mine = r.mine /\ q.sent = 0
             /\ q.results = r.results \cup {<<r.video, outcome>>}
<1>1. r \in CrawlMemory /\ <<r.video, outcome>> \in Videos \X Outcomes /\ 0 \in 0 .. VideoChunks
  BY LimitsArePositive DEF MemoryOK
<1> QED
  BY <1>1 DEF CrawlMemory, Reports

LEMMA ReportsOK ==
  ASSUME NEW r, MemoryOK(r), r.phase \in Working, NEW outcome \in Outcomes \ {"success"}
  PROVE  MemoryOK(Reports(r, outcome)) /\ Reports(r, outcome).phase = "page"
<1> DEFINE q == Reports(r, outcome)
<1>1. /\ q \in CrawlMemory /\ q.phase = "page" /\ q.mine = r.mine /\ q.sent = 0
      /\ q.results = r.results \cup {<<r.video, outcome>>}
  BY ReportsMemory
<1> HIDE DEF q
<1>2. Successes(q) = Successes(r)
  BY <1>1 DEF Successes
<1> QED
  BY <1>1, <1>2 DEF MemoryOK, Working, q

LEMMA StoredOK ==
  ASSUME NEW r, MemoryOK(r), r.phase \in Working
  PROVE  LET q == [Reports(r, "success") EXCEPT !.mine = @ \cup {r.video}]
         IN  MemoryOK(q) /\ q.phase = "page"
<1> DEFINE p == Reports(r, "success")
           q == [p EXCEPT !.mine = @ \cup {r.video}]
<1>1. /\ p \in CrawlMemory /\ p.phase = "page" /\ p.mine = r.mine /\ p.sent = 0
      /\ p.results = r.results \cup {<<r.video, "success">>} /\ r.video \in Videos
  BY ReportsMemory DEF Outcomes, MemoryOK
<1> HIDE DEF p
<1>2. /\ q \in CrawlMemory /\ q.phase = "page" /\ q.mine = r.mine \cup {r.video} /\ q.sent = 0
      /\ q.results = r.results \cup {<<r.video, "success">>}
  BY <1>1 DEF CrawlMemory
<1> HIDE DEF q
<1>3. Successes(q) = Successes(r) \cup {r.video}
  BY <1>1, <1>2 DEF Successes
<1>4. /\ IsFiniteSet(q.mine) /\ Cardinality(r.mine) \in Nat
      /\ Cardinality(q.mine) = Cardinality(r.mine) \/ Cardinality(q.mine) = Cardinality(r.mine) + 1
  BY <1>2, FS_AddElement, FS_CardinalityType DEF MemoryOK
<1>5. Cardinality(q.mine) <= SuccessTarget
  BY <1>4, LimitsArePositive DEF MemoryOK
<1> QED
  BY <1>2, <1>3, <1>4, <1>5 DEF MemoryOK, Working, q, p

LEMMA QuietStep ==
  ASSUME CrawlIInv, NEW c \in Crawlers, NEW r, MemoryOK(r),
         crawl' = [crawl EXCEPT ![c] = r],
         UNCHANGED <<contents, inserting, embedded, strays>>,
         \/ crawl[c].phase \notin {"upsert", "commit"} /\ r.phase \notin {"upsert", "commit"}
         \/ /\ {crawl[c].phase, r.phase} \subseteq {"upsert", "commit"} /\ crawl[c].video = r.video
  PROVE  CrawlIInv'
<1>1. /\ DOMAIN crawl' = Crawlers /\ crawl' = [d \in Crawlers |-> crawl'[d]]
      /\ \A d \in Crawlers : crawl'[d] = IF d = c THEN r ELSE crawl[d]
  BY DEF CrawlIInv, VideosOK
<1>2. VideosOK'
  BY <1>1 DEF CrawlIInv, VideosOK
<1>3. \A d \in Crawlers : MemoryOK(crawl'[d])
  BY <1>1 DEF CrawlIInv
<1>4. (\A d \in Crawlers : MemoryOK(crawl[d]))'
  BY <1>1, <1>3
<1>5. KeysAreHeld'
  BY <1>1 DEF CrawlIInv, KeysAreHeld
<1> QED
  BY <1>2, <1>4, <1>5 DEF CrawlIInv, InsertsAreFirst, VideoIsStoredOnce

LEMMA StartCrawlStep ==
  ASSUME CrawlIInv, NEW c \in Crawlers, StartCrawl(c)
  PROVE  CrawlIInv'
<1>1. PICK before \in {{}, {v \in Videos : contents[v] > 0}} :
         crawl' = [crawl EXCEPT ![c] = [CrawlerOff EXCEPT !.phase = "search", !.existing = before]]
  BY DEF StartCrawl
<1> DEFINE r == [CrawlerOff EXCEPT !.phase = "search", !.existing = before]
<1>2. before \in SUBSET Videos
  OBVIOUS
<1>3. MemoryOK(r) /\ r.phase = "search"
  <2>1. MemoryOK(r)
    BY <1>2, OffOK
  <2>2. r.phase = "search"
    BY DEF CrawlerOff
  <2> QED
    BY <2>1, <2>2
<1> HIDE DEF r
<1>4. crawl' = [crawl EXCEPT ![c] = r]
  BY <1>1 DEF r
<1> QED
  BY <1>3, <1>4, QuietStep DEF StartCrawl

LEMMA SearchPageStep ==
  ASSUME CrawlIInv, NEW c \in Crawlers, SearchPage(c)
  PROVE  CrawlIInv'
<1>1. /\ crawl[c] \in CrawlMemory /\ MemoryOK(crawl[c]) /\ crawl[c].phase = "search"
      /\ UNCHANGED <<contents, inserting, embedded, strays>>
  BY DEF CrawlIInv, MemoryOK, SearchPage
<1>2. CASE crawl' = [crawl EXCEPT ![c].phase = "ended"]
  <2> DEFINE r == [crawl[c] EXCEPT !.phase = "ended"]
  <2>1. r \in CrawlMemory /\ r.phase = "ended" /\ r.sent = crawl[c].sent /\ r.mine = crawl[c].mine
        /\ r.results = crawl[c].results
    BY <1>1 DEF CrawlMemory
  <2>2. crawl' = [crawl EXCEPT ![c] = r]
    BY <1>2
  <2> HIDE DEF r
  <2>3. MemoryOK(r)
    BY <1>1, <2>1 DEF MemoryOK, Successes, Working
  <2> QED
    BY <1>1, <2>1, <2>2, <2>3, QuietStep
<1>3. ASSUME NEW list \in Pages, NEW more \in BOOLEAN,
             crawl' = [crawl EXCEPT ![c].phase = "page", ![c].items = list,
                                        ![c].more = more, ![c].pages = @ + 1]
      PROVE  CrawlIInv'
  <2> DEFINE r == [crawl[c] EXCEPT !.phase = "page", !.items = list, !.more = more, !.pages = @ + 1]
  <2>1. list \in Seq(Videos)
    BY DEF Pages
  <2>2. r \in CrawlMemory /\ r.phase = "page" /\ r.sent = crawl[c].sent /\ r.mine = crawl[c].mine
        /\ r.results = crawl[c].results
    <3>1. crawl[c].pages + 1 \in Nat
      BY <1>1 DEF CrawlMemory
    <3>2. ASSUME NEW q \in CrawlMemory, NEW n \in Nat
          PROVE  LET p == [q EXCEPT !.phase = "page", !.items = list, !.more = more, !.pages = n]
                 IN  /\ p \in CrawlMemory /\ p.phase = "page" /\ p.sent = q.sent
                     /\ p.mine = q.mine /\ p.results = q.results
      BY <2>1, Zenon DEF CrawlMemory
    <3> QED
      BY <3>1, <3>2, <1>1
  <2>3. crawl' = [crawl EXCEPT ![c] = r]
    BY <1>1, <1>3 DEF CrawlIInv, VideosOK, CrawlMemory
  <2> HIDE DEF r
  <2>4. MemoryOK(r)
    BY <1>1, <2>2 DEF MemoryOK, Successes, Working
  <2> QED
    BY <1>1, <2>2, <2>3, <2>4, QuietStep
<1> QED
  BY <1>2, <1>3 DEF SearchPage

LEMMA NextCandidateStep ==
  ASSUME CrawlIInv, NEW c \in Crawlers, NextCandidate(c)
  PROVE  CrawlIInv'
<1> DEFINE self == crawl[c]
<1>1. /\ self \in CrawlMemory /\ MemoryOK(self) /\ self.phase = "page" /\ self.items \in Seq(Videos)
      /\ UNCHANGED <<contents, inserting, embedded, strays>> /\ self.sent = 0 /\ 1 \in Nat
  BY DEF CrawlIInv, MemoryOK, NextCandidate, CrawlMemory
<1>2. CASE self.items = <<>> \/ Reached(self)
  <2> DEFINE p == IF self.more THEN "search" ELSE "ended"
             r == [self EXCEPT !.phase = p, !.items = <<>>]
  <2>1. p \in {"search", "ended"} /\ <<>> \in Seq(Videos)
    OBVIOUS
  <2>2. crawl' = [crawl EXCEPT ![c] = r]
    BY <1>2 DEF NextCandidate
  <2> HIDE DEF p
  <2>3. r \in CrawlMemory /\ r.phase = p /\ r.sent = self.sent /\ r.mine = self.mine
        /\ r.results = self.results
    BY <1>1, <2>1 DEF CrawlMemory
  <2> HIDE DEF r
  <2>4. MemoryOK(r)
    BY <1>1, <2>1, <2>3 DEF MemoryOK, Successes, Working
  <2> QED
    BY <1>1, <2>1, <2>2, <2>3, <2>4, QuietStep
<1>3. CASE self.items # <<>> /\ ~ Reached(self)
  <2> DEFINE v == Head(self.items)
             rest == Tail(self.items)
  <2>1. v \in Videos /\ rest \in Seq(Videos)
    BY <1>1, <1>3
  <2>2. CASE v \in self.seen \cup self.existing
    <3> DEFINE r == [self EXCEPT !.items = Tail(@), !.results = @ \cup {<<v, "duplicate">>}]
    <3>1. crawl' = [crawl EXCEPT ![c] = r]
      BY <1>3, <2>2 DEF NextCandidate
    <3>2. r = [self EXCEPT !.items = rest, !.results = self.results \cup {<<v, "duplicate">>}]
      BY <1>1 DEF CrawlMemory
    <3> HIDE DEF v, rest, r
    <3>3. <<v, "duplicate">> \in Videos \X Outcomes
      BY <2>1 DEF Outcomes
    <3>4. r \in CrawlMemory /\ r.phase = "page" /\ r.sent = self.sent /\ r.mine = self.mine
          /\ r.results = self.results \cup {<<v, "duplicate">>}
      BY <1>1, <2>1, <3>2, <3>3 DEF CrawlMemory
    <3>5. Successes(r) = Successes(self)
      BY <3>4 DEF Successes
    <3>6. MemoryOK(r)
      BY <1>1, <3>4, <3>5 DEF MemoryOK, Working
    <3> QED
      BY <1>1, <3>1, <3>4, <3>6, QuietStep
  <2>3. CASE v \notin self.seen \cup self.existing
    <3> DEFINE r == [self EXCEPT !.items = Tail(@), !.seen = @ \cup {v}, !.phase = "collect",
                                !.video = v, !.tries = 1]
    <3>1. crawl' = [crawl EXCEPT ![c] = r]
      BY <1>3, <2>3 DEF NextCandidate
    <3>2. r = [self EXCEPT !.items = rest, !.seen = self.seen \cup {v}, !.phase = "collect",
                                !.video = v, !.tries = 1]
      BY <1>1 DEF CrawlMemory
    <3> HIDE DEF v, rest, r
    <3>3. ASSUME NEW q \in CrawlMemory, NEW t \in Nat
          PROVE  LET p == [q EXCEPT !.items = rest, !.seen = q.seen \cup {v}, !.phase = "collect",
                                !.video = v, !.tries = t]
                 IN  /\ p \in CrawlMemory /\ p.phase = "collect" /\ p.sent = q.sent
                     /\ p.mine = q.mine /\ p.results = q.results /\ p.video = v
      <4>1. /\ "collect" \in {"off", "search", "page", "ended", "broken"} \cup Working
            /\ v \in Videos \cup {Nobody} /\ q.seen \cup {v} \in SUBSET Videos
        BY <2>1 DEF CrawlMemory, Working
      <4> QED
        BY <2>1, <4>1, Zenon DEF CrawlMemory
    <3>4. r \in CrawlMemory /\ r.phase = "collect" /\ r.sent = self.sent /\ r.mine = self.mine
          /\ r.results = self.results /\ r.video = v
      BY <1>1, <3>2, <3>3
    <3>5. Cardinality(self.mine) < SuccessTarget
      BY <1>1, <1>3, LimitsArePositive, FS_CardinalityType DEF Reached, MemoryOK
    <3>6. MemoryOK(r)
      BY <1>1, <2>1, <3>4, <3>5 DEF MemoryOK, Working, Successes
    <3> QED
      BY <1>1, <3>1, <3>4, <3>6, QuietStep
  <2> QED
    BY <2>2, <2>3
<1> QED
  BY <1>2, <1>3

LEMMA CollectEvidenceStep ==
  ASSUME CrawlIInv, NEW c \in Crawlers, CollectEvidence(c)
  PROVE  CrawlIInv'
<1> DEFINE self == crawl[c]
<1>1. /\ self \in CrawlMemory /\ MemoryOK(self) /\ self.phase = "collect" /\ self.phase \in Working
      /\ UNCHANGED <<contents, inserting, embedded, strays>>
  BY DEF CrawlIInv, MemoryOK, CollectEvidence, Working
<1>2. CASE crawl' = [crawl EXCEPT ![c].phase = "look"]
  <2> DEFINE r == [self EXCEPT !.phase = "look"]
  <2>1. r \in CrawlMemory /\ r.phase = "look" /\ r.sent = self.sent /\ r.mine = self.mine
        /\ r.results = self.results /\ r.video = self.video
    BY <1>1 DEF CrawlMemory, Working
  <2>2. crawl' = [crawl EXCEPT ![c] = r]
    BY <1>2
  <2> HIDE DEF r
  <2>3. MemoryOK(r)
    BY <1>1, <2>1 DEF MemoryOK, Successes, Working
  <2> QED
    BY <1>1, <2>1, <2>2, <2>3, QuietStep
<1>3. ASSUME NEW o \in {"no_captions", "failed"}, crawl' = [crawl EXCEPT ![c] = Reports(self, o)]
      PROVE  CrawlIInv'
  <2>1. MemoryOK(Reports(self, o)) /\ Reports(self, o).phase = "page"
    BY <1>1, ReportsOK DEF Outcomes
  <2> QED
    BY <1>1, <1>3, <2>1, QuietStep
<1>4. CASE crawl' = [crawl EXCEPT ![c] = [self EXCEPT !.tries = @ + 1]]
  <2> DEFINE r == [self EXCEPT !.tries = @ + 1]
  <2>1. r \in CrawlMemory /\ r.phase = "collect" /\ r.sent = self.sent /\ r.mine = self.mine
        /\ r.results = self.results /\ r.video = self.video
    BY SMTT(40), <1>1 DEF CrawlMemory
  <2> HIDE DEF r
  <2>2. MemoryOK(r)
    BY <1>1, <2>1 DEF MemoryOK, Successes, Working
  <2> QED
    BY <1>1, <1>4, <2>1, <2>2, QuietStep DEF r
<1> QED
  BY <1>2, <1>3, <1>4 DEF CollectEvidence

LEMMA LookForItemStep ==
  ASSUME CrawlIInv, NEW c \in Crawlers, LookForItem(c)
  PROVE  CrawlIInv'
<1> DEFINE self == crawl[c]
<1>1. /\ self \in CrawlMemory /\ MemoryOK(self) /\ self.phase = "look" /\ self.phase \in Working
      /\ UNCHANGED <<contents, inserting, embedded, strays>>
  BY DEF CrawlIInv, MemoryOK, LookForItem, Working
<1>2. CASE crawl' = [crawl EXCEPT ![c] = Skipped(self)]
  <2>1. MemoryOK(Skipped(self)) /\ Skipped(self).phase = "page"
    BY <1>1, ReportsOK DEF Outcomes, Skipped
  <2> QED
    BY <1>1, <1>2, <2>1, QuietStep
<1>3. CASE crawl' = [crawl EXCEPT ![c] = [self EXCEPT !.phase = "insert"]]
  <2> DEFINE r == [self EXCEPT !.phase = "insert"]
  <2>1. r \in CrawlMemory /\ r.phase = "insert" /\ r.sent = self.sent /\ r.mine = self.mine
        /\ r.results = self.results /\ r.video = self.video
    BY <1>1 DEF CrawlMemory, Working
  <2> HIDE DEF r
  <2>2. MemoryOK(r)
    BY <1>1, <2>1 DEF MemoryOK, Successes, Working
  <2> QED
    BY <1>1, <1>3, <2>1, <2>2, QuietStep DEF r
<1> QED
  BY <1>2, <1>3 DEF LookForItem

LEMMA InsertItemStep ==
  ASSUME CrawlIInv, NEW c \in Crawlers, InsertItem(c)
  PROVE  CrawlIInv'
<1> DEFINE self == crawl[c]
           r == [self EXCEPT !.phase = "upsert"]
<1>1. /\ self \in CrawlMemory /\ MemoryOK(self) /\ self.phase = "insert" /\ self.video \in Videos
      /\ inserting[self.video] = Nobody /\ contents[self.video] = 0
      /\ inserting' = [inserting EXCEPT ![self.video] = c] /\ crawl' = [crawl EXCEPT ![c] = r]
      /\ UNCHANGED <<contents, embedded, strays>>
  BY DEF CrawlIInv, MemoryOK, InsertItem, Working
<1>2. r \in CrawlMemory /\ r.phase = "upsert" /\ r.sent = self.sent /\ r.mine = self.mine
        /\ r.results = self.results /\ r.video = self.video
  BY <1>1 DEF CrawlMemory, Working
<1> HIDE DEF r
<1>3. MemoryOK(r)
  BY <1>1, <1>2, LimitsArePositive DEF MemoryOK, Successes, Working
<1>4. /\ DOMAIN crawl' = Crawlers /\ crawl' = [d \in Crawlers |-> crawl'[d]]
      /\ \A d \in Crawlers : crawl'[d] = IF d = c THEN r ELSE crawl[d]
  BY <1>1 DEF CrawlIInv, VideosOK
<1>5. \A v \in Videos : inserting'[v] = IF v = self.video THEN c ELSE inserting[v]
  BY <1>1 DEF CrawlIInv, VideosOK
<1>6. VideosOK'
  BY <1>1, <1>4 DEF CrawlIInv, VideosOK
<1>7. (\A d \in Crawlers : MemoryOK(crawl[d]))'
  BY <1>3, <1>4 DEF CrawlIInv
<1>8. KeysAreHeld'
  BY <1>1, <1>2, <1>4, <1>5, CrawlerAssumption DEF CrawlIInv, KeysAreHeld
<1>9. InsertsAreFirst' /\ VideoIsStoredOnce'
  BY <1>1, <1>5 DEF CrawlIInv, InsertsAreFirst, VideoIsStoredOnce
<1> QED
  BY <1>6, <1>7, <1>8, <1>9 DEF CrawlIInv

LEMMA BreaksStep ==
  ASSUME CrawlIInv, NEW c \in Crawlers, NEW phase \in {"off", "broken"}, Breaks(c, phase)
  PROVE  CrawlIInv'
<1> DEFINE self == crawl[c]
           r == [CrawlerOff EXCEPT !.phase = phase]
<1>1. /\ self \in CrawlMemory /\ MemoryOK(self)
      /\ inserting' = [v \in Videos |-> IF inserting[v] = c THEN Nobody ELSE inserting[v]]
      /\ strays' = IF self.sent = 0 THEN strays ELSE [strays EXCEPT ![self.video] = @ + self.sent]
      /\ crawl' = [crawl EXCEPT ![c] = r] /\ UNCHANGED <<contents, embedded>>
  BY DEF CrawlIInv, MemoryOK, Breaks
<1>2. MemoryOK(r) /\ r.phase = phase
  <2>1. MemoryOK([CrawlerOff EXCEPT !.phase = phase, !.existing = {}])
    BY OffOK
  <2>2. r = [CrawlerOff EXCEPT !.phase = phase, !.existing = {}] /\ r.phase = phase
    BY OffMemory DEF CrawlMemory
  <2> QED
    BY <2>1, <2>2
<1> HIDE DEF r
<1>3. /\ DOMAIN crawl' = Crawlers /\ crawl' = [d \in Crawlers |-> crawl'[d]]
      /\ \A d \in Crawlers : crawl'[d] = IF d = c THEN r ELSE crawl[d]
  BY <1>1 DEF CrawlIInv, VideosOK
<1>4. strays' \in [Videos -> Nat]
  <2>1. CASE self.sent # 0
    <3>1. self.sent \in Nat /\ self.video \in Videos
      BY <1>1, <2>1, LimitsArePositive DEF MemoryOK, CrawlMemory, Working
    <3> QED
      BY <1>1, <2>1, <3>1 DEF CrawlIInv, VideosOK
  <2> QED
    BY <1>1, <2>1 DEF CrawlIInv, VideosOK
<1>5. VideosOK'
  BY <1>1, <1>3, <1>4 DEF CrawlIInv, VideosOK
<1>6. (\A d \in Crawlers : MemoryOK(crawl[d]))'
  BY <1>2, <1>3 DEF CrawlIInv
<1>7. KeysAreHeld'
  BY <1>1, <1>2, <1>3, CrawlerAssumption DEF CrawlIInv, KeysAreHeld
<1>8. InsertsAreFirst' /\ VideoIsStoredOnce'
  BY <1>1 DEF CrawlIInv, InsertsAreFirst, VideoIsStoredOnce
<1> QED
  BY <1>5, <1>6, <1>7, <1>8 DEF CrawlIInv

LEMMA UpsertPointStep ==
  ASSUME CrawlIInv, NEW c \in Crawlers, UpsertPoint(c)
  PROVE  CrawlIInv'
<1> DEFINE self == crawl[c]
           r == Upserted(self)
<1>1. /\ self \in CrawlMemory /\ MemoryOK(self) /\ self.phase = "upsert" /\ self.sent < VideoChunks
      /\ self.sent \in Nat /\ crawl' = [crawl EXCEPT ![c] = r]
      /\ UNCHANGED <<contents, inserting, embedded, strays>>
  BY LimitsArePositive DEF CrawlIInv, MemoryOK, UpsertPoint, CrawlMemory
<1>2. self.sent + 1 \in 0 .. VideoChunks
  BY <1>1, LimitsArePositive
<1>3. /\ r \in CrawlMemory /\ r.sent = self.sent + 1 /\ r.mine = self.mine
      /\ r.results = self.results /\ r.video = self.video
      /\ r.phase = IF self.sent + 1 = VideoChunks THEN "commit" ELSE "upsert"
  BY <1>1, <1>2 DEF CrawlMemory, Working, Upserted
<1> HIDE DEF r
<1>4. MemoryOK(r)
  BY <1>1, <1>2, <1>3, LimitsArePositive DEF MemoryOK, Successes, Working
<1> QED
  BY <1>1, <1>3, <1>4, QuietStep

LEMMA CommitItemStep ==
  ASSUME CrawlIInv, NEW c \in Crawlers, CommitItem(c)
  PROVE  CrawlIInv'
<1> DEFINE self == crawl[c]
           r == [Reports(self, "success") EXCEPT !.mine = @ \cup {self.video}]
<1>1. /\ MemoryOK(self) /\ self.phase = "commit" /\ self.video \in Videos /\ self.sent = VideoChunks
      /\ contents' = [contents EXCEPT ![self.video] = @ + 1]
      /\ embedded' = [embedded EXCEPT ![self.video] = self.sent]
      /\ inserting' = [inserting EXCEPT ![self.video] = Nobody]
      /\ crawl' = [crawl EXCEPT ![c] = r] /\ strays' = strays
  BY DEF CrawlIInv, MemoryOK, CommitItem, Working
<1>2. MemoryOK(r) /\ r.phase = "page"
  BY <1>1, StoredOK DEF Working
<1> HIDE DEF r
<1>3. /\ DOMAIN crawl' = Crawlers /\ crawl' = [d \in Crawlers |-> crawl'[d]]
      /\ \A d \in Crawlers : crawl'[d] = IF d = c THEN r ELSE crawl[d]
  BY <1>1 DEF CrawlIInv, VideosOK
<1>4. inserting[self.video] = c /\ c # Nobody /\ contents[self.video] = 0
  BY <1>1, CrawlerAssumption DEF CrawlIInv, KeysAreHeld, InsertsAreFirst
<1>5. VideosOK'
  BY <1>1, <1>3, LimitsArePositive DEF CrawlIInv, VideosOK
<1>6. (\A d \in Crawlers : MemoryOK(crawl[d]))'
  BY <1>2, <1>3 DEF CrawlIInv
<1>7. KeysAreHeld'
  BY <1>1, <1>2, <1>3, <1>4, CrawlerAssumption DEF CrawlIInv, KeysAreHeld, VideosOK
<1>8. InsertsAreFirst' /\ VideoIsStoredOnce'
  BY <1>1, <1>4 DEF CrawlIInv, VideosOK, InsertsAreFirst, VideoIsStoredOnce
<1> QED
  BY <1>5, <1>6, <1>7, <1>8 DEF CrawlIInv

(* Every step of a crawler, every failure and every kill keeps the         *)
(* invariant.                                                              *)
THEOREM CrawlInductive == CrawlerSpec => []CrawlIInv
<1>1. CrawlerInit => CrawlIInv
  <2> SUFFICES ASSUME CrawlerInit PROVE CrawlIInv
    OBVIOUS
  <2>1. MemoryOK(CrawlerOff)
    <3>1. CrawlerOff = [CrawlerOff EXCEPT !.phase = "off", !.existing = {}]
      BY OffMemory DEF CrawlMemory
    <3> QED
      BY <3>1, OffOK
  <2>2. \A c \in Crawlers : crawl[c] = CrawlerOff /\ MemoryOK(crawl[c]) /\ crawl[c].phase = "off"
    BY <2>1 DEF CrawlerInit, CrawlerOff
  <2> QED
    BY <2>2, LimitsArePositive, CrawlerAssumption DEF CrawlerInit, CrawlIInv, VideosOK, KeysAreHeld,
       InsertsAreFirst, VideoIsStoredOnce
<1>2. ASSUME CrawlIInv, [CrawlerNext]_crawlerVars PROVE CrawlIInv'
  <2>1. ASSUME NEW c \in Crawlers, StartCrawl(c) \/ CrawlStep(c) \/ UpsertFails(c) \/ CrawlKilled(c)
        PROVE  CrawlIInv'
    <3>1. CASE InsertFails(c) \/ UpsertFails(c) \/ CrawlKilled(c)
      BY <1>2, <3>1, BreaksStep DEF InsertFails, UpsertFails, CrawlKilled
    <3> QED
      BY <1>2, <2>1, <3>1, StartCrawlStep, SearchPageStep, NextCandidateStep, CollectEvidenceStep,
         LookForItemStep, InsertItemStep, UpsertPointStep, CommitItemStep DEF CrawlStep
  <2>2. CASE UNCHANGED crawlerVars
    BY <1>2, <2>2 DEF crawlerVars, CrawlIInv, VideosOK, KeysAreHeld, InsertsAreFirst, VideoIsStoredOnce
  <2> QED
    BY <1>2, <2>1, <2>2 DEF CrawlerNext
<1> QED
  BY <1>1, <1>2, PTL DEF CrawlerSpec

(* Whatever crawlers overlap, fail between two points or are killed, a     *)
(* video is stored once, with all its chunks embedded, and the summary of  *)
(* a run counts as successes exactly the videos that the run itself        *)
(* stored, never more than its target.                                     *)
THEOREM CrawlsAreHonest == CrawlerSpec => []CrawlIsHonest
<1>1. CrawlIInv => CrawlIsHonest
  BY DEF CrawlIInv, VideosOK, MemoryOK, CrawlMemory, CrawlIsHonest, CrawlerTypeOK, SummaryIsHonest
<1> QED
  BY <1>1, CrawlInductive, PTL

-----------------------------------------------------------------------------
(***************************************************************************)
(* The quality gate of the figures' descriptions.                          *)
(***************************************************************************)
Checks == {"none", "structural_checks", "vision_grounding"}
Task == [at : Ended \cup {"waiting", "drafting", "asking", "unreviewed", "reviewing"}, tries : Nat,
         text : Captions \cup {NoText}, check : Checks]
GateShape ==
    /\ GateTypeOK
    /\ kept \in [Range(KeyOf) -> [text : Captions \cup {NoText}, check : Checks]]
    /\ tasks \in [Figures -> Task]

(* What the cache calls reviewed has been reviewed, for the picture of     *)
(* every figure that finds it.                                             *)
CacheIsReviewed ==
    \A f \in Figures : kept[KeyOf[f]].check = "vision_grounding" =>
        <<PictureOf[f], kept[KeyOf[f]].text>> \in passed
CandidatesAreSound ==
    \A f \in Figures : tasks[f].at \in {"unreviewed", "reviewing"} => Sound(tasks[f].text)
TasksAreOfRun == ~ enriching => \A f \in Figures : tasks[f].at = "waiting"

GateIInv ==
    /\ GateShape /\ CacheIsReviewed /\ CandidatesAreSound /\ TasksAreOfRun
    /\ AcceptedIsReviewed /\ EnrichedIsWhole

LEMMA PendingIsTask ==
  \A c \in Captions \cup {NoText} : Pending(c) \in Task /\ Pending(c).at = "waiting"
  BY DEF Pending, Task, Checks

LEMMA GateInitIInv == GateInit => GateIInv
<1> SUFFICES ASSUME GateInit PROVE GateIInv
  OBVIOUS
<1>1. \A f \in Figures : tasks[f] = Pending(NoText) /\ tasks[f] \in Task /\ tasks[f].at = "waiting"
  BY PendingIsTask DEF GateInit
<1>2. GateShape
  BY <1>1, PendingIsTask DEF GateInit, GateShape, GateTypeOK, Unread, Undescribed, Checks
<1>3. \A f \in Figures : kept[KeyOf[f]].check = "none" /\ figure[f].status = "prepared"
  BY KeyAssumption DEF GateInit, Unread, Undescribed
<1> QED
  BY <1>1, <1>2, <1>3 DEF GateInit, GateIInv, CacheIsReviewed, CandidatesAreSound, TasksAreOfRun,
     AcceptedIsReviewed, EnrichedIsWhole

(* A task moves on: what it is then keeps the invariant when it has not    *)
(* accepted anything.                                                      *)
LEMMA TaskMoves ==
  ASSUME GateIInv, enriching, NEW f \in Figures, NEW t \in Task, Become(f, t),
         t.at # "described", t.at \in {"unreviewed", "reviewing"} => Sound(t.text),
         UNCHANGED <<stage, figure, enriching, passed, kept>>, denied' \in BOOLEAN
  PROVE  GateIInv'
<1>1. \A g \in Figures : tasks'[g] = IF g = f THEN t ELSE tasks[g]
  BY DEF GateIInv, GateShape, Become
<1>2. GateShape'
  <2>1. tasks' \in [Figures -> Task]
    BY DEF GateIInv, GateShape, Become
  <2>2. GateTypeOK'
    BY DEF GateIInv, GateShape, GateTypeOK
  <2> QED
    BY <2>1, <2>2 DEF GateIInv, GateShape
<1> QED
  BY <1>1, <1>2 DEF GateIInv, CacheIsReviewed, CandidatesAreSound, TasksAreOfRun,
     AcceptedIsReviewed, EnrichedIsWhole, Sound, NeedsVision

(* A task accepts a text that is sound and, where it must be, reviewed.    *)
LEMMA TaskAccepts ==
  ASSUME GateIInv, enriching, NEW f \in Figures, NEW c \in Captions, NEW check \in Checks,
         tasks' = [tasks EXCEPT ![f] =
                      [tasks[f] EXCEPT !.at = "described", !.text = c, !.check = check]],
         kept' \in {kept, [kept EXCEPT ![KeyOf[f]] = [text |-> c, check |-> check]]},
         passed \subseteq passed', passed' \subseteq Pictures \X Captions,
         Sound(c), NeedsVision(f, c) \/ check = "vision_grounding" => <<PictureOf[f], c>> \in passed',
         UNCHANGED <<stage, figure, enriching, denied>>
  PROVE  GateIInv'
<1>1. PICK t \in Task : /\ t = [tasks[f] EXCEPT !.at = "described", !.text = c, !.check = check]
                       /\ t.at = "described" /\ t.text = c
  <2>1. tasks[f] \in Task /\ "described" \in Ended
    BY DEF GateIInv, GateShape, Ended
  <2>2. [tasks[f] EXCEPT !.at = "described", !.text = c, !.check = check] \in Task
    BY <2>1 DEF Task
  <2> QED
    BY <2>1, <2>2 DEF Task
<1>2. tasks' = [tasks EXCEPT ![f] = t]
  BY <1>1
<1>3. \A g \in Figures : tasks'[g] = IF g = f THEN t ELSE tasks[g]
  BY <1>2 DEF GateIInv, GateShape
<1>4. GateShape'
  <2>1. tasks' \in [Figures -> Task]
    BY <1>2 DEF GateIInv, GateShape
  <2>2. kept' \in [Range(KeyOf) -> [text : Captions \cup {NoText}, check : Checks]]
    BY DEF GateIInv, GateShape
  <2>3. GateTypeOK'
    BY DEF GateIInv, GateShape, GateTypeOK
  <2> QED
    BY <2>1, <2>2, <2>3 DEF GateShape
<1>5. CacheIsReviewed'
  <2> SUFFICES ASSUME NEW g \in Figures, kept'[KeyOf[g]].check = "vision_grounding"
               PROVE  <<PictureOf[g], kept'[KeyOf[g]].text>> \in passed'
    BY DEF CacheIsReviewed
  <2>1. CASE kept' = kept \/ KeyOf[g] # KeyOf[f]
    BY <2>1, KeyAssumption DEF GateIInv, GateShape, CacheIsReviewed
  <2>2. CASE kept' # kept /\ KeyOf[g] = KeyOf[f]
    <3>1. kept'[KeyOf[g]] = [text |-> c, check |-> check]
      BY <2>2, KeyAssumption DEF GateIInv, GateShape
    <3>2. PictureOf[g] = PictureOf[f]
      BY <2>2, KeyAssumption
    <3> QED
      BY <3>1, <3>2
  <2> QED
    BY <2>1, <2>2
<1>6. \A g \in Figures : \A x : NeedsVision(g, x)' <=> NeedsVision(g, x)
  BY DEF NeedsVision
<1>7. AcceptedIsReviewed' /\ CandidatesAreSound'
  BY <1>1, <1>3, <1>6 DEF GateIInv, AcceptedIsReviewed, CandidatesAreSound, Sound
<1> QED
  BY <1>3, <1>4, <1>5, <1>7 DEF GateIInv, TasksAreOfRun, EnrichedIsWhole

LEMMA RejectStep ==
  ASSUME GateIInv, enriching, NEW f \in Figures, Reject(f),
         UNCHANGED <<stage, figure, enriching, passed, denied>>
  PROVE  GateIInv'
<1>1. tasks[f] \in Task /\ denied' \in BOOLEAN
  BY DEF GateIInv, GateShape, GateTypeOK
<1>2. CASE Move(f, "description_quarantined")
  <2> DEFINE t == [tasks[f] EXCEPT !.at = "description_quarantined"]
  <2>1. t \in Task /\ t.at = "description_quarantined" /\ Become(f, t)
    BY <1>1, <1>2 DEF Task, Ended, Move
  <2> HIDE DEF t
  <2> QED
    BY <1>1, <2>1, TaskMoves DEF Reject
<1>3. CASE Become(f, [tasks[f] EXCEPT !.at = "drafting", !.tries = @ + 1, !.text = NoText])
  <2> DEFINE t == [tasks[f] EXCEPT !.at = "drafting", !.tries = @ + 1, !.text = NoText]
  <2>1. tasks[f].tries + 1 \in Nat
        /\ "drafting" \in {"waiting", "drafting", "asking", "unreviewed", "reviewing"}
    BY <1>1 DEF Task
  <2>2. t \in Task /\ t.at = "drafting"
    BY <1>1, <2>1 DEF Task
  <2>3. Become(f, t)
    BY <1>3
  <2> HIDE DEF t
  <2> QED
    BY <1>1, <2>2, <2>3, TaskMoves DEF Reject
<1> QED
  BY <1>2, <1>3 DEF Reject

LEMMA JudgeStep ==
  ASSUME GateIInv, enriching, NEW f \in Figures, NEW c \in Captions \cup {NoText}, Judge(f, c),
         UNCHANGED <<stage, figure, enriching, passed, denied>>
  PROVE  GateIInv'
<1>1. tasks[f] \in Task /\ denied' \in BOOLEAN
  BY DEF GateIInv, GateShape, GateTypeOK
<1>2. CASE ~ Sound(c)
  BY <1>2, RejectStep DEF Judge
<1>3. CASE Sound(c) /\ NeedsVision(f, c)
  <2> DEFINE t == [tasks[f] EXCEPT !.at = "unreviewed", !.text = c]
  <2>1. t \in Task /\ t.at = "unreviewed" /\ t.text = c
    BY <1>1 DEF Task
  <2>2. Become(f, t) /\ kept' = kept
    BY <1>3 DEF Judge
  <2> HIDE DEF t
  <2> QED
    BY <1>1, <1>3, <2>1, <2>2, TaskMoves
<1>4. CASE Sound(c) /\ ~ NeedsVision(f, c)
  <2>1. c \in Captions /\ "structural_checks" \in Checks
    BY <1>4 DEF Sound, Checks
  <2>2. /\ kept' = [kept EXCEPT ![KeyOf[f]] = [text |-> c, check |-> "structural_checks"]]
        /\ tasks' = [tasks EXCEPT ![f] =
               [tasks[f] EXCEPT !.at = "described", !.text = c, !.check = "structural_checks"]]
    BY <1>4 DEF Judge, Accept, Become
  <2>3. passed' \subseteq Pictures \X Captions
    BY DEF GateIInv, GateShape, GateTypeOK
  <2> QED
    BY <1>4, <2>1, <2>2, <2>3, TaskAccepts
<1> QED
  BY <1>2, <1>3, <1>4

LEMMA LookUpStep ==
  ASSUME GateIInv, NEW f \in Figures, LookUp(f)
  PROVE  GateIInv'
<1> DEFINE entry == kept[KeyOf[f]]
           seed == IF entry.check # "none" THEN entry.text ELSE tasks[f].text
<1>1. /\ enriching /\ UNCHANGED <<stage, figure, enriching, denied, passed>>
      /\ tasks[f] \in Task /\ denied' \in BOOLEAN
      /\ entry \in [text : Captions \cup {NoText}, check : Checks]
      /\ passed' \subseteq Pictures \X Captions
  BY KeyAssumption DEF LookUp, GateIInv, GateShape, GateTypeOK
<1>2. CASE Usable(f, entry)
  <2>1. /\ tasks' = [tasks EXCEPT ![f] =
               [tasks[f] EXCEPT !.at = "described", !.text = entry.text, !.check = entry.check]]
        /\ kept' = kept
    BY <1>2 DEF LookUp, Become
  <2>2. /\ Sound(entry.text) /\ entry.text \in Captions /\ entry.check \in Checks
        /\ NeedsVision(f, entry.text) => entry.check = "vision_grounding"
    BY <1>1, <1>2 DEF Usable, Sound
  <2>3. entry.check = "vision_grounding" => <<PictureOf[f], entry.text>> \in passed
    BY DEF GateIInv, CacheIsReviewed
  <2> QED
    BY <1>1, <2>1, <2>2, <2>3, TaskAccepts
<1>3. CASE ~Usable(f, entry) /\ Judge(f, seed)
  <2>1. seed \in Captions \cup {NoText}
    BY <1>1 DEF Task
  <2> QED
    BY <1>1, <1>3, <2>1, JudgeStep
<1>4. CASE Move(f, "drafting") /\ kept' = kept
  <2> DEFINE t == [tasks[f] EXCEPT !.at = "drafting"]
  <2>1. t \in Task /\ t.at = "drafting" /\ Become(f, t)
    BY <1>1, <1>4 DEF Task, Move
  <2> HIDE DEF t
  <2> QED
    BY <1>1, <1>4, <2>1, TaskMoves
<1> QED
  BY <1>2, <1>3, <1>4 DEF LookUp

LEMMA CallModelStep ==
  ASSUME GateIInv, NEW f \in Figures, CallModel(f)
  PROVE  GateIInv'
<1>1. /\ enriching /\ tasks[f].at \in {"drafting", "unreviewed"} /\ tasks[f] \in Task
      /\ denied' \in BOOLEAN
      /\ UNCHANGED <<stage, figure, kept, enriching, denied, passed>>
  BY DEF CallModel, GateIInv, GateShape, GateTypeOK
<1>2. PICK to \in {"description_failed", "asking", "reviewing"} :
         Move(f, to) /\ (to = "reviewing" => tasks[f].at = "unreviewed")
  BY <1>1 DEF CallModel
<1> DEFINE t == [tasks[f] EXCEPT !.at = to]
<1>3. t \in Task /\ t.at = to /\ t.text = tasks[f].text /\ Become(f, t)
  BY <1>1, <1>2 DEF Task, Move, Ended
<1>4. to = "reviewing" => Sound(tasks[f].text)
  BY <1>1, <1>2 DEF GateIInv, CandidatesAreSound
<1> HIDE DEF t
<1> QED
  BY <1>1, <1>3, <1>4, TaskMoves

LEMMA ReviewedStep ==
  ASSUME GateIInv, NEW f \in Figures, Reviewed(f)
  PROVE  GateIInv'
<1>1. /\ enriching /\ tasks[f].at = "reviewing" /\ Sound(tasks[f].text)
      /\ UNCHANGED <<stage, figure, enriching, denied>>
      /\ passed \subseteq Pictures \X Captions
  BY DEF Reviewed, GateIInv, GateShape, GateTypeOK, CandidatesAreSound
<1>2. CASE Reject(f) /\ UNCHANGED passed
  BY <1>1, <1>2, RejectStep
<1>3. CASE Accept(f, tasks[f].text, "vision_grounding")
      /\ passed' = passed \cup {<<PictureOf[f], tasks[f].text>>}
  <2>1. tasks[f].text \in Captions /\ "vision_grounding" \in Checks /\ PictureOf[f] \in Pictures
    BY <1>1, FigureAssumption DEF Sound, Checks
  <2>2. /\ kept' = [kept EXCEPT ![KeyOf[f]] = [text |-> tasks[f].text, check |-> "vision_grounding"]]
        /\ tasks' = [tasks EXCEPT ![f] = [tasks[f] EXCEPT !.at = "described", !.text = tasks[f].text,
                                         !.check = "vision_grounding"]]
    BY <1>3 DEF Accept, Become
  <2>3. passed' \subseteq Pictures \X Captions /\ passed \subseteq passed'
        /\ <<PictureOf[f], tasks[f].text>> \in passed'
    BY <1>1, <1>3, <2>1
  <2> QED
    BY <1>1, <2>1, <2>2, <2>3, TaskAccepts
<1> QED
  BY <1>2, <1>3 DEF Reviewed

LEMMA CallFailsStep ==
  ASSUME GateIInv, NEW f \in Figures, CallFails(f)
  PROVE  GateIInv'
<1>1. /\ enriching /\ tasks[f] \in Task /\ denied' \in BOOLEAN
      /\ UNCHANGED <<stage, figure, kept, enriching, passed>>
  BY DEF CallFails, GateIInv, GateShape, GateTypeOK
<1>2. PICK to \in {"description_failed", "description_quarantined"} : Move(f, to)
  BY DEF CallFails
<1> DEFINE t == [tasks[f] EXCEPT !.at = to]
<1>3. t \in Task /\ t.at = to /\ Become(f, t)
  BY <1>1, <1>2 DEF Task, Move, Ended
<1> HIDE DEF t
<1> QED
  BY <1>1, <1>3, TaskMoves

(* Between two runs all tasks are new.                                     *)
LEMMA RunEnds ==
  ASSUME GateIInv, tasks' \in [Figures -> Task], \A f \in Figures : tasks'[f].at = "waiting",
         UNCHANGED <<kept, passed>>, GateTypeOK', EnrichedIsWhole'
  PROVE  GateIInv'
BY DEF GateIInv, GateShape, CacheIsReviewed, CandidatesAreSound, TasksAreOfRun, AcceptedIsReviewed

LEMMA RunStep ==
  ASSUME GateIInv, StartEnrich \/ Killed \/ PrepareAgain
  PROVE  GateIInv'
<1>1. tasks' \in [Figures -> Task] /\ \A f \in Figures : tasks'[f].at = "waiting"
  <2>1. CASE StartEnrich
    <3>1. PICK old \in Seeds : tasks' = [f \in Figures |-> Pending(old[PictureOf[f]])]
      BY <2>1 DEF StartEnrich
    <3>2. \A f \in Figures : old[PictureOf[f]] \in Captions \cup {NoText}
      BY SeedAssumption, FigureAssumption
    <3> QED
      BY <3>1, <3>2, PendingIsTask
  <2>2. CASE Killed
    BY <2>2, PendingIsTask DEF Killed
  <2>3. CASE PrepareAgain
    BY <2>3 DEF PrepareAgain, GateIInv, GateShape, TasksAreOfRun
  <2> QED
    BY <2>1, <2>2, <2>3
<1>2. UNCHANGED <<kept, passed>>
  BY DEF StartEnrich, Killed, PrepareAgain
<1>3. CASE PrepareAgain
  <2>1. \A f \in Figures : figure'[f].status = "prepared"
    BY <1>3 DEF PrepareAgain, Undescribed
  <2>2. GateTypeOK' /\ EnrichedIsWhole'
    BY <1>3, <2>1 DEF PrepareAgain, GateIInv, GateShape, GateTypeOK, EnrichedIsWhole, Undescribed
  <2> QED
    BY <1>1, <1>2, <2>2, RunEnds
<1>4. CASE StartEnrich \/ Killed
  <2>1. /\ stage' \in {stage, "broken"} /\ figure' = figure
        /\ enriching' \in BOOLEAN /\ denied' \in BOOLEAN
    BY <1>4 DEF StartEnrich, Killed, GateIInv, GateShape, GateTypeOK
  <2>2. GateTypeOK' /\ EnrichedIsWhole'
    BY <1>2, <2>1 DEF GateIInv, GateShape, GateTypeOK, EnrichedIsWhole
  <2> QED
    BY <1>1, <1>2, <2>2, RunEnds
<1> QED
  BY <1>3, <1>4

LEMMA WriteBundleStep ==
  ASSUME GateIInv, WriteBundle
  PROVE  GateIInv'
<1>1. /\ \A f \in Figures : tasks[f].at \in Ended
      /\ stage' = StageAfter /\ figure' = [f \in Figures |-> Outcome(f)]
      /\ enriching' = FALSE /\ tasks' = [f \in Figures |-> Pending(NoText)]
      /\ UNCHANGED <<kept, denied, passed>>
  BY DEF WriteBundle
<1>2. tasks' \in [Figures -> Task] /\ \A f \in Figures : tasks'[f].at = "waiting"
  BY <1>1, PendingIsTask
<1>3. ASSUME NEW f \in Figures
      PROVE  /\ Outcome(f) \in
                   [status : Ended \cup {"prepared"}, text : Captions \cup {NoText}, check : Checks]
             /\ Outcome(f).status = tasks[f].at
             /\ tasks[f].at = "described" => Outcome(f).text = tasks[f].text
  <2>1. tasks[f] \in Task /\ tasks[f].at \in Ended /\ figure[f].text \in Captions \cup {NoText}
    BY <1>1 DEF GateIInv, GateShape, GateTypeOK
  <2> QED
    BY <2>1 DEF Outcome, Task, Checks
<1>4. GateTypeOK'
  <2>1. stage' \in {"enriched", "enrichment_partial"}
    BY <1>1 DEF StageAfter
  <2>2. figure' \in
          [Figures -> [status : Ended \cup {"prepared"}, text : Captions \cup {NoText}, check : Checks]]
    BY <1>1, <1>3
  <2> QED
    BY <1>1, <2>1, <2>2 DEF GateIInv, GateShape, GateTypeOK, Checks
<1>5. EnrichedIsWhole'
  <2>1. ASSUME stage' = "enriched", NEW f \in Figures
        PROVE  figure'[f].status \in {"described", "description_quarantined"}
    BY <1>1, <1>3, <2>1 DEF StageAfter, Ended
  <2>2. ASSUME NEW f \in Figures, figure'[f].status = "described"
        PROVE  /\ Sound(figure'[f].text)
               /\ NeedsVision(f, figure'[f].text) => <<PictureOf[f], figure'[f].text>> \in passed'
    BY <1>1, <1>3, <2>2 DEF GateIInv, AcceptedIsReviewed
  <2> QED
    BY <2>1, <2>2 DEF EnrichedIsWhole
<1> QED
  BY <1>1, <1>2, <1>4, <1>5, RunEnds

(* Every lookup, model call, review, failure and write keeps the           *)
(* invariant.                                                              *)
THEOREM GateInductive == GateSpec => []GateIInv
<1>1. ASSUME GateIInv, [GateNext]_gateVars PROVE GateIInv'
  <2>1. ASSUME NEW f \in Figures, LookUp(f) \/ CallModel(f) \/ ModelAnswers(f)
        \/ Reviewed(f) \/ CallFails(f)
        PROVE  GateIInv'
    <3>1. CASE ModelAnswers(f)
      BY <1>1, <3>1, JudgeStep DEF ModelAnswers
    <3> QED
      BY <1>1, <2>1, <3>1, LookUpStep, CallModelStep, ReviewedStep, CallFailsStep
  <2>2. CASE UNCHANGED gateVars
    BY <1>1, <2>2
       DEF gateVars, GateIInv, GateShape, GateTypeOK, CacheIsReviewed, CandidatesAreSound,
       TasksAreOfRun,
       AcceptedIsReviewed, EnrichedIsWhole, Sound, NeedsVision
  <2> QED
    BY <1>1, <2>1, <2>2, RunStep, WriteBundleStep DEF GateNext
<1> QED
  BY <1>1, GateInitIInv, PTL DEF GateSpec

(* However the calls for the figures of a document interleave, fail and    *)
(* resume over the cache, a description, being accepted or written in the  *)
(* bundle, is sound and was reviewed against its picture if it is of a     *)
(* screenshot or of a software section, and a bundle passes as enriched    *)
(* only with an outcome for each of its figures.                           *)
THEOREM CaptionsSound == GateSpec => []CaptionsAreSound
<1>1. GateIInv => CaptionsAreSound
  BY DEF GateIInv, GateShape, CaptionsAreSound
<1> QED
  BY <1>1, GateInductive, PTL

-----------------------------------------------------------------------------
Stages == {"idle", "fetch", "analyse", "document", "store", "sync", "record", "verify",
           "sync audits"}
Collected == {"document", "store", "sync", "record"}

(* What a job has found, by its stage: pairs of a supplier and a page, or  *)
(* the suppliers it verifies.                                              *)
JobIsTyped ==
    /\ job.stage \in Stages /\ job.pages \subseteq Urls
    /\ job = [stage |-> job.stage, pages |-> job.pages, found |-> job.found]
    /\ job.stage \in Collected => job.found \subseteq Suppliers \X job.pages
    /\ job.stage = "verify" => job.found \subseteq Suppliers

(* The document never has less of a relation than the database. *)
DocumentLeads == \A s \in Suppliers : relations[s].urls \subseteq notes[s].urls

(* How far a job's findings have come. *)
FoundIsNoted ==
    job.stage = "store" =>
        \A s \in Suppliers, u \in Urls : <<s, u>> \in job.found => u \in notes[s].urls
FoundIsStored ==
    job.stage \in {"sync", "record"} =>
        \A s \in Suppliers, u \in Urls : <<s, u>> \in job.found => u \in relations[s].urls

(* Only a stored relation is audited. *)
AuditHasRow ==
    /\ \A s \in Suppliers : audits[s] # <<>> => relations[s] # Absent
    /\ job.stage = "verify" => \A s \in job.found : relations[s] # Absent

SupplyIInv ==
    /\ SupplierTypeOK /\ JobIsTyped /\ DocumentLeads /\ FoundIsNoted /\ FoundIsStored
    /\ AuditHasRow /\ KnownIsStored /\ StatusIsAudited

-----------------------------------------------------------------------------
LEMMA LastAppended ==
    ASSUME NEW q \in Seq(AuditOutcomes), NEW x \in AuditOutcomes
    PROVE  Append(q, x) # <<>> /\ Last(Append(q, x)) = x
  BY DEF Last

LEMMA AuditIsStatus == SupplierTypeOK => \A s \in Suppliers : Audited(s) \in Statuses \ {"absent"}
<1> SUFFICES ASSUME SupplierTypeOK, NEW s \in Suppliers PROVE Audited(s) \in Statuses \ {"absent"}
  OBVIOUS
<1>1. audits[s] \in Seq(AuditOutcomes)
  BY DEF SupplierTypeOK
<1>2. CASE audits[s] = <<>>
  BY <1>2 DEF Audited, Statuses
<1>3. CASE audits[s] # <<>>
  <2>1. Last(audits[s]) \in AuditOutcomes
    BY <1>1, <1>3 DEF Last
  <2> QED
    BY <2>1, <1>3 DEF Audited, Statuses, AuditOutcomes
<1> QED
  BY <1>2, <1>3

LEMMA SupplyStarts == SupplierInit => SupplyIInv
<1> SUFFICES ASSUME SupplierInit PROVE SupplyIInv
  OBVIOUS
<1>1. SupplierTypeOK
  BY JobsAssumption DEF SupplierInit, SupplierTypeOK, Relation, Statuses, Absent
<1> QED
  BY <1>1 DEF SupplierInit, SupplyIInv, JobIsTyped, DocumentLeads, FoundIsNoted, FoundIsStored, AuditHasRow,
     KnownIsStored, StatusIsAudited, NoJob, Stages, Collected

(* A step that only moves the job, to a stage that claims nothing new. *)
LEMMA JobMoves ==
    ASSUME SupplyIInv, UNCHANGED <<known, notes, relations, audits, answers>>, jobs' \in 0 .. MaxJobs,
           JobIsTyped', job'.stage \notin {"store", "sync", "record", "verify"}
    PROVE  SupplyIInv'
  BY DEF SupplyIInv, SupplierTypeOK, DocumentLeads, FoundIsNoted, FoundIsStored, AuditHasRow, KnownIsStored,
     StatusIsAudited, Audited

(* The end of a job, and every step before it writes. *)
LEMMA CollectStep ==
    ASSUME SupplyIInv, SearchNew \/ Fetch \/ Analyse \/ JobFails
    PROVE  SupplyIInv'
<1>1. jobs' \in 0 .. MaxJobs
  <2>1. jobs' = jobs \/ (jobs < MaxJobs /\ jobs' = jobs + 1)
    BY DEF SearchNew, Fetch, Analyse, JobFails
  <2> QED
    BY <2>1, JobsAssumption DEF SupplyIInv, SupplierTypeOK
<1>2. UNCHANGED <<known, notes, relations, audits, answers>>
  BY DEF SearchNew, Fetch, Analyse, JobFails
<1>3. JobIsTyped' /\ job'.stage \notin {"store", "sync", "record", "verify"}
  <2>1. CASE job' = NoJob
    BY <2>1 DEF JobIsTyped, NoJob, Stages, Collected
  <2>2. CASE SearchNew
    <3>1. PICK urls \in SUBSET Urls, force \in BOOLEAN :
             job' = [NoJob EXCEPT !.stage = "fetch", !.pages = IF force THEN urls ELSE urls \ known]
      BY <2>2 DEF SearchNew
    <3> QED
      BY <3>1 DEF JobIsTyped, NoJob, Stages, Collected
  <2>3. CASE Fetch
    <3>1. PICK got \in SUBSET job.pages :
             job' = IF got = {} THEN NoJob ELSE [job EXCEPT !.stage = "analyse", !.pages = got]
      BY <2>3 DEF Fetch
    <3> QED
      BY <3>1, <2>1 DEF SupplyIInv, JobIsTyped, Stages, Collected
  <2>4. CASE Analyse /\ job' # NoJob
    <3>1. PICK found \in SUBSET (Suppliers \X job.pages) :
             job' = [job EXCEPT !.stage = "document", !.found = found]
      BY <2>4 DEF Analyse, JobEnds
    <3> QED
      BY <3>1 DEF SupplyIInv, JobIsTyped, Stages, Collected
  <2> QED
    BY <2>1, <2>2, <2>3, <2>4 DEF JobFails, JobEnds
<1> QED
  BY <1>1, <1>2, <1>3, JobMoves

(* The document grows by what was found. *)
LEMMA NoteStep == ASSUME SupplyIInv, NoteRelations PROVE SupplyIInv'
<1> DEFINE pages(s) == {u \in job.pages : <<s, u>> \in job.found}
<1>1. /\ job.stage = "document" /\ job' = [job EXCEPT !.stage = "store"]
      /\ UNCHANGED <<known, relations, audits, answers, jobs>>
      /\ notes' = [s \in Suppliers |->
           IF pages(s) = {} THEN notes[s]
           ELSE [urls |-> notes[s].urls \cup pages(s),
                 status |-> IF notes[s] = Absent THEN "unverified" ELSE notes[s].status]]
  BY DEF NoteRelations
<1>2. /\ job'.stage = "store" /\ job'.pages = job.pages /\ job'.found = job.found
      /\ JobIsTyped'
  BY <1>1 DEF SupplyIInv, JobIsTyped, Stages, Collected
<1>3. \A s \in Suppliers : pages(s) \subseteq Urls /\ notes[s] \in Relation
  BY DEF SupplyIInv, JobIsTyped, SupplierTypeOK
<1>4. \A s \in Suppliers : /\ notes'[s] \in Relation
                           /\ notes'[s].urls = notes[s].urls \cup pages(s)
  BY <1>1, <1>3 DEF Relation, Statuses
<1>5. SupplierTypeOK'
  BY <1>1, <1>4 DEF SupplyIInv, SupplierTypeOK
<1>6. DocumentLeads'
  BY <1>1, <1>4 DEF SupplyIInv, DocumentLeads
<1>7. FoundIsNoted'
  BY <1>1, <1>2, <1>4 DEF SupplyIInv, FoundIsNoted, JobIsTyped, Collected
<1>8. FoundIsStored' /\ AuditHasRow' /\ KnownIsStored' /\ StatusIsAudited'
  BY <1>1, <1>2 DEF SupplyIInv, FoundIsStored, AuditHasRow, KnownIsStored, StatusIsAudited, Audited
<1> QED
  BY <1>2, <1>5, <1>6, <1>7, <1>8 DEF SupplyIInv

(* The transaction gives every relation of the document its row; a row     *)
(* keeps its status, and without audits that is unverified.                *)
LEMMA StoreStep == ASSUME SupplyIInv, Store PROVE SupplyIInv'
<1> DEFINE row(s) == IF notes[s] = Absent THEN relations[s] ELSE RelationRow(s)
           stored(s) == IF row(s) # Absent /\ audits[s] = <<>>
                        THEN [row(s) EXCEPT !.status = "unverified"] ELSE row(s)
<1>1. /\ job.stage = "store" /\ job' = [job EXCEPT !.stage = "sync"]
      /\ UNCHANGED <<known, notes, audits, answers, jobs>>
      /\ relations' = [s \in Suppliers |-> stored(s)]
  BY DEF Store
<1>2. /\ job'.stage = "sync" /\ job'.pages = job.pages /\ job'.found = job.found
      /\ JobIsTyped'
  BY <1>1 DEF SupplyIInv, JobIsTyped, Stages, Collected
<1>3. ASSUME NEW s \in Suppliers
      PROVE  /\ relations'[s] \in Relation
             /\ relations[s] # Absent => relations'[s] # Absent
             /\ relations'[s].urls = notes[s].urls
             /\ relations'[s] # Absent => relations'[s].status = Audited(s)
  <2>1. relations'[s] = stored(s)
    BY <1>1
  <2>2. /\ notes[s] \in Relation /\ relations[s] \in Relation
        /\ relations[s].urls \subseteq notes[s].urls
        /\ audits[s] # <<>> => relations[s] # Absent
        /\ relations[s] # Absent => relations[s].status = Audited(s)
        /\ Audited(s) \in Statuses \ {"absent"}
        /\ audits[s] = <<>> => Audited(s) = "unverified"
    BY AuditIsStatus DEF SupplyIInv, SupplierTypeOK, DocumentLeads, AuditHasRow, StatusIsAudited, Audited
  <2>3. CASE notes[s] = Absent
    <3>1. row(s) = relations[s] /\ relations[s].urls = {} /\ notes[s].urls = {}
      BY <2>2, <2>3 DEF Absent
    <3> QED
      BY <2>1, <2>2, <3>1 DEF Relation, Statuses, Absent
  <2>4. CASE notes[s] # Absent
    <3>1. row(s) = [urls |-> notes[s].urls,
                    status |-> IF relations[s] = Absent THEN "unverified" ELSE relations[s].status]
      BY <2>4 DEF RelationRow
    <3>2. row(s) # Absent /\ row(s) \in Relation
      BY <2>2, <3>1 DEF Relation, Statuses, Absent
    <3> QED
      BY <2>1, <2>2, <3>1, <3>2 DEF Relation, Statuses, Absent
  <2> QED
    BY <2>3, <2>4
<1>4. SupplierTypeOK'
  BY <1>1, <1>3 DEF SupplyIInv, SupplierTypeOK
<1>5. DocumentLeads' /\ AuditHasRow' /\ StatusIsAudited' /\ FoundIsNoted'
  BY <1>1, <1>2, <1>3 DEF SupplyIInv, DocumentLeads, AuditHasRow, StatusIsAudited, FoundIsNoted, Audited
<1>6. FoundIsStored'
  BY <1>1, <1>2, <1>3 DEF SupplyIInv, FoundIsNoted, FoundIsStored
<1>7. KnownIsStored'
  <2>1. \A s \in Suppliers : relations[s].urls \subseteq relations'[s].urls
    BY <1>3 DEF SupplyIInv, DocumentLeads
  <2> QED
    BY <1>1, <2>1 DEF SupplyIInv, KnownIsStored, SupplierTypeOK
<1> QED
  BY <1>2, <1>4, <1>5, <1>6, <1>7 DEF SupplyIInv

(* The synchronisation rewrites statuses only. *)
LEMMA SyncStep == ASSUME SupplyIInv, Sync PROVE SupplyIInv'
<1>1. /\ job.stage \in {"sync", "sync audits"}
      /\ job' = IF job.stage = "sync" THEN [job EXCEPT !.stage = "record"] ELSE NoJob
      /\ UNCHANGED <<known, relations, audits, answers, jobs>>
      /\ notes' = [s \in Suppliers |-> WithAudit(s)]
  BY DEF Sync
<1>2. /\ JobIsTyped' /\ job'.stage \in {"record", "idle"}
      /\ job'.stage = "record" => job.stage = "sync" /\ job'.found = job.found
  BY <1>1 DEF SupplyIInv, JobIsTyped, Stages, Collected, NoJob
<1>3. \A s \in Suppliers : notes'[s] \in Relation /\ notes'[s].urls = notes[s].urls
  <2> SUFFICES ASSUME NEW s \in Suppliers PROVE notes'[s] \in Relation /\ notes'[s].urls = notes[s].urls
    OBVIOUS
  <2>1. notes[s] \in Relation /\ Audited(s) \in Statuses /\ notes'[s] = WithAudit(s)
    BY <1>1, AuditIsStatus DEF SupplyIInv, SupplierTypeOK
  <2> QED
    BY <2>1 DEF WithAudit, Relation, Statuses, Absent
<1>4. SupplierTypeOK'
  BY <1>1, <1>3 DEF SupplyIInv, SupplierTypeOK
<1>5. DocumentLeads' /\ FoundIsNoted' /\ FoundIsStored'
  BY <1>1, <1>2, <1>3 DEF SupplyIInv, DocumentLeads, FoundIsNoted, FoundIsStored
<1>6. AuditHasRow' /\ KnownIsStored' /\ StatusIsAudited'
  BY <1>1, <1>2 DEF SupplyIInv, AuditHasRow, KnownIsStored, StatusIsAudited, Audited
<1> QED
  BY <1>2, <1>4, <1>5, <1>6 DEF SupplyIInv

(* Pages become known when what they gave is in the database. *)
LEMMA RecordStep == ASSUME SupplyIInv, Record PROVE SupplyIInv'
<1>1. /\ job.stage = "record" /\ known' = known \cup job.pages /\ job' = NoJob
      /\ UNCHANGED <<notes, relations, audits, jobs>>
      /\ answers' = [u \in Urls |-> IF u \in job.pages THEN {s \in Suppliers : <<s, u>> \in job.found}
                                    ELSE answers[u]]
  BY DEF Record, JobEnds
<1>2. SupplierTypeOK'
  BY <1>1 DEF SupplyIInv, SupplierTypeOK, JobIsTyped
<1>3. KnownIsStored'
  BY <1>1 DEF SupplyIInv, SupplierTypeOK, JobIsTyped, KnownIsStored, FoundIsStored
<1>4. JobIsTyped' /\ FoundIsNoted' /\ FoundIsStored' /\ AuditHasRow' /\ DocumentLeads'
      /\ StatusIsAudited'
  BY <1>1 DEF SupplyIInv, JobIsTyped, NoJob, Stages, Collected, FoundIsNoted, FoundIsStored, AuditHasRow,
     DocumentLeads, StatusIsAudited, Audited
<1> QED
  BY <1>2, <1>3, <1>4 DEF SupplyIInv

LEMMA StartVerifyStep == ASSUME SupplyIInv, StartVerify PROVE SupplyIInv'
<1>1. PICK which \in {"all", "failed", "unverified"} :
        /\ jobs < MaxJobs /\ jobs' = jobs + 1
        /\ job' = [NoJob EXCEPT !.stage = "verify", !.found = ToVerify(which)]
        /\ UNCHANGED <<known, notes, relations, audits, answers>>
  BY DEF StartVerify
<1>2. /\ job'.stage = "verify" /\ job'.found \subseteq Suppliers
      /\ \A s \in job'.found : relations[s] # Absent
      /\ JobIsTyped'
  BY <1>1 DEF JobIsTyped, NoJob, ToVerify, Stages, Collected
<1>3. SupplierTypeOK'
  BY <1>1, JobsAssumption DEF SupplyIInv, SupplierTypeOK
<1>4. FoundIsNoted' /\ FoundIsStored' /\ AuditHasRow' /\ DocumentLeads' /\ KnownIsStored'
      /\ StatusIsAudited'
  BY <1>1, <1>2 DEF SupplyIInv, FoundIsNoted, FoundIsStored, AuditHasRow, DocumentLeads, KnownIsStored,
     StatusIsAudited, Audited
<1> QED
  BY <1>2, <1>3, <1>4 DEF SupplyIInv

(* Audits and the statuses they give are one transaction. *)
LEMMA VerifyStep == ASSUME SupplyIInv, Verify PROVE SupplyIInv'
<1>1. PICK outcome \in [job.found -> AuditOutcomes] :
        /\ audits' = [s \in Suppliers |->
              IF s \in job.found THEN Append(audits[s], outcome[s]) ELSE audits[s]]
        /\ relations' = [s \in Suppliers |->
              IF s \in job.found THEN [relations[s] EXCEPT !.status = outcome[s]] ELSE relations[s]]
  BY DEF Verify
<1>2. /\ job.stage = "verify" /\ job' = [NoJob EXCEPT !.stage = "sync audits"]
      /\ UNCHANGED <<known, notes, answers, jobs>>
  BY DEF Verify
<1>3. ASSUME NEW s \in Suppliers
      PROVE  /\ relations'[s] \in Relation /\ relations'[s].urls = relations[s].urls
             /\ audits'[s] \in Seq(AuditOutcomes)
             /\ audits'[s] # <<>> => relations'[s] # Absent
             /\ relations'[s] # Absent => relations'[s].status = Audited(s)'
  <2>1. /\ relations[s] \in Relation /\ audits[s] \in Seq(AuditOutcomes)
        /\ audits[s] # <<>> => relations[s] # Absent
        /\ relations[s] # Absent => relations[s].status = Audited(s)
    BY DEF SupplyIInv, SupplierTypeOK, AuditHasRow, StatusIsAudited
  <2>2. CASE s \in job.found
    <3>1. /\ audits'[s] = Append(audits[s], outcome[s]) /\ outcome[s] \in AuditOutcomes
          /\ relations'[s] = [relations[s] EXCEPT !.status = outcome[s]]
      BY <1>1, <2>2
    <3>2. /\ relations'[s] \in Relation /\ relations'[s].urls = relations[s].urls
          /\ relations'[s].status = outcome[s] /\ relations'[s] # Absent
      BY <2>1, <3>1 DEF Relation, Statuses, Absent, AuditOutcomes
    <3>3. Audited(s)' = outcome[s] /\ audits'[s] \in Seq(AuditOutcomes)
      BY <2>1, <3>1, LastAppended DEF Audited
    <3> QED
      BY <3>2, <3>3
  <2>3. CASE s \notin job.found
    BY <1>1, <2>1, <2>3 DEF Audited
  <2> QED
    BY <2>2, <2>3
<1>4. SupplierTypeOK'
  BY <1>1, <1>2, <1>3 DEF SupplyIInv, SupplierTypeOK
<1>5. AuditHasRow' /\ StatusIsAudited'
  BY <1>2, <1>3 DEF AuditHasRow, StatusIsAudited, NoJob
<1>6. JobIsTyped' /\ FoundIsNoted' /\ FoundIsStored'
  BY <1>2 DEF JobIsTyped, FoundIsNoted, FoundIsStored, NoJob, Stages, Collected
<1>7. DocumentLeads'
  BY <1>2, <1>3 DEF SupplyIInv, DocumentLeads
<1>8. KnownIsStored'
  BY <1>2, <1>3 DEF SupplyIInv, KnownIsStored, SupplierTypeOK
<1> QED
  BY <1>4, <1>5, <1>6, <1>7, <1>8 DEF SupplyIInv

-----------------------------------------------------------------------------
(* Every step of a supplier run keeps the audit in step with the status.   *)
THEOREM SupplyInductive == SupplierSpec => []SupplyIInv
<1>1. ASSUME SupplyIInv, [SupplierNext]_supplierVars PROVE SupplyIInv'
  <2>1. CASE SearchNew \/ Fetch \/ Analyse \/ JobFails
    BY <1>1, <2>1, CollectStep
  <2>2. CASE NoteRelations
    BY <1>1, <2>2, NoteStep
  <2>3. CASE Store
    BY <1>1, <2>3, StoreStep
  <2>4. CASE Sync
    BY <1>1, <2>4, SyncStep
  <2>5. CASE Record
    BY <1>1, <2>5, RecordStep
  <2>6. CASE StartVerify
    BY <1>1, <2>6, StartVerifyStep
  <2>7. CASE Verify
    BY <1>1, <2>7, VerifyStep
  <2>8. CASE UNCHANGED supplierVars
    BY <1>1, <2>8 DEF supplierVars, SupplyIInv, SupplierTypeOK, JobIsTyped, DocumentLeads, FoundIsNoted,
       FoundIsStored, AuditHasRow, KnownIsStored, StatusIsAudited, Audited
  <2> QED
    BY <1>1, <2>1, <2>2, <2>3, <2>4, <2>5, <2>6, <2>7, <2>8 DEF SupplierNext
<1> QED
  BY <1>1, SupplyStarts, PTL DEF SupplierSpec

(* Whatever write a job was stopped at, the pages that are not read again  *)
(* have their relations in the database, whose statuses are those of the   *)
(* latest audits.                                                          *)
THEOREM StoresAgreeAlways == SupplierSpec => []StoresAgree
<1>1. SupplyIInv => StoresAgree
  BY DEF SupplyIInv, StoresAgree
<1> QED
  BY <1>1, SupplyInductive, PTL

-----------------------------------------------------------------------------
(***************************************************************************)
(* The papers table, which every literature worker writes: a row becomes   *)
(* that of one article and stays so, whatever the workers of other runs do *)
(* to the table between two of a worker's steps.                           *)
(***************************************************************************)
(* The shapes of rows, and how far a worker has come with its papers.      *)
Columns == {NoId} \cup {NumberOf[c] : c \in Records} \cup {DoiOf[c] : c \in Records}
               \cup {TitleOf[c] : c \in Records}
PaperRow == [number : Columns, doi : Columns, title : Columns]
Steps == {"searching", "ranking", "writing", "fetching", "analysing", "reported", "failed", "stopped"}
Picked == [direction : Nat, record : Records]
WorkState == [at : Steps, picks : Seq(Picked), direction : Nat, next : Nat \ {0},
              row : Rows \cup {NoRow}, rows : Seq(Rows), read : Seq(SUBSET Quotes)]

WorkOK(m) ==
    /\ m \in WorkState
    /\ m.at = "searching" => m.rows = <<>> /\ m.read = <<>> /\ m.next = 1
    /\ m.at \in {"ranking", "writing"} =>
          m.read = <<>> /\ Len(m.rows) = m.next - 1 /\ m.next <= Len(m.picks) + 1
    /\ m.at = "writing" => m.next <= Len(m.picks)
    /\ m.at = "fetching" => Len(m.rows) = Len(m.picks) /\ Len(m.read) = m.next - 1
    /\ m.at = "analysing" => Len(m.rows) = Len(m.picks) /\ Len(m.read) = Len(m.picks)

TablesOK ==
    /\ papers \in [Rows -> PaperRow] /\ unsaved \in [LitRuns -> [Rows -> PaperRow]]
    /\ DOMAIN work = LitRuns /\ \A r \in LitRuns : WorkOK(work[r])

(* Every record of the DOI that has a number has this one.                 *)
NumberedAs(doi, n) == \A d \in Records : DoiOf[d] = doi /\ NumberOf[d] # NoId => NumberOf[d] = n

(* The row is that of the article with the DOI.                            *)
Knows(row, doi) == IF row.number = NoId THEN row.doi = doi ELSE NumberedAs(doi, row.number)
Fits(row) == row.doi # NoId => Knows(row, row.doi)

(* A row that grows into another stays the row of its article.             *)
Grows(a, b) ==
    /\ a.number # NoId => b.number = a.number
    /\ \A doi : doi # NoId /\ Knows(a, doi) => Knows(b, doi)

(* The row is one the record belongs to, and still is when it has grown.   *)
IsOf(row, c) ==
    /\ DoiOf[c] # NoId => Knows(row, DoiOf[c])
    /\ DoiOf[c] = NoId /\ NumberOf[c] # NoId => row.number = NumberOf[c]

RowsFit ==
    /\ \A i \in Rows : Fits(papers[i])
    /\ \A r \in LitRuns, i \in Rows : unsaved[r][i] # NoPaper =>
          Fits(unsaved[r][i]) /\ Grows(papers[i], unsaved[r][i])
RowsAreLocked ==
    \A r, s \in LitRuns, i \in Rows :
        unsaved[r][i] # NoPaper /\ unsaved[s][i] # NoPaper => r = s

(* What a worker has selected, and what it has written so far.             *)
SelectedFits(r) ==
    work[r].at = "writing" /\ work[r].row # NoRow =>
        IsOf(View(r, work[r].row), Pick(r).record)
NamesNumber(row, c) == row # NoPaper /\ (NumberOf[c] # NoId => row.number = NumberOf[c])
WrittenFits(r) ==
    work[r].at \in {"ranking", "writing"} =>
        \A n \in DOMAIN work[r].rows :
            NamesNumber(unsaved[r][work[r].rows[n]], work[r].picks[n].record)
WorkFits == \A r \in LitRuns : SelectedFits(r) /\ WrittenFits(r)

(* What a worker has read is stored, and evidence was found in something   *)
(* stored.                                                                 *)
FullTextOf(run, row, text) == [run |-> run, row |-> row, kind |-> "paper_fulltext", text |-> text]
ReadIsStored ==
    \A r \in LitRuns : \A n \in DOMAIN work[r].read :
        work[r].read[n] # {} => FullTextOf(r, work[r].rows[n], work[r].read[n]) \in artifacts
EvidenceIsStored ==
    \A e \in litEvidence : e.source = "body" =>
        \E text : e.quote \in text /\ FullTextOf(e.run, e.row, text) \in artifacts
PapersIInv ==
    /\ TablesOK /\ RowsFit /\ RowsAreLocked /\ WorkFits
    /\ ReadIsStored /\ EvidenceIsStored /\ PapersTypeOK /\ LinkedIsTheArticle

-----------------------------------------------------------------------------
(* A row as the record's values leave it. *)
Merged(old, c) ==
    [number |-> IF NumberOf[c] = NoId THEN old.number ELSE NumberOf[c],
     doi |-> IF DoiOf[c] = NoId THEN old.doi ELSE DoiOf[c], title |-> TitleOf[c]]

LEMMA MergedIsRow ==
  ASSUME NEW old \in PaperRow, NEW c \in Records
  PROVE  Merged(old, c) \in PaperRow /\ NamesNumber(Merged(old, c), c)
<1>1. NumberOf[c] \in Columns /\ DoiOf[c] \in Columns /\ TitleOf[c] \in Columns
  BY DEF Columns
<1>2. old.number \in Columns /\ old.doi \in Columns
  BY DEF PaperRow
<1>3. Merged(old, c) \in PaperRow
  BY <1>1, <1>2 DEF Merged, PaperRow
<1>4. Merged(old, c).title # NoPaper.title
  BY RecordAssumption DEF Merged, NoPaper
<1>5. Merged(old, c) # NoPaper
  BY <1>4
<1>6. NumberOf[c] # NoId => Merged(old, c).number = NumberOf[c]
  BY DEF Merged
<1> QED
  BY <1>3, <1>5, <1>6 DEF NamesNumber

LEMMA GrowsReflexive == \A a : Grows(a, a)
BY DEF Grows

LEMMA GrowsTransitive ==
  ASSUME NEW a, NEW b, NEW c, Grows(a, b), Grows(b, c)
  PROVE  Grows(a, c)
<1>1. a.number # NoId => c.number = a.number
  BY DEF Grows
<1>2. ASSUME NEW doi, doi # NoId, Knows(a, doi) PROVE Knows(c, doi)
  BY <1>2 DEF Grows
<1> QED
  BY <1>1, <1>2 DEF Grows

LEMMA GrownIsOf ==
  ASSUME NEW a, NEW b, NEW c, Grows(a, b), IsOf(a, c)
  PROVE  IsOf(b, c)
BY DEF Grows, IsOf

(* Whoever finds a row by number, DOI or title has found its article.      *)
LEMMA SameIsOf ==
  ASSUME NEW row, NEW c \in Records, Fits(row), Same(row, c)
  PROVE  IsOf(row, c)
<1>1. CASE NumberOf[c] # NoId /\ row.number = NumberOf[c]
  <2>1. ASSUME DoiOf[c] # NoId PROVE NumberedAs(DoiOf[c], NumberOf[c])
    BY <1>1, <2>1, OneNumber DEF NumberedAs
  <2> QED
    BY <1>1, <2>1 DEF IsOf, Knows
<1>2. CASE DoiOf[c] # NoId /\ row.doi = DoiOf[c]
  BY <1>2 DEF IsOf, Fits
<1>3. CASE NumberOf[c] = NoId /\ DoiOf[c] = NoId
  BY <1>3 DEF IsOf
<1> QED
  BY <1>1, <1>2, <1>3 DEF Same

(* A record written into a row of its article.                             *)
LEMMA MergedGrows ==
  ASSUME NEW old, NEW c \in Records, Fits(old), IsOf(old, c)
  PROVE  Fits(Merged(old, c)) /\ Grows(old, Merged(old, c))
<1> DEFINE w == Merged(old, c)
<1>w. /\ w.number = IF NumberOf[c] = NoId THEN old.number ELSE NumberOf[c]
      /\ w.doi = IF DoiOf[c] = NoId THEN old.doi ELSE DoiOf[c]
  BY DEF Merged
<1> HIDE DEF w
<1>1. ASSUME old.number # NoId PROVE w.number = old.number
  <2>1. CASE NumberOf[c] = NoId
    BY <1>w, <2>1
  <2>2. CASE NumberOf[c] # NoId /\ DoiOf[c] = NoId
    BY <1>w, <2>2 DEF IsOf
  <2>3. CASE NumberOf[c] # NoId /\ DoiOf[c] # NoId
    <3>1. NumberedAs(DoiOf[c], old.number)
      BY <1>1, <2>3 DEF IsOf, Knows
    <3> QED
      BY <1>w, <2>3, <3>1 DEF NumberedAs
  <2> QED
    BY <2>1, <2>2, <2>3
<1>2. ASSUME NEW doi, doi # NoId, Knows(old, doi) PROVE Knows(w, doi)
  <2>1. CASE old.number # NoId
    BY <1>1, <1>2, <2>1 DEF Knows
  <2>2. CASE old.number = NoId
    <3>1. old.doi = doi
      BY <1>2, <2>2 DEF Knows
    <3>2. DoiOf[c] # NoId => DoiOf[c] = doi
      BY <2>2, <3>1 DEF IsOf, Knows
    <3>3. CASE NumberOf[c] = NoId
      BY <1>w, <2>2, <3>1, <3>2, <3>3 DEF Knows
    <3>4. CASE NumberOf[c] # NoId
      <4>1. DoiOf[c] = doi
        BY <2>2, <3>2, <3>4 DEF IsOf
      <4>2. NumberedAs(doi, NumberOf[c])
        BY <1>2, <3>4, <4>1, OneNumber DEF NumberedAs
      <4> QED
        BY <1>w, <3>4, <4>2 DEF Knows
    <3> QED
      BY <3>3, <3>4
  <2> QED
    BY <2>1, <2>2
<1>3. ASSUME w.doi # NoId PROVE Knows(w, w.doi)
  <2>1. Knows(old, w.doi)
    BY <1>w, <1>3 DEF IsOf, Fits
  <2> QED
    BY <1>2, <1>3, <2>1
<1>4. Grows(old, w)
  BY <1>1, <1>2 DEF Grows
<1>5. Fits(w)
  BY <1>3 DEF Fits
<1> QED
  BY <1>4, <1>5 DEF w

(* A record written into a row of its own.                                 *)
LEMMA NewGrows ==
  ASSUME NEW c \in Records
  PROVE  Fits(Merged(NoPaper, c)) /\ Grows(NoPaper, Merged(NoPaper, c))
<1> DEFINE w == Merged(NoPaper, c)
<1>w. w.number = NumberOf[c] /\ w.doi = DoiOf[c]
  BY DEF Merged, NoPaper
<1> HIDE DEF w
<1>n. NoPaper.number = NoId /\ NoPaper.doi = NoId
  BY DEF NoPaper
<1>1. ASSUME w.doi # NoId PROVE Knows(w, w.doi)
  <2>1. ASSUME NumberOf[c] # NoId PROVE NumberedAs(DoiOf[c], NumberOf[c])
    BY <1>w, <1>1, <2>1, OneNumber DEF NumberedAs
  <2> QED
    BY <1>w, <2>1 DEF Knows
<1>2. Grows(NoPaper, w)
  BY <1>n DEF Grows, Knows
<1> QED
  BY <1>1, <1>2 DEF Fits, w

-----------------------------------------------------------------------------
LEMMA PickedAreRecords ==
  ASSUME NEW found \in SearchResults, NEW top \in PickTop(found)
  PROVE  top \in Seq(Records)
<1> DEFINE recent == {n \in DOMAIN found : found[n] \in RecentRecords}
           pool == IF recent = {} THEN DOMAIN found ELSE recent
           size == Cardinality(pool)
           count == IF size < PicksPerDirection THEN size ELSE PicksPerDirection
<1>1. found \in Seq(Records)
  BY RecordAssumption
<1>2. DOMAIN found = 1 .. Len(found) /\ Len(found) \in Nat
  BY <1>1
<1>3. pool \subseteq 1 .. Len(found)
  BY <1>2
<1> HIDE DEF pool
<1>4. size \in Nat
  <2>1. IsFiniteSet(1 .. Len(found))
    BY <1>2, FS_Interval
  <2>2. IsFiniteSet(pool)
    BY <1>3, <2>1, FS_Subset
  <2> QED
    BY <2>2, FS_CardinalityType
<1> USE DEF pool
<1>5. PICK o \in [1 .. size -> pool] : top = [n \in 1 .. count |-> found[o[n]]]
  BY DEF PickTop
<1>6. count \in Nat /\ count <= size
  BY <1>4, PaperBounds
<1> HIDE DEF size, pool, count
<1>7. ASSUME NEW n \in 1 .. count PROVE found[o[n]] \in Records
  <2>1. n \in 1 .. size
    BY <1>4, <1>6
  <2>2. o[n] \in 1 .. Len(found)
    BY <1>3, <2>1
  <2> QED
    BY <1>1, <2>2
<1>8. top \in [1 .. count -> Records]
  BY <1>5, <1>7
<1> QED
  BY <1>6, <1>8

(* The frame of a step of one worker: what the others are owed.            *)
LEMMA KeepTables ==
  ASSUME TablesOK, NEW r \in LitRuns, WorkOK(work'[r]), DOMAIN work' = LitRuns,
         \A s \in LitRuns : s # r => work'[s] = work[s],
         papers' \in [Rows -> PaperRow], unsaved' \in [LitRuns -> [Rows -> PaperRow]]
  PROVE  TablesOK' /\ \A s \in LitRuns : work'[s].at \in Steps
<1>1. ASSUME NEW s \in LitRuns PROVE WorkOK(work'[s])
  BY DEF TablesOK
<1>2. ASSUME NEW s \in LitRuns PROVE work'[s].at \in Steps
  BY <1>1 DEF WorkOK, WorkState
<1> QED
  BY <1>1, <1>2 DEF TablesOK

LEMMA KeepWorkFits ==
  ASSUME WorkFits, NEW r \in LitRuns, SelectedFits(r)', WrittenFits(r)',
         \A s \in LitRuns : s # r => work'[s] = work[s] /\ unsaved'[s] = unsaved[s],
         \A i \in Rows : Grows(papers[i], papers'[i]),
         \A s \in LitRuns : work[s].row \in Rows \cup {NoRow}
  PROVE  WorkFits'
<1>1. ASSUME NEW s \in LitRuns, s # r PROVE SelectedFits(s)'
  <2>1. work'[s] = work[s] /\ unsaved'[s] = unsaved[s]
    BY <1>1
  <2>2. SUFFICES ASSUME work[s].at = "writing", work[s].row # NoRow
                 PROVE  IsOf(View(s, work[s].row)', Pick(s).record)
    BY <2>1 DEF SelectedFits, Pick
  <2>3. IsOf(View(s, work[s].row), Pick(s).record) /\ work[s].row \in Rows
    BY <2>2 DEF WorkFits, SelectedFits
  <2>4. Grows(View(s, work[s].row), View(s, work[s].row)')
    BY <2>1, <2>3, GrowsReflexive DEF View
  <2> QED
    BY <2>3, <2>4, GrownIsOf
<1>2. ASSUME NEW s \in LitRuns, s # r PROVE WrittenFits(s)'
  <2>1. work'[s] = work[s] /\ unsaved'[s] = unsaved[s]
    BY <1>2
  <2>2. WrittenFits(s)
    BY DEF WorkFits
  <2> QED
    BY <2>1, <2>2 DEF WrittenFits
<1> QED
  BY <1>1, <1>2 DEF WorkFits

LEMMA KeepStored ==
  ASSUME ReadIsStored, NEW r \in LitRuns, artifacts \subseteq artifacts',
         \A s \in LitRuns : s # r => work'[s] = work[s],
         \A n \in DOMAIN work'[r].read :
             work'[r].read[n] # {} => FullTextOf(r, work'[r].rows[n], work'[r].read[n]) \in artifacts'
  PROVE  ReadIsStored'
BY DEF ReadIsStored

LEMMA KeepEvidence ==
  ASSUME EvidenceIsStored, artifacts \subseteq artifacts', litEvidence' = litEvidence
  PROVE  EvidenceIsStored'
BY DEF EvidenceIsStored

LEMMA KeepLinks ==
  ASSUME PapersTypeOK, LinkedIsTheArticle, \A s \in LitRuns : work'[s].at \in Steps,
         links' = links, \A i \in Rows : Grows(papers[i], papers'[i])
  PROVE  PapersTypeOK' /\ LinkedIsTheArticle'
<1>1. PapersTypeOK'
  BY DEF PapersTypeOK, Steps
<1>2. LinkedIsTheArticle'
  BY DEF LinkedIsTheArticle, PapersTypeOK, Grows
<1> QED
  BY <1>1, <1>2

LEMMA PapersInitIInv == PapersInit => PapersIInv
<1> SUFFICES ASSUME PapersInit PROVE PapersIInv
  OBVIOUS
<1>1. NoPaper \in PaperRow
  BY DEF NoPaper, PaperRow, Columns
<1>2. Starting \in WorkState
  BY PaperBounds DEF Starting, WorkState, Steps
<1>3. TablesOK
  BY <1>1, <1>2 DEF PapersInit, TablesOK, WorkOK, Starting
<1>4. RowsFit /\ RowsAreLocked
  BY DEF PapersInit, RowsFit, RowsAreLocked, Fits, NoPaper
<1>5. WorkFits
  BY DEF PapersInit, WorkFits, SelectedFits, WrittenFits, Starting
<1>6. ReadIsStored /\ EvidenceIsStored /\ PapersTypeOK /\ LinkedIsTheArticle
  BY DEF PapersInit, ReadIsStored, EvidenceIsStored, PapersTypeOK, LinkedIsTheArticle, Starting
<1> QED
  BY <1>3, <1>4, <1>5, <1>6 DEF PapersIInv

-----------------------------------------------------------------------------
LEMMA SearchStep ==
  ASSUME PapersIInv, NEW r \in LitRuns, SearchDirection(r)
  PROVE  PapersIInv'
<1>0. PICK found \in SearchResults : \E top \in PickTop(found) :
         work' = [work EXCEPT
           ![r].picks =
             @ \o [n \in DOMAIN top |-> [direction |-> work[r].direction, record |-> top[n]]],
           ![r].direction = work[r].direction + 1,
           ![r].at = IF work[r].direction = DirectionIds THEN "ranking" ELSE "searching"]
  BY DEF SearchDirection
<1>1. PICK top \in PickTop(found) :
         work' = [work EXCEPT
           ![r].picks =
             @ \o [n \in DOMAIN top |-> [direction |-> work[r].direction, record |-> top[n]]],
           ![r].direction = work[r].direction + 1,
           ![r].at = IF work[r].direction = DirectionIds THEN "ranking" ELSE "searching"]
  BY <1>0
<1> DEFINE d == work[r].direction
           new == [n \in DOMAIN top |-> [direction |-> d, record |-> top[n]]]
<1>u. UNCHANGED <<papers, links, artifacts, litEvidence, unsaved>> /\ work[r].at = "searching"
  BY DEF SearchDirection
<1>2. WorkOK(work[r]) /\ DOMAIN work = LitRuns
  BY DEF PapersIInv, TablesOK
<1>3. new \in Seq(Picked)
  <2>1. top \in Seq(Records) /\ Len(top) \in Nat /\ DOMAIN top = 1 .. Len(top)
    BY PickedAreRecords
  <2>2. d \in Nat
    BY <1>2 DEF WorkOK, WorkState
  <2>3. \A n \in 1 .. Len(top) : top[n] \in Records
    BY <2>1
  <2>4. new \in [1 .. Len(top) -> Picked]
    BY <2>1, <2>2, <2>3 DEF Picked
  <2> QED
    BY <2>1, <2>4
<1> HIDE DEF new
<1>4. /\ DOMAIN work' = LitRuns /\ \A s \in LitRuns : s # r => work'[s] = work[s]
      /\ work'[r].rows = <<>> /\ work'[r].read = <<>>
      /\ work'[r].at \in {"searching", "ranking"}
  BY <1>1, <1>2, <1>u DEF WorkOK, WorkState
<1>5. WorkOK(work'[r])
  <2>1. work'[r] = [work[r] EXCEPT !.picks = @ \o new, !.direction = d + 1,
                                   !.at = IF d = DirectionIds THEN "ranking" ELSE "searching"]
    BY <1>1, <1>2 DEF new, WorkOK, WorkState
  <2>2. work[r].picks \o new \in Seq(Picked) /\ d + 1 \in Nat
    BY <1>2, <1>3 DEF WorkOK, WorkState
  <2>3. work'[r] \in WorkState
    BY <1>2, <2>1, <2>2 DEF WorkOK, WorkState, Steps
  <2>4. work'[r].next = 1 /\ Len(work'[r].rows) = 0 /\ Len(work'[r].picks) \in Nat
    BY <1>2, <1>4, <1>u, <2>1, <2>3 DEF WorkOK, WorkState
  <2> QED
    BY <1>4, <2>3, <2>4 DEF WorkOK
<1>6. TablesOK' /\ \A s \in LitRuns : work'[s].at \in Steps
  BY <1>4, <1>5, <1>u, KeepTables DEF PapersIInv, TablesOK
<1>7. SelectedFits(r)' /\ WrittenFits(r)'
  BY <1>4 DEF SelectedFits, WrittenFits
<1>8. WorkFits'
  BY <1>4, <1>7, <1>u, KeepWorkFits, GrowsReflexive DEF PapersIInv, TablesOK, WorkOK, WorkState
<1>9. RowsFit' /\ RowsAreLocked'
  BY <1>u DEF PapersIInv, RowsFit, RowsAreLocked
<1>10. ReadIsStored' /\ EvidenceIsStored'
  BY <1>4, <1>u, KeepStored, KeepEvidence DEF PapersIInv
<1>11. PapersTypeOK' /\ LinkedIsTheArticle'
  BY <1>6, <1>u, KeepLinks, GrowsReflexive DEF PapersIInv
<1> QED
  BY <1>6, <1>8, <1>9, <1>10, <1>11 DEF PapersIInv

LEMMA ViewIsRow ==
  ASSUME TablesOK, RowsFit, NEW r \in LitRuns, NEW i \in Rows
  PROVE  View(r, i) \in PaperRow /\ Fits(View(r, i)) /\ Grows(papers[i], View(r, i))
<1>1. CASE unsaved[r][i] = NoPaper
  BY <1>1, GrowsReflexive DEF TablesOK, RowsFit, View
<1>2. CASE unsaved[r][i] # NoPaper
  BY <1>2 DEF TablesOK, RowsFit, View
<1> QED
  BY <1>1, <1>2

LEMMA PickIsRecord ==
  ASSUME NEW r \in LitRuns, WorkOK(work[r]), work[r].next <= Len(work[r].picks)
  PROVE  Pick(r) \in Picked /\ Pick(r).record \in Records /\ work[r].next \in 1 .. Len(work[r].picks)
<1>1. work[r].picks \in Seq(Picked) /\ work[r].next \in Nat \ {0}
  BY DEF WorkOK, WorkState
<1>2. work[r].next \in 1 .. Len(work[r].picks)
  BY <1>1
<1>3. Pick(r) \in Picked
  BY <1>1, <1>2 DEF Pick
<1> QED
  BY <1>2, <1>3 DEF Picked

LEMMA SelectStep ==
  ASSUME PapersIInv, NEW r \in LitRuns, SelectPaper(r)
  PROVE  PapersIInv'
<1> DEFINE c == Pick(r).record
           matches == {i \in Rows : View(r, i) # NoPaper /\ Same(View(r, i), c)}
<1>1. PICK i \in IF matches = {} THEN {NoRow} ELSE matches :
         work' = [work EXCEPT ![r].at = "writing", ![r].row = i]
  BY DEF SelectPaper
<1>u. /\ UNCHANGED <<papers, links, artifacts, litEvidence, unsaved>>
      /\ work[r].at = "ranking" /\ work[r].next <= Len(work[r].picks)
  BY DEF SelectPaper, PicksLeft
<1>2. WorkOK(work[r]) /\ DOMAIN work = LitRuns
  BY DEF PapersIInv, TablesOK
<1>3. c \in Records
  BY <1>2, <1>u, PickIsRecord
<1>4. i \in Rows \cup {NoRow} /\ (i # NoRow => i \in matches)
  BY <1>1
<1>5. /\ DOMAIN work' = LitRuns /\ \A s \in LitRuns : s # r => work'[s] = work[s]
      /\ work'[r] = [work[r] EXCEPT !.at = "writing", !.row = i]
  BY <1>1, <1>2 DEF WorkOK, WorkState
<1>6. WorkOK(work'[r])
  BY <1>2, <1>4, <1>5, <1>u DEF WorkOK, WorkState, Steps
<1>7. /\ work'[r].row = i /\ work'[r].picks = work[r].picks /\ work'[r].next = work[r].next
      /\ work'[r].rows = work[r].rows /\ work'[r].read = work[r].read /\ work'[r].at = "writing"
  BY <1>2, <1>5 DEF WorkOK, WorkState
<1>8. TablesOK' /\ \A s \in LitRuns : work'[s].at \in Steps
  BY <1>5, <1>6, <1>u, KeepTables DEF PapersIInv, TablesOK
<1>9. SelectedFits(r)'
  <2>1. SUFFICES ASSUME i # NoRow PROVE IsOf(View(r, i), c)
    BY <1>7, <1>u DEF SelectedFits, View, Pick
  <2>2. i \in Rows /\ Same(View(r, i), c)
    BY <1>4, <2>1
  <2>3. Fits(View(r, i))
    BY <2>2, ViewIsRow DEF PapersIInv
  <2> QED
    BY <1>3, <2>2, <2>3, SameIsOf
<1>10. WrittenFits(r)'
  BY <1>7, <1>u DEF PapersIInv, WorkFits, WrittenFits
<1>11. WorkFits'
  BY <1>5, <1>9, <1>10, <1>u, KeepWorkFits, GrowsReflexive DEF PapersIInv, TablesOK, WorkOK, WorkState
<1>12. RowsFit' /\ RowsAreLocked'
  BY <1>u DEF PapersIInv, RowsFit, RowsAreLocked
<1>13. ReadIsStored' /\ EvidenceIsStored'
  <2>1. \A n \in DOMAIN work'[r].read :
          work'[r].read[n] # {} => FullTextOf(r, work'[r].rows[n], work'[r].read[n]) \in artifacts'
    BY <1>7, <1>u DEF PapersIInv, ReadIsStored
  <2> QED
    BY <1>5, <1>u, <2>1, KeepStored, KeepEvidence DEF PapersIInv
<1>14. PapersTypeOK' /\ LinkedIsTheArticle'
  BY <1>8, <1>u, KeepLinks, GrowsReflexive DEF PapersIInv
<1> QED
  BY <1>8, <1>11, <1>12, <1>13, <1>14 DEF PapersIInv

-----------------------------------------------------------------------------
(* What a step of r that writes no row of another does to the rows.        *)
LEMMA DropStep ==
  ASSUME PapersIInv, NEW r \in LitRuns, NEW verdict \in {"failed", "stopped"}, Drop(r, verdict)
  PROVE  PapersIInv'
<1>u. /\ UNCHANGED <<papers, links, artifacts, litEvidence>>
      /\ work' = [work EXCEPT ![r] = [Starting EXCEPT !.at = verdict]]
      /\ unsaved' = [unsaved EXCEPT ![r] = [i \in Rows |-> NoPaper]]
  BY DEF Drop
<1>1. DOMAIN work = LitRuns /\ unsaved \in [LitRuns -> [Rows -> PaperRow]]
  BY DEF PapersIInv, TablesOK
<1>2. /\ DOMAIN work' = LitRuns /\ \A s \in LitRuns : s # r => work'[s] = work[s]
      /\ work'[r] = [Starting EXCEPT !.at = verdict]
  BY <1>1, <1>u
<1>3. /\ \A s \in LitRuns : s # r => unsaved'[s] = unsaved[s]
      /\ unsaved'[r] = [i \in Rows |-> NoPaper]
  BY <1>1, <1>u
<1>4. NoPaper \in PaperRow
  BY DEF NoPaper, PaperRow, Columns
<1>5. Starting \in WorkState
  BY PaperBounds DEF Starting, WorkState, Steps
<1>6. /\ work'[r].at = verdict /\ work'[r].rows = <<>> /\ work'[r].read = <<>>
      /\ work'[r] \in WorkState
  BY <1>2, <1>5 DEF Starting, WorkState, Steps
<1>7. WorkOK(work'[r])
  BY <1>6 DEF WorkOK
<1>8. papers' \in [Rows -> PaperRow] /\ unsaved' \in [LitRuns -> [Rows -> PaperRow]]
  BY <1>1, <1>4, <1>u DEF PapersIInv, TablesOK
<1>9. TablesOK' /\ \A s \in LitRuns : work'[s].at \in Steps
  BY <1>2, <1>7, <1>8, KeepTables DEF PapersIInv
<1>10. SelectedFits(r)' /\ WrittenFits(r)'
  BY <1>6 DEF SelectedFits, WrittenFits
<1>11. WorkFits'
  BY <1>2, <1>3, <1>10, <1>u, KeepWorkFits, GrowsReflexive DEF PapersIInv, TablesOK, WorkOK, WorkState
<1>12. RowsFit' /\ RowsAreLocked'
  BY <1>3, <1>u DEF PapersIInv, RowsFit, RowsAreLocked
<1>13. ReadIsStored' /\ EvidenceIsStored'
  BY <1>2, <1>6, <1>u, KeepStored, KeepEvidence DEF PapersIInv
<1>14. PapersTypeOK' /\ LinkedIsTheArticle'
  BY <1>9, <1>u, KeepLinks, GrowsReflexive DEF PapersIInv
<1> QED
  BY <1>9, <1>11, <1>12, <1>13, <1>14 DEF PapersIInv

(* The row a worker may write: nobody else has it in hand, and what the    *)
(* worker sees of it grows.                                                *)
LEMMA RowToWrite ==
  ASSUME PapersIInv, NEW r \in LitRuns, WritePaper(r)
  PROVE  /\ FreeRow(r) \in Rows
         /\ \A s \in LitRuns : s # r => unsaved[s][FreeRow(r)] = NoPaper
         /\ Written(r) \in PaperRow /\ NamesNumber(Written(r), Pick(r).record)
         /\ Fits(Written(r)) /\ Grows(View(r, FreeRow(r)), Written(r))
<1> DEFINE u == FreeRow(r)
           c == Pick(r).record
<1>1. /\ work[r].at = "writing" /\ WaitsFor(r) = {} /\ WorkOK(work[r])
      /\ work[r].row = NoRow => \E i \in Rows : Unused(i)
  BY DEF WritePaper, PapersIInv, TablesOK
<1>2. c \in Records
  BY <1>1, PickIsRecord DEF WorkOK
<1>3. CASE work[r].row = NoRow
  <2>1. u \in Rows /\ Unused(u)
    BY <1>1, <1>3 DEF FreeRow
  <2>2. Written(r) = Merged(NoPaper, c)
    BY <1>3 DEF Written, Merged
  <2>3. View(r, u) = NoPaper /\ NoPaper \in PaperRow
    BY <2>1 DEF Unused, View, NoPaper, PaperRow, Columns
  <2>4. \A s \in LitRuns : unsaved[s][u] = NoPaper
    BY <2>1 DEF Unused
  <2> QED
    BY <1>2, <2>1, <2>2, <2>3, <2>4, MergedIsRow, NewGrows
<1>4. CASE work[r].row # NoRow
  <2>1. u = work[r].row /\ u \in Rows
    BY <1>1, <1>4 DEF FreeRow, WorkOK, WorkState
  <2>2. Written(r) = Merged(View(r, u), c)
    BY <1>4, <2>1 DEF Written, Merged
  <2>3. View(r, u) \in PaperRow /\ Fits(View(r, u))
    BY <2>1, ViewIsRow DEF PapersIInv
  <2>4. IsOf(View(r, u), c)
    BY <1>1, <1>4, <2>1 DEF PapersIInv, WorkFits, SelectedFits
  <2>5. ASSUME NEW s \in LitRuns, s # r PROVE unsaved[s][u] = NoPaper
    BY <1>1, <2>1, <2>5 DEF WaitsFor
  <2> QED
    BY <1>2, <2>1, <2>2, <2>3, <2>4, <2>5, MergedIsRow, MergedGrows
<1> QED
  BY <1>3, <1>4

LEMMA WriteStep ==
  ASSUME PapersIInv, NEW r \in LitRuns, WritePaper(r)
  PROVE  PapersIInv'
<1>0. PICK u \in Rows, w \in PaperRow : u = FreeRow(r) /\ w = Written(r)
  BY RowToWrite
<1>1. /\ \A s \in LitRuns : s # r => unsaved[s][u] = NoPaper
      /\ NamesNumber(w, Pick(r).record) /\ Fits(w) /\ Grows(View(r, u), w)
  BY <1>0, RowToWrite
<1>u. /\ unsaved' = [unsaved EXCEPT ![r][u] = w]
      /\ work' = [work EXCEPT ![r].at = "ranking", ![r].next = @ + 1, ![r].rows = Append(@, u)]
      /\ UNCHANGED <<papers, links, artifacts, litEvidence>>
      /\ work[r].at = "writing"
  BY <1>0 DEF WritePaper
<1>2. /\ DOMAIN work = LitRuns /\ WorkOK(work[r])
      /\ unsaved \in [LitRuns -> [Rows -> PaperRow]]
  BY DEF PapersIInv, TablesOK
<1>3. /\ DOMAIN work' = LitRuns /\ \A s \in LitRuns : s # r => work'[s] = work[s]
      /\ work'[r] = [work[r] EXCEPT !.at = "ranking", !.next = @ + 1, !.rows = Append(@, u)]
  BY <1>2, <1>u DEF WorkOK, WorkState
<1>4. /\ \A s \in LitRuns : s # r => unsaved'[s] = unsaved[s]
      /\ \A i \in Rows : i # u => unsaved'[r][i] = unsaved[r][i]
      /\ unsaved'[r][u] = w
      /\ unsaved' \in [LitRuns -> [Rows -> PaperRow]]
  BY <1>2, <1>u
<1>5. /\ work'[r].at = "ranking" /\ work'[r].next = work[r].next + 1
      /\ work'[r].picks = work[r].picks /\ work'[r].read = work[r].read
      /\ work'[r].rows = Append(work[r].rows, u)
      /\ work'[r].direction = work[r].direction /\ work'[r].row = work[r].row
  BY <1>2, <1>3 DEF WorkOK, WorkState
<1>6. /\ work[r].rows \in Seq(Rows) /\ Len(work[r].rows) = work[r].next - 1 /\ work[r].read = <<>>
      /\ work[r].next \in Nat \ {0} /\ work[r].next <= Len(work[r].picks)
  BY <1>2, <1>u DEF WorkOK, WorkState
<1>7. WorkOK(work'[r])
  <2>1. Append(work[r].rows, u) \in Seq(Rows) /\ Len(Append(work[r].rows, u)) = work[r].next
    BY <1>6
  <2>2. work'[r] \in WorkState
    <3>1. work[r].next + 1 \in Nat \ {0} /\ work[r] \in WorkState
      BY <1>2, <1>6 DEF WorkOK
    <3>3. PICK rows \in Seq(Rows), next \in Nat \ {0} :
            rows = Append(work[r].rows, u) /\ next = work[r].next + 1
      BY <2>1, <3>1
    <3>4. work'[r] = [work[r] EXCEPT !.at = "ranking", !.next = next, !.rows = rows]
      BY <1>3, <3>3
    <3>5. PICK m \in WorkState : m = work[r]
      BY <3>1
    <3> QED
      BY <3>4, <3>5 DEF WorkState, Steps
  <2> QED
    BY <1>5, <1>6, <2>1, <2>2 DEF WorkOK
<1>8. TablesOK' /\ \A s \in LitRuns : work'[s].at \in Steps
  BY <1>3, <1>4, <1>7, <1>u, KeepTables DEF PapersIInv, TablesOK
<1>9. SelectedFits(r)'
  BY <1>5 DEF SelectedFits
<1>10. WrittenFits(r)'
  <2>1. SUFFICES ASSUME NEW n \in DOMAIN Append(work[r].rows, u)
                 PROVE  NamesNumber(unsaved'[r][Append(work[r].rows, u)[n]], work[r].picks[n].record)
    BY <1>5 DEF WrittenFits
  <2>2. CASE n = work[r].next
    <3>1. Append(work[r].rows, u)[n] = u
      BY <1>6, <2>2
    <3> QED
      BY <1>1, <1>4, <2>2, <3>1 DEF Pick
  <2>3. CASE n # work[r].next
    <3>1. n \in DOMAIN work[r].rows /\ Append(work[r].rows, u)[n] = work[r].rows[n]
          /\ work[r].rows[n] \in Rows
      BY <1>6, <2>1, <2>3
    <3>2. NamesNumber(unsaved[r][work[r].rows[n]], work[r].picks[n].record)
      BY <1>u, <3>1 DEF PapersIInv, WorkFits, WrittenFits
    <3>3. CASE work[r].rows[n] # u
      BY <1>4, <3>1, <3>2, <3>3
    <3>4. CASE work[r].rows[n] = u
      <4>1. View(r, u) = unsaved[r][u]
        BY <3>2, <3>4 DEF NamesNumber, View
      <4>2. NamesNumber(w, work[r].picks[n].record)
        BY <1>1, <3>2, <3>4, <4>1 DEF NamesNumber, Grows
      <4> QED
        BY <1>4, <3>1, <3>4, <4>2
    <3> QED
      BY <3>3, <3>4
  <2> QED
    BY <2>2, <2>3
<1>11. WorkFits'
  BY <1>3, <1>4, <1>9, <1>10, <1>u, KeepWorkFits, GrowsReflexive
     DEF PapersIInv, TablesOK, WorkOK, WorkState
<1>12. RowsFit'
  <2>1. Grows(papers[u], w)
    BY <1>1, ViewIsRow, GrowsTransitive DEF PapersIInv
  <2>2. ASSUME NEW s \in LitRuns, NEW i \in Rows, unsaved'[s][i] # NoPaper
        PROVE  Fits(unsaved'[s][i]) /\ Grows(papers[i], unsaved'[s][i])
    <3>1. CASE s = r /\ i = u
      BY <1>1, <1>4, <2>1, <3>1
    <3>2. CASE ~ (s = r /\ i = u)
      <4>1. unsaved'[s][i] = unsaved[s][i]
        BY <1>4, <3>2
      <4> QED
        BY <2>2, <4>1 DEF PapersIInv, RowsFit
    <3> QED
      BY <3>1, <3>2
  <2> QED
    BY <1>u, <2>2 DEF PapersIInv, RowsFit
<1>13. RowsAreLocked'
  BY <1>1, <1>4 DEF PapersIInv, RowsAreLocked
<1>14. ReadIsStored' /\ EvidenceIsStored'
  BY <1>3, <1>5, <1>6, <1>u, KeepStored, KeepEvidence DEF PapersIInv
<1>15. PapersTypeOK' /\ LinkedIsTheArticle'
  BY <1>8, <1>u, KeepLinks, GrowsReflexive DEF PapersIInv
<1> QED
  BY <1>8, <1>11, <1>12, <1>13, <1>14, <1>15 DEF PapersIInv

LEMMA CommitStep ==
  ASSUME PapersIInv, NEW r \in LitRuns, CommitRanking(r)
  PROVE  PapersIInv'
<1> DEFINE new == {[run |-> r, direction |-> work[r].picks[n].direction,
                    record |-> work[r].picks[n].record, row |-> work[r].rows[n]]
                      : n \in DOMAIN work[r].rows}
           to == IF work[r].picks = <<>> THEN "reported" ELSE "fetching"
<1>u. /\ papers' = [i \in Rows |-> View(r, i)] /\ links' = links \cup new
      /\ unsaved' = [unsaved EXCEPT ![r] = [i \in Rows |-> NoPaper]]
      /\ work' = [work EXCEPT ![r].at = to, ![r].next = 1]
      /\ UNCHANGED <<artifacts, litEvidence>>
      /\ work[r].at = "ranking" /\ ~ work[r].next <= Len(work[r].picks)
  BY DEF CommitRanking, PicksLeft
<1> HIDE DEF new, to
<1>t. to \in {"reported", "fetching"}
  BY DEF to
<1>1. /\ DOMAIN work = LitRuns /\ WorkOK(work[r])
      /\ unsaved \in [LitRuns -> [Rows -> PaperRow]] /\ TablesOK /\ RowsFit
  BY DEF PapersIInv, TablesOK
<1>2. /\ DOMAIN work' = LitRuns /\ \A s \in LitRuns : s # r => work'[s] = work[s]
      /\ work'[r] = [work[r] EXCEPT !.at = to, !.next = 1]
  BY <1>1, <1>u DEF WorkOK, WorkState
<1>3. NoPaper \in PaperRow
  BY DEF NoPaper, PaperRow, Columns
<1>4. /\ \A s \in LitRuns : s # r => unsaved'[s] = unsaved[s]
      /\ \A i \in Rows : unsaved'[r][i] = NoPaper
      /\ unsaved' \in [LitRuns -> [Rows -> PaperRow]]
  BY <1>1, <1>3, <1>u
<1>5. /\ papers' \in [Rows -> PaperRow]
      /\ \A i \in Rows : papers'[i] = View(r, i) /\ Fits(papers'[i]) /\ Grows(papers[i], papers'[i])
  BY <1>1, <1>u, ViewIsRow
<1>6. /\ Len(work[r].rows) = Len(work[r].picks) /\ work[r].read = <<>>
      /\ work[r].rows \in Seq(Rows) /\ work[r].picks \in Seq(Picked)
  BY <1>1, <1>u DEF WorkOK, WorkState
<1>7. /\ work'[r].at = to /\ work'[r].next = 1 /\ work'[r].rows = work[r].rows
      /\ work'[r].picks = work[r].picks /\ work'[r].read = <<>>
  BY <1>1, <1>2, <1>6 DEF WorkOK, WorkState
<1>8. WorkOK(work'[r])
  <2>1. PICK m \in WorkState, step \in Steps, next \in Nat \ {0} : m = work[r] /\ step = to /\ next = 1
    BY <1>1, <1>t DEF WorkOK, Steps
  <2>2. work'[r] \in WorkState
    BY <1>2, <2>1 DEF WorkState
  <2> QED
    BY <1>6, <1>7, <1>t, <2>2 DEF WorkOK
<1>9. TablesOK' /\ \A s \in LitRuns : work'[s].at \in Steps
  BY <1>1, <1>2, <1>4, <1>5, <1>8, KeepTables
<1>10. SelectedFits(r)' /\ WrittenFits(r)'
  BY <1>7, <1>t DEF SelectedFits, WrittenFits
<1>11. WorkFits'
  BY <1>2, <1>4, <1>5, <1>10, KeepWorkFits DEF PapersIInv, TablesOK, WorkOK, WorkState
<1>12. RowsFit'
  <2>1. ASSUME NEW s \in LitRuns, NEW i \in Rows, unsaved'[s][i] # NoPaper
        PROVE  Fits(unsaved'[s][i]) /\ Grows(papers'[i], unsaved'[s][i])
    <3>1. s # r /\ unsaved'[s][i] = unsaved[s][i]
      BY <1>4, <2>1
    <3>2. unsaved[r][i] = NoPaper
      BY <2>1, <3>1 DEF PapersIInv, RowsAreLocked
    <3>3. papers'[i] = papers[i]
      BY <1>5, <3>2 DEF View
    <3> QED
      BY <1>1, <2>1, <3>1, <3>3 DEF RowsFit
  <2> QED
    BY <1>5, <2>1 DEF RowsFit
<1>13. RowsAreLocked'
  BY <1>4 DEF PapersIInv, RowsAreLocked
<1>14. ReadIsStored' /\ EvidenceIsStored'
  BY <1>2, <1>7, <1>u, KeepStored, KeepEvidence DEF PapersIInv
<1>15. ASSUME NEW l \in new
       PROVE  /\ l.run \in LitRuns /\ l.row \in Rows /\ l.record \in Records
              /\ NumberOf[l.record] # NoId => papers'[l.row].number = NumberOf[l.record]
  <2>1. PICK n \in DOMAIN work[r].rows :
          l = [run |-> r, direction |-> work[r].picks[n].direction,
               record |-> work[r].picks[n].record, row |-> work[r].rows[n]]
    BY DEF new
  <2>2. n \in 1 .. Len(work[r].picks) /\ work[r].rows[n] \in Rows
    BY <1>6
  <2>3. work[r].picks[n].record \in Records
    <3>1. work[r].picks[n] \in Picked
      BY <1>6, <2>2
    <3> QED
      BY <3>1 DEF Picked
  <2>4. NamesNumber(unsaved[r][l.row], l.record)
    BY <1>u, <2>1 DEF PapersIInv, WorkFits, WrittenFits
  <2>5. papers'[l.row] = unsaved[r][l.row]
    BY <1>5, <2>1, <2>2, <2>4 DEF View, NamesNumber
  <2> QED
    BY <2>1, <2>2, <2>3, <2>4, <2>5 DEF NamesNumber
<1>16. PapersTypeOK'
  BY <1>9, <1>15, <1>u DEF PapersIInv, PapersTypeOK, Steps
<1>17. LinkedIsTheArticle'
  <2>1. ASSUME NEW l \in links, NumberOf[l.record] # NoId
        PROVE  papers'[l.row].number = NumberOf[l.record]
    <3>1. l.row \in Rows /\ papers[l.row].number = NumberOf[l.record]
      BY <2>1 DEF PapersIInv, PapersTypeOK, LinkedIsTheArticle
    <3> QED
      BY <1>5, <2>1, <3>1 DEF Grows
  <2> QED
    BY <1>15, <1>u, <2>1 DEF LinkedIsTheArticle
<1> QED
  BY <1>9, <1>11, <1>12, <1>13, <1>14, <1>16, <1>17 DEF PapersIInv

-----------------------------------------------------------------------------
LEMMA AdvanceIsWork ==
  ASSUME NEW r \in LitRuns, WorkOK(work[r]), NEW to \in Steps,
         work[r].next <= Len(work[r].picks)
  PROVE  /\ Advance(r, to) \in WorkState
         /\ Advance(r, to).rows = work[r].rows /\ Advance(r, to).picks = work[r].picks
         /\ Advance(r, to).read = work[r].read
         /\ \/ Advance(r, to).at = to /\ work[r].next = Len(work[r].picks)
            \/ Advance(r, to).at = work[r].at /\ Advance(r, to).next = work[r].next + 1
<1>1. PICK m \in WorkState : m = work[r]
  BY DEF WorkOK
<1>2. m.next + 1 \in Nat \ {0}
  BY DEF WorkState
<1>3. CASE m.next = Len(m.picks)
  <2>0. PICK one \in Nat \ {0} : one = 1
    OBVIOUS
  <2>1. Advance(r, to) = [m EXCEPT !.at = to, !.next = one]
    BY <1>1, <1>3, <2>0 DEF Advance
  <2> QED
    BY <1>1, <1>3, <2>1 DEF WorkState
<1>4. CASE m.next # Len(m.picks)
  <2>1. Advance(r, to) = [m EXCEPT !.next = m.next + 1]
    BY <1>1, <1>4 DEF Advance
  <2> QED
    BY <1>1, <1>2, <2>1 DEF WorkState
<1> QED
  BY <1>3, <1>4

LEMMA FetchStep ==
  ASSUME PapersIInv, NEW r \in LitRuns, FetchDocument(r)
  PROVE  PapersIInv'
<1>0. PICK pdf \in Downloads, page \in Scrapes(Pick(r).record) :
        /\ artifacts' = artifacts \cup StoredArtifacts(r, work[r].rows[work[r].next],
                                                      FullText(Pick(r).record, pdf, page))
        /\ work' = [work EXCEPT ![r] = [Advance(r, "analysing") EXCEPT
                        !.read = Append(@, FullText(Pick(r).record, pdf, page).text)]]
  BY DEF FetchDocument
<1> DEFINE c == Pick(r).record
           d == FullText(c, pdf, page)
           m == Advance(r, "analysing")
<1>u. /\ UNCHANGED <<papers, links, litEvidence, unsaved>>
      /\ work[r].at = "fetching" /\ work[r].next <= Len(work[r].picks)
  BY DEF FetchDocument, PicksLeft
<1>1. DOMAIN work = LitRuns /\ WorkOK(work[r])
  BY DEF PapersIInv, TablesOK
<1>2. c \in Records
  BY <1>1, <1>u, PickIsRecord
<1>3. PICK text \in SUBSET Quotes : text = d.text
  <2>1. HtmlOf[c] \in SUBSET Quotes /\ PdfOf[c] \in SUBSET Quotes
    BY <1>2, RecordAssumption
  <2>2. page \in SUBSET Quotes
    BY <2>1 DEF Scrapes
  <2> QED
    BY <2>1, <2>2 DEF FullText, NoDocument
<1>4. /\ m \in WorkState /\ m.rows = work[r].rows /\ m.picks = work[r].picks
      /\ m.read = work[r].read
      /\ \/ m.at = "analysing" /\ work[r].next = Len(work[r].picks)
         \/ m.at = "fetching" /\ m.next = work[r].next + 1
  BY <1>1, <1>u, AdvanceIsWork DEF Steps
<1>5. work' = [work EXCEPT ![r] = [m EXCEPT !.read = Append(@, text)]]
  BY <1>0, <1>3
<1>6. artifacts' = artifacts \cup StoredArtifacts(r, work[r].rows[work[r].next], d)
  BY <1>0
<1> HIDE DEF m, d
<1>7. /\ DOMAIN work' = LitRuns /\ \A s \in LitRuns : s # r => work'[s] = work[s]
      /\ work'[r] = [m EXCEPT !.read = Append(@, text)]
  BY <1>1, <1>5
<1>8. /\ work[r].read \in Seq(SUBSET Quotes) /\ Len(work[r].read) = work[r].next - 1
      /\ Len(work[r].rows) = Len(work[r].picks) /\ work[r].next \in Nat \ {0}
  BY <1>1, <1>u DEF WorkOK, WorkState
<1>9. PICK read \in Seq(SUBSET Quotes) :
        read = Append(work[r].read, text) /\ Len(read) = work[r].next
  <2>1. ASSUME NEW S, NEW s \in Seq(S), NEW e \in S
        PROVE  Append(s, e) \in Seq(S) /\ Len(Append(s, e)) = Len(s) + 1 /\ Len(s) \in Nat
    OBVIOUS
  <2>2. Append(work[r].read, text) \in Seq(SUBSET Quotes)
        /\ Len(Append(work[r].read, text)) = Len(work[r].read) + 1 /\ Len(work[r].read) \in Nat
    BY <1>8, <2>1
  <2>3. Len(Append(work[r].read, text)) = work[r].next
    BY <1>8, <2>2
  <2> QED
    BY <2>2, <2>3
<1>10. /\ work'[r] = [m EXCEPT !.read = read] /\ work'[r].read = read /\ work'[r].at = m.at
       /\ work'[r].rows = work[r].rows /\ work'[r].picks = work[r].picks /\ work'[r].next = m.next
       /\ work'[r] \in WorkState
  BY ZenonT(40), <1>4, <1>7, <1>9 DEF WorkState
<1>11. WorkOK(work'[r])
  BY <1>4, <1>8, <1>9, <1>10 DEF WorkOK
<1>12. TablesOK' /\ \A s \in LitRuns : work'[s].at \in Steps
  BY <1>7, <1>11, <1>u, KeepTables DEF PapersIInv, TablesOK
<1>13. SelectedFits(r)' /\ WrittenFits(r)'
  BY <1>4, <1>10 DEF SelectedFits, WrittenFits
<1>14. WorkFits'
  BY <1>7, <1>13, <1>u, KeepWorkFits, GrowsReflexive DEF PapersIInv, TablesOK, WorkOK, WorkState
<1>15. RowsFit' /\ RowsAreLocked'
  BY <1>u DEF PapersIInv, RowsFit, RowsAreLocked
<1>16. artifacts \subseteq artifacts'
  BY <1>6
<1>17. ASSUME NEW n \in DOMAIN read, read[n] # {}
       PROVE  FullTextOf(r, work[r].rows[n], read[n]) \in artifacts'
  <2>1. CASE n = work[r].next
    <3>1. read[n] = text
      BY <1>8, <1>9, <2>1
    <3>2. FullTextOf(r, work[r].rows[n], d.text) \in StoredArtifacts(r, work[r].rows[n], d)
      BY <1>3, <1>17, <3>1 DEF StoredArtifacts, FullTextOf
    <3> QED
      BY <1>3, <1>6, <2>1, <3>1, <3>2
  <2>2. CASE n # work[r].next
    <3>1. n \in DOMAIN work[r].read /\ read[n] = work[r].read[n]
      BY <1>8, <1>9, <2>2
    <3> QED
      BY <1>16, <1>17, <3>1 DEF PapersIInv, ReadIsStored
  <2> QED
    BY <2>1, <2>2
<1>18. ReadIsStored' /\ EvidenceIsStored'
  <2>1. \A n \in DOMAIN work'[r].read :
          work'[r].read[n] # {} => FullTextOf(r, work'[r].rows[n], work'[r].read[n]) \in artifacts'
    BY <1>10, <1>17
  <2> QED
    BY <1>7, <1>16, <1>u, <2>1, KeepStored, KeepEvidence DEF PapersIInv
<1>19. PapersTypeOK' /\ LinkedIsTheArticle'
  BY <1>12, <1>u, KeepLinks, GrowsReflexive DEF PapersIInv
<1> QED
  BY <1>12, <1>14, <1>15, <1>18, <1>19 DEF PapersIInv

LEMMA AnalyseStep ==
  ASSUME PapersIInv, NEW r \in LitRuns, AnalysePaper(r)
  PROVE  PapersIInv'
<1>u. /\ UNCHANGED <<papers, links, artifacts, unsaved>>
      /\ work[r].at = "analysing" /\ work[r].next <= Len(work[r].picks)
      /\ work' = [work EXCEPT ![r] = Advance(r, "reported")]
  BY DEF AnalysePaper, PicksLeft
<1>0. PICK hits \in Analyses : litEvidence' = litEvidence \cup EvidenceRows(r, hits)
  BY DEF AnalysePaper
<1>1. DOMAIN work = LitRuns /\ WorkOK(work[r])
  BY DEF PapersIInv, TablesOK
<1>2. /\ DOMAIN work' = LitRuns /\ \A s \in LitRuns : s # r => work'[s] = work[s]
      /\ work'[r] = Advance(r, "reported")
  BY <1>1, <1>u
<1>3. /\ work'[r] \in WorkState /\ work'[r].rows = work[r].rows
      /\ work'[r].picks = work[r].picks /\ work'[r].read = work[r].read
      /\ work'[r].at \in {"reported", "analysing"}
  BY <1>1, <1>2, <1>u, AdvanceIsWork DEF Steps
<1>4. WorkOK(work'[r])
  BY <1>1, <1>3, <1>u DEF WorkOK
<1>5. TablesOK' /\ \A s \in LitRuns : work'[s].at \in Steps
  BY <1>2, <1>4, <1>u, KeepTables DEF PapersIInv, TablesOK
<1>6. SelectedFits(r)' /\ WrittenFits(r)'
  BY <1>3 DEF SelectedFits, WrittenFits
<1>7. WorkFits'
  BY <1>2, <1>6, <1>u, KeepWorkFits, GrowsReflexive DEF PapersIInv, TablesOK, WorkOK, WorkState
<1>8. RowsFit' /\ RowsAreLocked'
  BY <1>u DEF PapersIInv, RowsFit, RowsAreLocked
<1>9. ReadIsStored'
  <2>1. \A n \in DOMAIN work'[r].read :
          work'[r].read[n] # {} => FullTextOf(r, work'[r].rows[n], work'[r].read[n]) \in artifacts'
    BY <1>3, <1>u DEF PapersIInv, ReadIsStored
  <2> QED
    BY <1>2, <1>u, <2>1, KeepStored DEF PapersIInv
<1>10. EvidenceIsStored'
  <2>1. ASSUME NEW e \in EvidenceRows(r, hits), e.source = "body"
        PROVE  \E text : e.quote \in text /\ FullTextOf(e.run, e.row, text) \in artifacts
    <3> DEFINE n == work[r].next
               text == work[r].read[n]
               row == work[r].rows[n]
    <3>1. PICK q \in hits :
            e = [run |-> r, direction |-> Pick(r).direction, row |-> row, quote |-> q,
                 source |-> Source(Pick(r).record, text, q)]
      BY DEF EvidenceRows
    <3>2. Source(Pick(r).record, text, q) = "body"
      BY <2>1, <3>1
    <3>3. q \in text
      BY <3>2 DEF Source
    <3>4. n \in DOMAIN work[r].read
      BY <1>1, <1>u DEF WorkOK, WorkState
    <3>5. FullTextOf(r, row, text) \in artifacts
      BY <3>3, <3>4 DEF PapersIInv, ReadIsStored
    <3> QED
      BY <3>1, <3>3, <3>5
  <2> QED
    BY <1>0, <1>u, <2>1 DEF PapersIInv, EvidenceIsStored
<1>11. PapersTypeOK' /\ LinkedIsTheArticle'
  BY <1>5, <1>u, KeepLinks, GrowsReflexive DEF PapersIInv
<1> QED
  BY <1>5, <1>7, <1>8, <1>9, <1>10, <1>11 DEF PapersIInv

LEMMA PapersStutter == ASSUME PapersIInv, UNCHANGED paperVars PROVE PapersIInv'
BY DEF paperVars, PapersIInv, TablesOK, RowsFit, RowsAreLocked, WorkFits, SelectedFits, WrittenFits,
   View, Pick, ReadIsStored, EvidenceIsStored, PapersTypeOK, LinkedIsTheArticle

(* The inductive invariant: rows fit their articles, their writers exclude *)
(* each other, each worker has written what it will link, and has stored   *)
(* what it will quote.                                                     *)
THEOREM PapersInductive == PapersSpec => []PapersIInv
<1>1. PapersInit => PapersIInv
  BY PapersInitIInv
<1>2. PapersIInv /\ [PapersNext]_paperVars => PapersIInv'
  <2>1. SUFFICES ASSUME PapersIInv, NEW r \in LitRuns, Works(r) \/ StopRun(r) PROVE PapersIInv'
    BY PapersStutter DEF PapersNext
  <2>2. CASE SearchDirection(r)
    BY <2>1, <2>2, SearchStep
  <2>3. CASE SelectPaper(r)
    BY <2>1, <2>3, SelectStep
  <2>4. CASE WritePaper(r)
    BY <2>1, <2>4, WriteStep
  <2>5. CASE WriteRefused(r) \/ DeadlockEnded(r)
    BY <2>1, <2>5, DropStep DEF WriteRefused, DeadlockEnded
  <2>6. CASE CommitRanking(r)
    BY <2>1, <2>6, CommitStep
  <2>7. CASE FetchDocument(r)
    BY <2>1, <2>7, FetchStep
  <2>8. CASE AnalysePaper(r)
    BY <2>1, <2>8, AnalyseStep
  <2>9. CASE StopRun(r)
    BY <2>1, <2>9, DropStep DEF StopRun
  <2> QED
    BY <2>1, <2>2, <2>3, <2>4, <2>5, <2>6, <2>7, <2>8, <2>9 DEF Works
<1> QED
  BY <1>1, <1>2, PTL DEF PapersSpec

(* Whichever runs merge their records into shared rows, wait, fail or      *)
(* deadlock: a linked row is the article its record named, and evidence    *)
(* from a paper's body can be looked up beside it (upsert_paper,           *)
(* verify_analysis).                                                       *)
THEOREM PapersSound == PapersSpec => []PapersAreSound
<1>1. PapersIInv => PapersAreSound
  <2> SUFFICES ASSUME PapersIInv PROVE EvidenceIsTraceable
    BY DEF PapersIInv, PapersAreSound
  <2>1. ASSUME NEW l \in links, NEW e \in EvidenceOf(l), e.source = "body"
        PROVE  \E a \in ArtifactsOf(l) : a.kind = "paper_fulltext" /\ e.quote \in a.text
    <3>1. e \in litEvidence /\ e.run = l.run /\ e.row = l.row
      BY DEF EvidenceOf
    <3>2. PICK text : e.quote \in text /\ FullTextOf(e.run, e.row, text) \in artifacts
      BY <2>1, <3>1 DEF PapersIInv, EvidenceIsStored
    <3> QED
      BY <3>1, <3>2 DEF ArtifactsOf, FullTextOf
  <2> QED
    BY <2>1 DEF EvidenceIsTraceable
<1> QED
  BY <1>1, PapersInductive, PTL

-----------------------------------------------------------------------------
(* What a supplier job may claim of its evidence. *)

Plus(c, a, x) == a + x
Adding == INSTANCE DataInduction WITH Op <- Plus
Total(s) == FoldLeft(+, 0, s)

LEMMA TotalIsFold == \A s : Total(s) = Adding!Fold({}, 0, s)
BY Zenon DEF Total, Plus, Adding!Fold, Adding!Iter, FoldLeft, MapThenFoldSet, Max, Adding!Max

LEMMA TotalOfNone == Total(<<>>) = 0
BY TotalIsFold, Adding!FoldOfNone

LEMMA TotalAppends ==
  ASSUME NEW s \in Seq(Nat), NEW x \in Nat
  PROVE  Total(Append(s, x)) = Total(s) + x
<1> DEFINE n == Len(s)  t == Append(s, x)
<1>1. n \in Nat /\ DOMAIN s = 1 .. n /\ DOMAIN t = 1 .. n + 1 /\ (\A i \in 1 .. n : t[i] = s[i])
      /\ t[n + 1] = x
  OBVIOUS
<1> HIDE DEF n, t
<1>2. Adding!Fold({}, 0, t) = Plus({}, Adding!Fold({}, 0, s), t[n + 1])
  BY <1>1, Adding!FoldExtends
<1> QED
  BY <1>1, <1>2, TotalIsFold DEF Plus, t


LEMMA TotalIsNumber ==
  ASSUME NEW s \in Seq(Nat)
  PROVE  Total(s) \in Nat
<1> DEFINE T == {q \in Seq(Nat) : Total(q) \in Nat}
<1>1. <<>> \in T
  BY TotalOfNone
<1>2. ASSUME NEW q \in Seq(Nat), NEW x \in Nat, q \in T PROVE Append(q, x) \in T
  <2>1. Total(Append(q, x)) = Total(q) + x /\ Total(q) \in Nat /\ Append(q, x) \in Seq(Nat)
    BY <1>2, TotalAppends
  <2> QED
    BY <2>1
<1> HIDE DEF T
<1>3. Seq(Nat) \subseteq T
  BY <1>1, <1>2, Adding!GrowingSequences
<1> QED
  BY <1>3 DEF T

LEMMA TotalOfBoth ==
  ASSUME NEW s \in Seq(Nat), NEW t \in Seq(Nat)
  PROVE  Total(s \o t) = Total(s) + Total(t)
<1> DEFINE T == {q \in Seq(Nat) : Total(s \o q) = Total(s) + Total(q)}
<1>1. <<>> \in T
  BY TotalOfNone, TotalIsNumber
<1>2. ASSUME NEW q \in Seq(Nat), NEW x \in Nat, q \in T PROVE Append(q, x) \in T
  <2>1. Total(s \o q) = Total(s) + Total(q) /\ s \o q \in Seq(Nat)
    BY <1>2
  <2>2. s \o Append(q, x) = Append(s \o q, x)
    OBVIOUS
  <2>3. Total(Append(s \o q, x)) = Total(s \o q) + x /\ Total(Append(q, x)) = Total(q) + x
    BY <2>1, TotalAppends
  <2>4. Total(s) \in Nat /\ Total(q) \in Nat
    BY TotalIsNumber
  <2>5. Total(s \o Append(q, x)) = Total(s) + Total(Append(q, x)) /\ Append(q, x) \in Seq(Nat)
    BY <2>1, <2>2, <2>3, <2>4
  <2> QED
    BY <2>5
<1> HIDE DEF T
<1>3. Seq(Nat) \subseteq T
  BY <1>1, <1>2, Adding!GrowingSequences
<1> QED
  BY <1>3 DEF T

Lengths == Seq(0 .. HalfWindow)

LEMMA PiecesKeepLine ==
  ASSUME NEW line \in Nat
  PROVE  Pieces(line) \in Lengths /\ Total(Pieces(line)) = line
<1> DEFINE full == line \div HalfWindow  rest == line % HalfWindow
           s == [i \in 1 .. full |-> HalfWindow]
<1>1. HalfWindow \in Nat \ {0}
  BY EvidenceAssumption
<1>2. full \in Nat /\ rest \in 0 .. HalfWindow - 1 /\ line = HalfWindow * full + rest
  BY <1>1, Adding!Division
<1> HIDE DEF full, rest
<1>3. s \in Lengths /\ s \in Seq(Nat) /\ DOMAIN s = 1 .. full
  BY <1>1, <1>2 DEF Lengths
<1>4. Total(s) = HalfWindow * full
  <2> DEFINE T == [i \in 0 .. full |-> {HalfWindow * i}]
  <2>1. 0 \in T[0]
    BY <1>1, <1>2
  <2>2. ASSUME NEW i \in 1 .. full, NEW a \in T[i - 1] PROVE Plus({}, a, s[i]) \in T[i]
    <3>1. i - 1 \in 0 .. full /\ i \in 0 .. full /\ a = HalfWindow * (i - 1) /\ s[i] = HalfWindow
      BY <1>2
    <3>2. HalfWindow * (i - 1) + HalfWindow = HalfWindow * i
      BY <1>1, <1>2
    <3> QED
      BY <3>1, <3>2 DEF Plus
  <2>3. T[full] = {HalfWindow * full}
    BY <1>2
  <2> HIDE DEF T, s
  <2>4. Adding!Fold({}, 0, s) \in T[full]
    BY <1>2, <1>3, <2>1, <2>2, Adding!FoldKeeps
  <2> QED
    BY <2>3, <2>4, TotalIsFold
<1>5. Pieces(line) = IF rest = 0 THEN s \o <<>> ELSE s \o <<rest>>
  BY DEF Pieces, full, rest
<1> HIDE DEF s
<1>6. CASE rest = 0
  BY <1>2, <1>1, <1>3, <1>4, <1>5, <1>6 DEF Lengths
<1>7. CASE rest # 0
  <2>1. Pieces(line) = Append(s, rest) /\ rest \in 0 .. HalfWindow
    <3>1. rest \in Nat /\ rest \in 0 .. HalfWindow
      BY <1>1, <1>2
    <3>2. Append(s, rest) = s \o <<rest>>
      BY <1>3, <3>1, AppendIsConcat
    <3> QED
      BY <1>5, <1>7, <3>1, <3>2
  <2>2. Append(s, rest) \in Lengths
    BY <1>3, <2>1 DEF Lengths
  <2>3. Total(Append(s, rest)) = Total(s) + rest
    BY <1>3, <2>1, TotalAppends
  <2> QED
    BY <1>1, <1>2, <1>4, <2>1, <2>2, <2>3
<1> QED
  BY <1>6, <1>7

LEMMA LengthsAreNumbers == Lengths \subseteq Seq(Nat)
  BY EvidenceAssumption, SeqMonotonic DEF Lengths

Cut(c, s, line) == s \o Pieces(line)
Cutting == INSTANCE DataInduction WITH Op <- Cut
PiecesOf(body) == FoldLeft(LAMBDA s, line : s \o Pieces(line), <<>>, body)

LEMMA PiecesOfIsFold == \A body : PiecesOf(body) = Cutting!Fold({}, <<>>, body)
  BY Zenon DEF PiecesOf, Cut, Cutting!Fold, Cutting!Iter, FoldLeft, MapThenFoldSet, Max, Cutting!Max

LEMMA PiecesKeepText ==
  ASSUME NEW body \in Seq(Nat)
  PROVE  PiecesOf(body) \in Lengths /\ Total(PiecesOf(body)) = Total(body)
<1> DEFINE T == {b \in Seq(Nat) : PiecesOf(b) \in Lengths /\ Total(PiecesOf(b)) = Total(b)}
<1>1. <<>> \in T
  <2>1. PiecesOf(<<>>) = <<>>
    BY PiecesOfIsFold, Cutting!FoldOfNone
  <2>2. <<>> \in Lengths /\ <<>> \in Seq(Nat)
    BY EmptySeq DEF Lengths
  <2> QED
    BY <2>1, <2>2
<1>2. ASSUME NEW b \in Seq(Nat), NEW x \in Nat, b \in T PROVE Append(b, x) \in T
  <2>1. PiecesOf(Append(b, x)) = PiecesOf(b) \o Pieces(x)
    <3>1. Cutting!Fold({}, <<>>, Append(b, x)) = Cut({}, Cutting!Fold({}, <<>>, b), x)
      BY Cutting!FoldAppends
    <3> QED
      BY <3>1, PiecesOfIsFold DEF Cut
  <2>2. PiecesOf(b) \in Lengths /\ Total(PiecesOf(b)) = Total(b)
    BY <1>2
  <2>3. Pieces(x) \in Lengths /\ Total(Pieces(x)) = x
    BY PiecesKeepLine
  <2>4. PiecesOf(b) \o Pieces(x) \in Lengths
    BY <2>2, <2>3, ConcatProperties DEF Lengths
  <2>5. Total(PiecesOf(b) \o Pieces(x)) = Total(b) + x
    BY <2>2, <2>3, LengthsAreNumbers, TotalOfBoth
  <2>6. Total(Append(b, x)) = Total(b) + x /\ Append(b, x) \in Seq(Nat)
    BY TotalAppends
  <2> QED
    BY <2>1, <2>4, <2>5, <2>6
<1> HIDE DEF T
<1>3. Seq(Nat) \subseteq T
  BY <1>1, <1>2, Adding!GrowingSequences
<1> QED
  BY <1>3 DEF T

Pack(c, parts, piece) ==
  IF parts # <<>> /\ Last(parts) + piece <= HalfWindow
  THEN Append(Front(parts), Last(parts) + piece)
  ELSE Append(parts, piece)
Packing == INSTANCE DataInduction WITH Op <- Pack
Packed(pieces) == Packing!Fold({}, <<>>, pieces)

LEMMA PartsAreFolds == \A body : Parts(body) = Packed(PiecesOf(body))
  BY Zenon DEF Parts, Packed, Pack, PiecesOf, Packing!Fold, Packing!Iter, FoldLeft, MapThenFoldSet, Max, Packing!Max, Last, Front

LEMMA PartsKeepText ==
  ASSUME NEW body \in Seq(Nat)
  PROVE  Parts(body) \in Lengths /\ Total(Parts(body)) = Total(body)
<1> DEFINE T == {s \in Lengths : Packed(s) \in Lengths /\ Total(Packed(s)) = Total(s)}
<1>1. <<>> \in T
  <2>1. Packed(<<>>) = <<>>
    BY Packing!FoldOfNone DEF Packed
  <2>2. <<>> \in Lengths /\ <<>> \in Seq(Nat)
    BY EmptySeq DEF Lengths
  <2> QED
    BY <2>1, <2>2
<1>2. ASSUME NEW s \in Lengths, NEW x \in 0 .. HalfWindow, s \in T PROVE Append(s, x) \in T
  <2> DEFINE p == Packed(s)
  <2>0. HalfWindow \in Nat /\ x \in Nat
    BY EvidenceAssumption
  <2>1. Packed(Append(s, x)) = Pack({}, p, x)
    <3> DEFINE S == 0 .. HalfWindow
    <3>1. s \in Seq(S) /\ x \in S
      BY DEF Lengths
    <3> HIDE DEF S
    <3>2. Packing!Fold({}, <<>>, Append(s, x)) = Pack({}, Packing!Fold({}, <<>>, s), x)
      BY <3>1, Packing!FoldAppends
    <3> QED
      BY <3>2 DEF Packed
  <2>2. p \in Lengths /\ p \in Seq(Nat) /\ Total(p) = Total(s) /\ s \in Seq(Nat)
    BY <1>2, LengthsAreNumbers
  <2>3. Total(Append(s, x)) = Total(s) + x /\ Append(s, x) \in Lengths /\ Total(s) \in Nat
    BY <2>0, <2>2, TotalAppends, TotalIsNumber DEF Lengths
  <2> HIDE DEF p
  <2>4. Pack({}, p, x) \in Lengths /\ Total(Pack({}, p, x)) = Total(p) + x
    <3>1. CASE p # <<>> /\ Last(p) + x <= HalfWindow
      <4>1. Front(p) \in Lengths /\ Last(p) \in 0 .. HalfWindow /\ p = Append(Front(p), Last(p))
        BY <2>2, <3>1, Adding!FrontAndLast DEF Lengths, Front, Last
      <4>2. Last(p) + x \in 0 .. HalfWindow /\ Last(p) \in Nat /\ Last(p) + x \in Nat
        BY <2>0, <3>1, <4>1
      <4>3. Pack({}, p, x) = Append(Front(p), Last(p) + x)
        BY <3>1 DEF Pack
      <4>4. Append(Front(p), Last(p) + x) \in Lengths
        BY <4>1, <4>2 DEF Lengths
      <4>5. Front(p) \in Seq(Nat)
        BY <4>1, LengthsAreNumbers
      <4>6. Total(p) = Total(Front(p)) + Last(p)
        BY <4>1, <4>2, <4>5, TotalAppends
      <4>7. Total(Append(Front(p), Last(p) + x)) = Total(Front(p)) + (Last(p) + x)
        BY <4>2, <4>5, TotalAppends
      <4>8. Total(Front(p)) \in Nat
        BY <4>5, TotalIsNumber
      <4>9. Total(Pack({}, p, x)) = Total(Front(p)) + (Last(p) + x)
        BY <4>3, <4>7
      <4>10. Total(Front(p)) + (Last(p) + x) = (Total(Front(p)) + Last(p)) + x
        BY <2>0, <4>2, <4>8
      <4> QED
        BY <4>3, <4>4, <4>6, <4>9, <4>10
    <3>2. CASE ~(p # <<>> /\ Last(p) + x <= HalfWindow)
      <4>1. Pack({}, p, x) = Append(p, x)
        BY <3>2 DEF Pack
      <4>2. Append(p, x) \in Lengths
        BY <2>2 DEF Lengths
      <4>3. Total(Append(p, x)) = Total(p) + x
        BY <2>0, <2>2, TotalAppends
      <4> QED
        BY <4>1, <4>2, <4>3
    <3> QED
      BY <3>1, <3>2
  <2> QED
    BY <2>1, <2>2, <2>3, <2>4
<1> HIDE DEF T
<1>3. Seq(0 .. HalfWindow) \subseteq T
  BY <1>1, <1>2, Adding!GrowingSequences DEF Lengths
<1>4. PiecesOf(body) \in T /\ Total(PiecesOf(body)) = Total(body)
  BY <1>3, PiecesKeepText DEF Lengths
<1> QED
  BY <1>4, PartsAreFolds DEF T
-----------------------------------------------------------------------------
FlatStep(c, f, i) == IF i = 1 THEN c[i] ELSE f[i - 1] \o c[i]
Flattening == INSTANCE DataInduction WITH Op <- FlatStep
FlatOf(seqs) ==
  LET flatten[i \in 1 .. Len(seqs)] == IF i = 1 THEN seqs[i] ELSE flatten[i - 1] \o seqs[i]
  IN  flatten

LEMMA FlatOfIsDefined ==
  ASSUME NEW X, NEW s \in Seq(Seq(X))
  PROVE  /\ FlattenSeq(s) = IF s = <<>> THEN <<>> ELSE FlatOf(s)[Len(s)]
         /\ \A i \in 1 .. Len(s) : FlatOf(s)[i] = IF i = 1 THEN s[i] ELSE FlatOf(s)[i - 1] \o s[i]
<1> DEFINE D == 1 .. Len(s)  rank == [i \in D |-> i]
<1>1. Len(s) \in Nat /\ (Len(s) = 0 <=> s = <<>>)
  OBVIOUS
<1>2. rank \in [D -> 0 .. Len(s)]
  BY <1>1
<1>3. \A f, g : \A i \in D :
         (\A j \in D : rank[j] < rank[i] => f[j] = g[j]) => FlatStep(s, f, i) = FlatStep(s, g, i)
  <2> SUFFICES ASSUME NEW f, NEW g, NEW i \in D, \A j \in D : rank[j] < rank[i] => f[j] = g[j]
               PROVE  FlatStep(s, f, i) = FlatStep(s, g, i)
    OBVIOUS
  <2>1. CASE i = 1
    BY <2>1 DEF FlatStep
  <2>2. CASE i # 1
    <3>1. i - 1 \in D /\ rank[i - 1] < rank[i]
      BY <1>1, <2>2
    <3> HIDE DEF rank
    <3>2. f[i - 1] = g[i - 1]
      BY <3>1
    <3> QED
      BY <2>2, <3>2 DEF FlatStep
  <2> QED
    BY <2>1, <2>2
<1> HIDE DEF rank
<1>4. FlatOf(s) = CHOOSE f : f = [i \in D |-> FlatStep(s, f, i)]
  BY DEF FlatOf, FlatStep
<1> DEFINE r == FlatOf(s)
<1>5. r = [i \in D |-> FlatStep(s, r, i)]
  <2> HIDE DEF r, D
  <2> QED
    BY <1>1, <1>2, <1>3, <1>4, Flattening!Recursion DEF r
<1> HIDE DEF r
<1>6. \A i \in D : r[i] = FlatStep(s, r, i)
  BY <1>5
<1>7. FlattenSeq(s) = IF Len(s) = 0 THEN s ELSE FlatOf(s)[Len(s)]
  BY Zenon DEF FlattenSeq, FlatOf
<1> QED
  BY <1>1, <1>6, <1>7 DEF r, FlatStep

LEMMA FlatAppends ==
  ASSUME NEW X, NEW s \in Seq(Seq(X)), NEW q \in Seq(X)
  PROVE  FlattenSeq(Append(s, q)) = IF s = <<>> THEN q ELSE FlattenSeq(s) \o q
<1> DEFINE n == Len(s)  t == Append(s, q)  f == FlatOf(s)  g == FlatOf(t)
           Alike == {i \in 0 .. n : i # 0 => f[i] = g[i]}
<1>1. n \in Nat /\ t \in Seq(Seq(X)) /\ Len(t) = n + 1 /\ (\A i \in 1 .. n : t[i] = s[i])
      /\ t[n + 1] = q /\ t # <<>> /\ (n = 0 <=> s = <<>>)
  <2> DEFINE Q == Seq(X)
  <2>1. s \in Seq(Q) /\ q \in Q
    OBVIOUS
  <2> HIDE DEF Q
  <2>2. n \in Nat /\ t \in Seq(Q) /\ Len(t) = n + 1 /\ (\A i \in 1 .. n : t[i] = s[i])
        /\ t[n + 1] = q /\ t # <<>> /\ (n = 0 <=> s = <<>>)
    <3>1. n \in Nat /\ (n = 0 <=> s = <<>>)
      BY <2>1, EmptySeq
    <3>2. t \in Seq(Q) /\ Len(t) = n + 1 /\ (\A i \in 1 .. n : t[i] = s[i])
          /\ t[n + 1] = q /\ t # <<>>
      BY <2>1, AppendProperties
    <3> QED
      BY <3>1, <3>2
  <2> QED
    BY <2>2 DEF Q
<1> HIDE DEF n, t
<1>2. \A i \in 1 .. n : f[i] = IF i = 1 THEN s[i] ELSE f[i - 1] \o s[i]
  BY FlatOfIsDefined DEF n
<1>3. \A i \in 1 .. n + 1 : g[i] = IF i = 1 THEN t[i] ELSE g[i - 1] \o t[i]
  BY <1>1, FlatOfIsDefined
<1>4. FlattenSeq(s) = IF s = <<>> THEN <<>> ELSE f[n]
  BY FlatOfIsDefined DEF n
<1>5. FlattenSeq(t) = g[n + 1]
  BY <1>1, FlatOfIsDefined
<1> HIDE DEF f, g
<1>6. 0 \in Alike
  BY <1>1
<1>7. ASSUME NEW i \in 0 .. n - 1, i \in Alike PROVE i + 1 \in Alike
  <2>1. i + 1 \in 1 .. n /\ i + 1 \in 1 .. n + 1 /\ (i + 1) - 1 = i
    BY <1>1
  <2>2. CASE i = 0
    BY <1>1, <1>2, <1>3, <2>1, <2>2
  <2>3. CASE i # 0
    <3>1. f[i] = g[i]
      BY <1>7, <2>3
    <3> QED
      BY <1>1, <1>2, <1>3, <2>1, <2>3, <3>1
  <2> QED
    BY <2>2, <2>3
<1> HIDE DEF Alike
<1>8. n \in Alike
  <2>1. 0 .. n \subseteq Alike
    BY <1>1, <1>6, <1>7, Adding!UpTo
  <2> QED
    BY <1>1, <2>1
<1>9. CASE n = 0
  BY <1>1, <1>3, <1>5, <1>9 DEF t
<1>10. CASE n # 0
  <2>1. f[n] = g[n] /\ n + 1 \in 1 .. n + 1 /\ (n + 1) - 1 = n /\ n + 1 # 1
    <3>1. n + 1 \in 1 .. n + 1 /\ (n + 1) - 1 = n /\ n + 1 # 1
      BY <1>1, <1>10
    <3>2. f[n] = g[n]
      BY <1>8, <1>10 DEF Alike
    <3> QED
      BY <3>1, <3>2
  <2>2. g[n + 1] = g[n] \o t[n + 1]
    BY <1>3, <2>1
  <2> QED
    BY <1>1, <1>4, <1>5, <1>10, <2>1, <2>2 DEF t
<1> QED
  BY <1>9, <1>10

Flat(s) == FlattenSeq(s)

LEMMA FlatGrows ==
  ASSUME NEW X, NEW s \in Seq(Seq(X))
  PROVE  /\ Flat(s) \in Seq(X) /\ Flat(<<>>) = <<>>
         /\ \A q \in Seq(X) : Flat(Append(s, q)) = Flat(s) \o q
<1>1. Flat(<<>>) = <<>>
  BY DEF Flat, FlattenSeq
<1> DEFINE T == {r \in Seq(Seq(X)) : Flat(r) \in Seq(X)}
<1>2. \A r \in Seq(Seq(X)), q \in Seq(X) : Flat(Append(r, q)) = IF r = <<>> THEN q ELSE Flat(r) \o q
  BY FlatAppends DEF Flat
<1>3. <<>> \in T
  <2>1. <<>> \in Seq(Seq(X)) /\ <<>> \in Seq(X)
    BY EmptySeq
  <2> QED
    BY <1>1, <2>1
<1>4. ASSUME NEW r \in Seq(Seq(X)), NEW q \in Seq(X), r \in T PROVE Append(r, q) \in T
  <2>1. Flat(r) \in Seq(X) /\ Append(r, q) \in Seq(Seq(X))
    BY <1>4, AppendProperties
  <2>2. Flat(r) \o q \in Seq(X)
    BY <2>1, ConcatProperties
  <2>3. Flat(Append(r, q)) \in Seq(X)
    BY <1>2, <2>2
  <2> QED
    BY <2>1, <2>3
<1> HIDE DEF T
<1>5. Seq(Seq(X)) \subseteq T
  BY <1>3, <1>4, Adding!GrowingSequences
<1>6. Flat(s) \in Seq(X)
  BY <1>5 DEF T
<1>7. ASSUME NEW q \in Seq(X) PROVE Flat(Append(s, q)) = Flat(s) \o q
  <2>1. <<>> \o q = q
    BY ConcatEmptySeq
  <2> QED
    BY <1>1, <1>2, <2>1
<1> QED
  BY <1>1, <1>6, <1>7
-----------------------------------------------------------------------------
Part == [item : Nat, size : 0 .. HalfWindow]

Weigh(c, n, part) == n + part.size + Heading
Weighing == INSTANCE DataInduction WITH Op <- Weigh
Count(c, n, part) == IF part.item = c THEN n + part.size ELSE n
Counting == INSTANCE DataInduction WITH Op <- Count
Counted(i, ps) == FoldLeft(LAMBDA n, part : IF part.item = i THEN n + part.size ELSE n, 0, ps)

LEMMA WeightIsFold == \A q : Weight(q) = Weighing!Fold({}, 0, q)
  BY Zenon DEF Weight, Weigh, Weighing!Fold, Weighing!Iter, FoldLeft, MapThenFoldSet, Max, Weighing!Max

LEMMA CountedIsFold == \A i, q : Counted(i, q) = Counting!Fold(i, 0, q)
  BY Zenon DEF Counted, Count, Counting!Fold, Counting!Iter, FoldLeft, MapThenFoldSet, Max, Counting!Max

LEMMA WeightAppends ==
  ASSUME NEW q \in Seq(Part), NEW x \in Part
  PROVE  Weight(<<>>) = 0 /\ Weight(Append(q, x)) = Weight(q) + x.size + Heading
<1>1. Weighing!Fold({}, 0, Append(q, x)) = Weigh({}, Weighing!Fold({}, 0, q), x)
  BY Weighing!FoldAppends
<1>2. Weighing!Fold({}, 0, <<>>) = 0
  BY Weighing!FoldOfNone
<1> QED
  BY <1>1, <1>2, WeightIsFold DEF Weigh

LEMMA CountedAppends ==
  ASSUME NEW i, NEW q \in Seq(Part), NEW x \in Part
  PROVE  /\ Counted(i, <<>>) = 0
         /\ Counted(i, Append(q, x)) = IF x.item = i THEN Counted(i, q) + x.size ELSE Counted(i, q)
<1>1. Counting!Fold(i, 0, Append(q, x)) = Count(i, Counting!Fold(i, 0, q), x)
  BY Counting!FoldAppends
<1>2. Counting!Fold(i, 0, <<>>) = 0
  BY Counting!FoldOfNone
<1> QED
  BY <1>1, <1>2, CountedIsFold DEF Count

LEMMA CountedOfBoth ==
  ASSUME NEW i, NEW s \in Seq(Part), NEW q \in Seq(Part)
  PROVE  Counted(i, s \o q) \in Nat /\ Counted(i, s) \in Nat /\ Counted(i, q) \in Nat
         /\ Counted(i, s \o q) = Counted(i, s) + Counted(i, q)
<1> DEFINE T == {r \in Seq(Part) : Counted(i, r) \in Nat}
           U == {r \in Seq(Part) : Counted(i, s \o r) = Counted(i, s) + Counted(i, r)}
<1>0. Counted(i, <<>>) = 0
  BY Counting!FoldOfNone, CountedIsFold
<1>1. <<>> \in T
  BY <1>0
<1>2. ASSUME NEW r \in Seq(Part), NEW x \in Part, r \in T PROVE Append(r, x) \in T
  <2>1. Counted(i, r) \in Nat /\ Append(r, x) \in Seq(Part) /\ x.size \in Nat
    BY <1>2, AppendProperties DEF Part
  <2>2. Counted(i, Append(r, x)) = IF x.item = i THEN Counted(i, r) + x.size ELSE Counted(i, r)
    BY CountedAppends
  <2>3. Counted(i, Append(r, x)) \in Nat
    BY <2>1, <2>2
  <2> QED
    BY <2>1, <2>3
<1> HIDE DEF T
<1>3. Seq(Part) \subseteq T
  BY <1>1, <1>2, Adding!GrowingSequences
<1>4. \A r \in Seq(Part) : Counted(i, r) \in Nat
  BY <1>3 DEF T
<1>5. <<>> \in U
  <2>1. s \o <<>> = s /\ <<>> \in Seq(Part)
    BY ConcatEmptySeq, EmptySeq
  <2>2. Counted(i, s) = Counted(i, s) + 0
    BY <1>4
  <2> QED
    BY <1>0, <2>1, <2>2
<1>6. ASSUME NEW r \in Seq(Part), NEW x \in Part, r \in U PROVE Append(r, x) \in U
  <2>1. Counted(i, s \o r) = Counted(i, s) + Counted(i, r) /\ Append(r, x) \in Seq(Part)
        /\ s \o r \in Seq(Part)
    BY <1>6, AppendProperties, ConcatProperties
  <2>2. Counted(i, Append(r, x)) = IF x.item = i THEN Counted(i, r) + x.size ELSE Counted(i, r)
    BY CountedAppends
  <2>3. Counted(i, Append(s \o r, x)) =
          IF x.item = i THEN Counted(i, s \o r) + x.size ELSE Counted(i, s \o r)
    BY <2>1, CountedAppends
  <2>4. s \o Append(r, x) = Append(s \o r, x)
    OBVIOUS
  <2>5. Counted(i, s) \in Nat /\ Counted(i, r) \in Nat /\ x.size \in Nat
    <3>1. x.size \in Nat
      BY EvidenceAssumption DEF Part
    <3> QED
      BY <1>4, <3>1
  <2>6. Counted(i, s \o Append(r, x)) = Counted(i, s) + Counted(i, Append(r, x))
    <3>1. CASE x.item = i
      BY <2>1, <2>2, <2>3, <2>4, <2>5, <3>1
    <3>2. CASE x.item # i
      BY <2>1, <2>2, <2>3, <2>4, <2>5, <3>2
    <3> QED
      BY <3>1, <3>2
  <2> QED
    BY <2>1, <2>6
<1> HIDE DEF U
<1>7. Seq(Part) \subseteq U
  BY <1>5, <1>6, Adding!GrowingSequences
<1>8. s \o q \in Seq(Part)
  BY ConcatProperties
<1> QED
  BY <1>4, <1>7, <1>8 DEF U

(* Requests that fit the model's window. *)
Requests == {s \in Seq(Seq(Part)) : \A i \in DOMAIN s : Weight(s[i]) \in Nat /\ Weight(s[i]) <= 2 * HalfWindow}

LEMMA RequestsGrow ==
  ASSUME NEW s \in Requests, NEW q \in Seq(Part), Weight(q) \in Nat, Weight(q) <= 2 * HalfWindow
  PROVE  Append(s, q) \in Requests /\ Flat(Append(s, q)) = Flat(s) \o q
<1> DEFINE Q == Seq(Part)  t == Append(s, q)
<1>1. s \in Seq(Q) /\ q \in Q /\ \A i \in DOMAIN s : Weight(s[i]) \in Nat /\ Weight(s[i]) <= 2 * HalfWindow
  BY DEF Requests
<1>2. Flat(t) = Flat(s) \o q
  BY <1>1, FlatGrows
<1> HIDE DEF Q
<1>3. t \in Seq(Q) /\ DOMAIN t = 1 .. Len(s) + 1 /\ DOMAIN s = 1 .. Len(s) /\ Len(s) \in Nat
      /\ t[Len(s) + 1] = q /\ \A i \in 1 .. Len(s) : t[i] = s[i]
  BY <1>1
<1> HIDE DEF t
<1>4. ASSUME NEW i \in DOMAIN t PROVE Weight(t[i]) \in Nat /\ Weight(t[i]) <= 2 * HalfWindow
  <2>1. i \in 1 .. Len(s) \/ i = Len(s) + 1
    BY <1>3
  <2> QED
    BY <1>1, <1>3, <2>1
<1> QED
  BY <1>2, <1>3, <1>4 DEF t, Requests, Q

LEMMA JoinKeeps ==
  ASSUME NEW s \in Requests, NEW x \in Part
  PROVE  Joined(s, x) \in Requests /\ Flat(Joined(s, x)) = Append(Flat(s), x)
<1>0. HalfWindow \in Nat /\ Heading \in 0 .. HalfWindow /\ x.size \in 0 .. HalfWindow
  BY EvidenceAssumption DEF Part
<1> DEFINE Q == Seq(Part)
<1>1. s \in Seq(Q) /\ \A i \in DOMAIN s : Weight(s[i]) \in Nat /\ Weight(s[i]) <= 2 * HalfWindow
  BY DEF Requests
<1>2. Flat(s) \in Seq(Part)
  BY <1>1, FlatGrows
<1>3. CASE s # <<>> /\ Weight(Last(s)) + x.size + Heading <= 2 * HalfWindow
  <2> HIDE DEF Q
  <2>1. Front(s) \in Seq(Q) /\ Last(s) \in Q /\ s = Append(Front(s), Last(s))
        /\ Len(Front(s)) = Len(s) - 1
    BY <1>1, <1>3, Adding!FrontAndLast DEF Front, Last
  <2>2. Len(s) \in Nat \ {0} /\ DOMAIN s = 1 .. Len(s) /\ DOMAIN Front(s) = 1 .. Len(s) - 1
        /\ \A i \in 1 .. Len(s) - 1 : Front(s)[i] = s[i]
    <3>1. Len(s) \in Nat \ {0} /\ DOMAIN s = 1 .. Len(s)
      BY <1>1, <1>3, EmptySeq
    <3>2. DOMAIN Front(s) = 1 .. Len(s) - 1
      BY <2>1, <3>1
    <3>3. \A i \in 1 .. Len(s) - 1 : Front(s)[i] = Append(Front(s), Last(s))[i]
      BY <2>1, <3>1, <3>2
    <3> QED
      BY <2>1, <3>1, <3>2, <3>3
  <2>3. Last(s) = s[Len(s)] /\ Weight(Last(s)) \in Nat
    BY <1>1, <2>2 DEF Last
  <2>4. Weight(Append(Last(s), x)) = Weight(Last(s)) + x.size + Heading
    BY <2>1, WeightAppends DEF Q
  <2>5. Weight(Append(Last(s), x)) \in Nat /\ Weight(Append(Last(s), x)) <= 2 * HalfWindow
    BY <1>0, <1>3, <2>3, <2>4
  <2>6. Front(s) \in Requests
    <3>1. \A i \in DOMAIN Front(s) : i \in 1 .. Len(s) - 1 /\ i \in DOMAIN s
      BY <2>2
    <3>2. \A i \in DOMAIN Front(s) : Weight(Front(s)[i]) \in Nat /\ Weight(Front(s)[i]) <= 2 * HalfWindow
      BY <1>1, <2>2, <3>1
    <3> QED
      BY <2>1, <3>2 DEF Requests, Q
  <2>7. Append(Last(s), x) \in Seq(Part)
    BY <2>1, AppendProperties DEF Q
  <2>8. Joined(s, x) = Append(Front(s), Append(Last(s), x))
    BY <1>3 DEF Joined
  <2>9. Joined(s, x) \in Requests /\ Flat(Joined(s, x)) = Flat(Front(s)) \o Append(Last(s), x)
    BY <2>5, <2>6, <2>7, <2>8, RequestsGrow
  <2>10. Flat(s) = Flat(Front(s)) \o Last(s) /\ Flat(Front(s)) \in Seq(Part)
    BY <2>1, FlatGrows DEF Q
  <2>11. Flat(Front(s)) \o Append(Last(s), x) = Append(Flat(Front(s)) \o Last(s), x)
    BY <2>1, <2>10 DEF Q
  <2> QED
    BY <2>9, <2>10, <2>11
<1>4. CASE ~(s # <<>> /\ Weight(Last(s)) + x.size + Heading <= 2 * HalfWindow)
  <2>1. Joined(s, x) = Append(s, <<x>>)
    BY <1>4 DEF Joined
  <2>2. <<x>> \in Seq(Part) /\ <<x>> = Append(<<>>, x) /\ <<>> \in Seq(Part)
    BY EmptySeq
  <2>3. Weight(<<x>>) = 0 + x.size + Heading
    BY <2>2, WeightAppends
  <2>4. Weight(<<x>>) \in Nat /\ Weight(<<x>>) <= 2 * HalfWindow
    BY <1>0, <2>3
  <2>5. Flat(s) \o <<x>> = Append(Flat(s), x)
    BY <1>2, AppendIsConcat
  <2> QED
    BY <2>1, <2>2, <2>4, <2>5, RequestsGrow
<1> QED
  BY <1>3, <1>4
Join(c, s, part) == Joined(s, part)
Joining == INSTANCE DataInduction WITH Op <- Join
AllJoined(s, ps) == FoldLeft(Joined, s, ps)

LEMMA AllJoinedIsFold == \A s, ps : AllJoined(s, ps) = Joining!Fold({}, s, ps)
  BY Zenon DEF AllJoined, Join, Joining!Fold, Joining!Iter, FoldLeft, MapThenFoldSet, Max, Joining!Max

LEMMA AllJoinedKeeps ==
  ASSUME NEW s \in Requests, NEW ps \in Seq(Part)
  PROVE  AllJoined(s, ps) \in Requests /\ Flat(AllJoined(s, ps)) = Flat(s) \o ps
<1> DEFINE T == {q \in Seq(Part) : AllJoined(s, q) \in Requests /\ Flat(AllJoined(s, q)) = Flat(s) \o q}
<1>0. Flat(s) \in Seq(Part)
  <2>1. s \in Seq(Seq(Part))
    BY DEF Requests
  <2> QED
    BY <2>1, FlatGrows
<1>1. <<>> \in T
  <2>1. AllJoined(s, <<>>) = s
    BY Joining!FoldOfNone, AllJoinedIsFold
  <2>2. Flat(s) \o <<>> = Flat(s) /\ <<>> \in Seq(Part)
    BY <1>0, ConcatEmptySeq, EmptySeq
  <2> QED
    BY <2>1, <2>2
<1>2. ASSUME NEW q \in Seq(Part), NEW x \in Part, q \in T PROVE Append(q, x) \in T
  <2>1. AllJoined(s, q) \in Requests /\ Flat(AllJoined(s, q)) = Flat(s) \o q
    BY <1>2
  <2>2. AllJoined(s, Append(q, x)) = Joined(AllJoined(s, q), x)
    <3>1. Joining!Fold({}, s, Append(q, x)) = Join({}, Joining!Fold({}, s, q), x)
      BY Joining!FoldAppends
    <3> QED
      BY <3>1, AllJoinedIsFold DEF Join
  <2>3. AllJoined(s, Append(q, x)) \in Requests
        /\ Flat(AllJoined(s, Append(q, x))) = Append(Flat(s) \o q, x)
    BY <2>1, <2>2, JoinKeeps
  <2>4. Append(Flat(s) \o q, x) = Flat(s) \o Append(q, x) /\ Append(q, x) \in Seq(Part)
    <3>1. Append(q, x) \in Seq(Part)
      BY AppendProperties
    <3>2. Append(Flat(s) \o q, x) = Flat(s) \o Append(q, x)
      <4> DEFINE f == Flat(s)
      <4>1. f \in Seq(Part) /\ <<x>> \in Seq(Part) /\ f \o q \in Seq(Part)
        BY <1>0, ConcatProperties
      <4> HIDE DEF f
      <4>2. Append(f \o q, x) = (f \o q) \o <<x>> /\ Append(q, x) = q \o <<x>>
        BY <4>1, AppendIsConcat
      <4>3. (f \o q) \o <<x>> = f \o (q \o <<x>>)
        BY <4>1, ConcatAssociative
      <4> QED
        BY <4>2, <4>3 DEF f
    <3> QED
      BY <3>1, <3>2
  <2> QED
    BY <2>3, <2>4
<1> HIDE DEF T
<1>3. Seq(Part) \subseteq T
  BY <1>1, <1>2, Adding!GrowingSequences
<1> QED
  BY <1>3 DEF T

Tagged(i, lengths) == [k \in DOMAIN lengths |-> [item |-> i, size |-> lengths[k]]]

LEMMA TaggedCounts ==
  ASSUME NEW i \in Nat, NEW lengths \in Lengths, NEW j
  PROVE  Tagged(i, lengths) \in Seq(Part)
         /\ Counted(j, Tagged(i, lengths)) = IF i = j THEN Total(lengths) ELSE 0
<1> DEFINE T == {q \in Lengths : /\ Tagged(i, q) \in Seq(Part)
                                /\ Counted(j, Tagged(i, q)) = IF i = j THEN Total(q) ELSE 0}
<1>1. <<>> \in T
  <2>1. Tagged(i, <<>>) = <<>> /\ <<>> \in Seq(Part) /\ <<>> \in Lengths
    BY EmptySeq DEF Tagged, Lengths
  <2>2. Counted(j, <<>>) = 0
    BY Counting!FoldOfNone, CountedIsFold
  <2> QED
    BY <2>1, <2>2, TotalOfNone
<1>2. ASSUME NEW q \in Seq(0 .. HalfWindow), NEW x \in 0 .. HalfWindow, q \in T PROVE Append(q, x) \in T
  <2> DEFINE e == [item |-> i, size |-> x]
  <2>1. Tagged(i, q) \in Seq(Part) /\ q \in Lengths /\ q \in Seq(Nat) /\ e \in Part /\ x \in Nat
        /\ Counted(j, Tagged(i, q)) = IF i = j THEN Total(q) ELSE 0
    <3>1. q \in Lengths /\ e \in Part
      BY DEF Lengths, Part
    <3>2. x \in Nat
      BY EvidenceAssumption
    <3> QED
      BY <1>2, <3>1, <3>2, LengthsAreNumbers
  <2>2. Tagged(i, Append(q, x)) = Append(Tagged(i, q), e)
    <3>1. Len(Tagged(i, q)) = Len(q) /\ DOMAIN q = 1 .. Len(q) /\ Len(q) \in Nat
      BY <2>1 DEF Tagged
    <3>2. Tagged(i, Append(q, x)) = [k \in 1 .. Len(q) + 1 |-> [item |-> i, size |-> Append(q, x)[k]]]
      BY <2>1 DEF Tagged
    <3>3. Append(Tagged(i, q), e) = [k \in 1 .. Len(q) + 1 |-> IF k = Len(q) + 1 THEN e ELSE Tagged(i, q)[k]]
      BY <2>1, <3>1
    <3>4. \A k \in 1 .. Len(q) + 1 :
            [item |-> i, size |-> Append(q, x)[k]] = IF k = Len(q) + 1 THEN e ELSE Tagged(i, q)[k]
      BY <2>1, <3>1 DEF Tagged
    <3> QED
      BY <3>2, <3>3, <3>4
  <2> HIDE DEF e
  <2>3. Append(Tagged(i, q), e) \in Seq(Part)
    BY <2>1, AppendProperties
  <2>4. Counted(j, Append(Tagged(i, q), e)) = IF i = j THEN Total(q) + x ELSE 0
    <3>1. e.item = i /\ e.size = x
      BY DEF e
    <3> QED
      BY <2>1, <3>1, CountedAppends
  <2>5. Total(Append(q, x)) = Total(q) + x /\ Append(q, x) \in Lengths
    BY <2>1, TotalAppends DEF Lengths
  <2> QED
    BY <2>2, <2>3, <2>4, <2>5
<1> HIDE DEF T
<1>3. Seq(0 .. HalfWindow) \subseteq T
  BY <1>1, <1>2, Adding!GrowingSequences
<1> QED
  BY <1>3 DEF T, Lengths

AddText(texts, s, i) == AllJoined(s, Tagged(i, Parts(texts[i].lines)))
Splitting == INSTANCE DataInduction WITH Op <- AddText

LEMMA SplitIsFold == \A texts : Split(texts) = Splitting!Fold(texts, <<>>, [i \in DOMAIN texts |-> i])
  BY Zenon DEF Split, AddText, AllJoined, Tagged, Splitting!Fold, Splitting!Iter, FoldLeft, MapThenFoldSet, Max, Splitting!Max

(* split_documents() loses no part of any text, and no request is longer   *)
(* than the model's window.                                                *)
LEMMA SplitKeepsTexts ==
  ASSUME NEW X, NEW texts \in Seq(X), \A x \in X : x.lines \in Seq(Nat)
  PROVE  /\ Split(texts) \in Requests
         /\ \A j \in DOMAIN texts : Counted(j, Flat(Split(texts))) = Total(texts[j].lines)
<1> DEFINE n == Len(texts)  s == [i \in DOMAIN texts |-> i]
           T == [i \in 0 .. n |->
                   {q \in Requests : \A j \in 1 .. n :
                       Counted(j, Flat(q)) = IF j <= i THEN Total(texts[j].lines) ELSE 0}]
<1>1. n \in Nat /\ DOMAIN texts = 1 .. n /\ DOMAIN s = 1 .. n /\ \A i \in 1 .. n : s[i] = i
  OBVIOUS
<1>2. \A i \in 1 .. n : Parts(texts[i].lines) \in Lengths
                      /\ Total(Parts(texts[i].lines)) = Total(texts[i].lines)
                      /\ Total(texts[i].lines) \in Nat
  BY <1>1, PartsKeepText, TotalIsNumber
<1>3. <<>> \in T[0]
  <2>1. <<>> \in Requests /\ Flat(<<>>) = <<>>
    BY EmptySeq DEF Requests, Flat, FlattenSeq
  <2>2. \A j : Counted(j, <<>>) = 0
    BY Counting!FoldOfNone, CountedIsFold
  <2> QED
    BY <1>1, <2>1, <2>2
<1>4. ASSUME NEW i \in 1 .. n, NEW q \in T[i - 1] PROVE AddText(texts, q, s[i]) \in T[i]
  <2> DEFINE ps == Tagged(i, Parts(texts[i].lines))
  <2>1. q \in Requests /\ \A j \in 1 .. n : Counted(j, Flat(q)) = IF j <= i - 1 THEN Total(texts[j].lines) ELSE 0
    BY <1>1, <1>4
  <2>2. ps \in Seq(Part) /\ \A j \in 1 .. n : Counted(j, ps) = IF i = j THEN Total(texts[i].lines) ELSE 0
    <3> DEFINE parts == Parts(texts[i].lines)
    <3>1. i \in Nat /\ parts \in Lengths /\ Total(parts) = Total(texts[i].lines)
      BY <1>1, <1>2
    <3> HIDE DEF parts
    <3>2. Tagged(i, parts) \in Seq(Part)
          /\ \A j : Counted(j, Tagged(i, parts)) = IF i = j THEN Total(parts) ELSE 0
      BY <3>1, TaggedCounts
    <3> QED
      BY <3>1, <3>2 DEF parts
  <2>3. AddText(texts, q, s[i]) = AllJoined(q, ps)
    BY <1>1 DEF AddText
  <2> HIDE DEF ps
  <2>4. AllJoined(q, ps) \in Requests /\ Flat(AllJoined(q, ps)) = Flat(q) \o ps
    BY <2>1, <2>2, AllJoinedKeeps
  <2>5. Flat(q) \in Seq(Part)
    <3>1. q \in Seq(Seq(Part))
      BY <2>1 DEF Requests
    <3> QED
      BY <3>1, FlatGrows
  <2>6. ASSUME NEW j \in 1 .. n
        PROVE  Counted(j, Flat(AllJoined(q, ps))) = IF j <= i THEN Total(texts[j].lines) ELSE 0
    <3>1. Counted(j, Flat(q) \o ps) = Counted(j, Flat(q)) + Counted(j, ps)
      BY <2>2, <2>5, CountedOfBoth
    <3>2. Total(texts[j].lines) \in Nat /\ Total(texts[i].lines) \in Nat
      BY <1>2
    <3>3. Counted(j, Flat(q)) = IF j <= i - 1 THEN Total(texts[j].lines) ELSE 0
      BY <2>1
    <3>4. Counted(j, ps) = IF i = j THEN Total(texts[i].lines) ELSE 0
      BY <2>2
    <3>5. CASE j < i
      BY <1>1, <2>4, <3>1, <3>2, <3>3, <3>4, <3>5
    <3>6. CASE j = i
      BY <1>1, <2>4, <3>1, <3>2, <3>3, <3>4, <3>6
    <3>7. CASE j > i
      BY <1>1, <2>4, <3>1, <3>2, <3>3, <3>4, <3>7
    <3> QED
      BY <1>1, <3>5, <3>6, <3>7
  <2> DEFINE all == AllJoined(q, ps)
  <2>7. T[i] = {r \in Requests : \A j \in 1 .. n :
                  Counted(j, Flat(r)) = IF j <= i THEN Total(texts[j].lines) ELSE 0}
    BY <1>1
  <2>8. all \in Requests /\ \A j \in 1 .. n :
          Counted(j, Flat(all)) = IF j <= i THEN Total(texts[j].lines) ELSE 0
    BY <2>4, <2>6
  <2>9. AddText(texts, q, s[i]) = all
    BY <2>3
  <2> HIDE DEF all, T, s, n
  <2> QED
    BY <2>7, <2>8, <2>9
<1>5. T[n] = {q \in Requests : \A j \in 1 .. n :
                Counted(j, Flat(q)) = IF j <= n THEN Total(texts[j].lines) ELSE 0}
  BY <1>1
<1>6. Splitting!Fold(texts, <<>>, s) \in T[n]
  <2> HIDE DEF T, s, n
  <2> QED
    BY <1>1, <1>3, <1>4, Splitting!FoldKeeps
<1>7. Split(texts) \in T[n]
  BY <1>6, SplitIsFold
<1> QED
  BY <1>1, <1>5, <1>7
-----------------------------------------------------------------------------
(* A reference: from a provider that has a key and, when one was asked for, *)
(* from that one, or a source of the configuration or the relation.        *)
Refs(m, k) ==
  {r \in [url : WebPages, source : Providers \cup {"seed"}] :
      /\ r.source \in Providers => r.source \in k
      /\ m \in Providers => r.source \in {m, "seed"}}

(* A text is filed under its page's URL, or under none of a page.          *)
FiledTexts ==
  {x \in [url : WebPages \cup {NoUrl, Elsewhere}, page : WebPages, lines : Seq(Nat)] :
      x.url \in {x.page, NoUrl, Elsewhere}}

GoodEvidence == {e \in [url : WebPages \cup {NoUrl}, page : WebPages] : e.url # NoUrl => e.page = e.url}

EvidenceShapes ==
  /\ purpose \in {"collect", "verify"} /\ mode \in Providers \cup {"auto"} /\ keys \subseteq Providers
  /\ at \in {"search", "read", "ask", "end", "failed"}
  /\ refs \in Seq(Refs(mode, keys)) /\ items \in Seq(FiledTexts)
  /\ claims \subseteq [url : WebPages \cup {NoUrl}, quotes : Nat, firm : BOOLEAN]
  /\ verdicts \in [Claimants -> Decided \cup {Unverified, "open", "failed"}]

TriesCounted ==
  /\ tries \in Nat
  /\ at = "search" => tries = 0
  /\ at = "read" => tries <= FetchRetries
  /\ at = "read" /\ refs = <<>> => tries = 0
  /\ at = "ask" => tries < LlmRetries
  /\ tries <= FetchRetries \/ tries <= LlmRetries

PromptsAreTheTexts ==
  /\ purpose = "collect" /\ at \in {"ask", "end"} => prompts = Split(items)
  /\ replies.whole
  /\ purpose = "collect" /\ at = "end" => replies.count = Len(prompts)

KeptIsGood ==
  /\ keptRelations \subseteq GoodEvidence
  /\ confirmed \subseteq keptRelations /\ reported \subseteq keptRelations
  /\ purpose = "collect" /\ at # "end" => keptRelations = {}

EvidenceIInv == EvidenceShapes /\ TriesCounted /\ PromptsAreTheTexts /\ KeptIsGood

Take(c, seen, r) == IF \E k \in DOMAIN seen : seen[k].url = r.url THEN seen ELSE Append(seen, r)
Taking == INSTANCE DataInduction WITH Op <- Take

LEMMA DistinctKeeps ==
  ASSUME NEW R, NEW s \in Seq(R)
  PROVE  Distinct(s) \in Seq(R)
<1> DEFINE T == {q \in Seq(R) : Distinct(q) \in Seq(R)}
<1>1. \A q : Distinct(q) = Taking!Fold({}, <<>>, q)
  BY Zenon DEF Taking!Fold, Taking!Iter, Distinct, Take, FoldLeft, MapThenFoldSet, Max, Taking!Max
<1>2. <<>> \in T
  BY <1>1, Taking!FoldOfNone, EmptySeq
<1>3. ASSUME NEW q \in Seq(R), NEW x \in R, q \in T PROVE Append(q, x) \in T
  <2>1. Distinct(Append(q, x)) = Take({}, Distinct(q), x)
    <3>1. Taking!Fold({}, <<>>, Append(q, x)) = Take({}, Taking!Fold({}, <<>>, q), x)
      BY Taking!FoldAppends
    <3> QED
      BY <1>1, <3>1
  <2>2. Distinct(q) \in Seq(R) /\ Append(q, x) \in Seq(R)
    BY <1>3, AppendProperties
  <2>3. Take({}, Distinct(q), x) \in Seq(R)
    BY <2>2, AppendProperties DEF Take
  <2> QED
    BY <2>1, <2>2, <2>3
<1> HIDE DEF T
<1>4. Seq(R) \subseteq T
  BY <1>2, <1>3, Adding!GrowingSequences
<1> QED
  BY <1>4 DEF T

LEMMA FirstOnesKeeps ==
  ASSUME NEW R, NEW s \in Seq(R), NEW n \in Nat
  PROVE  FirstOnes(s, n) \in Seq(R)
<1>1. Min({n, Len(s)}) \in 0 .. Len(s)
  <2>1. \E x \in {n, Len(s)} : \A y \in {n, Len(s)} : x <= y
    OBVIOUS
  <2>2. Min({n, Len(s)}) \in {n, Len(s)} /\ \A y \in {n, Len(s)} : Min({n, Len(s)}) <= y
    BY <2>1 DEF Min
  <2> QED
    BY <2>2
<1> DEFINE m == Min({n, Len(s)})
<1>2. m \in Int /\ \A i \in 1 .. m : s[i] \in R
  <2> DEFINE len == Len(s)
  <2>1. len \in Nat /\ m \in 0 .. len /\ \A i \in 1 .. len : s[i] \in R
    BY <1>1
  <2> HIDE DEF m, len
  <2>2. m \in Int /\ \A i \in 1 .. m : i \in 1 .. len
    BY <2>1
  <2> QED
    BY <2>1, <2>2
<1> HIDE DEF m
<1>3. SubSeq(s, 1, m) \in Seq(R)
  BY <1>2, SubSeqProperties
<1> QED
  BY <1>3 DEF FirstOnes, m

LEMMA ListedKeeps ==
  ASSUME NEW R, NEW source, NEW urls \in SUBSET WebPages,
         \A u \in WebPages : [url |-> u, source |-> source] \in R
  PROVE  Listed(urls, source) \in Seq(R)
<1> DEFINE n == Cardinality(urls)
<1>1. IsFiniteSet(urls)
  BY EvidenceAssumption, FS_Subset
<1>2. n \in Nat /\ ExistsBijection(1 .. n, urls)
  BY <1>1, FS_CardinalityType
<1> HIDE DEF n
<1>3. \E f \in [1 .. n -> urls] : IsInjective(f)
  BY <1>2 DEF ExistsBijection, Bijection, Injection, IsInjective
<1>4. SetToSeq(urls) \in [1 .. n -> urls]
  BY <1>3 DEF SetToSeq, n
<1> QED
  BY <1>2, <1>4 DEF Listed

LEMMA AnsweredRefs ==
  ASSUME EvidenceShapes, NEW p \in Providers, AnsweredBy(p), NEW u \in WebPages
  PROVE  [url |-> u, source |-> p] \in Refs(mode, keys)
<1>1. p \in keys
  BY DEF AnsweredBy, RepliesOf, BraveReplies, BaiduReplies, Providers
<1>2. mode \in Providers => p = mode
  BY DEF AnsweredBy, FirstProvider, Providers
<1> QED
  BY <1>1, <1>2 DEF Refs

LEMMA SeedRefs ==
  \A u \in WebPages : [url |-> u, source |-> "seed"] \in Refs(mode, keys)
  BY DEF Refs, Providers

LEMMA ToReadKeeps ==
  ASSUME EvidenceShapes, NEW found \in Seq(Refs(mode, keys))
  PROVE  ToRead(found) \in Seq(Refs(mode, keys))
<1>1. Listed(SeedUrls, "seed") \in Seq(Refs(mode, keys))
  BY SeedRefs, ListedKeeps, EvidenceAssumption
<1>2. Listed(SeedUrls, "seed") \o found \in Seq(Refs(mode, keys))
  BY <1>1, ConcatProperties
<1>3. MaxResults \in Nat /\ FetchLimit \in Nat
  BY EvidenceAssumption
<1>4. FirstOnes(Distinct(Listed(SeedUrls, "seed") \o found), MaxResults) \in Seq(Refs(mode, keys))
  BY <1>2, <1>3, DistinctKeeps, FirstOnesKeeps
<1>5. FirstOnes(Distinct(found), FetchLimit) \in Seq(Refs(mode, keys))
  BY <1>3, DistinctKeeps, FirstOnesKeeps
<1> QED
  BY <1>4, <1>5 DEF ToRead

LEMMA FiledKeeps ==
  ASSUME NEW url \in WebPages, NEW body \in Bodies, NEW shape \in {"plain", "address", "heading"}
  PROVE  Filed(url, body, shape) \in Seq(FiledTexts)
<1>1. body \in Seq(Nat) /\ body # <<>>
  BY EvidenceAssumption
<1>2. Head(body) \in Nat /\ Tail(body) \in Seq(Nat) /\ <<Head(body)>> \in Seq(Nat)
  BY <1>1, HeadTailProperties
<1> DEFINE text(u, s) == IF s = <<>> THEN <<>> ELSE <<[url |-> u, page |-> url, lines |-> s]>>
<1>3. ASSUME NEW u \in {url, NoUrl, Elsewhere}, NEW s \in Seq(Nat) PROVE text(u, s) \in Seq(FiledTexts)
  <2>1. [url |-> u, page |-> url, lines |-> s] \in FiledTexts
    BY DEF FiledTexts
  <2> QED
    BY <2>1, EmptySeq
<1>4. text(url, <<Head(body)>>) \o text(NoUrl, Tail(body)) \in Seq(FiledTexts)
  <2>1. text(url, <<Head(body)>>) \in Seq(FiledTexts)
    BY <1>2, <1>3
  <2>2. text(NoUrl, Tail(body)) \in Seq(FiledTexts)
    BY <1>2, <1>3
  <2> HIDE DEF text
  <2> QED
    BY <2>1, <2>2, ConcatProperties
<1>5. Parsed(url, body, shape) \in Seq(FiledTexts)
  <2>1. Parsed(url, body, shape) =
          CASE shape = "plain" -> text(url, body)
            [] shape = "address" -> text(Elsewhere, body)
            [] shape = "heading" -> text(url, <<Head(body)>>) \o text(NoUrl, Tail(body))
    BY DEF Parsed
  <2> HIDE DEF text
  <2>2. CASE shape = "plain"
    BY <1>1, <1>3, <2>1, <2>2
  <2>3. CASE shape = "address"
    BY <1>1, <1>3, <2>1, <2>3
  <2>4. CASE shape = "heading"
    BY <1>4, <2>1, <2>4
  <2> QED
    BY <2>2, <2>3, <2>4
<1>6. <<[url |-> url, page |-> url, lines |-> body]>> \in Seq(FiledTexts)
  BY <1>1 DEF FiledTexts
<1> QED
  BY <1>5, <1>6 DEF Filed

LEMMA GroundedIsGood ==
  ASSUME EvidenceShapes, NEW c \in claims, Grounded(c)
  PROVE  Evidence(c) \in GoodEvidence
<1> DEFINE filed == {i \in DOMAIN items : items[i].url = c.url}
<1>1. Len(items) \in Nat /\ DOMAIN items = 1 .. Len(items) /\ filed # {} /\ c.quotes = Max(filed)
  BY DEF EvidenceShapes, Grounded
<1>2. Max(filed) \in filed
  <2>1. filed \in SUBSET (1 .. Len(items))
    BY <1>1
  <2> HIDE DEF filed
  <2> QED
    BY <1>1, <2>1, Adding!MaxOfRange DEF Max, Adding!Max
<1>3. items[c.quotes] \in FiledTexts /\ items[c.quotes].url = c.url
  BY <1>1, <1>2 DEF EvidenceShapes
<1>4. c.url \in WebPages \cup {NoUrl}
  BY DEF EvidenceShapes
<1>5. Elsewhere \notin WebPages /\ NoUrl \notin WebPages
  BY EvidenceAssumption
<1> QED
  BY <1>3, <1>4, <1>5 DEF Evidence, GoodEvidence, FiledTexts
-----------------------------------------------------------------------------
LEMMA EvidenceStarts == EvidenceInit => EvidenceIInv
<1> SUFFICES ASSUME EvidenceInit PROVE EvidenceIInv
  OBVIOUS
<1>0. FetchRetries \in Nat
  BY EvidenceAssumption
<1>1. EvidenceShapes
  BY EmptySeq DEF EvidenceInit, EvidenceShapes, Providers, Unverified
<1>2. TriesCounted
  BY <1>0 DEF EvidenceInit, TriesCounted
<1>3. PromptsAreTheTexts
  BY DEF EvidenceInit, PromptsAreTheTexts, NoReplies
<1>4. KeptIsGood
  BY DEF EvidenceInit, KeptIsGood
<1> QED
  BY <1>1, <1>2, <1>3, <1>4 DEF EvidenceIInv

LEMMA TargetEndKeeps ==
  ASSUME EvidenceIInv, purpose = "verify", NEW outcome \in Decided \cup {"open", "failed"},
         TargetEnds(outcome), keptRelations' \subseteq GoodEvidence, keptRelations \subseteq keptRelations'
  PROVE  EvidenceIInv'
<1> USE DEF EvidenceIInv, TargetEnds
<1>0. FetchRetries \in Nat
  BY EvidenceAssumption
<1>1. EvidenceShapes'
  <2>1. verdicts' \in [Claimants -> Decided \cup {Unverified, "open", "failed"}]
    BY DEF EvidenceShapes
  <2>2. refs' \in Seq(Refs(mode, keys)') /\ items' \in Seq(FiledTexts)
    BY EmptySeq
  <2>3. at' \in {"search", "end"} /\ claims' = {}
    OBVIOUS
  <2> QED
    BY <2>1, <2>2, <2>3 DEF EvidenceShapes
<1>2. TriesCounted'
  BY <1>0 DEF TriesCounted
<1>3. PromptsAreTheTexts'
  BY DEF PromptsAreTheTexts, NoReplies
<1>4. KeptIsGood'
  BY DEF KeptIsGood
<1> QED
  BY <1>1, <1>2, <1>3, <1>4

LEMMA FailsKeeps ==
  ASSUME EvidenceIInv, Fails, at # "end"
  PROVE  EvidenceIInv'
<1>1. CASE purpose = "verify" /\ TargetEnds("failed")
  BY <1>1, TargetEndKeeps DEF Fails, EvidenceIInv, KeptIsGood
<1>2. CASE /\ purpose = "collect" /\ at' = "failed"
           /\ UNCHANGED <<purpose, mode, keys, asked, refs, tries, items, prompts,
                          replies, claims, confirmed, reported, verdicts>>
  <2> USE <1>2 DEF Fails, EvidenceIInv
  <2>1. EvidenceShapes'
    BY DEF EvidenceShapes, Refs
  <2>2. TriesCounted'
    BY DEF TriesCounted
  <2>3. PromptsAreTheTexts'
    BY DEF PromptsAreTheTexts
  <2>4. KeptIsGood'
    BY DEF KeptIsGood
  <2> QED
    BY <2>1, <2>2, <2>3, <2>4
<1> QED
  BY <1>1, <1>2 DEF Fails

LEMMA QueryKeeps == EvidenceIInv /\ Query => EvidenceIInv'
<1> SUFFICES ASSUME EvidenceIInv, Query PROVE EvidenceIInv'
  OBVIOUS
<1>1. CASE Fails
  BY <1>1, FailsKeeps DEF Query
<1>2. ASSUME NEW p \in Providers, NEW urls \in SUBSET WebPages, NEW sources \in SUBSET WebPages,
             LET last == IF purpose = "collect" THEN asked + 1 = Queries ELSE TRUE
                 before == IF purpose = "collect" THEN refs ELSE Listed(sources, "seed")
                 all == before \o Listed(urls, p)
             IN  /\ AnsweredBy(p)
                 /\ purpose = "collect" => sources = {}
                 /\ asked' = asked + 1
                 /\ refs' = IF last THEN ToRead(all) ELSE all
                 /\ at' = IF last THEN "read" ELSE "search",
             UNCHANGED <<purpose, mode, keys, tries, items, prompts, replies, claims,
                         keptRelations, confirmed, reported, verdicts>>
      PROVE  EvidenceIInv'
  <2> DEFINE before == IF purpose = "collect" THEN refs ELSE Listed(sources, "seed")
             all == before \o Listed(urls, p)
  <2>0. EvidenceShapes /\ TriesCounted /\ PromptsAreTheTexts /\ KeptIsGood /\ at = "search"
    BY DEF EvidenceIInv, Query
  <2>1. Listed(urls, p) \in Seq(Refs(mode, keys))
    <3>1. \A u \in WebPages : [url |-> u, source |-> p] \in Refs(mode, keys)
      BY <1>2, <2>0, AnsweredRefs
    <3> QED
      BY <3>1, ListedKeeps
  <2>2. before \in Seq(Refs(mode, keys))
    <3>1. Listed(sources, "seed") \in Seq(Refs(mode, keys))
      BY SeedRefs, ListedKeeps
    <3> QED
      BY <2>0, <3>1 DEF EvidenceShapes
  <2> HIDE DEF before
  <2>3. all \in Seq(Refs(mode, keys))
    BY <2>1, <2>2, ConcatProperties
  <2> HIDE DEF all
  <2>4. ToRead(all) \in Seq(Refs(mode, keys))
    BY <2>0, <2>3, ToReadKeeps
  <2>5. refs' \in Seq(Refs(mode, keys)) /\ at' \in {"read", "search"}
    BY <1>2, <2>3, <2>4 DEF all, before
  <2>6. EvidenceShapes'
    BY <1>2, <2>0, <2>5 DEF EvidenceShapes, Refs
  <2>7. TriesCounted'
    <3>1. FetchRetries \in Nat
      BY EvidenceAssumption
    <3> QED
      BY <1>2, <2>0, <2>5, <3>1 DEF TriesCounted
  <2>8. PromptsAreTheTexts'
    BY <1>2, <2>0, <2>5 DEF PromptsAreTheTexts
  <2>9. KeptIsGood'
    BY <1>2, <2>0, <2>5 DEF KeptIsGood
  <2> QED
    BY <2>6, <2>7, <2>8, <2>9 DEF EvidenceIInv
<1> QED
  BY <1>1, <1>2 DEF Query

LEMMA PageKeeps ==
  ASSUME EvidenceIInv, at = "read", refs # <<>>,
         PageRead \/ PageFailed \/ (tries < FetchRetries /\ tries' = tries + 1 /\ UNCHANGED <<refs, items>>),
         UNCHANGED <<purpose, mode, keys, at, asked, prompts, replies, claims, keptRelations,
                     confirmed, reported, verdicts>>
  PROVE  EvidenceIInv'
<1>0. EvidenceShapes /\ TriesCounted /\ PromptsAreTheTexts /\ KeptIsGood /\ FetchRetries \in Nat
  BY EvidenceAssumption DEF EvidenceIInv
<1>1. Head(refs) \in Refs(mode, keys) /\ Tail(refs) \in Seq(Refs(mode, keys))
  BY <1>0, HeadTailProperties DEF EvidenceShapes
<1>2. refs' \in Seq(Refs(mode, keys)) /\ items' \in Seq(FiledTexts)
  <2>1. CASE PageRead
    <3>1. PICK body \in Bodies, shape \in {"plain", "address", "heading"} :
            items' = items \o Filed(Head(refs).url, body, shape)
      BY <2>1 DEF PageRead
    <3>2. Head(refs).url \in WebPages
      BY <1>1 DEF Refs
    <3>3. Filed(Head(refs).url, body, shape) \in Seq(FiledTexts)
      BY <3>2, FiledKeeps
    <3>4. items' \in Seq(FiledTexts)
      BY <1>0, <3>1, <3>3, ConcatProperties DEF EvidenceShapes
    <3> QED
      BY <1>1, <2>1, <3>4 DEF PageRead
  <2>2. CASE PageFailed
    BY <1>0, <1>1, <2>2 DEF PageFailed, EvidenceShapes
  <2>3. CASE UNCHANGED <<refs, items>>
    BY <1>0, <2>3 DEF EvidenceShapes
  <2> QED
    BY <2>1, <2>2, <2>3
<1>3. tries' = 0 \/ (tries < FetchRetries /\ tries' = tries + 1 /\ refs' = refs)
  BY DEF PageRead, PageFailed
<1>4. EvidenceShapes'
  BY <1>0, <1>2 DEF EvidenceShapes, Refs
<1>5. TriesCounted'
  BY <1>0, <1>3 DEF TriesCounted
<1>6. PromptsAreTheTexts'
  BY <1>0 DEF PromptsAreTheTexts
<1>7. KeptIsGood'
  BY <1>0 DEF KeptIsGood
<1> QED
  BY <1>4, <1>5, <1>6, <1>7 DEF EvidenceIInv

LEMMA PrepareKeeps == EvidenceIInv /\ Prepare => EvidenceIInv'
<1> SUFFICES ASSUME EvidenceIInv, Prepare PROVE EvidenceIInv'
  OBVIOUS
<1>1. CASE Fails
  BY <1>1, FailsKeeps DEF Prepare
<1>2. CASE ~Fails
  <2>0. EvidenceShapes /\ TriesCounted /\ PromptsAreTheTexts /\ KeptIsGood /\ LlmRetries \in Nat \ {0}
    BY EvidenceAssumption DEF EvidenceIInv
  <2>1. /\ at = "read" /\ refs = <<>> /\ at' = "ask"
        /\ purpose = "collect" => prompts' = Split(items)
        /\ UNCHANGED <<purpose, mode, keys, asked, refs, tries, items, replies, claims,
                       keptRelations, confirmed, reported, verdicts>>
    BY <1>2 DEF Prepare
  <2>2. EvidenceShapes'
    BY <2>0, <2>1 DEF EvidenceShapes, Refs
  <2>3. TriesCounted'
    BY <2>0, <2>1 DEF TriesCounted
  <2>4. PromptsAreTheTexts'
    BY <2>0, <2>1 DEF PromptsAreTheTexts
  <2>5. KeptIsGood'
    BY <2>0, <2>1 DEF KeptIsGood
  <2> QED
    BY <2>2, <2>3, <2>4, <2>5 DEF EvidenceIInv
<1> QED
  BY <1>1, <1>2

LEMMA AskModelKeeps == EvidenceIInv /\ AskModel => EvidenceIInv'
<1> SUFFICES ASSUME EvidenceIInv, AskModel PROVE EvidenceIInv'
  OBVIOUS
<1>0. EvidenceShapes /\ TriesCounted /\ PromptsAreTheTexts /\ KeptIsGood /\ LlmRetries \in Nat \ {0}
      /\ at = "ask"
  BY EvidenceAssumption DEF EvidenceIInv, AskModel
<1>1. CASE Fails
  BY <1>0, <1>1, FailsKeeps
<1>2. ASSUME NEW kind \in {"whole", "cut", "error"}, Accepts(kind),
             UNCHANGED claims \/ \E c \in Claims : claims' = claims \cup {c},
             replies' = [count |-> replies.count + 1, whole |-> replies.whole /\ kind = "whole"],
             tries' = 0,
             UNCHANGED <<purpose, mode, keys, at, asked, refs, items, prompts, keptRelations,
                         confirmed, reported, verdicts>>
      PROVE  EvidenceIInv'
  <2>1. Claims \subseteq [url : WebPages \cup {NoUrl}, quotes : Nat, firm : BOOLEAN]
    <3>1. Len(items) \in Nat
      BY <1>0 DEF EvidenceShapes
    <3> QED
      BY <3>1 DEF Claims
  <2>2. EvidenceShapes'
    BY <1>0, <1>2, <2>1 DEF EvidenceShapes, Refs
  <2>3. TriesCounted'
    BY <1>0, <1>2 DEF TriesCounted
  <2>4. PromptsAreTheTexts'
    BY <1>0, <1>2 DEF PromptsAreTheTexts, Accepts
  <2>5. KeptIsGood'
    BY <1>0, <1>2 DEF KeptIsGood
  <2> QED
    BY <2>2, <2>3, <2>4, <2>5 DEF EvidenceIInv
<1>3. CASE /\ tries + 1 < LlmRetries /\ tries' = tries + 1
           /\ UNCHANGED <<purpose, mode, keys, at, asked, refs, items, prompts,
                          replies, claims, keptRelations, confirmed, reported, verdicts>>
  <2>2. EvidenceShapes'
    BY <1>0, <1>3 DEF EvidenceShapes, Refs
  <2>3. TriesCounted'
    BY <1>0, <1>3 DEF TriesCounted
  <2>4. PromptsAreTheTexts'
    BY <1>0, <1>3 DEF PromptsAreTheTexts
  <2>5. KeptIsGood'
    BY <1>0, <1>3 DEF KeptIsGood
  <2> QED
    BY <2>2, <2>3, <2>4, <2>5 DEF EvidenceIInv
<1> QED
  BY <1>1, <1>2, <1>3 DEF AskModel

LEMMA PersistKeeps == EvidenceIInv /\ Persist => EvidenceIInv'
<1> SUFFICES ASSUME EvidenceIInv, Persist PROVE EvidenceIInv'
  OBVIOUS
<1>0. EvidenceShapes /\ TriesCounted /\ PromptsAreTheTexts /\ KeptIsGood
  BY DEF EvidenceIInv
<1>1. keptRelations' \subseteq GoodEvidence /\ confirmed' \subseteq keptRelations'
  BY <1>0, GroundedIsGood DEF Persist
<1>2. reported' \subseteq keptRelations'
  <2>1. reported = {}
    BY <1>0 DEF KeptIsGood, Persist
  <2> QED
    BY <2>1 DEF Persist, Report
<1>3. EvidenceShapes'
  BY <1>0 DEF Persist, EvidenceShapes, Refs
<1>4. TriesCounted'
  BY <1>0 DEF Persist, TriesCounted
<1>5. PromptsAreTheTexts'
  BY <1>0 DEF Persist, PromptsAreTheTexts
<1>6. KeptIsGood'
  BY <1>1, <1>2 DEF Persist, KeptIsGood
<1> QED
  BY <1>3, <1>4, <1>5, <1>6 DEF EvidenceIInv

LEMMA JudgeTargetKeeps == EvidenceIInv /\ JudgeTarget => EvidenceIInv'
<1> SUFFICES ASSUME EvidenceIInv, JudgeTarget PROVE EvidenceIInv'
  OBVIOUS
<1>0. EvidenceShapes /\ KeptIsGood /\ purpose = "verify" /\ at = "ask"
  BY DEF EvidenceIInv, JudgeTarget
<1>1. CASE Fails
  BY <1>0, <1>1, FailsKeeps
<1>2. ASSUME NEW c \in claims, NEW verdict \in Decided, Grounded(c),
             keptRelations' = keptRelations \cup {Evidence(c)}, TargetEnds(verdict)
      PROVE  EvidenceIInv'
  <2>1. keptRelations' \subseteq GoodEvidence /\ keptRelations \subseteq keptRelations'
    BY <1>0, <1>2, GroundedIsGood DEF KeptIsGood
  <2> QED
    BY <1>0, <1>2, <2>1, TargetEndKeeps
<1>3. CASE UNCHANGED keptRelations /\ TargetEnds("open")
  <2>1. keptRelations' \subseteq GoodEvidence /\ keptRelations \subseteq keptRelations'
    BY <1>0, <1>3 DEF KeptIsGood
  <2> QED
    BY <1>0, <1>3, <2>1, TargetEndKeeps
<1> QED
  BY <1>1, <1>2, <1>3 DEF JudgeTarget

THEOREM EvidenceInductive == EvidenceSpec => []EvidenceIInv
<1>1. EvidenceInit => EvidenceIInv
  BY EvidenceStarts
<1>2. EvidenceIInv /\ [EvidenceNext]_evidenceVars => EvidenceIInv'
  <2> SUFFICES ASSUME EvidenceIInv, [EvidenceNext]_evidenceVars PROVE EvidenceIInv'
    OBVIOUS
  <2>1. CASE Query
    BY <2>1, QueryKeeps
  <2>2. CASE OpenPage
    BY <2>2, PageKeeps DEF OpenPage
  <2>3. CASE BrowsePage
    BY <2>3, PageKeeps DEF BrowsePage
  <2>4. CASE Prepare
    BY <2>4, PrepareKeeps
  <2>5. CASE AskModel
    BY <2>5, AskModelKeeps
  <2>6. CASE Persist
    BY <2>6, PersistKeeps
  <2>7. CASE JudgeTarget
    BY <2>7, JudgeTargetKeeps
  <2>8. CASE UNCHANGED evidenceVars
    <3> USE <2>8 DEF evidenceVars, EvidenceIInv
    <3>1. EvidenceShapes'
      BY DEF EvidenceShapes, Refs
    <3>2. TriesCounted'
      BY DEF TriesCounted
    <3>3. PromptsAreTheTexts'
      BY DEF PromptsAreTheTexts
    <3>4. KeptIsGood'
      BY DEF KeptIsGood
    <3> QED
      BY <3>1, <3>2, <3>3, <3>4
  <2> QED
    BY <2>1, <2>2, <2>3, <2>4, <2>5, <2>6, <2>7, <2>8 DEF EvidenceNext
<1> QED
  BY <1>1, <1>2, PTL DEF EvidenceSpec

LEMMA EvidenceFollows == EvidenceIInv => EvidenceIsHonest
<1> SUFFICES ASSUME EvidenceIInv PROVE EvidenceIsHonest
  OBVIOUS
<1>0. EvidenceShapes /\ TriesCounted /\ PromptsAreTheTexts /\ KeptIsGood
  BY DEF EvidenceIInv
<1>1. EvidenceTypeOK
  <2>1. tries \in 0 .. Max({FetchRetries, LlmRetries})
    <3>1. FetchRetries \in Nat /\ LlmRetries \in Nat
      BY EvidenceAssumption
    <3>2. \E x \in {FetchRetries, LlmRetries} : \A y \in {FetchRetries, LlmRetries} : x >= y
      BY <3>1
    <3>3. /\ Max({FetchRetries, LlmRetries}) \in {FetchRetries, LlmRetries}
          /\ \A y \in {FetchRetries, LlmRetries} : Max({FetchRetries, LlmRetries}) >= y
      BY <3>2 DEF Max
    <3> QED
      BY <1>0, <3>1, <3>3 DEF TriesCounted
  <2>2. keptRelations \subseteq [url : WebPages \cup {NoUrl}, page : WebPages]
    BY <1>0 DEF KeptIsGood, GoodEvidence
  <2> QED
    BY <1>0, <2>1, <2>2 DEF EvidenceTypeOK, EvidenceShapes, KeptIsGood
<1>2. EveryPartIsAnswered
  <2> SUFFICES ASSUME at = "end", purpose = "collect"
               PROVE  /\ replies.count = Len(prompts) /\ replies.whole
                      /\ \A i \in DOMAIN prompts : Weight(prompts[i]) <= 2 * HalfWindow
                      /\ \A i \in DOMAIN items : Total(items[i].lines) = Counted(i, FlattenSeq(prompts))
    BY Zenon DEF EveryPartIsAnswered, Total, Counted
  <2>1. prompts = Split(items) /\ replies.whole /\ replies.count = Len(prompts)
    BY <1>0 DEF PromptsAreTheTexts
  <2>2. items \in Seq(FiledTexts) /\ \A x \in FiledTexts : x.lines \in Seq(Nat)
    BY <1>0 DEF EvidenceShapes, FiledTexts
  <2>3. prompts \in Requests /\ \A j \in DOMAIN items : Counted(j, Flat(prompts)) = Total(items[j].lines)
    BY <2>1, <2>2, SplitKeepsTexts
  <2>4. \A i \in DOMAIN prompts : Weight(prompts[i]) <= 2 * HalfWindow
    BY <2>3 DEF Requests
  <2> QED
    BY <2>1, <2>3, <2>4 DEF Flat
<1>3. QuoteIsFromItsPage
  BY <1>0 DEF QuoteIsFromItsPage, KeptIsGood, GoodEvidence
<1>4. ProviderIsHonoured
  <2> SUFFICES ASSUME NEW i \in DOMAIN refs
               PROVE  /\ refs[i].source \in Providers => refs[i].source \in keys
                      /\ mode \in Providers => refs[i].source \in {mode, "seed"}
    BY DEF ProviderIsHonoured
  <2>1. refs[i] \in Refs(mode, keys)
    BY <1>0 DEF EvidenceShapes
  <2> QED
    BY <2>1 DEF Refs
<1> QED
  BY <1>1, <1>2, <1>3, <1>4 DEF EvidenceIsHonest

THEOREM EvidenceHonest == EvidenceSpec => []EvidenceIsHonest
  BY EvidenceInductive, EvidenceFollows, PTL

-----------------------------------------------------------------------------
(* The request budget the processes of a batch share. *)

Largest == Max(Estimates \cup Actuals)

(* What the requests in flight may still add to the schedule: one pair for *)
(* each token by which a request may exceed its reservation.               *)
Excess == {x \in Clients \X (1 .. Largest) : reserved[x[1]] # 0 /\ x[2] > reserved[x[1]]}

PacerShapes ==
    /\ PacerTypeOK
    /\ nextAt \in Int /\ cooldownUntil \in Int /\ spent \in Int /\ limits \in Nat

(* Until the provider refuses a request the schedule pays for what was     *)
(* spent, and runs ahead of the clock by what the requests in flight leave *)
(* of one request for each client.                                         *)
Paid == spent * 60000 <= Limit * nextAt
Ahead ==
    Limit * nextAt + 60000 * Cardinality(Excess) <=
        Limit * second + 60000 * (Cardinality(Clients) * Largest)

PacerIInv == PacerShapes /\ (limits = 0 => budget = Limit /\ Paid /\ Ahead)

LEMMA LargestIsLargest ==
  /\ Largest \in Nat /\ Estimates \cup Actuals \subseteq 0 .. Largest
  /\ Estimates \subseteq 1 .. Largest
<1> DEFINE T == Estimates \cup Actuals
<1>1. T \subseteq Nat /\ 0 \notin Estimates /\ \E m \in T : \A t \in T : m >= t
  BY PacerAssumption
<1>2. Largest \in T /\ \A t \in T : Largest >= t
  BY <1>1 DEF Largest, Max
<1>3. \A t \in T : t \in 0 .. Largest
  BY <1>1, <1>2
<1>4. \A t \in Estimates : t \in T /\ t # 0
  BY <1>1
<1> QED
  BY <1>1, <1>2, <1>3, <1>4

LEMMA PacerNumbers ==
  /\ Lowest \in Nat /\ Lowest > 0 /\ Limit \in Nat /\ Limit >= Lowest
  /\ TimeStep \in Nat /\ LastSecond \in Nat /\ Cooldown \in Nat
  /\ IsFiniteSet(Clients)
BY PacerAssumption

(* Seconds are never negative, and exact at the configured budget.         *)
LEMMA SecondsOf ==
  ASSUME NEW t \in Nat, budget \in Lowest .. Limit
  PROVE  /\ Seconds(t) \in Nat
         /\ (t * 60000) % Limit = 0 /\ budget = Limit => Limit * Seconds(t) = 60000 * t
<1>1. budget \in Nat \ {0}
  BY PacerNumbers
<1> DEFINE m == t * 60000
<1>2. m \in Nat /\ m = 60000 * t
  OBVIOUS
<1> HIDE DEF m
<1>3. m \div budget \in Nat /\ m = budget * (m \div budget) + (m % budget)
  BY <1>1, <1>2, Adding!Division
<1>4. Seconds(t) = m \div budget
  BY DEF Seconds, m
<1>5. ASSUME m % Limit = 0, budget = Limit PROVE Limit * Seconds(t) = 60000 * t
  <2>1. Limit * Seconds(t) \in Int /\ m = Limit * Seconds(t) + 0
    <3>1. Limit \in Int /\ Seconds(t) \in Int
      BY <1>3, <1>4, PacerNumbers
    <3> QED
      BY <1>3, <1>4, <1>5, <3>1
  <2> QED
    BY <1>2, <2>1
<1> QED
  BY <1>3, <1>4, <1>5 DEF m

LEMMA Times ==
  ASSUME NEW x \in Int, NEW y \in Int
  PROVE  /\ Limit * x \in Int
         /\ Limit * (x + y) = Limit * x + Limit * y
         /\ Limit * (x - y) = Limit * x - Limit * y
         /\ x <= y => Limit * x <= Limit * y
<1> DEFINE n == Limit
<1>1. n \in Nat
  BY PacerNumbers
<1> HIDE DEF n
<1>2. n * x \in Int /\ n * (x + y) = n * x + n * y /\ n * (x - y) = n * x - n * y
  BY <1>1
<1>3. x <= y => n * x <= n * y
  BY <1>1
<1> QED
  BY <1>2, <1>3 DEF n

-----------------------------------------------------------------------------
LEMMA DisjointFits ==
  ASSUME NEW S, IsFiniteSet(S), NEW A \in SUBSET S, NEW B \in SUBSET S, A \cap B = {}
  PROVE  /\ Cardinality(A) \in Nat /\ Cardinality(B) \in Nat
         /\ Cardinality(A) + Cardinality(B) <= Cardinality(S)
<1>1. IsFiniteSet(A) /\ IsFiniteSet(B) /\ A \cup B \in SUBSET S
  BY FS_Subset
<1>2. Cardinality(A \cup B) = Cardinality(A) + Cardinality(B) - Cardinality(A \cap B)
  BY <1>1, FS_Union
<1>3. Cardinality(A \cap B) = 0
  BY FS_EmptySet
<1>4. Cardinality(A \cup B) <= Cardinality(S)
  BY <1>1, FS_Subset
<1>5. Cardinality(A) \in Nat /\ Cardinality(B) \in Nat
  BY <1>1, FS_CardinalityType
<1> QED
  BY <1>2, <1>3, <1>4, <1>5

Tokens(c, p, q) == {c} \X (p .. q)

LEMMA TokensCount ==
  ASSUME NEW c, NEW p \in Nat, NEW q \in Nat, p <= q
  PROVE  IsFiniteSet(Tokens(c, p + 1, q)) /\ Cardinality(Tokens(c, p + 1, q)) = q - p
<1>1. IsFiniteSet({c}) /\ Cardinality({c}) = 1
  BY FS_Singleton
<1>2. p + 1 \in Int /\ q \in Int
  OBVIOUS
<1>3. IsFiniteSet((p + 1) .. q)
  BY <1>2, FS_Interval
<1>4. Cardinality((p + 1) .. q) = IF p + 1 > q THEN 0 ELSE q - (p + 1) + 1
  BY <1>2, FS_Interval
<1>5. Cardinality((p + 1) .. q) = q - p
  BY <1>4
<1> DEFINE I == (p + 1) .. q
<1> HIDE DEF I
<1>6. IsFiniteSet({c} \X I) /\ Cardinality({c} \X I) = Cardinality({c}) * Cardinality(I)
  BY <1>1, <1>3, FS_Product DEF I
<1> QED
  BY <1>1, <1>5, <1>6 DEF Tokens, I

Room == Clients \X (1 .. Largest)

LEMMA RoomCount ==
  IsFiniteSet(Room) /\ Cardinality(Room) = Cardinality(Clients) * Largest
  /\ Cardinality(Clients) \in Nat
<1>1. IsFiniteSet(Clients) /\ Largest \in Nat /\ 1 \in Int /\ Largest \in Int
  BY PacerNumbers, LargestIsLargest
<1>2. IsFiniteSet(1 .. Largest)
  BY <1>1, FS_Interval
<1>3. Cardinality(1 .. Largest) = IF 1 > Largest THEN 0 ELSE Largest - 1 + 1
  BY <1>1, FS_Interval
<1>4. Cardinality(1 .. Largest) = Largest
  BY <1>1, <1>3
<1> DEFINE I == 1 .. Largest
<1> HIDE DEF I
<1>5. IsFiniteSet(Clients \X I) /\ Cardinality(Clients \X I) = Cardinality(Clients) * Cardinality(I)
  BY <1>1, <1>2, FS_Product DEF I
<1> QED
  BY <1>1, <1>4, <1>5, FS_CardinalityType DEF Room, I

(* A new reservation leaves what it does not reserve itself.               *)
LEMMA ExcessOfNew ==
  ASSUME NEW c \in Clients, NEW t \in Estimates, reserved \in [Clients -> Estimates \cup {0}],
         reserved' = [reserved EXCEPT ![c] = t]
  PROVE  Cardinality(Excess') \in Nat
         /\ Cardinality(Excess') + t <= Cardinality(Clients) * Largest
<1>1. Estimates \subseteq 1 .. Largest /\ Largest \in Nat /\ t \in Nat
  BY LargestIsLargest
<1> DEFINE A == Excess'  B == Tokens(c, 1, t)
<1>2. A = {x \in Room : reserved'[x[1]] # 0 /\ x[2] > reserved'[x[1]]}
  BY DEF Excess, Room, Largest
<1>3. A \in SUBSET Room
  BY <1>2
<1>4. B \in SUBSET Room
  <2>1. 1 .. t \subseteq 1 .. Largest
    BY <1>1
  <2> QED
    BY <2>1 DEF Tokens, Room
<1>5. A \cap B = {}
  <2> SUFFICES ASSUME NEW x \in A, x \in B PROVE FALSE
    OBVIOUS
  <2>1. x[1] = c /\ x[2] \in 1 .. t
    BY DEF Tokens
  <2>2. reserved'[c] = t
    OBVIOUS
  <2>3. x[2] > t
    BY <1>2, <2>1, <2>2
  <2> QED
    BY <1>1, <2>1, <2>3
<1>6. Cardinality(B) = t
  <2>1. 0 \in Nat /\ 0 <= t /\ 0 + 1 = 1
    BY <1>1
  <2>2. Cardinality(Tokens(c, 0 + 1, t)) = t - 0
    BY <1>1, <2>1, TokensCount
  <2> QED
    BY <1>1, <2>1, <2>2
<1> HIDE DEF A, B
<1>7. IsFiniteSet(Room) /\ Cardinality(Room) = Cardinality(Clients) * Largest
  BY RoomCount
<1>8. Cardinality(A) \in Nat
  BY <1>3, <1>4, <1>5, <1>7, DisjointFits
<1>9. Cardinality(A) + Cardinality(B) <= Cardinality(Room)
  BY <1>3, <1>4, <1>5, <1>7, DisjointFits
<1> QED
  BY <1>6, <1>7, <1>8, <1>9 DEF A

(* A request that ends takes its part along.                               *)
LEMMA ExcessOfEnded ==
  ASSUME NEW c \in Clients, reserved \in [Clients -> Estimates \cup {0}], reserved[c] # 0,
         reserved' = [reserved EXCEPT ![c] = 0]
  PROVE  /\ Cardinality(Excess) \in Nat /\ Cardinality(Excess') \in Nat
         /\ Cardinality(Excess') + (Largest - reserved[c]) <= Cardinality(Excess)
         /\ Cardinality(Excess') <= Cardinality(Clients) * Largest
<1>1. Estimates \subseteq 1 .. Largest /\ Largest \in Nat
  BY LargestIsLargest
<1>2. reserved[c] \in 1 .. Largest
  BY <1>1
<1> DEFINE S == Excess  A == Excess'  B == Tokens(c, reserved[c] + 1, Largest)
<1>3. S = {x \in Room : reserved[x[1]] # 0 /\ x[2] > reserved[x[1]]}
  BY DEF Excess, Room
<1>4. A = {x \in Room : reserved'[x[1]] # 0 /\ x[2] > reserved'[x[1]]}
  BY DEF Excess, Room, Largest
<1>5. \A x \in A : x \in S /\ x[1] # c
  <2> TAKE x \in A
  <2>1. x[1] \in Clients /\ x \in Room /\ reserved'[x[1]] # 0 /\ x[2] > reserved'[x[1]]
    BY <1>4 DEF Room
  <2>2. x[1] # c
    BY <2>1
  <2>3. reserved'[x[1]] = reserved[x[1]]
    BY <2>1, <2>2
  <2> QED
    BY <1>3, <2>1, <2>2, <2>3
<1>6. B \in SUBSET S
  <2> SUFFICES ASSUME NEW x \in B PROVE x \in S
    OBVIOUS
  <2>1. x \in {c} \X ((reserved[c] + 1) .. Largest)
    BY DEF Tokens
  <2>2. x[1] = c /\ x[2] \in (reserved[c] + 1) .. Largest /\ x = <<x[1], x[2]>>
    BY <2>1
  <2>3. x[2] \in 1 .. Largest /\ x[2] > reserved[c]
    BY <1>1, <1>2, <2>2
  <2>4. x \in Room
    BY <2>2, <2>3 DEF Room
  <2> QED
    BY <1>3, <2>2, <2>3, <2>4
<1>7. A \cap B = {}
  BY <1>5 DEF Tokens
<1>8. Cardinality(B) = Largest - reserved[c]
  BY <1>1, <1>2, TokensCount
<1> HIDE DEF A, B, S
<1>9. IsFiniteSet(Room) /\ S \in SUBSET Room /\ Cardinality(Room) = Cardinality(Clients) * Largest
  BY <1>3, RoomCount
<1>10. IsFiniteSet(S) /\ Cardinality(S) <= Cardinality(Room) /\ Cardinality(S) \in Nat
  BY <1>9, FS_Subset, FS_CardinalityType
<1>11. A \in SUBSET S
  BY <1>5
<1>12. Cardinality(A) \in Nat /\ Cardinality(B) \in Nat
  BY <1>6, <1>7, <1>10, <1>11, DisjointFits
<1>13. Cardinality(A) + Cardinality(B) <= Cardinality(S)
  BY <1>6, <1>7, <1>10, <1>11, DisjointFits
<1>14. Cardinality(Clients) * Largest \in Int
  BY <1>1, RoomCount
<1>15. Cardinality(A) <= Cardinality(Clients) * Largest
  BY <1>9, <1>10, <1>12, <1>13, <1>14
<1> QED
  BY <1>8, <1>10, <1>12, <1>13, <1>15 DEF A, S

-----------------------------------------------------------------------------
LEMMA PacerStarts == PacerInit => PacerIInv
<1> SUFFICES ASSUME PacerInit PROVE PacerIInv
  OBVIOUS
<1>1. Excess = {}
  BY DEF PacerInit, Excess
<1>2. Cardinality(Excess) = 0
  BY <1>1, FS_EmptySet
<1>3. Cardinality(Clients) * Largest \in Nat
  BY RoomCount, LargestIsLargest
<1>4. Paid
  BY PacerNumbers DEF PacerInit, Paid
<1>5. Ahead
  BY <1>2, <1>3, PacerNumbers DEF PacerInit, Ahead
<1>6. PacerShapes
  BY PacerNumbers DEF PacerInit, PacerShapes, PacerTypeOK
<1> QED
  BY <1>4, <1>5, <1>6 DEF PacerInit, PacerIInv

LEMMA PacerAcquires ==
  ASSUME PacerIInv, NEW c \in Clients, NEW t \in Estimates, Acquire(c, t)
  PROVE  PacerIInv'
<1>0. PacerShapes /\ PacerTypeOK /\ budget \in Lowest .. Limit
  BY DEF PacerIInv, PacerShapes, PacerTypeOK
<1>1. t \in Nat /\ t \in Estimates \cup Actuals /\ t \in 1 .. Largest
  BY LargestIsLargest
<1>2. Seconds(t) \in Nat
  BY <1>0, <1>1, SecondsOf
<1>3. /\ nextAt' = second + Seconds(t) /\ spent' = spent + t /\ nextAt <= second
      /\ reserved' = [reserved EXCEPT ![c] = t]
      /\ second' = second /\ budget' = budget /\ limits' = limits
      /\ cooldownUntil' = cooldownUntil
  <2>1. second \in Int /\ nextAt \in Int /\ cooldownUntil \in Int
    BY <1>0, PacerNumbers DEF PacerShapes, PacerTypeOK
  <2>2. Later(nextAt, cooldownUntil) >= nextAt /\ Later(nextAt, cooldownUntil) \in Int
    BY <2>1 DEF Later
  <2> QED
    BY <2>1, <2>2 DEF Acquire
<1>4. second \in Nat /\ nextAt \in Int /\ spent \in Int /\ cooldownUntil \in Int
  BY <1>0, PacerNumbers DEF PacerShapes, PacerTypeOK
<1>5. PacerShapes'
  <2>1. reserved' \in [Clients -> Estimates \cup {0}]
    BY <1>0, <1>3 DEF PacerShapes, PacerTypeOK
  <2> QED
    BY <1>0, <1>2, <1>3, <1>4, <1>1, <2>1 DEF PacerShapes, PacerTypeOK
<1>6. ASSUME limits = 0 PROVE Paid' /\ Ahead' /\ budget' = Limit
  <2>1. Paid /\ Ahead /\ budget = Limit
    BY <1>6 DEF PacerIInv
  <2>2. (t * 60000) % Limit = 0
    BY <1>1, PacerAssumption
  <2>3. Limit * Seconds(t) = 60000 * t
    BY <1>0, <1>1, <2>1, <2>2, SecondsOf
  <2>4. Limit * (second + Seconds(t)) = Limit * second + Limit * Seconds(t)
        /\ Limit * second \in Int /\ Limit * nextAt \in Int
    <3> DEFINE s == Seconds(t)
    <3>1. second \in Int /\ s \in Int /\ nextAt \in Int
      BY <1>2, <1>4
    <3> HIDE DEF s
    <3>2. Limit * (second + s) = Limit * second + Limit * s
      BY <3>1, Times
    <3>3. Limit * second \in Int /\ Limit * nextAt \in Int
      BY <3>1, Times
    <3> QED
      BY <3>2, <3>3 DEF s
  <2>5. Limit * nextAt <= Limit * second
    BY <1>3, <1>4, Times
  <2>6. Limit * nextAt' = Limit * second + 60000 * t
    BY <1>3, <2>3, <2>4
  <2>7. Paid'
    BY <1>1, <1>3, <1>4, <2>1, <2>4, <2>5, <2>6 DEF Paid
  <2>8. Cardinality(Excess') \in Nat /\ Cardinality(Excess') + t <= Cardinality(Clients) * Largest
        /\ Cardinality(Clients) * Largest \in Int
    <3>1. reserved \in [Clients -> Estimates \cup {0}]
      BY <1>0 DEF PacerTypeOK
    <3>2. Cardinality(Clients) * Largest \in Int
      BY RoomCount, LargestIsLargest
    <3>3. Cardinality(Excess') \in Nat
      BY <1>3, <3>1, ExcessOfNew
    <3>4. Cardinality(Excess') + t <= Cardinality(Clients) * Largest
      BY <1>3, <3>1, ExcessOfNew
    <3> QED
      BY <3>2, <3>3, <3>4
  <2>9. Ahead'
    <3> DEFINE all == Cardinality(Clients) * Largest  some == Cardinality(Excess')
    <3>1. Limit * nextAt' + 60000 * some <= Limit * second' + 60000 * all
      <4>1. all \in Int /\ some \in Nat /\ some + t <= all
        BY <2>8
      <4> HIDE DEF all, some
      <4> QED
        BY <1>1, <1>3, <2>4, <2>6, <4>1
    <3> QED
      BY <3>1 DEF Ahead, Largest
  <2> QED
    BY <1>3, <2>1, <2>7, <2>9
<1> QED
  BY <1>3, <1>5, <1>6 DEF PacerIInv

LEMMA PacerSucceeds ==
  ASSUME PacerIInv, NEW c \in Clients, NEW t \in Actuals, SucceedRequest(c, t)
  PROVE  PacerIInv'
<1>0. PacerShapes /\ PacerTypeOK /\ budget \in Lowest .. Limit
  BY DEF PacerIInv, PacerShapes, PacerTypeOK
<1>r. PICK r : r = reserved[c]
  OBVIOUS
<1>1. /\ t \in 0 .. Largest /\ t \in Estimates \cup Actuals /\ r \in 1 .. Largest
      /\ r \in Estimates \cup Actuals /\ Largest \in Nat
  BY <1>0, <1>r, LargestIsLargest DEF PacerTypeOK, SucceedRequest
<1>2. Seconds(t) \in Nat /\ Seconds(r) \in Nat
  <2>1. t \in Nat /\ r \in Nat
    BY <1>1
  <2> QED
    BY <1>0, <2>1, SecondsOf
<1>3. /\ reserved' = [reserved EXCEPT ![c] = 0] /\ r # 0
      /\ second' = second /\ limits' = limits /\ cooldownUntil' = cooldownUntil
  BY <1>r DEF SucceedRequest
<1>4. second \in Nat /\ nextAt \in Int /\ spent \in Int /\ cooldownUntil \in Int /\ nextAt >= 0
  BY <1>0, PacerNumbers DEF PacerShapes, PacerTypeOK
<1> DEFINE moved == nextAt + Seconds(t) - Seconds(r)
<1>5. nextAt' = (IF t > 0 THEN (IF second > moved THEN second ELSE moved) ELSE nextAt)
      /\ spent' = IF t > 0 THEN spent + t - r ELSE spent
  BY <1>r DEF SucceedRequest, Corrected, Later, Seconds
<1>6. moved \in Int
  BY <1>2, <1>4
<1>7. nextAt' \in Int /\ nextAt' >= 0 /\ spent' \in Int
  <2> HIDE DEF moved
  <2> QED
    BY <1>1, <1>4, <1>5, <1>6
<1>8. budget' \in Lowest .. Limit /\ (budget = Limit => budget' = Limit)
  <2> DEFINE more == (budget * 6) \div 5
  <2>1. more \in Int /\ more >= budget /\ budget \in Int /\ Limit \in Int /\ Lowest \in Int
    BY <1>0, PacerNumbers
  <2> HIDE DEF more
  <2>2. \E x \in {Limit, more} : \A y \in {Limit, more} : x <= y
    BY <2>1
  <2>3. Min({Limit, more}) \in {Limit, more} /\ \A y \in {Limit, more} : Min({Limit, more}) <= y
    BY <2>2 DEF Min
  <2>4. Min({Limit, more}) \in Lowest .. Limit /\ (budget = Limit => Min({Limit, more}) = Limit)
    BY <1>0, <2>1, <2>3
  <2>5. budget' = budget \/ budget' = Min({Limit, more})
    BY DEF SucceedRequest, more
  <2> QED
    BY <1>0, <2>4, <2>5
<1>9. PacerShapes'
  <2>1. reserved' \in [Clients -> Estimates \cup {0}]
    BY <1>0, <1>3 DEF PacerTypeOK
  <2> QED
    BY <1>0, <1>3, <1>7, <1>8, <2>1 DEF PacerShapes, PacerTypeOK
<1>10. ASSUME limits = 0 PROVE Paid' /\ Ahead' /\ budget' = Limit
  <2>1. Paid /\ Ahead /\ budget = Limit
    BY <1>10 DEF PacerIInv
  <2>2. (t * 60000) % Limit = 0 /\ (r * 60000) % Limit = 0
    BY <1>1, PacerAssumption
  <2>3. Limit * Seconds(t) = 60000 * t /\ Limit * Seconds(r) = 60000 * r
    <3>1. t \in Nat /\ r \in Nat
      BY <1>1
    <3> QED
      BY <1>0, <2>1, <2>2, <3>1, SecondsOf
  <2>4. Limit * moved = Limit * nextAt + 60000 * t - 60000 * r
    <3> DEFINE s == Seconds(t)  u == Seconds(r)  next == nextAt + s
    <3>1. s \in Int /\ u \in Int /\ nextAt \in Int /\ next \in Int
      BY <1>2, <1>4
    <3>2. Limit * nextAt \in Int /\ Limit * next = Limit * nextAt + Limit * s
      <4> HIDE DEF s
      <4> QED
        BY <3>1, Times
    <3>3. Limit * (next - u) = Limit * next - Limit * u
      <4> HIDE DEF u, next
      <4> QED
        BY <3>1, Times
    <3>4. Limit * s = 60000 * t /\ Limit * u = 60000 * r
      BY <2>3
    <3>6. moved = next - u
      <4>1. moved = nextAt + (s - u)
        OBVIOUS
      <4> HIDE DEF moved, s, u
      <4> QED
        BY <3>1, <4>1
    <3> HIDE DEF moved, s, u, next
    <3>5. t \in Int /\ r \in Int
      BY <1>1
    <3> QED
      BY <3>2, <3>3, <3>4, <3>5, <3>6
  <2>5. /\ Limit * second \in Int /\ Limit * nextAt \in Int
        /\ second > moved => Limit * moved <= Limit * second
    <3> HIDE DEF moved
    <3>1. second > moved => moved <= second
      BY <1>4, <1>6
    <3>2. Limit * second \in Int /\ Limit * nextAt \in Int
      BY <1>4, Times
    <3>3. moved <= second => Limit * moved <= Limit * second
      BY <1>4, <1>6, Times
    <3> QED
      BY <3>1, <3>2, <3>3
  <2> HIDE DEF moved
  <2>6. Paid'
    <3>1. spent * 60000 <= Limit * nextAt
      BY <2>1 DEF Paid
    <3>2. spent' * 60000 <= Limit * nextAt'
      <4>1. CASE t = 0
        <5>1. nextAt' = nextAt /\ spent' = spent
          BY <1>5, <4>1
        <5> QED
          BY <3>1, <5>1
      <4>2. CASE t > 0 /\ second > moved
        <5>1. nextAt' = second /\ spent' = spent + t - r
          BY <1>5, <4>2
        <5> QED
          BY <1>1, <1>4, <2>4, <2>5, <3>1, <4>2, <5>1
      <4>3. CASE t > 0 /\ ~(second > moved)
        <5>1. nextAt' = moved /\ spent' = spent + t - r
          BY <1>5, <4>3
        <5> QED
          BY <1>1, <1>4, <2>4, <2>5, <3>1, <5>1
      <4> QED
        BY <1>1, <4>1, <4>2, <4>3
    <3> QED
      BY <3>2 DEF Paid
  <2>7. Ahead'
    <3> DEFINE all == Cardinality(Clients) * Largest
               before == Cardinality(Excess)
               some == Cardinality(Excess')
    <3>1. all \in Int /\ before \in Nat /\ some \in Nat
          /\ some + (Largest - r) <= before /\ some <= all
      <4>1. reserved \in [Clients -> Estimates \cup {0}]
        BY <1>0 DEF PacerTypeOK
      <4>2. all \in Int
        BY RoomCount, LargestIsLargest
      <4>3. before \in Nat /\ some \in Nat
        BY <1>3, <1>r, <4>1, ExcessOfEnded
      <4>4. some + (Largest - r) <= before
        BY <1>3, <1>r, <4>1, ExcessOfEnded
      <4>5. some <= all
        BY <1>3, <1>r, <4>1, ExcessOfEnded
      <4> QED
        BY <4>2, <4>3, <4>4, <4>5
    <3>2. Limit * nextAt + 60000 * before <= Limit * second + 60000 * all
      BY <2>1 DEF Ahead
    <3>3. Limit * nextAt' + 60000 * some <= Limit * second' + 60000 * all
      <4> HIDE DEF all, before, some
      <4>1. CASE t = 0
        <5>1. nextAt' = nextAt
          BY <1>5, <4>1
        <5> QED
          BY <1>1, <1>3, <2>5, <3>1, <3>2, <5>1
      <4>2. CASE t > 0 /\ second > moved
        <5>1. nextAt' = second
          BY <1>5, <4>2
        <5> QED
          BY <1>3, <2>5, <3>1, <5>1
      <4>3. CASE t > 0 /\ ~(second > moved)
        <5>1. nextAt' = moved
          BY <1>5, <4>3
        <5> QED
          BY <1>1, <1>3, <2>4, <2>5, <3>1, <3>2, <5>1
      <4> QED
        BY <1>1, <4>1, <4>2, <4>3
    <3> QED
      BY <3>3 DEF Ahead, Largest
  <2> QED
    BY <1>8, <2>1, <2>6, <2>7
<1> QED
  BY <1>3, <1>9, <1>10 DEF PacerIInv

LEMMA PacerLimits ==
  ASSUME PacerIInv, NEW c \in Clients, LimitRequest(c)
  PROVE  PacerIInv'
<1>0. PacerShapes /\ PacerTypeOK
  BY DEF PacerIInv, PacerShapes
<1>1. reserved' \in [Clients -> Estimates \cup {0}]
  BY <1>0 DEF PacerTypeOK, LimitRequest
<1>2. budget' \in Lowest .. Limit
  <2> DEFINE less == (budget * 7) \div 10
  <2>1. less \in Int /\ less <= budget /\ budget \in Lowest .. Limit
    BY <1>0, PacerNumbers DEF PacerTypeOK
  <2>2. budget' = IF Lowest > less THEN Lowest ELSE less
    BY DEF LimitRequest, Later
  <2> HIDE DEF less
  <2> QED
    BY <2>1, <2>2, PacerNumbers
<1>3. second \in Nat /\ cooldownUntil \in Int /\ cooldownUntil >= 0 /\ spent \in Int
      /\ reserved[c] \in Nat /\ limits \in Nat
  BY <1>0, LargestIsLargest, PacerNumbers DEF PacerShapes, PacerTypeOK
<1>4. cooldownUntil' \in Int /\ cooldownUntil' >= 0 /\ spent' \in Int /\ limits' \in Nat /\ limits' # 0
  BY <1>3, PacerNumbers DEF LimitRequest, Later
<1>5. second' = second /\ nextAt' = nextAt
  BY DEF LimitRequest
<1> QED
  BY <1>0, <1>1, <1>2, <1>4, <1>5 DEF PacerIInv, PacerShapes, PacerTypeOK

LEMMA PacerLoses ==
  ASSUME PacerIInv, NEW c \in Clients, LoseRequest(c)
  PROVE  PacerIInv'
<1>0. PacerShapes /\ PacerTypeOK /\ reserved \in [Clients -> Estimates \cup {0}]
  BY DEF PacerIInv, PacerShapes, PacerTypeOK
<1>1. /\ reserved' = [reserved EXCEPT ![c] = 0] /\ reserved[c] # 0
      /\ second' = second /\ nextAt' = nextAt /\ budget' = budget /\ spent' = spent
      /\ limits' = limits /\ cooldownUntil' = cooldownUntil
  BY DEF LoseRequest
<1>2. PacerShapes'
  <2>1. reserved' \in [Clients -> Estimates \cup {0}]
    BY <1>0, <1>1
  <2> QED
    BY <1>0, <1>1, <2>1 DEF PacerShapes, PacerTypeOK
<1>3. ASSUME Ahead PROVE Ahead'
  <2> DEFINE all == Cardinality(Clients) * Largest
             before == Cardinality(Excess)
             some == Cardinality(Excess')
  <2>1. before \in Nat /\ some \in Nat
    BY <1>0, <1>1, ExcessOfEnded
  <2>2. some + (Largest - reserved[c]) <= before
    BY <1>0, <1>1, ExcessOfEnded
  <2>3. Largest \in Nat /\ reserved[c] \in 1 .. Largest /\ all \in Int
    BY <1>0, <1>1, LargestIsLargest, RoomCount
  <2>4. Limit * nextAt \in Int /\ Limit * second \in Int
    <3>1. nextAt \in Int /\ second \in Int
      BY <1>0, PacerNumbers DEF PacerShapes, PacerTypeOK
    <3> QED
      BY <3>1, Times
  <2>5. Limit * nextAt + 60000 * before <= Limit * second + 60000 * all
    BY <1>3 DEF Ahead
  <2>6. Limit * nextAt + 60000 * some <= Limit * second + 60000 * all
    <3> HIDE DEF all, before, some
    <3> QED
      BY <2>1, <2>2, <2>3, <2>4, <2>5
  <2> QED
    BY <1>1, <2>6 DEF Ahead, Largest
<1>4. Paid' = Paid
  BY <1>1 DEF Paid
<1> QED
  BY <1>1, <1>2, <1>3, <1>4 DEF PacerIInv

LEMMA PacerWaits ==
  ASSUME PacerIInv, PassTime
  PROVE  PacerIInv'
<1>0. PacerShapes /\ PacerTypeOK
  BY DEF PacerIInv, PacerShapes
<1>1. second \in Nat /\ TimeStep \in Nat /\ nextAt \in Int /\ second' = second + TimeStep
      /\ second' \in 0 .. LastSecond
  BY <1>0, PacerNumbers DEF PacerShapes, PacerTypeOK, PassTime
<1>2. Excess' = Excess
  BY DEF PassTime, Excess, Largest
<1>3. PacerShapes'
  BY <1>0, <1>1 DEF PacerShapes, PacerTypeOK, PassTime
<1>4. ASSUME Ahead PROVE Ahead'
  <2> DEFINE all == Cardinality(Clients) * Largest
             some == Cardinality(Excess)
  <2>1. some \in Nat /\ all \in Int
    <3>1. Excess \in SUBSET Room
      BY DEF Excess, Room
    <3>2. IsFiniteSet(Excess)
      BY <3>1, RoomCount, FS_Subset
    <3> QED
      BY <3>2, FS_CardinalityType, RoomCount, LargestIsLargest
  <2>2. Limit * nextAt \in Int /\ Limit * second \in Int /\ Limit * second' \in Int
        /\ Limit * second <= Limit * second'
    <3>1. second <= second' /\ second' \in Int /\ second \in Int
      BY <1>1
    <3> QED
      BY <1>1, <3>1, Times
  <2>3. Limit * nextAt + 60000 * some <= Limit * second + 60000 * all
    BY <1>4 DEF Ahead
  <2>4. Limit * nextAt + 60000 * some <= Limit * second' + 60000 * all
    <3> HIDE DEF all, some
    <3> QED
      BY <2>1, <2>2, <2>3
  <2>5. nextAt' = nextAt
    BY DEF PassTime
  <2> QED
    BY <1>2, <2>4, <2>5 DEF Ahead, Largest
<1>5. Paid' = Paid /\ budget' = budget /\ limits' = limits
  BY DEF Paid, PassTime
<1> QED
  BY <1>3, <1>4, <1>5 DEF PacerIInv

THEOREM PacerInductive == PacerSpec => []PacerIInv
<1>1. PacerIInv /\ [PacerNext]_pacerVars => PacerIInv'
  <2> SUFFICES ASSUME PacerIInv, [PacerNext]_pacerVars PROVE PacerIInv'
    OBVIOUS
  <2>1. ASSUME NEW c \in Clients, NEW tokens \in Estimates, Acquire(c, tokens) PROVE PacerIInv'
    BY <2>1, PacerAcquires
  <2>2. ASSUME NEW c \in Clients, NEW tokens \in Actuals, SucceedRequest(c, tokens) PROVE PacerIInv'
    BY <2>2, PacerSucceeds
  <2>3. ASSUME NEW c \in Clients, LimitRequest(c) PROVE PacerIInv'
    BY <2>3, PacerLimits
  <2>4. ASSUME NEW c \in Clients, LoseRequest(c) PROVE PacerIInv'
    BY <2>4, PacerLoses
  <2>5. CASE PassTime
    BY <2>5, PacerWaits
  <2>6. CASE UNCHANGED pacerVars
    BY <2>6 DEF pacerVars, PacerIInv, PacerShapes, PacerTypeOK, Paid, Ahead, Excess, Largest
  <2> QED
    BY <2>1, <2>2, <2>3, <2>4, <2>5, <2>6 DEF PacerNext
<1> QED
  BY <1>1, PacerStarts, PTL DEF PacerSpec

(* The effective budget stays between its floor and its limit; and until   *)
(* the provider answers 429, what the processes spend together exceeds     *)
(* what the configured budget allows by at most one request for each of    *)
(* them (acquire, the correction of a success, lost requests).             *)
THEOREM QuotaKept == PacerSpec => [](PacerTypeOK /\ (limits = 0 => QuotaIsShared))
<1>1. PacerIInv => PacerTypeOK /\ (limits = 0 => QuotaIsShared)
  <2> SUFFICES ASSUME PacerIInv PROVE PacerTypeOK /\ (limits = 0 => QuotaIsShared)
    OBVIOUS
  <2>1. PacerShapes /\ PacerTypeOK
    BY DEF PacerIInv, PacerShapes
  <2>2. ASSUME limits = 0 PROVE BudgetIsKept
    <3> DEFINE all == Cardinality(Clients) * Largest
               some == Cardinality(Excess)
    <3>1. Paid /\ Ahead
      BY <2>2 DEF PacerIInv
    <3>2. some \in Nat /\ all \in Int
      <4>1. Excess \in SUBSET Room
        BY DEF Excess, Room
      <4>2. IsFiniteSet(Excess)
        BY <4>1, RoomCount, FS_Subset
      <4> QED
        BY <4>2, FS_CardinalityType, RoomCount, LargestIsLargest
    <3>3. spent * 60000 <= Limit * nextAt
          /\ Limit * nextAt + 60000 * some <= Limit * second + 60000 * all
      BY <3>1 DEF Paid, Ahead
    <3>4. Limit * nextAt \in Int /\ Limit * second \in Int /\ spent \in Int /\ Limit \in Int
          /\ second \in Int
      <4>1. nextAt \in Int /\ second \in Int /\ spent \in Int
        BY <2>1, PacerNumbers DEF PacerShapes, PacerTypeOK
      <4> QED
        BY <4>1, PacerNumbers, Times
    <3>5. spent * 60000 <= second * Limit + all * 60000
      <4>1. second * Limit = Limit * second
        BY <3>4
      <4> HIDE DEF all, some
      <4> QED
        BY <3>2, <3>3, <3>4, <4>1
    <3> QED
      BY <3>5 DEF BudgetIsKept, Largest
  <2> QED
    BY <2>1, <2>2 DEF QuotaIsShared
<1> QED
  BY <1>1, PacerInductive, PTL
=============================================================================
