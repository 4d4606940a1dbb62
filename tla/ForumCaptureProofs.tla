--------------------------- MODULE ForumCaptureProofs ---------------------------
(***************************************************************************)
(* Theorems about the Discourse collector, for any set of topics, any page *)
(* size and any limits.                                                    *)
(***************************************************************************)
EXTENDS ForumCapture, Integers, TLAPS

-----------------------------------------------------------------------------
(* Type correctness. *)

LEMMA QueueType ==
    ASSUME NEW q \in Queues, NEW ts \in SUBSET Topics
    PROVE  Leave(q, ts) \in Queues /\ Join(q, ts) \in Queues
  BY DEF Queues, Leave, Join

LEMMA PublishedType ==
    ASSUME TypeOK, NEW p \in Published
    PROVE  p \in PostIds /\ p \in 1..Len(posts) /\ posts[p] \in Topics
  BY DEF TypeOK, Published, PostIds

LEMMA EnqueueType ==
    ASSUME TypeOK, NEW ts \in SUBSET Topics, NEW n \in {0, 10, 20}, Enqueue(ts, n)
    PROVE  task' \in [Topics -> Tasks] /\ queue' \in [Stages -> Queues]
<1>1. \A t \in Topics : task[t] \in Tasks /\ Smaller(task[t].priority, n) \in {0, 10, 20}
  BY DEF TypeOK, Tasks, Smaller
<1>2. task' \in [Topics -> Tasks]
  BY ZenonT(40), <1>1 DEF Enqueue, Tasks
<1>3. Requeued(ts) \in SUBSET Topics /\ queue["capture"] \in Queues
  BY DEF Requeued, TypeOK, Stages
<1>4. queue' \in [Stages -> Queues]
  BY <1>3, QueueType DEF Enqueue, TypeOK
<1> QED BY <1>2, <1>4

LEMMA FirstOfType ==
    ASSUME TypeOK, NEW s \in Stages, NEW n \in Nat, NEW b \in FirstOf(s, n)
    PROVE  b \in Seq(Topics)
<1>1. Eligible(s) \subseteq Topics
  BY DEF Eligible, TypeOK, Queues
<1>2. PICK k \in 0..n : b \in [1..k -> Eligible(s)]
  BY DEF FirstOf
<1> QED BY <1>1, <1>2

LEMMA NextInBatchType ==
    ASSUME TypeOK, session.batch # <<>>, NextInBatch
    PROVE  session' \in Sessions
<1>1. session \in Sessions /\ session.batch \in Seq(Topics)
  BY DEF TypeOK, Sessions
<1>2. Tail(session.batch) \in Seq(Topics)
  BY <1>1
<1> QED BY <1>1, <1>2 DEF NextInBatch, Sessions, Phases

LEMMA PhaseType ==
    ASSUME TypeOK, NEW f \in Phases, session' = [session EXCEPT !.phase = f]
    PROVE  session' \in Sessions
  BY DEF TypeOK, Sessions

LEMMA AfterPageType ==
    ASSUME TypeOK, NEW c, AfterPage(c)
    PROVE  session' \in Sessions
<1>1. session \in Sessions /\ session.pages + 1 \in Nat
  BY DEF TypeOK, Sessions
<1>2. CASE c \/ session.pages + 1 = MaxPages
  BY <1>1, <1>2 DEF AfterPage, Sessions, Phases
<1>3. CASE ~(c \/ session.pages + 1 = MaxPages)
  BY <1>1, <1>3 DEF AfterPage, Sessions, Phases
<1> QED BY <1>2, <1>3

LEMMA PageTopics ==
    ASSUME TypeOK, NEW S \in SUBSET Visible
    PROVE  {posts[p] : p \in S} \in SUBSET Topics
  BY PublishedType DEF Visible

LEMMA RestingType == Resting \in Sessions
  BY DEF Resting, Sessions, Phases

LEMMA TypeStep ==
    ASSUME TypeOK, [Next]_vars
    PROVE  TypeOK'
<1> USE DEF TypeOK
<1>1. ASSUME NEW t \in Topics, Publish(t) PROVE TypeOK'
  <2>1. posts' \in Seq(Topics) /\ Len(posts') = Len(posts) + 1
    BY <1>1 DEF Publish
  <2>2. Len(posts') <= MaxPosts
    BY <1>1, <2>1, LimitsAssumption DEF Publish
  <2> QED BY <1>1, <2>1, <2>2 DEF Publish
<1>2. ASSUME NEW p \in PostIds, Hide(p) PROVE TypeOK'
  BY <1>2 DEF Hide
<1>3. ASSUME NEW s \in Stages, NEW t \in Topics, Elapse(s, t) PROVE TypeOK'
  <2>1. Join(queue[s], {t}) \in Queues
    BY QueueType
  <2> QED BY <1>3, <2>1 DEF Elapse
<1>4. CASE Crash
  BY <1>4, RestingType DEF Crash
<1>5. ASSUME NEW job \in Jobs, Start(job) PROVE TypeOK'
  <2>1. session' \in Sessions
    BY <1>5, RestingType, JobsAssumption DEF Start, Sessions, Phases
  <2> QED BY <1>5, <2>1 DEF Start
<1>6. ASSUME NEW low \in 0..Len(posts), NEW top \in 0..Len(posts), ScanPage(low, top)
      PROVE TypeOK'
  <2>1. {posts[p] : p \in {q \in Page(sync.before, low) : q > sync.watermark}} \in SUBSET Topics
    BY PageTopics DEF Page
  <2>2. task' \in [Topics -> Tasks] /\ queue' \in [Stages -> Queues]
    BY <1>6, <2>1, EnqueueType DEF ScanPage
  <2>3. session' \in Sessions
    BY <1>6, AfterPageType DEF ScanPage
  <2>4. sync' \in Cursor
    <3>1. Head0(top) \in Nat
      BY DEF Head0, Cursor
    <3>2. CASE Completes(low)
      BY <1>6, <3>1, <3>2 DEF ScanPage, Cursor
    <3>3. CASE ~Completes(low)
      <4>1. sync' = [sync EXCEPT !.head = Head0(top), !.before = low]
        BY <1>6, <3>3 DEF ScanPage
      <4>2. low \in Nat /\ sync \in Cursor
        OBVIOUS
      <4> QED BY <3>1, <4>1, <4>2 DEF Cursor
    <3> QED BY <3>2, <3>3
  <2>5. marks' \in [origin : Nat, head : Nat]
    BY <1>6 DEF ScanPage
  <2> QED BY <1>6, <2>2, <2>3, <2>4, <2>5 DEF ScanPage
<1>7. ASSUME NEW low \in 0..Len(posts), NEW top \in 0..Len(posts), HistoryPage(low, top)
      PROVE TypeOK'
  <2>1. {posts[p] : p \in Page(sync.backBefore, low)} \in SUBSET Topics
    BY PageTopics DEF Page
  <2>2. task' \in [Topics -> Tasks] /\ queue' \in [Stages -> Queues]
    BY <1>7, <2>1, EnqueueType DEF HistoryPage
  <2>3. session' \in Sessions
    BY <1>7, AfterPageType DEF HistoryPage
  <2>4. sync' \in Cursor
    <3>1. HistoryEnds(low) \in BOOLEAN /\ (IF low # 0 THEN low ELSE sync.backBefore) \in Nat
      BY DEF HistoryEnds, Cursor
    <3> QED BY <1>7, <3>1 DEF HistoryPage, Cursor
  <2>5. marks' \in [origin : Nat, head : Nat]
    BY <1>7 DEF HistoryPage
  <2> QED BY <1>7, <2>2, <2>3, <2>4, <2>5 DEF HistoryPage
<1>8. CASE HistoryIsDone
  BY <1>8, PhaseType DEF HistoryIsDone, Phases
<1>9. ASSUME NEW ts \in SUBSET Topics, EnqueueTopics(ts) PROVE TypeOK'
  <2>1. task' \in [Topics -> Tasks] /\ queue' \in [Stages -> Queues]
    BY <1>9, EnqueueType DEF EnqueueTopics
  <2>2. session' \in Sessions
    BY <1>9, PhaseType DEF EnqueueTopics, Phases
  <2> QED BY <1>9, <2>1, <2>2 DEF EnqueueTopics
<1>10. CASE DiscoveryFails
  BY <1>10, PhaseType DEF DiscoveryFails, Phases
<1>11. ASSUME NEW b \in FirstOf("refresh", RefreshBudget), Refresh(b) PROVE TypeOK'
  <2>1. b \in Seq(Topics)
    BY FirstOfType, LimitsAssumption DEF RefreshBudget, Stages
  <2>2. {b[i] : i \in DOMAIN b} \in SUBSET Topics
    BY <2>1
  <2>3. task' \in [Topics -> Tasks]
    <3>1. ASSUME NEW t \in Topics
          PROVE  [task[t] EXCEPT !.capture = "pending", !.priority = 20] \in Tasks
      <4>1. task[t] \in Tasks
        OBVIOUS
      <4> QED BY <4>1 DEF Tasks
    <3> QED BY <1>11, <3>1 DEF Refresh
  <2>4. queue' \in [Stages -> Queues]
    <3>1. Join(queue["capture"], {b[i] : i \in DOMAIN b}) \in Queues
      BY <2>2, QueueType DEF Stages
    <3> QED BY <1>11, <3>1 DEF Refresh
  <2>5. session' \in Sessions
    BY <1>11, PhaseType DEF Refresh, Phases
  <2> QED BY <1>11, <2>3, <2>4, <2>5 DEF Refresh
<1>12. ASSUME NEW b \in FirstOf(Stage, MaxTopics), Select(b) PROVE TypeOK'
  <2>1. b \in Seq(Topics)
    BY FirstOfType, LimitsAssumption DEF Stage, Stages
  <2>2. session' \in Sessions
    BY <1>12, <2>1 DEF Select, Sessions, Phases
  <2> QED BY <1>12, <2>2 DEF Select
<1>13. ASSUME NEW t \in Topics, Fetch(t) PROVE TypeOK'
  <2>1. PostsOf(t) \in SUBSET PostIds
    BY DEF PostsOf, Visible, Published
  <2>2. session' \in Sessions
    BY <1>13, <2>1 DEF Fetch, Sessions, Phases
  <2> QED BY <1>13, <2>2 DEF Fetch
<1>14. ASSUME NEW t \in Topics, Capture(t) PROVE TypeOK'
  <2>1. session' \in Sessions
    BY <1>14, NextInBatchType DEF Capture, Working
  <2>2. /\ Leave(queue["capture"], {t}) \in Queues /\ Leave(queue["refresh"], {t}) \in Queues
        /\ Join(queue["process"], {t}) \in Queues
    BY QueueType DEF Stages
  <2>3. queue' \in [Stages -> Queues]
    BY <1>14, <2>2 DEF Capture
  <2>4. task' \in [Topics -> Tasks]
    <3>1. session.ids \in SUBSET PostIds /\ task[t] \in Tasks
      BY DEF Sessions
    <3>2. [task[t] EXCEPT !.capture = "captured", !.seen = session.ids,
                          !.process = "pending"] \in Tasks
      BY <3>1 DEF Tasks
    <3> QED BY <1>14, <3>2 DEF Capture
  <2> QED BY <1>14, <2>1, <2>3, <2>4 DEF Capture
<1>15. ASSUME NEW t \in Topics, CaptureFails(t) PROVE TypeOK'
  <2>1. session' \in Sessions
    BY <1>15, NextInBatchType DEF CaptureFails, Working
  <2>2. Leave(queue["capture"], {t}) \in Queues
    BY QueueType DEF Stages
  <2>3. task' \in [Topics -> Tasks]
    BY ZenonT(40), <1>15 DEF CaptureFails, Tasks
  <2> QED BY <1>15, <2>1, <2>2, <2>3 DEF CaptureFails
<1>16. ASSUME NEW t \in Topics, Process(t) \/ ProcessFails(t) PROVE TypeOK'
  <2>1. session' \in Sessions
    BY <1>16, NextInBatchType DEF Process, ProcessFails, Working
  <2>2. Leave(queue["process"], {t}) \in Queues
    BY QueueType DEF Stages
  <2>3. task' \in [Topics -> Tasks] /\ item' \in [Topics -> SUBSET PostIds]
    <3>1. task[t] \in Tasks /\ task[t].seen \in SUBSET PostIds
      BY DEF Tasks
    <3>2. /\ [task[t] EXCEPT !.process = "done"] \in Tasks
          /\ [task[t] EXCEPT !.process = "retry"] \in Tasks
      BY <3>1 DEF Tasks
    <3>3. CASE Process(t)
      BY <3>1, <3>2, <3>3 DEF Process
    <3>4. CASE ProcessFails(t)
      BY <3>1, <3>2, <3>4 DEF ProcessFails
    <3> QED BY <1>16, <3>3, <3>4
  <2> QED BY <1>16, <2>1, <2>2, <2>3 DEF Process, ProcessFails
<1>17. CASE Finish
  BY <1>17, RestingType DEF Finish
<1>18. CASE UNCHANGED vars
  BY <1>18 DEF vars
<1> QED
  BY <1>1, <1>2, <1>3, <1>4, <1>5, <1>6, <1>7, <1>8, <1>9, <1>10, <1>11, <1>12, <1>13,
     <1>14, <1>15, <1>16, <1>17, <1>18
     DEF Next, Environment, Step, Continue, Scan, ScanHistory, SomeTopics, SomeRefresh, SomeSelect

LEMMA TypeInit ==
    ASSUME Init
    PROVE  TypeOK
<1>1. posts \in Seq(Topics) /\ Len(posts) <= MaxPosts
  BY LimitsAssumption DEF Init
<1>2. sync \in Cursor /\ marks \in [origin : Nat, head : Nat]
  BY DEF Init, Cursor
<1>3. task \in [Topics -> Tasks] /\ queue \in [Stages -> Queues]
  BY DEF Init, Tasks, Queues
<1> QED BY <1>1, <1>2, <1>3, RestingType DEF Init, TypeOK

(* Every variable keeps its type; in particular no column ever holds a     *)
(* status that none of the queries knows.                                  *)
THEOREM TypeCorrect == Spec => []TypeOK
<1>1. Init => TypeOK
  BY TypeInit
<1>2. TypeOK /\ [Next]_vars => TypeOK'
  BY TypeStep
<1> QED BY <1>1, <1>2, PTL DEF Spec

-----------------------------------------------------------------------------
(* What the scans have promised so far, which is more than the watermark   *)
(* says: the pages of a scan that is not complete, and of the history.     *)

Promised(p) ==
    \/ sync.started /\ marks.origin <= p /\ p <= sync.watermark
    \/ sync.head # 0 /\ sync.before <= p /\ p <= sync.head
    \/ p <= marks.head /\ (sync.backDone \/ (sync.backBefore # 0 /\ sync.backBefore <= p))

PromisesKept == \A p \in Visible : Promised(p) => Known(p)

(* No cursor is ahead of the forum: a new post is not promised yet. *)
Anchored ==
    /\ sync.watermark <= Len(posts) /\ sync.head <= Len(posts) /\ marks.head <= Len(posts)
    /\ (sync.head = 0) <=> (sync.before = 0)
    /\ ~sync.started => (sync.head = 0 /\ sync.watermark = 0)

(* What a fetched list of posts lacks was published after it. *)
FetchIsRecent ==
    session.phase = "fetched" =>
        /\ session.batch # <<>>
        /\ \A p \in PostsOf(Head(session.batch)) : Promised(p) => p \in session.ids

(* A selected topic stays due until its turn has come. *)
BatchIsDue ==
    session.phase \in {"work", "fetched"} /\ Stage = "capture" =>
        /\ \A i \in DOMAIN session.batch : session.batch[i] \in queue["capture"].due
        /\ \A i, j \in DOMAIN session.batch : i # j => session.batch[i] # session.batch[j]

Inductive == TypeOK /\ Anchored /\ PromisesKept /\ FetchIsRecent /\ BatchIsDue

-----------------------------------------------------------------------------
(* Lemmas about the queue and the cursors. *)

(* Putting a topic in the queue loses nothing that is known, and makes all *)
(* its posts known.                                                        *)
LEMMA EnqueueKnows ==
    ASSUME TypeOK, NEW ts \in SUBSET Topics, NEW n \in {0, 10, 20}, Enqueue(ts, n),
           item' = item, posts' = posts, NEW p \in Published,
           Known(p) \/ posts[p] \in ts
    PROVE  Known(p)'
<1> DEFINE t == posts[p]
<1>1. t \in Topics /\ task[t] \in Tasks
  BY PublishedType DEF TypeOK
<1>2. task'[t].seen = task[t].seen /\ task'[t].process = task[t].process
  BY <1>1 DEF Enqueue, Tasks
<1>3. CASE task[t].capture \in {"pending", "retry"}
  <2>1. task'[t].capture \in {"pending", "retry"}
    BY <1>1, <1>3 DEF Enqueue, Tasks, Requeued
  <2> QED BY <2>1 DEF Known
<1>4. CASE t \in Requeued(ts)
  <2>1. task'[t].capture = "pending"
    BY <1>1, <1>4 DEF Enqueue, Tasks
  <2> QED BY <2>1 DEF Known
<1>5. CASE task[t].capture \notin {"pending", "retry"} /\ t \notin Requeued(ts)
  <2>1. t \notin ts
    BY <1>1, <1>5 DEF Requeued, Tasks
  <2>2. Known(p) /\ p \in task[t].seen
    BY <2>1, <1>5 DEF Known
  <2>3. p \in item[t] \/ task[t].process \in {"pending", "retry"}
    BY <2>2, <1>5 DEF Known
  <2>4. posts'[p] = t /\ item'[t] = item[t]
    OBVIOUS
  <2>5. p \in task'[t].seen /\ (p \in item'[t] \/ task'[t].process \in {"pending", "retry"})
    BY <1>2, <2>2, <2>3, <2>4
  <2> QED BY <2>4, <2>5 DEF Known
<1> QED BY <1>3, <1>4, <1>5

(* Only a new post and the two scans move a cursor or what it is measured by. *)
LEMMA CursorsStay ==
    ASSUME [Next]_vars,
           ~\E t \in Topics : Publish(t),
           ~\E low, top \in 0..Len(posts) : ScanPage(low, top) \/ HistoryPage(low, top)
    PROVE  UNCHANGED <<posts, sync, marks>>
<1>1. CASE Environment
  BY <1>1 DEF Environment, Hide, Elapse, Crash
<1>2. CASE Continue
  BY <1>2 DEF Continue, SomeRefresh, SomeSelect, Refresh, Select, Finish, Fetch
<1>3. CASE Scan \/ ScanHistory
  BY <1>3 DEF Scan, ScanHistory, HistoryIsDone
<1>4. CASE SomeTopics \/ DiscoveryFails \/ \E job \in Jobs : Start(job)
  BY <1>4 DEF SomeTopics, EnqueueTopics, DiscoveryFails, Start
<1>5. ASSUME NEW t \in Topics, Capture(t) \/ CaptureFails(t) \/ Process(t) \/ ProcessFails(t)
      PROVE  UNCHANGED <<posts, sync, marks>>
  BY <1>5 DEF Capture, CaptureFails, Process, ProcessFails
<1>6. CASE UNCHANGED vars
  BY <1>6 DEF vars
<1> QED BY <1>1, <1>2, <1>3, <1>4, <1>5, <1>6 DEF Next, Step

LEMMA HiddenStays ==
    ASSUME [Next]_vars
    PROVE  hidden \subseteq hidden'
<1>1. CASE Environment
  BY <1>1 DEF Environment, Publish, Hide, Elapse, Crash
<1>2. CASE Continue
  BY <1>2 DEF Continue, SomeRefresh, SomeSelect, Refresh, Select, Finish, Fetch
<1>3. CASE Scan \/ ScanHistory
  BY <1>3 DEF Scan, ScanHistory, ScanPage, HistoryPage, HistoryIsDone
<1>4. CASE SomeTopics \/ DiscoveryFails \/ \E job \in Jobs : Start(job)
  BY <1>4 DEF SomeTopics, EnqueueTopics, DiscoveryFails, Start
<1>5. ASSUME NEW t \in Topics, Capture(t) \/ CaptureFails(t) \/ Process(t) \/ ProcessFails(t)
      PROVE  hidden \subseteq hidden'
  BY <1>5 DEF Capture, CaptureFails, Process, ProcessFails
<1>6. CASE UNCHANGED vars
  BY <1>6 DEF vars
<1> QED BY <1>1, <1>2, <1>3, <1>4, <1>5, <1>6 DEF Next, Step

(* What a page is, in terms of its bounds. *)
LEMMA PageBounds ==
    ASSUME TypeOK, NEW b \in Nat, NEW low \in 0..Len(posts), NEW top \in 0..Len(posts),
           IsPage(b, low, top)
    PROVE  /\ low = 0 => top = 0
           /\ low # 0 => low <= top
           /\ \A p \in Visible : low <= p /\ (b = 0 \/ p < b) => low # 0 /\ p <= top
<1>1. \A p \in Visible : p \in Nat /\ p # 0 /\ 0 <= p
  BY DEF Visible, Published, PostIds
<1>2. CASE low \in Page(b, low)
  BY <1>1, <1>2 DEF IsPage, Page
<1>3. CASE low = 0 /\ top = 0 /\ Page(b, 0) = {}
  BY <1>1, <1>3 DEF IsPage, Page
<1> QED BY <1>2, <1>3 DEF IsPage

(* What the scans do to the cursors, field by field. *)
LEMMA ScanPageCursors ==
    ASSUME TypeOK, NEW low, NEW top, ScanPage(low, top)
    PROVE  /\ Completes(low) =>
                 /\ sync'.started /\ sync'.head = 0 /\ sync'.before = 0
                 /\ sync'.watermark = IF Head0(top) # 0 THEN Head0(top) ELSE sync.watermark
           /\ ~Completes(low) =>
                 /\ sync'.started = sync.started /\ sync'.watermark = sync.watermark
                 /\ sync'.head = Head0(top) /\ sync'.before = low
           /\ sync'.backBefore = sync.backBefore /\ sync'.backDone = sync.backDone
           /\ marks'.head = marks.head
           /\ marks'.origin = IF sync.started THEN marks.origin ELSE low
<1>1. CASE Completes(low)
  BY <1>1 DEF TypeOK, ScanPage, Cursor
<1>2. CASE ~Completes(low)
  BY <1>2 DEF TypeOK, ScanPage, Cursor
<1> QED BY <1>1, <1>2

LEMMA HistoryPageCursors ==
    ASSUME TypeOK, NEW low, NEW top, HistoryPage(low, top)
    PROVE  /\ sync'.started = sync.started /\ sync'.watermark = sync.watermark
           /\ sync'.head = sync.head /\ sync'.before = sync.before
           /\ sync'.backBefore = IF low # 0 THEN low ELSE sync.backBefore
           /\ sync'.backDone <=> low = 0
           /\ marks'.origin = marks.origin
           /\ marks'.head = IF sync.backBefore = 0 THEN top ELSE marks.head
  BY DEF TypeOK, HistoryPage, HistoryEnds, Cursor

LEMMA AnchoredStep ==
    ASSUME TypeOK, Anchored, [Next]_vars
    PROVE  Anchored'
<1>0. /\ Len(posts) \in Nat /\ sync.watermark \in Nat /\ sync.head \in Nat
      /\ marks.head \in Nat /\ sync.before \in Nat
  BY DEF TypeOK, Cursor
<1>1. CASE UNCHANGED <<posts, sync, marks>>
  BY <1>1 DEF Anchored
<1>2. ASSUME NEW t \in Topics, Publish(t) PROVE Anchored'
  <2>1. Len(posts') = Len(posts) + 1 /\ UNCHANGED <<sync, marks>>
    BY <1>2 DEF Publish, TypeOK
  <2> QED BY <1>0, <2>1 DEF Anchored
<1>3. ASSUME NEW low \in 0..Len(posts), NEW top \in 0..Len(posts), ScanPage(low, top)
      PROVE  Anchored'
  <2>1. posts' = posts
    BY <1>3 DEF ScanPage
  <2>2. (low = 0 => top = 0) /\ (low # 0 => low <= top) /\ low \in Nat /\ top \in Nat
    BY <1>0, <1>3, PageBounds DEF ScanPage
  <2>3. Head0(top) \in Nat /\ Head0(top) <= Len(posts)
    BY <1>0 DEF Head0, Anchored
  <2>4. CASE Completes(low)
    BY <1>0, <1>3, <2>1, <2>3, <2>4, ScanPageCursors DEF Anchored
  <2>5. CASE ~Completes(low)
    <3>1. low # 0 /\ sync.started
      BY <1>0, <2>2, <2>5 DEF Completes
    <3>2. Head0(top) # 0
      BY <1>0, <2>2, <3>1 DEF Head0
    <3> QED BY <1>0, <1>3, <2>1, <2>3, <2>5, <3>1, <3>2, ScanPageCursors DEF Anchored
  <2> QED BY <2>4, <2>5
<1>4. ASSUME NEW low \in 0..Len(posts), NEW top \in 0..Len(posts), HistoryPage(low, top)
      PROVE  Anchored'
  <2>1. posts' = posts
    BY <1>4 DEF HistoryPage
  <2> QED BY <1>0, <1>4, <2>1, HistoryPageCursors DEF Anchored
<1> QED BY <1>1, <1>2, <1>3, <1>4, CursorsStay
-----------------------------------------------------------------------------
(* The promises are kept by every step. *)

LEMMA PublishKeepsPromises ==
    ASSUME TypeOK, Anchored, PromisesKept, NEW t \in Topics, Publish(t)
    PROVE  PromisesKept'
<1>1. /\ Len(posts) \in Nat /\ Len(posts') = Len(posts) + 1
      /\ \A p \in 1..Len(posts) : posts'[p] = posts[p]
      /\ sync \in Cursor /\ marks.head \in Nat
      /\ UNCHANGED <<hidden, sync, task, item, marks>>
  BY DEF TypeOK, Publish
<1> SUFFICES ASSUME NEW p \in Visible', Promised(p)' PROVE Known(p)'
  BY DEF PromisesKept
<1>2. p \in Nat /\ p # 0 /\ Promised(p)
  BY <1>1 DEF Visible, Published, PostIds, Promised
<1>3. p <= Len(posts)
  BY <1>1, <1>2 DEF Promised, Anchored, Cursor
<1>4. p \in Visible /\ p \in 1..Len(posts)
  BY <1>1, <1>2, <1>3 DEF Visible, Published, PostIds
<1>5. Known(p)
  BY <1>2, <1>4 DEF PromisesKept
<1> QED BY <1>1, <1>4, <1>5 DEF Known

LEMMA ScanKeepsPromises ==
    ASSUME TypeOK, Anchored, PromisesKept,
           NEW low \in 0..Len(posts), NEW top \in 0..Len(posts), ScanPage(low, top)
    PROVE  PromisesKept'
<1> DEFINE ts == {posts[p] : p \in {q \in Page(sync.before, low) : q > sync.watermark}}
<1>1. UNCHANGED <<posts, hidden, item>> /\ Enqueue(ts, 0)
  BY DEF ScanPage
<1>2. ts \in SUBSET Topics
  BY PageTopics DEF Page
<1> SUFFICES ASSUME NEW p \in Visible', Promised(p)' PROVE Known(p)'
  BY DEF PromisesKept
<1>3. p \in Visible /\ p \in Published /\ p \in Nat /\ p # 0
  BY <1>1 DEF Visible, Published, PostIds
<1>4. /\ sync.watermark \in Nat /\ sync.head \in Nat /\ sync.before \in Nat
      /\ low \in Nat /\ top \in Nat /\ marks.origin \in Nat
  BY DEF TypeOK, Cursor
<1>5. /\ low = 0 => top = 0
      /\ low # 0 => low <= top
      /\ low <= p /\ (sync.before = 0 \/ p < sync.before) => low # 0 /\ p <= top
  BY <1>3, <1>4, PageBounds DEF ScanPage
<1>6. Promised(p) \/ (low <= p /\ (sync.before = 0 \/ p < sync.before) /\ p > sync.watermark)
  <2>1. CASE Completes(low) /\ sync.started
    <3>1. /\ sync'.head = 0 /\ low <= sync.watermark /\ marks'.head = marks.head
          /\ sync'.watermark = IF Head0(top) # 0 THEN Head0(top) ELSE sync.watermark
          /\ sync'.backBefore = sync.backBefore /\ sync'.backDone = sync.backDone
          /\ marks'.origin = marks.origin
      BY <2>1, ScanPageCursors DEF Completes
    <3>2. CASE marks.origin <= p /\ p <= sync'.watermark
      <4>1. CASE p <= sync.watermark
        BY <2>1, <3>2, <4>1 DEF Promised
      <4>2. CASE p > sync.watermark /\ sync.head = 0
        BY <1>3, <1>4, <3>1, <4>2 DEF Anchored
      <4>3. CASE p > sync.watermark /\ sync.head # 0
        BY <1>3, <1>4, <3>1, <3>2, <4>3 DEF Head0, Promised
      <4> QED BY <1>3, <1>4, <4>1, <4>2, <4>3
    <3>3. CASE p <= marks.head /\ (sync.backDone \/ (sync.backBefore # 0 /\ sync.backBefore <= p))
      BY <3>3 DEF Promised
    <3> QED BY <3>1, <3>2, <3>3 DEF Promised
  <2>2. CASE ~sync.started
    BY <1>3, <1>4, <1>5, <2>2, ScanPageCursors DEF Promised, Head0, Anchored, Completes
  <2>3. CASE ~Completes(low)
    BY <1>3, <1>4, <1>5, <2>3, ScanPageCursors DEF Promised, Head0, Anchored, Completes
  <2> QED BY <2>1, <2>2, <2>3
<1>7. Known(p) \/ posts[p] \in ts
  <2>1. CASE Promised(p)
    BY <1>3, <2>1 DEF PromisesKept
  <2>2. CASE low <= p /\ (sync.before = 0 \/ p < sync.before) /\ p > sync.watermark
    BY <1>3, <2>2 DEF Page
  <2> QED BY <1>6, <2>1, <2>2
<1> HIDE DEF ts
<1> QED BY <1>1, <1>2, <1>3, <1>7, EnqueueKnows

LEMMA HistoryKeepsPromises ==
    ASSUME TypeOK, Anchored, PromisesKept,
           NEW low \in 0..Len(posts), NEW top \in 0..Len(posts), HistoryPage(low, top)
    PROVE  PromisesKept'
<1> DEFINE ts == {posts[p] : p \in Page(sync.backBefore, low)}
<1>1. UNCHANGED <<posts, hidden, item>> /\ Enqueue(ts, 10)
  BY DEF HistoryPage
<1>2. ts \in SUBSET Topics
  BY PageTopics DEF Page
<1> SUFFICES ASSUME NEW p \in Visible', Promised(p)' PROVE Known(p)'
  BY DEF PromisesKept
<1>3. p \in Visible /\ p \in Published /\ p \in Nat /\ p # 0
  BY <1>1 DEF Visible, Published, PostIds
<1>4. sync.backBefore \in Nat /\ low \in Nat /\ top \in Nat /\ marks.head \in Nat
  BY DEF TypeOK, Cursor
<1>5. /\ low = 0 => top = 0
      /\ low <= p /\ (sync.backBefore = 0 \/ p < sync.backBefore) => low # 0 /\ p <= top
  BY <1>3, <1>4, PageBounds DEF HistoryPage
<1>6. Promised(p) \/ (low <= p /\ (sync.backBefore = 0 \/ p < sync.backBefore))
  <2>1. CASE /\ sync.started = sync'.started /\ marks.origin = marks'.origin
             /\ sync'.started /\ marks'.origin <= p /\ p <= sync'.watermark
    BY <2>1, HistoryPageCursors DEF Promised
  <2>2. CASE sync'.head # 0 /\ sync'.before <= p /\ p <= sync'.head
    BY <2>2, HistoryPageCursors DEF Promised
  <2>3. CASE /\ p <= marks'.head
             /\ sync'.backDone \/ (sync'.backBefore # 0 /\ sync'.backBefore <= p)
    <3>1. CASE sync.backBefore = 0
      BY <1>3, <1>4, <1>5, <2>3, <3>1, HistoryPageCursors
    <3>2. CASE sync.backBefore # 0 /\ p < sync.backBefore
      BY <1>3, <1>4, <2>3, <3>2, HistoryPageCursors
    <3>3. CASE sync.backBefore # 0 /\ sync.backBefore <= p
      BY <2>3, <3>3, HistoryPageCursors DEF Promised
    <3> QED BY <1>3, <1>4, <3>1, <3>2, <3>3
  <2> QED BY <2>1, <2>2, <2>3, HistoryPageCursors DEF Promised
<1>7. Known(p) \/ posts[p] \in ts
  <2>1. CASE Promised(p)
    BY <1>3, <2>1 DEF PromisesKept
  <2>2. CASE low <= p /\ (sync.backBefore = 0 \/ p < sync.backBefore)
    BY <1>3, <2>2 DEF Page
  <2> QED BY <1>6, <2>1, <2>2
<1> HIDE DEF ts
<1> QED BY <1>1, <1>2, <1>3, <1>7, EnqueueKnows

(* A topic's attempts never lose a promised post; for a capture, because   *)
(* what its list of posts lacks was not promised.                          *)
LEMMA TasksKeepKnown ==
    ASSUME TypeOK, FetchIsRecent, [Next]_vars, UNCHANGED <<posts, sync, marks>>,
           NEW p \in Visible, Promised(p), Known(p),
           ~\E low, top \in 0..Len(posts) : ScanPage(low, top) \/ HistoryPage(low, top)
    PROVE  Known(p)'
<1> DEFINE u == posts[p]
<1>1. u \in Topics /\ task[u] \in Tasks /\ p \in Published /\ posts'[p] = u
  BY PublishedType DEF TypeOK, Visible
<1>2. CASE UNCHANGED <<task, item>>
  BY <1>1, <1>2 DEF Known
<1>3. ASSUME NEW ts \in SUBSET Topics, EnqueueTopics(ts) PROVE Known(p)'
  BY <1>1, <1>3, EnqueueKnows DEF EnqueueTopics
<1>4. ASSUME NEW b, Refresh(b) PROVE Known(p)'
  <2>1. item' = item /\ (task'[u] = task[u] \/ task'[u].capture = "pending")
    BY <1>1, <1>4 DEF Refresh, Tasks
  <2> QED BY <1>1, <2>1 DEF Known
<1>5. ASSUME NEW t \in Topics, Capture(t) PROVE Known(p)'
  <2>1. /\ item' = item
        /\ u # t => task'[u] = task[u]
        /\ u = t => task'[u] = [task[u] EXCEPT !.capture = "captured", !.seen = session.ids,
                                              !.process = "pending"]
    <3>1. task' = [task EXCEPT ![t] = [task[t] EXCEPT !.capture = "captured",
                                         !.seen = session.ids, !.process = "pending"]]
      BY <1>5 DEF Capture
    <3>2. task \in [Topics -> Tasks] /\ item' = item
      BY <1>5 DEF Capture, TypeOK
    <3> QED BY <1>1, <1>5, <3>1, <3>2
  <2>2. CASE u = t
    <3>1. p \in session.ids
      BY <1>5, <2>2 DEF Capture, Working, FetchIsRecent, PostsOf
    <3>2. p \in task'[u].seen /\ task'[u].process = "pending"
      BY <1>1, <2>1, <2>2, <3>1 DEF Tasks
    <3> QED BY <1>1, <3>2 DEF Known
  <2>3. CASE u # t
    BY <1>1, <2>1, <2>3 DEF Known
  <2> QED BY <2>2, <2>3
<1>6. ASSUME NEW t \in Topics, CaptureFails(t) PROVE Known(p)'
  <2>1. item' = item /\ (task'[u] = task[u] \/ task'[u].capture = "retry")
    BY <1>1, <1>6 DEF CaptureFails, TypeOK, Tasks
  <2> QED BY <1>1, <2>1 DEF Known
<1>7. ASSUME NEW t \in Topics, Process(t) PROVE Known(p)'
  <2>1. /\ task'[u].capture = task[u].capture /\ task'[u].seen = task[u].seen
        /\ u # t => task'[u].process = task[u].process /\ item'[u] = item[u]
        /\ u = t => item'[u] = task[u].seen
    BY <1>1, <1>7 DEF Process, TypeOK, Tasks
  <2> QED BY <1>1, <2>1 DEF Known
<1>8. ASSUME NEW t \in Topics, ProcessFails(t) PROVE Known(p)'
  <2>1. /\ task'[u].capture = task[u].capture /\ task'[u].seen = task[u].seen
        /\ task'[u].process = task[u].process \/ task'[u].process = "retry"
        /\ item' = item
    BY <1>1, <1>8 DEF ProcessFails, TypeOK, Tasks
  <2> QED BY <1>1, <2>1 DEF Known
<1>9. CASE Environment
  BY <1>2, <1>9 DEF Environment, Publish, Hide, Elapse, Crash
<1>10. CASE Continue
  BY <1>2, <1>4, <1>10 DEF Continue, SomeRefresh, SomeSelect, Select, Finish, Fetch
<1>11. CASE Scan \/ ScanHistory
  BY <1>2, <1>11 DEF Scan, ScanHistory, HistoryIsDone
<1>12. CASE SomeTopics \/ DiscoveryFails \/ \E job \in Jobs : Start(job)
  BY <1>2, <1>3, <1>12 DEF SomeTopics, DiscoveryFails, Start
<1>13. CASE UNCHANGED vars
  BY <1>2, <1>13 DEF vars
<1> QED BY <1>5, <1>6, <1>7, <1>8, <1>9, <1>10, <1>11, <1>12, <1>13 DEF Next, Step
LEMMA PromisesStep ==
    ASSUME TypeOK, Anchored, PromisesKept, FetchIsRecent, [Next]_vars
    PROVE  PromisesKept'
<1>1. CASE \E t \in Topics : Publish(t)
  BY <1>1, PublishKeepsPromises
<1>2. CASE \E low, top \in 0..Len(posts) : ScanPage(low, top) \/ HistoryPage(low, top)
  BY <1>2, ScanKeepsPromises, HistoryKeepsPromises
<1>3. CASE /\ ~\E t \in Topics : Publish(t)
           /\ ~\E low, top \in 0..Len(posts) : ScanPage(low, top) \/ HistoryPage(low, top)
  <2>1. UNCHANGED <<posts, sync, marks>>
    BY <1>3, CursorsStay
  <2>2. hidden \subseteq hidden'
    BY <1>3, HiddenStays
  <2> SUFFICES ASSUME NEW p \in Visible', Promised(p)' PROVE Known(p)'
    BY DEF PromisesKept
  <2>3. p \in Visible /\ Promised(p)
    BY <2>1, <2>2 DEF Visible, Published, Promised
  <2>4. Known(p)
    BY <2>3 DEF PromisesKept
  <2> QED BY <1>3, <2>1, <2>3, <2>4, TasksKeepKnown
<1> QED BY <1>1, <1>2, <1>3

LEMMA FetchIsRecentStep ==
    ASSUME TypeOK, Anchored, FetchIsRecent, [Next]_vars
    PROVE  FetchIsRecent'
<1>1. ASSUME NEW t \in Topics, Publish(t) PROVE FetchIsRecent'
  <2>1. /\ Len(posts) \in Nat /\ Len(posts') = Len(posts) + 1
        /\ \A p \in 1..Len(posts) : posts'[p] = posts[p]
        /\ sync \in Cursor /\ marks.head \in Nat
        /\ UNCHANGED <<hidden, sync, session, marks>>
    BY <1>1 DEF TypeOK, Publish
  <2> SUFFICES ASSUME session.phase = "fetched", NEW p \in PostsOf(Head(session.batch))',
                      Promised(p)'
               PROVE  session.batch # <<>> /\ p \in session.ids
    BY <2>1 DEF FetchIsRecent
  <2>2. p \in Nat /\ p # 0 /\ Promised(p)
    BY <2>1 DEF PostsOf, Visible, Published, PostIds, Promised
  <2>3. p <= Len(posts)
    BY <2>1, <2>2 DEF Promised, Anchored, Cursor
  <2>4. p \in PostsOf(Head(session.batch))
    BY <2>1, <2>2, <2>3 DEF PostsOf, Visible, Published, PostIds
  <2> QED BY <2>2, <2>4 DEF FetchIsRecent
<1>2. ASSUME NEW t \in Topics, Fetch(t) PROVE FetchIsRecent'
  <2>1. /\ session'.batch = session.batch /\ session'.ids = PostsOf(t)
        /\ session.batch # <<>> /\ t = Head(session.batch)
        /\ UNCHANGED <<posts, hidden>>
    BY <1>2 DEF Fetch, Working, TypeOK, Sessions
  <2>2. PostsOf(Head(session.batch))' = PostsOf(t)
    <3>1. Head(session.batch)' = t
      BY <2>1
    <3> QED BY <2>1, <3>1 DEF PostsOf, Visible, Published
  <2>3. session'.batch # <<>> /\ \A p \in PostsOf(Head(session.batch))' : p \in session'.ids
    BY <2>1, <2>2
  <2> QED BY <2>3 DEF FetchIsRecent
<1>3. ASSUME UNCHANGED <<posts, sync, session, marks>>, hidden \subseteq hidden'
      PROVE  FetchIsRecent'
  BY <1>3 DEF FetchIsRecent, PostsOf, Visible, Published, Promised
<1>4. ASSUME session'.phase # "fetched" PROVE FetchIsRecent'
  BY <1>4 DEF FetchIsRecent
<1>5. CASE Environment
  <2>1. CASE Crash
    BY <1>4, <2>1 DEF Crash, Resting
  <2>2. CASE \E t \in Topics : Publish(t)
    BY <1>1, <2>2
  <2>3. CASE \E p \in PostIds : Hide(p)
    BY <1>3, <2>3 DEF Hide
  <2>4. CASE \E s \in Stages, t \in Topics : Elapse(s, t)
    BY <1>3, <2>4 DEF Elapse
  <2> QED BY <1>5, <2>1, <2>2, <2>3, <2>4 DEF Environment
<1>6. CASE Continue
  <2>1. CASE SomeRefresh
    BY <1>4, <2>1 DEF SomeRefresh, Refresh, TypeOK, Sessions
  <2>2. CASE SomeSelect
    BY <1>4, <2>2 DEF SomeSelect, Select, TypeOK, Sessions
  <2>3. CASE Finish
    BY <1>4, <2>3 DEF Finish, Resting
  <2> QED BY <1>2, <1>6, <2>1, <2>2, <2>3 DEF Continue
<1>7. CASE Scan \/ ScanHistory
  <2>1. ASSUME NEW c, AfterPage(c), session.phase = "discover" PROVE session'.phase # "fetched"
    BY <2>1 DEF AfterPage, TypeOK, Sessions
  <2>2. CASE HistoryIsDone
    BY <1>4, <2>2 DEF HistoryIsDone, TypeOK, Sessions
  <2>3. ASSUME NEW low, NEW top, ScanPage(low, top) PROVE FetchIsRecent'
    BY <1>4, <2>1, <2>3 DEF ScanPage, Discovering
  <2>4. ASSUME NEW low, NEW top, HistoryPage(low, top) PROVE FetchIsRecent'
    BY <1>4, <2>1, <2>4 DEF HistoryPage, Discovering
  <2> QED BY <1>7, <2>2, <2>3, <2>4 DEF Scan, ScanHistory
<1>8. CASE SomeTopics \/ DiscoveryFails \/ \E job \in Jobs : Start(job)
  BY <1>4, <1>8 DEF SomeTopics, EnqueueTopics, DiscoveryFails, Start, Resting, TypeOK, Sessions
<1>9. ASSUME NEW t \in Topics, Capture(t) \/ CaptureFails(t) \/ Process(t) \/ ProcessFails(t)
      PROVE  FetchIsRecent'
  <2>1. NextInBatch
    BY <1>9 DEF Capture, CaptureFails, Process, ProcessFails
  <2> QED BY <1>4, <2>1 DEF NextInBatch, TypeOK, Sessions
<1>10. CASE UNCHANGED vars
  BY <1>3, <1>10 DEF vars
<1> QED BY <1>5, <1>6, <1>7, <1>8, <1>9, <1>10 DEF Next, Step
-----------------------------------------------------------------------------
(* A selected topic stays due.                                             *)

(* Nothing that a job does before it selects leaves the capture queue. *)
LEMMA JoinKeeps ==
    ASSUME NEW q \in Queues, NEW ts \in SUBSET Topics
    PROVE  q.due \subseteq Join(q, ts).due
  BY DEF Queues, Join, Leave

(* A selection names distinct due topics. *)
LEMMA FirstOfDue ==
    ASSUME TypeOK, NEW n \in Nat, NEW b \in FirstOf("capture", n)
    PROVE  /\ \A i \in DOMAIN b : b[i] \in queue["capture"].due
           /\ \A i, j \in DOMAIN b : i # j => b[i] # b[j]
<1>1. PICK k \in 0..n : b \in [1..k -> Eligible("capture")]
  BY DEF FirstOf
<1>2. \A i, j \in DOMAIN b : i < j => b[i] # b[j]
  BY DEF FirstOf
<1>3. Eligible("capture") = queue["capture"].due
  BY DEF Eligible
<1>4. \A i, j \in DOMAIN b : i \in Int /\ j \in Int /\ (i # j => i < j \/ j < i)
  BY <1>1
<1>5. \A i, j \in DOMAIN b : i # j => b[i] # b[j]
  BY <1>2, <1>4
<1> QED BY <1>1, <1>3, <1>5

(* The topic at hand leaves the queue, those behind it do not. *)
LEMMA TailIsDue ==
    ASSUME TypeOK, BatchIsDue, NEW t \in Topics, NextInBatch,
           NEW f \in {"work", "fetched"}, Working(t, "capture", f),
           queue'["capture"].due = queue["capture"].due \ {t}
    PROVE  BatchIsDue'
<1> DEFINE b == session.batch
           due == queue["capture"].due
<1>1. b \in Seq(Topics) /\ b # <<>> /\ t = b[1] /\ session'.batch = Tail(b)
  BY DEF TypeOK, Sessions, Working, NextInBatch
<1>2. /\ \A i \in 1..Len(b) : b[i] \in due
      /\ \A i, j \in 1..Len(b) : i # j => b[i] # b[j]
  BY <1>1 DEF BatchIsDue, Working
<1>3. DOMAIN Tail(b) = 1..(Len(b) - 1) /\ \A i \in DOMAIN Tail(b) : Tail(b)[i] = b[i + 1]
  BY <1>1
<1>4. ASSUME NEW i \in DOMAIN Tail(b) PROVE Tail(b)[i] \in due \ {t}
  <2>1. i + 1 \in 1..Len(b) /\ 1 \in 1..Len(b) /\ i + 1 # 1
    BY <1>1, <1>3
  <2> QED BY <1>1, <1>2, <1>3, <2>1
<1>5. ASSUME NEW i \in DOMAIN Tail(b), NEW j \in DOMAIN Tail(b), i # j
      PROVE  Tail(b)[i] # Tail(b)[j]
  <2>1. i + 1 \in 1..Len(b) /\ j + 1 \in 1..Len(b) /\ i + 1 # j + 1
    BY <1>1, <1>3, <1>5
  <2> QED BY <1>2, <1>3, <2>1
<1> HIDE DEF b, due
<1>6. DOMAIN session'.batch = DOMAIN Tail(b)
  BY <1>1
<1> QED BY <1>1, <1>4, <1>5, <1>6 DEF BatchIsDue, due

(* The due topics of the capture queue, action by action. *)
LEMMA BatchIsDueStep ==
    ASSUME TypeOK, BatchIsDue, [Next]_vars
    PROVE  BatchIsDue'
<1>1. ASSUME session'.phase \notin {"work", "fetched"} PROVE BatchIsDue'
  BY <1>1 DEF BatchIsDue
<1>2. ASSUME session'.batch = session.batch, session'.job = session.job,
             session.phase \in {"work", "fetched"},
             queue["capture"].due \subseteq queue'["capture"].due
      PROVE  BatchIsDue'
  BY <1>2 DEF BatchIsDue, Stage
<1>3. ASSUME session' = session, queue["capture"].due \subseteq queue'["capture"].due
      PROVE  BatchIsDue'
  <2>1. CASE session.phase \in {"work", "fetched"}
    BY <1>2, <1>3, <2>1
  <2> QED BY <1>1, <1>3, <2>1
<1>4. CASE Environment
  <2>1. ASSUME NEW s \in Stages, NEW t \in Topics, Elapse(s, t) PROVE BatchIsDue'
    <3>1. session' = session /\ queue' = [queue EXCEPT ![s] = Join(queue[s], {t})]
      BY <2>1 DEF Elapse
    <3>2. queue["capture"].due \subseteq queue'["capture"].due
      <4>1. queue[s] \in Queues /\ queue \in [Stages -> Queues] /\ "capture" \in Stages
        BY DEF TypeOK, Stages
      <4>2. queue[s].due \subseteq Join(queue[s], {t}).due
        BY <4>1, JoinKeeps
      <4> QED BY <3>1, <4>1, <4>2
    <3> QED BY <1>3, <3>1, <3>2
  <2>2. CASE Crash
    BY <1>1, <2>2 DEF Crash, Resting
  <2>3. CASE (\E t \in Topics : Publish(t)) \/ (\E p \in PostIds : Hide(p))
    BY <1>3, <2>3 DEF Publish, Hide
  <2> QED BY <1>4, <2>1, <2>2, <2>3 DEF Environment
<1>5. CASE Continue
  <2>1. CASE SomeRefresh
    BY <1>1, <2>1 DEF SomeRefresh, Refresh, TypeOK, Sessions
  <2>2. ASSUME NEW b \in FirstOf(Stage, MaxTopics), Select(b) PROVE BatchIsDue'
    <3>1. session'.batch = b /\ session'.job = session.job /\ queue' = queue
      BY <2>2 DEF Select, TypeOK, Sessions
    <3>2. CASE Stage = "capture"
      BY <2>2, <3>1, <3>2, FirstOfDue, LimitsAssumption DEF BatchIsDue
    <3>3. CASE Stage # "capture"
      BY <3>1, <3>3 DEF BatchIsDue, Stage
    <3> QED BY <3>2, <3>3
  <2>3. CASE Finish
    BY <1>1, <2>3 DEF Finish, Resting
  <2>4. ASSUME NEW t \in Topics, Fetch(t) PROVE BatchIsDue'
    BY <1>2, <2>4 DEF Fetch, Working, TypeOK, Sessions
  <2> QED BY <1>5, <2>1, <2>2, <2>3, <2>4 DEF Continue, SomeSelect
<1>6. CASE Scan \/ ScanHistory
  <2>1. ASSUME NEW c, AfterPage(c), session.phase = "discover"
        PROVE  session'.phase \notin {"work", "fetched"}
    BY <2>1 DEF AfterPage, TypeOK, Sessions
  <2>2. CASE HistoryIsDone
    BY <1>1, <2>2 DEF HistoryIsDone, TypeOK, Sessions
  <2>3. ASSUME NEW low, NEW top, ScanPage(low, top) PROVE BatchIsDue'
    BY <1>1, <2>1, <2>3 DEF ScanPage, Discovering
  <2>4. ASSUME NEW low, NEW top, HistoryPage(low, top) PROVE BatchIsDue'
    BY <1>1, <2>1, <2>4 DEF HistoryPage, Discovering
  <2> QED BY <1>6, <2>2, <2>3, <2>4 DEF Scan, ScanHistory
<1>7. CASE SomeTopics \/ DiscoveryFails \/ \E job \in Jobs : Start(job)
  BY <1>1, <1>7 DEF SomeTopics, EnqueueTopics, DiscoveryFails, Start, Resting, TypeOK, Sessions
<1>8. ASSUME NEW t \in Topics, Capture(t) \/ CaptureFails(t) PROVE BatchIsDue'
  <2>1. NextInBatch /\ \E f \in {"work", "fetched"} : Working(t, "capture", f)
    BY <1>8 DEF Capture, CaptureFails
  <2>2. queue'["capture"] = Leave(queue["capture"], {t})
    BY <1>8 DEF Capture, CaptureFails, TypeOK, Stages
  <2>3. queue'["capture"].due = queue["capture"].due \ {t}
    BY <2>2 DEF Leave
  <2> QED BY <2>1, <2>3, TailIsDue
<1>9. ASSUME NEW t \in Topics, Process(t) \/ ProcessFails(t) PROVE BatchIsDue'
  <2>1. Stage = "process" /\ session'.job = session.job
    BY <1>9 DEF Process, ProcessFails, Working, NextInBatch, TypeOK, Sessions
  <2> QED BY <2>1 DEF BatchIsDue, Stage
<1>10. CASE UNCHANGED vars
  BY <1>3, <1>10 DEF vars
<1> QED BY <1>4, <1>5, <1>6, <1>7, <1>8, <1>9, <1>10 DEF Next, Step

-----------------------------------------------------------------------------
(* The inductive invariant and what follows from it. *)

(* Every state of the specification satisfies the inductive invariant.     *)
THEOREM InductiveInvariant == Spec => []Inductive
<1>1. ASSUME Init PROVE Inductive
  <2>1. TypeOK
    BY <1>1, TypeInit
  <2>2. Anchored /\ FetchIsRecent /\ BatchIsDue
    BY <1>1 DEF Init, Anchored, FetchIsRecent, BatchIsDue, Resting
  <2>3. PromisesKept
    BY <1>1 DEF Init, PromisesKept, Visible, Published, PostIds
  <2> QED BY <2>1, <2>2, <2>3 DEF Inductive
<1>2. Inductive /\ [Next]_vars => Inductive'
  BY TypeStep, AnchoredStep, PromisesStep, FetchIsRecentStep, BatchIsDueStep DEF Inductive
<1> QED BY <1>1, <1>2, PTL DEF Spec

(* The watermark tells the truth: whatever pages a scan was cut off at,    *)
(* whatever failed, was hidden or was published in between, and however    *)
(* often the process died, no visible post it covers is lost.              *)
THEOREM WatermarkReliable == Spec => []WatermarkIsReliable
<1>1. Inductive => WatermarkIsReliable
  BY DEF Inductive, PromisesKept, Promised, WatermarkIsReliable
<1> QED BY <1>1, InductiveInvariant, PTL

(* A complete history and the watermark leave no gap, once the history     *)
(* scan began at or after the first page of the incremental one.           *)
THEOREM HistoryJoins == Spec => []HistoryJoinsStream
<1>1. ASSUME Inductive PROVE HistoryJoinsStream
  <2> SUFFICES ASSUME sync.started, sync.backDone, marks.head >= marks.origin,
                      NEW p \in Visible, p <= sync.watermark
               PROVE  Known(p)
    BY DEF HistoryJoinsStream
  <2>1. p \in Nat /\ marks.head \in Nat /\ marks.origin \in Nat
    BY <1>1 DEF Inductive, TypeOK, Visible, Published, PostIds
  <2>2. Promised(p)
    BY <2>1 DEF Promised
  <2> QED BY <1>1, <2>2 DEF Inductive, PromisesKept
<1> QED BY <1>1, InductiveInvariant, PTL

(* A discovery, a refresh or another topic's attempt never cuts a backoff  *)
(* short: a topic that waits for its retry becomes due through the clock.  *)
THEOREM BackoffKept == Spec => BackoffIsKept
<1>1. ASSUME Inductive, [Next]_vars, NEW t \in Topics,
             task[t].capture = "retry", t \notin queue["capture"].due
      PROVE  /\ task'[t].capture = "retry"
             /\ t \in queue'["capture"].due => UNCHANGED <<task, session>>
  <2>0. /\ TypeOK /\ BatchIsDue /\ task[t] \in Tasks /\ task \in [Topics -> Tasks]
        /\ queue["capture"] \in Queues /\ queue \in [Stages -> Queues] /\ "capture" \in Stages
    BY <1>1 DEF Inductive, TypeOK, Stages
  <2>1. ASSUME task' = task, session' = session
        PROVE  /\ task'[t].capture = "retry"
               /\ t \in queue'["capture"].due => UNCHANGED <<task, session>>
    BY <1>1, <2>1
  <2>2. ASSUME task'[t] = task[t] \/ task'[t].capture = "retry", t \notin queue'["capture"].due
        PROVE  /\ task'[t].capture = "retry"
               /\ t \in queue'["capture"].due => UNCHANGED <<task, session>>
    BY <1>1, <2>2
  <2>3. ASSUME NEW ts \in SUBSET Topics, NEW n \in {0, 10, 20}, Enqueue(ts, n)
        PROVE  task'[t] = task[t] /\ t \notin queue'["capture"].due
    <3>1. t \notin Requeued(ts)
      BY <1>1 DEF Requeued
    <3>2. task'[t] = task[t]
      BY <1>1, <2>3, <3>1 DEF Enqueue
    <3>3. queue'["capture"] = Join(queue["capture"], Requeued(ts))
      BY <2>0, <2>3 DEF Enqueue
    <3> QED BY <1>1, <3>1, <3>2, <3>3 DEF Join, Leave
  <2>4. CASE Environment
    <3>1. CASE Crash
      BY <1>1, <2>2, <3>1 DEF Crash
    <3> QED BY <2>1, <2>4, <3>1 DEF Environment, Publish, Hide, Elapse
  <2>5. ASSUME NEW low \in 0..Len(posts), NEW top \in 0..Len(posts), ScanPage(low, top)
        PROVE  task'[t] = task[t] /\ t \notin queue'["capture"].due
    <3>1. {posts[p] : p \in {q \in Page(sync.before, low) : q > sync.watermark}} \in SUBSET Topics
      BY <2>0, PageTopics DEF Page
    <3> QED BY <2>3, <2>5, <3>1 DEF ScanPage
  <2>6. ASSUME NEW low \in 0..Len(posts), NEW top \in 0..Len(posts), HistoryPage(low, top)
        PROVE  task'[t] = task[t] /\ t \notin queue'["capture"].due
    <3>1. {posts[p] : p \in Page(sync.backBefore, low)} \in SUBSET Topics
      BY <2>0, PageTopics DEF Page
    <3> QED BY <2>3, <2>6, <3>1 DEF HistoryPage
  <2>7. CASE SomeTopics
    BY <2>2, <2>3, <2>7 DEF SomeTopics, EnqueueTopics
  <2>8. CASE HistoryIsDone \/ DiscoveryFails \/ Finish \/ SomeSelect
             \/ (\E job \in Jobs : Start(job)) \/ (\E u \in Topics : Fetch(u))
    BY <1>1, <2>2, <2>8 DEF HistoryIsDone, DiscoveryFails, Finish, SomeSelect, Select, Start, Fetch
  <2>9. ASSUME NEW b \in FirstOf("refresh", RefreshBudget), Refresh(b)
        PROVE  task'[t] = task[t] /\ t \notin queue'["capture"].due
    <3> DEFINE old == {b[i] : i \in DOMAIN b}
    <3>1. t \notin old
      <4>1. PICK k \in 0..RefreshBudget : b \in [1..k -> Eligible("refresh")]
        BY DEF FirstOf
      <4>2. t \notin Eligible("refresh")
        BY <1>1 DEF Eligible
      <4> QED BY <4>1, <4>2
    <3>2. task'[t] = task[t] /\ queue'["capture"] = Join(queue["capture"], old)
      BY <2>0, <2>9, <3>1 DEF Refresh
    <3> QED BY <1>1, <3>1, <3>2 DEF Join, Leave
  <2>10. ASSUME NEW u \in Topics, Capture(u) \/ CaptureFails(u)
         PROVE  task'[t] = task[t] /\ t \notin queue'["capture"].due
    <3>1. u \in queue["capture"].due
      <4>1. /\ session.batch # <<>> /\ u = session.batch[1] /\ session.batch \in Seq(Topics)
            /\ Stage = "capture" /\ session.phase \in {"work", "fetched"}
        BY <2>0, <2>10 DEF Capture, CaptureFails, Working, TypeOK, Sessions
      <4>2. 1 \in DOMAIN session.batch
        BY <4>1
      <4> QED BY <2>0, <4>1, <4>2 DEF BatchIsDue
    <3>2. queue'["capture"] = Leave(queue["capture"], {u})
      BY <2>0, <2>10 DEF Capture, CaptureFails
    <3>3. task'[t] = task[t]
      BY <1>1, <2>0, <2>10, <3>1 DEF Capture, CaptureFails
    <3> QED BY <1>1, <3>2, <3>3 DEF Leave
  <2>11. ASSUME NEW u \in Topics, Process(u) \/ ProcessFails(u)
         PROVE  task'[t].capture = task[t].capture /\ t \notin queue'["capture"].due
    <3>1. task'[t].capture = task[t].capture
      BY <2>0, <2>11 DEF Process, ProcessFails, Tasks
    <3>2. queue'["capture"] = queue["capture"]
      BY <2>0, <2>11 DEF Process, ProcessFails
    <3> QED BY <1>1, <3>1, <3>2
  <2>12. CASE UNCHANGED vars
    BY <2>1, <2>12 DEF vars
  <2> QED BY <1>1, <2>2, <2>4, <2>5, <2>6, <2>7, <2>8, <2>9, <2>10, <2>11, <2>12
          DEF Next, Step, Continue, Scan, ScanHistory, SomeRefresh
<1>2. Inductive /\ [Next]_vars =>
        [\A t \in Topics :
           task[t].capture = "retry" /\ t \notin queue["capture"].due
             => /\ task'[t].capture = "retry"
                /\ t \in queue'["capture"].due => UNCHANGED <<task, session>>]_vars
  BY <1>1
<1> QED BY <1>2, InductiveInvariant, PTL DEF BackoffIsKept, Spec

(* Neither scan leaves a gap below the watermark. *)
THEOREM StreamJoins == Spec => []StreamIsJoined
  BY TypeCorrect, WatermarkReliable, HistoryJoins, PTL DEF StreamIsJoined
=============================================================================
