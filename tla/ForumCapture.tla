------------------------------ MODULE ForumCapture ------------------------------
(***************************************************************************)
(* The Discourse collector of tools/forum-crawler/scripts for one forum:   *)
(* discovery of posts (an incremental scan with a watermark and a history  *)
(* scan with a cursor of its own), the durable queue of topics, the        *)
(* capture of complete topics and the processing of their snapshots.       *)
(*                                                                         *)
(* Every job holds the forum's advisory lock from its first commit to its  *)
(* last, so there is one session at a time.  What interleaves with it is   *)
(* the forum itself, the clock, and the death of the process between two   *)
(* commits.                                                                *)
(***************************************************************************)
EXTENDS Naturals, Sequences, FiniteSets

CONSTANTS
    Topics,
    Jobs,           \* the jobs the timers start
    PageSize,       \* posts on a page of /posts.json
    MaxPages,       \* --max-pages
    MaxTopics,      \* --max-topics of a capture, --limit of a processing
    RefreshLimit,   \* --refresh-limit
    RootsVanish,    \* a topic's first post may disappear, and the topic with it
    MaxPosts, MaxHides, MaxCrashes   \* bounds on what the environment does

AllJobs == {"incremental", "backfill", "manual", "process"}

ASSUME TopicsAssumption == IsFiniteSet(Topics)
ASSUME JobsAssumption == Jobs \subseteq AllJobs /\ RootsVanish \in BOOLEAN
ASSUME LimitsAssumption ==
    /\ PageSize \in Nat \ {0} /\ MaxPages \in Nat \ {0} /\ MaxTopics \in Nat \ {0}
    /\ RefreshLimit \in Nat
    /\ MaxPosts \in Nat /\ MaxHides \in Nat /\ MaxCrashes \in Nat

VARIABLES
    posts,      \* posts[p] is the topic of the post with id p
    hidden,     \* posts the forum no longer shows
    sync,       \* forum_sync_states.state_json
    task,       \* forum_topic_tasks
    queue,      \* the due tasks of each stage, and which became due before which
    item,       \* the posts laid out in the content item of each topic
    session,    \* the job that holds the advisory lock
    marks,      \* history: where the two scans began
    crashes

vars == <<posts, hidden, sync, task, queue, item, session, marks, crashes>>

Stages == {"capture", "process", "refresh"}
Phases == {"idle", "discover", "refresh", "select", "work", "fetched"}
PostIds == 1..MaxPosts

(* Missing keys of state_json read as 0 or as false: started says that the *)
(* watermark key is there, head is scan_head, before is scan_before.       *)
Cursor == [started : BOOLEAN, watermark : Nat, head : Nat, before : Nat,
           backBefore : Nat, backDone : BOOLEAN]
Tasks == [capture : {"none", "pending", "retry", "captured"}, priority : {0, 10, 20},
          seen : SUBSET PostIds, process : {"waiting", "pending", "retry", "done"}]
Queues == [due : SUBSET Topics, ahead : SUBSET (Topics \X Topics)]
Sessions == [job : AllJobs \cup {"none"}, phase : Phases, pages : Nat,
             batch : Seq(Topics), ids : SUBSET PostIds]

Resting == [job |-> "none", phase |-> "idle", pages |-> 0, batch |-> <<>>, ids |-> {}]

Init ==
    /\ posts = <<>> /\ hidden = {}
    /\ sync = [started |-> FALSE, watermark |-> 0, head |-> 0, before |-> 0,
               backBefore |-> 0, backDone |-> FALSE]
    /\ task = [t \in Topics |-> [capture |-> "none", priority |-> 0,
                                 seen |-> {}, process |-> "waiting"]]
    /\ queue = [s \in Stages |-> [due |-> {}, ahead |-> {}]]
    /\ item = [t \in Topics |-> {}]
    /\ session = Resting
    /\ marks = [origin |-> 0, head |-> 0]
    /\ crashes = 0

Published == {p \in PostIds : p <= Len(posts)}
Visible == Published \ hidden
PostsOf(t) == {p \in Visible : posts[p] = t}
IsRoot(p) == \A q \in Published : posts[q] = posts[p] => p <= q

-----------------------------------------------------------------------------
(* Queues.  A timestamp set to now, or reached by the clock, puts its task *)
(* behind those whose timestamps had come before; tasks stamped together   *)
(* are in no particular order.                                             *)

Leave(q, ts) == [due |-> q.due \ ts,
                 ahead |-> {e \in q.ahead : e[1] \notin ts /\ e[2] \notin ts}]
Join(q, ts) == LET rest == Leave(q, ts)
               IN  [due |-> rest.due \cup ts, ahead |-> rest.ahead \cup (rest.due \X ts)]

Rank(s, t) == IF s = "refresh" THEN 0 ELSE task[t].priority
Before(s, t, u) == \/ Rank(s, t) < Rank(s, u)
                   \/ Rank(s, t) = Rank(s, u) /\ <<u, t>> \notin queue[s].ahead

Eligible(s) == IF s = "refresh"
               THEN {t \in queue[s].due : task[t].capture = "captured"}
               ELSE queue[s].due

(* ORDER BY priority and timestamp, LIMIT limit. *)
FirstOf(s, limit) ==
    {b \in UNION {[1..n -> Eligible(s)] : n \in 0..limit} :
        /\ \A i, j \in DOMAIN b : i < j => b[i] # b[j] /\ Before(s, b[i], b[j])
        /\ Len(b) < limit => Eligible(s) \subseteq {b[i] : i \in DOMAIN b}
        /\ \A t \in Eligible(s) \ {b[i] : i \in DOMAIN b}, i \in DOMAIN b : Before(s, b[i], t)}

(* Mutant: a rediscovered topic is tried again at once. *)
RequeuedImpatient(ts) == {t \in ts : task[t].capture \in {"none", "captured", "retry"}}

(* The topics a discovery puts in the capture queue: the others are in it  *)
(* already, and one that waits for its backoff goes on waiting.            *)
Requeued(ts) == {t \in ts : task[t].capture \in {"none", "captured"}}

Smaller(a, b) == IF a < b THEN a ELSE b

(* enqueue *)
Enqueue(ts, priority) ==
    /\ task' = [t \in Topics |->
                    IF t \in Requeued(ts)
                    THEN [task[t] EXCEPT !.capture = "pending", !.priority = priority]
                    ELSE IF t \in ts /\ task[t].capture = "pending"
                    THEN [task[t] EXCEPT !.priority = Smaller(task[t].priority, priority)]
                    ELSE task[t]]
    /\ queue' = [queue EXCEPT !["capture"] = Join(queue["capture"], Requeued(ts))]

-----------------------------------------------------------------------------
(* The forum, the clock and the operating system. *)

Publish(t) ==
    /\ Len(posts) < MaxPosts
    /\ posts' = Append(posts, t)
    /\ UNCHANGED <<hidden, sync, task, queue, item, session, marks, crashes>>

Hide(p) ==
    /\ p \in Visible /\ Cardinality(hidden) < MaxHides
    /\ RootsVanish \/ ~IsRoot(p)
    /\ hidden' = hidden \cup {p}
    /\ UNCHANGED <<posts, sync, task, queue, item, session, marks, crashes>>

(* A backoff runs out, or a capture becomes older than --refresh-hours,    *)
(* which matters to a collector that refreshes.                            *)
Elapse(s, t) ==
    /\ t \notin queue[s].due
    /\ CASE s = "capture" -> task[t].capture = "retry"
         [] s = "process" -> task[t].process = "retry"
         [] s = "refresh" -> task[t].seen # {} /\ RefreshLimit # 0
    /\ queue' = [queue EXCEPT ![s] = Join(queue[s], {t})]
    /\ UNCHANGED <<posts, hidden, sync, task, item, session, marks, crashes>>

Crash ==
    /\ session.phase # "idle" /\ crashes < MaxCrashes
    /\ session' = Resting
    /\ crashes' = crashes + 1
    /\ UNCHANGED <<posts, hidden, sync, task, queue, item, marks>>

-----------------------------------------------------------------------------
(* A job begins with the forum's advisory lock, which it tries once. *)

Start(job) ==
    /\ session.phase = "idle"
    /\ session' = [Resting EXCEPT !.job = job,
                                  !.phase = IF job = "process" THEN "select" ELSE "discover"]
    /\ UNCHANGED <<posts, hidden, sync, task, queue, item, marks, crashes>>

Discovering(job) == session.phase = "discover" /\ session.job = job

(* The page of /posts.json before the post b (from the newest, when b = 0): *)
(* the visible posts from low on, top being the newest of them.  It is      *)
(* empty only when the forum has nothing there.                             *)
Page(b, low) == {p \in Visible : low <= p /\ (b = 0 \/ p < b)}

IsPage(b, low, top) ==
    \/ /\ low \in Page(b, low) /\ top \in Page(b, low)
       /\ \A p \in Page(b, low) : p <= top
       /\ Cardinality(Page(b, low)) <= PageSize
    \/ low = 0 /\ top = 0 /\ Page(b, 0) = {}

AfterPage(complete) ==
    session' = IF complete \/ session.pages + 1 = MaxPages
               THEN [session EXCEPT !.phase = "refresh"]
               ELSE [session EXCEPT !.pages = session.pages + 1]

(* Mutant: the watermark follows the newest post of each page. *)
CompletesEarly(low) == TRUE
(* The page reaches what the watermark covers, is empty (low = 0), or is   *)
(* the only page of the first scan.                                        *)
Completes(low) == ~sync.started \/ low <= sync.watermark

Head0(top) == IF sync.head # 0 THEN sync.head ELSE top     \* data["scan_head"]

(* discover_stream, incremental: queued topics and cursor in one commit. *)
ScanPage(low, top) ==
    /\ Discovering("incremental") /\ IsPage(sync.before, low, top)
    /\ Enqueue({posts[p] : p \in {q \in Page(sync.before, low) : q > sync.watermark}}, 0)
    /\ sync' = IF Completes(low)
               THEN [sync EXCEPT !.started = TRUE, !.head = 0, !.before = 0,
                        !.watermark = IF Head0(top) # 0 THEN Head0(top) ELSE sync.watermark]
               ELSE [sync EXCEPT !.head = Head0(top), !.before = low]
    /\ marks' = IF sync.started THEN marks ELSE [marks EXCEPT !.origin = low]
    /\ AfterPage(Completes(low))
    /\ UNCHANGED <<posts, hidden, item, crashes>>

HistoryEnds(low) == low = 0

(* discover_stream, backfill: only an empty page ends the history. *)
HistoryPage(low, top) ==
    /\ Discovering("backfill") /\ ~sync.backDone /\ IsPage(sync.backBefore, low, top)
    /\ Enqueue({posts[p] : p \in Page(sync.backBefore, low)}, 10)
    /\ sync' = [sync EXCEPT !.backBefore = IF low # 0 THEN low ELSE sync.backBefore,
                            !.backDone = HistoryEnds(low)]
    /\ marks' = IF sync.backBefore = 0 THEN [marks EXCEPT !.head = top] ELSE marks
    /\ AfterPage(HistoryEnds(low))
    /\ UNCHANGED <<posts, hidden, item, crashes>>

HistoryIsDone ==
    /\ Discovering("backfill") /\ sync.backDone
    /\ session' = [session EXCEPT !.phase = "refresh"]
    /\ UNCHANGED <<posts, hidden, sync, task, queue, item, marks, crashes>>

(* --topic-id and --query *)
EnqueueTopics(ts) ==
    /\ Discovering("manual")
    /\ Enqueue(ts, 0)
    /\ session' = [session EXCEPT !.phase = "refresh"]
    /\ UNCHANGED <<posts, hidden, sync, item, marks, crashes>>

(* A request or a page that is refused: the cursor stays where it was. *)
DiscoveryFails ==
    /\ session.phase = "discover"
    /\ session' = [session EXCEPT !.phase = "refresh"]
    /\ UNCHANGED <<posts, hidden, sync, task, queue, item, marks, crashes>>

-----------------------------------------------------------------------------
(* The rest of a collector's run, and a processor's. *)

Stage == IF session.job = "process" THEN "process" ELSE "capture"

(* refresh_topics: the oldest captures are queued again, behind everything. *)
(* The backfill timer passes --refresh-limit 0.                             *)
RefreshBudget == IF session.job = "backfill" THEN 0 ELSE RefreshLimit

Refresh(b) ==
    /\ session.phase = "refresh" /\ b \in FirstOf("refresh", RefreshBudget)
    /\ LET old == {b[i] : i \in DOMAIN b}
       IN  /\ task' = [t \in Topics |->
                          IF t \in old
                          THEN [task[t] EXCEPT !.capture = "pending", !.priority = 20]
                          ELSE task[t]]
           /\ queue' = [queue EXCEPT !["capture"] = Join(queue["capture"], old)]
    /\ session' = [session EXCEPT !.phase = "select"]
    /\ UNCHANGED <<posts, hidden, sync, item, marks, crashes>>

Select(b) ==
    /\ session.phase = "select" /\ b \in FirstOf(Stage, MaxTopics)
    /\ session' = [session EXCEPT !.phase = "work", !.batch = b]
    /\ UNCHANGED <<posts, hidden, sync, task, queue, item, marks, crashes>>

Working(t, stage, phase) ==
    /\ session.phase = phase /\ session.batch # <<>> /\ t = Head(session.batch)
    /\ Stage = stage

NextInBatch == session' = [session EXCEPT !.phase = "work", !.ids = {},
                                          !.batch = Tail(session.batch)]

HasRoot(t) == \E p \in PostsOf(t) : IsRoot(p)

(* fetch_topic reads the list of visible posts first, their bodies later. *)
Fetch(t) ==
    /\ Working(t, "capture", "work")
    /\ HasRoot(t)
    /\ session' = [session EXCEPT !.phase = "fetched", !.ids = PostsOf(t)]
    /\ UNCHANGED <<posts, hidden, sync, task, queue, item, marks, crashes>>

(* The snapshot of every listed post, and the task that refers to it. *)
Capture(t) ==
    /\ Working(t, "capture", "fetched")
    /\ task' = [task EXCEPT ![t] = [task[t] EXCEPT !.capture = "captured",
                                       !.seen = session.ids, !.process = "pending"]]
    /\ queue' = [queue EXCEPT !["capture"] = Leave(queue["capture"], {t}),
                              !["refresh"] = Leave(queue["refresh"], {t}),
                              !["process"] = Join(queue["process"], {t})]
    /\ NextInBatch
    /\ UNCHANGED <<posts, hidden, sync, item, marks, crashes>>

(* A request that fails, a body that is missing by now, a topic without its *)
(* first post: no effect of an attempt is left in the queue before it ends. *)
CaptureFails(t) ==
    /\ \/ Working(t, "capture", "fetched")
       \/ Working(t, "capture", "work") /\ ~HasRoot(t)
    /\ task' = [task EXCEPT ![t].capture = "retry"]
    /\ queue' = [queue EXCEPT !["capture"] = Leave(queue["capture"], {t})]
    /\ NextInBatch
    /\ UNCHANGED <<posts, hidden, sync, item, marks, crashes>>

(* Mutant: posts that left the snapshot stay in the item. *)
ProcessAdds(t) ==
    /\ Working(t, "process", "work")
    /\ item' = [item EXCEPT ![t] = @ \cup task[t].seen]
    /\ task' = [task EXCEPT ![t].process = "done"]
    /\ queue' = [queue EXCEPT !["process"] = Leave(queue["process"], {t})]
    /\ NextInBatch
    /\ UNCHANGED <<posts, hidden, sync, marks, crashes>>

(* normalize_topic, of which the model keeps the posts the item then holds. *)
Process(t) ==
    /\ Working(t, "process", "work")
    /\ item' = [item EXCEPT ![t] = task[t].seen]
    /\ task' = [task EXCEPT ![t].process = "done"]
    /\ queue' = [queue EXCEPT !["process"] = Leave(queue["process"], {t})]
    /\ NextInBatch
    /\ UNCHANGED <<posts, hidden, sync, marks, crashes>>

(* Mutant: a failed processing is not tried again. *)
ProcessGivesUp(t) ==
    /\ Working(t, "process", "work")
    /\ task' = [task EXCEPT ![t].process = "done"]
    /\ queue' = [queue EXCEPT !["process"] = Leave(queue["process"], {t})]
    /\ NextInBatch
    /\ UNCHANGED <<posts, hidden, sync, item, marks, crashes>>

ProcessFails(t) ==
    /\ Working(t, "process", "work")
    /\ task' = [task EXCEPT ![t].process = "retry"]
    /\ queue' = [queue EXCEPT !["process"] = Leave(queue["process"], {t})]
    /\ NextInBatch
    /\ UNCHANGED <<posts, hidden, sync, item, marks, crashes>>

Finish ==
    /\ session.phase = "work" /\ session.batch = <<>>
    /\ session' = Resting
    /\ UNCHANGED <<posts, hidden, sync, task, queue, item, marks, crashes>>

Scan == \E low, top \in 0..Len(posts) : ScanPage(low, top)
ScanHistory == HistoryIsDone \/ \E low, top \in 0..Len(posts) : HistoryPage(low, top)
SomeTopics == \E ts \in SUBSET Topics : EnqueueTopics(ts)
SomeRefresh == \E b \in FirstOf("refresh", RefreshBudget) : Refresh(b)
SomeSelect == \E b \in FirstOf(Stage, MaxTopics) : Select(b)

Continue == SomeRefresh \/ SomeSelect \/ Finish \/ \E t \in Topics : Fetch(t)

Environment ==
    \/ \E t \in Topics : Publish(t)
    \/ \E p \in PostIds : Hide(p)
    \/ \E s \in Stages, t \in Topics : Elapse(s, t)
    \/ Crash

Step ==
    \/ \E job \in Jobs : Start(job)
    \/ Scan \/ ScanHistory
    \/ SomeTopics
    \/ DiscoveryFails
    \/ Continue
    \/ \E t \in Topics : \/ Capture(t) \/ CaptureFails(t)
                         \/ Process(t) \/ ProcessFails(t)

Next == Environment \/ Step

Spec == Init /\ [][Next]_vars

(* The timers keep starting each job, whose runs are bounded and leave the *)
(* lock in between; backoffs and captures age; a job goes on; and a request *)
(* or a processing that is tried for ever succeeds in the end.             *)
Fairness ==
    /\ \A job \in Jobs \ {"manual"} : SF_vars(Start(job))
    /\ \A s \in Stages, t \in Topics : WF_vars(Elapse(s, t))
    /\ WF_vars(SomeTopics)
    /\ SF_vars(Scan) /\ \A job \in Jobs \cap {"backfill"} : SF_vars(ScanHistory)
    /\ WF_vars(Continue)
    /\ \A t \in Topics : SF_vars(Capture(t)) /\ SF_vars(Process(t))

FairSpec == Spec /\ Fairness

-----------------------------------------------------------------------------
TypeOK ==
    /\ posts \in Seq(Topics) /\ Len(posts) <= MaxPosts
    /\ hidden \subseteq PostIds
    /\ sync \in Cursor
    /\ task \in [Topics -> Tasks]
    /\ queue \in [Stages -> Queues]
    /\ item \in [Topics -> SUBSET PostIds]
    /\ session \in Sessions
    /\ marks \in [origin : Nat, head : Nat]
    /\ crashes \in Nat

(* A visible post is known when its topic is in the capture queue, or the  *)
(* post is in the snapshot of its topic and then in the item as well or in *)
(* the processing queue.                                                   *)
Known(p) ==
    LET r == task[posts[p]]
    IN  \/ r.capture \in {"pending", "retry"}
        \/ p \in r.seen /\ (p \in item[posts[p]] \/ r.process \in {"pending", "retry"})

(* "The watermark says that content was reliably found and queued"         *)
(* (scripts/README.md): from the first page of the first scan up to the    *)
(* watermark, no visible post is ever lost, wherever a scan was cut off    *)
(* and whatever was published while a topic was being fetched.             *)
WatermarkIsReliable ==
    sync.started => \A p \in Visible : marks.origin <= p /\ p <= sync.watermark => Known(p)

(* The two cursors are independent; still, when the history scan began on  *)
(* a page at or after the first page of the incremental scan, a complete   *)
(* history and the watermark leave no gap between them.                    *)
HistoryJoinsStream ==
    sync.started /\ sync.backDone /\ marks.head >= marks.origin
        => \A p \in Visible : p <= sync.watermark => Known(p)

(* Below the watermark nothing visible is lost, by either scan. *)
StreamIsJoined == TypeOK /\ WatermarkIsReliable /\ HistoryJoinsStream

(* "Discovery must not cancel a server's Retry-After/backoff": a topic that *)
(* waits is retried when its time has come, and by nothing else.            *)
BackoffIsKept ==
    [][\A t \in Topics :
          task[t].capture = "retry" /\ t \notin queue["capture"].due
              => /\ task'[t].capture = "retry"
                 /\ t \in queue'["capture"].due => UNCHANGED <<task, session>>]_vars

(* Every post published after the incremental scan began reaches its       *)
(* topic's content item, unless the forum hides it again.                  *)
PostsArrive ==
    \A p \in PostIds :
        (sync.started /\ p \in Visible /\ p >= marks.origin)
            ~> (p \in hidden \/ (p \in Published /\ p \in item[posts[p]]))

(* A reply the forum hides leaves the content item, through the periodic   *)
(* refresh and without any new post in its topic.                          *)
HiddenPostsLeave ==
    \A p \in PostIds : p \in hidden ~> (p \in Published /\ p \notin item[posts[p]])
=============================================================================
