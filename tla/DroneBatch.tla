------------------------------ MODULE DroneBatch ------------------------------
(***************************************************************************)
(* The batch coordinator of the drone documents                            *)
(* (tools/drone_documents/bulk.py, bulk_finalize.py).  Every document goes *)
(* through prepare, enrich and index; each stage of a job runs in a child  *)
(* process whose verdict is its exit code and a result file.  Queues feed  *)
(* the workers of four lanes (documents without pictures are enriched in a *)
(* lane of their own), and the run ends when the lanes are drained.        *)
(*                                                                         *)
(* What survives is on disk: the stages a job has done, its bundle and the *)
(* result files, which are never removed.  Children run in sessions of     *)
(* their own: they outlive a coordinator that is killed.                   *)
(***************************************************************************)
EXTENDS Naturals, Sequences, FiniteSets, SequencesExt

CONSTANTS
    Plan, Pictured,     \* the documents in the order of the plan; those that have pictures
    BatchWorkers, LaneOf,
    Attempts,
    MaxStarts,          \* bound on the starts of a coordinator
    MaxMishaps,         \* bound on failed stages and on coordinators killed or broken off
    Idle

Stages == <<"prepare", "enrich", "index">>
Lanes == <<"prepare", "enrich", "text_enrich", "index">>     \* in the order they are joined

Jobs == ToSet(Plan)

ASSUME PicturedAssumption == Pictured \subseteq Jobs /\ Idle \notin Jobs
ASSUME LaneAssumption == LaneOf \in [BatchWorkers -> {Lanes[n] : n \in 1 .. 4}]
ASSUME AttemptsAssumption == Attempts \in Nat \ {0} /\ {MaxStarts, MaxMishaps} \subseteq Nat

VARIABLES
    stagesDone, \* jobs/<id>.json: stages
    jobState,   \* jobs/<id>.json: state
    bundles,    \* the bundle directory: none, invalid, prepared or enriched
    results,    \* results/<id>-<stage>.json
    published,  \* jobs whose document is indexed and active
    batchOn, blocked, queue, unfinished, joined,    \* the coordinator
    working,       \* what each worker task holds
    children,   \* stage processes: [job, stage, owner]
    batchStatus,    \* status.json: status
    brokenOff,      \* status.json: orchestrator_error is set
    starts, mishaps

batchVars == <<stagesDone, jobState, bundles, results, published, batchOn, blocked, queue,
               unfinished, joined, working, children, batchStatus, brokenOff, starts, mishaps>>

LaneNames == {Lanes[n] : n \in 1 .. 4}
StageNames == {Stages[n] : n \in 1 .. 3}
StageOf(lane) == IF lane = "text_enrich" THEN "enrich" ELSE lane
BundleStates == {"none", "invalid", "prepared", "enriched"}
Free == [job |-> Idle, tries |-> 0, exit |-> "none"]

BatchInit ==
    /\ stagesDone = [j \in Jobs |-> {}]
    /\ jobState = [j \in Jobs |-> "pending"]
    /\ bundles = [j \in Jobs |-> "none"]
    /\ results = [j \in Jobs |-> [s \in StageNames |-> "none"]]
    /\ published = {}
    /\ batchOn = FALSE /\ blocked = FALSE
    /\ queue = [l \in LaneNames |-> <<>>]
    /\ unfinished = [l \in LaneNames |-> 0]
    /\ joined = 0
    /\ working = [w \in BatchWorkers |-> Free]
    /\ children = {}
    /\ batchStatus = "planned" /\ brokenOff = FALSE /\ starts = 0 /\ mishaps = 0

-----------------------------------------------------------------------------
(* Queues. *)

(* enqueue: the bundle's quality report says whether it has pictures.      *)
LaneFor(j, s) ==
    IF s = "enrich" /\ j \notin Pictured /\ bundles[j] # "none"
    THEN "text_enrich" ELSE s

NextStage(j) == CHOOSE n \in 1 .. 3 : /\ Stages[n] \notin stagesDone[j]
                                      /\ \A m \in 1 .. n - 1 : Stages[m] \in stagesDone[j]
WaitingIn(l) == {j \in Jobs : "index" \notin stagesDone[j] /\ LaneFor(j, Stages[NextStage(j)]) = l}

(* run_batch under the batch's file lock: every job that is not done is    *)
(* queued for its first open stage.                                        *)
StartBatch ==
    /\ ~batchOn /\ starts < MaxStarts /\ starts' = starts + 1
    /\ batchOn' = TRUE /\ blocked' = FALSE /\ joined' = 0
    /\ batchStatus' = "processing" /\ brokenOff' = FALSE
    /\ queue' = [l \in LaneNames |-> SelectSeq(Plan, LAMBDA j : j \in WaitingIn(l))]
    /\ unfinished' = [l \in LaneNames |-> Cardinality(WaitingIn(l))]
    /\ jobState' = [j \in Jobs |-> IF "index" \in stagesDone[j] THEN "done" ELSE "pending"]
    /\ working' = [w \in BatchWorkers |-> Free]
    /\ UNCHANGED <<stagesDone, bundles, results, published, children, mishaps>>

Child(w, j) == [job |-> j, stage |-> StageOf(LaneOf[w]), owner |-> w]
Spawned(w, j) == children \cup {Child(w, j)}

TaskForgotten(l) ==     \* Mutant: a job that waits for the provider is not counted off.
    IF blocked THEN unfinished ELSE [unfinished EXCEPT ![l] = @ - 1]

TaskDone(l) == [unfinished EXCEPT ![l] = @ - 1]

(* A worker takes the next job of its lane; while the provider refuses,    *)
(* documents with pictures are put off.                                    *)
TakeJob(w) ==
    LET l == LaneOf[w]
        j == Head(queue[l])
    IN  /\ batchOn /\ working[w] = Free /\ queue[l] # <<>>
        /\ queue' = [queue EXCEPT ![l] = Tail(@)]
        /\ IF blocked /\ l = "enrich"
           THEN /\ jobState' = [jobState EXCEPT ![j] = "waiting_provider"]
                /\ unfinished' = TaskDone(l)
                /\ UNCHANGED <<working, children>>
           ELSE /\ jobState' = [jobState EXCEPT ![j] = StageOf(l)]
                /\ working' = [working EXCEPT ![w] = [job |-> j, tries |-> 1, exit |-> "none"]]
                /\ children' = Spawned(w, j)
                /\ UNCHANGED unfinished
        /\ UNCHANGED <<stagesDone, bundles, results, published, batchOn, blocked, joined,
                       batchStatus, brokenOff, starts, mishaps>>

-----------------------------------------------------------------------------
(* Stage processes. *)

(* Two processes that work on one bundle at a time can spoil it; the next  *)
(* validation of its hashes shows it.                                      *)
Shared(c) == \E d \in children \ {c} : d.job = c.job
BuiltBundle(c, value) == IF Shared(c) THEN {value, "invalid"} ELSE {value}

Exits(c, verdict) ==
    /\ children' = children \ {c}
    /\ working' = IF c.owner = Idle THEN working ELSE [working EXCEPT ![c.owner].exit = verdict]

HasInput(c) ==
    /\ c.stage = "enrich" => bundles[c.job] # "none"
    /\ c.stage = "index" => bundles[c.job] = "enriched"

(* prepare re-uses a valid bundle and rebuilds any other; enrich rebuilds  *)
(* an invalid one first; index takes only an enriched one.                 *)
ChildSucceeds(c) ==
    /\ c \in children /\ HasInput(c)
    /\ \E value \in CASE c.stage = "prepare" ->
                            IF bundles[c.job] \in {"prepared", "enriched"} THEN {bundles[c.job]}
                            ELSE BuiltBundle(c, "prepared")
                      [] c.stage = "enrich" -> BuiltBundle(c, "enriched")
                      [] c.stage = "index" -> {"enriched"} :
          bundles' = [bundles EXCEPT ![c.job] = value]
    /\ results' = [results EXCEPT ![c.job][c.stage] = "ok"]
    /\ published' = IF c.stage = "index" THEN published \cup {c.job} ELSE published
    /\ Exits(c, "zero")
    /\ UNCHANGED <<stagesDone, jobState, batchOn, blocked, queue, unfinished, joined,
                   batchStatus, brokenOff, starts, mishaps>>

(* What a process that does not succeed leaves of the bundle: an invalid   *)
(* one is put aside before it is built again, and the bundle may be ready, *)
(* or spoiled half-way, before the process ends.                           *)
Leaves(c) ==
    LET old == bundles[c.job] IN
    CASE c.stage = "prepare" /\ old \in {"none", "invalid"} -> {old, "none", "prepared"}
      [] c.stage = "enrich" /\ old \in {"invalid", "prepared"} ->
            {"invalid", "prepared", "enriched"} \cup (IF old = "invalid" THEN {"none"} ELSE {})
      [] OTHER -> {old}

Mishap == mishaps < MaxMishaps /\ mishaps' = mishaps + 1
Unsuccessful(c) == IF HasInput(c) THEN Mishap ELSE UNCHANGED mishaps

(* It reports a failure, or that the provider refuses (401, 402, 403).     *)
ChildFails(c) ==
    /\ c \in children
    /\ \E r \in IF c.stage = "enrich" THEN {"failed", "refused"} ELSE {"failed"} :
          results' = [results EXCEPT ![c.job][c.stage] = r]
    /\ \E value \in Leaves(c) : bundles' = [bundles EXCEPT ![c.job] = value]
    /\ Unsuccessful(c)
    /\ Exits(c, "failed")
    /\ UNCHANGED <<stagesDone, jobState, published, batchOn, blocked, queue, unfinished,
                   joined, batchStatus, brokenOff, starts>>

Publishable(c) == c.stage = "index" /\ bundles[c.job] = "enriched"

(* It crashes, or runs out of time and is killed: the result file is the   *)
(* one of an earlier attempt, if there is one.                             *)
ChildLost(c) ==
    /\ c \in children
    /\ \E value \in Leaves(c) : bundles' = [bundles EXCEPT ![c.job] = value]
    /\ published' \in {published, IF Publishable(c) THEN published \cup {c.job} ELSE published}
    /\ Unsuccessful(c)
    /\ Exits(c, "failed")
    /\ UNCHANGED <<stagesDone, jobState, results, batchOn, blocked, queue, unfinished, joined,
                   batchStatus, brokenOff, starts>>

-----------------------------------------------------------------------------
(* Verdicts. *)

StageSucceeded(w, j, s) == working[w].exit = "zero" /\ results[j][s] = "ok"

Finish(w) == working' = [working EXCEPT ![w] = Free]
Enqueued(l, j) == [queue EXCEPT ![l] = Append(@, j)]
NextLane(j, s) == IF s = "prepare" THEN LaneFor(j, "enrich") ELSE "index"

(* The job goes to its next lane before it is counted off in this one.     *)
JudgeDone(w) ==
    LET j == working[w].job
        l == LaneOf[w]
        s == StageOf(l)
    IN  /\ working[w].exit # "none" /\ StageSucceeded(w, j, s)
        /\ stagesDone' = [stagesDone EXCEPT ![j] = @ \cup {s}]
        /\ IF s = "index"
           THEN /\ jobState' = [jobState EXCEPT ![j] = "done"]
                /\ unfinished' = TaskDone(l)
                /\ UNCHANGED queue
           ELSE /\ jobState' = [jobState EXCEPT ![j] = "pending"]
                /\ queue' = Enqueued(NextLane(j, s), j)
                /\ unfinished' = [TaskDone(l) EXCEPT ![NextLane(j, s)] = @ + 1]
        /\ Finish(w)
        /\ UNCHANGED <<bundles, results, published, batchOn, blocked, joined, children,
                       batchStatus, brokenOff, starts, mishaps>>

JudgeRetry(w) ==
    LET j == working[w].job
        s == StageOf(LaneOf[w])
    IN  /\ working[w].exit # "none" /\ ~StageSucceeded(w, j, s)
        /\ results[j][s] # "refused" /\ working[w].tries < Attempts
        /\ working' = [working EXCEPT ![w].tries = @ + 1, ![w].exit = "none"]
        /\ children' = Spawned(w, j)
        /\ UNCHANGED <<stagesDone, jobState, bundles, results, published, batchOn, blocked,
                       queue, unfinished, joined, batchStatus, brokenOff, starts, mishaps>>

JudgeFailed(w) ==
    LET j == working[w].job
        s == StageOf(LaneOf[w])
    IN  /\ working[w].exit # "none" /\ ~StageSucceeded(w, j, s)
        /\ results[j][s] = "refused" \/ working[w].tries = Attempts
        /\ blocked' = (blocked \/ results[j][s] = "refused")
        /\ jobState' = [jobState EXCEPT ![j] = "failed"]
        /\ unfinished' = TaskDone(LaneOf[w])
        /\ Finish(w)
        /\ UNCHANGED <<stagesDone, bundles, results, published, batchOn, queue, joined,
                       children, batchStatus, brokenOff, starts, mishaps>>

-----------------------------------------------------------------------------
(* The end of a run. *)

JoinLane ==
    /\ batchOn /\ joined < 4 /\ unfinished[Lanes[joined + 1]] = 0
    /\ joined' = joined + 1
    /\ UNCHANGED <<stagesDone, jobState, bundles, results, published, batchOn, blocked, queue,
                   unfinished, working, children, batchStatus, brokenOff, starts, mishaps>>

AllDone == \A j \in Jobs : "index" \in stagesDone[j]

EndBatch ==
    /\ batchOn /\ joined = 4
    /\ batchOn' = FALSE
    /\ batchStatus' = IF AllDone THEN "finalizing"
                      ELSE IF blocked THEN "provider_blocked" ELSE "partial_failed"
    /\ UNCHANGED <<stagesDone, jobState, bundles, results, published, blocked, queue,
                   unfinished, joined, working, children, brokenOff, starts, mishaps>>

(* batch-finalize: the stored processings, chunks and points are compared  *)
(* with the bundles of all jobs.  It says finalizing first, and may be     *)
(* killed at that; what else status.json says it leaves alone.             *)
Finalize ==
    /\ ~batchOn /\ batchStatus # "planned"
    /\ \/ batchStatus' \in {"finalizing", "finalization_failed"}
       \/ /\ AllDone /\ published = Jobs /\ \A j \in Jobs : bundles[j] = "enriched"
          /\ batchStatus' = "complete"
    /\ UNCHANGED <<stagesDone, jobState, bundles, results, published, batchOn, blocked, queue,
                   unfinished, joined, working, children, brokenOff, starts, mishaps>>

(* With the coordinator go its queues and tasks, and the stage processes   *)
(* that do not survive it, each in the middle of its work.                 *)
CoordinatorGone(alive) ==
    /\ children' = {[c EXCEPT !.owner = Idle] : c \in alive}
    /\ bundles' \in {left \in [Jobs -> BundleStates] : \A j \in Jobs :
                        \/ left[j] = bundles[j]
                        \/ \E c \in children \ alive : c.job = j /\ left[j] \in Leaves(c)}
    /\ \E last \in SUBSET {c \in children \ alive : Publishable(c)} :
          published' = published \cup {c.job : c \in last}
    /\ batchOn' = FALSE
    /\ queue' = [l \in LaneNames |-> <<>>]
    /\ unfinished' = [l \in LaneNames |-> 0]
    /\ working' = [w \in BatchWorkers |-> Free]
    /\ joined' = 0 /\ blocked' = FALSE
    /\ UNCHANGED <<stagesDone, jobState, results, starts>>

(* It is killed: status.json goes on saying processing.  Stage processes   *)
(* go on, without anybody who waits for them.                              *)
CoordinatorDies ==
    /\ batchOn /\ Mishap
    /\ \E alive \in SUBSET children : CoordinatorGone(alive)
    /\ UNCHANGED <<batchStatus, brokenOff>>

(* A task of it fails - a process cannot be started, a result not be read, *)
(* a verdict not be saved: the status is written from the states as they   *)
(* are, whatever is unfinished, and the stage processes are terminated.    *)
(* A verdict that could not be saved counts in it.                         *)
CoordinatorFails(w) ==
    /\ batchOn /\ joined < 4 /\ Mishap
    /\ \E unsaved \in {FALSE, working[w].exit # "none"} :
          LET j == working[w].job
              s == StageOf(LaneOf[w])
              ok == unsaved /\ StageSucceeded(w, j, s)
              done == {k \in Jobs : jobState[k] = "done" \/ (k = j /\ ok /\ s = "index")}
          IN  batchStatus' = CASE blocked \/ (unsaved /\ ~ok /\ results[j][s] = "refused") ->
                                      "provider_blocked"
                               [] ~blocked /\ done = Jobs -> "complete"
                               [] OTHER -> "partial_failed"
    /\ brokenOff' = TRUE
    /\ CoordinatorGone({})

-----------------------------------------------------------------------------
BatchStep ==
    \/ \E w \in BatchWorkers : TakeJob(w) \/ JudgeDone(w) \/ JudgeRetry(w) \/ JudgeFailed(w)
    \/ \E c \in children : ChildSucceeds(c) \/ ChildFails(c) \/ ChildLost(c)
    \/ JoinLane \/ EndBatch

BatchNext ==
    \/ StartBatch \/ BatchStep \/ Finalize \/ CoordinatorDies
    \/ \E w \in BatchWorkers : CoordinatorFails(w)

BatchSpec == BatchInit /\ [][BatchNext]_batchVars

(* Tasks of a running coordinator go on, and a stage process ends: at the  *)
(* latest when its time is up.                                             *)
FairBatchSpec == BatchSpec /\ WF_batchVars(BatchStep)

-----------------------------------------------------------------------------
(* Properties. *)

(* Jobs, queues, workers and processes keep their shapes. *)
BatchTypeOK ==
    /\ stagesDone \in [Jobs -> SUBSET StageNames]
    /\ bundles \in [Jobs -> BundleStates]
    /\ \A l \in LaneNames :
          unfinished[l] = Len(queue[l])
                            + Cardinality({w \in BatchWorkers : LaneOf[w] = l /\ working[w] # Free})
    /\ \A c \in children : c.owner # Idle => working[c.owner].job = c.job
    /\ published \subseteq Jobs

(* A document that counts as done is published, and complete is said only  *)
(* of a batch all of whose documents are: by the comparison, or by a       *)
(* coordinator that breaks off over its last verdict.  A run that came to  *)
(* its own end over unfinished documents has settled every one: the others *)
(* have failed or wait for the provider, none was lost between two lanes,  *)
(* whatever was refused, retried, killed or left behind by an earlier      *)
(* coordinator.  One that broke off says so by orchestrator_error alone:   *)
(* its status is the same over documents still waiting or in a stage.      *)
BatchIsSettled ==
    /\ \A j \in Jobs : jobState[j] = "done" => j \in published
    /\ batchStatus = "complete" => published = Jobs
    /\ ~batchOn /\ ~brokenOff /\ batchStatus \in {"provider_blocked", "partial_failed"} =>
          \A j \in Jobs : jobState[j] \in {"done", "failed", "waiting_provider"}

(* A coordinator that runs comes to the end of its run, breaks off or is killed. *)
BatchEnds == batchOn ~> ~batchOn

(* A batch comes to its end, and its end has settled every document. *)
BatchConcludes == [](BatchTypeOK /\ BatchIsSettled) /\ BatchEnds
=============================================================================
