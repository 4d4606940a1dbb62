--------------------------- MODULE LiteraturePanel ---------------------------
(***************************************************************************)
(* The literature page (LiteratureResearchPanel.tsx) and the reading side  *)
(* of its API (api/literature.py).  The page shows one run: its row, and   *)
(* the results and events beside it, which are read by requests of their   *)
(* own.  An effect polls a run that has not ended; it starts anew whenever *)
(* the shown run or its status changes, and what the old one had under way *)
(* is then ignored.                                                        *)
(*                                                                         *)
(* Of the server a run's status and the number of its committed results    *)
(* count; events are read with the results.                                *)
(***************************************************************************)
EXTENDS Naturals

CONSTANTS
    PanelRuns, NoRun,
    LastResult,             \* results of a run that ends by itself
    MaxRequests, MaxMisses  \* bounds: creations, loads and cancellations; failed polls

ASSUME PanelBounds == {LastResult, MaxRequests, MaxMisses} \subseteq Nat /\ NoRun \notin PanelRuns

VARIABLES
    state, result,      \* the server: a run's status and its results
    run, results,       \* the page: the shown run with its status; the results beside it
    submitting,         \* a creation or a load under way, what it has read
    cancelling,         \* runs whose cancellation has been answered, not yet shown
    poll,               \* the effect: waiting for its timer or reading
    clicks, misses

litPanelVars == <<state, result, run, results, submitting, cancelling, poll, clicks, misses>>

NotRead == LastResult + 1
NoWatch == [id |-> NoRun, status |-> "none"]
NoResults == [id |-> NoRun, n |-> 0]
RunRequest(at, id) == [at |-> at, id |-> id, status |-> "none", n |-> NotRead]
NoPoll == RunRequest("off", NoRun)
Timer(id) == RunRequest("timer", id)
Reading(id) == RunRequest("reading", id)

LitPanelInit ==
    /\ state = [r \in PanelRuns |-> "none"] /\ result = [r \in PanelRuns |-> 0]
    /\ run = NoWatch /\ results = NoResults
    /\ submitting = NoPoll /\ cancelling = {} /\ poll = NoPoll
    /\ clicks = 0 /\ misses = 0

-----------------------------------------------------------------------------
(* The server. *)

(* The worker commits results one by one and the last with the status.     *)
WorkerCommits(r) ==
    /\ \/ state[r] = "queued" /\ state' = [state EXCEPT ![r] = "running"] /\ UNCHANGED result
       \/ /\ state[r] = "running" /\ result[r] < LastResult
          /\ result' = [result EXCEPT ![r] = @ + 1]
          /\ state' \in {state, [state EXCEPT ![r] = "ended"]}
    /\ UNCHANGED <<run, results, submitting, cancelling, poll, clicks, misses>>

-----------------------------------------------------------------------------
(* The effect. *)

\* Mutant: the effect does not look at the status.
WatchId(shown) == IF shown.id = run.id THEN poll ELSE Timer(shown.id)

(* [run?.id, run?.status]: what the effect becomes when shown is set.      *)
Watch(shown) ==
    IF shown = run THEN poll ELSE IF shown.status = "ended" THEN NoPoll ELSE Timer(shown.id)

PollDue ==
    /\ poll.at = "timer" /\ poll' = Reading(poll.id)
    /\ UNCHANGED <<state, result, run, results, submitting, cancelling, clicks, misses>>

(* Promise.all: the requests are answered in any order.                  *)
ReadStatus(request) == request.at = "reading" /\ request.status = "none"
ReadResults(request) == request.at = "reading" /\ request.n = NotRead
Complete(request) == request.at = "reading" /\ request.status # "none" /\ request.n # NotRead

PollReads ==
    /\ \/ ReadStatus(poll) /\ poll' = [poll EXCEPT !.status = state[poll.id]]
       \/ ReadResults(poll) /\ poll' = [poll EXCEPT !.n = result[poll.id]]
    /\ UNCHANGED <<state, result, run, results, submitting, cancelling, clicks, misses>>

PollShows ==
    /\ Complete(poll)
    /\ LET shown == [id |-> poll.id, status |-> poll.status] IN
         /\ run' = shown
         /\ poll' = IF shown = run THEN Timer(poll.id) ELSE Watch(shown)
    /\ results' = [id |-> poll.id, n |-> poll.n]
    /\ UNCHANGED <<state, result, submitting, cancelling, clicks, misses>>

(* A failed poll is shown and tried again.                                 *)
AfterMiss == Timer(poll.id)

PollFails ==
    /\ poll.at = "reading" /\ misses < MaxMisses
    /\ misses' = misses + 1 /\ poll' = AfterMiss
    /\ UNCHANGED <<state, result, run, results, submitting, cancelling, clicks>>

-----------------------------------------------------------------------------
(* The buttons. *)

Free == submitting.at = "off" /\ clicks < MaxRequests

(* startRun clears results and events and creates a run.                   *)
CreateRun(r) ==
    /\ Free /\ state[r] = "none"
    /\ state' = [state EXCEPT ![r] = "queued"] /\ results' = NoResults
    /\ submitting' = RunRequest("created", r)
    /\ clicks' = clicks + 1
    /\ UNCHANGED <<result, run, cancelling, poll, misses>>

CreateShows ==
    /\ submitting.at = "created"
    /\ LET shown == [id |-> submitting.id, status |-> "queued"] IN run' = shown /\ poll' = Watch(shown)
    /\ submitting' = NoPoll
    /\ UNCHANGED <<state, result, results, cancelling, clicks, misses>>

(* resumeRun loads a run by its id.                                        *)
LoadRun(r) ==
    /\ Free /\ state[r] # "none"
    /\ submitting' = Reading(r) /\ clicks' = clicks + 1
    /\ UNCHANGED <<state, result, run, results, cancelling, poll, misses>>

LoadReads ==
    /\ \/ ReadStatus(submitting) /\ submitting' = [submitting EXCEPT !.status = state[submitting.id]]
       \/ ReadResults(submitting) /\ submitting' = [submitting EXCEPT !.n = result[submitting.id]]
    /\ UNCHANGED <<state, result, run, results, cancelling, poll, clicks, misses>>

LoadShows ==
    /\ Complete(submitting)
    /\ LET shown == [id |-> submitting.id, status |-> submitting.status] IN
         run' = shown /\ poll' = Watch(shown)
    /\ results' = [id |-> submitting.id, n |-> submitting.n] /\ submitting' = NoPoll
    /\ UNCHANGED <<state, result, cancelling, clicks, misses>>

SubmitFails ==
    /\ submitting.at # "off" /\ misses < MaxMisses
    /\ misses' = misses + 1 /\ submitting' = NoPoll
    /\ UNCHANGED <<state, result, run, results, cancelling, poll, clicks>>

(* cancelRun: a run that has ended stays as it is.                         *)
CancelShown ==
    /\ run.id # NoRun /\ run.status # "ended" /\ clicks < MaxRequests
    /\ state' = [state EXCEPT ![run.id] = "ended"] /\ clicks' = clicks + 1
    /\ cancelling' = cancelling \cup {run.id}
    /\ UNCHANGED <<result, run, results, submitting, poll, misses>>

(* The answer is shown whatever the page shows by then.                    *)
CancelShows(r) ==
    /\ r \in cancelling /\ cancelling' = cancelling \ {r}
    /\ LET shown == [id |-> r, status |-> "ended"] IN run' = shown /\ poll' = Watch(shown)
    /\ UNCHANGED <<state, result, results, submitting, clicks, misses>>

Polls == PollDue \/ PollReads \/ PollShows

LitPanelNext ==
    \/ Polls \/ PollFails \/ CreateShows \/ LoadReads \/ LoadShows \/ SubmitFails \/ CancelShown
    \/ \E r \in PanelRuns : WorkerCommits(r) \/ CreateRun(r) \/ LoadRun(r) \/ CancelShows(r)

LitPanelSpec == LitPanelInit /\ [][LitPanelNext]_litPanelVars

-----------------------------------------------------------------------------
(* Properties. *)

PanelTypeOK ==
    /\ run.id \in PanelRuns \cup {NoRun} /\ run.status \in {"none", "queued", "running", "ended"}
    /\ poll.at \in {"off", "timer", "reading"} /\ results.n \in 0 .. LastResult

(* A run that is shown as unfinished is being polled, and only that run,   *)
(* after every order of loads, cancellations, polls and failures that      *)
(* cross; so its end cannot be missed (LiteratureResearchPanel.tsx:41).    *)
WatchedIsPolled ==
    IF run.status \in {"queued", "running"}
    THEN poll.at # "off" /\ poll.id = run.id
    ELSE poll.at = "off"

(* The shown run is in its shape and polled while it is open. *)
PanelFollows == PanelTypeOK /\ WatchedIsPolled
=============================================================================
