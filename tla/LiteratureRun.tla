----------------------------- MODULE LiteratureRun -----------------------------
(***************************************************************************)
(* IEEE literature research runs: the API creates and cancels them, a      *)
(* worker claims one and takes it through the pipeline of                  *)
(* backend/app/literature/pipeline.py (directions, sign-in, search,        *)
(* ranking, full text, analysis, report).                                  *)
(*                                                                         *)
(* The worker keeps the run in an SQLAlchemy session that does not expire  *)
(* on commit: it knows the status it last loaded, and an UPDATE carries    *)
(* the status column only when the pipeline assigns another value than     *)
(* that one.  A checkpoint re-reads the column; the write that follows it  *)
(* is a later step, and a cancellation may commit in between.              *)
(***************************************************************************)
EXTENDS Naturals, Sequences

CONSTANTS
    Runs, Workers,
    Directions,     \* search directions the model proposes for a query
    TopN,           \* top_n_per_direction
    FullText,       \* include_fulltext
    Headless,       \* literature_headless: nobody can sign in
    MaxCrashes,     \* bound on the workers that die
    None

ASSUME DirectionsAssumption == Directions \in Nat \ {0} /\ TopN \in Nat \ {0}
ASSUME FlagsAssumption == FullText \in BOOLEAN /\ Headless \in BOOLEAN
ASSUME CrashAssumption == MaxCrashes \in Nat
ASSUME NoneAssumption == None \notin Runs

VARIABLES
    status,     \* literature_runs.status
    links,      \* analysis_status of the selected papers of each run, in order
    report,     \* the run has a final_report
    worker,     \* what each worker holds in memory
    crashes

vars == <<status, links, report, worker, crashes>>

Ended == {"success", "partial", "failed", "cancelled"}   \* TERMINAL_STATUSES
Working == {"running", "waiting_for_login"}
Statuses == {"absent", "queued"} \cup Working \cup Ended
Analyses == {"pending", "success", "failed"}

(* The phases that begin with a checkpoint, and those of them that make    *)
(* external calls behind it: a model request and the repair of its JSON,   *)
(* the results page of a search and the search itself, the page of a paper *)
(* and its PDF.                                                            *)
Guarded == {"plan", "signin", "waiting", "search", "fetch", "analyse", "report"}
Calling == {"plan", "search", "fetch", "analyse"}
MostCalls == 2
Phases == {"idle", "home", "login", "rank", "closing", "failing"} \cup Guarded

(* loaded: the status the session believes; checked: the checkpoint of the *)
(* phase was passed; calls: external calls begun since; late: calls begun  *)
(* while its run was cancelled; done: directions searched or papers        *)
(* handled so far; picked: papers the ranking will select.                 *)
WorkerStates == [phase : Phases, run : Runs \cup {None}, loaded : Statuses,
                 checked : BOOLEAN, calls : 0..MostCalls, late : Nat, done : Nat,
                 picked : Nat]
Resting == [phase |-> "idle", run |-> None, loaded |-> "absent",
            checked |-> FALSE, calls |-> 0, late |-> 0, done |-> 0, picked |-> 0]

Init ==
    /\ status = [r \in Runs |-> "absent"]
    /\ links = [r \in Runs |-> <<>>]
    /\ report = [r \in Runs |-> FALSE]
    /\ worker = [w \in Workers |-> Resting]
    /\ crashes = 0

-----------------------------------------------------------------------------
(* The API. *)

Create(r) ==
    /\ status[r] = "absent"
    /\ status' = [status EXCEPT ![r] = "queued"]
    /\ UNCHANGED <<links, report, worker, crashes>>

(* The cancel endpoint reads the run without a lock, and cancel_run leaves *)
(* a status alone that was terminal when it was read.  Some request may    *)
(* have read the run while it was open, so the write may come at any time. *)
Cancel(r) ==
    /\ status[r] \notin {"absent", "cancelled"}
    /\ status' = [status EXCEPT ![r] = "cancelled"]
    /\ UNCHANGED <<links, report, worker, crashes>>

-----------------------------------------------------------------------------
(* The worker.  --run-id lets it claim any queued run, not only the oldest. *)

Claimable(r) == status[r] = "queued"

(* A worker that is with run r in a phase that knows nothing of papers.    *)
Held(r, phase, s) == [Resting EXCEPT !.phase = phase, !.run = r, !.loaded = s]
Hold(w, r, phase, s) == worker' = [worker EXCEPT ![w] = Held(r, phase, s)]

Claim(w, r) ==
    /\ worker[w].phase = "idle" /\ Claimable(r)
    /\ status' = [status EXCEPT ![r] = "running"]
    /\ Hold(w, r, "plan", "running")
    /\ UNCHANGED <<links, report, crashes>>

Halt(w) == worker' = [worker EXCEPT ![w] = Resting]

(* Mutant: the checkpoint trusts the status the session has loaded. *)
CheckpointUnrefreshed(w) ==
    /\ worker[w].phase \in Guarded /\ ~worker[w].checked
    /\ worker' = [worker EXCEPT ![w].checked = TRUE]
    /\ UNCHANGED <<status, links, report, crashes>>

(* Mutant: a cancelled run holds its worker back instead of releasing it. *)
CheckpointPauses(w) ==
    /\ worker[w].phase \in Guarded /\ ~worker[w].checked
    /\ status[worker[w].run] # "cancelled"
    /\ worker' = [worker EXCEPT ![w] = [@ EXCEPT !.checked = TRUE,
                                                  !.loaded = status[worker[w].run]]]
    /\ UNCHANGED <<status, links, report, crashes>>

(* _check_cancelled, and the head of provider_progress. *)
Checkpoint(w) ==
    LET r == worker[w].run IN
    /\ worker[w].phase \in Guarded /\ ~worker[w].checked
    /\ \/ status[r] = "cancelled" /\ Halt(w)
       \/ /\ status[r] # "cancelled"
          /\ worker' = [worker EXCEPT ![w] = [@ EXCEPT !.checked = TRUE, !.loaded = status[r]]]
    /\ UNCHANGED <<status, links, report, crashes>>

At(w, phase) == worker[w].phase = phase /\ worker[w].checked

(* Mutant: every UPDATE carries the status column. *)
SetStatusAlways(w, s) == status' = [status EXCEPT ![worker[w].run] = s]

(* Flushing run.status = s: an unchanged attribute is not written. *)
SetStatus(w, s) ==
    status' = IF worker[w].loaded = s THEN status
              ELSE [status EXCEPT ![worker[w].run] = s]

Entered(m, phase) == [m EXCEPT !.phase = phase, !.checked = FALSE, !.calls = 0, !.done = 0]
Enter(w, phase) == worker' = [worker EXCEPT ![w] = Entered(@, phase)]

(* The worker after the beginning of an external call. *)
Called(w) == [worker[w] EXCEPT !.late = IF status[worker[w].run] = "cancelled" THEN @ + 1 ELSE @]

(* set_progress is committed once, before the calls of its phase. *)
Progress(w) == IF worker[w].calls = 0 THEN SetStatus(w, "running") ELSE UNCHANGED status

(* An external call.  A phase may also end after fewer of them: the fake   *)
(* model makes none, a call may fail before the next.                      *)
Call(w) ==
    /\ worker[w].phase \in Calling /\ worker[w].checked /\ worker[w].calls < MostCalls
    /\ Progress(w)
    /\ worker' = [worker EXCEPT ![w] = [Called(w) EXCEPT !.calls = @ + 1]]
    /\ UNCHANGED <<links, report, crashes>>

Plan(w) ==
    /\ At(w, "plan")
    /\ Progress(w) /\ Enter(w, "home")
    /\ UNCHANGED <<links, report, crashes>>

(* ensure_logged_in visits the home page before it reports and so checks. *)
VisitHome(w) ==
    /\ worker[w].phase = "home"
    /\ worker' = [worker EXCEPT ![w] = Entered(Called(w), "signin")]
    /\ UNCHANGED <<status, links, report, crashes>>

(* The stored profile is signed in. *)
ReuseLogin(w) ==
    /\ At(w, "signin")
    /\ SetStatus(w, "running") /\ Enter(w, "search")
    /\ UNCHANGED <<links, report, crashes>>

AskLogin(w) ==
    /\ At(w, "signin") /\ ~Headless
    /\ SetStatus(w, "waiting_for_login")
    /\ Hold(w, worker[w].run, "login", "waiting_for_login")
    /\ UNCHANGED <<links, report, crashes>>

OpenSignIn(w) ==
    /\ worker[w].phase = "login"
    /\ worker' = [worker EXCEPT ![w] = Entered(Called(w), "waiting")]
    /\ UNCHANGED <<status, links, report, crashes>>

(* The user has signed in: only now does the polling loop look at the run. *)
LoginDone(w) ==
    /\ At(w, "waiting")
    /\ SetStatus(w, "running")
    /\ Hold(w, worker[w].run, "search", "running")
    /\ UNCHANGED <<links, report, crashes>>

(* One direction: the search brings n papers that the ranking will select; *)
(* a failed search is an event and brings none.                            *)
Search(w) == \E n \in 0..TopN :
    /\ At(w, "search")
    /\ SetStatus(w, "running")
    /\ worker' = [worker EXCEPT ![w] = [@ EXCEPT !.checked = FALSE, !.calls = 0,
           !.done = worker[w].done + 1, !.picked = worker[w].picked + n,
           !.phase = IF worker[w].done + 1 = Directions THEN "rank" ELSE "search"]]
    /\ UNCHANGED <<links, report, crashes>>

(* The selection is stored; the papers are next, if there are any. *)
Rank(w) ==
    LET picked == worker[w].picked IN
    /\ worker[w].phase = "rank"
    /\ SetStatus(w, "running")
    /\ links' = [links EXCEPT ![worker[w].run] = [i \in 1..picked |-> "pending"]]
    /\ Enter(w, IF picked = 0 THEN "report" ELSE IF FullText THEN "fetch" ELSE "analyse")
    /\ UNCHANGED <<report, crashes>>

(* The next paper of a loop over the selection, or the next phase. *)
NextPaper(w, after) ==
    LET done == worker[w].done + 1 IN
    IF done = worker[w].picked THEN Enter(w, after)
    ELSE worker' = [worker EXCEPT ![w] = [@ EXCEPT !.checked = FALSE, !.calls = 0,
                                                   !.done = done]]

(* A failed download is an event, whatever was raised: the cancellation    *)
(* that the report of a PDF without text may meet is an event as well.     *)
Fetch(w) ==
    /\ At(w, "fetch")
    /\ Progress(w) /\ NextPaper(w, "analyse")
    /\ UNCHANGED <<links, report, crashes>>

Analyse(w) == \E result \in {"success", "failed"} :
    /\ At(w, "analyse")
    /\ Progress(w) /\ NextPaper(w, "report")
    /\ links' = [links EXCEPT ![worker[w].run][worker[w].done + 1] = result]
    /\ UNCHANGED <<report, crashes>>

(* Mutant: failed analyses do not make a run partial. *)
VerdictBySelection(r) ==
    IF Len(links[r]) < Directions * TopN THEN "partial" ELSE "success"

Verdict(r) ==
    IF Len(links[r]) < Directions * TopN \/ \E i \in DOMAIN links[r] : links[r][i] = "failed"
    THEN "partial" ELSE "success"

Finish(w) ==
    LET r == worker[w].run IN
    /\ At(w, "report")
    /\ SetStatus(w, Verdict(r))
    /\ report' = [report EXCEPT ![r] = TRUE]
    /\ Hold(w, r, "closing", Verdict(r))
    /\ UNCHANGED <<links, crashes>>

(* The commit was answered and the finished run read again.  Both are      *)
(* still inside the pipeline's try: Raise is what a failure of either is.  *)
Close(w) ==
    /\ worker[w].phase = "closing" /\ Halt(w)
    /\ UNCHANGED <<status, links, report, crashes>>

(* Any other exception: the session is rolled back and the run read again. *)
Raise(w) ==
    LET r == worker[w].run IN
    /\ worker[w].phase \notin {"idle", "failing"}
    /\ \/ status[r] = "cancelled" /\ Halt(w)
       \/ /\ status[r] # "cancelled"
          /\ Hold(w, r, "failing", status[r])
    /\ UNCHANGED <<status, links, report, crashes>>

(* The deadline of the sign-in dialogue. *)
LoginTimeout(w) == worker[w].phase = "waiting" /\ ~worker[w].checked /\ Raise(w)

RecordFailure(w) ==
    /\ worker[w].phase = "failing"
    /\ SetStatus(w, "failed")
    /\ Halt(w)
    /\ UNCHANGED <<links, report, crashes>>

(* The process dies.  Nothing takes its run up again: only queued runs are *)
(* claimed.                                                                *)
Crash(w) ==
    /\ worker[w].phase # "idle" /\ crashes < MaxCrashes
    /\ crashes' = crashes + 1
    /\ Halt(w)
    /\ UNCHANGED <<status, links, report>>

(* Mutant: the exception ends the pipeline and nothing is recorded. *)
PipelineSilent(w) ==
    \/ Checkpoint(w) \/ Call(w) \/ Plan(w) \/ VisitHome(w) \/ ReuseLogin(w) \/ AskLogin(w)
    \/ OpenSignIn(w) \/ LoginDone(w) \/ Search(w) \/ Rank(w) \/ Fetch(w) \/ Analyse(w)
    \/ Finish(w) \/ Close(w) \/ LoginTimeout(w)

Pipeline(w) ==
    \/ Checkpoint(w) \/ Call(w) \/ Plan(w) \/ VisitHome(w) \/ ReuseLogin(w) \/ AskLogin(w)
    \/ OpenSignIn(w) \/ LoginDone(w) \/ Search(w) \/ Rank(w) \/ Fetch(w) \/ Analyse(w)
    \/ Finish(w) \/ Close(w) \/ LoginTimeout(w) \/ RecordFailure(w)

Next ==
    \/ \E r \in Runs : Create(r) \/ Cancel(r)
    \/ \E w \in Workers : Crash(w) \/ Raise(w) \/ Pipeline(w) \/ \E r \in Runs : Claim(w, r)

Spec == Init /\ [][Next]_vars

(* run_forever polls as long as its process lives, and every external call *)
(* has a time limit.  No exception is promised, save the deadline of the   *)
(* sign-in dialogue.                                                       *)
FairSpec == Spec /\ \A w \in Workers : WF_vars(Pipeline(w) \/ \E r \in Runs : Claim(w, r))

-----------------------------------------------------------------------------
(* Properties. *)

(* Type invariant. *)
TypeOK ==
    /\ status \in [Runs -> Statuses]
    /\ links \in [Runs -> Seq(Analyses)]
    /\ report \in [Runs -> BOOLEAN]
    /\ worker \in [Workers -> WorkerStates]
    /\ crashes \in 0..MaxCrashes

(* A run is executed by one worker at a time, and a queued run by none:    *)
(* what claim_next_run's row lock and its status test are for.             *)
SingleWorker ==
    /\ \A v, w \in Workers : v # w /\ worker[v].run # None => worker[v].run # worker[w].run
    /\ \A w \in Workers : worker[w].run # None => status[worker[w].run] \notin {"absent", "queued"}

(* The outcome agrees with the papers: a report exists only once no paper  *)
(* is pending and the run has ended, success means that every direction    *)
(* brought TopN papers and all were analysed, and partial that something   *)
(* is missing.  It relates rows written by many commits, in runs that may  *)
(* be cancelled at any of them and may still fail behind the last one.     *)
OutcomeMatchesPapers == \A r \in Runs :
    /\ report[r] => \A i \in DOMAIN links[r] : links[r][i] # "pending"
    /\ status[r] \in {"success", "partial"} => report[r]
    /\ status[r] = "success" =>
           Len(links[r]) = Directions * TopN /\ \A i \in DOMAIN links[r] : links[r][i] = "success"
    /\ status[r] = "partial" =>
           Len(links[r]) < Directions * TopN \/ \E i \in DOMAIN links[r] : links[r][i] = "failed"
    /\ report[r] => status[r] \in Ended

(* A cancelled run costs at most the external calls that no checkpoint     *)
(* separates, whenever the cancellation commits: two, or three when it is  *)
(* still being planned (the home page is visited before the next look at   *)
(* the run); and behind a checkpoint that was passed, at most the calls    *)
(* begun since.                                                            *)
LateCallsBounded == \A w \in Workers :
    /\ worker[w].late <= MostCalls + 1
    /\ worker[w].phase # "signin" => worker[w].late <= MostCalls
    /\ worker[w].checked => worker[w].late <= worker[w].calls

(* A run is one worker's, and what it still does once cancelled is bounded. *)
WorkIsBounded == TypeOK /\ SingleWorker /\ LateCallsBounded

(* A cancellation is not undone by the progress the worker writes while it *)
(* works: only the windows after the last checkpoint, the sign-in dialogue *)
(* and the failure handler can overwrite it.                               *)
CancelSurvivesWork == [][\A w \in Workers, r \in Runs :
    worker[w].run = r /\ status[r] = "cancelled" /\ status'[r] # "cancelled" =>
        worker[w].phase \in {"signin", "waiting", "report", "failing"}]_vars

(* A queued run ends, unless the worker that claimed it died.              *)
Abandoned(r) == status[r] \in Working /\ \A w \in Workers : worker[w].run # r
RunsEnd == \A r \in Runs : status[r] = "queued" ~> status[r] \in Ended \/ Abandoned(r)

(* The worker leaves a run that was cancelled (or whose cancellation it    *)
(* has overwritten).                                                       *)
WorkerLetsGo == \A r \in Runs :
    status[r] = "cancelled" ~> \A w \in Workers : worker[w].run # r
=============================================================================
