------------------------------ MODULE JobRunner ------------------------------
(***************************************************************************)
(* Scheduled jobs: the page (SourcesPage.tsx), the proxy                   *)
(* (api/scheduled_tasks.py), the bridge to systemd                         *)
(* (scripts/scheduler_bridge.py) and the script of a job                   *)
(* (deploy/run-job.sh).                                                    *)
(*                                                                         *)
(* A job's oneshot unit runs the script; an operator may run it by hand.   *)
(* The script takes the lock of the job's group, runs one container under  *)
(* the job's name and label and, on its way out, removes that container if *)
(* it is still there.  Containers belong to the Docker daemon: they go on  *)
(* when the script is killed, and the lock is free then.                   *)
(***************************************************************************)
EXTENDS Naturals, FiniteSets

CONSTANTS
    JobNames, LockGroups, GroupOf,  \* supplier-* and discourse-* share a lock
    Hands,              \* runs of the script by hand
    NoToken, Unlocked,
    MaxRuns, MaxKills   \* bounds: scripts that took a lock; killed scripts and failed cleanups

Slots == JobNames \cup Hands        \* the unit of a job is named like the job

ASSUME GroupAssumption ==
    GroupOf \in [JobNames -> LockGroups] /\ JobNames # {} /\ JobNames \cap Hands = {}
ASSUME RunBounds == {MaxRuns, MaxKills} \subseteq Nat /\ NoToken \notin Nat /\ Unlocked \notin Slots

VARIABLES
    script,     \* per unit or hand: where the script is, its job and its token
    holder,     \* flock of a group
    box,        \* containers by name: the token in their label
    runs, kills,
    request,    \* per job: the request of the page at the bridge
    busyShown, notice       \* the page

runnerVars == <<script, holder, box, runs, kills, request, busyShown, notice>>

Off(j) == [at |-> "off", job |-> j, token |-> NoToken]
Active(s) == script[s].at # "off"

RunnerInit ==
    /\ script = [s \in Slots |-> Off(IF s \in JobNames THEN s ELSE CHOOSE j \in JobNames : TRUE)]
    /\ holder = [g \in LockGroups |-> Unlocked]
    /\ box = [j \in JobNames |-> NoToken]
    /\ runs = 0 /\ kills = 0
    /\ request = [j \in JobNames |-> "none"]
    /\ busyShown = [j \in JobNames |-> FALSE]
    /\ notice = [j \in JobNames |-> "none"]

-----------------------------------------------------------------------------
(* The script. *)

\* Mutant: every job has a lock of its own (a free lock of the group is not asked for).
TakesOwnLock(s, j) == \A t \in Slots \ {s} : Active(t) => script[t].job # j

TakesLock(s, j) == holder[GroupOf[j]] = Unlocked

(* flock -n: a job whose group is taken is skipped and the script ends     *)
(* well; the token is drawn under the lock.                                *)
Launch(s, j) ==
    /\ ~Active(s) /\ runs < MaxRuns
    /\ IF TakesLock(s, j)
       THEN /\ script' = [script EXCEPT ![s] = [at |-> "locked", job |-> j, token |-> runs]]
            /\ holder' = [holder EXCEPT ![GroupOf[j]] = s]
            /\ runs' = runs + 1
       ELSE UNCHANGED <<script, holder, runs>>

Step(s, to) == script' = [script EXCEPT ![s].at = to]

(* docker compose run --name: Docker refuses a name that is in use.        *)
RunBox(s) ==
    /\ script[s].at = "locked"
    /\ IF box[script[s].job] = NoToken
       THEN Step(s, "running") /\ box' = [box EXCEPT ![script[s].job] = script[s].token]
       ELSE Step(s, "cleanup") /\ UNCHANGED box
    /\ UNCHANGED <<holder, runs, kills, request, busyShown, notice>>

(* The command ends; --rm removes the container, owned or orphan.          *)
BoxEnds(j) ==
    /\ box[j] # NoToken
    /\ box' = [box EXCEPT ![j] = NoToken]
    /\ UNCHANGED <<script, holder, runs, kills, request, busyShown, notice>>

(* The client returns with the command, or JOB_TIMEOUT ends the client;    *)
(* after --kill-after the container is still there.                        *)
ClientEnds(s) ==
    /\ script[s].at = "running" /\ Step(s, "cleanup")
    /\ \/ box[script[s].job] # script[s].token /\ UNCHANGED box
       \/ /\ box[script[s].job] = script[s].token
          /\ box' \in {box, [box EXCEPT ![script[s].job] = NoToken]}
    /\ UNCHANGED <<holder, runs, kills, request, busyShown, notice>>

FoundBox(s) == box[script[s].job] = script[s].token

(* cleanup: the id and the label are read together.                        *)
Inspect(s) ==
    /\ script[s].at = "cleanup"
    /\ Step(s, IF FoundBox(s) THEN "removing" ELSE "exiting")
    /\ UNCHANGED <<holder, box, runs, kills, request, busyShown, notice>>

(* docker inspect or docker rm -f may time out: a warning, no more.        *)
CleanupFails(s) ==
    /\ script[s].at \in {"cleanup", "removing"} /\ kills < MaxKills
    /\ kills' = kills + 1 /\ Step(s, "exiting")
    /\ UNCHANGED <<holder, box, runs, request, busyShown, notice>>

RemoveBox(s) ==
    /\ script[s].at = "removing" /\ Step(s, "exiting")
    /\ box' = [box EXCEPT ![script[s].job] = NoToken]
    /\ UNCHANGED <<holder, runs, kills, request, busyShown, notice>>

Gone(s) ==
    /\ script' = [script EXCEPT ![s] = Off(script[s].job)]
    /\ holder' = [g \in LockGroups |-> IF holder[g] = s THEN Unlocked ELSE holder[g]]

Exit(s) ==
    /\ script[s].at = "exiting" /\ Gone(s)
    /\ UNCHANGED <<box, runs, kills, request, busyShown, notice>>

(* systemd stops the unit: the shell defers SIGTERM until its command      *)
(* ends, and TimeoutStopSec later the whole control group is killed.       *)
KillScript(s) ==
    /\ Active(s) /\ kills < MaxKills
    /\ kills' = kills + 1 /\ Gone(s)
    /\ UNCHANGED <<box, runs, request, busyShown, notice>>

-----------------------------------------------------------------------------
(* Who starts scripts. *)

TimerFires(j) ==
    /\ Launch(j, j)
    /\ UNCHANGED <<box, kills, request, busyShown, notice>>

ByHand(h, j) ==
    /\ Launch(h, j)
    /\ UNCHANGED <<box, kills, request, busyShown, notice>>

(* A task that looks busy, or has a request under way, is not asked for.   *)
Press(j) ==
    /\ ~busyShown[j] /\ request[j] = "none"
    /\ request' = [request EXCEPT ![j] = "sent"]
    /\ notice' = [notice EXCEPT ![j] = "none"]
    /\ UNCHANGED <<script, holder, box, runs, kills, busyShown>>

(* The bridge serves one request after the other.                          *)
BridgeFree == \A j \in JobNames : request[j] # "starting"

(* trigger: the unit's state is read first.                                *)
Check(j) ==
    /\ request[j] = "sent" /\ BridgeFree
    /\ request' = [request EXCEPT ![j] = IF Active(j) THEN "already_running" ELSE "starting"]
    /\ UNCHANGED <<script, holder, box, runs, kills, busyShown, notice>>

(* systemctl start: joins the start of a unit that has become active.      *)
StartUnit(j) ==
    /\ request[j] = "starting"
    /\ IF Active(j) THEN UNCHANGED <<script, holder, runs>> ELSE Launch(j, j)
    /\ request' = [request EXCEPT ![j] = "accepted"]
    /\ UNCHANGED <<box, kills, busyShown, notice>>

(* The bridge or systemd cannot be reached: 503.                           *)
BridgeFails(j) ==
    /\ request[j] \in {"sent", "starting"}
    /\ request' = [request EXCEPT ![j] = "failed"]
    /\ UNCHANGED <<script, holder, box, runs, kills, busyShown, notice>>

Shown == [j \in JobNames |-> Active(j)]

(* The answer is shown and the list read again.                            *)
Reply(j) ==
    /\ request[j] \in {"accepted", "already_running", "failed"}
    /\ notice' = [notice EXCEPT ![j] = request[j]]
    /\ request' = [request EXCEPT ![j] = "none"]
    /\ busyShown' = IF request[j] = "failed" THEN busyShown ELSE Shown
    /\ UNCHANGED <<script, holder, box, runs, kills>>

RefreshTasks ==
    /\ BridgeFree /\ busyShown' = Shown
    /\ UNCHANGED <<script, holder, box, runs, kills, request, notice>>

ScriptStep(s) ==
    \/ RunBox(s) \/ ClientEnds(s) \/ Inspect(s) \/ CleanupFails(s)
    \/ RemoveBox(s) \/ Exit(s) \/ KillScript(s)

RunnerNext ==
    \/ \E s \in Slots : ScriptStep(s)
    \/ \E j \in JobNames : BoxEnds(j) \/ TimerFires(j) \/ Press(j) \/ Check(j) \/ StartUnit(j)
                           \/ BridgeFails(j) \/ Reply(j)
    \/ \E h \in Hands, j \in JobNames : ByHand(h, j)
    \/ RefreshTasks

RunnerSpec == RunnerInit /\ [][RunnerNext]_runnerVars

-----------------------------------------------------------------------------
(* Properties. *)

RunnerTypeOK ==
    /\ script \in [Slots -> [at : {"off", "locked", "running", "cleanup", "removing", "exiting"},
                             job : JobNames, token : Nat \cup {NoToken}]]
    /\ holder \in [LockGroups -> Slots \cup {Unlocked}]
    /\ box \in [JobNames -> Nat \cup {NoToken}]

Orphan(j) == \A s \in Slots : Active(s) => script[s].token # box[j]

(* Jobs that share files never run at once: of two containers of a lock    *)
(* group one at least has lost its script, by a kill or a cleanup that     *)
(* failed, however units, hands and the page start them (run-job.sh:23).   *)
GroupRunsOnce ==
    \A i, j \in JobNames : i # j /\ GroupOf[i] = GroupOf[j] /\ NoToken \notin {box[i], box[j]} =>
        Orphan(i) \/ Orphan(j)

(* A script takes away its own container only: one that an earlier,        *)
(* killed script has left under the same name goes on to its end           *)
(* (run-job.sh:32, cleanup).                                               *)
OwnBoxOnly ==
    [][\A j \in JobNames, s \in Slots :
         box[j] # NoToken /\ RemoveBox(s) /\ box'[j] # box[j] => box[j] = script[s].token]_runnerVars

(* Locks and containers: the jobs of a group exclude each other, and each  *)
(* script cleans up after itself only (run-job.sh).                        *)
BoxesAreOwned == [](RunnerTypeOK /\ GroupRunsOnce) /\ OwnBoxOnly
=============================================================================
