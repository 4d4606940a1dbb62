---------------------------- MODULE MCForumCapture ----------------------------
(* Small instances of ForumCapture for TLC. *)
EXTENDS ForumCapture, TLC

CONSTANTS t1, t2

TwoTopics == {t1, t2}
OneTopic == {t1}
TopicSymmetry == Permutations(TwoTopics)

Collectors == {"incremental", "backfill"}
Timers == {"incremental", "process"}
TimersAndManual == Timers \cup {"manual"}

(* Runs of one page: what the forum does before the topic is fetched, and  *)
(* a backoff that runs out, may as well have come before the job began; a  *)
(* discovery that fails is the same for both jobs.                         *)
ScanSteps ==
    /\ session.phase \in {"discover", "refresh", "select"} => session' # session
    /\ session.phase # "idle" => session' # session \/ queue' = queue
    /\ Discovering("backfill") => sync' # sync \/ sync.backDone

\* What still matters when nobody processes and nothing is refreshed: not the
\* old priority of a captured topic, nor which of the two scans has discovered.
ScanView ==
    <<posts, hidden, sync, item, marks, crashes, queue["capture"],
      [t \in Topics |-> IF task[t].capture = "captured" THEN [task[t] EXCEPT !.priority = 0]
                        ELSE task[t]],
      IF session.phase \in {"idle", "discover"} THEN session
      ELSE [session EXCEPT !.job = "none"]>>
=============================================================================
