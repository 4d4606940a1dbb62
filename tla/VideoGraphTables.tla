--------------------------- MODULE VideoGraphTables ---------------------------
(***************************************************************************)
(* The PostgreSQL build queue of the video knowledge graph                 *)
(* (backend/app/services/video_graph.py): the protocol of VideoGraph on    *)
(* rows.  VideoGraphState is the video, VideoGraphBuild a build; a         *)
(* transaction that decides on a video holds the state's row lock and then *)
(* the build's until it commits, so each is one action.  What differs: the *)
(* source is a row of the same database, so deleting it removes the queue  *)
(* with it and there is nothing to reconcile; and the claim is one         *)
(* statement that skips locked rows, with the material read in its         *)
(* transaction.                                                            *)
(***************************************************************************)
EXTENDS VideoGraph

VARIABLE backend    \* settings.video_graph_backend, for the life of the processes

bothVars == <<vars, backend>>
tables == backend = "postgres"

(* ON DELETE CASCADE: states, builds and evidence go with the item.        *)
DeleteRows ==
    /\ source \in Revisions
    /\ source' = Deleted
    /\ Spend("edits")
    /\ known' = FALSE /\ withdrawn' = FALSE /\ deleted' = FALSE
    /\ desired' = None /\ active' = None
    /\ status' = [b \in Builds |-> "absent"]
    /\ attempts' = [b \in Builds |-> 0]
    /\ token' = [b \in Builds |-> 0]
    /\ lapsed' = {}
    /\ output' = [b \in Builds |-> EmptyOutput]
    /\ projection' = [b \in Builds |-> {}]
    /\ UNCHANGED <<worker, scanner>>

(* withdraw_video refuses an item that is not there; the state row that it *)
(* may insert cannot outlive the item.                                     *)
WithdrawRows ==
    /\ source \in Revisions
    /\ Spend("operator")
    /\ \E restore \in BOOLEAN : Withdraw(restore, FALSE)
    /\ UNCHANGED <<source, projection, worker, scanner>>

(* The scan loads the material before it waits for the state's lock; it    *)
(* lists nothing when the item is not there.                               *)
ListRows(s) ==
    /\ scanner[s].pc = "idle"
    /\ SetScanner(s, IF source \in Revisions
                     THEN [pc |-> "loaded", present |-> TRUE, mat |-> source]
                     ELSE IdleScanner)
    /\ UNCHANGED <<source, video, build, projection, worker, budget>>

(* The item may be gone by then: its state row cannot be inserted and the  *)
(* scan's transaction is rolled back.                                      *)
EnqueueRows(s, ver) ==
    /\ scanner[s].pc = "loaded"
    /\ SetScanner(s, IdleScanner)
    /\ IF source \notin Revisions
       THEN UNCHANGED <<video, build, budget>>
       ELSE /\ known' = TRUE
            /\ \E retryFailed, retryPartial \in BOOLEAN :
                 /\ IF retryFailed \/ retryPartial THEN Spend("retries") ELSE UNCHANGED budget
                 /\ IF Refused
                    THEN UNCHANGED <<desired, active, build>>
                    ELSE EnqueueBuild([rev |-> scanner[s].mat, ver |-> ver],
                                      retryFailed, retryPartial)
            /\ UNCHANGED <<withdrawn, deleted>>
    /\ UNCHANGED <<source, projection, worker>>

(* claim_build and the read of the material.                               *)
ClaimRow(w) ==
    LET b == desired
        claimed == [worker[w] EXCEPT !.build = b, !.token = attempts[b] + 1,
                                     !.out = output[b], !.mat = source]
    IN  /\ worker[w].pc = "idle"
        /\ desired # None /\ desired.ver = WorkerVersion[w]
        /\ ~withdrawn /\ Claimable(b) /\ attempts[b] < MaxAttempts
        /\ status' = [status EXCEPT ![b] = "running"]
        /\ attempts' = [attempts EXCEPT ![b] = @ + 1]
        /\ token' = [token EXCEPT ![b] = attempts[b] + 1]
        /\ lapsed' = lapsed \ {b}
        /\ SetWorker(w, IF claimed.out.assessed = None THEN [claimed EXCEPT !.pc = "assess"]
                        ELSE StartChunks(claimed))
        /\ UNCHANGED <<source, video, output, projection, scanner, budget>>

(* Assessment, chunks and checkpoints, between transactions.               *)
ExtractRows(w) ==
    \/ Assess(w)
    \/ \E c \in Chunks : KeepChunk(w, c) \/ ExtractChunk(w, c)
    \/ RaiseError(w) \/ FinishChunks(w)

(* A worker whose build is gone or taken gives up; any other error fails   *)
(* the build if it is still its own.                                       *)
FailRow(w) == Fail(w)
ActivateLostRow(w) == worker[w].pc = "activate" /\ ~Owns(w) /\ Local(w, IdleWorker)

(* activate_build under the locks of state, build, item and chunks.        *)
ActivateRow(w) == ActivateObsolete(w) \/ ActivateRejected(w) \/ Activate(w)

ProcessRow(w) ==
    ClaimRow(w) \/ ExtractRows(w) \/ FailRow(w) \/ ActivateLostRow(w) \/ ActivateRow(w)

ScanRows(s) == ListRows(s) \/ \E ver \in Versions : EnqueueRows(s, ver)

TablesNext ==
    \/ CreateSource \/ EditSource \/ DeleteRows \/ WithdrawRows
    \/ \E s \in Scanners : ScanRows(s) \/ CrashScanner(s)
    \/ \E w \in Workers : ProcessRow(w) \/ CrashWorker(w)
    \/ \E b \in Builds : OrphanLeaseExpires(b) \/ SlowLeaseExpires(b)

TablesSpec == Init /\ [][TablesNext]_vars

(* A deployment chooses one of the two. *)
BothInit == Init /\ backend \in {"neo4j", "postgres"}
BothNext ==
    \/ ~tables /\ Next /\ UNCHANGED backend
    \/ tables /\ TablesNext /\ UNCHANGED backend
BothSpec == BothInit /\ [][BothNext]_bothVars

BothProcess(w) == (IF tables THEN ProcessRow(w) ELSE Process(w)) /\ UNCHANGED backend
BothScan(s) == (IF tables THEN ScanRows(s) ELSE Scan(s)) /\ UNCHANGED backend
BothFairness ==
    /\ \A w \in Workers : WF_bothVars(BothProcess(w))
    /\ \A s \in Scanners : WF_bothVars(BothScan(s))
    /\ \A b \in Builds : WF_bothVars(OrphanLeaseExpires(b) /\ UNCHANGED backend)
FairBothSpec == BothSpec /\ BothFairness

(* Neo4j alone, for what is said of it. *)
GraphStoreSpec == BothInit /\ ~tables /\ [][BothNext]_bothVars
=============================================================================
