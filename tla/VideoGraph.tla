------------------------------ MODULE VideoGraph ------------------------------
(***************************************************************************)
(* The Neo4j build queue of the video knowledge graph                      *)
(* (backend/app/services/neo4j_graph/store.py and worker.py), for one      *)
(* video.  PostgreSQL holds the source material of the video; Neo4j holds  *)
(* the VGVideo node, one VGBuild node per (fingerprint, extractor version) *)
(* and the projection each build has published.  Scanners enqueue builds,  *)
(* workers claim them under a lease, extract the chunks one at a time, and *)
(* activate the result; operators withdraw and restore the video.          *)
(*                                                                         *)
(* A Neo4j transaction of the store first write-locks the VGVideo node, so *)
(* each is one action.  What a worker or a scanner carries between two     *)
(* transactions is its local state, and everything else may happen there.  *)
(* Videos share no queue state, so one video is enough.                    *)
(***************************************************************************)
EXTENDS Naturals, FiniteSets

CONSTANTS
    Workers,        \* processes that run process_next
    Scanners,       \* processes that run enqueue_videos
    Revisions,      \* the fingerprints the video's material can have
    Versions,       \* extractor versions
    WorkerVersion,  \* WorkerVersion[w]: the extractor version worker w runs
    Chunks,         \* chunk ids
    Texts,          \* chunk fingerprints (text, kind and timestamps)
    TextOf,         \* TextOf[r][c]: the text of chunk c in revision r, or None
    Grounded,       \* <<s, t>>: an extraction of text s validates against t
    None,           \* the null of both databases
    NotCreated,     \* the content item has not been inserted yet
    Deleted,        \* the content item has been deleted
    Budget,         \* bounds: edits, operator, slow, crashes, retries
    MaxAttempts     \* bound on the claims of one build

Builds == [rev : Revisions, ver : Versions]
BudgetKinds == {"edits", "operator", "slow", "crashes", "retries"}

ASSUME RevisionsAssumption ==
    /\ None \notin Revisions /\ NotCreated \notin Revisions /\ Deleted \notin Revisions
    /\ NotCreated # Deleted /\ None # Deleted /\ None # NotCreated
ASSUME BuildsAssumption == None \notin Builds
ASSUME TextsAssumption ==
    /\ None \notin Texts
    /\ TextOf \in [Revisions -> [Chunks -> Texts \cup {None}]]
    /\ Grounded \subseteq Texts \X Texts
    /\ \A t \in Texts : <<t, t>> \in Grounded
ASSUME VersionAssumption == WorkerVersion \in [Workers -> Versions]
ASSUME BudgetAssumption == Budget \in [BudgetKinds -> Nat] /\ MaxAttempts \in Nat

VARIABLES
    source,       \* the material's fingerprint in PostgreSQL
    known,        \* the VGVideo node exists
    withdrawn, deleted, desired, active,           \* its properties
    status, attempts, token, output,   \* the properties of each VGBuild
    lapsed,       \* the builds whose lease_until has passed
    projection,   \* per build, its mentions and evidence: <<chunk, text extracted>>
    worker,       \* what each worker holds in memory
    scanner,      \* what each scanner holds in memory
    budget        \* what is left of the bounds

video == <<known, withdrawn, deleted, desired, active>>
build == <<status, attempts, token, lapsed, output>>
vars == <<source, video, build, projection, worker, scanner, budget>>

Statuses == {"absent", "pending", "running", "success", "partial_success",
             "failed", "obsolete"}
Open == {"pending", "running"}

(* output_json: who was assessed and how, the checkpointed chunks (each is *)
(* the text it was extracted from), the skipped chunks, the fingerprints   *)
(* and the chunk ids of the last publication.                              *)
Outputs == [assessed : Revisions \cup {None}, relevant : BOOLEAN,
            chunks : [Chunks -> Texts \cup {None}], errors : SUBSET Chunks,
            prints : [Chunks -> Texts \cup {None}], published : SUBSET Chunks]
EmptyOutput == [assessed |-> None, relevant |-> FALSE,
                chunks |-> [c \in Chunks |-> None], errors |-> {},
                prints |-> [c \in Chunks |-> None], published |-> {}]

Holding == {"assess", "chunks", "activate"}   \* the worker has loaded material
WorkerStates ==
    {state \in [pc : {"idle", "candidate", "claimed", "failing"} \cup Holding,
                build : Builds \cup {None}, token : Nat,
                mat : Revisions \cup {None}, out : Outputs, todo : SUBSET Chunks] :
        /\ state.pc # "idle" => state.build # None
        /\ state.pc \in Holding => state.mat # None}
ScannerStates ==
    {state \in [pc : {"idle", "listed", "loaded", "reconcile", "withdraw"},
                present : BOOLEAN, mat : Revisions \cup {None}] :
        state.pc = "loaded" => state.mat # None}
IdleWorker == [pc |-> "idle", build |-> None, token |-> 0, mat |-> None,
               out |-> EmptyOutput, todo |-> {}]
IdleScanner == [pc |-> "idle", present |-> FALSE, mat |-> None]

TypeOK ==
    /\ source \in Revisions \cup {NotCreated, Deleted}
    /\ known \in BOOLEAN /\ withdrawn \in BOOLEAN /\ deleted \in BOOLEAN
    /\ desired \in Builds \cup {None}
    /\ active \in Builds \cup {None}
    /\ status \in [Builds -> Statuses]
    /\ attempts \in [Builds -> Nat]
    /\ token \in [Builds -> Nat]
    /\ lapsed \in SUBSET Builds
    /\ output \in [Builds -> Outputs]
    /\ projection \in [Builds -> SUBSET (Chunks \X Texts)]
    /\ worker \in [Workers -> WorkerStates]
    /\ scanner \in [Scanners -> ScannerStates]
    /\ budget \in [BudgetKinds -> Nat]

Init ==
    /\ source = NotCreated
    /\ known = FALSE /\ withdrawn = FALSE /\ deleted = FALSE
    /\ desired = None /\ active = None
    /\ status = [b \in Builds |-> "absent"]
    /\ attempts = [b \in Builds |-> 0]
    /\ token = [b \in Builds |-> 0]
    /\ lapsed = {}
    /\ output = [b \in Builds |-> EmptyOutput]
    /\ projection = [b \in Builds |-> {}]
    /\ worker = [w \in Workers |-> IdleWorker]
    /\ scanner = [s \in Scanners |-> IdleScanner]
    /\ budget = Budget

Spend(kind) ==
    /\ budget[kind] > 0
    /\ budget' = [budget EXCEPT ![kind] = @ - 1]

-----------------------------------------------------------------------------
(* The material: extraction_chunks, validation and coverage.               *)

ExtractionChunks(r) == {c \in Chunks : TextOf[r][c] # None}
FoundInRevision(e, r) == <<e[2], TextOf[r][e[1]]>> \in Grounded
Valid(out, r, c) == out.chunks[c] # None /\ <<out.chunks[c], TextOf[r][c]>> \in Grounded

Applicable(out, r) == IF out.relevant THEN ExtractionChunks(r) ELSE {}
Passed(out, r) == {c \in Applicable(out, r) : out.chunks[c] # None}
Skipped(out, r) == (Applicable(out, r) \cap out.errors) \ Passed(out, r)
PendingChunks(out, r) == Applicable(out, r) \ (Passed(out, r) \cup Skipped(out, r))

-----------------------------------------------------------------------------
(* The source: the crawler inserts, edits and deletes the content item.    *)

CreateSource ==
    /\ source = NotCreated
    /\ source' \in Revisions
    /\ UNCHANGED <<video, build, projection, worker, scanner, budget>>

EditSource ==
    /\ source \in Revisions
    /\ \E r \in Revisions \ {source} : source' = r
    /\ Spend("edits")
    /\ UNCHANGED <<video, build, projection, worker, scanner>>

DeleteSource ==
    /\ source \in Revisions
    /\ source' = Deleted
    /\ Spend("edits")
    /\ UNCHANGED <<video, build, projection, worker, scanner>>

-----------------------------------------------------------------------------
(* GraphStore.withdraw, as the CLI and the reconciliation call it.         *)

\* These builds get this status and lose token and lease.
Release(builds, st) ==
    /\ status' = [b \in Builds |-> IF b \in builds THEN st ELSE status[b]]
    /\ token' = [b \in Builds |-> IF b \in builds THEN 0 ELSE token[b]]
    /\ lapsed' = lapsed \ builds

Withdraw(restore, del) ==
    /\ known' = TRUE
    /\ withdrawn' = ~restore
    /\ deleted' = del
    /\ IF restore
       THEN UNCHANGED <<desired, active, build>>
       ELSE /\ desired' = None
            /\ active' = None
            /\ Release({b \in Builds : b = desired /\ status[b] \in Open}, "obsolete")
            /\ UNCHANGED <<attempts, output>>

\* The command checks that the item exists in PostgreSQL before it takes the
\* video lock, without locking the row: by then the item may be gone again.
OperatorWithdraw ==
    /\ source # NotCreated
    /\ Spend("operator")
    /\ \E restore \in BOOLEAN : Withdraw(restore, FALSE)
    /\ UNCHANGED <<source, projection, worker, scanner>>

-----------------------------------------------------------------------------
(* enqueue_videos: list the items, load and enqueue, then reconcile.       *)

SetScanner(s, state) == scanner' = [scanner EXCEPT ![s] = state]

ScanList(s) ==
    /\ scanner[s].pc = "idle"
    /\ LET present == source \in Revisions
       IN SetScanner(s, [pc |-> IF present THEN "listed" ELSE "reconcile",
                         present |-> present, mat |-> None])
    /\ UNCHANGED <<source, video, build, projection, worker, budget>>

ScanLoad(s) ==
    /\ scanner[s].pc = "listed"
    /\ SetScanner(s, IF source \in Revisions
                     THEN [scanner[s] EXCEPT !.pc = "loaded", !.mat = source]
                     ELSE [scanner[s] EXCEPT !.pc = "reconcile"])
    /\ UNCHANGED <<source, video, build, projection, worker, budget>>

\* The chunk of the active build whose text is that of chunk c of revision r.
Reusable(prev, r, c) ==
    {old \in Chunks : prev.chunks[old] # None /\ prev.prints[old] = TextOf[r][c]}

\* The checkpoints of the active build that carry over to revision r.
ReuseChunks(out, prev, r) ==
    LET From(c) == CHOOSE old \in Reusable(prev, r, c) : TRUE
        take == {c \in ExtractionChunks(r) :
                    /\ out.chunks[c] = None
                    /\ Reusable(prev, r, c) # {}
                    /\ <<prev.chunks[From(c)], TextOf[r][c]>> \in Grounded}
    IN [out EXCEPT
          !.chunks = [c \in Chunks |-> IF c \in take THEN prev.chunks[From(c)] ELSE @[c]],
          !.prints = [c \in Chunks |-> IF c \in take THEN TextOf[r][c] ELSE @[c]]]

\* Mutant: a successful build is never run again.
RequeueNoSuccess(b, retryFailed, retryPartial) ==
    \/ status[b] = "obsolete"
    \/ retryFailed /\ status[b] \in {"failed", "partial_success"}
    \/ retryPartial /\ status[b] = "partial_success"
    \/ status[b] = "partial_success" /\ active = None

\* Whether a scan sends an existing build back to the queue.
Requeue(b, retryFailed, retryPartial) ==
    \/ status[b] = "obsolete"
    \/ retryFailed /\ status[b] \in {"failed", "partial_success"}
    \/ retryPartial /\ status[b] = "partial_success"
    \/ status[b] = "partial_success" /\ active = None
    \/ status[b] = "success" /\ active # b

\* The build the video wanted so far is given up when another one is wanted.
Superseded(x, b) == x = desired /\ x # b /\ status[x] \in Open

EnqueueBuild(b, retryFailed, retryPartial) ==
    LET queued == \/ status[b] \in {"absent", "pending"}
                  \/ Requeue(b, retryFailed, retryPartial)
        stale == {x \in Builds : Superseded(x, b)}
        freed == stale \cup IF queued THEN {b} ELSE {}
        reuse == queued /\ active \notin {None, b} /\ active.ver = b.ver
    IN /\ status' = [x \in Builds |-> IF x = b /\ queued THEN "pending"
                                      ELSE IF x \in stale THEN "obsolete" ELSE status[x]]
       /\ token' = [x \in Builds |-> IF x \in freed THEN 0 ELSE token[x]]
       /\ lapsed' = lapsed \ freed
       /\ output' = [output EXCEPT ![b] =
                        IF reuse THEN ReuseChunks(@, output[active], b.rev) ELSE @]
       /\ desired' = b
       /\ UNCHANGED <<attempts, active>>

\* The scan leaves a withdrawn video alone.
Refused == withdrawn

ScanEnqueue(s, ver) ==
    /\ scanner[s].pc = "loaded"
    /\ known' = TRUE
    /\ deleted' = FALSE
    /\ \E retryFailed, retryPartial \in BOOLEAN :
         /\ IF retryFailed \/ retryPartial THEN Spend("retries") ELSE UNCHANGED budget
         /\ IF Refused
            THEN UNCHANGED <<desired, active, build>>
            ELSE EnqueueBuild([rev |-> scanner[s].mat, ver |-> ver],
                              retryFailed, retryPartial)
    /\ SetScanner(s, [scanner[s] EXCEPT !.pc = "reconcile", !.mat = None])
    /\ UNCHANGED <<source, withdrawn, projection, worker>>

\* Mutant: deletions are not reconciled.
ScanKnownNoReconcile(s) ==
    /\ scanner[s].pc = "reconcile"
    /\ SetScanner(s, IdleScanner)
    /\ UNCHANGED <<source, video, build, projection, worker, budget>>

\* The scan ends here unless the graph knows a video the listing did not.
ScanKnown(s) ==
    /\ scanner[s].pc = "reconcile"
    /\ SetScanner(s, IF known /\ ~deleted /\ ~scanner[s].present
                     THEN [scanner[s] EXCEPT !.pc = "withdraw"] ELSE IdleScanner)
    /\ UNCHANGED <<source, video, build, projection, worker, budget>>

ScanWithdraw(s) ==
    /\ scanner[s].pc = "withdraw"
    /\ Withdraw(FALSE, TRUE)
    /\ SetScanner(s, IdleScanner)
    /\ UNCHANGED <<source, projection, worker, budget>>

Scan(s) ==
    \/ ScanList(s) \/ ScanLoad(s) \/ ScanKnown(s) \/ ScanWithdraw(s)
    \/ \E ver \in Versions : ScanEnqueue(s, ver)

-----------------------------------------------------------------------------
(* GraphStore.claim: candidates are read first, then each is checked again *)
(* under the video lock.                                                   *)

SetWorker(w, state) == worker' = [worker EXCEPT ![w] = state]

\* Mutant: a lapsed lease is not taken over.
ClaimablePending(b) == status[b] = "pending"

Claimable(b) == status[b] = "pending" \/ (status[b] = "running" /\ b \in lapsed)

ReadCandidate(w) ==
    /\ worker[w].pc = "idle"
    /\ desired # None /\ desired.ver = WorkerVersion[w]
    /\ ~withdrawn /\ ~deleted
    /\ Claimable(desired)
    /\ SetWorker(w, [worker[w] EXCEPT !.pc = "candidate", !.build = desired])
    /\ UNCHANGED <<source, video, build, projection, scanner, budget>>

Claim(w) ==
    LET b == worker[w].build
    IN /\ worker[w].pc = "candidate"
       /\ IF Claimable(b) /\ ~withdrawn /\ ~deleted /\ desired = b
          THEN /\ attempts[b] < MaxAttempts
               /\ status' = [status EXCEPT ![b] = "running"]
               /\ attempts' = [attempts EXCEPT ![b] = @ + 1]
               \* A token is a fresh uuid; the attempt it starts identifies it.
               /\ token' = [token EXCEPT ![b] = attempts[b] + 1]
               /\ lapsed' = lapsed \ {b}
               /\ SetWorker(w, [worker[w] EXCEPT !.pc = "claimed",
                                  !.token = attempts[b] + 1, !.out = output[b]])
               /\ UNCHANGED output
          ELSE /\ SetWorker(w, IdleWorker)
               /\ UNCHANGED build
       /\ UNCHANGED <<source, video, projection, scanner, budget>>

-----------------------------------------------------------------------------
(* process_next, from the material it loads after the claim to activation. *)

\* Mutant: the status alone gives the right to write.
OwnsWithoutToken(w) == LET b == worker[w].build IN b # None /\ status[b] = "running"

\* The worker's token still opens the build: GraphStore.owned.
Owns(w) ==
    LET b == worker[w].build
    IN b # None /\ status[b] = "running" /\ token[b] = worker[w].token

\* GraphStore.checkpoint saves the whole local output and renews the lease;
\* a worker that lost the lease gives the task up and writes nothing.
Checkpoint(w, state) ==
    LET b == worker[w].build
    IN /\ IF Owns(w)
          THEN /\ output' = [output EXCEPT ![b] = state.out]
               /\ lapsed' = lapsed \ {b}
               /\ SetWorker(w, state)
          ELSE /\ SetWorker(w, IdleWorker)
               /\ UNCHANGED <<output, lapsed>>
       /\ UNCHANGED <<source, video, status, attempts, token, projection, scanner, budget>>

\* A step that changes only what the worker holds.
Local(w, state) ==
    /\ SetWorker(w, state)
    /\ UNCHANGED <<source, video, build, projection, scanner, budget>>

StartChunks(state) ==
    [state EXCEPT
       !.pc = "chunks",
       !.out.prints = TextOf[state.mat],
       !.todo = IF state.out.relevant THEN ExtractionChunks(state.mat) ELSE {}]

LoadMaterial(w) ==
    LET loaded == [worker[w] EXCEPT !.mat = source]
    IN /\ worker[w].pc = "claimed"
       /\ Local(w, IF source \notin Revisions THEN IdleWorker
                   ELSE IF worker[w].out.assessed = None
                        THEN [loaded EXCEPT !.pc = "assess"]
                        ELSE StartChunks(loaded))

\* Material with no chunk to extract is not relevant, without a model call.
Assess(w) ==
    /\ worker[w].pc = "assess"
    /\ \E relevant \in BOOLEAN :
         /\ relevant => ExtractionChunks(worker[w].mat) # {}
         /\ LET assessed == [worker[w] EXCEPT !.out.assessed = worker[w].mat,
                                              !.out.relevant = relevant]
            IN IF Owns(w)
               THEN /\ output' = [output EXCEPT ![worker[w].build] = assessed.out]
                    /\ lapsed' = lapsed \ {worker[w].build}
                    /\ SetWorker(w, StartChunks(assessed))
                    /\ UNCHANGED <<source, video, status, attempts, token, projection,
                                   scanner, budget>>
               ELSE Local(w, IdleWorker)

\* A checkpointed chunk that still validates is kept without a model call.
KeepChunk(w, c) ==
    /\ worker[w].pc = "chunks" /\ c \in worker[w].todo
    /\ Valid(worker[w].out, worker[w].mat, c)
    /\ Local(w, [worker[w] EXCEPT !.todo = @ \ {c}, !.out.errors = @ \ {c}])

\* Any other chunk is extracted again; its outcome is saved either way.
ExtractChunk(w, c) ==
    /\ worker[w].pc = "chunks" /\ c \in worker[w].todo
    /\ ~Valid(worker[w].out, worker[w].mat, c)
    /\ \/ Checkpoint(w, [worker[w] EXCEPT
                           !.todo = @ \ {c}, !.out.errors = @ \ {c},
                           !.out.chunks[c] = TextOf[worker[w].mat][c]])
       \/ Checkpoint(w, [worker[w] EXCEPT
                           !.todo = @ \ {c}, !.out.errors = @ \cup {c},
                           !.out.chunks[c] = None])

\* The model call, or a database, raises anything but a validation error.
RaiseError(w) ==
    /\ worker[w].pc \in {"assess", "chunks", "activate"}
    /\ Local(w, [worker[w] EXCEPT !.pc = "failing"])

FinishChunks(w) ==
    /\ worker[w].pc = "chunks" /\ worker[w].todo = {}
    /\ Local(w, [worker[w] EXCEPT !.pc = "activate"])

\* GraphStore.fail.
Fail(w) ==
    LET b == worker[w].build
    IN /\ worker[w].pc = "failing"
       /\ IF Owns(w)
          THEN Release({b}, "failed")
          ELSE UNCHANGED <<status, token, lapsed>>
       /\ SetWorker(w, IdleWorker)
       /\ UNCHANGED <<source, video, attempts, output, projection, scanner, budget>>

-----------------------------------------------------------------------------
(* Activation: the content item's row lock keeps the source still while    *)
(* GraphStore.activate runs, so each outcome is one action.                *)

\* The build leaves the queue with this status and this output.
Close(b, final, out) ==
    /\ Release({b}, final)
    /\ output' = [output EXCEPT ![b] = out]
    /\ UNCHANGED attempts

ActivateDeleted(w) ==
    /\ worker[w].pc = "activate" /\ source \notin Revisions
    /\ Withdraw(FALSE, TRUE)
    /\ SetWorker(w, IdleWorker)
    /\ UNCHANGED <<source, projection, scanner, budget>>

ActivateLost(w) ==
    /\ worker[w].pc = "activate" /\ source \in Revisions
    /\ ~Owns(w)
    /\ Local(w, IdleWorker)

\* Mutant: the fingerprint is not compared again.
CurrentAnyMaterial(b) == ~withdrawn /\ ~deleted /\ desired = b

\* The build is still what the video wants, for the material it has now.
Current(b) == ~withdrawn /\ ~deleted /\ desired = b /\ b.rev = source

ActivateObsolete(w) ==
    LET b == worker[w].build
    IN /\ worker[w].pc = "activate" /\ source \in Revisions
       /\ Owns(w) /\ ~Current(b)
       /\ Close(b, "obsolete", output[b])
       /\ SetWorker(w, IdleWorker)
       /\ UNCHANGED <<source, video, projection, scanner, budget>>

\* Mutant: a build always replaces its own projection.
PreserveOtherBuild(b, out, passed) ==
    Skipped(out, source) # {} /\ active # None /\ active # b

\* The previous projection stays: another build's, or this build's own when
\* the new one would lose a chunk of it.
Preserve(b, out, passed) ==
    /\ Skipped(out, source) # {}
    /\ active # None
    /\ active # b \/ ~(out.published \subseteq passed)

\* Mutant: publish trusts the checkpointed chunks.
PublishableUnchecked(out) == TRUE

\* publish validates every chunk again and raises if one no longer holds.
Publishable(out) == \A c \in Passed(out, source) : Valid(out, source, c)

Rejected(b, out) ==
    \/ PendingChunks(out, source) # {}
    \/ /\ ~(out.relevant /\ Passed(out, source) = {})
       /\ ~Preserve(b, out, Passed(out, source))
       /\ ~Publishable(out)

\* The transaction rolls back and the task is failed by the next one.
ActivateRejected(w) ==
    LET b == worker[w].build
    IN /\ worker[w].pc = "activate" /\ source \in Revisions
       /\ Owns(w) /\ Current(b) /\ Rejected(b, worker[w].out)
       /\ Local(w, [worker[w] EXCEPT !.pc = "failing"])

Activate(w) ==
    LET b == worker[w].build
        out == worker[w].out
        passed == Passed(out, source)
        final == IF out.relevant /\ passed = {} THEN "failed"
                 ELSE IF Skipped(out, source) # {} THEN "partial_success" ELSE "success"
    IN /\ worker[w].pc = "activate" /\ source \in Revisions
       /\ Owns(w) /\ Current(b) /\ ~Rejected(b, out)
       /\ IF final = "failed" \/ Preserve(b, out, passed)
          THEN /\ Close(b, final, out)
               /\ UNCHANGED <<projection, active>>
          ELSE /\ Close(b, final, [out EXCEPT !.published = passed])
               /\ projection' = [projection EXCEPT ![b] = {<<c, out.chunks[c]>> : c \in passed}]
               /\ active' = b
       /\ SetWorker(w, IdleWorker)
       /\ UNCHANGED <<source, known, withdrawn, deleted, desired, scanner, budget>>

Process(w) ==
    \/ ReadCandidate(w) \/ Claim(w) \/ LoadMaterial(w) \/ Assess(w)
    \/ \E c \in Chunks : KeepChunk(w, c) \/ ExtractChunk(w, c)
    \/ RaiseError(w) \/ FinishChunks(w) \/ Fail(w)
    \/ ActivateDeleted(w) \/ ActivateLost(w) \/ ActivateObsolete(w)
    \/ ActivateRejected(w) \/ Activate(w)

-----------------------------------------------------------------------------
(* Crashes and the lease clock.                                            *)

CrashWorker(w) ==
    /\ worker[w].pc # "idle"
    /\ Spend("crashes")
    /\ SetWorker(w, IdleWorker)
    /\ UNCHANGED <<source, video, build, projection, scanner>>

CrashScanner(s) ==
    /\ scanner[s].pc # "idle"
    /\ Spend("crashes")
    /\ SetScanner(s, IdleScanner)
    /\ UNCHANGED <<source, video, build, projection, worker>>

\* LEASE_SECONDS pass without a checkpoint: nobody is left to make one, ...
OrphanLeaseExpires(b) ==
    /\ status[b] = "running" /\ b \notin lapsed
    /\ \A w \in Workers : worker[w].build = b => worker[w].token # token[b]
    /\ lapsed' = lapsed \cup {b}
    /\ UNCHANGED <<source, video, status, attempts, token, output, projection, worker,
                   scanner, budget>>

\* ... or the worker that should is slow.
SlowLeaseExpires(b) ==
    /\ status[b] = "running" /\ b \notin lapsed
    /\ Spend("slow")
    /\ lapsed' = lapsed \cup {b}
    /\ UNCHANGED <<source, video, status, attempts, token, output, projection, worker, scanner>>

Next ==
    \/ CreateSource \/ EditSource \/ DeleteSource \/ OperatorWithdraw
    \/ \E s \in Scanners : Scan(s) \/ CrashScanner(s)
    \/ \E w \in Workers : Process(w) \/ CrashWorker(w)
    \/ \E b \in Builds : OrphanLeaseExpires(b) \/ SlowLeaseExpires(b)

Spec == Init /\ [][Next]_vars

\* watch rescans and drains the queue for ever; a lease nobody renews expires.
Fairness ==
    /\ \A w \in Workers : WF_vars(Process(w))
    /\ \A s \in Scanners : WF_vars(Scan(s))
    /\ \A b \in Builds : WF_vars(OrphanLeaseExpires(b))

FairSpec == Spec /\ Fairness

-----------------------------------------------------------------------------
(* Properties.                                                             *)

\* Two workers never both hold the right to write one build: a takeover after
\* an expired lease fences the previous holder, whatever it does next.
SingleOwner ==
    \A v, w \in Workers :
        v # w /\ Owns(v) /\ Owns(w) => worker[v].build # worker[w].build

\* The queue holds no orphan: whatever is pending or running is the build the
\* video wants, across edits, withdrawals and late workers.
OpenBuildsAreDesired ==
    \A b \in Builds : status[b] \in Open => desired = b

\* A withdrawn video serves nothing and has nothing queued, even when a worker
\* was about to activate it.
WithdrawnServesNothing ==
    withdrawn => active = None /\ desired = None

\* The queue: one owner per build, no orphan, and nothing of a withdrawn video.
QueueIsSound == TypeOK /\ SingleOwner /\ OpenBuildsAreDesired /\ WithdrawnServesNothing

\* A scan reports "unchanged" for a finished build only when the video serves
\* something: all of a successful build, or at least a retained projection.
UnchangedIsServed ==
    desired # None =>
        /\ status[desired] = "success" => active = desired
        /\ status[desired] = "partial_success" => active # None

\* Every mention and evidence a build serves is found in the text its own
\* revision has for the chunk, although chunks are extracted from material
\* read after the claim and reused from other builds.
ProjectionGrounded ==
    \A b \in Builds : \A e \in projection[b] : FoundInRevision(e, b.rev)

\* A rerun of a partly successful build never takes a published chunk away
\* from the projection it replaces.
PublishedChunksKept ==
    [][\A b \in Builds :
         active = b /\ active' = b =>
            {e[1] : e \in projection[b]} \subseteq {e[1] : e \in projection'[b]}]_vars

\* Once the source has settled, the scans and the workers bring the graph to
\* it: its build is desired and finished, and served if it succeeded.
Settled ==
    source \in Revisions /\ ~withdrawn =>
        /\ desired # None
        /\ desired.rev = source
        /\ status[desired] \in {"success", "partial_success", "failed"}
Converges == <>[]Settled

\* A deleted video ends up withdrawn, whoever was working on it.
DeletionReconciled == <>[](source = Deleted /\ known => withdrawn /\ active = None)

\* What readers see implements the abstract projection: an expired worker or an
\* older source revision never overwrites a newer graph.
Promise == INSTANCE VideoProjection WITH
    Nothing <- None,
    Facts <- Chunks \X Texts,
    FoundIn <- FoundInRevision,
    served <- IF active = None THEN None ELSE active.rev,
    facts <- IF active = None THEN {} ELSE projection[active]
ServesPromise == Promise!Spec

\* The reconciliation of a scan withdraws only videos PostgreSQL has lost.
ReconcilesOnlyDeletions ==
    [][(\E s \in Scanners : ScanWithdraw(s)) => source \notin Revisions]_vars
=============================================================================
