---------------------------- MODULE VideoGraphProofs ----------------------------
(***************************************************************************)
(* Theorems about the video graph's build queue, for any sets of workers,  *)
(* scanners, revisions, versions, chunks and texts.                        *)
(***************************************************************************)
EXTENDS VideoGraphTables, TLAPS

-----------------------------------------------------------------------------
(* Type correctness.                                                       *)

\* The operators on outputs and on what a worker holds keep their types.
LEMMA EmptyOutputType == EmptyOutput \in Outputs
  BY DEF EmptyOutput, Outputs

LEMMA IdleTypes == IdleWorker \in WorkerStates /\ IdleScanner \in ScannerStates
  BY EmptyOutputType DEF IdleWorker, IdleScanner, WorkerStates, ScannerStates, Holding

LEMMA StartChunksType ==
    ASSUME NEW state \in WorkerStates, state.mat \in Revisions, state.build # None
    PROVE  StartChunks(state) \in WorkerStates
  BY TextsAssumption, RevisionsAssumption
     DEF StartChunks, WorkerStates, Outputs, ExtractionChunks, Holding

LEMMA ReuseChunksType ==
    ASSUME NEW out \in Outputs, NEW prev \in Outputs, NEW r \in Revisions
    PROVE  ReuseChunks(out, prev, r) \in Outputs
<1> DEFINE From(c) == CHOOSE old \in Reusable(prev, r, c) : TRUE
           take == {c \in ExtractionChunks(r) :
                      /\ out.chunks[c] = None
                      /\ Reusable(prev, r, c) # {}
                      /\ <<prev.chunks[From(c)], TextOf[r][c]>> \in Grounded}
           chunks == [c \in Chunks |-> IF c \in take THEN prev.chunks[From(c)] ELSE out.chunks[c]]
           prints == [c \in Chunks |-> IF c \in take THEN TextOf[r][c] ELSE out.prints[c]]
<1>1. ASSUME NEW c \in take PROVE From(c) \in Chunks
  BY DEF Reusable
<1>2. chunks \in [Chunks -> Texts \cup {None}]
  <2> HIDE DEF From, take
  <2> QED BY <1>1 DEF Outputs
<1>3. prints \in [Chunks -> Texts \cup {None}]
  <2> HIDE DEF take
  <2> QED BY TextsAssumption DEF Outputs
<1>4. ReuseChunks(out, prev, r) = [out EXCEPT !.chunks = chunks, !.prints = prints]
  BY DEF ReuseChunks
<1> HIDE DEF chunks, prints
<1> QED BY <1>2, <1>3, <1>4 DEF Outputs

LEMMA SpendType ==
    ASSUME budget \in [BudgetKinds -> Nat], NEW kind \in BudgetKinds, Spend(kind)
    PROVE  budget' \in [BudgetKinds -> Nat]
  BY DEF Spend

LEMMA WithdrawType ==
    ASSUME TypeOK, NEW restore \in BOOLEAN, NEW del \in BOOLEAN, Withdraw(restore, del)
    PROVE  /\ known' \in BOOLEAN /\ withdrawn' \in BOOLEAN /\ deleted' \in BOOLEAN
           /\ desired' \in Builds \cup {None} /\ active' \in Builds \cup {None}
           /\ status' \in [Builds -> Statuses] /\ attempts' \in [Builds -> Nat]
           /\ token' \in [Builds -> Nat] /\ lapsed' \in SUBSET Builds
           /\ output' \in [Builds -> Outputs]
<1> USE DEF TypeOK, Withdraw, Release, Statuses, build
<1>1. withdrawn' \in BOOLEAN
  OBVIOUS
<1>2. CASE restore = TRUE
  BY <1>1, <1>2
<1>3. CASE restore = FALSE
  <2>1. status' \in [Builds -> Statuses]
    BY <1>3
  <2>2. token' \in [Builds -> Nat]
    BY <1>3
  <2> QED BY <1>1, <1>3, <2>1, <2>2
<1> QED BY <1>2, <1>3

LEMMA EnqueueType ==
    ASSUME TypeOK, NEW r \in Revisions, NEW ver \in Versions,
           NEW retryFailed \in BOOLEAN, NEW retryPartial \in BOOLEAN,
           EnqueueBuild([rev |-> r, ver |-> ver], retryFailed, retryPartial)
    PROVE  /\ desired' \in Builds \cup {None} /\ active' \in Builds \cup {None}
           /\ status' \in [Builds -> Statuses] /\ attempts' \in [Builds -> Nat]
           /\ token' \in [Builds -> Nat] /\ lapsed' \in SUBSET Builds
           /\ output' \in [Builds -> Outputs]
<1> DEFINE b == [rev |-> r, ver |-> ver]
<1>1. b \in Builds /\ b.rev = r
  BY DEF Builds
<1>2. ASSUME active \notin {None, b}
      PROVE  ReuseChunks(output[b], output[active], r) \in Outputs
  BY <1>1, <1>2, ReuseChunksType DEF TypeOK
<1>3. output' \in [Builds -> Outputs]
  <2> HIDE DEF b
  <2>1. PICK reuse \in BOOLEAN :
           /\ reuse => active \notin {None, b}
           /\ output' = [output EXCEPT ![b] =
                           IF reuse THEN ReuseChunks(@, output[active], b.rev) ELSE @]
    BY DEF EnqueueBuild, b
  <2> QED BY <2>1, <1>1, <1>2 DEF TypeOK
<1>4. status' \in [Builds -> Statuses]
  BY DEF TypeOK, EnqueueBuild, Statuses
<1>5. token' \in [Builds -> Nat]
  BY DEF TypeOK, EnqueueBuild
<1> QED
  BY <1>1, <1>3, <1>4, <1>5 DEF TypeOK, EnqueueBuild

LEMMA ReleaseType ==
    ASSUME TypeOK, NEW builds, NEW st \in Statuses, Release(builds, st)
    PROVE  /\ status' \in [Builds -> Statuses] /\ token' \in [Builds -> Nat]
           /\ lapsed' \in SUBSET Builds
  BY DEF TypeOK, Release

LEMMA CloseType ==
    ASSUME TypeOK, NEW b \in Builds, NEW st \in Statuses, NEW out \in Outputs, Close(b, st, out)
    PROVE  /\ status' \in [Builds -> Statuses] /\ token' \in [Builds -> Nat]
           /\ lapsed' \in SUBSET Builds /\ output' \in [Builds -> Outputs]
           /\ attempts' \in [Builds -> Nat]
  BY ReleaseType DEF TypeOK, Close

LEMMA LocalType ==
    ASSUME TypeOK, NEW w \in Workers, NEW state \in WorkerStates, Local(w, state)
    PROVE  TypeOK'
  BY DEF TypeOK, Local, SetWorker, video, build

LEMMA CheckpointType ==
    ASSUME TypeOK, NEW w \in Workers, NEW state \in WorkerStates, Checkpoint(w, state)
    PROVE  TypeOK'
<1>1. state.out \in Outputs
  BY DEF WorkerStates
<1>2. output' \in [Builds -> Outputs] /\ lapsed' \in SUBSET Builds
  BY <1>1 DEF TypeOK, Checkpoint
<1> QED BY <1>2, IdleTypes DEF TypeOK, Checkpoint, SetWorker, video

LEMMA CandidateType ==
    ASSUME NEW state \in WorkerStates, NEW b \in Builds
    PROVE  [state EXCEPT !.pc = "candidate", !.build = b] \in WorkerStates
  BY BuildsAssumption DEF WorkerStates, Holding

LEMMA ClaimedType ==
    ASSUME NEW state \in WorkerStates, state.pc # "idle", NEW n \in Nat, NEW out \in Outputs
    PROVE  [state EXCEPT !.pc = "claimed", !.token = n, !.out = out] \in WorkerStates
  BY DEF WorkerStates, Holding

LEMMA MoveType ==
    ASSUME NEW state \in WorkerStates, state.pc \in Holding, NEW pc \in {"activate", "failing"}
    PROVE  [state EXCEPT !.pc = pc] \in WorkerStates
  BY DEF WorkerStates, Holding

LEMMA LoadedType ==
    ASSUME NEW state \in WorkerStates, state.pc = "claimed", NEW r \in Revisions
    PROVE  /\ [state EXCEPT !.mat = r, !.pc = "assess"] \in WorkerStates
           /\ [[state EXCEPT !.mat = r] EXCEPT !.pc = "assess"] \in WorkerStates
           /\ StartChunks([state EXCEPT !.mat = r]) \in WorkerStates
<1>1. [state EXCEPT !.mat = r] \in WorkerStates
  BY DEF WorkerStates, Holding
<1>2. [state EXCEPT !.mat = r].mat = r /\ [state EXCEPT !.mat = r].build # None
  BY DEF WorkerStates
<1>3. StartChunks([state EXCEPT !.mat = r]) \in WorkerStates
  BY <1>1, <1>2, StartChunksType
<1>4. [[state EXCEPT !.mat = r] EXCEPT !.pc = "assess"] \in WorkerStates
  BY RevisionsAssumption DEF WorkerStates, Holding
<1> QED BY <1>3, <1>4 DEF WorkerStates

LEMMA AssessedType ==
    ASSUME NEW state \in WorkerStates, state.pc = "assess", NEW relevant \in BOOLEAN
    PROVE  LET assessed == [state EXCEPT !.out.assessed = state.mat, !.out.relevant = relevant]
           IN /\ assessed.out \in Outputs
              /\ StartChunks(assessed) \in WorkerStates
<1> DEFINE assessed == [state EXCEPT !.out.assessed = state.mat, !.out.relevant = relevant]
<1>1. state.mat \in Revisions /\ state.build # None
  BY DEF WorkerStates, Holding
<1>2. assessed.out \in Outputs /\ assessed \in WorkerStates
  BY <1>1 DEF WorkerStates, Outputs, Holding
<1>3. assessed.mat \in Revisions /\ assessed.build # None
  BY <1>1 DEF WorkerStates
<1> HIDE DEF assessed
<1>4. StartChunks(assessed) \in WorkerStates
  BY <1>2, <1>3, StartChunksType
<1> QED BY <1>2, <1>4 DEF assessed

LEMMA ChunkType ==
    ASSUME NEW state \in WorkerStates, state.pc = "chunks", NEW c \in Chunks
    PROVE  /\ [state EXCEPT !.todo = @ \ {c}, !.out.errors = @ \ {c}] \in WorkerStates
           /\ [state EXCEPT !.todo = @ \ {c}, !.out.errors = @ \ {c},
                             !.out.chunks[c] = TextOf[state.mat][c]] \in WorkerStates
           /\ [state EXCEPT !.todo = @ \ {c}, !.out.errors = @ \cup {c},
                             !.out.chunks[c] = None] \in WorkerStates
<1>1. state.mat \in Revisions
  BY DEF WorkerStates, Holding
<1>2. TextOf[state.mat][c] \in Texts \cup {None}
  BY <1>1, TextsAssumption
<1> QED BY ZenonT(40), <1>2 DEF WorkerStates, Outputs, Holding

LEMMA ActivateType ==
    ASSUME TypeOK, NEW w \in Workers, Activate(w)
    PROVE  TypeOK'
<1> DEFINE b == worker[w].build
           out == worker[w].out
           passed == Passed(out, source)
<1>1. b \in Builds /\ out \in Outputs /\ source \in Revisions
  BY DEF TypeOK, Activate, Owns, WorkerStates
<1>2. passed \in SUBSET Chunks
  BY DEF Passed, Applicable, ExtractionChunks
<1>3. [out EXCEPT !.published = passed] \in Outputs
  BY <1>1, <1>2 DEF Outputs
<1>4. {<<c, out.chunks[c]>> : c \in passed} \in SUBSET (Chunks \X Texts)
  BY <1>1, <1>2 DEF Outputs, Passed
<1>5. PICK final \in {"failed", "partial_success", "success"} :
         IF final = "failed" \/ Preserve(b, out, passed)
         THEN /\ Close(b, final, out)
              /\ UNCHANGED <<projection, active>>
         ELSE /\ Close(b, final, [out EXCEPT !.published = passed])
              /\ projection' = [projection EXCEPT ![b] = {<<c, out.chunks[c]>> : c \in passed}]
              /\ active' = b
  BY DEF Activate
<1>6. worker' \in [Workers -> WorkerStates]
  BY IdleTypes DEF Activate, SetWorker, TypeOK
<1>7. UNCHANGED <<source, known, withdrawn, deleted, desired, scanner, budget>>
  BY DEF Activate
<1> HIDE DEF b, out, passed
<1> QED
  BY <1>1, <1>3, <1>4, <1>5, <1>6, <1>7, CloseType DEF TypeOK, Statuses

LEMMA StepType ==
    TypeOK /\ [Next]_vars => TypeOK'
<1> SUFFICES ASSUME TypeOK, [Next]_vars PROVE TypeOK'
  OBVIOUS
<1> USE DEF TypeOK
<1>1. CASE CreateSource
  BY <1>1 DEF CreateSource, video, build
<1>2. CASE EditSource
  BY <1>2, SpendType DEF EditSource, video, build, BudgetKinds
<1>3. CASE DeleteSource
  BY <1>3, SpendType DEF DeleteSource, video, build, BudgetKinds
<1>4. CASE OperatorWithdraw
  BY <1>4, SpendType, WithdrawType DEF OperatorWithdraw, BudgetKinds
<1>5. ASSUME NEW s \in Scanners, Scan(s) \/ CrashScanner(s) PROVE TypeOK'
  <2>1. CASE ScanList(s)
    BY <2>1 DEF ScanList, SetScanner, ScannerStates, video, build
  <2>2. CASE ScanLoad(s)
    <3>1. /\ [scanner[s] EXCEPT !.pc = "loaded", !.mat = source] \in ScannerStates
             \/ source \notin Revisions
          /\ [scanner[s] EXCEPT !.pc = "reconcile"] \in ScannerStates
      BY RevisionsAssumption DEF ScannerStates
    <3> QED BY <2>2, <3>1 DEF ScanLoad, SetScanner, video, build
  <2>3. ASSUME NEW ver \in Versions, ScanEnqueue(s, ver) PROVE TypeOK'
    <3>1. scanner[s].mat \in Revisions
      BY <2>3 DEF ScanEnqueue, ScannerStates
    <3>2. scanner' \in [Scanners -> ScannerStates]
      BY <2>3 DEF ScanEnqueue, SetScanner, ScannerStates
    <3>3. budget' \in [BudgetKinds -> Nat]
      BY <2>3, SpendType DEF ScanEnqueue, BudgetKinds
    <3>4. CASE UNCHANGED <<desired, active, build>>
      BY <2>3, <3>2, <3>3, <3>4 DEF ScanEnqueue, build
    <3>5. ASSUME NEW retryFailed \in BOOLEAN, NEW retryPartial \in BOOLEAN,
                 EnqueueBuild([rev |-> scanner[s].mat, ver |-> ver], retryFailed, retryPartial)
          PROVE  TypeOK'
      <4>1. /\ desired' \in Builds \cup {None} /\ active' \in Builds \cup {None}
            /\ status' \in [Builds -> Statuses] /\ attempts' \in [Builds -> Nat]
            /\ token' \in [Builds -> Nat] /\ lapsed' \in SUBSET Builds
            /\ output' \in [Builds -> Outputs]
        BY <3>1, <3>5, EnqueueType
      <4> QED BY <2>3, <3>2, <3>3, <4>1 DEF ScanEnqueue
    <3> QED
      BY <2>3, <3>4, <3>5 DEF ScanEnqueue
  <2>4. CASE ScanKnown(s)
    BY <2>4, IdleTypes DEF ScanKnown, SetScanner, ScannerStates, video, build
  <2>5. CASE ScanWithdraw(s)
    BY <2>5, IdleTypes, WithdrawType DEF ScanWithdraw, SetScanner
  <2>6. CASE CrashScanner(s)
    BY <2>6, IdleTypes, SpendType DEF CrashScanner, SetScanner, video, build, BudgetKinds
  <2> QED BY <1>5, <2>1, <2>2, <2>3, <2>4, <2>5, <2>6 DEF Scan
<1>6. ASSUME NEW w \in Workers, Process(w) \/ CrashWorker(w) PROVE TypeOK'
  <2>1. CASE ReadCandidate(w)
    BY <2>1, CandidateType DEF ReadCandidate, SetWorker, video, build
  <2>2. CASE Claim(w)
    <3> DEFINE b == worker[w].build
               claimed == [worker[w] EXCEPT !.pc = "claimed",
                             !.token = attempts[b] + 1, !.out = output[b]]
    <3>1. b \in Builds
      BY <2>2 DEF Claim, WorkerStates
    <3>2. claimed \in WorkerStates
      <4>1. /\ worker[w] \in WorkerStates /\ worker[w].pc # "idle"
            /\ output[b] \in Outputs /\ attempts[b] + 1 \in Nat
        BY <2>2, <3>1 DEF Claim
      <4> QED BY <4>1, ClaimedType
    <3>3. CASE worker' = [worker EXCEPT ![w] = claimed] /\ UNCHANGED output
               /\ status' = [status EXCEPT ![b] = "running"]
               /\ attempts' = [attempts EXCEPT ![b] = @ + 1]
               /\ token' = [token EXCEPT ![b] = attempts[b] + 1]
               /\ lapsed' = lapsed \ {b}
      <4>1. UNCHANGED <<source, video, projection, scanner, budget>>
        BY <2>2 DEF Claim
      <4> HIDE DEF b, claimed
      <4> QED BY <4>1, <3>1, <3>2, <3>3 DEF video, Statuses
    <3>4. CASE worker' = [worker EXCEPT ![w] = IdleWorker] /\ UNCHANGED build
      BY <2>2, <3>4, IdleTypes DEF Claim, video, build
    <3> QED BY <2>2, <3>3, <3>4 DEF Claim, SetWorker
  <2>3. CASE LoadMaterial(w)
    <3>1. CASE source \notin Revisions
      BY <2>3, <3>1, IdleTypes, LocalType DEF LoadMaterial
    <3>2. CASE source \in Revisions
      BY <2>3, <3>2, LoadedType, LocalType DEF LoadMaterial
    <3> QED BY <3>1, <3>2
  <2>4. CASE Assess(w)
    <3>1. CASE Local(w, IdleWorker)
      BY <3>1, LocalType, IdleTypes
    <3>2. ASSUME NEW relevant \in BOOLEAN,
                 NEW assessed,
                 assessed = [worker[w] EXCEPT !.out.assessed = worker[w].mat,
                                              !.out.relevant = relevant],
                 output' = [output EXCEPT ![worker[w].build] = assessed.out],
                 lapsed' = lapsed \ {worker[w].build},
                 SetWorker(w, StartChunks(assessed)),
                 UNCHANGED <<source, video, status, attempts, token, projection,
                             scanner, budget>>
          PROVE  TypeOK'
      <4>1. assessed.out \in Outputs /\ StartChunks(assessed) \in WorkerStates
        BY <2>4, <3>2, AssessedType DEF Assess
      <4> QED BY <3>2, <4>1 DEF SetWorker, video
    <3> QED BY <2>4, <3>1, <3>2 DEF Assess
  <2>5. ASSUME NEW c \in Chunks, KeepChunk(w, c) PROVE TypeOK'
    BY <2>5, ChunkType, LocalType DEF KeepChunk
  <2>6. ASSUME NEW c \in Chunks, ExtractChunk(w, c) PROVE TypeOK'
    BY <2>6, ChunkType, CheckpointType DEF ExtractChunk
  <2>7. CASE RaiseError(w)
    BY <2>7, MoveType, LocalType DEF RaiseError, Holding
  <2>8. CASE FinishChunks(w)
    BY <2>8, MoveType, LocalType DEF FinishChunks, Holding
  <2>9. CASE Fail(w)
    BY <2>9, IdleTypes, ReleaseType DEF Fail, SetWorker, video, Statuses
  <2>10. CASE ActivateDeleted(w)
    BY <2>10, IdleTypes, WithdrawType DEF ActivateDeleted, SetWorker
  <2>11. CASE ActivateLost(w)
    BY <2>11, IdleTypes, LocalType DEF ActivateLost
  <2>12. CASE ActivateObsolete(w)
    <3>1. worker[w].build \in Builds /\ output[worker[w].build] \in Outputs
      BY <2>12 DEF ActivateObsolete, Owns, WorkerStates
    <3>2. /\ status' \in [Builds -> Statuses] /\ token' \in [Builds -> Nat]
          /\ lapsed' \in SUBSET Builds /\ output' \in [Builds -> Outputs]
          /\ attempts' \in [Builds -> Nat]
      BY <2>12, <3>1, CloseType DEF ActivateObsolete, Statuses
    <3> QED
      BY <2>12, <3>2, IdleTypes DEF ActivateObsolete, SetWorker, video
  <2>13. CASE ActivateRejected(w)
    BY <2>13, MoveType, LocalType DEF ActivateRejected, Holding
  <2>14. CASE Activate(w)
    BY <2>14, ActivateType
  <2>15. CASE CrashWorker(w)
    BY <2>15, IdleTypes, SpendType DEF CrashWorker, SetWorker, video, build, BudgetKinds
  <2> QED
    BY <1>6, <2>1, <2>2, <2>3, <2>4, <2>5, <2>6, <2>7, <2>8, <2>9, <2>10, <2>11,
       <2>12, <2>13, <2>14, <2>15 DEF Process
<1>7. ASSUME NEW b \in Builds, OrphanLeaseExpires(b) \/ SlowLeaseExpires(b) PROVE TypeOK'
  BY <1>7, SpendType DEF OrphanLeaseExpires, SlowLeaseExpires, video, BudgetKinds
<1>8. CASE UNCHANGED vars
  BY <1>8 DEF vars, video, build
<1> QED
  BY <1>1, <1>2, <1>3, <1>4, <1>5, <1>6, <1>7, <1>8 DEF Next

LEMMA InitType == Init => TypeOK
<1> SUFFICES ASSUME Init PROVE TypeOK
  OBVIOUS
<1>1. worker \in [Workers -> WorkerStates] /\ scanner \in [Scanners -> ScannerStates]
  BY IdleTypes DEF Init
<1>2. output \in [Builds -> Outputs]
  BY EmptyOutputType DEF Init
<1> QED BY <1>1, <1>2, BudgetAssumption DEF Init, TypeOK, Statuses

\* The types of every variable hold in every reachable state.
THEOREM TypeCorrect == Spec => []TypeOK
  BY InitType, StepType, PTL DEF Spec

-----------------------------------------------------------------------------
(* Fencing.  A worker identifies itself by the attempt its claim started,  *)
(* which no other worker of the same build has; a running build always has *)
(* the token of one attempt.                                               *)

Fence ==
    /\ \A b \in Builds : /\ token[b] <= attempts[b]
                         /\ status[b] = "running" => token[b] # 0
    /\ \A w \in Workers :
          /\ worker[w].pc \in {"idle", "candidate"} => worker[w].token = 0
          /\ worker[w].build # None => worker[w].token <= attempts[worker[w].build]
    /\ \A v, w \in Workers :
          v # w /\ worker[v].build = worker[w].build /\ worker[v].build # None
                /\ worker[v].token = worker[w].token
             => worker[v].token = 0

\* A step that starts no attempt: tokens are kept or dropped.
Quiet ==
    /\ attempts' = attempts
    /\ \A b \in Builds :
          /\ token'[b] = token[b] \/ token'[b] = 0
          /\ status'[b] = "running" => status[b] = "running" /\ token'[b] = token[b]
    /\ \A w \in Workers :
          \/ worker'[w] = worker[w]
          \/ worker'[w] = IdleWorker
          \/ /\ worker'[w].build = worker[w].build
             /\ worker'[w].token = worker[w].token
             /\ worker'[w].pc \notin {"idle", "candidate"}

LEMMA QuietFence ==
    ASSUME TypeOK, TypeOK', Fence, Quiet PROVE Fence'
<1>1. \A b \in Builds : token'[b] <= attempts'[b] /\ (status'[b] = "running" => token'[b] # 0)
  BY DEF TypeOK, Fence, Quiet
<1>2. \A w \in Workers :
         /\ worker'[w].pc \in {"idle", "candidate"} => worker'[w].token = 0
         /\ worker'[w].build # None => worker'[w].token <= attempts'[worker'[w].build]
  BY DEF Fence, Quiet, IdleWorker
<1>3. ASSUME NEW v \in Workers, NEW w \in Workers, v # w,
             worker'[v].build = worker'[w].build, worker'[v].build # None,
             worker'[v].token = worker'[w].token
      PROVE  worker'[v].token = 0
  BY <1>3 DEF Fence, Quiet, IdleWorker
<1> QED BY <1>1, <1>2, <1>3 DEF Fence

LEMMA WithdrawQuiet ==
    ASSUME TypeOK, NEW restore \in BOOLEAN, NEW del \in BOOLEAN, Withdraw(restore, del)
    PROVE  /\ attempts' = attempts
           /\ \A b \in Builds :
                 /\ token'[b] = token[b] \/ token'[b] = 0
                 /\ status'[b] = "running" => status[b] = "running" /\ token'[b] = token[b]
<1>1. CASE restore = TRUE
  BY <1>1 DEF Withdraw, build
<1>2. CASE restore = FALSE
  BY <1>2 DEF Withdraw, Release, TypeOK
<1> QED BY <1>1, <1>2

LEMMA EnqueueQuiet ==
    ASSUME TypeOK, NEW b, NEW retryFailed \in BOOLEAN, NEW retryPartial \in BOOLEAN,
           EnqueueBuild(b, retryFailed, retryPartial), UNCHANGED worker
    PROVE  Quiet
<1>1. attempts' = attempts
  BY DEF EnqueueBuild
<1>2. ASSUME NEW x \in Builds
      PROVE  token'[x] = token[x] \/ token'[x] = 0
  BY DEF EnqueueBuild
<1>3. ASSUME NEW x \in Builds, status'[x] = "running"
      PROVE  status[x] = "running" /\ token'[x] = token[x]
  BY <1>3 DEF EnqueueBuild
<1> QED BY <1>1, <1>2, <1>3 DEF Quiet

LEMMA ScanQuiet ==
    ASSUME TypeOK, NEW s \in Scanners, Scan(s) \/ CrashScanner(s)
    PROVE  Quiet
<1>1. CASE ScanList(s) \/ ScanLoad(s) \/ ScanKnown(s) \/ CrashScanner(s)
  BY <1>1 DEF ScanList, ScanLoad, ScanKnown, CrashScanner, Quiet, build
<1>2. CASE ScanWithdraw(s)
  BY <1>2, WithdrawQuiet DEF ScanWithdraw, Quiet
<1>3. ASSUME NEW ver \in Versions, ScanEnqueue(s, ver) PROVE Quiet
  <2>1. UNCHANGED worker
    BY <1>3 DEF ScanEnqueue
  <2>2. CASE UNCHANGED <<desired, active, build>>
    BY <2>1, <2>2 DEF build, Quiet
  <2> QED BY <1>3, <2>1, <2>2, EnqueueQuiet DEF ScanEnqueue
<1> QED BY <1>1, <1>2, <1>3 DEF Scan

LEMMA LocalQuiet ==
    ASSUME TypeOK, NEW w \in Workers, NEW state, Local(w, state),
           \/ state = IdleWorker
           \/ /\ state.build = worker[w].build /\ state.token = worker[w].token
              /\ state.pc \notin {"idle", "candidate"}
    PROVE  Quiet
  BY DEF Local, SetWorker, Quiet, build, TypeOK

LEMMA ReleaseQuiet ==
    ASSUME TypeOK, NEW b, NEW st \in Statuses \ {"running"}, Release({b}, st)
    PROVE  \A x \in Builds :
              /\ token'[x] = token[x] \/ token'[x] = 0
              /\ status'[x] = "running" => status[x] = "running" /\ token'[x] = token[x]
  BY DEF Release, TypeOK

LEMMA ProcessQuiet ==
    ASSUME TypeOK, NEW w \in Workers, Process(w) \/ CrashWorker(w),
           ~Claim(w), ~ReadCandidate(w)
    PROVE  Quiet
<1> USE DEF TypeOK
<1>1. CASE LoadMaterial(w)
  <2>1. CASE source \notin Revisions
    BY <1>1, <2>1, LocalQuiet DEF LoadMaterial
  <2>2. CASE source \in Revisions
    BY <1>1, <2>2, LocalQuiet DEF LoadMaterial, StartChunks, WorkerStates
  <2> QED BY <2>1, <2>2
<1>2. CASE Assess(w)
  <2>1. CASE Local(w, IdleWorker)
    BY <2>1, LocalQuiet
  <2>2. ASSUME NEW relevant \in BOOLEAN,
               SetWorker(w, StartChunks([worker[w] EXCEPT !.out.assessed = worker[w].mat,
                                                          !.out.relevant = relevant])),
               UNCHANGED <<status, attempts, token>>
        PROVE  Quiet
    <3> DEFINE assessed == [worker[w] EXCEPT !.out.assessed = worker[w].mat,
                                             !.out.relevant = relevant]
    <3>1. /\ assessed.build = worker[w].build /\ assessed.token = worker[w].token
          /\ StartChunks(assessed).build = assessed.build
          /\ StartChunks(assessed).token = assessed.token
          /\ StartChunks(assessed).pc = "chunks"
      BY DEF StartChunks, WorkerStates
    <3> HIDE DEF assessed
    <3>2. worker' = [worker EXCEPT ![w] = StartChunks(assessed)]
      BY <2>2 DEF SetWorker, assessed
    <3> QED BY <2>2, <3>1, <3>2 DEF Quiet
  <2>3. \/ Local(w, IdleWorker)
        \/ \E relevant \in BOOLEAN :
              /\ SetWorker(w, StartChunks([worker[w] EXCEPT !.out.assessed = worker[w].mat,
                                                            !.out.relevant = relevant]))
              /\ UNCHANGED <<status, attempts, token>>
    BY <1>2 DEF Assess
  <2> QED BY <2>1, <2>2, <2>3
<1>3. ASSUME NEW c \in Chunks, KeepChunk(w, c) PROVE Quiet
  BY <1>3, LocalQuiet DEF KeepChunk, WorkerStates
<1>4. ASSUME NEW c \in Chunks, ExtractChunk(w, c) PROVE Quiet
  <2>1. ASSUME NEW state, Checkpoint(w, state),
               state.build = worker[w].build, state.token = worker[w].token,
               state.pc = "chunks"
        PROVE  Quiet
    BY <2>1 DEF Checkpoint, SetWorker, Quiet
  <2> QED BY <1>4, <2>1 DEF ExtractChunk, WorkerStates
<1>5. CASE RaiseError(w) \/ FinishChunks(w) \/ ActivateRejected(w) \/ ActivateLost(w)
  BY <1>5, LocalQuiet DEF RaiseError, FinishChunks, ActivateRejected, ActivateLost, WorkerStates
<1>6. CASE Fail(w)
  BY <1>6, ReleaseQuiet DEF Fail, SetWorker, Quiet, Statuses
<1>7. CASE ActivateDeleted(w)
  BY <1>7, WithdrawQuiet DEF ActivateDeleted, SetWorker, Quiet
<1>8. CASE ActivateObsolete(w)
  BY <1>8, ReleaseQuiet DEF ActivateObsolete, Close, SetWorker, Quiet, Statuses
<1>9. CASE Activate(w)
  <2>1. /\ worker' = [worker EXCEPT ![w] = IdleWorker]
        /\ \E final \in {"failed", "partial_success", "success"} : \E out :
              Close(worker[w].build, final, out)
    BY <1>9 DEF Activate, SetWorker
  <2> QED BY <2>1, ReleaseQuiet DEF Close, Quiet, Statuses
<1>10. CASE CrashWorker(w)
  BY <1>10 DEF CrashWorker, SetWorker, Quiet, build
<1> QED
  BY <1>1, <1>2, <1>3, <1>4, <1>5, <1>6, <1>7, <1>8, <1>9, <1>10 DEF Process

\* A claim starts the next attempt of a build, and gives its token to one worker.
LEMMA GrantFence ==
    ASSUME TypeOK, TypeOK', Fence, NEW w \in Workers, NEW b \in Builds, NEW m,
           status' = [status EXCEPT ![b] = "running"],
           attempts' = [attempts EXCEPT ![b] = @ + 1],
           token' = [token EXCEPT ![b] = attempts[b] + 1],
           worker' = [worker EXCEPT ![w] = m],
           m.build = b, m.token = attempts[b] + 1, m.pc \notin {"idle", "candidate"}
    PROVE  Fence'
<1>1. worker'[w] = m /\ \A v \in Workers : v # w => worker'[v] = worker[v]
  BY DEF TypeOK
<1>2. \A v \in Workers : worker[v].build = b => worker[v].token <= attempts[b]
                                              /\ worker[v].token \in Nat
  BY BuildsAssumption DEF Fence, TypeOK, WorkerStates
<1>3. \A x \in Builds : token'[x] <= attempts'[x]
                        /\ (status'[x] = "running" => token'[x] # 0)
  BY <1>1 DEF Fence, TypeOK
<1>4. ASSUME NEW v \in Workers
      PROVE  /\ worker'[v].pc \in {"idle", "candidate"} => worker'[v].token = 0
             /\ worker'[v].build # None => worker'[v].token <= attempts'[worker'[v].build]
  <2>1. CASE v = w
    BY <1>1, <2>1 DEF TypeOK
  <2>2. CASE v # w /\ worker[v].build = b
    BY <1>1, <1>2, <2>2 DEF Fence, TypeOK
  <2>3. CASE v # w /\ worker[v].build # b
    BY <1>1, <2>3 DEF Fence, TypeOK, WorkerStates
  <2> QED BY <2>1, <2>2, <2>3
<1>5. ASSUME NEW u \in Workers, NEW v \in Workers, u # v,
             worker'[u].build = worker'[v].build, worker'[u].build # None,
             worker'[u].token = worker'[v].token
      PROVE  worker'[u].token = 0
  <2>1. CASE u # w /\ v # w
    BY <1>1, <1>5, <2>1 DEF Fence
  <2>2. CASE u = w \/ v = w
    BY <1>1, <1>2, <1>5, <2>2 DEF TypeOK
  <2> QED BY <2>1, <2>2
<1> QED BY <1>3, <1>4, <1>5 DEF Fence

LEMMA StepFence ==
    TypeOK /\ TypeOK' /\ Fence /\ [Next]_vars => Fence'
<1> SUFFICES ASSUME TypeOK, TypeOK', Fence, [Next]_vars PROVE Fence'
  OBVIOUS
<1>1. CASE CreateSource \/ EditSource \/ DeleteSource
  <2>1. Quiet
    BY <1>1 DEF CreateSource, EditSource, DeleteSource, build, Quiet
  <2> QED BY <2>1, QuietFence
<1>2. CASE OperatorWithdraw
  <2>1. Quiet
    BY <1>2, WithdrawQuiet DEF OperatorWithdraw, Quiet
  <2> QED BY <2>1, QuietFence
<1>3. ASSUME NEW s \in Scanners, Scan(s) \/ CrashScanner(s) PROVE Fence'
  BY <1>3, ScanQuiet, QuietFence
<1>4. ASSUME NEW w \in Workers, Process(w) \/ CrashWorker(w) PROVE Fence'
  <2>1. CASE ReadCandidate(w)
    <3>1. worker' = [worker EXCEPT ![w] =
                       [worker[w] EXCEPT !.pc = "candidate", !.build = desired]]
          /\ worker[w].pc = "idle" /\ desired \in Builds /\ UNCHANGED build
      BY <2>1 DEF ReadCandidate, SetWorker, TypeOK
    <3>2. \A v \in Workers : v # w => worker'[v] = worker[v]
      BY <3>1 DEF TypeOK
    <3>3. worker'[w].token = 0 /\ worker'[w].pc = "candidate" /\ worker'[w].build = desired
      BY <3>1 DEF TypeOK, Fence, WorkerStates
    <3> QED BY <3>1, <3>2, <3>3 DEF Fence, TypeOK, build
  <2> DEFINE granted == Claimable(worker[w].build) /\ ~withdrawn /\ ~deleted
                        /\ desired = worker[w].build
  <2>2. CASE Claim(w) /\ ~granted
    <3>1. worker' = [worker EXCEPT ![w] = IdleWorker] /\ UNCHANGED build
      BY <2>2 DEF Claim, SetWorker
    <3>2. Quiet
      BY <3>1 DEF Quiet, build, TypeOK
    <3> QED BY <3>2, QuietFence
  <2>3. CASE Claim(w) /\ granted
    <3> DEFINE b == worker[w].build
    <3>1. /\ b \in Builds
          /\ status' = [status EXCEPT ![b] = "running"]
          /\ attempts' = [attempts EXCEPT ![b] = @ + 1]
          /\ token' = [token EXCEPT ![b] = attempts[b] + 1]
      BY <2>3 DEF Claim, TypeOK, WorkerStates
    <3>2. worker' = [worker EXCEPT ![w] = [worker[w] EXCEPT !.pc = "claimed",
                                      !.token = attempts[b] + 1, !.out = output[b]]]
      BY <2>3 DEF Claim, SetWorker
    <3>3. worker' = [worker EXCEPT ![w] = worker'[w]]
          /\ worker'[w].pc = "claimed" /\ worker'[w].build = b
          /\ worker'[w].token = attempts[b] + 1
      BY <3>2 DEF TypeOK, WorkerStates
    <3> HIDE DEF b
    <3> QED BY <3>1, <3>2, <3>3, GrantFence DEF TypeOK
  <2>4. CASE ~Claim(w) /\ ~ReadCandidate(w)
    BY <1>4, <2>4, ProcessQuiet, QuietFence
  <2> QED BY <2>1, <2>2, <2>3, <2>4
<1>5. ASSUME NEW b \in Builds, OrphanLeaseExpires(b) \/ SlowLeaseExpires(b) PROVE Fence'
  <2>1. Quiet
    BY <1>5 DEF OrphanLeaseExpires, SlowLeaseExpires, Quiet
  <2> QED BY <2>1, QuietFence
<1>6. CASE UNCHANGED vars
  BY <1>6 DEF vars, build, Fence
<1> QED
  BY <1>1, <1>2, <1>3, <1>4, <1>5, <1>6 DEF Next

LEMMA InitFence == Init => Fence
  BY DEF Init, Fence, IdleWorker

LEMMA FenceInvariant == Spec => []Fence
  BY InitFence, StepFence, TypeCorrect, PTL DEF Spec

LEMMA FenceExcludes == TypeOK /\ Fence => SingleOwner
  BY DEF Fence, SingleOwner, Owns, TypeOK, WorkerStates

\* Two workers never both own one build, however leases expire and workers stop.
THEOREM OwnershipExclusive == Spec => []SingleOwner
  BY FenceExcludes, TypeCorrect, FenceInvariant, PTL

-----------------------------------------------------------------------------
(* The queue and the two pointers of the video.                            *)

Queue == OpenBuildsAreDesired /\ WithdrawnServesNothing /\ UnchangedIsServed

\* A step that leaves the pointers alone and opens and finishes no build.
Steady ==
    /\ UNCHANGED <<withdrawn, desired, active>>
    /\ \A b \in Builds : status'[b] = status[b] \/ status'[b] \in {"obsolete", "failed"}
                           \/ (status[b] = "running" /\ status'[b] = "running")

LEMMA SteadyQueue ==
    ASSUME TypeOK, Queue, Steady PROVE Queue'
<1>1. desired \in Builds \cup {None}
  BY DEF TypeOK
<1> QED
  BY <1>1 DEF Queue, Steady, OpenBuildsAreDesired, WithdrawnServesNothing,
              UnchangedIsServed, Open

LEMMA WithdrawQueue ==
    ASSUME TypeOK, Queue, NEW restore \in BOOLEAN, NEW del \in BOOLEAN, Withdraw(restore, del)
    PROVE  Queue'
<1>1. CASE restore = TRUE
  BY <1>1 DEF Withdraw, build, Queue, OpenBuildsAreDesired, WithdrawnServesNothing,
              UnchangedIsServed
<1>2. CASE restore = FALSE
  <2>1. desired' = None /\ active' = None
    BY <1>2 DEF Withdraw
  <2>2. ASSUME NEW b \in Builds, status'[b] \in Open PROVE FALSE
    BY <1>2, <2>2 DEF Withdraw, Release, TypeOK, Queue, OpenBuildsAreDesired, Open
  <2> QED
    BY <2>1, <2>2 DEF Queue, OpenBuildsAreDesired, WithdrawnServesNothing, UnchangedIsServed
<1> QED BY <1>1, <1>2

LEMMA EnqueueQueue ==
    ASSUME TypeOK, Queue, ~withdrawn, withdrawn' = withdrawn,
           NEW b \in Builds, NEW retryFailed \in BOOLEAN, NEW retryPartial \in BOOLEAN,
           EnqueueBuild(b, retryFailed, retryPartial)
    PROVE  Queue'
<1>1. desired' = b /\ active' = active /\ active \in Builds \cup {None}
  BY DEF EnqueueBuild, TypeOK
<1>2. ASSUME NEW x \in Builds, x # b, status'[x] \in Open PROVE FALSE
  BY <1>2 DEF EnqueueBuild, Superseded, Queue, OpenBuildsAreDesired, Open, TypeOK
<1>3. /\ status'[b] = "success" => active = b
      /\ status'[b] = "partial_success" => active # None
  BY DEF EnqueueBuild, Superseded, Requeue, TypeOK
<1> QED
  BY <1>1, <1>2, <1>3
     DEF Queue, OpenBuildsAreDesired, WithdrawnServesNothing, UnchangedIsServed

LEMMA ActivateQueue ==
    ASSUME TypeOK, Queue, NEW w \in Workers, Activate(w) PROVE Queue'
<1> DEFINE b == worker[w].build
           out == worker[w].out
           passed == Passed(out, source)
           final == IF out.relevant /\ passed = {} THEN "failed"
                    ELSE IF Skipped(out, source) # {} THEN "partial_success" ELSE "success"
<1>1. b \in Builds /\ desired = b /\ ~withdrawn /\ UNCHANGED <<desired, withdrawn>>
  BY DEF Activate, Current, Owns, TypeOK, WorkerStates
<1>2. status' = [x \in Builds |-> IF x = b THEN final ELSE status[x]]
  BY DEF Activate, Close, Release
<1>3. IF final = "failed" \/ Preserve(b, out, passed) THEN active' = active ELSE active' = b
  BY DEF Activate
<1>4. final = "success" => ~Preserve(b, out, passed)
  BY DEF Preserve
<1>5. Preserve(b, out, passed) => active # None
  BY DEF Preserve
<1>6. final \in {"failed", "partial_success", "success"}
  OBVIOUS
<1> HIDE DEF final, b, passed, out
<1>7. status'[b] = final /\ \A x \in Builds : x # b => status'[x] = status[x]
  BY <1>1, <1>2
<1> QED
  BY <1>1, <1>3, <1>4, <1>5, <1>6, <1>7, BuildsAssumption
     DEF Queue, OpenBuildsAreDesired, WithdrawnServesNothing, UnchangedIsServed, Open

LEMMA ProcessQueue ==
    ASSUME TypeOK, Queue, NEW w \in Workers, Process(w) \/ CrashWorker(w) PROVE Queue'
<1>1. CASE \/ ReadCandidate(w) \/ LoadMaterial(w) \/ RaiseError(w) \/ FinishChunks(w)
           \/ ActivateLost(w) \/ ActivateRejected(w) \/ CrashWorker(w)
  <2>1. UNCHANGED <<video, build>>
    BY <1>1 DEF ReadCandidate, LoadMaterial, RaiseError, FinishChunks, ActivateLost,
                ActivateRejected, CrashWorker, Local
  <2> QED BY <2>1, SteadyQueue DEF Steady, video, build
<1>2. CASE Assess(w)
  BY <1>2, SteadyQueue DEF Assess, Local, Steady, video, build
<1>3. ASSUME NEW c \in Chunks, KeepChunk(w, c) \/ ExtractChunk(w, c) PROVE Queue'
  BY <1>3, SteadyQueue DEF KeepChunk, ExtractChunk, Checkpoint, Local, Steady, video, build
<1>4. CASE Claim(w)
  <2> DEFINE b == worker[w].build
  <2>1. CASE UNCHANGED build
    BY <1>4, <2>1, SteadyQueue DEF Claim, Steady, video, build
  <2>2. CASE /\ desired = b /\ b \in Builds
             /\ status' = [status EXCEPT ![b] = "running"]
    <3>1. status'[b] = "running" /\ \A x \in Builds : x # b => status'[x] = status[x]
      BY <2>2 DEF TypeOK
    <3>2. UNCHANGED <<withdrawn, desired, active>>
      BY <1>4 DEF Claim, video
    <3> HIDE DEF b
    <3> QED
      BY <2>2, <3>1, <3>2
         DEF Queue, OpenBuildsAreDesired, WithdrawnServesNothing, UnchangedIsServed, Open
  <2> QED BY <1>4, <2>1, <2>2 DEF Claim, TypeOK, WorkerStates
<1>5. CASE Fail(w)
  BY <1>5, SteadyQueue DEF Fail, Release, Steady, video, TypeOK
<1>6. CASE ActivateDeleted(w)
  BY <1>6, WithdrawQueue DEF ActivateDeleted
<1>7. CASE ActivateObsolete(w)
  BY <1>7, SteadyQueue DEF ActivateObsolete, Close, Release, Steady, video, TypeOK
<1>8. CASE Activate(w)
  BY <1>8, ActivateQueue
<1> QED BY <1>1, <1>2, <1>3, <1>4, <1>5, <1>6, <1>7, <1>8 DEF Process

LEMMA StepQueue ==
    TypeOK /\ Queue /\ [Next]_vars => Queue'
<1> SUFFICES ASSUME TypeOK, Queue, [Next]_vars PROVE Queue'
  OBVIOUS
<1>1. CASE CreateSource \/ EditSource \/ DeleteSource \/ UNCHANGED vars
  BY <1>1, SteadyQueue DEF CreateSource, EditSource, DeleteSource, vars, video, build, Steady
<1>2. CASE OperatorWithdraw
  BY <1>2, WithdrawQueue DEF OperatorWithdraw
<1>3. ASSUME NEW s \in Scanners, Scan(s) \/ CrashScanner(s) PROVE Queue'
  <2>1. CASE ScanList(s) \/ ScanLoad(s) \/ ScanKnown(s) \/ CrashScanner(s)
    BY <2>1, SteadyQueue
       DEF ScanList, ScanLoad, ScanKnown, CrashScanner, video, build, Steady
  <2>2. CASE ScanWithdraw(s)
    BY <2>2, WithdrawQueue DEF ScanWithdraw
  <2>3. ASSUME NEW ver \in Versions, ScanEnqueue(s, ver) PROVE Queue'
    <3>1. [rev |-> scanner[s].mat, ver |-> ver] \in Builds
      BY <2>3 DEF ScanEnqueue, TypeOK, ScannerStates, Builds
    <3>2. withdrawn' = withdrawn
      BY <2>3 DEF ScanEnqueue
    <3>3. CASE UNCHANGED <<desired, active, build>>
      BY <3>2, <3>3, SteadyQueue DEF build, Steady
    <3>4. CASE ~withdrawn
      BY <2>3, <3>1, <3>2, <3>4, EnqueueQueue DEF ScanEnqueue, Refused
    <3> QED BY <2>3, <3>3, <3>4 DEF ScanEnqueue, Refused
  <2> QED BY <1>3, <2>1, <2>2, <2>3 DEF Scan
<1>4. ASSUME NEW w \in Workers, Process(w) \/ CrashWorker(w) PROVE Queue'
  BY <1>4, ProcessQueue
<1>5. ASSUME NEW b \in Builds, OrphanLeaseExpires(b) \/ SlowLeaseExpires(b) PROVE Queue'
  BY <1>5, SteadyQueue DEF OrphanLeaseExpires, SlowLeaseExpires, video, Steady
<1> QED BY <1>1, <1>2, <1>3, <1>4, <1>5 DEF Next

LEMMA InitQueue == Init => Queue
  BY DEF Init, Queue, OpenBuildsAreDesired, WithdrawnServesNothing, UnchangedIsServed, Open

LEMMA QueueInvariant == Spec => []Queue
  BY InitQueue, StepQueue, TypeCorrect, PTL DEF Spec

\* Nothing is queued or running but the build the video wants.
THEOREM QueueHasNoOrphan == Spec => []OpenBuildsAreDesired
  BY QueueInvariant, PTL DEF Queue

\* A withdrawn video has no active and no desired build.
THEOREM WithdrawalHides == Spec => []WithdrawnServesNothing
  BY QueueInvariant, PTL DEF Queue

\* Together: what the queue is trusted with.
THEOREM QueueSound == Spec => []QueueIsSound
  BY TypeCorrect, OwnershipExclusive, QueueHasNoOrphan, WithdrawalHides, PTL DEF QueueIsSound

\* A finished desired build is served, or leaves what was served in place.
THEOREM FinishedIsServed == Spec => []UnchangedIsServed
  BY QueueInvariant, PTL DEF Queue

-----------------------------------------------------------------------------
(* What is served.                                                         *)

\* Only a publication changes a projection, of the build that becomes active,
\* with facts of the source's current revision.
Published(b) ==
    /\ b \in Builds /\ b.rev = source /\ source \in Revisions /\ UNCHANGED source
    /\ active' = b
    /\ \E facts \in SUBSET {e \in Chunks \X Texts : FoundInRevision(e, b.rev)} :
          projection' = [projection EXCEPT ![b] = facts]

Hidden == active' = None /\ UNCHANGED <<source, projection>>

\* Rows go with their item.
Vanished ==
    source' \notin Revisions /\ active' = None /\ projection' = [b \in Builds |-> {}]

Serves ==
    \/ UNCHANGED <<active, projection>>
    \/ Hidden \/ Vanished
    \/ \E b \in Builds : Published(b)

LEMMA PublicationStep ==
    ASSUME TypeOK, NEW w \in Workers, Activate(w)
    PROVE  UNCHANGED <<source, active, projection>> \/ Published(worker[w].build)
<1> DEFINE b == worker[w].build
           out == worker[w].out
           passed == Passed(out, source)
<1>1. b \in Builds /\ b.rev = source /\ source \in Revisions /\ UNCHANGED source
      /\ out \in Outputs
  BY DEF Activate, Current, Owns, TypeOK, WorkerStates
<1>2. \/ UNCHANGED <<projection, active>>
      \/ /\ ~Preserve(b, out, passed) /\ ~(out.relevant /\ passed = {})
         /\ projection' = [projection EXCEPT ![b] = {<<c, out.chunks[c]>> : c \in passed}]
         /\ active' = b
  BY DEF Activate
<1>3. ASSUME ~Preserve(b, out, passed), ~(out.relevant /\ passed = {})
      PROVE  \A c \in passed : /\ c \in Chunks /\ out.chunks[c] \in Texts
                               /\ <<out.chunks[c], TextOf[source][c]>> \in Grounded
  <2>1. Publishable(out)
    BY <1>3 DEF Activate, Rejected
  <2> QED
    BY <2>1, <1>1 DEF Publishable, Valid, Passed, Applicable, ExtractionChunks, Outputs
<1> HIDE DEF out, passed, b
<1>4. ASSUME ~Preserve(b, out, passed), ~(out.relevant /\ passed = {})
      PROVE  {<<c, out.chunks[c]>> : c \in passed}
                \in SUBSET {e \in Chunks \X Texts : FoundInRevision(e, b.rev)}
  BY <1>1, <1>3, <1>4 DEF FoundInRevision
<1>5. UNCHANGED <<source, active, projection>> \/ Published(b)
  BY <1>1, <1>2, <1>4 DEF Published
<1> QED BY <1>5 DEF b

LEMMA WithdrawStep ==
    ASSUME NEW restore, NEW del, Withdraw(restore, del)
    PROVE  active' = None \/ active' = active
  BY DEF Withdraw, build

LEMMA ServingStep ==
    ASSUME TypeOK, [Next]_vars
    PROVE  Serves
<1>1. CASE CreateSource \/ EditSource \/ DeleteSource \/ UNCHANGED vars
  BY <1>1 DEF CreateSource, EditSource, DeleteSource, vars, video, Serves
<1>2. CASE OperatorWithdraw
  BY <1>2, WithdrawStep DEF OperatorWithdraw, Hidden, Serves
<1>3. ASSUME NEW s \in Scanners, Scan(s) \/ CrashScanner(s)
      PROVE  UNCHANGED <<active, projection>> \/ Hidden
  BY ZenonT(40), <1>3, WithdrawStep DEF Scan, CrashScanner, ScanList, ScanLoad, ScanEnqueue, EnqueueBuild,
                            ScanKnown, ScanWithdraw, video, Hidden
<1>4. ASSUME NEW w \in Workers, Process(w) \/ CrashWorker(w)
      PROVE  Serves
  <2>1. CASE Activate(w)
    BY <2>1, PublicationStep DEF Published, Serves
  <2>2. CASE ActivateDeleted(w)
    BY <2>2, WithdrawStep DEF ActivateDeleted, Hidden, Serves
  <2>3. CASE \/ ReadCandidate(w) \/ Claim(w) \/ LoadMaterial(w) \/ Assess(w) \/ RaiseError(w)
             \/ FinishChunks(w) \/ Fail(w) \/ ActivateLost(w) \/ ActivateObsolete(w)
             \/ ActivateRejected(w) \/ CrashWorker(w)
    BY <2>3 DEF ReadCandidate, Claim, LoadMaterial, Assess, RaiseError, FinishChunks, Fail,
                ActivateLost, ActivateObsolete, ActivateRejected, CrashWorker, Local, video, Serves
  <2>4. ASSUME NEW c \in Chunks, KeepChunk(w, c) \/ ExtractChunk(w, c)
        PROVE  UNCHANGED <<active, projection>>
    BY <2>4 DEF KeepChunk, ExtractChunk, Local, Checkpoint, video
  <2> QED BY <1>4, <2>1, <2>2, <2>3, <2>4 DEF Process, Serves
<1>5. ASSUME NEW b \in Builds, OrphanLeaseExpires(b) \/ SlowLeaseExpires(b)
      PROVE  UNCHANGED <<active, projection>>
  BY <1>5 DEF OrphanLeaseExpires, SlowLeaseExpires, video
<1> QED BY <1>1, <1>2, <1>3, <1>4, <1>5 DEF Next, Serves

LEMMA ServesGrounded ==
    ASSUME TypeOK, ProjectionGrounded, Serves PROVE ProjectionGrounded'
<1> SUFFICES ASSUME NEW b \in Builds, NEW e \in projection'[b] PROVE FoundInRevision(e, b.rev)
  BY DEF ProjectionGrounded, FoundInRevision
<1>1. CASE UNCHANGED projection
  BY <1>1 DEF ProjectionGrounded
<1>2. ASSUME NEW a \in Builds, Published(a) PROVE FoundInRevision(e, b.rev)
  BY <1>2 DEF Published, ProjectionGrounded, TypeOK
<1> QED BY <1>1, <1>2 DEF Serves, Hidden, Vanished

LEMMA ServesPromised ==
    ASSUME TypeOK, Serves PROVE Promise!Next
<1> USE DEF Promise!Next, Promise!ChangeSource, Promise!Publish, Promise!Hide, Promise!Vanish
<1>1. CASE UNCHANGED <<active, projection>>
  BY <1>1
<1>2. CASE Hidden
  BY <1>2 DEF Hidden
<1>3. CASE Vanished
  BY <1>3 DEF Vanished
<1>4. ASSUME NEW b \in Builds, Published(b) PROVE Promise!Publish
  BY <1>4, BuildsAssumption DEF Published, TypeOK
<1> QED BY <1>1, <1>2, <1>3, <1>4 DEF Serves

LEMMA InitServes == Init => ProjectionGrounded /\ Promise!Init
  BY RevisionsAssumption DEF Init, ProjectionGrounded, Promise!Init

\* Every published fact is found in the revision of the build that states it.
THEOREM PublishedIsGrounded == Spec => []ProjectionGrounded
<1>1. TypeOK /\ ProjectionGrounded /\ [Next]_vars => ProjectionGrounded'
  BY ServingStep, ServesGrounded
<1> QED BY <1>1, InitServes, TypeCorrect, PTL DEF Spec

\* The build queue implements the promise to readers.
THEOREM ImplementsPromise == Spec => ServesPromise
<1>1. TypeOK /\ [Next]_vars =>
        [Promise!Next]_<<source, IF active = None THEN None ELSE active.rev,
                         IF active = None THEN {} ELSE projection[active]>>
  BY ServingStep, ServesPromised
<1> QED BY <1>1, InitServes, TypeCorrect, PTL DEF Spec, ServesPromise, Promise!Spec

-----------------------------------------------------------------------------
(* Reruns.  What a build has published is noted in its output, and so is   *)
(* the assessment it rests on; the worker that owns the build holds the    *)
(* same notes.                                                             *)

Same(m, o) == m.assessed = o.assessed /\ m.relevant = o.relevant /\ m.published = o.published

ServedChunks(b) == {e[1] : e \in projection[b]}
Noted(b) ==
    /\ ServedChunks(b) \subseteq output[b].published \cap ExtractionChunks(b.rev)
    /\ ServedChunks(b) # {} => output[b].relevant
    /\ output[b].relevant => output[b].assessed # None
Held(w) ==
    /\ Owns(w) => Same(worker[w].out, output[worker[w].build])
    /\ worker[w].pc = "assess" => worker[w].out.assessed = None
Ledger == (\A b \in Builds : Noted(b)) /\ (\A w \in Workers : Held(w))

\* A worker's step that publishes and assesses nothing.
Keeps(w) ==
    \/ worker'[w] = worker[w]
    \/ worker'[w].token = 0 /\ worker'[w].pc # "assess"
    \/ /\ worker'[w].build = worker[w].build /\ worker'[w].token = worker[w].token
       /\ Same(worker'[w].out, worker[w].out)
       /\ worker'[w].pc = "assess" => worker[w].out.assessed = None

LEMMA KeepLedger ==
    ASSUME TypeOK, Fence', Ledger, projection' = projection,
           \A b \in Builds : Same(output'[b], output[b]),
           \A b \in Builds : status'[b] = "running" => status[b] = "running" /\ token'[b] = token[b],
           \A w \in Workers : Keeps(w) /\ worker'[w].build \in Builds \cup {None}
    PROVE  Ledger'
<1>1. ASSUME NEW b \in Builds PROVE Noted(b)'
  BY <1>1 DEF Ledger, Noted, ServedChunks, Same
<1>2. ASSUME NEW w \in Workers PROVE Held(w)'
  <2>1. CASE worker'[w].token = 0 /\ worker'[w].pc # "assess"
    BY <2>1 DEF Held, Owns, Fence
  <2>2. CASE worker'[w] = worker[w]
    BY <2>2 DEF Held, Owns, Ledger, Same
  <2>3. CASE /\ worker'[w].build = worker[w].build /\ worker'[w].token = worker[w].token
             /\ Same(worker'[w].out, worker[w].out)
             /\ worker'[w].pc = "assess" => worker[w].out.assessed = None
    BY <2>3 DEF Held, Owns, Ledger, Same
  <2> QED BY <1>2, <2>1, <2>2, <2>3 DEF Keeps
<1> QED BY <1>1, <1>2 DEF Ledger

LEMMA ReuseSame ==
    ASSUME NEW out \in Outputs, NEW prev, NEW r PROVE Same(ReuseChunks(out, prev, r), out)
  BY DEF ReuseChunks, Same, Outputs

LEMMA StartSame ==
    ASSUME NEW m \in WorkerStates
    PROVE  /\ StartChunks(m).pc = "chunks" /\ StartChunks(m).build = m.build
           /\ StartChunks(m).token = m.token /\ Same(StartChunks(m).out, m.out)
  BY DEF StartChunks, Same, WorkerStates, Outputs

LEMMA EnqueueLedger ==
    ASSUME TypeOK, TypeOK', Fence', Ledger, UNCHANGED <<projection, worker>>,
           NEW b \in Builds, NEW retryFailed \in BOOLEAN, NEW retryPartial \in BOOLEAN,
           EnqueueBuild(b, retryFailed, retryPartial)
    PROVE  Ledger'
<1>1. \A w \in Workers : Keeps(w) /\ worker'[w].build \in Builds \cup {None}
  BY DEF Keeps, TypeOK, WorkerStates
<1>2. \A x \in Builds : status'[x] = "running" => status[x] = "running" /\ token'[x] = token[x]
  BY DEF EnqueueBuild, Superseded, Requeue, TypeOK, Open
<1>3. output' = [output EXCEPT ![b] = output'[b]]
      /\ (output'[b] = output[b] \/ output'[b] = ReuseChunks(output[b], output[active], b.rev))
  BY DEF EnqueueBuild, TypeOK
<1>4. \A x \in Builds : Same(output'[x], output[x])
  BY <1>3, ReuseSame DEF Same, TypeOK
<1> QED BY <1>1, <1>2, <1>4, KeepLedger

LEMMA ScanLedger ==
    ASSUME TypeOK, TypeOK', Fence', Ledger, NEW s \in Scanners, Scan(s) \/ CrashScanner(s)
    PROVE  Ledger'
<1>1. projection' = projection /\ worker' = worker
  BY DEF Scan, ScanList, ScanLoad, ScanEnqueue, ScanKnown, ScanWithdraw, CrashScanner
<1>2. \A w \in Workers : Keeps(w) /\ worker'[w].build \in Builds \cup {None}
  BY <1>1 DEF Keeps, TypeOK, WorkerStates
<1>3. CASE ScanList(s) \/ ScanLoad(s) \/ ScanKnown(s) \/ CrashScanner(s)
  BY <1>1, <1>2, <1>3, KeepLedger DEF ScanList, ScanLoad, ScanKnown, CrashScanner, build, Same
<1>4. CASE ScanWithdraw(s)
  <2>1. Withdraw(FALSE, TRUE)
    BY <1>4 DEF ScanWithdraw
  <2>2. output' = output
    BY <2>1 DEF Withdraw
  <2>3. \A b \in Builds : status'[b] = "running" => status[b] = "running" /\ token'[b] = token[b]
    BY <2>1, WithdrawQuiet
  <2> QED BY <1>1, <1>2, <2>2, <2>3, KeepLedger DEF Same
<1>5. ASSUME NEW ver \in Versions, ScanEnqueue(s, ver) PROVE Ledger'
  <2>1. CASE UNCHANGED build
    BY <1>1, <1>2, <2>1, KeepLedger DEF build, Same
  <2>2. [rev |-> scanner[s].mat, ver |-> ver] \in Builds
    BY <1>5 DEF ScanEnqueue, TypeOK, ScannerStates, Builds
  <2> QED BY <1>1, <1>5, <2>1, <2>2, EnqueueLedger DEF ScanEnqueue, Refused
<1> QED BY <1>3, <1>4, <1>5 DEF Scan

LEMMA GrantLedger ==
    ASSUME TypeOK, TypeOK', Fence, Ledger, UNCHANGED <<projection, output>>,
           NEW w \in Workers, NEW b \in Builds, NEW m,
           status' = [status EXCEPT ![b] = "running"],
           token' = [token EXCEPT ![b] = attempts[b] + 1],
           worker' = [worker EXCEPT ![w] = m],
           m.build = b, Same(m.out, output[b]), m.pc = "assess" => m.out.assessed = None
    PROVE  Ledger'
<1>1. \A x \in Builds : Noted(x)'
  BY DEF Ledger, Noted, ServedChunks
<1>2. Held(w)'
  BY DEF Held, Same, TypeOK
<1>3. ASSUME NEW v \in Workers \ {w} PROVE Held(v)'
  <2>1. worker'[v] = worker[v]
    BY DEF TypeOK
  <2>2. worker[v].build = b => worker[v].token # token'[b]
    BY BuildsAssumption DEF Fence, TypeOK, WorkerStates
  <2>3. Owns(v)' => Owns(v)
    BY <2>1, <2>2 DEF Owns, TypeOK, WorkerStates
  <2> QED BY <2>1, <2>3 DEF Ledger, Held
<1> QED BY <1>1, <1>2, <1>3 DEF Ledger, TypeOK

LEMMA ClaimLedger ==
    ASSUME TypeOK, TypeOK', Fence, Fence', Ledger, NEW w \in Workers, Claim(w) PROVE Ledger'
<1> DEFINE b == worker[w].build
           m == [worker[w] EXCEPT !.pc = "claimed", !.token = attempts[b] + 1, !.out = output[b]]
<1>1. projection' = projection /\ output' = output /\ b \in Builds
  BY DEF Claim, build, TypeOK, WorkerStates
<1>2. CASE SetWorker(w, IdleWorker) /\ UNCHANGED build
  BY <1>1, <1>2, KeepLedger DEF SetWorker, IdleWorker, Keeps, TypeOK, WorkerStates, build, Same
<1>3. CASE /\ token' = [token EXCEPT ![b] = attempts[b] + 1]
               /\ status' = [status EXCEPT ![b] = "running"]
           /\ SetWorker(w, m)
  <2>1. worker' = [worker EXCEPT ![w] = m] /\ m.pc = "claimed" /\ m.out = output[b] /\ m.build = b
    BY <1>3 DEF SetWorker, TypeOK, WorkerStates
  <2> HIDE DEF m
  <2>2. Same(m.out, output[b])
    BY <2>1 DEF Same
  <2> QED BY <1>1, <1>3, <2>1, <2>2, GrantLedger
<1>4. CASE Claimable(b) /\ ~withdrawn /\ ~deleted /\ desired = b
  <2>1. /\ token' = [token EXCEPT ![b] = attempts[b] + 1] /\ status' = [status EXCEPT ![b] = "running"]
        /\ SetWorker(w, m)
    BY <1>4 DEF Claim
  <2> QED BY <1>3, <2>1
<1>5. CASE ~(Claimable(b) /\ ~withdrawn /\ ~deleted /\ desired = b)
  <2>1. SetWorker(w, IdleWorker) /\ UNCHANGED build
    BY <1>5 DEF Claim
  <2> QED BY <1>2, <2>1
<1> QED BY <1>4, <1>5

\* The owner alone changes its notes, and the build's with them.
LEMMA OwnerLedger ==
    ASSUME TypeOK, TypeOK', Fence, Ledger, NEW w \in Workers, NEW b \in Builds,
           worker[w].build = b, Owns(w),
           \A v \in Workers \ {w} : worker'[v] = worker[v],
           \A x \in Builds \ {b} : output'[x] = output[x] /\ projection'[x] = projection[x],
           \A x \in Builds : status'[x] = "running" => status[x] = "running" /\ token'[x] = token[x],
           Noted(b)', Held(w)'
    PROVE  Ledger'
<1>1. ASSUME NEW x \in Builds PROVE Noted(x)'
  BY <1>1 DEF Ledger, Noted, ServedChunks
<1>2. ASSUME NEW v \in Workers \ {w} PROVE Held(v)'
  <2>1. ASSUME Owns(v)' PROVE Owns(v) /\ worker[v].build \in Builds \ {b}
    <3>1. Owns(v)
      BY <2>1 DEF Owns, TypeOK, WorkerStates
    <3> QED BY <3>1 DEF Fence, Owns, TypeOK, WorkerStates
  <2> QED BY <1>2, <2>1 DEF Ledger, Held
<1> QED BY <1>1, <1>2 DEF Ledger

LEMMA AssessLedger ==
    ASSUME TypeOK, TypeOK', Fence, Fence', Ledger, NEW w \in Workers,
           NEW b \in Builds, b = worker[w].build, Assess(w)
    PROVE  Ledger'
<1>1. projection' = projection
  BY DEF Assess, Local
<1>2. CASE Local(w, IdleWorker)
  BY <1>1, <1>2, KeepLedger DEF Local, SetWorker, IdleWorker, Keeps, TypeOK, WorkerStates, build, Same
<1>3. ASSUME Owns(w), NEW relevant \in BOOLEAN, NEW m,
             m = [worker[w] EXCEPT !.out.assessed = worker[w].mat, !.out.relevant = relevant],
             output' = [output EXCEPT ![b] = m.out], SetWorker(w, StartChunks(m)),
             UNCHANGED <<status, token>>
      PROVE  Ledger'
  <2>1. StartChunks(m).pc = "chunks" /\ StartChunks(m).build = b /\ Same(StartChunks(m).out, m.out)
    <3>1. m \in WorkerStates /\ m.build = b
      <4>1. worker[w] \in WorkerStates /\ worker[w].build = b /\ worker[w].pc = "assess"
        BY DEF Assess, TypeOK
      <4>2. worker[w].mat \in Revisions
        BY <4>1 DEF WorkerStates, Holding
      <4> QED BY <1>3, <4>1, <4>2 DEF WorkerStates, Outputs, Holding
    <3> QED BY <3>1, StartSame
  <2>2. worker' = [worker EXCEPT ![w] = StartChunks(m)]
    BY <1>3 DEF SetWorker
  <2>3. worker[w].out.assessed = None /\ Same(worker[w].out, output[b])
    BY <1>3 DEF Assess, Ledger, Held
  <2>4. ServedChunks(b) = {}
    BY <1>1, <2>3 DEF Ledger, Noted, Same
  <2>5. Noted(b)'
    <3>1. ServedChunks(b)' = ServedChunks(b)
      BY <1>1 DEF ServedChunks
    <3>2. output'[b].assessed = worker[w].mat /\ worker[w].mat # None
      BY <1>1, <1>3 DEF Assess, TypeOK, WorkerStates, Outputs, Holding
    <3> QED BY <2>4, <3>1, <3>2 DEF Noted
  <2>6. worker'[w] = StartChunks(m) /\ output'[b] = m.out
    BY <1>1, <1>3, <2>2 DEF TypeOK
  <2>7. Held(w)'
    BY <2>1, <2>6 DEF Held
  <2> QED BY <1>1, <1>3, <2>2, <2>5, <2>7, OwnerLedger DEF TypeOK
<1> QED BY <1>2, <1>3 DEF Assess

\* Publishing again takes nothing away: either every chunk passed, or those
\* that were published did.
LEMMA ActivateLedger ==
    ASSUME TypeOK, TypeOK', Fence, Fence', Ledger, NEW w \in Workers,
           NEW b \in Builds, b = worker[w].build, Activate(w)
    PROVE  /\ Ledger'
           /\ \A x \in Builds :
                 active = x /\ active' = x => ServedChunks(x) \subseteq ServedChunks(x)'
<1> DEFINE out == worker[w].out
           passed == Passed(out, source)
           final == IF out.relevant /\ passed = {} THEN "failed"
                    ELSE IF Skipped(out, source) # {} THEN "partial_success" ELSE "success"
<1>1. b.rev = source /\ Owns(w) /\ out \in Outputs /\ ~Rejected(b, out)
  BY DEF Activate, Current, Owns, TypeOK, WorkerStates
<1>2. Same(out, output[b]) /\ Noted(b)
  BY <1>1 DEF Ledger, Held
<1>3. \A x \in Builds : status'[x] = "running" => status[x] = "running" /\ token'[x] = token[x]
  <2>1. PICK st \in Statuses \ {"running"} : Release({b}, st)
    BY DEF Activate, Close, Statuses
  <2> QED BY <2>1, ReleaseQuiet
<1>4. worker' = [worker EXCEPT ![w] = IdleWorker] /\ ~Owns(w)' /\ Held(w)'
  BY DEF Activate, SetWorker, IdleWorker, Held, Owns, TypeOK
<1>6. CASE final = "failed" \/ Preserve(b, out, passed)
  <2>1. output' = [output EXCEPT ![b] = out] /\ UNCHANGED <<projection, active>>
    BY <1>6 DEF Activate, Close
  <2>2. output'[b] = out
    BY <1>1, <2>1 DEF TypeOK
  <2>3. \A x \in Builds : ServedChunks(x)' = ServedChunks(x)
    BY <2>1 DEF ServedChunks
  <2>4. Noted(b)'
    BY <1>1, <1>2, <2>2, <2>3 DEF Noted, Same
  <2>5. Ledger'
    <3> HIDE DEF out
    <3> QED BY <1>1, <1>3, <1>4, <2>1, <2>4, OwnerLedger DEF TypeOK
  <2> QED BY <2>3, <2>5
<1>7. CASE ~(final = "failed" \/ Preserve(b, out, passed))
  <2>1. /\ output' = [output EXCEPT ![b] = [out EXCEPT !.published = passed]]
        /\ projection' = [projection EXCEPT ![b] = {<<c, out.chunks[c]>> : c \in passed}]
        /\ active' = b
    BY <1>7 DEF Activate, Close
  <2>2. /\ output'[b].published = passed /\ output'[b].relevant = out.relevant
        /\ output'[b].assessed = out.assessed
        /\ projection'[b] = {<<c, out.chunks[c]>> : c \in passed}
    BY <1>1, <2>1 DEF TypeOK, Outputs
  <2>3. ServedChunks(b)' = passed
    <3> DEFINE pairs == {<<c, out.chunks[c]>> : c \in passed}
    <3>1. {e[1] : e \in pairs} = passed
      <4>1. ASSUME NEW c \in passed PROVE c \in {e[1] : e \in pairs}
        <5>1. <<c, out.chunks[c]>> \in pairs /\ <<c, out.chunks[c]>>[1] = c
          OBVIOUS
        <5> HIDE DEF pairs
        <5> QED BY <5>1
      <4>2. ASSUME NEW e \in pairs PROVE e[1] \in passed
        OBVIOUS
      <4> HIDE DEF pairs, passed
      <4> QED BY <4>1, <4>2
    <3>2. ServedChunks(b)' = {e[1] : e \in pairs}
      BY <2>2 DEF ServedChunks
    <3> QED BY <3>1, <3>2
  <2>4. passed \subseteq ExtractionChunks(b.rev) /\ (passed # {} => out.relevant)
    BY <1>1 DEF Passed, Applicable
  <2>5. ASSUME active = b PROVE ServedChunks(b) \subseteq passed
    <3>1. CASE Skipped(out, source) # {}
      BY <1>1, <1>2, <1>7, <2>5, <3>1, BuildsAssumption DEF Preserve, Same, Noted
    <3>2. CASE Skipped(out, source) = {}
      <4>1. Applicable(out, source) \subseteq passed
        BY <1>1, <3>2 DEF Rejected, PendingChunks
      <4> QED BY <1>1, <1>2, <4>1 DEF Applicable, Noted, Same
    <3> QED BY <3>1, <3>2
  <2>6. Noted(b)'
    BY <1>1, <1>2, <2>2, <2>3, <2>4 DEF Noted, Same
  <2>7. Ledger'
    <3>1. \A x \in Builds \ {b} : output'[x] = output[x] /\ projection'[x] = projection[x]
      BY <2>1 DEF TypeOK
    <3> QED BY <1>1, <1>3, <1>4, <2>6, <3>1, OwnerLedger DEF TypeOK
  <2> QED BY <2>1, <2>3, <2>5, <2>7
<1> QED BY <1>6, <1>7

LEMMA LocalLedger ==
    ASSUME TypeOK, TypeOK', Fence', Ledger, NEW w \in Workers, NEW state, Local(w, state),
           \/ state = IdleWorker
           \/ /\ state.build = worker[w].build /\ state.token = worker[w].token
              /\ Same(state.out, worker[w].out)
              /\ state.pc = "assess" => worker[w].out.assessed = None
    PROVE  Ledger'
<1>1. UNCHANGED <<projection, output, status, token>> /\ worker' = [worker EXCEPT ![w] = state]
  BY DEF Local, SetWorker, build
<1>2. \A v \in Workers : Keeps(v) /\ worker'[v].build \in Builds \cup {None}
  BY <1>1 DEF Keeps, IdleWorker, TypeOK, WorkerStates
<1> QED BY <1>1, <1>2, KeepLedger DEF Same

\* Every step but an assessment and a publication keeps the notes.
LEMMA ProcessLedger ==
    ASSUME TypeOK, TypeOK', Fence, Fence', Ledger, NEW w \in Workers,
           Process(w) \/ CrashWorker(w), ~Activate(w)
    PROVE  Ledger'
<1> DEFINE b == worker[w].build
<1>1. CASE Claim(w)
  BY <1>1, ClaimLedger
<1>2. CASE Assess(w)
  BY <1>2, AssessLedger DEF Assess, TypeOK, WorkerStates, Holding
<1>3. CASE ReadCandidate(w)
  <2>1. /\ UNCHANGED <<projection, output, status, token>>
        /\ worker' = [worker EXCEPT ![w] = [worker[w] EXCEPT !.pc = "candidate", !.build = desired]]
    BY <1>3 DEF ReadCandidate, SetWorker, build
  <2>2. worker[w].token = 0
    BY <1>3 DEF ReadCandidate, Fence
  <2>3. \A v \in Workers : Keeps(v) /\ worker'[v].build \in Builds \cup {None}
    BY <2>1, <2>2 DEF Keeps, TypeOK, WorkerStates
  <2> QED BY <2>1, <2>3, KeepLedger DEF Same
<1>4. CASE LoadMaterial(w)
  <2>1. CASE source \notin Revisions
    BY <1>4, <2>1, LocalLedger DEF LoadMaterial
  <2>2. CASE source \in Revisions /\ worker[w].out.assessed = None
    BY ZenonT(40), <1>4, <2>2, LocalLedger DEF LoadMaterial, Same, TypeOK, WorkerStates
  <2>3. CASE source \in Revisions /\ worker[w].out.assessed # None
    <3> DEFINE m == [worker[w] EXCEPT !.mat = source]
    <3>1. m \in WorkerStates /\ m.build = b /\ m.token = worker[w].token /\ m.out = worker[w].out
      BY ZenonT(40), <1>4, <2>3 DEF LoadMaterial, TypeOK, WorkerStates, Holding
    <3>2. Local(w, StartChunks(m))
      BY <1>4, <2>3 DEF LoadMaterial
    <3> HIDE DEF m
    <3>3. /\ StartChunks(m).pc = "chunks" /\ StartChunks(m).build = b
          /\ StartChunks(m).token = worker[w].token /\ Same(StartChunks(m).out, worker[w].out)
      BY <3>1, StartSame
    <3> QED BY <3>2, <3>3, LocalLedger
  <2> QED BY <2>1, <2>2, <2>3
<1>5. ASSUME NEW c \in Chunks, KeepChunk(w, c) PROVE Ledger'
  <2> DEFINE state == [worker[w] EXCEPT !.todo = @ \ {c}, !.out.errors = @ \ {c}]
  <2>1. Local(w, state)
    BY <1>5 DEF KeepChunk
  <2>2. state.pc = "chunks" /\ state.build = b /\ state.token = worker[w].token
        /\ Same(state.out, worker[w].out)
    BY <1>5 DEF KeepChunk, Same, TypeOK, WorkerStates, Outputs
  <2> HIDE DEF state
  <2> QED BY <2>1, <2>2, LocalLedger
<1>6. ASSUME NEW c \in Chunks, ExtractChunk(w, c) PROVE Ledger'
  <2>1. ASSUME NEW state \in WorkerStates, Checkpoint(w, state), state.pc = "chunks",
               state.build = b, state.token = worker[w].token, Same(state.out, worker[w].out)
        PROVE  Ledger'
    <3>1. UNCHANGED <<projection, status, token>>
      BY <2>1 DEF Checkpoint
    <3>2. CASE Owns(w)
      <4>1. output' = [output EXCEPT ![b] = state.out] /\ worker' = [worker EXCEPT ![w] = state]
        BY <2>1, <3>2 DEF Checkpoint, SetWorker
      <4>2. \A x \in Builds : Same(output'[x], output[x])
        BY <2>1, <3>2, <4>1 DEF Same, Ledger, Held, TypeOK
      <4>3. \A v \in Workers : Keeps(v) /\ worker'[v].build \in Builds \cup {None}
        BY <2>1, <4>1 DEF Keeps, TypeOK, WorkerStates
      <4> QED BY <3>1, <4>2, <4>3, KeepLedger
    <3>3. CASE ~Owns(w)
      <4>1. UNCHANGED output /\ worker' = [worker EXCEPT ![w] = IdleWorker]
        BY <2>1, <3>3 DEF Checkpoint, SetWorker
      <4>2. \A v \in Workers : Keeps(v) /\ worker'[v].build \in Builds \cup {None}
        BY <4>1 DEF Keeps, IdleWorker, TypeOK, WorkerStates
      <4> QED BY <3>1, <4>1, <4>2, KeepLedger DEF Same
    <3> QED BY <3>2, <3>3
  <2>2. worker[w] \in WorkerStates /\ worker[w].pc = "chunks"
    BY <1>6 DEF ExtractChunk, TypeOK
  <2>3. CASE Checkpoint(w, [worker[w] EXCEPT !.todo = @ \ {c}, !.out.errors = @ \ {c},
                                            !.out.chunks[c] = TextOf[worker[w].mat][c]])
    <3> DEFINE state == [worker[w] EXCEPT !.todo = @ \ {c}, !.out.errors = @ \ {c},
                                            !.out.chunks[c] = TextOf[worker[w].mat][c]]
    <3>1. state \in WorkerStates
      BY <2>2, ChunkType
    <3>2. state.pc = "chunks" /\ state.build = b /\ state.token = worker[w].token
          /\ Same(state.out, worker[w].out)
      BY <2>2 DEF Same, WorkerStates, Outputs
    <3> HIDE DEF state
    <3> QED BY <2>1, <2>3, <3>1, <3>2 DEF state
  <2>4. CASE Checkpoint(w, [worker[w] EXCEPT !.todo = @ \ {c}, !.out.errors = @ \cup {c},
                                            !.out.chunks[c] = None])
    <3> DEFINE state == [worker[w] EXCEPT !.todo = @ \ {c}, !.out.errors = @ \cup {c},
                                            !.out.chunks[c] = None]
    <3>1. state \in WorkerStates
      BY <2>2, ChunkType
    <3>2. state.pc = "chunks" /\ state.build = b /\ state.token = worker[w].token
          /\ Same(state.out, worker[w].out)
      BY <2>2 DEF Same, WorkerStates, Outputs
    <3> HIDE DEF state
    <3> QED BY <2>1, <2>4, <3>1, <3>2 DEF state
  <2> QED BY <1>6, <2>3, <2>4 DEF ExtractChunk
<1>7. CASE RaiseError(w) \/ FinishChunks(w) \/ ActivateRejected(w)
  BY ZenonT(40), <1>7, LocalLedger DEF RaiseError, FinishChunks, ActivateRejected, Same, TypeOK, WorkerStates
<1>8. CASE ActivateLost(w)
  BY <1>8, LocalLedger DEF ActivateLost
<1>9. CASE Fail(w) \/ ActivateDeleted(w) \/ ActivateObsolete(w) \/ CrashWorker(w)
  <2>1. worker' = [worker EXCEPT ![w] = IdleWorker] /\ projection' = projection
    BY <1>9 DEF Fail, ActivateDeleted, ActivateObsolete, CrashWorker, SetWorker
  <2>2. \A v \in Workers : Keeps(v) /\ worker'[v].build \in Builds \cup {None}
    BY <2>1 DEF Keeps, IdleWorker, TypeOK, WorkerStates
  <2>3. output' = output
    BY <1>9 DEF Fail, ActivateDeleted, ActivateObsolete, CrashWorker, Close, Withdraw, build, TypeOK
  <2>4. \A x \in Builds : status'[x] = "running" => status[x] = "running" /\ token'[x] = token[x]
    <3>1. CASE CrashWorker(w)
      BY <3>1 DEF CrashWorker, build
    <3>2. CASE Fail(w) \/ ActivateDeleted(w) \/ ActivateObsolete(w)
      <4>1. Process(w) /\ ~Claim(w) /\ ~ReadCandidate(w)
        BY <3>2 DEF Process, Fail, ActivateDeleted, ActivateObsolete, Claim, ReadCandidate
      <4> QED BY <4>1, ProcessQuiet DEF Quiet
    <3> QED BY <1>9, <3>1, <3>2
  <2> QED BY <2>1, <2>2, <2>3, <2>4, KeepLedger DEF Same
<1> QED BY <1>1, <1>2, <1>3, <1>4, <1>5, <1>6, <1>7, <1>8, <1>9 DEF Process

LEMMA StepLedger ==
    ASSUME TypeOK, TypeOK', Fence, Fence', Ledger, [Next]_vars
    PROVE  /\ Ledger'
           /\ \A b \in Builds :
                active = b /\ active' = b => ServedChunks(b) \subseteq ServedChunks(b)'
<1>1. ASSUME projection' = projection
      PROVE  \A b \in Builds : ServedChunks(b) \subseteq ServedChunks(b)'
  BY <1>1 DEF ServedChunks
<1>2. ASSUME UNCHANGED <<projection, worker, output>>,
             \A b \in Builds : status'[b] = "running" => status[b] = "running" /\ token'[b] = token[b]
      PROVE  Ledger'
  <2>1. \A v \in Workers : Keeps(v) /\ worker'[v].build \in Builds \cup {None}
    BY <1>2 DEF Keeps, TypeOK, WorkerStates
  <2> QED BY <1>2, <2>1, KeepLedger DEF Same
<1>3. CASE CreateSource \/ EditSource \/ DeleteSource
  BY <1>1, <1>2, <1>3 DEF CreateSource, EditSource, DeleteSource, build
<1>4. CASE OperatorWithdraw
  <2>1. PICK restore \in BOOLEAN : Withdraw(restore, FALSE)
    BY <1>4 DEF OperatorWithdraw
  <2>2. \A b \in Builds : status'[b] = "running" => status[b] = "running" /\ token'[b] = token[b]
    BY <2>1, WithdrawQuiet
  <2>3. UNCHANGED <<projection, worker, output>>
    BY <1>4, <2>1 DEF OperatorWithdraw, Withdraw, build
  <2> QED BY <1>1, <1>2, <2>2, <2>3
<1>5. ASSUME NEW s \in Scanners, Scan(s) \/ CrashScanner(s)
      PROVE  Ledger' /\ projection' = projection
  BY <1>5, ScanLedger DEF Scan, ScanList, ScanLoad, ScanEnqueue, ScanKnown, ScanWithdraw, CrashScanner
<1>6. ASSUME NEW w \in Workers, Process(w) \/ CrashWorker(w), ~Activate(w)
      PROVE  Ledger' /\ projection' = projection
  <2>1. Ledger'
    BY <1>6, ProcessLedger
  <2>2. projection' = projection
    BY <1>6 DEF Process, ReadCandidate, Claim, LoadMaterial, Assess, KeepChunk, ExtractChunk,
                RaiseError, FinishChunks, Fail, ActivateDeleted, ActivateLost, ActivateObsolete,
                ActivateRejected, CrashWorker, Local, Checkpoint
  <2> QED BY <2>1, <2>2
<1>7. ASSUME NEW w \in Workers, Activate(w)
      PROVE  Ledger' /\ \A b \in Builds :
                active = b /\ active' = b => ServedChunks(b) \subseteq ServedChunks(b)'
  BY <1>7, ActivateLedger DEF Activate, Owns, TypeOK, WorkerStates
<1>8. ASSUME NEW b \in Builds, OrphanLeaseExpires(b) \/ SlowLeaseExpires(b)
      PROVE  Ledger' /\ projection' = projection
  BY <1>2, <1>8 DEF OrphanLeaseExpires, SlowLeaseExpires
<1>9. CASE UNCHANGED vars
  BY <1>1, <1>2, <1>9 DEF vars, build
<1> QED BY <1>1, <1>3, <1>4, <1>5, <1>6, <1>7, <1>8, <1>9 DEF Next

LEMMA InitLedger == Init => Ledger
<1> SUFFICES ASSUME Init PROVE Ledger
  OBVIOUS
<1>1. ASSUME NEW b \in Builds PROVE Noted(b)
  <2>1. ServedChunks(b) = {}
    BY DEF Init, ServedChunks
  <2> QED BY <2>1 DEF Init, Noted, EmptyOutput
<1>2. ASSUME NEW w \in Workers PROVE Held(w)
  BY DEF Init, Held, IdleWorker, Owns
<1> QED BY <1>1, <1>2 DEF Ledger

\* A rerun of a partly successful build never takes a published chunk away:
\* GraphStore.activate compares the notes of the worker, which are those of
\* the build for as long as its token opens it, with the chunks that passed.
THEOREM KeepsPublished == Spec => PublishedChunksKept
<1>1. TypeOK /\ TypeOK' /\ Fence /\ Fence' /\ Ledger /\ [Next]_vars => Ledger'
  BY StepLedger
<1>2. TypeOK /\ TypeOK' /\ Fence /\ Fence' /\ Ledger /\ [Next]_vars =>
        [\A b \in Builds : active = b /\ active' = b =>
            {e[1] : e \in projection[b]} \subseteq {e[1] : e \in projection'[b]}]_vars
  BY StepLedger DEF ServedChunks
<1> QED BY <1>1, <1>2, InitLedger, TypeCorrect, FenceInvariant, PTL DEF Spec, PublishedChunksKept

-----------------------------------------------------------------------------
(* Either store.  On rows the item carries its queue: while there is no    *)
(* item there is nothing queued or served, which is what lets a claim read *)
(* the material in its own transaction.  Once the item is deleted its      *)
(* attempts are forgotten, and what the workers still hold opens nothing.  *)

Gone ==
    source \notin Revisions =>
        desired = None /\ active = None /\ \A b \in Builds : status[b] = "absent"

RowsInv ==
    /\ TypeOK /\ Queue /\ ProjectionGrounded /\ Gone
    /\ source # Deleted => Fence /\ Ledger
StoreInv == TypeOK /\ Queue /\ ProjectionGrounded /\ Fence /\ Ledger
BothInv == IF tables THEN RowsInv ELSE StoreInv

\* What stays of a projection that is served before and after a step.
PublishedStep ==
    \A b \in Builds : active = b /\ active' = b => ServedChunks(b) \subseteq ServedChunks(b)'

\* The steps the rows have in common with the graph store.
Common ==
    \/ CreateSource \/ EditSource \/ WithdrawRows
    \/ \E s \in Scanners : CrashScanner(s)
    \/ \E w \in Workers : ExtractRows(w) \/ Fail(w) \/ ActivateRow(w) \/ CrashWorker(w)
    \/ \E b \in Builds : OrphanLeaseExpires(b) \/ SlowLeaseExpires(b)

LEMMA CommonNext ==
    ASSUME Common PROVE Next
<1>1. CASE CreateSource \/ EditSource
  BY <1>1 DEF Next
<1>2. CASE WithdrawRows
  BY <1>2, RevisionsAssumption DEF Next, WithdrawRows, OperatorWithdraw
<1>3. CASE \E s \in Scanners : CrashScanner(s)
  BY <1>3 DEF Next
<1>4. ASSUME NEW w \in Workers, ExtractRows(w) \/ Fail(w) \/ ActivateRow(w)
      PROVE  Process(w)
  BY <1>4 DEF ExtractRows, ActivateRow, Process
<1>5. CASE \E b \in Builds : OrphanLeaseExpires(b) \/ SlowLeaseExpires(b)
  BY <1>5 DEF Next
<1> QED BY <1>1, <1>2, <1>3, <1>4, <1>5 DEF Common, Next

LEMMA RowsSteps ==
    ASSUME TablesNext
    PROVE  \/ Common \/ DeleteRows
           \/ \E s \in Scanners : ListRows(s)
           \/ \E s \in Scanners : \E ver \in Versions : EnqueueRows(s, ver)
           \/ \E w \in Workers : ClaimRow(w) \/ ActivateLostRow(w)
  BY DEF TablesNext, Common, ScanRows, ProcessRow, FailRow

\* What a claim grants: the next attempt of the build, with its notes.
Granted(w, b, m) ==
    /\ m \in WorkerStates /\ m.build = b /\ m.token = attempts[b] + 1
    /\ m.pc \in {"assess", "chunks"} /\ Same(m.out, output[b])
    /\ m.pc = "assess" => m.out.assessed = None
    /\ desired = b /\ worker' = [worker EXCEPT ![w] = m]
    /\ status' = [status EXCEPT ![b] = "running"]
    /\ attempts' = [attempts EXCEPT ![b] = @ + 1]
    /\ token' = [token EXCEPT ![b] = attempts[b] + 1]
    /\ lapsed' = lapsed \ {b}
    /\ UNCHANGED <<source, video, output, projection, scanner, budget>>

LEMMA ClaimGrants ==
    ASSUME TypeOK, Gone, NEW w \in Workers, ClaimRow(w)
    PROVE  \E b \in Builds : \E m : Granted(w, b, m)
<1> DEFINE b == desired
           claimed == [worker[w] EXCEPT !.build = b, !.token = attempts[b] + 1,
                                        !.out = output[b], !.mat = source]
           assess == [claimed EXCEPT !.pc = "assess"]
           m == IF claimed.out.assessed = None THEN assess ELSE StartChunks(claimed)
<1>1. b \in Builds /\ source \in Revisions
  BY DEF ClaimRow, TypeOK, Gone
<1>2. worker[w] \in WorkerStates /\ worker[w].pc = "idle" /\ output[b] \in Outputs
      /\ attempts[b] + 1 \in Nat
  BY <1>1 DEF ClaimRow, TypeOK
<1>3. /\ claimed \in WorkerStates /\ claimed.build = b /\ claimed.token = attempts[b] + 1
      /\ claimed.out = output[b] /\ claimed.mat = source
  BY <1>1, <1>2, BuildsAssumption DEF WorkerStates, Holding
<1>4. /\ assess \in WorkerStates /\ assess.pc = "assess" /\ assess.build = b
      /\ assess.token = attempts[b] + 1 /\ assess.out = output[b]
  <2> HIDE DEF claimed
  <2> QED BY <1>1, <1>3, BuildsAssumption, RevisionsAssumption DEF WorkerStates, Holding
<1>5. /\ StartChunks(claimed) \in WorkerStates /\ StartChunks(claimed).pc = "chunks"
      /\ StartChunks(claimed).build = b /\ StartChunks(claimed).token = attempts[b] + 1
      /\ Same(StartChunks(claimed).out, output[b])
  <2> HIDE DEF claimed
  <2> QED BY <1>1, <1>3, BuildsAssumption, StartChunksType, StartSame
<1>6. /\ status' = [status EXCEPT ![b] = "running"]
      /\ attempts' = [attempts EXCEPT ![b] = @ + 1]
      /\ token' = [token EXCEPT ![b] = attempts[b] + 1]
      /\ lapsed' = lapsed \ {b}
      /\ UNCHANGED <<source, video, output, projection, scanner, budget>>
  BY DEF ClaimRow
<1>7. worker' = [worker EXCEPT ![w] = m]
  BY DEF ClaimRow, SetWorker
<1>8. /\ m \in WorkerStates /\ m.build = b /\ m.token = attempts[b] + 1
      /\ m.pc \in {"assess", "chunks"} /\ Same(m.out, output[b])
      /\ m.pc = "assess" => m.out.assessed = None
  <2> HIDE DEF assess
  <2>1. CASE claimed.out.assessed = None
    <3> HIDE DEF claimed
    <3> QED BY <1>3, <1>4, <2>1 DEF Same
  <2>2. CASE claimed.out.assessed # None
    <3> HIDE DEF claimed
    <3> QED BY <1>5, <2>2
  <2> QED BY <2>1, <2>2
<1> HIDE DEF m
<1> QED BY <1>1, <1>6, <1>7, <1>8 DEF Granted

\* Only the crawler moves the source.
LEMMA SourceStep ==
    ASSUME TablesNext PROVE CreateSource \/ EditSource \/ DeleteRows \/ UNCHANGED source
<1>1. ASSUME NEW s \in Scanners, ScanRows(s) \/ CrashScanner(s) PROVE UNCHANGED source
  BY <1>1 DEF ScanRows, ListRows, EnqueueRows, CrashScanner
<1>2. ASSUME NEW w \in Workers, ProcessRow(w) \/ CrashWorker(w) PROVE UNCHANGED source
  <2>1. CASE Assess(w) \/ \E c \in Chunks : KeepChunk(w, c) \/ ExtractChunk(w, c)
    BY <2>1 DEF Assess, KeepChunk, ExtractChunk, Local, Checkpoint
  <2>2. CASE \/ ClaimRow(w) \/ RaiseError(w) \/ FinishChunks(w) \/ Fail(w)
             \/ ActivateLostRow(w) \/ ActivateRow(w) \/ CrashWorker(w)
    BY <2>2 DEF ClaimRow, RaiseError, FinishChunks, Fail, ActivateLostRow, ActivateRow,
                ActivateObsolete, ActivateRejected, Activate, Local, CrashWorker
  <2> QED BY <1>2, <2>1, <2>2 DEF ProcessRow, ExtractRows, FailRow
<1>3. ASSUME NEW b \in Builds, OrphanLeaseExpires(b) \/ SlowLeaseExpires(b)
      PROVE  UNCHANGED source
  BY <1>3 DEF OrphanLeaseExpires, SlowLeaseExpires
<1>4. CASE WithdrawRows
  BY <1>4 DEF WithdrawRows
<1> QED BY <1>1, <1>2, <1>3, <1>4 DEF TablesNext

\* A deleted item does not come back.
LEMMA DeletedForGood ==
    ASSUME source = Deleted, TablesNext PROVE source' = Deleted
  BY SourceStep, RevisionsAssumption DEF CreateSource, EditSource, DeleteRows

\* No row but the item's is read or written when there is no item.
LEMMA GoneStep ==
    ASSUME TypeOK, Gone, TablesNext PROVE Gone'
<1>1. CASE source' \in Revisions
  BY <1>1 DEF Gone
<1>2. CASE DeleteRows
  BY <1>2 DEF DeleteRows, Gone
<1>3. CASE source' \notin Revisions /\ ~DeleteRows
  <2>1. ~CreateSource /\ ~EditSource
    BY <1>3 DEF CreateSource, EditSource
  <2>2. source \notin Revisions /\ desired = None /\ active = None
        /\ \A b \in Builds : status[b] = "absent"
    BY <1>3, <2>1, SourceStep DEF Gone
  <2>3. \A w \in Workers : ~Owns(w)
    BY <2>2 DEF Owns, TypeOK, WorkerStates
  <2>4. UNCHANGED <<desired, active, status>>
    <3>1. ASSUME NEW s \in Scanners, ScanRows(s) \/ CrashScanner(s)
          PROVE  UNCHANGED <<desired, active, status>>
      BY <2>2, <3>1 DEF ScanRows, ListRows, EnqueueRows, CrashScanner, video, build
    <3>2. ASSUME NEW w \in Workers, ProcessRow(w) \/ CrashWorker(w)
          PROVE  UNCHANGED <<desired, active, status>>
      BY <2>2, <2>3, <3>2
         DEF ProcessRow, ClaimRow, ExtractRows, Assess, KeepChunk, ExtractChunk, RaiseError,
             FinishChunks, FailRow, Fail, ActivateLostRow, ActivateRow, ActivateObsolete,
             ActivateRejected, Activate, Local, Checkpoint, CrashWorker, video, build
    <3>3. ASSUME NEW b \in Builds, OrphanLeaseExpires(b) \/ SlowLeaseExpires(b)
          PROVE  UNCHANGED <<desired, active, status>>
      BY <3>3 DEF OrphanLeaseExpires, SlowLeaseExpires, video
    <3>4. ~WithdrawRows
      BY <2>2 DEF WithdrawRows
    <3> QED BY <1>3, <2>1, <3>1, <3>2, <3>3, <3>4 DEF TablesNext
  <2> QED BY <2>2, <2>4 DEF Gone
<1> QED BY <1>1, <1>2, <1>3

LEMMA RowsType ==
    ASSUME TypeOK, Gone, TablesNext PROVE TypeOK'
<1> USE DEF TypeOK
<1>1. CASE Common
  BY <1>1, CommonNext, StepType
<1>2. CASE DeleteRows
  BY <1>2, SpendType, EmptyOutputType DEF DeleteRows, BudgetKinds, Statuses
<1>3. ASSUME NEW s \in Scanners, ListRows(s) PROVE TypeOK'
  <2>1. scanner' \in [Scanners -> ScannerStates]
    BY <1>3, IdleTypes, RevisionsAssumption DEF ListRows, SetScanner, ScannerStates
  <2> QED BY <1>3, <2>1 DEF ListRows, video, build
<1>4. ASSUME NEW s \in Scanners, NEW ver \in Versions, EnqueueRows(s, ver) PROVE TypeOK'
  <2>1. scanner[s].mat \in Revisions /\ scanner' \in [Scanners -> ScannerStates]
    BY <1>4, IdleTypes DEF EnqueueRows, SetScanner, ScannerStates
  <2>2. CASE UNCHANGED <<video, build, budget>>
    BY <1>4, <2>1, <2>2 DEF EnqueueRows, video, build
  <2>3. ASSUME known' = TRUE, UNCHANGED <<withdrawn, deleted>>,
               NEW retryFailed \in BOOLEAN, NEW retryPartial \in BOOLEAN,
               Spend("retries") \/ UNCHANGED budget,
               \/ UNCHANGED <<desired, active, build>>
               \/ EnqueueBuild([rev |-> scanner[s].mat, ver |-> ver], retryFailed, retryPartial)
        PROVE  TypeOK'
    <3>1. budget' \in [BudgetKinds -> Nat]
      BY <2>3, SpendType DEF BudgetKinds
    <3>2. CASE UNCHANGED <<desired, active, build>>
      BY <1>4, <2>1, <2>3, <3>1, <3>2 DEF EnqueueRows, build
    <3>3. CASE EnqueueBuild([rev |-> scanner[s].mat, ver |-> ver], retryFailed, retryPartial)
      <4>1. /\ desired' \in Builds \cup {None} /\ active' \in Builds \cup {None}
            /\ status' \in [Builds -> Statuses] /\ attempts' \in [Builds -> Nat]
            /\ token' \in [Builds -> Nat] /\ lapsed' \in SUBSET Builds
            /\ output' \in [Builds -> Outputs]
        BY <2>1, <3>3, EnqueueType
      <4> QED BY <1>4, <2>1, <2>3, <3>1, <4>1 DEF EnqueueRows
    <3> QED BY <2>3, <3>2, <3>3
  <2> QED BY <1>4, <2>2, <2>3 DEF EnqueueRows
<1>5. ASSUME NEW w \in Workers, ClaimRow(w) PROVE TypeOK'
  <2>1. PICK b \in Builds : \E m : Granted(w, b, m)
    BY <1>5, ClaimGrants
  <2> QED BY <2>1 DEF Granted, video, Statuses
<1>6. ASSUME NEW w \in Workers, ActivateLostRow(w) PROVE TypeOK'
  BY <1>6, LocalType, IdleTypes DEF ActivateLostRow
<1> QED BY <1>1, <1>2, <1>3, <1>4, <1>5, <1>6, RowsSteps

LEMMA RowsQueue ==
    ASSUME TypeOK, Gone, Queue, TablesNext PROVE Queue'
<1>1. CASE Common
  BY <1>1, CommonNext, StepQueue
<1>2. CASE DeleteRows
  BY <1>2 DEF DeleteRows, Queue, OpenBuildsAreDesired, WithdrawnServesNothing,
              UnchangedIsServed, Open
<1>3. ASSUME NEW s \in Scanners, ListRows(s) PROVE Queue'
  BY <1>3, SteadyQueue DEF ListRows, video, build, Steady
<1>4. ASSUME NEW s \in Scanners, NEW ver \in Versions, EnqueueRows(s, ver) PROVE Queue'
  <2>1. [rev |-> scanner[s].mat, ver |-> ver] \in Builds
    BY <1>4 DEF EnqueueRows, TypeOK, ScannerStates, Builds
  <2>2. withdrawn' = withdrawn
    BY <1>4 DEF EnqueueRows, video
  <2>3. CASE UNCHANGED <<desired, active, build>>
    BY <2>2, <2>3, SteadyQueue DEF build, Steady
  <2>4. CASE UNCHANGED <<video, build, budget>>
    BY <2>3, <2>4 DEF video
  <2>5. ASSUME ~Refused, NEW retryFailed \in BOOLEAN, NEW retryPartial \in BOOLEAN,
               EnqueueBuild([rev |-> scanner[s].mat, ver |-> ver], retryFailed, retryPartial)
        PROVE  Queue'
    BY <2>1, <2>2, <2>5, EnqueueQueue DEF Refused
  <2> QED BY <1>4, <2>3, <2>4, <2>5 DEF EnqueueRows
<1>5. ASSUME NEW w \in Workers, ClaimRow(w) PROVE Queue'
  <2>1. PICK b \in Builds : \E m : Granted(w, b, m)
    BY <1>5, ClaimGrants
  <2>2. /\ desired = b /\ UNCHANGED <<withdrawn, desired, active>>
        /\ status'[b] = "running" /\ \A x \in Builds : x # b => status'[x] = status[x]
    BY <2>1 DEF Granted, TypeOK, video
  <2> QED
    BY <2>2 DEF Queue, OpenBuildsAreDesired, WithdrawnServesNothing, UnchangedIsServed, Open
<1>6. ASSUME NEW w \in Workers, ActivateLostRow(w) PROVE Queue'
  BY <1>6, SteadyQueue DEF ActivateLostRow, Local, video, build, Steady
<1> QED BY <1>1, <1>2, <1>3, <1>4, <1>5, <1>6, RowsSteps

LEMMA RowsServe ==
    ASSUME TypeOK, TablesNext PROVE Serves
<1>1. CASE Common
  BY <1>1, CommonNext, ServingStep
<1>2. CASE DeleteRows
  BY <1>2, RevisionsAssumption DEF DeleteRows, Serves, Vanished
<1>3. ASSUME NEW s \in Scanners, ListRows(s) PROVE UNCHANGED <<active, projection>>
  BY <1>3 DEF ListRows, video
<1>4. ASSUME NEW s \in Scanners, NEW ver \in Versions, EnqueueRows(s, ver)
      PROVE  UNCHANGED <<active, projection>>
  BY <1>4 DEF EnqueueRows, EnqueueBuild, video
<1>5. ASSUME NEW w \in Workers, ClaimRow(w) \/ ActivateLostRow(w)
      PROVE  UNCHANGED <<active, projection>>
  BY <1>5 DEF ClaimRow, ActivateLostRow, Local, video
<1> QED BY <1>1, <1>2, <1>3, <1>4, <1>5, RowsSteps DEF Serves

\* Every step but the deletion keeps the fence and the notes, and takes no
\* published chunk away.
LEMMA RowsLedger ==
    ASSUME TypeOK, TypeOK', Gone, Fence, Ledger, TablesNext, ~DeleteRows
    PROVE  /\ Fence' /\ Ledger'
           /\ \A b \in Builds :
                active = b /\ active' = b => ServedChunks(b) \subseteq ServedChunks(b)'
<1> USE DEF ServedChunks
<1>1. CASE Common
  <2>1. Next
    BY <1>1, CommonNext
  <2>2. Fence'
    BY <2>1, StepFence
  <2> QED BY <2>1, <2>2, StepLedger
<1>2. ASSUME projection' = projection, Fence', Ledger'
      PROVE  /\ Fence' /\ Ledger'
             /\ \A b \in Builds :
                  active = b /\ active' = b => ServedChunks(b) \subseteq ServedChunks(b)'
  BY <1>2
<1> USE DEF ServedChunks
<1>3. ASSUME UNCHANGED <<build, projection, worker>> PROVE Fence' /\ Ledger'
  <2>1. Quiet
    BY <1>3 DEF Quiet, build
  <2>2. Fence'
    BY <2>1, QuietFence
  <2>3. \A w \in Workers : Keeps(w) /\ worker'[w].build \in Builds \cup {None}
    BY <1>3 DEF Keeps, TypeOK, WorkerStates
  <2> QED BY <1>3, <2>2, <2>3, KeepLedger DEF build, Same
<1>4. ASSUME NEW s \in Scanners, ListRows(s) PROVE projection' = projection /\ Fence' /\ Ledger'
  BY <1>3, <1>4 DEF ListRows
<1>5. ASSUME NEW s \in Scanners, NEW ver \in Versions, EnqueueRows(s, ver)
      PROVE  projection' = projection /\ Fence' /\ Ledger'
  <2>1. UNCHANGED <<projection, worker>>
    BY <1>5 DEF EnqueueRows
  <2>2. [rev |-> scanner[s].mat, ver |-> ver] \in Builds
    BY <1>5 DEF EnqueueRows, TypeOK, ScannerStates, Builds
  <2>3. CASE UNCHANGED build
    BY <1>3, <2>1, <2>3
  <2>4. ASSUME NEW b \in Builds, NEW retryFailed \in BOOLEAN, NEW retryPartial \in BOOLEAN,
               EnqueueBuild(b, retryFailed, retryPartial)
        PROVE  Fence' /\ Ledger'
    <3>1. Fence'
      BY <2>1, <2>4, EnqueueQuiet, QuietFence
    <3> QED BY <2>1, <2>4, <3>1, EnqueueLedger
  <2> QED BY <1>5, <2>1, <2>2, <2>3, <2>4 DEF EnqueueRows
<1>6. ASSUME NEW w \in Workers, ClaimRow(w) PROVE projection' = projection /\ Fence' /\ Ledger'
  <2>1. PICK b \in Builds : \E m : Granted(w, b, m)
    BY <1>6, ClaimGrants
  <2>2. PICK m : Granted(w, b, m)
    BY <2>1
  <2>3. Fence'
    BY <2>2, GrantFence DEF Granted
  <2> QED BY <2>2, <2>3, GrantLedger DEF Granted
<1>7. ASSUME NEW w \in Workers, ActivateLostRow(w)
      PROVE  projection' = projection /\ Fence' /\ Ledger'
  <2>1. Local(w, IdleWorker)
    BY <1>7 DEF ActivateLostRow
  <2>2. Fence'
    BY <2>1, LocalQuiet, QuietFence
  <2> QED BY <2>1, <2>2, LocalLedger DEF Local
<1> QED BY <1>1, <1>2, <1>4, <1>5, <1>6, <1>7, RowsSteps

\* Each step of the rows keeps the invariant and implements what is promised.
LEMMA RowsStep ==
    ASSUME RowsInv, TablesNext
    PROVE  RowsInv' /\ Serves /\ PublishedStep
<1> USE DEF RowsInv
<1>1. TypeOK' /\ Queue' /\ Gone' /\ Serves
  BY RowsType, RowsQueue, GoneStep, RowsServe
<1>2. ProjectionGrounded'
  BY <1>1, ServesGrounded
<1>3. CASE source = Deleted
  BY <1>1, <1>2, <1>3, DeletedForGood, RevisionsAssumption, BuildsAssumption DEF Gone, PublishedStep
<1>4. CASE DeleteRows
  BY <1>1, <1>2, <1>4, BuildsAssumption DEF DeleteRows, PublishedStep
<1>5. CASE source # Deleted /\ ~DeleteRows
  <2>1. Fence' /\ Ledger' /\ PublishedStep
    BY <1>1, <1>5, RowsLedger DEF PublishedStep
  <2> QED BY <1>1, <1>2, <2>1
<1> QED BY <1>3, <1>4, <1>5

LEMMA StoreStep ==
    ASSUME StoreInv, [Next]_vars
    PROVE  StoreInv' /\ Serves /\ PublishedStep
<1> USE DEF StoreInv
<1>1. TypeOK' /\ Queue' /\ Serves
  BY StepType, StepQueue, ServingStep
<1>2. Fence' /\ ProjectionGrounded'
  BY <1>1, StepFence, ServesGrounded
<1>3. Ledger' /\ PublishedStep
  BY <1>1, <1>2, StepLedger DEF PublishedStep
<1> QED BY <1>1, <1>2, <1>3

LEMMA BothStep ==
    ASSUME BothInv, [BothNext]_bothVars
    PROVE  BothInv' /\ Serves /\ PublishedStep
<1>1. tables' = tables
  BY DEF BothNext, bothVars, tables
<1>2. CASE tables /\ TablesNext
  BY <1>1, <1>2, RowsStep DEF BothInv
<1>3. CASE ~tables /\ Next
  BY <1>1, <1>3, StoreStep DEF BothInv
<1>4. CASE UNCHANGED bothVars
  <2>1. UNCHANGED vars
    BY <1>4 DEF bothVars
  <2>2. Serves /\ PublishedStep
    BY <2>1 DEF vars, video, Serves, PublishedStep, ServedChunks
  <2>3. CASE tables
    BY <1>1, <2>1, <2>2, <2>3
       DEF BothInv, RowsInv, TypeOK, Queue, OpenBuildsAreDesired, WithdrawnServesNothing,
           UnchangedIsServed, ProjectionGrounded, Gone, Fence, Ledger, Noted, ServedChunks, Held,
           Owns, vars, video, build
  <2>4. CASE ~tables
    BY <1>1, <2>1, <2>2, <2>4, StoreStep DEF BothInv
  <2> QED BY <2>3, <2>4
<1> QED BY <1>2, <1>3, <1>4 DEF BothNext

\* What no step of either store breaks.
THEOREM EitherInductive == BothSpec => []BothInv
<1>1. BothInit => BothInv
  BY InitType, InitFence, InitQueue, InitServes, InitLedger
     DEF BothInit, BothInv, RowsInv, StoreInv, Gone, Init
<1>2. BothInv /\ [BothNext]_bothVars => BothInv'
  BY BothStep
<1> QED BY <1>1, <1>2, PTL DEF BothSpec

\* On either store: one owner per build, no orphan in the queue, and a withdrawn
\* video serves nothing.
THEOREM EitherQueueSound == BothSpec => []QueueIsSound
<1>1. RowsInv => QueueIsSound
  <2>1. CASE source = Deleted
    BY <2>1, RevisionsAssumption
       DEF RowsInv, QueueIsSound, Queue, Gone, SingleOwner, Owns, TypeOK, WorkerStates
  <2>2. CASE source # Deleted
    BY <2>2, FenceExcludes DEF RowsInv, QueueIsSound, Queue
  <2> QED BY <2>1, <2>2
<1>2. StoreInv => QueueIsSound
  BY FenceExcludes DEF StoreInv, QueueIsSound, Queue
<1>3. BothInv => QueueIsSound
  BY <1>1, <1>2 DEF BothInv
<1> QED BY <1>3, EitherInductive, PTL

\* On either store a finished build that is wanted is served, or leaves what
\* was served in place.
THEOREM EitherFinishedIsServed == BothSpec => []UnchangedIsServed
<1>1. BothInv => UnchangedIsServed
  BY DEF BothInv, RowsInv, StoreInv, Queue
<1> QED BY <1>1, EitherInductive, PTL

\* On either store every published fact is found in its build's revision.
THEOREM EitherIsGrounded == BothSpec => []ProjectionGrounded
<1>1. BothInv => ProjectionGrounded
  BY DEF BothInv, RowsInv, StoreInv
<1> QED BY <1>1, EitherInductive, PTL

\* Either store implements the promise to readers; a deleted row takes what it
\* served with it.
THEOREM EitherImplementsPromise == BothSpec => ServesPromise
<1>1. BothInit => Promise!Init
  BY InitServes DEF BothInit
<1>2. BothInv /\ [BothNext]_bothVars =>
        [Promise!Next]_<<source, IF active = None THEN None ELSE active.rev,
                         IF active = None THEN {} ELSE projection[active]>>
  BY BothStep, ServesPromised DEF BothInv, RowsInv, StoreInv
<1> QED BY <1>1, <1>2, EitherInductive, PTL DEF BothSpec, ServesPromise, Promise!Spec

\* On either store a rerun takes no published chunk away.
THEOREM EitherKeepsPublished == BothSpec => PublishedChunksKept
<1>1. BothInv /\ [BothNext]_bothVars =>
        [\A b \in Builds : active = b /\ active' = b =>
            {e[1] : e \in projection[b]} \subseteq {e[1] : e \in projection'[b]}]_vars
  BY BothStep DEF PublishedStep, ServedChunks
<1> QED BY <1>1, EitherInductive, PTL DEF BothSpec, PublishedChunksKept
=============================================================================
