-------------------------- MODULE LiteratureRunProofs --------------------------
(***************************************************************************)
(* Theorems about literature runs, for any sets of runs and workers and    *)
(* any number of directions and papers.                                    *)
(***************************************************************************)
EXTENDS LiteratureRun, SequenceTheorems, TLAPS

-----------------------------------------------------------------------------
(* What the steps of a worker leave in its memory. *)

(* A worker that is not idle holds a run. *)
Busy == \A w \in Workers : worker[w].phase # "idle" => worker[w].run \in Runs

(* A step of worker w changes what w holds only, and it keeps its run or   *)
(* lets go of it.                                                          *)
OwnMemory(w) ==
    /\ worker' \in [Workers -> WorkerStates]
    /\ \A v \in Workers \ {w} : worker'[v] = worker[v]
    /\ worker'[w].run = worker[w].run \/ worker'[w] = Resting

LEMMA RestingFacts ==
    /\ Resting \in WorkerStates /\ Resting.phase = "idle" /\ Resting.run = None
    /\ ~Resting.checked /\ Resting.late = 0
  BY DEF Resting, WorkerStates, Phases, Statuses, MostCalls

LEMMA HeldFacts ==
    ASSUME NEW p \in Phases, NEW r \in Runs, NEW s \in Statuses,
           NEW m, m = Held(r, p, s)
    PROVE  /\ m \in WorkerStates /\ m.phase = p /\ m.run = r /\ m.loaded = s
           /\ ~m.checked /\ m.late = 0 /\ m.done = 0 /\ m.picked = 0
<1>1. m = [phase |-> p, run |-> r, loaded |-> s, checked |-> FALSE, calls |-> 0, late |-> 0,
           done |-> 0, picked |-> 0]
  BY DEF Held, Resting
<1>2. 0 \in 0..MostCalls
  BY DEF MostCalls
<1> QED BY <1>1, <1>2 DEF WorkerStates

LEMMA EnteredFacts ==
    ASSUME NEW n \in WorkerStates, NEW p \in Phases, NEW m, m = Entered(n, p)
    PROVE  /\ m \in WorkerStates /\ m.phase = p /\ m.run = n.run /\ m.loaded = n.loaded
           /\ ~m.checked /\ m.late = n.late /\ m.done = 0 /\ m.picked = n.picked
<1> DEFINE half == [n EXCEPT !.phase = p, !.checked = FALSE]
<1>1. /\ half \in WorkerStates /\ half.phase = p /\ half.run = n.run
      /\ half.loaded = n.loaded /\ ~half.checked /\ half.late = n.late
      /\ half.picked = n.picked
  BY DEF WorkerStates
<1> DEFINE next == [half EXCEPT !.calls = 0]
<1>2. m = [next EXCEPT !.done = 0]
  BY DEF Entered
<1>3. 0 \in 0..MostCalls
  BY DEF MostCalls
<1> HIDE DEF half
<1>4. /\ next \in WorkerStates /\ next.phase = p /\ next.run = n.run
      /\ next.loaded = n.loaded /\ ~next.checked /\ next.late = n.late
      /\ next.picked = n.picked
  BY <1>1, <1>3 DEF WorkerStates
<1> HIDE DEF next
<1> QED BY <1>2, <1>4 DEF WorkerStates

LEMMA CalledFacts ==
    ASSUME NEW w \in Workers, worker[w] \in WorkerStates, NEW m, m = Called(w)
    PROVE  /\ m \in WorkerStates /\ m.phase = worker[w].phase /\ m.run = worker[w].run
           /\ m.loaded = worker[w].loaded /\ m.checked = worker[w].checked
           /\ m.calls = worker[w].calls /\ m.done = worker[w].done
           /\ m.picked = worker[w].picked
           /\ m.late = IF status[worker[w].run] = "cancelled" THEN worker[w].late + 1
                       ELSE worker[w].late
<1> DEFINE k == IF status[worker[w].run] = "cancelled" THEN worker[w].late + 1
                ELSE worker[w].late
<1>1. k \in Nat
  BY DEF WorkerStates
<1>2. m = [worker[w] EXCEPT !.late = k]
  BY DEF Called
<1> HIDE DEF k
<1>3. /\ m \in WorkerStates /\ m.phase = worker[w].phase /\ m.run = worker[w].run
      /\ m.loaded = worker[w].loaded /\ m.checked = worker[w].checked
      /\ m.calls = worker[w].calls /\ m.done = worker[w].done
      /\ m.picked = worker[w].picked /\ m.late = k
  BY <1>1, <1>2 DEF WorkerStates
<1> QED BY <1>3 DEF k

LEMMA UpdateShape ==
    ASSUME TypeOK, NEW w \in Workers, NEW m \in WorkerStates,
           m.run = worker[w].run \/ m = Resting, worker' = [worker EXCEPT ![w] = m]
    PROVE  OwnMemory(w) /\ worker'[w] = m
  BY DEF TypeOK, OwnMemory

LEMMA HaltShape ==
    ASSUME TypeOK, NEW w \in Workers, Halt(w)
    PROVE  OwnMemory(w) /\ worker'[w] = Resting
  BY RestingFacts, UpdateShape DEF Halt

\* The worker after Hold, ...
LEMMA HoldShape ==
    ASSUME TypeOK, NEW w \in Workers, NEW r \in Runs, r = worker[w].run,
           NEW p \in Phases, NEW s \in Statuses, Hold(w, r, p, s)
    PROVE  /\ OwnMemory(w)
           /\ worker'[w].phase = p /\ worker'[w].run = r /\ worker'[w].loaded = s
           /\ ~worker'[w].checked /\ worker'[w].late = 0
           /\ worker'[w].done = 0 /\ worker'[w].picked = 0
<1> DEFINE m == Held(r, p, s)
<1>1. /\ m \in WorkerStates /\ m.phase = p /\ m.run = r /\ m.loaded = s
      /\ ~m.checked /\ m.late = 0 /\ m.done = 0 /\ m.picked = 0
  BY HeldFacts
<1>2. worker' = [worker EXCEPT ![w] = m]
  BY DEF Hold
<1> HIDE DEF m
<1> QED BY <1>1, <1>2, UpdateShape

\* ... after Entered, with a call or without one, ...
LEMMA EnterShape ==
    ASSUME TypeOK, NEW w \in Workers, NEW p \in Phases,
           NEW n \in {worker[w], Called(w)}, worker' = [worker EXCEPT ![w] = Entered(n, p)]
    PROVE  /\ OwnMemory(w)
           /\ worker'[w].phase = p /\ worker'[w].run = worker[w].run
           /\ worker'[w].loaded = worker[w].loaded
           /\ ~worker'[w].checked /\ worker'[w].late = n.late
           /\ worker'[w].done = 0 /\ worker'[w].picked = worker[w].picked
<1>1. worker[w] \in WorkerStates
  BY DEF TypeOK
<1>2. /\ n \in WorkerStates /\ n.run = worker[w].run /\ n.loaded = worker[w].loaded
      /\ n.picked = worker[w].picked
  BY <1>1, CalledFacts
<1> DEFINE m == Entered(n, p)
<1>3. /\ m \in WorkerStates /\ m.phase = p /\ m.run = n.run /\ m.loaded = n.loaded
      /\ ~m.checked /\ m.late = n.late /\ m.done = 0 /\ m.picked = n.picked
  BY <1>2, EnteredFacts
<1> HIDE DEF m
<1>4. OwnMemory(w) /\ worker'[w] = m
  BY <1>2, <1>3, UpdateShape DEF m
<1> QED BY <1>2, <1>3, <1>4

\* ... after a checkpoint that was passed, ...
LEMMA CheckShape ==
    ASSUME TypeOK, NEW w \in Workers, NEW s \in Statuses,
           worker' = [worker EXCEPT ![w] = [@ EXCEPT !.checked = TRUE, !.loaded = s]]
    PROVE  /\ OwnMemory(w)
           /\ worker'[w].phase = worker[w].phase /\ worker'[w].run = worker[w].run
           /\ worker'[w].loaded = s /\ worker'[w].late = worker[w].late
           /\ worker'[w].done = worker[w].done /\ worker'[w].picked = worker[w].picked
<1> DEFINE m == [worker[w] EXCEPT !.checked = TRUE, !.loaded = s]
<1>1. /\ m \in WorkerStates /\ m.phase = worker[w].phase /\ m.run = worker[w].run
      /\ m.loaded = s /\ m.late = worker[w].late
      /\ m.done = worker[w].done /\ m.picked = worker[w].picked
  BY DEF TypeOK, WorkerStates
<1>2. worker' = [worker EXCEPT ![w] = m]
  OBVIOUS
<1> HIDE DEF m
<1> QED BY <1>1, <1>2, UpdateShape

\* ... after a call, ...
LEMMA CallShape ==
    ASSUME TypeOK, NEW w \in Workers, Call(w)
    PROVE  /\ OwnMemory(w)
           /\ worker'[w].phase = worker[w].phase /\ worker'[w].run = worker[w].run
           /\ worker'[w].loaded = worker[w].loaded /\ worker'[w].late = Called(w).late
           /\ worker'[w].checked = worker[w].checked
           /\ worker'[w].calls = worker[w].calls + 1
           /\ worker'[w].done = worker[w].done /\ worker'[w].picked = worker[w].picked
<1> DEFINE n == Called(w)
<1>1. worker[w] \in WorkerStates
  BY DEF TypeOK
<1>2. /\ n \in WorkerStates /\ n.phase = worker[w].phase /\ n.run = worker[w].run
      /\ n.loaded = worker[w].loaded /\ n.checked = worker[w].checked
      /\ n.calls = worker[w].calls /\ n.done = worker[w].done /\ n.picked = worker[w].picked
  BY <1>1, CalledFacts
<1>3. worker[w].calls + 1 \in 0..MostCalls
  BY <1>1 DEF Call, WorkerStates, MostCalls
<1>4. worker' = [worker EXCEPT ![w] = [n EXCEPT !.calls = n.calls + 1]]
  BY DEF Call
<1> HIDE DEF n
<1> DEFINE m == [n EXCEPT !.calls = n.calls + 1]
<1>5. /\ m \in WorkerStates /\ m.phase = worker[w].phase /\ m.run = worker[w].run
      /\ m.loaded = worker[w].loaded /\ m.late = n.late /\ m.checked = worker[w].checked
      /\ m.calls = worker[w].calls + 1 /\ m.done = worker[w].done
      /\ m.picked = worker[w].picked
  BY <1>2, <1>3 DEF WorkerStates
<1> HIDE DEF m
<1>6. OwnMemory(w) /\ worker'[w] = m
  BY <1>4, <1>5, UpdateShape DEF m
<1> QED BY <1>5, <1>6 DEF n

\* ... after a paper, ...
LEMMA PaperShape ==
    ASSUME TypeOK, NEW w \in Workers, NEW p \in Phases, NextPaper(w, p)
    PROVE  /\ OwnMemory(w)
           /\ worker'[w].run = worker[w].run /\ worker'[w].loaded = worker[w].loaded
           /\ ~worker'[w].checked /\ worker'[w].late = worker[w].late
           /\ worker'[w].picked = worker[w].picked
           /\ \/ /\ worker[w].done + 1 = worker[w].picked
                 /\ worker'[w].phase = p /\ worker'[w].done = 0
              \/ /\ worker[w].done + 1 # worker[w].picked
                 /\ worker'[w].phase = worker[w].phase /\ worker'[w].done = worker[w].done + 1
<1>1. CASE worker[w].done + 1 = worker[w].picked
  <2>1. worker' = [worker EXCEPT ![w] = Entered(worker[w], p)]
    BY <1>1 DEF NextPaper, Enter
  <2> QED BY <1>1, <2>1, EnterShape
<1>2. CASE worker[w].done + 1 # worker[w].picked
  <2> DEFINE m == [worker[w] EXCEPT !.checked = FALSE, !.calls = 0, !.done = worker[w].done + 1]
  <2>1. worker' = [worker EXCEPT ![w] = m]
    BY <1>2 DEF NextPaper
  <2>2. worker[w] \in WorkerStates /\ worker[w].done + 1 \in Nat /\ 0 \in 0..MostCalls
    BY DEF TypeOK, WorkerStates, MostCalls
  <2> DEFINE d == worker[w].done + 1
             half == [worker[w] EXCEPT !.checked = FALSE, !.calls = 0]
  <2>4. /\ half \in WorkerStates /\ half.phase = worker[w].phase /\ half.run = worker[w].run
        /\ half.loaded = worker[w].loaded /\ ~half.checked /\ half.late = worker[w].late
        /\ half.picked = worker[w].picked
    BY <2>2 DEF WorkerStates
  <2>5. m = [half EXCEPT !.done = d]
    OBVIOUS
  <2> HIDE DEF half, d
  <2>3. /\ m \in WorkerStates /\ m.phase = worker[w].phase /\ m.run = worker[w].run
        /\ m.loaded = worker[w].loaded /\ ~m.checked /\ m.late = worker[w].late
        /\ m.picked = worker[w].picked /\ m.done = d
    BY <2>2, <2>4, <2>5 DEF WorkerStates, d
  <2> HIDE DEF m
  <2> QED BY <1>2, <2>1, <2>3, UpdateShape DEF d
<1> QED BY <1>1, <1>2

\* ... and after a search.
LEMMA SearchShape ==
    ASSUME TypeOK, NEW w \in Workers, Search(w)
    PROVE  /\ OwnMemory(w)
           /\ worker'[w].run = worker[w].run /\ worker'[w].loaded = worker[w].loaded
           /\ ~worker'[w].checked /\ worker'[w].late = worker[w].late
           /\ worker'[w].done = worker[w].done + 1
           /\ \E n \in 0..TopN : worker'[w].picked = worker[w].picked + n
           /\ worker'[w].phase = IF worker[w].done + 1 = Directions THEN "rank" ELSE "search"
<1> DEFINE p == IF worker[w].done + 1 = Directions THEN "rank" ELSE "search"
<1>1. PICK n \in 0..TopN :
         worker' = [worker EXCEPT ![w] = [@ EXCEPT !.checked = FALSE, !.calls = 0,
           !.done = worker[w].done + 1, !.picked = worker[w].picked + n, !.phase = p]]
  BY DEF Search
<1> DEFINE m == [worker[w] EXCEPT !.checked = FALSE, !.calls = 0, !.done = worker[w].done + 1,
                                  !.picked = worker[w].picked + n, !.phase = p]
<1>2. n \in Nat /\ p \in Phases
  BY DirectionsAssumption DEF Phases, Guarded
<1>3. worker' = [worker EXCEPT ![w] = m]
  BY <1>1
<1> HIDE DEF p
<1> DEFINE half == [worker[w] EXCEPT !.checked = FALSE, !.calls = 0, !.done = worker[w].done + 1]
<1>4. /\ worker[w] \in WorkerStates
      /\ worker[w].done + 1 \in Nat /\ worker[w].picked + n \in Nat
  BY <1>2 DEF TypeOK, WorkerStates
<1>5. /\ half \in WorkerStates /\ half.run = worker[w].run /\ half.loaded = worker[w].loaded
      /\ ~half.checked /\ half.late = worker[w].late /\ half.done = worker[w].done + 1
  <2> DEFINE d == worker[w].done + 1
             open == [worker[w] EXCEPT !.checked = FALSE, !.calls = 0]
  <2>1. 0 \in 0..MostCalls
    BY DEF MostCalls
  <2>2. /\ open \in WorkerStates /\ open.run = worker[w].run
        /\ open.loaded = worker[w].loaded /\ ~open.checked /\ open.late = worker[w].late
    BY <1>4, <2>1 DEF WorkerStates
  <2>3. half = [open EXCEPT !.done = d]
    OBVIOUS
  <2>4. d \in Nat
    BY <1>4
  <2> HIDE DEF half, open, d
  <2>5. half.done = d
    BY <2>2, <2>3 DEF WorkerStates
  <2>6. /\ half \in WorkerStates /\ half.run = worker[w].run /\ half.loaded = worker[w].loaded
        /\ ~half.checked /\ half.late = worker[w].late
    BY <2>2, <2>3, <2>4 DEF WorkerStates
  <2> QED BY <2>5, <2>6 DEF d
<1>6. m = [half EXCEPT !.picked = worker[w].picked + n, !.phase = p]
  OBVIOUS
<1> HIDE DEF half, m
<1>7. /\ m \in WorkerStates /\ m.run = worker[w].run /\ m.loaded = worker[w].loaded
      /\ ~m.checked /\ m.late = worker[w].late /\ m.done = worker[w].done + 1
      /\ m.picked = worker[w].picked + n /\ m.phase = p
  BY <1>2, <1>4, <1>5, <1>6 DEF WorkerStates
<1>8. OwnMemory(w) /\ worker'[w] = m
  BY <1>3, <1>7, UpdateShape
<1>9. \E k \in 0..TopN : worker'[w].picked = worker[w].picked + k
  BY <1>7, <1>8
<1> QED BY <1>7, <1>8, <1>9 DEF p

-----------------------------------------------------------------------------
(* Type correctness. *)

Moves(w) == Pipeline(w) \/ Raise(w)

(* A step of worker w neither queues its run nor cancels it. *)
OwnStatus(w) == \A q \in Runs :
    \/ status'[q] = status[q]
    \/ q = worker[w].run /\ status'[q] \notin {"absent", "queued", "cancelled"}

Assigned == {"running", "waiting_for_login", "success", "partial", "failed"}
LEMMA SetStatusShape ==
    ASSUME TypeOK, NEW w \in Workers, NEW s \in Assigned, SetStatus(w, s)
    PROVE  status' \in [Runs -> Statuses] /\ OwnStatus(w)
  BY DEF TypeOK, SetStatus, OwnStatus, Assigned, Statuses, Working, Ended

LEMMA ProgressShape ==
    ASSUME TypeOK, NEW w \in Workers, Progress(w)
    PROVE  status' \in [Runs -> Statuses] /\ OwnStatus(w)
<1>1. CASE SetStatus(w, "running")
  BY <1>1, SetStatusShape DEF Assigned
<1>2. CASE UNCHANGED status
  BY <1>2 DEF TypeOK, OwnStatus
<1> QED BY <1>1, <1>2 DEF Progress

\* What a step of worker w is to the memory and to the status column.
LEMMA MoveShape ==
    ASSUME TypeOK, Busy, NEW w \in Workers, Moves(w)
    PROVE  /\ worker[w].run \in Runs /\ OwnMemory(w)
           /\ status' \in [Runs -> Statuses] /\ OwnStatus(w)
<1> USE DEF Phases, Guarded, Calling
<1>1. worker[w].phase # "idle" /\ worker[w].run \in Runs
  <2>1. CASE Raise(w)
    BY <2>1 DEF Raise, Busy
  <2>2. CASE Pipeline(w)
    BY <2>1, <2>2 DEF Pipeline, Checkpoint, Call, Plan, VisitHome, ReuseLogin, AskLogin,
         OpenSignIn, LoginDone, Search, Rank, Fetch, Analyse, Finish, Close, LoginTimeout,
         RecordFailure, At, Busy
  <2> QED BY <2>1, <2>2 DEF Moves
<1>2. status[worker[w].run] \in Statuses
  BY <1>1 DEF TypeOK
<1>3. ASSUME status' = status PROVE status' \in [Runs -> Statuses] /\ OwnStatus(w)
  BY <1>3 DEF TypeOK, OwnStatus
<1>4. CASE Checkpoint(w)
  BY <1>1, <1>2, <1>3, <1>4, HaltShape, CheckShape DEF Checkpoint
<1>5. CASE Call(w)
  BY <1>1, <1>5, CallShape, ProgressShape DEF Call
<1>6. CASE Plan(w) \/ ReuseLogin(w)
  BY <1>1, <1>6, EnterShape, ProgressShape, SetStatusShape
     DEF Plan, ReuseLogin, Enter, Assigned
<1>7. CASE VisitHome(w) \/ OpenSignIn(w)
  BY <1>1, <1>3, <1>7, EnterShape DEF VisitHome, OpenSignIn
<1>8. CASE AskLogin(w) \/ LoginDone(w)
  BY <1>1, <1>8, HoldShape, SetStatusShape DEF AskLogin, LoginDone, Assigned, Statuses, Working
<1>9. CASE Search(w)
  BY <1>1, <1>9, SearchShape, SetStatusShape DEF Search, Assigned
<1>10. CASE Rank(w)
  BY <1>1, <1>10, EnterShape, SetStatusShape DEF Rank, Enter, Assigned
<1>11. CASE Fetch(w) \/ Analyse(w)
  BY <1>1, <1>11, PaperShape, ProgressShape DEF Fetch, Analyse
<1>12. CASE Finish(w)
  BY <1>1, <1>12, HoldShape, SetStatusShape DEF Finish, Verdict, Assigned, Statuses, Ended
<1>13. CASE Raise(w)
  BY <1>1, <1>2, <1>3, <1>13, HaltShape, HoldShape DEF Raise
<1>14. CASE Close(w)
  BY <1>1, <1>3, <1>14, HaltShape DEF Close
<1>15. CASE RecordFailure(w)
  BY <1>1, <1>15, HaltShape, SetStatusShape DEF RecordFailure, Assigned
<1> QED
  BY <1>4, <1>5, <1>6, <1>7, <1>8, <1>9, <1>10, <1>11, <1>12, <1>13, <1>14, <1>15
     DEF Moves, Pipeline, LoginTimeout

\* The columns of the papers and the report, and the bound on deaths.
LEMMA RowsType ==
    ASSUME TypeOK, Busy, NEW w \in Workers, Moves(w)
    PROVE  links' \in [Runs -> Seq(Analyses)] /\ report' \in [Runs -> BOOLEAN]
           /\ crashes' = crashes
<1>1. worker[w].run \in Runs
  BY MoveShape
<1>2. CASE Rank(w)
  <2>1. [i \in 1..worker[w].picked |-> "pending"] \in Seq(Analyses)
    BY DEF TypeOK, WorkerStates, Analyses
  <2> QED BY <1>2, <2>1 DEF Rank, TypeOK
<1>3. CASE Analyse(w)
  <2> DEFINE r == worker[w].run
             i == worker[w].done + 1
  <2>1. PICK result \in Analyses : links' = [links EXCEPT ![r][i] = result]
    BY <1>3 DEF Analyse, Analyses
  <2>2. [links[r] EXCEPT ![i] = result] \in Seq(Analyses)
    <3>1. links[r] \in Seq(Analyses)
      BY <1>1 DEF TypeOK
    <3>2. CASE i \in 1..Len(links[r])
      BY <3>1, <3>2, ExceptSeq
    <3>3. CASE i \notin 1..Len(links[r])
      <4>1. [links[r] EXCEPT ![i] = result] = links[r]
        BY <3>1, <3>3
      <4> QED BY <3>1, <4>1
    <3> QED BY <3>2, <3>3
  <2> QED BY <1>1, <1>3, <2>1, <2>2 DEF Analyse, TypeOK
<1>4. CASE Finish(w)
  BY <1>4 DEF Finish, TypeOK
<1>5. CASE UNCHANGED <<links, report, crashes>>
  BY <1>5 DEF TypeOK
<1> QED
  BY <1>2, <1>3, <1>4, <1>5 DEF Moves, Pipeline, Checkpoint, Call, Plan, VisitHome, ReuseLogin,
     AskLogin, OpenSignIn, LoginDone, Search, Fetch, Close, LoginTimeout, RecordFailure, Raise

LEMMA Inits == Init => TypeOK /\ Busy
<1> SUFFICES ASSUME Init PROVE TypeOK /\ Busy
  OBVIOUS
<1>1. <<>> \in Seq(Analyses)
  OBVIOUS
<1> QED BY <1>1, RestingFacts, CrashAssumption DEF Init, TypeOK, Busy, Statuses

\* A worker that takes a run up, and one that dies.
LEMMA ClaimShape ==
    ASSUME TypeOK, NEW w \in Workers, NEW r \in Runs, Claim(w, r)
    PROVE  /\ worker' \in [Workers -> WorkerStates] /\ status[r] = "queued"
           /\ status' = [status EXCEPT ![r] = "running"]
           /\ \A v \in Workers \ {w} : worker'[v] = worker[v]
           /\ worker'[w].phase = "plan" /\ worker'[w].run = r /\ worker'[w].loaded = "running"
           /\ ~worker'[w].checked /\ worker'[w].late = 0
           /\ worker'[w].done = 0 /\ worker'[w].picked = 0
           /\ UNCHANGED <<links, report, crashes>>
<1> DEFINE m == Held(r, "plan", "running")
<1>1. /\ m \in WorkerStates /\ m.phase = "plan" /\ m.run = r /\ m.loaded = "running"
      /\ ~m.checked /\ m.late = 0 /\ m.done = 0 /\ m.picked = 0
  <2>1. "plan" \in Phases /\ "running" \in Statuses
    BY DEF Phases, Guarded, Statuses, Working
  <2> QED BY <2>1, HeldFacts
<1>2. worker' = [worker EXCEPT ![w] = m]
  BY DEF Claim, Hold
<1> HIDE DEF m
<1> QED BY <1>1, <1>2 DEF Claim, Claimable, TypeOK

(* Type correctness: the columns and the workers' memory keep their types, *)
(* through every stage of the pipeline, the API's requests and the deaths  *)
(* of workers.                                                             *)
THEOREM TypeCorrect == Spec => [](TypeOK /\ Busy)
<1>1. Init => TypeOK /\ Busy
  BY Inits
<1>2. TypeOK /\ Busy /\ [Next]_vars => TypeOK' /\ Busy'
  <2> SUFFICES ASSUME TypeOK, Busy, [Next]_vars PROVE TypeOK' /\ Busy'
    OBVIOUS
  <2>0. ASSUME NEW w \in Workers, OwnMemory(w), worker[w].run \in Runs
        PROVE  worker' \in [Workers -> WorkerStates] /\ Busy'
    BY <2>0, RestingFacts DEF OwnMemory, Busy
  <2>1. ASSUME NEW r \in Runs, Create(r) \/ Cancel(r) PROVE TypeOK' /\ Busy'
    BY <2>1 DEF Create, Cancel, TypeOK, Busy, Statuses, Ended
  <2>2. ASSUME NEW w \in Workers, NEW r \in Runs, Claim(w, r) PROVE TypeOK' /\ Busy'
    <3>1. Busy'
      BY <2>2, ClaimShape DEF Busy
    <3>2. status' \in [Runs -> Statuses]
      BY <2>2, ClaimShape DEF TypeOK, Statuses, Working
    <3> QED BY <2>2, <3>1, <3>2, ClaimShape DEF TypeOK
  <2>3. ASSUME NEW w \in Workers, Crash(w) PROVE TypeOK' /\ Busy'
    <3>1. OwnMemory(w) /\ worker[w].run \in Runs
      BY <2>3, HaltShape DEF Crash, Busy
    <3> QED BY <2>0, <2>3, <3>1, CrashAssumption DEF Crash, TypeOK
  <2>4. ASSUME NEW w \in Workers, Moves(w) PROVE TypeOK' /\ Busy'
    BY <2>0, <2>4, MoveShape, RowsType DEF TypeOK
  <2>5. CASE UNCHANGED vars
    BY <2>5 DEF vars, TypeOK, Busy
  <2> QED
    BY <2>1, <2>2, <2>3, <2>4, <2>5 DEF Next, Moves
<1> QED
  BY <1>1, <1>2, PTL DEF Spec

-----------------------------------------------------------------------------
(* Ownership of a run. *)

(* A run is executed by one worker at a time, and only once claimed: any   *)
(* number of workers may poll the queue.                                   *)
THEOREM ExclusiveRuns == Spec => []SingleWorker
<1>1. Init => SingleWorker
  BY DEF Init, SingleWorker, Resting
<1>2. TypeOK /\ Busy /\ SingleWorker /\ [Next]_vars => SingleWorker'
  <2> SUFFICES ASSUME TypeOK, Busy, SingleWorker, [Next]_vars PROVE SingleWorker'
    OBVIOUS
  <2>0. ASSUME NEW v \in Workers, worker[v].run # None PROVE worker[v].run \in Runs
    BY <2>0 DEF TypeOK, WorkerStates
  <2>1. ASSUME NEW r \in Runs, Create(r) \/ Cancel(r) PROVE SingleWorker'
    BY <2>0, <2>1 DEF Create, Cancel, SingleWorker, TypeOK
  <2>2. ASSUME NEW w \in Workers, NEW r \in Runs, Claim(w, r) PROVE SingleWorker'
    <3>1. status' = [status EXCEPT ![r] = "running"] /\ status[r] = "queued"
          /\ worker'[w].run = r /\ \A v \in Workers \ {w} : worker'[v] = worker[v]
      BY <2>2, ClaimShape
    <3>2. \A v \in Workers : worker[v].run # None => worker[v].run # r
      BY <3>1 DEF SingleWorker
    <3>3. \A v \in Workers \ {w} : worker'[v].run # None =>
             status'[worker'[v].run] \notin {"absent", "queued"}
      BY <2>0, <3>1, <3>2 DEF SingleWorker, TypeOK
    <3>4. status'[r] = "running"
      BY <3>1 DEF TypeOK
    <3> QED BY <3>1, <3>2, <3>3, <3>4, NoneAssumption DEF SingleWorker
  <2>3. ASSUME NEW w \in Workers, Moves(w) PROVE SingleWorker'
    BY <2>0, <2>3, MoveShape, RestingFacts DEF OwnMemory, OwnStatus, SingleWorker
  <2>4. ASSUME NEW w \in Workers, Crash(w) PROVE SingleWorker'
    BY <2>0, <2>4, HaltShape, RestingFacts DEF Crash, OwnMemory, SingleWorker
  <2>5. CASE UNCHANGED vars
    BY <2>5 DEF vars, SingleWorker
  <2> QED
    BY <2>1, <2>2, <2>3, <2>4, <2>5 DEF Next, Moves
<1> QED
  BY <1>1, <1>2, TypeCorrect, PTL DEF Spec

-----------------------------------------------------------------------------
(* The outcome of a run and its papers. *)

OutcomeOf(r) ==
    /\ report[r] => \A i \in DOMAIN links[r] : links[r][i] # "pending"
    /\ status[r] \in {"success", "partial"} => report[r]
    /\ status[r] = "success" =>
           Len(links[r]) = Directions * TopN /\ \A i \in DOMAIN links[r] : links[r][i] = "success"
    /\ status[r] = "partial" =>
           Len(links[r]) < Directions * TopN \/ \E i \in DOMAIN links[r] : links[r][i] = "failed"
    /\ report[r] => status[r] \in Ended

(* How far a worker that has not stored the report is with the papers of   *)
(* its run.                                                                *)
Early == {"plan", "home", "signin", "login", "waiting"}
Stage(w) ==
    LET m == worker[w]
        all == links[m.run] IN
    m.phase \notin {"idle", "closing", "failing"} =>
      /\ ~report[m.run] /\ status[m.run] \in Working \cup {"cancelled"} /\ m.loaded \in Working
      /\ m.phase \in Early => m.done = 0 /\ m.picked = 0
      /\ m.phase = "search" => m.done < Directions /\ m.picked <= m.done * TopN
      /\ m.phase = "rank" => m.picked <= Directions * TopN
      /\ m.phase \in {"fetch", "analyse"} =>
             m.picked <= Directions * TopN /\ Len(all) = m.picked /\ m.done < m.picked
      /\ m.phase = "analyse" => \A i \in 1..m.done : all[i] # "pending"
      /\ m.phase = "report" =>
             Len(all) <= Directions * TopN /\ \A i \in DOMAIN all : all[i] # "pending"

(* A step of worker w leaves the rows of the other runs alone. *)
OwnRows(w) == \A q \in Runs \ {worker[w].run} :
    status'[q] = status[q] /\ links'[q] = links[q] /\ report'[q] = report[q]

LEMMA SearchBound ==
    ASSUME NEW a \in Nat, NEW b \in Nat, NEW t \in Nat, NEW n \in 0..t, b <= a * t
    PROVE  b + n <= (a + 1) * t /\ b + n \in Nat
  OBVIOUS

LEMMA RowsMove ==
    ASSUME TypeOK, Busy, NEW w \in Workers, Moves(w)
    PROVE  OwnRows(w)
<1>1. worker[w].run \in Runs /\ OwnStatus(w)
  BY MoveShape
<1>2. \A q \in Runs \ {worker[w].run} : links'[q] = links[q] /\ report'[q] = report[q]
  BY <1>1 DEF Moves, Pipeline, Checkpoint, Call, Plan, VisitHome, ReuseLogin, AskLogin, OpenSignIn,
       LoginDone, Search, Rank, Fetch, Analyse, Finish, Close, LoginTimeout, RecordFailure, Raise,
       TypeOK
<1> QED BY <1>1, <1>2 DEF OwnRows, OwnStatus

\* The stage of the worker that moves, and the outcome of its run.
LEMMA StageMove ==
    ASSUME TypeOK, Busy, NEW w \in Workers, Moves(w), Stage(w),
           NEW r \in Runs, r = worker[w].run, OutcomeOf(r)
    PROVE  Stage(w)' /\ OutcomeOf(r)'
<1> DEFINE open == Working \cup {"cancelled"}
           early == worker[w].phase \notin {"idle", "closing", "failing"}
<1>1. r = worker[w].run /\ worker[w] \in WorkerStates
  BY DEF TypeOK
<1> USE <1>1
<1>2. early => ~report[r] /\ status[r] \in open /\ worker[w].loaded \in Working
  BY DEF Stage
<1>3. ASSUME early, NEW s \in Working, SetStatus(w, s) PROVE status'[r] \in open
  BY <1>1, <1>2, <1>3 DEF SetStatus, TypeOK
<1>4. ASSUME early, Progress(w) PROVE status'[r] \in open
  BY <1>2, <1>3, <1>4 DEF Progress, Working
<1>5. ASSUME early, status'[r] \in open, report' = report PROVE OutcomeOf(r)'
  <2>1. ~report'[r] /\ status'[r] \notin {"success", "partial"}
    BY <1>2, <1>5 DEF Working
  <2> QED BY <2>1 DEF OutcomeOf
<1>6. ASSUME UNCHANGED <<status, links, report>> PROVE OutcomeOf(r)'
  BY <1>6 DEF OutcomeOf
<1>7. ASSUME worker'[w].phase \in {"idle", "closing", "failing"} PROVE Stage(w)'
  BY <1>7 DEF Stage
<1>8. CASE Checkpoint(w)
  <2>1. UNCHANGED <<status, links, report>> /\ early
    BY <1>8 DEF Checkpoint, Guarded
  <2>2. CASE Halt(w)
    BY <1>6, <1>7, <2>1, <2>2, HaltShape, RestingFacts
  <2>3. CASE status[r] # "cancelled" /\ worker' = [worker EXCEPT ![w] = [@ EXCEPT
                 !.checked = TRUE, !.loaded = status[r]]]
    <3>1. /\ worker'[w].phase = worker[w].phase /\ worker'[w].run = r
          /\ worker'[w].loaded = status[r]
          /\ worker'[w].done = worker[w].done /\ worker'[w].picked = worker[w].picked
      <4>1. status[r] \in Statuses
        BY DEF TypeOK
      <4> QED BY <2>3, <4>1, CheckShape
    <3> QED BY <1>2, <1>6, <2>1, <2>3, <3>1 DEF Stage
  <2> QED BY <1>8, <2>2, <2>3 DEF Checkpoint
<1>9. CASE Call(w)
  <2>1. UNCHANGED <<links, report>> /\ early /\ status'[r] \in open
    BY <1>4, <1>9 DEF Call, Calling
  <2>2. /\ worker'[w].phase = worker[w].phase /\ worker'[w].run = r
        /\ worker'[w].loaded = worker[w].loaded
        /\ worker'[w].done = worker[w].done /\ worker'[w].picked = worker[w].picked
    BY <1>9, CallShape
  <2> QED BY <1>2, <1>5, <2>1, <2>2 DEF Stage
<1>10. ASSUME NEW p \in {"home", "signin", "waiting", "search"}, worker[w].phase \in Early,
              NEW n \in {worker[w], Called(w)}, worker' = [worker EXCEPT ![w] = Entered(n, p)],
              status'[r] \in open, UNCHANGED <<links, report>>
       PROVE  Stage(w)' /\ OutcomeOf(r)'
  <2>1. early /\ p \in Phases
    BY <1>10 DEF Early, Phases, Guarded
  <2>2. /\ worker'[w].phase = p /\ worker'[w].run = r /\ worker'[w].loaded = worker[w].loaded
        /\ worker'[w].done = 0 /\ worker'[w].picked = worker[w].picked
    BY <1>10, <2>1, EnterShape
  <2>3. worker[w].picked = 0
    BY <1>10, <2>1 DEF Stage
  <2> QED BY <1>2, <1>5, <1>10, <2>1, <2>2, <2>3, DirectionsAssumption DEF Stage
<1>11. CASE Plan(w)
  BY <1>4, <1>10, <1>11 DEF Plan, At, Enter, Early
<1>12. CASE VisitHome(w)
  BY <1>2, <1>10, <1>12 DEF VisitHome, Early
<1>13. CASE ReuseLogin(w)
  BY <1>3, <1>10, <1>13 DEF ReuseLogin, At, Enter, Early, Working
<1>14. CASE OpenSignIn(w)
  BY <1>2, <1>10, <1>14 DEF OpenSignIn, Early
<1>15. ASSUME NEW p \in {"login", "search"}, NEW s \in Working, SetStatus(w, s), Hold(w, r, p, s),
              early, UNCHANGED <<links, report>>
       PROVE  Stage(w)' /\ OutcomeOf(r)'
  <2>1. p \in Phases /\ s \in Statuses
    BY <1>15 DEF Phases, Guarded, Statuses
  <2>2. /\ worker'[w].phase = p /\ worker'[w].run = r /\ worker'[w].loaded = s
        /\ worker'[w].done = 0 /\ worker'[w].picked = 0
    BY <1>15, <2>1, HoldShape
  <2>3. status'[r] \in open
    BY <1>3, <1>15
  <2> QED BY <1>2, <1>5, <1>15, <2>2, <2>3, DirectionsAssumption DEF Stage
<1>16. CASE AskLogin(w) \/ LoginDone(w)
  BY <1>15, <1>16 DEF AskLogin, LoginDone, At, Working
<1>17. CASE Search(w)
  <2>1. /\ worker'[w].run = r /\ worker'[w].loaded = worker[w].loaded
        /\ worker'[w].done = worker[w].done + 1
        /\ worker'[w].phase = IF worker[w].done + 1 = Directions THEN "rank" ELSE "search"
    BY <1>17, SearchShape
  <2>2. PICK n \in 0..TopN : worker'[w].picked = worker[w].picked + n
    BY <1>17, SearchShape
  <2>3. /\ early /\ worker[w].done < Directions /\ worker[w].picked <= worker[w].done * TopN
        /\ worker[w].done \in Nat /\ worker[w].picked \in Nat
    BY <1>1, <1>17 DEF Search, At, Stage, WorkerStates
  <2>4. worker'[w].picked <= worker'[w].done * TopN
    BY <2>1, <2>2, <2>3, SearchBound, DirectionsAssumption
  <2>5. worker'[w].phase = "search" => worker'[w].done < Directions
    BY <2>1, <2>3, DirectionsAssumption
  <2>6. worker'[w].phase = "rank" => worker'[w].done = Directions
    BY <2>1
  <2>7. worker'[w].phase \in {"search", "rank"}
    BY <2>1
  <2>8. status'[r] \in open /\ UNCHANGED <<links, report>>
    BY <1>3, <1>17, <2>3 DEF Search, Working
  <2>9. ~report'[r] /\ worker'[w].loaded \in Working
    BY <1>2, <2>1, <2>3, <2>8
  <2> QED BY <1>5, <2>1, <2>3, <2>4, <2>5, <2>6, <2>7, <2>8, <2>9 DEF Stage, Early
<1>18. CASE Rank(w)
  <2>1. early /\ status'[r] \in open /\ report' = report
    BY <1>3, <1>18 DEF Rank, Working
  <2>2. worker[w].picked <= Directions * TopN /\ worker[w].picked \in Nat
    BY <1>1, <1>18 DEF Rank, Stage, WorkerStates
  <2>3. links'[r] = [i \in 1..worker[w].picked |-> "pending"]
    BY <1>1, <1>18 DEF Rank, TypeOK
  <2>4. Len(links'[r]) = worker[w].picked /\ DOMAIN links'[r] = 1..worker[w].picked
    BY <2>2, <2>3
  <2>5. ASSUME NEW p \in {"report", "fetch", "analyse"}, Enter(w, p)
        PROVE  /\ worker'[w].phase = p /\ worker'[w].run = r /\ worker'[w].loaded \in Working
               /\ worker'[w].done = 0 /\ worker'[w].picked = worker[w].picked
    <3>1. p \in Phases
      BY <2>5 DEF Phases, Guarded
    <3> QED BY <1>2, <2>1, <2>5, <3>1, EnterShape DEF Enter
  <2>6. CASE worker[w].picked = 0
    <3>1. Enter(w, "report")
      BY <1>18, <2>6 DEF Rank
    <3> QED BY <1>2, <1>5, <2>1, <2>2, <2>4, <2>5, <2>6, <3>1 DEF Stage, Early
  <2>7. CASE worker[w].picked # 0
    <3>1. Enter(w, "fetch") \/ Enter(w, "analyse")
      BY <1>18, <2>7 DEF Rank
    <3> QED BY <1>2, <1>5, <2>1, <2>2, <2>4, <2>5, <2>7, <3>1 DEF Stage, Early
  <2> QED BY <2>6, <2>7
<1>19. CASE Fetch(w)
  <2>1. /\ early /\ status'[r] \in open /\ UNCHANGED <<links, report>>
        /\ NextPaper(w, "analyse") /\ "analyse" \in Phases
    BY <1>4, <1>19 DEF Fetch, At, Phases, Guarded
  <2>2. /\ worker[w].phase = "fetch" /\ worker[w].picked <= Directions * TopN
        /\ Len(links[r]) = worker[w].picked /\ worker[w].done < worker[w].picked
        /\ worker[w].done \in Nat /\ worker[w].picked \in Nat
    BY <1>1, <1>19 DEF Fetch, At, Stage, WorkerStates
  <2> QED BY <1>2, <1>5, <2>1, <2>2, PaperShape DEF Stage, Early
<1>20. CASE Analyse(w)
  <2>1. /\ early /\ status'[r] \in open /\ report' = report
        /\ NextPaper(w, "report") /\ "report" \in Phases
    BY <1>4, <1>20 DEF Analyse, At, Phases, Guarded
  <2> DEFINE d == worker[w].done
  <2>2. /\ worker[w].phase = "analyse" /\ worker[w].picked <= Directions * TopN
        /\ Len(links[r]) = worker[w].picked /\ d < worker[w].picked
        /\ d \in Nat /\ worker[w].picked \in Nat
        /\ \A i \in 1..d : links[r][i] # "pending"
    BY <1>1, <1>20 DEF Analyse, At, Stage, WorkerStates
  <2>3. PICK result \in {"success", "failed"} : links' = [links EXCEPT ![r][d + 1] = result]
    BY <1>20 DEF Analyse
  <2>4. links'[r] = [links[r] EXCEPT ![d + 1] = result] /\ links[r] \in Seq(Analyses)
    BY <1>1, <2>3 DEF TypeOK
  <2>5. /\ Len(links'[r]) = worker[w].picked /\ DOMAIN links'[r] = 1..worker[w].picked
        /\ \A i \in 1..(d + 1) : links'[r][i] # "pending"
    BY <2>2, <2>4
  <2>6. ~report'[r] /\ worker'[w].run = r /\ worker'[w].loaded \in Working
        /\ worker'[w].picked = worker[w].picked
    BY <1>2, <2>1, PaperShape
  <2>7. CASE d + 1 = worker[w].picked /\ worker'[w].phase = "report"
    <3>1. \A i \in DOMAIN links'[r] : links'[r][i] # "pending"
      BY <2>5, <2>7
    <3> QED BY <1>5, <2>1, <2>2, <2>5, <2>6, <2>7, <3>1 DEF Stage, Early
  <2>8. CASE /\ d + 1 # worker[w].picked
             /\ worker'[w].phase = "analyse" /\ worker'[w].done = d + 1
    BY <1>5, <2>1, <2>2, <2>5, <2>6, <2>8 DEF Stage, Early
  <2> QED BY <2>1, <2>2, <2>7, <2>8, PaperShape
<1>21. CASE Finish(w)
  <2>1. status' = [status EXCEPT ![r] = Verdict(r)]
    BY <1>2, <1>21 DEF Finish, SetStatus, Verdict, Working, At
  <2>2. status'[r] = Verdict(r) /\ report'[r] /\ links' = links
    BY <1>1, <1>21, <2>1 DEF Finish, TypeOK
  <2>3. worker'[w].phase = "closing"
    BY <1>21, HoldShape DEF Finish, Verdict, Phases, Statuses, Ended
  <2>4. Len(links[r]) <= Directions * TopN /\ \A i \in DOMAIN links[r] : links[r][i] # "pending"
    BY <1>21 DEF Finish, At, Stage
  <2>5. /\ links[r] \in Seq(Analyses) /\ Len(links[r]) \in Nat
        /\ \A i \in DOMAIN links[r] : links[r][i] \in Analyses
    BY <1>1 DEF TypeOK
  <2>6. Directions * TopN \in Nat
    BY DirectionsAssumption
  <2>7. OutcomeOf(r)'
    BY <2>2, <2>4, <2>5, <2>6 DEF OutcomeOf, Verdict, Analyses, Ended
  <2> QED BY <1>7, <2>3, <2>7
<1>22. CASE Raise(w) \/ Close(w)
  <2>1. UNCHANGED <<status, links, report>> /\ (Halt(w) \/ Hold(w, r, "failing", status[r]))
    BY <1>22 DEF Raise, Close
  <2>2. worker'[w].phase \in {"idle", "failing"}
    <3>1. status[r] \in Statuses /\ "failing" \in Phases
      BY DEF TypeOK, Phases
    <3> QED BY <2>1, <3>1, HaltShape, HoldShape, RestingFacts
  <2> QED BY <1>6, <1>7, <2>1, <2>2
<1>23. CASE RecordFailure(w)
  <2>1. status'[r] \in {status[r], "failed"} /\ UNCHANGED <<links, report>> /\ Halt(w)
    BY <1>1, <1>23 DEF RecordFailure, SetStatus, TypeOK
  <2>2. worker'[w].phase = "idle"
    BY <2>1, HaltShape, RestingFacts
  <2>3. OutcomeOf(r)'
    BY <2>1 DEF OutcomeOf, Ended
  <2> QED BY <1>7, <2>2, <2>3
<1> QED
  BY <1>8, <1>9, <1>11, <1>12, <1>13, <1>14, <1>16, <1>17, <1>18, <1>19, <1>20, <1>21, <1>22,
     <1>23 DEF Moves, Pipeline, LoginTimeout

Papers ==
    /\ \A r \in Runs : OutcomeOf(r)
    /\ \A w \in Workers : Stage(w)

(* The status of a run agrees with what became of its papers, whatever was *)
(* cancelled, raised or interrupted on the way, and also when the last     *)
(* commit succeeds and its reply or the reading that follows fails.        *)
(* Inductive with the stage of each worker: how many papers its loops have *)
(* left behind.                                                            *)
THEOREM OutcomeIsHonest == Spec => []OutcomeMatchesPapers
<1>1. Init => Papers
  BY DEF Init, Papers, OutcomeOf, Stage, Resting
<1>2. TypeOK /\ Busy /\ SingleWorker /\ Papers /\ [Next]_vars => Papers'
  <2> SUFFICES ASSUME TypeOK, Busy, SingleWorker, Papers, [Next]_vars PROVE Papers'
    OBVIOUS
  <2>0. ASSUME NEW v \in Workers, worker[v].phase # "idle"
        PROVE  worker[v].run \in Runs /\ worker[v].run # None
    BY <2>0, NoneAssumption DEF Busy
  <2>1. ASSUME NEW r \in Runs, Create(r) PROVE Papers'
    <3>1. \A q \in Runs : OutcomeOf(q)'
      BY <2>1 DEF Create, Papers, OutcomeOf, TypeOK, Ended
    <3>2. ASSUME NEW v \in Workers PROVE Stage(v)'
      <4>1. CASE worker[v].phase = "idle"
        BY <2>1, <4>1 DEF Create, Stage
      <4>2. CASE worker[v].phase # "idle"
        <5>1. worker[v].run \in Runs \ {r} /\ Stage(v)
          BY <2>0, <2>1, <4>2 DEF Create, SingleWorker, Papers
        <5> QED BY <2>1, <5>1 DEF Create, Stage, TypeOK
      <4> QED BY <4>1, <4>2
    <3> QED BY <3>1, <3>2 DEF Papers
  <2>2. ASSUME NEW r \in Runs, Cancel(r) PROVE Papers'
    <3>1. \A q \in Runs : OutcomeOf(q)'
      BY <2>2 DEF Cancel, Papers, OutcomeOf, TypeOK, Ended
    <3>2. ASSUME NEW v \in Workers PROVE Stage(v)'
      <4>1. CASE worker[v].phase = "idle"
        BY <2>2, <4>1 DEF Cancel, Stage
      <4>2. CASE worker[v].phase # "idle"
        <5>1. worker[v].run \in Runs /\ Stage(v)
          BY <2>0, <4>2 DEF Papers
        <5> QED BY <2>2, <5>1 DEF Cancel, Stage, TypeOK
      <4> QED BY <4>1, <4>2
    <3> QED BY <3>1, <3>2 DEF Papers
  <2>3. ASSUME NEW w \in Workers, NEW r \in Runs, Claim(w, r) PROVE Papers'
    <3>1. /\ status' = [status EXCEPT ![r] = "running"] /\ status[r] = "queued"
          /\ UNCHANGED <<links, report>> /\ \A v \in Workers \ {w} : worker'[v] = worker[v]
          /\ worker'[w].run = r /\ worker'[w].loaded = "running" /\ worker'[w].phase = "plan"
          /\ worker'[w].done = 0 /\ worker'[w].picked = 0
      BY <2>3, ClaimShape
    <3>2. ~report[r]
      BY <3>1 DEF Papers, OutcomeOf, Ended
    <3>3. \A q \in Runs : OutcomeOf(q)'
      BY <3>1, <3>2 DEF Papers, OutcomeOf, TypeOK
    <3>4. Stage(w)'
      BY <3>1, <3>2 DEF Stage, Working, TypeOK
    <3>5. ASSUME NEW v \in Workers \ {w} PROVE Stage(v)'
      <4>1. CASE worker[v].phase = "idle"
        BY <3>1, <4>1 DEF Stage
      <4>2. CASE worker[v].phase # "idle"
        <5>1. worker[v].run \in Runs \ {r} /\ Stage(v)
          BY <2>0, <3>1, <4>2 DEF SingleWorker, Papers
        <5> QED BY <3>1, <5>1 DEF Stage, TypeOK
      <4> QED BY <4>1, <4>2
    <3> QED BY <3>3, <3>4, <3>5 DEF Papers
  <2>4. ASSUME NEW w \in Workers, Moves(w) PROVE Papers'
    <3>1. worker[w].run \in Runs /\ OwnMemory(w) /\ OwnRows(w)
      BY <2>4, MoveShape, RowsMove
    <3>2. Stage(w)' /\ \A r \in Runs : r = worker[w].run => OutcomeOf(r)'
      <4> SUFFICES ASSUME NEW r \in Runs, r = worker[w].run PROVE Stage(w)' /\ OutcomeOf(r)'
        BY <3>1
      <4> QED BY <2>4, StageMove DEF Papers
    <3>3. ASSUME NEW q \in Runs \ {worker[w].run} PROVE OutcomeOf(q)'
      BY <3>1 DEF OwnRows, Papers, OutcomeOf
    <3>4. ASSUME NEW v \in Workers \ {w} PROVE Stage(v)'
      <4>1. worker'[v] = worker[v] /\ Stage(v)
        BY <3>1 DEF OwnMemory, Papers
      <4>2. CASE worker[v].phase = "idle"
        BY <4>1, <4>2 DEF Stage
      <4>3. CASE worker[v].phase # "idle"
        <5>1. worker[v].run \in Runs \ {worker[w].run}
          BY <2>0, <4>3 DEF SingleWorker
        <5> QED BY <3>1, <4>1, <5>1 DEF OwnRows, Stage
      <4> QED BY <4>2, <4>3
    <3> QED BY <3>2, <3>3, <3>4 DEF Papers
  <2>5. ASSUME NEW w \in Workers, Crash(w) PROVE Papers'
    <3>1. OwnMemory(w) /\ worker'[w] = Resting
      BY <2>5, HaltShape DEF Crash
    <3>2. UNCHANGED <<status, links, report>>
      BY <2>5 DEF Crash
    <3>3. \A q \in Runs : OutcomeOf(q)'
      BY <3>2 DEF Papers, OutcomeOf
    <3>4. ASSUME NEW v \in Workers \ {w} PROVE Stage(v)'
      <4>1. worker'[v] = worker[v] /\ Stage(v)
        BY <3>1 DEF OwnMemory, Papers
      <4> QED BY <3>2, <4>1 DEF Stage
    <3>5. Stage(w)'
      BY <3>1, RestingFacts DEF Stage
    <3> QED BY <3>3, <3>4, <3>5 DEF Papers
  <2>6. CASE UNCHANGED vars
    BY <2>6 DEF vars, Papers, OutcomeOf, Stage
  <2> QED
    BY <2>1, <2>2, <2>3, <2>4, <2>5, <2>6 DEF Next, Moves
<1>3. Papers => OutcomeMatchesPapers
  BY DEF Papers, OutcomeOf, OutcomeMatchesPapers
<1> QED
  BY <1>1, <1>2, <1>3, TypeCorrect, ExclusiveRuns, PTL DEF Spec

-----------------------------------------------------------------------------
(* What the session believes of a run that is neither cancelled nor read   *)
(* again: at work it is running, in the dialogue it waits, and only a      *)
(* cancellation makes the row differ.  And what a cancelled run has still  *)
(* cost: nothing until it is cancelled, and behind a checkpoint only the   *)
(* calls begun since.                                                      *)
Straight == (Guarded \ {"waiting"}) \cup {"home", "rank"}
BelievesOf(m, s) ==
    /\ m.phase \in Straight => m.loaded = "running" /\ s \in {"running", "cancelled"}
    /\ m.phase \in {"login", "waiting"} =>
           m.loaded = "waiting_for_login" /\ s \in {"waiting_for_login", "cancelled"}
LateOf(m, s) ==
    /\ m.late # 0 => m.run \in Runs /\ s = "cancelled"
    /\ m.late <= MostCalls + 1
    /\ m.phase # "signin" => m.late <= MostCalls
    /\ m.phase = "login" => m.late = 0
    /\ m.checked => m.late <= m.calls
Believes == \A w \in Workers : BelievesOf(worker[w], status[worker[w].run])
Prompt == \A w \in Workers : LateOf(worker[w], status[worker[w].run])

\* A worker that rests or begins anew has begun no call.
LEMMA FreshLate ==
    ASSUME NEW m \in WorkerStates, m.late = 0, NEW s
    PROVE  LateOf(m, s)
<1>1. m.calls \in 0..MostCalls /\ MostCalls = 2
  BY DEF WorkerStates, MostCalls
<1> QED BY <1>1 DEF LateOf

LEMMA RestingBelieves ==
    ASSUME NEW s
    PROVE  BelievesOf(Resting, s) /\ LateOf(Resting, s)
<1>1. BelievesOf(Resting, s)
  BY RestingFacts DEF BelievesOf, Straight, Guarded
<1> QED BY <1>1, RestingFacts, FreshLate

\* Progress at work is not written: the session believes it already.
LEMMA ProgressUnwritten ==
    ASSUME NEW w \in Workers, worker[w].phase \in Straight,
           BelievesOf(worker[w], status[worker[w].run]), Progress(w) \/ SetStatus(w, "running")
    PROVE  status' = status
  BY DEF Progress, SetStatus, BelievesOf

\* A step from work to work with neither a call nor a checkpoint.
LEMMA StepBelieves ==
    ASSUME TypeOK, NEW w \in Workers, OwnMemory(w), worker'[w].phase \in Straight \ {"signin"},
           worker[w].phase \in Straight, worker[w].checked \/ worker[w].phase # "signin",
           worker'[w].loaded = worker[w].loaded, worker'[w].late = worker[w].late,
           worker'[w].run = worker[w].run, ~worker'[w].checked, status' = status,
           NEW s, s = status[worker[w].run], BelievesOf(worker[w], s), LateOf(worker[w], s)
    PROVE  BelievesOf(worker'[w], s) /\ LateOf(worker'[w], s)
<1>1. BelievesOf(worker'[w], s)
  BY DEF BelievesOf, Straight, Guarded
<1>2. /\ worker[w].calls \in 0..MostCalls /\ worker[w].late \in Nat /\ MostCalls = 2
      /\ worker'[w].late \in Nat
  BY DEF TypeOK, WorkerStates, MostCalls, OwnMemory
<1>3. worker[w].late <= MostCalls
  BY <1>2 DEF LateOf
<1>4. worker'[w].phase # "login"
  BY DEF Straight, Guarded
<1> QED BY <1>1, <1>2, <1>3, <1>4 DEF LateOf

(* A worker's own step keeps its belief and its count, and overwrites a    *)
(* cancellation in a dialogue, behind the last checkpoint or as a failure  *)
(* only.                                                                   *)
Overwrites(w) ==
    LET r == worker[w].run IN
    status[r] = "cancelled" /\ status'[r] # "cancelled" =>
        worker[w].phase \in {"signin", "waiting", "report", "failing"}
LEMMA MoveBelieves ==
    ASSUME TypeOK, Busy, NEW w \in Workers, Moves(w),
           NEW r, r = worker[w].run, BelievesOf(worker[w], status[r]), LateOf(worker[w], status[r])
    PROVE  BelievesOf(worker'[w], status'[r]) /\ LateOf(worker'[w], status'[r]) /\ Overwrites(w)
<1>0. /\ r = worker[w].run /\ r \in Runs /\ worker[w] \in WorkerStates
      /\ worker'[w] \in WorkerStates /\ status[r] \in Statuses
  BY MoveShape DEF TypeOK, OwnMemory
<1> USE <1>0
<1>1. ASSUME status' = status PROVE Overwrites(w)
  BY <1>1 DEF Overwrites
<1>2. CASE Checkpoint(w)
  <2>1. CASE Halt(w)
    BY <1>1, <1>2, <2>1, HaltShape, RestingBelieves DEF Checkpoint
  <2>2. CASE status[r] # "cancelled" /\ worker' = [worker EXCEPT ![w] = [@ EXCEPT !.checked = TRUE,
                                                                                  !.loaded = status[r]]]
    <3>1. /\ worker'[w].phase = worker[w].phase /\ worker'[w].loaded = status[r]
          /\ worker'[w].late = worker[w].late
      BY <2>2, CheckShape
    <3>2. worker'[w].late = 0
      BY <2>2, <3>1 DEF LateOf
    <3> QED BY <1>1, <1>2, <2>2, <3>1, <3>2, FreshLate DEF Checkpoint, BelievesOf
  <2> QED BY <1>2, <2>1, <2>2 DEF Checkpoint
<1>3. CASE Call(w)
  <2>1. worker[w].phase \in Straight \ {"signin"} /\ worker[w].checked /\ worker[w].calls < MostCalls
    BY <1>3 DEF Call, Calling, Straight, Guarded
  <2>2. status' = status
    BY <1>3, <2>1, ProgressUnwritten DEF Call
  <2>3. /\ worker'[w].phase = worker[w].phase /\ worker'[w].loaded = worker[w].loaded
        /\ worker'[w].run = r /\ worker'[w].calls = worker[w].calls + 1 /\ worker'[w].late = Called(w).late
    BY <1>3, CallShape
  <2>4. worker'[w].late = IF status[r] = "cancelled" THEN worker[w].late + 1 ELSE worker[w].late
    BY <2>3, CalledFacts
  <2>5. BelievesOf(worker'[w], status'[r])
    BY <2>2, <2>3 DEF BelievesOf
  <2>6. LateOf(worker'[w], status'[r])
    <3>1. /\ worker[w].calls \in Nat /\ worker[w].late \in Nat /\ MostCalls = 2
          /\ worker[w].late <= worker[w].calls
      BY <2>1 DEF WorkerStates, MostCalls, LateOf
    <3>2. worker'[w].late <= worker'[w].calls /\ worker'[w].calls <= MostCalls
          /\ worker'[w].late \in Nat
      BY <2>1, <2>3, <2>4, <3>1
    <3>3. worker'[w].phase # "login"
      BY <2>1, <2>3 DEF Straight, Guarded
    <3>4. worker'[w].late # 0 => worker'[w].run \in Runs /\ status'[r] = "cancelled"
      BY <2>2, <2>3, <2>4 DEF LateOf
    <3> QED BY <2>3, <3>1, <3>2, <3>3, <3>4 DEF LateOf
  <2> QED BY <1>1, <2>2, <2>5, <2>6
<1>4. CASE Plan(w) \/ ReuseLogin(w)
  <2>1. worker[w].phase \in Straight /\ worker[w].checked
    BY <1>4 DEF Plan, ReuseLogin, At, Straight, Guarded
  <2>2. status' = status
    BY <1>4, <2>1, ProgressUnwritten DEF Plan, ReuseLogin
  <2>3. PICK p \in {"home", "search"} : worker' = [worker EXCEPT ![w] = Entered(worker[w], p)]
    BY <1>4 DEF Plan, ReuseLogin, Enter
  <2>4. p \in Straight \ {"signin"} /\ p \in Phases
    BY DEF Straight, Guarded, Phases
  <2>5. /\ OwnMemory(w) /\ worker'[w].phase = p /\ worker'[w].loaded = worker[w].loaded
        /\ worker'[w].run = r /\ worker'[w].late = worker[w].late /\ ~worker'[w].checked
    BY <2>3, <2>4, EnterShape
  <2> QED BY <1>1, <2>1, <2>2, <2>4, <2>5, StepBelieves
<1>5. CASE VisitHome(w)
  <2>1. worker[w].phase = "home" /\ status' = status
    BY <1>5 DEF VisitHome
  <2>2. /\ worker'[w].phase = "signin" /\ worker'[w].loaded = worker[w].loaded
        /\ worker'[w].run = r /\ worker'[w].late = Called(w).late /\ ~worker'[w].checked
    BY <1>5, EnterShape DEF VisitHome, Phases, Guarded
  <2>3. worker'[w].late = IF status[r] = "cancelled" THEN worker[w].late + 1 ELSE worker[w].late
    BY <2>2, CalledFacts
  <2>4. BelievesOf(worker'[w], status'[r])
    BY <2>1, <2>2 DEF BelievesOf, Straight, Guarded
  <2>5. LateOf(worker'[w], status'[r])
    <3>1. worker[w].late \in Nat /\ MostCalls = 2 /\ worker[w].late <= MostCalls
      BY <2>1 DEF WorkerStates, MostCalls, LateOf
    <3>2. worker'[w].late # 0 => worker'[w].run \in Runs /\ status'[r] = "cancelled"
      BY <2>1, <2>2, <2>3 DEF LateOf
    <3> QED BY <2>2, <2>3, <3>1, <3>2 DEF LateOf
  <2> QED BY <1>1, <2>1, <2>4, <2>5
<1>6. CASE OpenSignIn(w)
  <2>1. worker[w].phase = "login" /\ status' = status
    BY <1>6 DEF OpenSignIn
  <2>2. /\ worker'[w].phase = "waiting" /\ worker'[w].loaded = worker[w].loaded
        /\ worker'[w].run = r /\ worker'[w].late = Called(w).late /\ ~worker'[w].checked
    BY <1>6, EnterShape DEF OpenSignIn, Phases, Guarded
  <2>3. worker'[w].late = IF status[r] = "cancelled" THEN worker[w].late + 1 ELSE worker[w].late
    BY <2>2, CalledFacts
  <2>4. BelievesOf(worker'[w], status'[r])
    BY <2>1, <2>2 DEF BelievesOf, Straight, Guarded
  <2>5. LateOf(worker'[w], status'[r])
    <3>1. worker[w].late = 0 /\ MostCalls = 2
      BY <2>1 DEF MostCalls, LateOf
    <3> QED BY <2>1, <2>2, <2>3, <3>1 DEF LateOf
  <2> QED BY <1>1, <2>1, <2>4, <2>5
<1>7. CASE AskLogin(w)
  <2>1. worker[w].loaded = "running" /\ worker[w].phase = "signin"
    BY <1>7 DEF AskLogin, At, BelievesOf, Straight, Guarded
  <2>2. /\ worker'[w].phase = "login" /\ worker'[w].loaded = "waiting_for_login"
        /\ worker'[w].late = 0
    BY <1>7, HoldShape DEF AskLogin, Phases, Statuses, Working
  <2>3. status'[r] = "waiting_for_login"
    BY <1>7, <2>1 DEF AskLogin, SetStatus, TypeOK
  <2> QED BY <2>1, <2>2, <2>3, FreshLate DEF BelievesOf, Straight, Guarded, Overwrites
<1>8. CASE LoginDone(w)
  <2>1. worker[w].loaded = "waiting_for_login" /\ worker[w].phase = "waiting"
    BY <1>8 DEF LoginDone, At, BelievesOf
  <2>2. worker'[w].phase = "search" /\ worker'[w].loaded = "running" /\ worker'[w].late = 0
    BY <1>8, HoldShape DEF LoginDone, Phases, Guarded, Statuses, Working
  <2>3. status'[r] = "running"
    BY <1>8, <2>1 DEF LoginDone, SetStatus, TypeOK
  <2> QED BY <2>1, <2>2, <2>3, FreshLate DEF BelievesOf, Overwrites
<1>9. CASE Search(w)
  <2>1. worker[w].phase \in Straight \ {"signin"}
    BY <1>9 DEF Search, At, Straight, Guarded
  <2>2. status' = status
    BY <1>9, <2>1, ProgressUnwritten DEF Search
  <2>3. /\ OwnMemory(w) /\ worker'[w].phase \in {"rank", "search"} /\ ~worker'[w].checked
        /\ worker'[w].run = r
        /\ worker'[w].loaded = worker[w].loaded /\ worker'[w].late = worker[w].late
    BY <1>9, SearchShape
  <2>4. worker'[w].phase \in Straight \ {"signin"}
    BY <2>3 DEF Straight, Guarded
  <2> QED BY <1>1, <2>1, <2>2, <2>3, <2>4, StepBelieves
<1>10. CASE Rank(w)
  <2>1. worker[w].phase \in Straight \ {"signin"} /\ SetStatus(w, "running")
    BY <1>10 DEF Rank, Straight, Guarded
  <2>2. PICK p \in {"report", "fetch", "analyse"} :
          worker' = [worker EXCEPT ![w] = Entered(worker[w], p)]
    BY <1>10 DEF Rank, Enter
  <2>3. status' = status
    BY <2>1, ProgressUnwritten
  <2>4. p \in Straight \ {"signin"} /\ p \in Phases
    BY DEF Straight, Guarded, Phases
  <2>5. /\ OwnMemory(w) /\ worker'[w].phase = p /\ worker'[w].loaded = worker[w].loaded
        /\ worker'[w].run = r /\ worker'[w].late = worker[w].late /\ ~worker'[w].checked
    BY <2>2, <2>4, EnterShape
  <2> QED BY <1>1, <2>1, <2>3, <2>4, <2>5, StepBelieves
<1>11. CASE Fetch(w) \/ Analyse(w)
  <2>1. worker[w].phase \in Straight \ {"signin"} /\ Progress(w)
    BY <1>11 DEF Fetch, Analyse, At, Straight, Guarded
  <2>2. PICK p \in {"analyse", "report"} : NextPaper(w, p)
    BY <1>11 DEF Fetch, Analyse
  <2>3. status' = status
    BY <2>1, ProgressUnwritten
  <2>4. p \in Straight \ {"signin"} /\ p \in Phases
    BY DEF Straight, Guarded, Phases
  <2>5. /\ OwnMemory(w) /\ worker'[w].phase \in {p, worker[w].phase}
        /\ worker'[w].loaded = worker[w].loaded
        /\ worker'[w].run = r /\ worker'[w].late = worker[w].late /\ ~worker'[w].checked
    BY <2>2, <2>4, PaperShape
  <2> QED BY <1>1, <2>1, <2>3, <2>4, <2>5, StepBelieves
<1>12. CASE Finish(w)
  <2>1. worker'[w].phase = "closing" /\ worker'[w].late = 0
    BY <1>12, HoldShape DEF Finish, Verdict, Phases, Statuses, Ended
  <2> QED BY <1>12, <2>1, FreshLate DEF Finish, At, Overwrites, BelievesOf, Straight, Guarded
<1>13. CASE Raise(w)
  <2>1. CASE Halt(w)
    BY <1>1, <1>13, <2>1, HaltShape, RestingBelieves DEF Raise
  <2>2. CASE Hold(w, r, "failing", status[r])
    <3>1. worker'[w].phase = "failing" /\ worker'[w].late = 0
      BY <2>2, HoldShape DEF Phases
    <3> QED BY <1>1, <1>13, <3>1, FreshLate DEF Raise, BelievesOf, Straight, Guarded
  <2> QED BY <1>13, <2>1, <2>2 DEF Raise
<1>14. CASE Close(w)
  BY <1>1, <1>14, HaltShape, RestingBelieves DEF Close
<1>15. CASE RecordFailure(w)
  BY <1>15, HaltShape, RestingBelieves DEF RecordFailure, Overwrites
<1> QED
  BY <1>2, <1>3, <1>4, <1>5, <1>6, <1>7, <1>8, <1>9, <1>10, <1>11, <1>12, <1>13, <1>14, <1>15
     DEF Moves, Pipeline, LoginTimeout

\* Every step keeps beliefs and counts, and undoes a cancellation only there.
LEMMA BeliefsKept ==
    ASSUME TypeOK, Busy, Busy', SingleWorker, Believes, Prompt, [Next]_vars
    PROVE  /\ Believes' /\ Prompt'
           /\ \A w \in Workers, r \in Runs :
                worker[w].run = r /\ status[r] = "cancelled" /\ status'[r] # "cancelled" =>
                    worker[w].phase \in {"signin", "waiting", "report", "failing"}
<1> DEFINE Kept == \A r \in Runs : status[r] = "cancelled" => status'[r] = "cancelled"
<1>0. ASSUME NEW v \in Workers, worker[v].run \notin Runs, NEW s
      PROVE  BelievesOf(worker[v], s) /\ LateOf(worker[v], s)
  <2>1. worker[v].phase = "idle"
    BY <1>0 DEF Busy
  <2>2. BelievesOf(worker[v], s)
    BY <2>1 DEF BelievesOf, Straight, Guarded
  <2>3. LateOf(worker[v], status[worker[v].run])
    BY DEF Prompt
  <2> QED BY <1>0, <2>2, <2>3 DEF LateOf
<1>1. ASSUME NEW q \in Runs, Create(q) \/ Cancel(q) PROVE Believes' /\ Prompt' /\ Kept
  <2>1. worker' = worker
        /\ \A r \in Runs : status'[r] = status[r] \/ status'[r] = "cancelled" \/ status[r] = "absent"
    BY <1>1 DEF Create, Cancel, TypeOK
  <2>2. Kept
    BY <2>1
  <2>3. ASSUME NEW v \in Workers
        PROVE  BelievesOf(worker[v], status'[worker[v].run])
               /\ LateOf(worker[v], status'[worker[v].run])
    <3>1. CASE worker[v].run \in Runs
      <4>1. /\ BelievesOf(worker[v], status[worker[v].run])
            /\ LateOf(worker[v], status[worker[v].run])
            /\ status[worker[v].run] # "absent"
        BY <3>1, NoneAssumption DEF Believes, Prompt, SingleWorker
      <4>2. BelievesOf(worker[v], status'[worker[v].run])
        BY <2>1, <3>1, <4>1 DEF BelievesOf
      <4> QED BY <2>1, <3>1, <4>1, <4>2 DEF LateOf
    <3> QED BY <1>0, <3>1
  <2> QED BY <2>1, <2>2, <2>3 DEF Believes, Prompt
<1>2. ASSUME NEW w \in Workers, NEW q \in Runs, Claim(w, q) PROVE Believes' /\ Prompt' /\ Kept
  <2>1. /\ status' = [status EXCEPT ![q] = "running"] /\ status[q] = "queued"
        /\ \A v \in Workers \ {w} : worker'[v] = worker[v]
        /\ worker'[w] \in WorkerStates /\ worker'[w].run = q /\ worker'[w].phase = "plan"
        /\ worker'[w].loaded = "running" /\ worker'[w].late = 0
    BY <1>2, ClaimShape
  <2>2. BelievesOf(worker'[w], status'[q]) /\ LateOf(worker'[w], status'[q])
    <3>1. status'[q] = "running"
      BY <2>1 DEF TypeOK
    <3> QED BY <2>1, <3>1, FreshLate DEF BelievesOf
  <2>3. ASSUME NEW v \in Workers \ {w}
        PROVE  BelievesOf(worker[v], status'[worker[v].run])
               /\ LateOf(worker[v], status'[worker[v].run])
    <3>1. CASE worker[v].run \in Runs
      <4>1. worker[v].run # q
        BY <2>1, <3>1, NoneAssumption DEF SingleWorker
      <4>2. status'[worker[v].run] = status[worker[v].run]
        BY <2>1, <3>1, <4>1 DEF TypeOK
      <4> QED BY <4>2 DEF Believes, Prompt
    <3> QED BY <1>0, <3>1
  <2>4. Kept
    BY <2>1 DEF TypeOK
  <2> QED BY <2>1, <2>2, <2>3, <2>4 DEF Believes, Prompt
<1>3. ASSUME NEW w \in Workers, Moves(w)
      PROVE  /\ Believes' /\ Prompt' /\ Overwrites(w)
             /\ \A v \in Workers \ {w}, r \in Runs : worker[v].run = r => status'[r] = status[r]
  <2>1. worker[w].run \in Runs /\ OwnMemory(w) /\ OwnStatus(w)
    BY <1>3, MoveShape
  <2>2. BelievesOf(worker'[w], status'[worker[w].run]) /\ LateOf(worker'[w], status'[worker[w].run])
        /\ Overwrites(w)
    BY <1>3, MoveBelieves DEF Believes, Prompt
  <2>3. BelievesOf(worker'[w], status'[worker'[w].run]) /\ LateOf(worker'[w], status'[worker'[w].run])
    BY <2>1, <2>2, RestingBelieves DEF OwnMemory
  <2>4. ASSUME NEW v \in Workers \ {w}
        PROVE  /\ \A r \in Runs : worker[v].run = r => status'[r] = status[r]
               /\ BelievesOf(worker'[v], status'[worker'[v].run])
               /\ LateOf(worker'[v], status'[worker'[v].run])
    <3>1. worker'[v] = worker[v] /\ (worker[v].run \in Runs => worker[v].run # worker[w].run)
      BY <2>1, NoneAssumption DEF OwnMemory, SingleWorker
    <3>2. \A r \in Runs : worker[v].run = r => status'[r] = status[r]
      BY <2>1, <3>1 DEF OwnStatus
    <3>3. CASE worker[v].run \in Runs
      BY <3>1, <3>2, <3>3 DEF Believes, Prompt
    <3> QED BY <1>0, <3>1, <3>2, <3>3
  <2> QED BY <2>2, <2>3, <2>4 DEF Believes, Prompt
<1>4. ASSUME NEW w \in Workers, Crash(w) PROVE Believes' /\ Prompt' /\ Kept
  <2>1. status' = status /\ OwnMemory(w) /\ worker'[w] = Resting
    BY <1>4, HaltShape DEF Crash
  <2> QED BY <2>1, RestingBelieves DEF OwnMemory, Believes, Prompt
<1>5. CASE UNCHANGED vars
  BY <1>5 DEF vars, Believes, Prompt
<1> QED
  BY <1>1, <1>2, <1>3, <1>4, <1>5 DEF Next, Moves, Overwrites, vars

LEMMA BeliefsBegin == Init => Believes /\ Prompt
  BY RestingBelieves DEF Init, Believes, Prompt

(* A cancellation is not undone by the progress the worker writes: what it *)
(* assigns at work is what it believes, and that is not written.           *)
THEOREM CancellationSurvives == Spec => CancelSurvivesWork
  BY BeliefsBegin, BeliefsKept, TypeCorrect, ExclusiveRuns, PTL DEF Spec, CancelSurvivesWork

(* Whenever a cancellation commits, a run costs no more external calls     *)
(* than one checkpoint and the next have between them.  Inductive with the *)
(* beliefs: a checkpoint is passed by a run that is not cancelled, and     *)
(* only the writes that follow a checkpoint of the sign-in dialogue, the   *)
(* last commit and the failure handler make a cancelled run another one.   *)
THEOREM CancellationIsPrompt == Spec => []LateCallsBounded
<1>1. Prompt => LateCallsBounded
  BY DEF Prompt, LateOf, LateCallsBounded
<1> QED
  BY <1>1, BeliefsBegin, BeliefsKept, TypeCorrect, ExclusiveRuns, PTL DEF Spec

(* A run is executed by one worker at a time, and its cancellation is      *)
(* heeded at the next checkpoint.                                          *)
THEOREM WorkBounded == Spec => []WorkIsBounded
  BY TypeCorrect, ExclusiveRuns, CancellationIsPrompt, PTL DEF WorkIsBounded
=============================================================================
