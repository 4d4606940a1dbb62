--------------------------- MODULE PanelAndChatProofs -------------------------
(***************************************************************************)
(* The pages show what is: the literature page follows the run it shows,   *)
(* the panels show what is selected and the chat page asks in the          *)
(* conversation it shows; and a chat session keeps what it has delivered.  *)
(* For all runs, choices, conversations and requests, and any number of    *)
(* requests that cross, fail or are cut off.                               *)
(***************************************************************************)
EXTENDS LiteraturePanel, DataPanels, ChatPage, ChatSession, TLAPS

-----------------------------------------------------------------------------
Statuses == {"queued", "running", "ended"}
RunRequests == [at : {"off", "timer", "reading", "created"}, id : PanelRuns \cup {NoRun},
             status : Statuses \cup {"none"}, n : 0 .. NotRead]

(* The shapes of the server's state and of the requests under way. *)
ShapesOK ==
    /\ state \in [PanelRuns -> Statuses \cup {"none"}] /\ result \in [PanelRuns -> 0 .. LastResult]
    /\ run \in [id : PanelRuns \cup {NoRun}, status : Statuses \cup {"none"}]
    /\ submitting \in RunRequests /\ poll \in RunRequests /\ poll.at # "created"
    /\ results \in [id : PanelRuns \cup {NoRun}, n : 0 .. LastResult]

(* Every request under way names a run, and so does the shown row. *)
RequestsNameRuns ==
    /\ poll.at # "off" => poll.id \in PanelRuns
    /\ submitting.at # "off" => submitting.id \in PanelRuns
    /\ run.id = NoRun <=> run.status = "none"
    /\ cancelling \subseteq PanelRuns

IInv == ShapesOK /\ RequestsNameRuns /\ WatchedIsPolled

-----------------------------------------------------------------------------
LEMMA TimerShape ==
    ASSUME NEW id \in PanelRuns
    PROVE  /\ Timer(id) \in RunRequests /\ Timer(id).at = "timer" /\ Timer(id).id = id
           /\ Reading(id) \in RunRequests /\ Reading(id).at = "reading" /\ Reading(id).id = id
           /\ NoPoll \in RunRequests /\ NoPoll.at = "off"
<1>1. \A at \in {"off", "timer", "reading"}, q \in PanelRuns \cup {NoRun} :
         RunRequest(at, q) \in RunRequests
  BY PanelBounds DEF RunRequest, RunRequests, NotRead
<1> QED
  BY <1>1 DEF NoPoll, RunRequest, Timer, Reading

(* Whatever row is shown, the effect that results from it follows it. *)
LEMMA WatchFollows ==
    ASSUME IInv, NEW id \in PanelRuns, NEW status \in Statuses,
           run' = [id |-> id, status |-> status], poll' = Watch(run')
    PROVE  /\ poll' \in RunRequests /\ poll'.at # "created"
           /\ poll'.at # "off" => poll'.id \in PanelRuns
           /\ WatchedIsPolled' /\ (run'.id = NoRun <=> run'.status = "none")
           /\ run' \in [id : PanelRuns \cup {NoRun}, status : Statuses \cup {"none"}]
<1> USE DEF IInv
<1>1. run'.id = id /\ run'.status = status /\ id # NoRun
  BY PanelBounds
<1>2. CASE run' = run
  BY <1>1, <1>2 DEF Watch, ShapesOK, RequestsNameRuns, WatchedIsPolled, Statuses
<1>3. CASE run' # run /\ status = "ended"
  BY <1>1, <1>3, TimerShape DEF Watch, WatchedIsPolled, Statuses
<1>4. CASE run' # run /\ status # "ended"
  BY <1>1, <1>4, TimerShape DEF Watch, WatchedIsPolled, Statuses
<1> QED
  BY <1>2, <1>3, <1>4

LEMMA InitIInv == LitPanelInit => IInv
  BY PanelBounds DEF LitPanelInit, IInv, ShapesOK, RequestsNameRuns, WatchedIsPolled, NoWatch,
     NoResults, NoPoll, RunRequest, RunRequests, NotRead, Statuses

(* The server goes on by itself; the page learns of it from replies only. *)
LEMMA WorkerStep == ASSUME IInv, NEW r \in PanelRuns, WorkerCommits(r) PROVE IInv'
<1>1. UNCHANGED <<run, results, submitting, cancelling, poll>>
  BY DEF WorkerCommits
<1>2. /\ state' \in [PanelRuns -> Statuses \cup {"none"}]
      /\ result' \in [PanelRuns -> 0 .. LastResult]
  <2>1. CASE UNCHANGED result
    BY <2>1 DEF WorkerCommits, IInv, ShapesOK, Statuses
  <2>2. CASE ~UNCHANGED result
    <3>1. result[r] < LastResult /\ result' = [result EXCEPT ![r] = result[r] + 1]
          /\ state' \in {state, [state EXCEPT ![r] = "ended"]}
      BY <2>2 DEF WorkerCommits
    <3> QED
      BY <3>1, PanelBounds DEF IInv, ShapesOK, Statuses
  <2> QED
    BY <2>1, <2>2
<1> QED
  BY <1>1, <1>2 DEF IInv, ShapesOK, RequestsNameRuns, WatchedIsPolled

(* The effect reads the run it was started for. *)
LEMMA PollStep == ASSUME IInv, PollDue \/ PollReads \/ PollFails PROVE IInv'
<1>1. /\ UNCHANGED <<state, result, run, results, submitting, cancelling>>
      /\ poll.at \in {"timer", "reading"} /\ poll.id \in PanelRuns
  BY DEF PollDue, PollReads, PollFails, ReadStatus, ReadResults, IInv, RequestsNameRuns
<1>2. poll' \in RunRequests /\ poll'.at \in {"timer", "reading"} /\ poll'.id = poll.id
  <2>1. CASE PollDue
    BY <1>1, <2>1, TimerShape DEF PollDue
  <2>2. CASE PollFails
    BY <1>1, <2>2, TimerShape DEF PollFails, AfterMiss
  <2>3. CASE PollReads /\ poll' = [poll EXCEPT !.status = state[poll.id]]
    BY <1>1, <2>3 DEF PollReads, IInv, ShapesOK, RunRequests, ReadStatus, ReadResults
  <2>4. CASE PollReads /\ poll' = [poll EXCEPT !.n = result[poll.id]]
    BY <1>1, <2>4, PanelBounds DEF PollReads, IInv, ShapesOK, RunRequests, NotRead, ReadStatus, ReadResults
  <2> QED
    BY <2>1, <2>2, <2>3, <2>4 DEF PollReads
<1> QED
  BY <1>1, <1>2 DEF IInv, ShapesOK, RequestsNameRuns, WatchedIsPolled

LEMMA ReplyIsWhole ==
    ASSUME NEW q \in RunRequests, Complete(q)
    PROVE  q.status \in Statuses /\ q.n \in 0 .. LastResult
  BY PanelBounds DEF Complete, RunRequests, NotRead

(* An answered poll is shown, and its run polled on unless it has ended. *)
LEMMA PollShowsStep == ASSUME IInv, PollShows PROVE IInv'
<1>1. /\ poll.id \in PanelRuns /\ poll.status \in Statuses /\ poll.n \in 0 .. LastResult
      /\ poll.at = "reading"
  BY ReplyIsWhole DEF PollShows, IInv, RequestsNameRuns, ShapesOK, Complete
<1>2. /\ run' = [id |-> poll.id, status |-> poll.status]
      /\ poll' = IF run' = run THEN Timer(poll.id) ELSE Watch(run')
      /\ results' = [id |-> poll.id, n |-> poll.n]
      /\ UNCHANGED <<state, result, submitting, cancelling>>
  BY DEF PollShows
<1>3. CASE run' = run
  BY <1>1, <1>2, <1>3, TimerShape DEF IInv, ShapesOK, RequestsNameRuns, WatchedIsPolled
<1>4. CASE run' # run
  BY <1>1, <1>2, <1>4, WatchFollows DEF IInv, ShapesOK, RequestsNameRuns
<1> QED
  BY <1>3, <1>4

(* What the buttons request is shown when its answers are there. *)
LEMMA SubmitStep ==
    ASSUME IInv, LoadReads \/ SubmitFails \/ \E r \in PanelRuns : CreateRun(r) \/ LoadRun(r)
    PROVE  IInv'
<1>1. UNCHANGED <<result, run, cancelling, poll>>
  BY DEF LoadReads, SubmitFails, CreateRun, LoadRun
<1>2. submitting' \in RunRequests /\ (submitting'.at # "off" => submitting'.id \in PanelRuns)
  <2>1. CASE LoadReads /\ submitting' = [submitting EXCEPT !.status = state[submitting.id]]
    BY <2>1 DEF LoadReads, ReadStatus, ReadResults, IInv, ShapesOK, RequestsNameRuns, RunRequests
  <2>2. CASE LoadReads /\ submitting' = [submitting EXCEPT !.n = result[submitting.id]]
    BY <2>2, PanelBounds DEF LoadReads, ReadStatus, ReadResults, IInv, ShapesOK, RequestsNameRuns,
       RunRequests, NotRead
  <2>3. CASE SubmitFails
    BY <2>3, PanelBounds DEF SubmitFails, NoPoll, RunRequest, RunRequests, NotRead
  <2>4. CASE \E r \in PanelRuns : CreateRun(r)
    <3>1. PICK r \in PanelRuns : submitting' = RunRequest("created", r)
      BY <2>4 DEF CreateRun
    <3> QED
      BY <3>1, PanelBounds DEF RunRequest, RunRequests, NotRead
  <2>5. CASE \E r \in PanelRuns : LoadRun(r)
    BY <2>5, TimerShape DEF LoadRun
  <2> QED
    BY <2>1, <2>2, <2>3, <2>4, <2>5 DEF LoadReads
<1>3. state' \in [PanelRuns -> Statuses \cup {"none"}]
  BY DEF LoadReads, SubmitFails, CreateRun, LoadRun, IInv, ShapesOK, Statuses
<1>4. results' \in [id : PanelRuns \cup {NoRun}, n : 0 .. LastResult]
  <2>1. results' = results \/ results' = NoResults
    BY DEF LoadReads, SubmitFails, CreateRun, LoadRun
  <2>2. NoResults \in [id : PanelRuns \cup {NoRun}, n : 0 .. LastResult]
    BY PanelBounds DEF NoResults
  <2> QED
    BY <2>1, <2>2 DEF IInv, ShapesOK
<1> QED
  BY <1>1, <1>2, <1>3, <1>4 DEF IInv, ShapesOK, RequestsNameRuns, WatchedIsPolled

LEMMA SubmitShowsStep == ASSUME IInv, CreateShows \/ LoadShows PROVE IInv'
<1>1. NoPoll \in RunRequests /\ NoPoll.at = "off"
  BY PanelBounds DEF NoPoll, RunRequest, RunRequests, NotRead
<1>2. CASE CreateShows
  <2>1. /\ submitting.id \in PanelRuns /\ run' = [id |-> submitting.id, status |-> "queued"]
        /\ poll' = Watch(run') /\ submitting' = NoPoll
        /\ UNCHANGED <<state, result, results, cancelling>>
    BY <1>2 DEF CreateShows, IInv, RequestsNameRuns
  <2> QED
    BY <1>1, <2>1, WatchFollows DEF IInv, ShapesOK, RequestsNameRuns, Statuses
<1>3. CASE LoadShows
  <2>1. /\ submitting.id \in PanelRuns /\ submitting.status \in Statuses
        /\ submitting.n \in 0 .. LastResult
        /\ run' = [id |-> submitting.id, status |-> submitting.status]
        /\ poll' = Watch(run') /\ submitting' = NoPoll
        /\ results' = [id |-> submitting.id, n |-> submitting.n]
        /\ UNCHANGED <<state, result, cancelling>>
    BY <1>3, ReplyIsWhole DEF LoadShows, Complete, IInv, ShapesOK, RequestsNameRuns
  <2> QED
    BY <1>1, <2>1, WatchFollows DEF IInv, ShapesOK, RequestsNameRuns
<1> QED
  BY <1>2, <1>3

(* A cancellation is shown whatever the page shows by then. *)
LEMMA CancelStep == ASSUME IInv, CancelShown \/ \E r \in PanelRuns : CancelShows(r) PROVE IInv'
<1>1. CASE CancelShown
  <2>1. /\ run.id \in PanelRuns /\ state' = [state EXCEPT ![run.id] = "ended"]
        /\ cancelling' = cancelling \cup {run.id}
        /\ UNCHANGED <<result, run, results, submitting, poll>>
    BY <1>1 DEF CancelShown, IInv, ShapesOK
  <2> QED
    BY <2>1 DEF IInv, ShapesOK, RequestsNameRuns, WatchedIsPolled, Statuses
<1>2. CASE \E r \in PanelRuns : CancelShows(r)
  <2>1. PICK r \in PanelRuns : CancelShows(r)
    BY <1>2
  <2>2. /\ run' = [id |-> r, status |-> "ended"] /\ poll' = Watch(run')
        /\ cancelling' = cancelling \ {r} /\ UNCHANGED <<state, result, results, submitting>>
    BY <2>1 DEF CancelShows
  <2> QED
    BY <2>2, WatchFollows DEF IInv, ShapesOK, RequestsNameRuns, Statuses
<1> QED
  BY <1>1, <1>2

-----------------------------------------------------------------------------
(* Every reply, timer and click keeps the requests and the shown row of    *)
(* runs, and the watched run polled.                                       *)
THEOREM InductiveInvariant == LitPanelSpec => []IInv
<1>1. ASSUME IInv, [LitPanelNext]_litPanelVars PROVE IInv'
  <2>1. CASE PollDue \/ PollReads \/ PollFails
    BY <1>1, <2>1, PollStep
  <2>2. CASE PollShows
    BY <1>1, <2>2, PollShowsStep
  <2>3. CASE LoadReads \/ SubmitFails \/ \E r \in PanelRuns : CreateRun(r) \/ LoadRun(r)
    BY <1>1, <2>3, SubmitStep
  <2>4. CASE CreateShows \/ LoadShows
    BY <1>1, <2>4, SubmitShowsStep
  <2>5. CASE CancelShown \/ \E r \in PanelRuns : CancelShows(r)
    BY <1>1, <2>5, CancelStep
  <2>6. CASE \E r \in PanelRuns : WorkerCommits(r)
    BY <1>1, <2>6, WorkerStep
  <2>7. CASE UNCHANGED litPanelVars
    BY <1>1, <2>7 DEF litPanelVars, IInv, ShapesOK, RequestsNameRuns, WatchedIsPolled
  <2> QED
    BY <1>1, <2>1, <2>2, <2>3, <2>4, <2>5, <2>6, <2>7 DEF LitPanelNext, Polls
<1> QED
  BY <1>1, InitIInv, PTL DEF LitPanelSpec

(* In every order of replies the page polls exactly the run it shows as    *)
(* unfinished.                                                             *)
THEOREM PanelFollowsAlways == LitPanelSpec => []PanelFollows
<1>1. IInv => PanelFollows
  BY DEF IInv, ShapesOK, RequestsNameRuns, PanelFollows, PanelTypeOK, RunRequests, Statuses
<1> QED
  BY <1>1, InductiveInvariant, PTL

-----------------------------------------------------------------------------
(***************************************************************************)
(* The panels that load what the user selects.                             *)
(***************************************************************************)
Loaders == Effects \cup {"expand"}
Choices == [Keys -> Ids \cup {0}]
PanelRequests == [effect : Loaders, asked : UNION {[K -> Ids \cup {0}] : K \in SUBSET Keys},
             ignore : BOOLEAN]
Wanted(e, s) == IF e = "detail" THEN Asked("detail", s) ELSE Asked("list", s)

(* A request that is not void asks for what is selected.                   *)
AsksForSelected(rest) ==
    rest \subseteq PanelRequests /\ \A r \in rest : ~ r.ignore => r.asked = Wanted(r.effect, sel)
Awaits(rest, loads) ==
    /\ loads \in [Loaders -> BOOLEAN]
    /\ \A e \in Loaders : (\E r \in rest : r.effect = e /\ ~ r.ignore) => loads[e]
    /\ \A e \in Loaders :
          loads[e] => RowsLeftLoading(e) \/ \E r \in rest : r.effect = e /\ ~ r.ignore
Shows(shows) ==
    /\ shows = [e \in Effects |-> shows[e]]
    /\ \A e \in Effects : shows[e] # NoAnswer /\ ~(panel = "contents" /\ e = "list")
          => shows[e] = Asked(e, sel)
DetailIsListed(shows) ==
    PanelOf(panel).adopts = "keep listed" /\ shows["list"] # NoAnswer
         => sel["detail"] \in listed \cup {0}

PanelIInv ==
    /\ panel \in Names /\ sel \in Choices
    /\ AsksForSelected(requests) /\ Awaits(requests, loading)
    /\ Shows(displayed) /\ DetailIsListed(displayed)

LEMMA DepsAreKeys ==
  ASSUME panel \in Names, NEW e \in Effects
  PROVE  Deps(e) \subseteq Keys
         /\ (panel = "database" => Deps("list") = {"master"} /\ "detail" \in Deps("detail"))
BY DEF Names, Effects, Deps, PanelOf, Keys, DatabasePage, RunDetailPage, ContentDetailPage,
   SupplierPage,
   DocumentLibraryPanel, DronesPage, VideoGraphPage, Page

LEMMA RequestIsRequest ==
  ASSUME panel \in Names, NEW e \in Effects, NEW s \in Choices
  PROVE  Request(e, s) \in PanelRequests
<1>1. Deps(e) \in SUBSET Keys
  BY DepsAreKeys
<1>2. Asked(e, s) \in [Deps(e) -> Ids \cup {0}]
  BY <1>1 DEF Asked, Choices
<1> QED
  BY <1>1, <1>2 DEF Request, PanelRequests, Loaders

(* At most one request of an effect is not void.                           *)
LEMMA OneIsAwaited ==
  ASSUME NEW rest, AsksForSelected(rest), NEW r \in rest, NEW q \in rest,
         ~ r.ignore, ~ q.ignore, r.effect = q.effect
  PROVE  r = q
<1>1. r.asked = q.asked /\ r \in PanelRequests /\ q \in PanelRequests
  BY DEF AsksForSelected
<1>2. r.ignore = FALSE /\ q.ignore = FALSE
  BY <1>1 DEF PanelRequests
<1>3. r = [effect |-> r.effect, asked |-> r.asked, ignore |-> r.ignore]
  BY <1>1 DEF PanelRequests
<1>4. q = [effect |-> q.effect, asked |-> q.asked, ignore |-> q.ignore]
  BY <1>1 DEF PanelRequests
<1> QED
  BY <1>1, <1>2, <1>3, <1>4

LEMMA ChangeKeeps ==
  ASSUME panel \in Names, sel \in Choices, panel' = panel,
         NEW s \in Choices, NEW again \in SUBSET Effects, NEW rest, NEW shows, NEW loads,
         AsksForSelected(rest), Awaits(rest, loads), Shows(shows), DOMAIN loading = Loaders,
         Change(s, again, rest, shows, loads)
  PROVE  /\ sel' = s /\ AsksForSelected(requests)' /\ Awaits(requests, loading)' /\ Shows(displayed)'
         /\ displayed'["list"] \in {NoAnswer, shows["list"]}
<1> DEFINE rerun == again \cup {e \in Effects : Asked(e, s) # Asked(e, sel)}
           asking == {e \in rerun : Asks(e, s)}
           Kept(r) == r.effect \notin rerun /\ (r.effect = "expand" => "list" \notin rerun)
<1>1. /\ sel' = s
      /\ requests' = Voided(rerun, rest) \cup {Request(e, s) : e \in asking}
      /\ displayed' = [e \in Effects |->
            IF e \in rerun /\ ~(e = "list" /\ Stays(s)) THEN NoAnswer ELSE shows[e]]
      /\ loading' = [e \in Loaders |->
            IF e \in Effects /\ e \in rerun THEN e \in asking \/ Idle(e, loads)
            ELSE IF e = "expand" /\ "list" \in rerun THEN FALSE ELSE loads[e]]
  BY DEF Change
<1>2. rerun \subseteq Effects /\ asking \subseteq rerun
  OBVIOUS
<1>3. \A e \in Effects : Asked(e, sel)' = Asked(e, s)
  BY <1>1 DEF Asked, Deps
<1>4. \A e \in Effects \ rerun : Asked(e, s) = Asked(e, sel)
  OBVIOUS
<1> HIDE DEF rerun, asking
<1>5. ASSUME NEW r \in requests'
      PROVE  \/ r \in PanelRequests /\ r.ignore
             \/ r \in rest /\ Kept(r)
             \/ \E e \in asking : r = Request(e, s)
  <2>1. CASE r \in Voided(rerun, rest)
    <3>1. PICK q \in rest : r = IF q.effect \in rerun \/ (q.effect = "expand" /\ "list" \in rerun)
                                THEN [q EXCEPT !.ignore = TRUE] ELSE q
      BY <2>1 DEF Voided
    <3>2. q \in PanelRequests
      BY DEF AsksForSelected
    <3> QED
      BY <3>1, <3>2 DEF PanelRequests
  <2> QED
    BY <2>1, <1>1
<1>6. \A r \in rest : Kept(r) => r \in requests'
  BY <1>1 DEF Voided
<1>7. \A e \in asking : Request(e, s) \in PanelRequests /\ Request(e, s).effect = e
      /\ ~ Request(e, s).ignore
                        /\ Request(e, s).asked = Asked(e, s) /\ e \in Effects
  BY <1>2, RequestIsRequest DEF Request
<1>8. AsksForSelected(requests)'
  <2> SUFFICES ASSUME NEW r \in requests'
               PROVE  r \in PanelRequests /\ (~ r.ignore => r.asked = (Wanted(r.effect, sel))')
    BY DEF AsksForSelected
  <2>1. CASE r \in rest /\ Kept(r)
    <3>1. r \in PanelRequests /\ (~ r.ignore => r.asked = Wanted(r.effect, sel))
      BY <2>1 DEF AsksForSelected
    <3>2. Wanted(r.effect, sel)' = Wanted(r.effect, sel)
      BY <2>1, <3>1, <1>3, <1>4 DEF Wanted, PanelRequests, Loaders, Effects
    <3> QED
      BY <3>1, <3>2
  <2>2. ASSUME NEW e \in asking, r = Request(e, s)
        PROVE  r \in PanelRequests /\ (~ r.ignore => r.asked = (Wanted(r.effect, sel))')
    BY <2>2, <1>3, <1>7 DEF Wanted, Effects
  <2> QED
    BY <1>5, <2>1, <2>2
<1>9. Awaits(requests, loading)'
  <2>1. loading' \in [Loaders -> BOOLEAN]
    <3>1. ASSUME NEW e \in Loaders PROVE loading'[e] \in BOOLEAN
      <4>1. CASE e \in Effects /\ e \in rerun
        <5>1. loading'[e] = (e \in asking \/ Idle(e, loads))
          BY <1>1, <4>1
        <5>2. (e \in asking \/ Idle(e, loads)) \in BOOLEAN
          OBVIOUS
        <5> QED
          BY <5>1, <5>2, Zenon
      <4>2. CASE ~(e \in Effects /\ e \in rerun)
        <5>1. loading'[e] \in {FALSE, loads[e]} /\ loads[e] \in BOOLEAN
          BY <1>1, <4>2 DEF Awaits
        <5> QED
          BY <5>1
      <4> QED
        BY <4>1, <4>2
    <3>2. loading' = [e \in Loaders |-> loading'[e]]
      BY <1>1
    <3> QED
      BY <3>1, <3>2
  <2>2. ASSUME NEW e \in Loaders
        PROVE  /\ (\E r \in requests' : r.effect = e /\ ~ r.ignore) => loading'[e]
               /\ loading'[e] => RowsLeftLoading(e)' \/ \E r \in requests' : r.effect = e /\ ~ r.ignore
    <3>1. CASE e \in rerun
      <4>1. /\ e \in asking => loading'[e]
            /\ loading'[e] => e \in asking \/ RowsLeftLoading(e)'
        <5>1. loading'[e] = (e \in asking \/ Idle(e, loads))
          BY <1>1, <1>2, <3>1
        <5>2. e \notin asking => e = "detail" /\ s["detail"] = 0
          BY <1>2, <3>1 DEF asking, Asks, Effects
        <5> QED
          BY <1>1, <5>1, <5>2 DEF Idle, RowsLeftLoading
      <4>2. e \in asking => \E r \in requests' : r.effect = e /\ ~ r.ignore
        BY <1>1, <1>7
      <4>3. ASSUME NEW r \in requests', r.effect = e, ~ r.ignore PROVE e \in asking
        BY <1>5, <1>7, <3>1, <4>3
      <4> QED
        BY <4>1, <4>2, <4>3
    <3>2. CASE e = "expand" /\ "list" \in rerun
      <4>1. ~ loading'[e] /\ e \notin Effects
        BY <1>1, <3>2 DEF Effects
      <4>2. ASSUME NEW r \in requests', r.effect = e, ~ r.ignore PROVE FALSE
        BY <1>5, <1>7, <3>2, <4>1, <4>2
      <4> QED
        BY <4>1, <4>2
    <3>3. CASE e \notin rerun /\ ~(e = "expand" /\ "list" \in rerun)
      <4>1. loading'[e] = loads[e]
        BY <1>1, <3>3
      <4>2. /\ (\E r \in rest : r.effect = e /\ ~ r.ignore) => loads[e]
            /\ loads[e] => RowsLeftLoading(e) \/ \E r \in rest : r.effect = e /\ ~ r.ignore
        BY DEF Awaits
      <4>5. RowsLeftLoading(e) => RowsLeftLoading(e)'
        <5>1. SUFFICES ASSUME RowsLeftLoading(e) PROVE s["detail"] = sel["detail"]
          BY <1>1 DEF RowsLeftLoading
        <5>2. e = "detail" /\ e \in Effects /\ "detail" \in Deps("detail")
          BY <5>1, DepsAreKeys DEF RowsLeftLoading, Effects
        <5>3. Asked("detail", s) = Asked("detail", sel)
          BY <1>4, <3>3, <5>2
        <5>4. Asked("detail", s)["detail"] = s["detail"] /\ Asked("detail", sel)["detail"] = sel["detail"]
          BY <5>2 DEF Asked
        <5> QED
          BY <5>3, <5>4
      <4>3. \A r \in rest : r.effect = e => Kept(r)
        BY <3>3
      <4>4. ASSUME NEW r \in requests', r.effect = e, ~ r.ignore PROVE r \in rest
        BY <1>2, <1>5, <1>7, <3>3, <4>4
      <4> QED
        BY <1>6, <4>1, <4>2, <4>3, <4>4, <4>5
    <3> QED
      BY <3>1, <3>2, <3>3
  <2> QED
    BY <2>1, <2>2 DEF Awaits
<1>10. Shows(displayed)'
  <2>1. displayed' = [e \in Effects |-> displayed'[e]]
    BY <1>1
  <2>2. ASSUME NEW e \in Effects, displayed'[e] # NoAnswer, ~(panel = "contents" /\ e = "list")
        PROVE  displayed'[e] = Asked(e, s)
    <3>1. displayed'[e] = shows[e] /\ shows[e] = Asked(e, sel)
      BY <1>1, <2>2 DEF Shows
    <3>2. CASE e \in rerun
      <4>1. e = "list" /\ Deps("list") = {"master"} /\ s["master"] = sel["master"]
        BY <1>1, <2>2, <3>2, DepsAreKeys DEF Stays
      <4> QED
        BY <3>1, <4>1 DEF Asked
    <3> QED
      BY <1>4, <3>1, <3>2
  <2> QED
    BY <1>3, <2>1, <2>2 DEF Shows
<1> QED
  BY <1>1, <1>8, <1>9, <1>10 DEF Effects

LEMMA InitPanelIInv == PanelInit => PanelIInv
<1> SUFFICES ASSUME PanelInit PROVE PanelIInv
  OBVIOUS
<1>1. PICK i \in Ids : sel = [k \in Keys |-> IF k = "master" THEN i ELSE 0]
  BY IdAssumption DEF PanelInit
<1>2. panel \in Names /\ sel \in Choices
  BY <1>1 DEF PanelInit, Choices
<1>3. /\ Request("list", sel) \in PanelRequests /\ Request("list", sel).effect = "list"
      /\ ~ Request("list", sel).ignore /\ Request("list", sel).asked = Asked("list", sel)
  BY <1>2, RequestIsRequest DEF Effects, Request
<1>4. AsksForSelected(requests) /\ Awaits(requests, loading)
  <2>1. loading \in [Loaders -> BOOLEAN] /\ \A e \in Loaders : loading[e] <=> e = "list"
    BY Zenon DEF PanelInit, Loaders
  <2> QED
    BY <1>3, <2>1 DEF PanelInit, AsksForSelected, Awaits, Wanted
<1>5. Shows(displayed) /\ DetailIsListed(displayed)
  BY DEF PanelInit, Shows, DetailIsListed, Effects
<1> QED
  BY <1>2, <1>4, <1>5 DEF PanelIInv

(* What is left when a request has settled.                                *)
LEMMA SettledLeaves ==
  ASSUME PanelIInv, NEW r \in requests, ~ r.ignore
  PROVE  /\ AsksForSelected(requests \ {r}) /\ r.effect \in Loaders
         /\ Awaits(requests \ {r}, [loading EXCEPT ![r.effect] = FALSE])
<1>1. AsksForSelected(requests) /\ Awaits(requests, loading) /\ r \in PanelRequests
  BY DEF PanelIInv, AsksForSelected
<1>2. r.effect \in Loaders
  BY <1>1 DEF PanelRequests
<1>3. \A q \in requests \ {r} : q.ignore \/ q.effect # r.effect
  BY <1>1, OneIsAwaited
<1>4. [loading EXCEPT ![r.effect] = FALSE] \in [Loaders -> BOOLEAN]
  BY <1>1, <1>2, Zenon DEF Awaits
<1>5. ASSUME NEW e \in Loaders
      PROVE  /\ (\E q \in requests \ {r} : q.effect = e /\ ~ q.ignore)
                  => [loading EXCEPT ![r.effect] = FALSE][e]
             /\ [loading EXCEPT ![r.effect] = FALSE][e]
                  => RowsLeftLoading(e) \/ \E q \in requests \ {r} : q.effect = e /\ ~ q.ignore
  <2>1. CASE e = r.effect
    BY <1>1, <1>3, <2>1 DEF Awaits
  <2>2. CASE e # r.effect
    BY <1>1, <2>2 DEF Awaits
  <2> QED
    BY <2>1, <2>2
<1> QED
  BY <1>1, <1>2, <1>4, <1>5 DEF Awaits, AsksForSelected

LEMMA ChooseKeyStep ==
  ASSUME PanelIInv, NEW k \in Keys, NEW id \in Ids \cup {0}, ChooseKey(k, id)
  PROVE  PanelIInv'
<1> DEFINE s == [x \in Keys |-> IF x = k THEN id
                              ELSE IF x \in PanelOf(panel).clears[k] THEN 0 ELSE sel[x]]
<1>1. /\ Change(s, {}, requests, displayed, loading) /\ UNCHANGED panel
      /\ listed' = IF panel = "database" /\ k = "master" THEN {} ELSE listed
      /\ k = "detail" => id \in listed \/ id = 0
      /\ panel \in Names /\ sel \in Choices /\ DOMAIN loading = Loaders
      /\ AsksForSelected(requests) /\ Awaits(requests, loading)
      /\ Shows(displayed) /\ DetailIsListed(displayed)
  BY DEF ChooseKey, PanelIInv, Awaits
<1>2. s \in Choices /\ s["detail"] \in {sel["detail"], 0} \cup listed
  BY <1>1 DEF Choices, Keys
<1>5. ASSUME panel = "database", k = "master" PROVE s["detail"] = 0
  <2>1. PanelOf("database").clears["master"] = {"filter", "detail"}
    <3>1. PanelOf("database") = DatabasePage
      BY DEF PanelOf
    <3>2. DatabasePage.clears = Clears({"filter", "detail"}, {}, {"filter"})
      BY DEF DatabasePage, Page
    <3> QED
      BY <3>1, <3>2 DEF Clears
  <2> QED
    BY <1>5, <2>1 DEF Keys
<1> HIDE DEF s
<1>3. /\ sel' = s /\ AsksForSelected(requests)' /\ Awaits(requests, loading)' /\ Shows(displayed)'
      /\ displayed'["list"] \in {NoAnswer, displayed["list"]}
  BY <1>1, <1>2, ChangeKeeps
<1>4. DetailIsListed(displayed)'
  BY <1>1, <1>2, <1>3, <1>5 DEF DetailIsListed
<1> QED
  BY <1>1, <1>2, <1>3, <1>4 DEF PanelIInv

LEMMA RefreshStep ==
  ASSUME PanelIInv, RefreshPanel
  PROVE  PanelIInv'
<1> DEFINE s == IF panel \in {"graph", "supplier"} THEN [sel EXCEPT !["detail"] = 0] ELSE sel
<1>1. /\ Change(s, {"list", "detail"}, requests, displayed, loading) /\ UNCHANGED <<panel, listed>>
      /\ panel \in Names /\ sel \in Choices /\ DOMAIN loading = Loaders
      /\ AsksForSelected(requests) /\ Awaits(requests, loading)
      /\ Shows(displayed) /\ DetailIsListed(displayed)
  BY DEF RefreshPanel, PanelIInv, Awaits
<1>2. s \in Choices /\ s["detail"] \in {sel["detail"], 0}
  BY <1>1 DEF Choices, Keys
<1> HIDE DEF s
<1>3. /\ sel' = s /\ AsksForSelected(requests)' /\ Awaits(requests, loading)' /\ Shows(displayed)'
      /\ displayed'["list"] \in {NoAnswer, displayed["list"]}
  BY <1>1, <1>2, ChangeKeeps DEF Effects
<1>4. DetailIsListed(displayed)'
  BY <1>1, <1>2, <1>3 DEF DetailIsListed
<1> QED
  BY <1>1, <1>2, <1>3, <1>4 DEF PanelIInv

LEMMA ExpandStep ==
  ASSUME PanelIInv, ExpandNode
  PROVE  PanelIInv'
<1>0. PICK q : q = [effect |-> "expand", asked |-> Asked("list", sel), ignore |-> FALSE]
  OBVIOUS
<1>1. /\ ~ loading["expand"] /\ loading' = [loading EXCEPT !["expand"] = TRUE]
      /\ requests' = requests \cup {q} /\ UNCHANGED <<panel, sel, displayed, listed>>
      /\ panel \in Names /\ sel \in Choices
      /\ AsksForSelected(requests) /\ Awaits(requests, loading)
  BY <1>0 DEF ExpandNode, PanelIInv
<1>2. Asked("list", sel) \in UNION {[K -> Ids \cup {0}] : K \in SUBSET Keys}
  <2>1. Deps("list") \in SUBSET Keys
    BY <1>1, DepsAreKeys DEF Effects
  <2>2. Asked("list", sel) \in [Deps("list") -> Ids \cup {0}]
    BY <1>1, <2>1 DEF Asked, Choices
  <2> QED
    BY <2>1, <2>2
<1>3. /\ q \in PanelRequests /\ q.effect = "expand" /\ ~ q.ignore /\ q.asked = Wanted("expand", sel)
      /\ "expand" \in Loaders
  BY <1>0, <1>2 DEF PanelRequests, Loaders, Wanted
<1>4. \A e \in Loaders : Wanted(e, sel)' = Wanted(e, sel)
  BY <1>1 DEF Wanted, Asked, Deps
<1>5. AsksForSelected(requests)'
  <2>1. \A r \in requests : r \in PanelRequests /\ r.effect \in Loaders
        /\ (~ r.ignore => r.asked = Wanted(r.effect, sel))
    BY <1>1 DEF AsksForSelected, PanelRequests
  <2> QED
    BY <1>1, <1>3, <1>4, <2>1 DEF AsksForSelected
<1>6. Awaits(requests, loading)'
  <2>1. loading' \in [Loaders -> BOOLEAN]
    BY <1>1, Zenon DEF Awaits
  <2>2. ASSUME NEW e \in Loaders
        PROVE  /\ (\E r \in requests' : r.effect = e /\ ~ r.ignore) => loading'[e]
               /\ loading'[e] => RowsLeftLoading(e)' \/ \E r \in requests' : r.effect = e /\ ~ r.ignore
    <3>1. CASE e = "expand"
      BY <1>1, <1>3, <3>1 DEF Awaits
    <3>2. CASE e # "expand"
      BY <1>1, <1>3, <3>2 DEF Awaits, RowsLeftLoading
    <3> QED
      BY <3>1, <3>2
  <2> QED
    BY <2>1, <2>2 DEF Awaits
<1>7. Shows(displayed)' /\ DetailIsListed(displayed)'
  <2>1. \A e \in Effects : Asked(e, sel)' = Asked(e, sel)
    BY <1>1 DEF Asked, Deps
  <2> QED
    BY <1>1, <2>1 DEF PanelIInv, Shows, DetailIsListed
<1> QED
  BY <1>1, <1>5, <1>6, <1>7 DEF PanelIInv

LEMMA VoidStep ==
  ASSUME PanelIInv, NEW r \in requests, Void(r)
  PROVE  PanelIInv'
<1>1. /\ r.ignore /\ requests' = requests \ {r} /\ UNCHANGED <<panel, sel, displayed, loading, listed>>
      /\ AsksForSelected(requests) /\ Awaits(requests, loading)
  BY DEF Void, PanelIInv
<1>2. /\ \A e \in Effects : Asked(e, sel)' = Asked(e, sel)
      /\ \A e : Wanted(e, sel)' = Wanted(e, sel)
  BY <1>1 DEF Asked, Deps, Wanted
<1>3. AsksForSelected(requests)' /\ Awaits(requests, loading)'
  BY <1>1, <1>2 DEF AsksForSelected, Awaits, RowsLeftLoading
<1>4. Shows(displayed)' /\ DetailIsListed(displayed)'
  BY <1>1, <1>2 DEF PanelIInv, Shows, DetailIsListed
<1> QED
  BY <1>1, <1>3, <1>4 DEF PanelIInv

LEMMA ListArrivesStep ==
  ASSUME PanelIInv, NEW r \in requests, ListArrives(r)
  PROVE  PanelIInv'
<1>1. PICK items \in SUBSET Ids :
         LET s == [sel EXCEPT !["detail"] = Adopted(PanelOf(panel).adopts, items)]
         IN  /\ listed' = items
             /\ Change(s, {}, requests \ {r}, [displayed EXCEPT !["list"] = r.asked],
                       [loading EXCEPT !["list"] = FALSE])
  BY DEF ListArrives
<1> DEFINE d == Adopted(PanelOf(panel).adopts, items)
           s == [sel EXCEPT !["detail"] = d]
           shows == [displayed EXCEPT !["list"] = r.asked]
<1>2. /\ ~ r.ignore /\ r.effect = "list" /\ panel' = panel /\ panel \in Names /\ sel \in Choices
      /\ AsksForSelected(requests) /\ Awaits(requests, loading) /\ DOMAIN loading = Loaders
      /\ Shows(displayed)
  BY DEF ListArrives, PanelIInv, Awaits
<1>3. AsksForSelected(requests \ {r}) /\ Awaits(requests \ {r}, [loading EXCEPT !["list"] = FALSE])
  BY <1>2, SettledLeaves
<1>4. Shows(shows)
  BY <1>2 DEF Shows, AsksForSelected, Wanted, Effects
<1>5. /\ d \in Ids \cup {0} /\ (PanelOf(panel).adopts = "keep listed" => d \in items \cup {0})
  <2>1. items # {} => (CHOOSE i \in items : TRUE) \in items
    OBVIOUS
  <2>2. sel["detail"] \in Ids \cup {0}
    BY <1>2 DEF Choices, Keys
  <2> QED
    BY <2>1, <2>2 DEF Adopted
<1> HIDE DEF d, shows
<1>6. s \in Choices /\ s["detail"] = d
  BY <1>2, <1>5 DEF Choices, Keys
<1> HIDE DEF s
<1>7. Change(s, {}, requests \ {r}, shows, [loading EXCEPT !["list"] = FALSE])
  BY <1>1 DEF s, d, shows
<1>8. /\ sel' = s /\ AsksForSelected(requests)' /\ Awaits(requests, loading)' /\ Shows(displayed)'
  BY <1>2, <1>3, <1>4, <1>6, <1>7, ChangeKeeps
<1>9. DetailIsListed(displayed)'
  BY <1>1, <1>2, <1>5, <1>6, <1>8 DEF DetailIsListed
<1> QED
  BY <1>2, <1>6, <1>8, <1>9 DEF PanelIInv

LEMMA OtherArrivesStep ==
  ASSUME PanelIInv, NEW r \in requests, OtherArrives(r)
  PROVE  PanelIInv'
<1>1. /\ ~ r.ignore /\ r.effect # "list" /\ requests' = requests \ {r}
      /\ loading' = [loading EXCEPT ![r.effect] = FALSE]
      /\ displayed' = IF r.effect = "detail"
                        THEN [displayed EXCEPT !["detail"] = r.asked] ELSE displayed
      /\ UNCHANGED <<panel, sel, listed>>
      /\ AsksForSelected(requests) /\ Shows(displayed) /\ DetailIsListed(displayed)
  BY DEF OtherArrives, PanelIInv
<1>2. AsksForSelected(requests \ {r}) /\ Awaits(requests \ {r}, loading')
  BY <1>1, SettledLeaves
<1>3. /\ \A e \in Effects : Asked(e, sel)' = Asked(e, sel)
      /\ \A e : Wanted(e, sel)' = Wanted(e, sel)
  BY <1>1 DEF Asked, Deps, Wanted
<1>4. AsksForSelected(requests)' /\ Awaits(requests, loading)'
  BY <1>1, <1>2, <1>3 DEF AsksForSelected, Awaits, RowsLeftLoading
<1>5. Shows(displayed)' /\ DetailIsListed(displayed)'
  <2>1. r.asked = Wanted(r.effect, sel)
    BY <1>1 DEF AsksForSelected
  <2> QED
    BY <1>1, <1>3, <2>1 DEF Shows, DetailIsListed, Wanted, Effects
<1> QED
  BY <1>1, <1>4, <1>5 DEF PanelIInv

LEMMA RequestFailsStep ==
  ASSUME PanelIInv, NEW r \in requests, RequestFails(r)
  PROVE  PanelIInv'
<1> DEFINE s == IF panel = "documents" /\ r.effect = "list" THEN [sel EXCEPT !["detail"] = 0] ELSE sel
           shows == IF panel = "contents" /\ r.effect = "list"
                    THEN [displayed EXCEPT !["list"] = NoAnswer] ELSE displayed
<1>1. /\ ~ r.ignore /\ panel' = panel /\ listed' = listed /\ panel \in Names /\ sel \in Choices
      /\ Change(s, {}, requests \ {r}, shows, [loading EXCEPT ![r.effect] = FALSE])
      /\ DOMAIN loading = Loaders /\ Shows(displayed) /\ DetailIsListed(displayed)
  BY DEF RequestFails, PanelIInv, Awaits
<1>2. AsksForSelected(requests \ {r}) /\ Awaits(requests \ {r}, [loading EXCEPT ![r.effect] = FALSE])
  BY <1>1, SettledLeaves
<1>3. Shows(shows) /\ shows["list"] \in {NoAnswer, displayed["list"]}
  BY <1>1 DEF Shows, Effects
<1>4. s \in Choices /\ s["detail"] \in {sel["detail"], 0}
  BY <1>1 DEF Choices, Keys
<1> HIDE DEF s, shows
<1>5. /\ sel' = s /\ AsksForSelected(requests)' /\ Awaits(requests, loading)' /\ Shows(displayed)'
      /\ displayed'["list"] \in {NoAnswer, shows["list"]}
  BY <1>1, <1>2, <1>3, <1>4, ChangeKeeps
<1>6. DetailIsListed(displayed)'
  BY <1>1, <1>3, <1>4, <1>5 DEF DetailIsListed
<1> QED
  BY <1>1, <1>4, <1>5, <1>6 DEF PanelIInv

(* Every reply, failure and choice of the user keeps the invariant of a    *)
(* panel.                                                                  *)
THEOREM PanelInductive == PanelSpec => []PanelIInv
<1>1. ASSUME PanelIInv, [PanelNext]_panelVars PROVE PanelIInv'
  <2>1. CASE UNCHANGED panelVars
    <3>1. /\ \A e : Asked(e, sel)' = Asked(e, sel) /\ Wanted(e, sel)' = Wanted(e, sel)
      BY <2>1 DEF Asked, Deps, Wanted, panelVars
    <3> QED
      BY ZenonT(40), <1>1, <2>1, <3>1 DEF panelVars, PanelIInv, AsksForSelected, Awaits, Shows, DetailIsListed,
         RowsLeftLoading
  <2> QED
    BY <1>1, <2>1, RefreshStep, ExpandStep, ChooseKeyStep, VoidStep, ListArrivesStep, OtherArrivesStep,
       RequestFailsStep DEF PanelNext
<1> QED
  BY <1>1, InitPanelIInv, PTL DEF PanelSpec

(* In whatever order replies come, a panel never shows what was not asked  *)
(* for by its present selection, and it says that it is loading while a    *)
(* reply it will use is under way and only then, but for the rows of a     *)
(* database of which no table is selected.                                 *)
THEOREM PanelsAreTrue == PanelSpec => []PanelIsTrue
<1>1. PanelIInv => PanelIsTrue
  <2> SUFFICES ASSUME PanelIInv PROVE PanelIsTrue
    OBVIOUS
  <2>1. ShownIsSelected
    BY DEF PanelIInv, Shows, DetailIsListed, ShownIsSelected
  <2>2. LoadingIsTrue
    BY DEF PanelIInv, Awaits, LoadingIsTrue
  <2> QED
    BY <2>1, <2>2 DEF PanelIsTrue
<1> QED
  BY <1>1, PanelInductive, PTL

-----------------------------------------------------------------------------
(***************************************************************************)
(* The page of the chat.                                                   *)
(***************************************************************************)
RestoreSteps == {"restore list", "restore detail", "select"}
SendSteps == {"create", "stream", "delete"}
Holds(c) == Current(c) /\ c.step # "refresh"

(* No call is newer than the page, and a conversation that was created has *)
(* an id.                                                                  *)
Named(c) == c.step = "create" /\ c.served => c.id \in Sessions
CallsAreKnown == \A c \in calls : c.version <= pageVersion /\ Named(c)
(* Of the calls the page waits for there is one at most, and the page says *)
(* which kind it is.                                                       *)
OneCallHolds == \A c, d \in calls : Holds(c) /\ Holds(d) => c = d
CallsAreShown ==
    \A c \in calls : Current(c) =>
        /\ mounted
        /\ c.step \in RestoreSteps => restoring /\ ~chatBusy
        /\ c.step \in SendSteps => chatBusy /\ ~restoring
FlagsAreCalls ==
    mounted => /\ restoring => \E c \in calls : Current(c) /\ c.step \in RestoreSteps
               /\ chatBusy => \E c \in calls : Current(c) /\ c.step \in SendSteps

(* What is being restored is what the key said, and says unless another    *)
(* tab has changed it; before that nothing is shown.                       *)
AimsAtKey ==
    \A c \in calls : Current(c) =>
        /\ c.step = "restore list" => session = NoSession
        /\ c.step = "restore detail" => c.id = remembered \/ foreign

PageIInv ==
    /\ ChatPageTypeOK /\ CallsAreKnown /\ OneCallHolds /\ CallsAreShown /\ FlagsAreCalls
    /\ ReloadReturnsHere /\ AimsAtKey

LEMMA CallIsCall ==
  ASSUME NEW step \in Steps, NEW v \in Nat, NEW id, id \in Sessions \/ id = NoSession
  PROVE  /\ Call(step, v, id) \in Calls /\ Call(step, v, id).step = step
         /\ Call(step, v, id).version = v /\ Call(step, v, id).id = id /\ Named(Call(step, v, id))
BY DEF Call, Calls, Named

LEMMA NewIsCall ==
  ASSUME NEW v \in Nat, NEW step \in {"restore list", "refresh"}
  PROVE  LET c == Call(step, v, NoSession)
         IN  c \in Calls /\ c.step = step /\ c.version = v /\ Named(c)
BY DEF Call, Calls, Steps, Named

LEMMA InitPageIInv == ChatPageInit => PageIInv
<1> SUFFICES ASSUME ChatPageInit PROVE PageIInv
  OBVIOUS
<1>1. PICK c \in Calls : /\ c.step = "restore list" /\ c.version = pageVersion /\ Named(c)
                         /\ pageVersion \in Nat
                         /\ calls = {c}
  BY NewIsCall DEF ChatPageInit
<1>3. ChatPageTypeOK
  BY <1>1 DEF ChatPageInit, ChatPageTypeOK
<1>4. CallsAreKnown /\ OneCallHolds
  <2>1. c.version = pageVersion /\ Named(c) /\ pageVersion \in Nat /\ calls = {c}
    BY <1>1
  <2>2. CallsAreKnown
    BY <2>1 DEF CallsAreKnown
  <2>3. OneCallHolds
    BY <2>1 DEF OneCallHolds
  <2> QED
    BY <2>2, <2>3
<1>6. mounted /\ restoring /\ ~ chatBusy
  BY DEF ChatPageInit
<1>7. CallsAreShown /\ FlagsAreCalls
  BY <1>1, <1>6 DEF CallsAreShown, FlagsAreCalls, Current, RestoreSteps, SendSteps
<1>5. ReloadReturnsHere /\ AimsAtKey
  BY <1>1 DEF ChatPageInit, ReloadReturnsHere, AimsAtKey
<1> QED
  BY <1>3, <1>4, <1>5, <1>7 DEF PageIInv

LEMMA AbortedCalls ==
  ASSUME ChatPageTypeOK
  PROVE  /\ Aborted \subseteq Calls
         /\ \A d \in Aborted : \E c \in calls :
               /\ d.step = c.step /\ d.version = c.version /\ d.id = c.id /\ (Named(c) => Named(d))
               /\ d = [c EXCEPT !.aborted = (@ \/ c.version = pageVersion)]
         /\ \A c \in calls : \E d \in Aborted :
               d = [c EXCEPT !.aborted = (@ \/ c.version = pageVersion)]
               /\ d.step = c.step /\ d.version = c.version
<1>1. ASSUME NEW c \in calls
      PROVE  LET d == [c EXCEPT !.aborted = (@ \/ c.version = pageVersion)]
             IN  /\ d \in Calls /\ d.step = c.step /\ d.version = c.version /\ d.id = c.id
                 /\ (Named(c) => Named(d))
  <2>1. c \in Calls /\ (c.aborted \/ c.version = pageVersion) \in BOOLEAN
    BY DEF ChatPageTypeOK
  <2>2. ASSUME NEW b \in BOOLEAN
        PROVE  LET d == [c EXCEPT !.aborted = b]
               IN  /\ d \in Calls /\ d.step = c.step /\ d.version = c.version /\ d.id = c.id
                   /\ (Named(c) => Named(d))
    BY <2>1, Zenon DEF Calls, Named
  <2>3. [c EXCEPT !.aborted = (@ \/ c.version = pageVersion)]
          = [c EXCEPT !.aborted = (c.aborted \/ c.version = pageVersion)]
    BY <2>1 DEF Calls
  <2> QED
    BY <2>1, <2>2, <2>3
<1> QED
  BY <1>1, ZenonT(40) DEF Aborted

(* The user acts: the calls there were are no longer current.              *)
LEMMA UserActs ==
  ASSUME PageIInv, Acts, NEW new \in SUBSET Calls, calls' = Aborted \cup new,
         \A c, d \in new : c = d,
         \A c \in new : /\ c.version = pageVersion + 1 /\ Named(c) /\ mounted'
                        /\ c.step \in {"select", "create", "stream", "delete"}
                        /\ c.step = "select" => restoring' /\ ~ chatBusy'
                        /\ c.step # "select" => chatBusy' /\ ~ restoring'
                        /\ c.step = "stream" => c.id = session',
         mounted' /\ restoring' => \E c \in new : c.step = "select",
         mounted' /\ chatBusy' => \E c \in new : c.step # "select",
         mounted' /\ session' # NoSession => remembered' = session' \/ foreign',
         exists' = exists, options' = options,
         session' \in Sessions \cup {NoSession}, remembered' \in Sessions \cup {NoSession},
         foreign' \in BOOLEAN, chatBusy' \in BOOLEAN, restoring' \in BOOLEAN, mounted' \in BOOLEAN
  PROVE  PageIInv'
<1>1. pageVersion \in Nat /\ pageVersion' = pageVersion + 1
  BY DEF PageIInv, ChatPageTypeOK, Acts
<1>2. /\ Aborted \subseteq Calls
      /\ \A d \in Aborted : d.version <= pageVersion /\ Named(d)
  BY AbortedCalls DEF PageIInv, CallsAreKnown
<1>3. \A d \in Aborted : d.version # pageVersion + 1
  <2>1. \A d \in Aborted : d.version \in Nat
    BY <1>2 DEF Calls
  <2> QED
    BY <1>1, <1>2, <2>1
<1>4. ChatPageTypeOK'
  BY <1>1, <1>2 DEF PageIInv, ChatPageTypeOK
<1>5. CallsAreKnown'
  <2>1. \A d \in Aborted : d.version <= pageVersion + 1
    <3>1. \A d \in Aborted : d.version \in Nat
      BY <1>2 DEF Calls
    <3> QED
      BY <1>1, <1>2, <3>1
  <2> QED
    BY <1>1, <1>2, <2>1 DEF CallsAreKnown
<1>6. \A c \in calls' : c.version = pageVersion' => c \in new
  BY <1>1, <1>3
<1>7. OneCallHolds' /\ CallsAreShown' /\ FlagsAreCalls'
  BY <1>1, <1>6 DEF OneCallHolds, CallsAreShown, FlagsAreCalls, Holds, Current, RestoreSteps, SendSteps
<1>8. ReloadReturnsHere' /\ AimsAtKey'
  BY <1>6 DEF ReloadReturnsHere, AimsAtKey, Current
<1> QED
  BY <1>4, <1>5, <1>7, <1>8 DEF PageIInv

(* Calls change, but not in what they are doing for the page.              *)
LEMMA CallsStay ==
  ASSUME PageIInv, calls' \subseteq Calls, UNCHANGED <<remembered, foreign, page>>, exists' \subseteq Sessions,
         \A d \in calls' : \E c \in calls :
            /\ d.step = c.step /\ d.version = c.version /\ (c.step # "create" => d.id = c.id)
            /\ Named(d),
         \A c \in calls : \E d \in calls' : d.step = c.step /\ d.version = c.version,
         \A c, d \in calls' : Holds(c)' /\ Holds(d)' => c = d
  PROVE  PageIInv'
<1>1. ChatPageTypeOK' /\ pageVersion' = pageVersion
  BY DEF PageIInv, ChatPageTypeOK, page
<1>2. CallsAreKnown' /\ CallsAreShown'
  BY <1>1 DEF PageIInv, CallsAreKnown, CallsAreShown, Current, page
<1>3. OneCallHolds'
  BY DEF OneCallHolds
<1>4. FlagsAreCalls'
  BY <1>1 DEF PageIInv, FlagsAreCalls, Current, RestoreSteps, SendSteps, page
<1>5. UNCHANGED <<mounted, session, remembered, foreign>> /\ pageVersion' = pageVersion
  BY DEF page
<1>6. ReloadReturnsHere'
  BY <1>5 DEF PageIInv, ReloadReturnsHere, Current
<1>7. AimsAtKey'
  <2>1. ASSUME NEW d \in calls', Current(d)'
        PROVE  /\ (d.step = "restore list" => session = NoSession)
               /\ (d.step = "restore detail" => d.id = remembered \/ foreign)
    <3>1. PICK c \in calls : d.step = c.step /\ d.version = c.version /\ (c.step # "create" => d.id = c.id)
      OBVIOUS
    <3>2. Current(c)
      BY <1>5, <2>1, <3>1 DEF Current
    <3>3. /\ (c.step = "restore list" => session = NoSession)
          /\ (c.step = "restore detail" => c.id = remembered \/ foreign)
      BY <3>2 DEF PageIInv, AimsAtKey
    <3> QED
      BY <3>1, <3>3
  <2>2. \A d \in calls' : Current(d)' =>
          /\ (d.step = "restore list" => session' = NoSession)
          /\ (d.step = "restore detail" => d.id = remembered' \/ foreign')
    <3>1. session' = session /\ remembered' = remembered /\ foreign' = foreign
      BY <1>5
    <3> SUFFICES ASSUME NEW d \in calls', Current(d)'
                 PROVE  /\ (d.step = "restore list" => session' = NoSession)
                        /\ (d.step = "restore detail" => d.id = remembered' \/ foreign')
      OBVIOUS
    <3>2. /\ (d.step = "restore list" => session = NoSession)
          /\ (d.step = "restore detail" => d.id = remembered \/ foreign)
      BY <2>1
    <3>3. d.step = "restore list" => session' = NoSession
      BY <3>1, <3>2
    <3>4. d.step = "restore detail" => d.id = remembered' \/ foreign'
      <4>1. CASE foreign
        BY Zenon, <3>1, <4>1
      <4>2. CASE ~ foreign
        BY Zenon, <3>1, <3>2, <4>2
      <4> QED
        BY <4>1, <4>2
    <3> QED
      BY <3>3, <3>4
  <2> QED
    BY <2>2 DEF AimsAtKey
<1> QED
  BY <1>1, <1>2, <1>3, <1>4, <1>6, <1>7 DEF PageIInv

LEMMA LeaveStep ==
  ASSUME PageIInv, Leave
  PROVE  PageIInv'
<1>1. {} \in SUBSET Calls /\ calls' = Aborted \cup {}
  BY DEF Leave
<1> QED
  BY <1>1, UserActs DEF Leave, PageIInv, ChatPageTypeOK

LEMMA SelectStep ==
  ASSUME PageIInv, NEW id \in options \cup {NoSession}, SelectSession(id)
  PROVE  PageIInv'
<1>1. /\ mounted /\ ~ chatBusy /\ ~ restoring /\ Acts
      /\ UNCHANGED <<exists, options, chatBusy, mounted>>
      /\ id \in Sessions \cup {NoSession} /\ pageVersion + 1 \in Nat /\ ChatPageTypeOK
      /\ ReloadReturnsHere
  BY DEF SelectSession, Selectable, PageIInv, ChatPageTypeOK
<1>2. CASE id = NoSession
  <2>1. {} \in SUBSET Calls /\ calls' = Aborted \cup {}
    BY <1>2 DEF SelectSession
  <2>2. session' = NoSession /\ restoring' = restoring
    BY <1>2 DEF SelectSession
  <2> QED
    <3>1. /\ session' \in Sessions \cup {NoSession} /\ foreign' \in BOOLEAN
          /\ remembered' \in Sessions \cup {NoSession}
      BY <1>1, <1>2, <2>2 DEF SelectSession, Remember, ChatPageTypeOK
    <3>2. ~ (mounted' /\ restoring') /\ ~ (mounted' /\ chatBusy') /\ chatBusy' \in BOOLEAN
          /\ restoring' \in BOOLEAN /\ mounted' \in BOOLEAN
      BY <1>1, <2>2 DEF ChatPageTypeOK
    <3> QED
      BY <1>1, <2>1, <2>2, <3>1, <3>2, UserActs
<1>3. CASE id # NoSession
  <2> DEFINE c == Call("select", pageVersion + 1, id)
  <2>1. c \in Calls /\ c.step = "select" /\ c.version = pageVersion + 1 /\ Named(c)
    <3>1. "select" \in Steps
      BY DEF Steps
    <3> QED
      BY <1>1, <3>1, CallIsCall
  <2>2. calls' = Aborted \cup {c} /\ restoring' = TRUE /\ UNCHANGED <<session, remembered, foreign>>
    BY <1>3 DEF SelectSession
  <2> HIDE DEF c
  <2>3. c \in {c} /\ {c} \in SUBSET Calls
    BY <2>1
  <2> QED
    BY <1>1, <2>1, <2>2, <2>3, UserActs DEF ChatPageTypeOK, ReloadReturnsHere
<1> QED
  BY <1>2, <1>3

LEMMA SendStep ==
  ASSUME PageIInv, SendQuestion \/ DeleteConversation
  PROVE  PageIInv'
<1>1. /\ mounted /\ ~ chatBusy /\ ~ restoring /\ Acts /\ chatBusy' = TRUE
      /\ UNCHANGED <<exists, remembered, foreign, session, options, restoring, mounted>>
      /\ session \in Sessions \cup {NoSession} /\ pageVersion + 1 \in Nat /\ ChatPageTypeOK
      /\ ReloadReturnsHere
  BY DEF SendQuestion, DeleteConversation, PageIInv, ChatPageTypeOK
<1>2. PICK step \in SendSteps : calls' = Aborted \cup {Call(step, pageVersion + 1, session)}
  BY DEF SendQuestion, DeleteConversation, SendSteps
<1> DEFINE c == Call(step, pageVersion + 1, session)
<1>3. c \in Calls /\ c.step = step /\ c.version = pageVersion + 1 /\ Named(c) /\ c.id = session
  <2>1. step \in Steps
    BY DEF Steps, SendSteps
  <2> QED
    BY <1>1, <2>1, CallIsCall
<1> HIDE DEF c
<1>4. c \in {c} /\ {c} \in SUBSET Calls /\ calls' = Aborted \cup {c}
  BY <1>2, <1>3 DEF c
<1> QED
  BY <1>1, <1>3, <1>4, UserActs DEF ChatPageTypeOK, ReloadReturnsHere, SendSteps

LEMMA ReturnStep ==
  ASSUME PageIInv, Return
  PROVE  PageIInv'
<1>1. PICK c \in Calls : /\ c.step = "restore list" /\ c.version = pageVersion /\ Named(c)
                         /\ c = Call("restore list", pageVersion, NoSession)
  BY NewIsCall DEF PageIInv, ChatPageTypeOK
<1>2. /\ ~mounted /\ mounted' = TRUE /\ session' = NoSession /\ options' = {}
      /\ chatBusy' = FALSE /\ restoring' = TRUE /\ calls' = calls \cup {c}
      /\ UNCHANGED <<exists, remembered, foreign, pageVersion>>
  BY <1>1 DEF Return
<1>3. pageVersion \in Nat /\ \A d \in calls : d.version # pageVersion
  BY <1>2 DEF PageIInv, CallsAreShown, Current, ChatPageTypeOK
<1>4. ChatPageTypeOK' /\ CallsAreKnown'
  <2>1. ChatPageTypeOK'
    BY <1>1, <1>2 DEF PageIInv, ChatPageTypeOK
  <2>2. \A d \in calls' : d.version <= pageVersion /\ Named(d)
    <3>1. \A d \in calls : d.version <= pageVersion /\ Named(d)
      BY DEF PageIInv, CallsAreKnown
    <3>2. c.version <= pageVersion /\ Named(c)
      <4>1. c.version = pageVersion /\ Named(c)
        BY <1>1
      <4> QED
        BY <1>3, <4>1
    <3> QED
      BY <1>2, <3>1, <3>2
  <2> QED
    BY <1>2, <2>1, <2>2 DEF CallsAreKnown
<1>5. \A d \in calls' : d.version = pageVersion' => d = c
  BY <1>2, <1>3
<1>6. OneCallHolds' /\ CallsAreShown' /\ FlagsAreCalls' /\ ReloadReturnsHere' /\ AimsAtKey'
  BY <1>1, <1>2, <1>5
     DEF OneCallHolds, CallsAreShown, FlagsAreCalls, ReloadReturnsHere, AimsAtKey, Holds, Current,
     RestoreSteps, SendSteps
<1> QED
  BY <1>4, <1>6 DEF PageIInv

LEMMA StopStep ==
  ASSUME PageIInv, StopGenerating
  PROVE  PageIInv'
<1>1. calls' = Aborted /\ UNCHANGED <<exists, remembered, foreign, page>> /\ ChatPageTypeOK
  BY DEF StopGenerating, PageIInv
<1>2. /\ Aborted \subseteq Calls /\ exists' \subseteq Sessions
      /\ \A d \in Aborted : \E c \in calls :
            /\ d.step = c.step /\ d.version = c.version /\ (c.step # "create" => d.id = c.id)
            /\ Named(d)
      /\ \A c \in calls : \E d \in Aborted : d.step = c.step /\ d.version = c.version
  BY <1>1, AbortedCalls DEF PageIInv, CallsAreKnown, ChatPageTypeOK
<1>3. ASSUME NEW x \in Aborted, NEW y \in Aborted, Holds(x)', Holds(y)' PROVE x = y
  <2>1. PICK c \in calls : /\ x.step = c.step /\ x.version = c.version
                           /\ x = [c EXCEPT !.aborted = (@ \/ c.version = pageVersion)]
    BY <1>1, AbortedCalls
  <2>2. PICK d \in calls : /\ y.step = d.step /\ y.version = d.version
                           /\ y = [d EXCEPT !.aborted = (@ \/ d.version = pageVersion)]
    BY <1>1, AbortedCalls
  <2>3. Holds(c) /\ Holds(d)
    BY <1>1, <1>3, <2>1, <2>2 DEF Holds, Current, page
  <2>4. c = d
    BY <2>3 DEF PageIInv, OneCallHolds
  <2> QED
    BY <2>1, <2>2, <2>4
<1> QED
  BY <1>1, <1>2, <1>3, CallsStay

LEMMA ServeStep ==
  ASSUME PageIInv, NEW c \in calls, Serve(c)
  PROVE  PageIInv'
<1>1. PICK id \in Sessions :
         /\ c.step = "create" => id \notin exists
         /\ c.step # "create" => id = c.id \/ c.id = NoSession
         /\ exists' = CASE c.step = "create" -> exists \cup {id}
                        [] c.step = "delete" -> exists \ {id}
                        [] OTHER -> exists
         /\ calls' = (calls \ {c}) \cup
              {[c EXCEPT !.served = TRUE, !.id = IF c.step = "create" THEN id ELSE @,
                         !.found = Carried(c, exists')]}
         /\ UNCHANGED <<remembered, foreign, page>>
  BY DEF Serve
<1>2. exists' \subseteq Sessions /\ c \in Calls /\ pageVersion' = pageVersion
  BY <1>1 DEF PageIInv, ChatPageTypeOK, page
<1>8. PICK reply \in SUBSET Sessions : reply = Carried(c, exists')
  BY <1>2 DEF Carried
<1>3. PICK d \in Calls : /\ calls' = (calls \ {c}) \cup {d} /\ d.step = c.step /\ d.version = c.version
                         /\ d.id = IF c.step = "create" THEN id ELSE c.id
                         /\ Named(d)
  <2> DEFINE i == IF c.step = "create" THEN id ELSE c.id
  <2>1. i \in Sessions \cup {NoSession}
    BY <1>2 DEF Calls
  <2>2. ASSUME NEW j \in Sessions \cup {NoSession}, NEW found \in SUBSET Sessions
        PROVE  LET d == [c EXCEPT !.served = TRUE, !.id = j, !.found = found]
               IN  d \in Calls /\ d.step = c.step /\ d.version = c.version /\ d.id = j
    BY <1>2 DEF Calls
  <2>3. [c EXCEPT !.served = TRUE, !.id = IF c.step = "create" THEN id ELSE @, !.found = reply]
          = [c EXCEPT !.served = TRUE, !.id = i, !.found = reply]
    BY <1>2 DEF Calls
  <2> HIDE DEF i
  <2>4. [c EXCEPT !.served = TRUE, !.id = i, !.found = reply] \in Calls
    BY <1>2, <2>1, <2>2
  <2>5. calls' = (calls \ {c}) \cup {[c EXCEPT !.served = TRUE, !.id = i, !.found = reply]}
    BY <1>1, <1>8, <2>3
  <2> QED
    <3>1. PICK d \in Calls : d = [c EXCEPT !.served = TRUE, !.id = i, !.found = reply]
      BY <2>4
    <3>2. d.step = c.step /\ d.version = c.version /\ d.id = i
      BY <1>2, <2>1, <2>2, <3>1
    <3>3. i = IF c.step = "create" THEN id ELSE c.id
      BY DEF i
    <3>4. Named(d)
      BY <3>2, <3>3 DEF Named
    <3> QED
      BY <2>5, <3>1, <3>2, <3>3, <3>4
<1>4. calls' \subseteq Calls
  BY <1>3 DEF PageIInv, ChatPageTypeOK
<1>5. \A x \in calls' : \E y \in calls :
            /\ x.step = y.step /\ x.version = y.version /\ (y.step # "create" => x.id = y.id)
            /\ Named(x)
  BY <1>3 DEF PageIInv, CallsAreKnown
<1>6. \A x \in calls : \E y \in calls' : y.step = x.step /\ y.version = x.version
  BY <1>3
<1>7. ASSUME NEW x \in calls', NEW y \in calls', Holds(x)', Holds(y)' PROVE x = y
  <2>1. \A z \in calls' : Holds(z)' => z = d \/ (z \in calls /\ z # c /\ Holds(z))
    BY <1>2, <1>3 DEF Holds, Current
  <2>2. Holds(d)' => Holds(c)
    BY <1>2, <1>3 DEF Holds, Current
  <2> QED
    BY <1>7, <2>1, <2>2 DEF PageIInv, OneCallHolds
<1> QED
  BY <1>1, <1>2, <1>4, <1>5, <1>6, <1>7, CallsStay

(* A call that the page does not wait for returns.                         *)
LEMMA SilentStep ==
  ASSUME PageIInv, NEW c \in calls, ~ Holds(c), calls' = calls \ {c},
         UNCHANGED <<exists, remembered, foreign, session, chatBusy, restoring, mounted, pageVersion>>,
         options' \subseteq Sessions
  PROVE  PageIInv'
<1>1. ChatPageTypeOK' /\ CallsAreKnown' /\ CallsAreShown'
  BY DEF PageIInv, ChatPageTypeOK, CallsAreKnown, CallsAreShown, Current
<1>2. OneCallHolds' /\ ReloadReturnsHere' /\ AimsAtKey'
  BY DEF PageIInv, OneCallHolds, ReloadReturnsHere, AimsAtKey, Holds, Current
<1>3. FlagsAreCalls'
  BY DEF PageIInv, FlagsAreCalls, Holds, Current, RestoreSteps, SendSteps
<1> QED
  BY <1>1, <1>2, <1>3 DEF PageIInv

(* The call the page waits for returns, and perhaps another one follows.   *)
LEMMA HeldReturns ==
  ASSUME PageIInv, NEW c \in calls, Holds(c), NEW new \in SUBSET Calls, calls' = (calls \ {c}) \cup new,
         \A x, y \in new : x = y,
         \A x \in new : /\ x.version = pageVersion /\ Named(x)
                        /\ x.step \in {"restore detail", "stream", "refresh"}
                        /\ x.step = "restore detail" => restoring' /\ ~ chatBusy'
                                                        /\ x.id = remembered'
                        /\ x.step = "stream" => chatBusy' /\ ~ restoring' /\ x.id = session',
         restoring' => \E x \in new : x.step = "restore detail",
         chatBusy' => \E x \in new : x.step = "stream",
         session' # NoSession => remembered' = session' \/ foreign',
         UNCHANGED <<exists, mounted, pageVersion>>, options' \subseteq Sessions,
         session' \in Sessions \cup {NoSession}, remembered' \in Sessions \cup {NoSession},
         foreign' \in BOOLEAN, chatBusy' \in BOOLEAN, restoring' \in BOOLEAN
  PROVE  PageIInv'
<1>1. \A x \in calls' : Holds(x)' => x \in new
  BY DEF PageIInv, OneCallHolds, Holds, Current
<1>2. mounted /\ pageVersion \in Nat /\ c.version = pageVersion
  BY DEF PageIInv, CallsAreShown, ChatPageTypeOK, Holds, Current
<1>3. ChatPageTypeOK' /\ CallsAreKnown'
  BY <1>2 DEF PageIInv, ChatPageTypeOK, CallsAreKnown
<1>4. OneCallHolds'
  BY <1>1 DEF OneCallHolds
<1>5. CallsAreShown'
  BY <1>1, <1>2 DEF CallsAreShown, Holds, Current, RestoreSteps, SendSteps
<1>6. FlagsAreCalls'
  BY <1>2 DEF FlagsAreCalls, Current, RestoreSteps, SendSteps
<1>7. ReloadReturnsHere' /\ AimsAtKey'
  BY <1>1 DEF ReloadReturnsHere, AimsAtKey, Holds, Current
<1> QED
  BY <1>3, <1>4, <1>5, <1>6, <1>7 DEF PageIInv

LEMMA RestoreListStep ==
  ASSUME PageIInv, NEW c \in calls, RestoreList(c), UNCHANGED exists
  PROVE  PageIInv'
<1>1. /\ c.step = "restore list" /\ c \in Calls /\ ChatPageTypeOK /\ ReloadReturnsHere
      /\ c.found \in SUBSET Sessions
  BY DEF RestoreList, PageIInv, ChatPageTypeOK, Calls
<1>2. CASE ~ Current(c)
  <2>1. ~ Holds(c) /\ calls' = calls \ {c} /\ UNCHANGED <<remembered, foreign, page>>
    BY <1>2 DEF RestoreList, Silent, Returns, Holds
  <2> QED
    BY <1>1, <2>1, SilentStep DEF page, ChatPageTypeOK
<1>3. CASE Current(c)
  <2>1. Holds(c) /\ mounted /\ ~ chatBusy /\ chatBusy \in BOOLEAN /\ restoring \in BOOLEAN
        /\ session \in Sessions \cup {NoSession} /\ (session # NoSession => remembered = session \/ foreign)
        /\ remembered \in Sessions \cup {NoSession} /\ pageVersion \in Nat /\ session = NoSession
    BY <1>1, <1>3
       DEF PageIInv, CallsAreShown, RestoreSteps, Holds, ChatPageTypeOK, ReloadReturnsHere, AimsAtKey
  <2>2. UNCHANGED <<remembered, session, chatBusy, mounted, pageVersion>> /\ foreign' \in BOOLEAN
    BY <1>1, <1>3 DEF RestoreList, ChatPageTypeOK
  <2>3. options' \subseteq Sessions
    BY <1>1, <1>3 DEF RestoreList, ChatPageTypeOK
  <2>4. CASE calls' = calls \ {c} /\ restoring' = FALSE
    <3>1. {} \in SUBSET Calls /\ calls' = (calls \ {c}) \cup {}
      BY <2>4
    <3> QED
      BY <2>1, <2>2, <2>3, <2>4, <3>1, HeldReturns
  <2>5. CASE remembered \in c.found /\ restoring' = restoring
             /\ calls' = (calls \ {c}) \cup {Call("restore detail", pageVersion, remembered)}
    <3>1. PICK d \in Calls : /\ d = Call("restore detail", pageVersion, remembered)
                             /\ d.step = "restore detail"
                             /\ d.version = pageVersion /\ Named(d) /\ d.id = remembered
      <4>1. "restore detail" \in Steps /\ remembered \in Sessions
        BY <1>1, <2>5 DEF Steps
      <4> QED
        <5>1. LET new == Call("restore detail", pageVersion, remembered)
              IN  /\ new \in Calls /\ new.step = "restore detail"
                  /\ new.version = pageVersion /\ new.id = remembered /\ Named(new)
          BY <2>1, <4>1, CallIsCall
        <5> QED
          BY <5>1
    <3>2. {d} \in SUBSET Calls /\ calls' = (calls \ {c}) \cup {d}
      BY <2>5, <3>1
    <3>3. restoring
      BY <1>1, <1>3 DEF PageIInv, CallsAreShown, RestoreSteps
    <3>4. /\ \A x \in {d} : /\ x.version = pageVersion /\ Named(x)
                            /\ x.step = "restore detail" /\ restoring' /\ ~ chatBusy'
                            /\ x.id = remembered'
          /\ \A x, y \in {d} : x = y
          /\ \E x \in {d} : x.step = "restore detail"
      BY <2>1, <2>2, <2>5, <3>1, <3>3
    <3>5. /\ ~ chatBusy' /\ chatBusy' \in BOOLEAN /\ restoring' \in BOOLEAN
          /\ session' # NoSession => remembered' = session' \/ foreign'
          /\ session' \in Sessions \cup {NoSession} /\ remembered' \in Sessions \cup {NoSession}
      BY <2>1, <2>2, <2>5
    <3> QED
      BY <2>1, <2>2, <2>3, <3>2, <3>4, <3>5, HeldReturns
  <2> QED
    BY <1>3, <2>4, <2>5 DEF RestoreList, Returns, Goes
<1> QED
  BY <1>2, <1>3

LEMMA ShowSessionStep ==
  ASSUME PageIInv, NEW c \in calls, ShowSession(c), UNCHANGED exists
  PROVE  PageIInv'
<1>1. /\ c.step \in {"restore detail", "select"} /\ c \in Calls /\ ChatPageTypeOK
      /\ c.id \in Sessions \cup {NoSession} /\ calls' = calls \ {c}
  BY DEF ShowSession, PageIInv, ChatPageTypeOK, Calls, Silent, Returns
<1>2. CASE ~ Current(c)
  <2>1. ~ Holds(c) /\ UNCHANGED <<remembered, foreign, page>>
    BY <1>2 DEF ShowSession, Silent, Holds
  <2> QED
    BY <1>1, <2>1, SilentStep DEF page, ChatPageTypeOK
<1>3. CASE Current(c)
  <2>1. Holds(c) /\ mounted /\ ~ chatBusy /\ chatBusy \in BOOLEAN /\ options \subseteq Sessions
        /\ session \in Sessions \cup {NoSession} /\ (session # NoSession => remembered = session \/ foreign)
        /\ remembered \in Sessions \cup {NoSession} /\ foreign \in BOOLEAN
        /\ (c.step = "restore detail" => c.id = remembered \/ foreign)
    BY <1>1, <1>3
       DEF PageIInv, CallsAreShown, RestoreSteps, Holds, ChatPageTypeOK, ReloadReturnsHere, AimsAtKey
  <2>2. restoring' = FALSE /\ UNCHANGED <<options, chatBusy, mounted, pageVersion>>
        /\ \/ session' = c.id /\ c.step = "select" /\ Remember(c.id)
           \/ session' = c.id /\ c.step = "restore detail" /\ UNCHANGED <<remembered, foreign>>
           \/ UNCHANGED <<session, remembered, foreign>>
    BY <1>1, <1>3 DEF ShowSession
  <2>3. {} \in SUBSET Calls /\ calls' = (calls \ {c}) \cup {}
    BY <1>1
  <2>4. /\ session' \in Sessions \cup {NoSession} /\ remembered' \in Sessions \cup {NoSession}
        /\ session' # NoSession => remembered' = session' \/ foreign'
        /\ ~ restoring' /\ ~ chatBusy' /\ options' \subseteq Sessions
        /\ foreign' \in BOOLEAN /\ chatBusy' \in BOOLEAN /\ restoring' \in BOOLEAN
    <3>1. restoring' = FALSE /\ chatBusy' = chatBusy /\ options' = options
      BY <2>2
    <3>2. /\ ~ restoring' /\ ~ chatBusy' /\ options' \subseteq Sessions
          /\ chatBusy' \in BOOLEAN /\ restoring' \in BOOLEAN
      BY Zenon, <2>1, <3>1
    <3>3. /\ session' \in Sessions \cup {NoSession} /\ remembered' \in Sessions \cup {NoSession}
          /\ (session' # NoSession => remembered' = session' \/ foreign') /\ foreign' \in BOOLEAN
      <4>1. CASE session' = c.id /\ c.step = "select" /\ Remember(c.id)
        <5>1. CASE remembered' = c.id /\ foreign' = FALSE
          BY Zenon, <1>1, <4>1, <5>1
        <5>2. CASE remembered' = remembered /\ foreign' = (remembered # c.id)
          <6>1. foreign' \in BOOLEAN
            BY <5>2
          <6>2. remembered' = c.id \/ foreign'
            BY Zenon, <5>2
          <6> QED
            BY Zenon, <1>1, <2>1, <4>1, <5>2, <6>1, <6>2
        <5> QED
          BY <4>1, <5>1, <5>2 DEF Remember
      <4>2. CASE session' = c.id /\ c.step = "restore detail" /\ UNCHANGED <<remembered, foreign>>
        <5>1. remembered' = remembered /\ foreign' = foreign
          BY <4>2
        <5>2. c.id = remembered \/ foreign
          BY <2>1, <4>2
        <5>3. session' # NoSession => remembered' = session' \/ foreign'
          <6>1. CASE c.id = remembered
            BY <4>2, <5>1, <6>1
          <6>2. CASE foreign
            BY Zenon, <5>1, <6>2
          <6> QED
            BY <5>2, <6>1, <6>2
        <5> QED
          BY Zenon, <1>1, <2>1, <4>2, <5>1, <5>3
      <4>3. CASE UNCHANGED <<session, remembered, foreign>>
        <5>1. session' = session /\ remembered' = remembered /\ foreign' = foreign
          BY <4>3
        <5> QED
          BY Zenon, <2>1, <5>1
      <4> QED
        BY <2>2, <4>1, <4>2, <4>3
    <3> QED
      BY <3>2, <3>3
  <2>5. Holds(c) /\ UNCHANGED <<exists, mounted, pageVersion>>
    BY <2>1, <2>2
  <2> QED
    BY <2>3, <2>4, <2>5, HeldReturns
<1> QED
  BY <1>2, <1>3

LEMMA CreatedStep ==
  ASSUME PageIInv, NEW c \in calls, Created(c), UNCHANGED exists
  PROVE  PageIInv'
<1>1. /\ c.step = "create" /\ c.served /\ c \in Calls /\ ChatPageTypeOK
      /\ c.id \in Sessions
  BY DEF Created, Answered, PageIInv, ChatPageTypeOK, CallsAreKnown, Named
<1>2. CASE ~ Current(c)
  <2>1. ~ Holds(c) /\ calls' = calls \ {c} /\ UNCHANGED <<remembered, foreign, page>>
    BY <1>2 DEF Created, Silent, Returns, Holds
  <2> QED
    BY <1>1, <2>1, SilentStep DEF page, ChatPageTypeOK
<1>3. CASE Current(c)
  <2>1. Holds(c) /\ mounted /\ chatBusy /\ ~ restoring /\ chatBusy \in BOOLEAN /\ restoring \in BOOLEAN
        /\ pageVersion \in Nat
    BY <1>1, <1>3 DEF PageIInv, CallsAreShown, SendSteps, Holds, ChatPageTypeOK
  <2>2. /\ session' = c.id /\ Remember(c.id) /\ options' \subseteq Sessions
        /\ calls' = (calls \ {c}) \cup {Call("stream", pageVersion, c.id)}
        /\ UNCHANGED <<chatBusy, restoring, mounted, pageVersion>>
    BY <1>1, <1>3 DEF Created, Goes, ChatPageTypeOK
  <2>3. PICK d \in Calls : /\ d = Call("stream", pageVersion, c.id) /\ d.step = "stream"
                           /\ d.version = pageVersion /\ Named(d) /\ d.id = c.id
    <3>1. "stream" \in Steps
      BY DEF Steps
    <3> QED
      BY <1>1, <2>1, <3>1, CallIsCall
  <2>4. {d} \in SUBSET Calls /\ calls' = (calls \ {c}) \cup {d}
    BY <2>2, <2>3
  <2>5. /\ \A x \in {d} : /\ x.version = pageVersion /\ Named(x)
                          /\ x.step = "stream" /\ x.id = session' /\ chatBusy' /\ ~ restoring'
        /\ \A x, y \in {d} : x = y
        /\ \E x \in {d} : x.step = "stream"
    BY <2>1, <2>2, <2>3
  <2>6. /\ chatBusy' /\ ~ restoring' /\ chatBusy' \in BOOLEAN /\ restoring' \in BOOLEAN
        /\ session' \in Sessions /\ (remembered' = session' \/ foreign')
        /\ remembered' \in Sessions \cup {NoSession} /\ foreign' \in BOOLEAN
    BY <1>1, <2>1, <2>2 DEF Remember, ChatPageTypeOK
  <2> QED
    BY ZenonT(40), <2>1, <2>2, <2>4, <2>5, <2>6, HeldReturns
<1> QED
  BY <1>2, <1>3

LEMMA SendEndsStep ==
  ASSUME PageIInv, NEW c \in calls, SendEnds(c), UNCHANGED exists
  PROVE  PageIInv'
<1>1. c.step \in {"create", "stream"} /\ ChatPageTypeOK
  BY DEF SendEnds, PageIInv
<1>2. CASE ~ Current(c)
  <2>1. ~ Holds(c) /\ calls' = calls \ {c} /\ UNCHANGED <<remembered, foreign, page>>
    BY <1>2 DEF SendEnds, Silent, Returns, Holds
  <2> QED
    BY <1>1, <2>1, SilentStep DEF page, ChatPageTypeOK
<1>3. CASE Current(c)
  <2>1. Holds(c) /\ mounted /\ ~ restoring /\ restoring \in BOOLEAN /\ pageVersion \in Nat
        /\ options \subseteq Sessions
        /\ session \in Sessions \cup {NoSession} /\ (session # NoSession => remembered = session \/ foreign)
        /\ remembered \in Sessions \cup {NoSession} /\ foreign \in BOOLEAN
    BY <1>1, <1>3 DEF PageIInv, CallsAreShown, SendSteps, Holds, ChatPageTypeOK, ReloadReturnsHere
  <2>2. /\ chatBusy' = FALSE
        /\ UNCHANGED <<remembered, foreign, session, options, restoring, mounted, pageVersion>>
        /\ calls' = (calls \ {c}) \cup {Call("refresh", pageVersion, NoSession)}
    BY <1>3 DEF SendEnds, Goes
  <2>3. PICK d \in Calls : /\ d = Call("refresh", pageVersion, NoSession) /\ d.step = "refresh"
                           /\ d.version = pageVersion /\ Named(d)
    BY <2>1, NewIsCall
  <2>4. {d} \in SUBSET Calls /\ calls' = (calls \ {c}) \cup {d}
    BY <2>2, <2>3
  <2>5. /\ \A x \in {d} : /\ x.version = pageVersion /\ Named(x) /\ x.step = "refresh"
        /\ \A x, y \in {d} : x = y
    BY <2>3
  <2>6. /\ ~ chatBusy' /\ ~ restoring' /\ chatBusy' \in BOOLEAN /\ restoring' \in BOOLEAN
        /\ foreign' \in BOOLEAN
    BY <2>1, <2>2
  <2> QED
    BY ZenonT(40), <2>1, <2>2, <2>4, <2>5, <2>6, HeldReturns
<1> QED
  BY <1>2, <1>3

LEMMA DeleteEndsStep ==
  ASSUME PageIInv, NEW c \in calls, DeleteEnds(c), UNCHANGED exists
  PROVE  PageIInv'
<1>1. c.step = "delete" /\ ChatPageTypeOK /\ calls' = calls \ {c}
  BY DEF DeleteEnds, PageIInv, Silent, Returns
<1>2. CASE ~ Current(c)
  <2>1. ~ Holds(c) /\ UNCHANGED <<remembered, foreign, page>>
    BY <1>2 DEF DeleteEnds, Silent, Holds
  <2> QED
    BY <1>1, <2>1, SilentStep DEF page, ChatPageTypeOK
<1>3. CASE Current(c)
  <2>1. Holds(c) /\ mounted /\ ~ restoring /\ restoring \in BOOLEAN /\ options \subseteq Sessions
        /\ session \in Sessions \cup {NoSession} /\ (session # NoSession => remembered = session \/ foreign)
        /\ remembered \in Sessions \cup {NoSession} /\ foreign \in BOOLEAN
    BY <1>1, <1>3 DEF PageIInv, CallsAreShown, SendSteps, Holds, ChatPageTypeOK, ReloadReturnsHere
  <2>2. /\ chatBusy' = FALSE /\ UNCHANGED <<restoring, mounted, pageVersion>>
        /\ options' \subseteq options
        /\ \/ session' = NoSession /\ Remember(NoSession)
           \/ UNCHANGED <<session, remembered, foreign>>
    BY <1>3 DEF DeleteEnds
  <2>3. {} \in SUBSET Calls /\ calls' = (calls \ {c}) \cup {}
    BY <1>1
  <2>4. /\ session' \in Sessions \cup {NoSession} /\ remembered' \in Sessions \cup {NoSession}
        /\ session' # NoSession => remembered' = session' \/ foreign'
        /\ ~ restoring' /\ ~ chatBusy' /\ options' \subseteq Sessions
        /\ foreign' \in BOOLEAN /\ chatBusy' \in BOOLEAN /\ restoring' \in BOOLEAN
    <3>1. ~ restoring' /\ ~ chatBusy' /\ options' \subseteq Sessions
          /\ chatBusy' \in BOOLEAN /\ restoring' \in BOOLEAN
      BY <2>1, <2>2
    <3>2. CASE session' = NoSession /\ Remember(NoSession)
      <4>1. remembered' \in {NoSession, remembered} /\ foreign' \in BOOLEAN
        BY <3>2 DEF Remember
      <4> QED
        BY <2>1, <3>1, <3>2, <4>1
    <3>3. CASE UNCHANGED <<session, remembered, foreign>>
      BY <2>1, <3>1, <3>3
    <3> QED
      BY <2>2, <3>2, <3>3
  <2> QED
    BY <2>1, <2>2, <2>3, <2>4, HeldReturns
<1> QED
  BY <1>2, <1>3

LEMMA RefreshedStep ==
  ASSUME PageIInv, NEW c \in calls, Refreshed(c), UNCHANGED exists
  PROVE  PageIInv'
<1>1. /\ ~ Holds(c) /\ calls' = calls \ {c} /\ c \in Calls
      /\ UNCHANGED <<remembered, foreign, session, chatBusy, restoring, mounted, pageVersion>>
      /\ options' \in {options, c.found} /\ options \subseteq Sessions
  BY DEF Refreshed, Returns, Holds, PageIInv, ChatPageTypeOK
<1>2. options' \subseteq Sessions
  BY <1>1 DEF Calls
<1> QED
  BY <1>1, <1>2, SilentStep

(* Every call, reply and action of the user keeps the invariant of the     *)
(* chat page.                                                              *)
THEOREM PageInductive == ChatPageSpec => []PageIInv
<1>1. ASSUME PageIInv, [ChatPageNext]_chatVars PROVE PageIInv'
  <2>1. CASE ChangeElsewhere
    <3>1. UNCHANGED <<remembered, foreign, page, calls>> /\ exists' \subseteq Sessions
      BY <1>1, <2>1 DEF ChangeElsewhere, PageIInv, ChatPageTypeOK
    <3>2. /\ calls' \subseteq Calls /\ exists' \subseteq Sessions
          /\ \A d \in calls' : Named(d)
      BY <1>1, <3>1 DEF PageIInv, ChatPageTypeOK, CallsAreKnown
    <3>3. ASSUME NEW x \in calls', NEW y \in calls', Holds(x)', Holds(y)' PROVE x = y
      BY <1>1, <3>1, <3>3 DEF PageIInv, OneCallHolds, Holds, Current, page
    <3> QED
      BY <1>1, <3>1, <3>2, <3>3, CallsStay
  <2>4. CASE RememberElsewhere
    <3>1. UNCHANGED <<exists, page, calls>> /\ foreign' = TRUE
          /\ remembered' \in Sessions \cup {NoSession}
      BY <2>4 DEF RememberElsewhere
    <3>2. ChatPageTypeOK' /\ CallsAreKnown' /\ OneCallHolds' /\ CallsAreShown' /\ FlagsAreCalls'
      BY <1>1, <3>1
         DEF page, PageIInv, ChatPageTypeOK, CallsAreKnown, OneCallHolds, CallsAreShown, FlagsAreCalls,
         Holds, Current
    <3>3. ReloadReturnsHere' /\ AimsAtKey'
      BY <1>1, <3>1 DEF page, PageIInv, ReloadReturnsHere, AimsAtKey, Current
    <3> QED
      BY <3>2, <3>3 DEF PageIInv
  <2>2. ASSUME NEW c \in calls, SettleCall(c) PROVE PageIInv'
    BY <1>1, <2>2, RestoreListStep, ShowSessionStep, CreatedStep, SendEndsStep,
       RefreshedStep, DeleteEndsStep
       DEF SettleCall
  <2>3. CASE UNCHANGED chatVars
    BY <1>1, <2>3
       DEF chatVars, page, PageIInv, ChatPageTypeOK, CallsAreKnown, OneCallHolds, CallsAreShown,
       FlagsAreCalls, ReloadReturnsHere, AimsAtKey, Holds, Current
  <2> QED
    BY <1>1, <2>1, <2>2, <2>3, <2>4, LeaveStep, ReturnStep, SendStep, StopStep, SelectStep, ServeStep
       DEF ChatPageNext
<1> QED
  BY <1>1, InitPageIInv, PTL DEF ChatPageSpec

(* However loading, asking, stopping, deleting, leaving and coming back    *)
(* cross, the page waits for one call at most, is busy only while that     *)
(* call is under way, and a reload returns to the conversation on the      *)
(* screen, unless another tab has changed the key they share or the        *)
(* browser has refused it.                                                 *)
THEOREM PagesAreConsistent == ChatPageSpec => []PageIsConsistent
<1>1. PageIInv => PageIsConsistent
  <2> SUFFICES ASSUME PageIInv PROVE PageIsConsistent
    OBVIOUS
  <2>1. QuietIsFree
    BY DEF PageIInv, FlagsAreCalls, QuietIsFree, RestoreSteps, SendSteps
  <2> QED
    BY <2>1 DEF PageIInv, PageIsConsistent
<1> QED
  BY <1>1, PageInductive, PTL

-----------------------------------------------------------------------------
(***************************************************************************)
(* Chat sessions.                                                          *)
(***************************************************************************)
(* Before a request is served nothing is stored for it, and a request has  *)
(* a turn from the step that serves it on.                                 *)
Unserved == \A r \in Requests :
    /\ pc[r] \in {"idle", "asked"} => turn[r] = "none" /\ query[r] = "none"
    /\ turn[r] = "none" => pc[r] \in {"idle", "asked", "ended"}

(* A stream at work still owns its turn, unless that was given up as old. *)
OwnsTurn == \A r \in Requests : pc[r] \in Working =>
    turn[r] = "pending" \/ (r \in old /\ turn[r] \in {"error", "deleted"})

(* What a stream has stored by the time it reaches its last writes, and    *)
(* that a turn is linked by those writes only.                             *)
Stored == \A r \in Requests :
    /\ pc[r] \in {"generating", "recorded"} => r \in known
    /\ pc[r] = "recorded" => query[r] = "answered"
    /\ pc[r] \in {"idle", "asked"} \cup Working => r \notin linked
    /\ r \in linked => turn[r] # "none"
    /\ query[r] = "deleted" => chat = "deleted"

ChatIInv ==
    /\ TypeOK /\ Unserved /\ OwnsTurn /\ Stored /\ OneGeneration /\ DeliveredIsKept
    /\ HistoryIsRecorded /\ EndedIsSettled /\ DeletedStaysDeleted

-----------------------------------------------------------------------------
(* The initial state satisfies the inductive invariant. *)
LEMMA ChatInitIInv == Init => ChatIInv
  BY DEF Init, ChatIInv, TypeOK, Unserved, OwnsTurn, Stored, OneGeneration, DeliveredIsKept,
         HistoryIsRecorded, EndedIsSettled, DeletedStaysDeleted, Turns, Queries, Stages,
         Working, Interrupted

(* Asking and being told that the session is gone store nothing. *)
LEMMA AskStep == ASSUME ChatIInv, NEW q \in Requests, Ask(q) \/ Refuse(q) PROVE ChatIInv'
  BY DEF Ask, Refuse, ChatIInv, TypeOK, Unserved, OwnsTurn, Stored, OneGeneration, DeliveredIsKept,
         HistoryIsRecorded, EndedIsSettled, DeletedStaysDeleted, Turns, Queries, Stages,
         Working, Interrupted

(* begin_turn: the turn it expires was old, so the stream that owned it    *)
(* may go on beside the new one.                                           *)
LEMMA BeginStep == ASSUME ChatIInv, NEW q \in Requests, Begin(q) PROVE ChatIInv'
  BY DEF Begin, Busy, WithTurn, ChatIInv, TypeOK, Unserved, OwnsTurn, Stored, OneGeneration,
         DeliveredIsKept, HistoryIsRecorded, EndedIsSettled, DeletedStaysDeleted, Turns,
         Queries, Stages, Working, Interrupted

(* Time only makes turns old. *)
LEMMA ElapseStep == ASSUME ChatIInv, NEW q \in Requests, Elapse(q) PROVE ChatIInv'
  BY DEF Elapse, ChatIInv, TypeOK, Unserved, OwnsTurn, Stored, OneGeneration, DeliveredIsKept,
         HistoryIsRecorded, EndedIsSettled, DeletedStaysDeleted, Turns, Queries, Stages,
         Working, Interrupted

(* delete_session: no stream at work but those of old turns. *)
LEMMA DeleteStep == ASSUME ChatIInv, Delete PROVE ChatIInv'
  BY DEF Delete, Busy, ChatIInv, TypeOK, Unserved, OwnsTurn, Stored, OneGeneration, DeliveredIsKept,
         HistoryIsRecorded, EndedIsSettled, DeletedStaysDeleted, Turns, Queries, Stages,
         Working, Interrupted

(* The commits of the query's diagnostics leave the turns alone. *)
LEMMA QueryStep ==
  ASSUME ChatIInv, NEW q \in Requests, CreateQuery(q) \/ Retrieved(q) \/ Record(q)
  PROVE  ChatIInv'
<1>1. CASE CreateQuery(q)
  BY <1>1 DEF CreateQuery, ChatIInv, TypeOK, Unserved, OwnsTurn, Stored, OneGeneration,
                DeliveredIsKept, HistoryIsRecorded, EndedIsSettled, DeletedStaysDeleted,
                Turns, Queries, Stages, Working, Interrupted
<1>2. CASE Retrieved(q)
  BY <1>2 DEF Retrieved, ChatIInv, TypeOK, Unserved, OwnsTurn, Stored, OneGeneration,
                DeliveredIsKept, HistoryIsRecorded, EndedIsSettled, DeletedStaysDeleted,
                Turns, Queries, Stages, Working, Interrupted
<1>3. CASE Record(q)
  BY <1>3 DEF Record, ChatIInv, TypeOK, Unserved, OwnsTurn, Stored, OneGeneration,
                DeliveredIsKept, HistoryIsRecorded, EndedIsSettled, DeletedStaysDeleted,
                Turns, Queries, Stages, Working, Interrupted
<1> QED
  BY <1>1, <1>2, <1>3

(* finish_turn: an answered query is linked to a turn that still exists. *)
LEMMA FinishStep == ASSUME ChatIInv, NEW q \in Requests, Finish(q) PROVE ChatIInv'
  BY DEF Finish, Settle, Cleaning, ChatIInv, TypeOK, Unserved, OwnsTurn, Stored, OneGeneration,
         DeliveredIsKept, HistoryIsRecorded, EndedIsSettled, DeletedStaysDeleted, Turns,
         Queries, Stages, Working, Interrupted

(* An interruption leaves all rows alone, and the process's death leaves   *)
(* the request in left.                                                    *)
LEMMA StopStreamStep == ASSUME ChatIInv, NEW q \in Requests, Interrupt(q) \/ Abandon(q) PROVE ChatIInv'
  BY DEF Interrupt, Abandon, Cleaning, ChatIInv, TypeOK, Unserved, OwnsTurn, Stored, OneGeneration,
         DeliveredIsKept, HistoryIsRecorded, EndedIsSettled, DeletedStaysDeleted, Turns,
         Queries, Stages, Working, Interrupted

(* The final audit write ends the stream with a settled turn, or, when the *)
(* query's row is gone, with a turn that is gone too.                      *)
LEMMA CleanStep ==
  ASSUME ChatIInv, NEW q \in Requests, CleanRecord(q) \/ CleanFinish(q) PROVE ChatIInv'
  BY DEF CleanRecord, CleanFinish, Settle, ChatIInv, TypeOK, Unserved, OwnsTurn, Stored,
         OneGeneration, DeliveredIsKept, HistoryIsRecorded, EndedIsSettled,
         DeletedStaysDeleted, Turns, Queries, Stages, Working, Interrupted

(* Every state of the specification satisfies the inductive invariant. *)
THEOREM ChatInductive == Spec => []ChatIInv
<1>1. ChatIInv /\ [Next]_vars => ChatIInv'
  <2> SUFFICES ASSUME ChatIInv, [Next]_vars PROVE ChatIInv'
    OBVIOUS
  <2>1. CASE Delete
    BY <2>1, DeleteStep
  <2>2. CASE UNCHANGED vars
    BY <2>2 DEF vars, ChatIInv, TypeOK, Unserved, OwnsTurn, Stored, OneGeneration, DeliveredIsKept,
                HistoryIsRecorded, EndedIsSettled, DeletedStaysDeleted
  <2>3. ASSUME NEW q \in Requests,
               Ask(q) \/ Begin(q) \/ Refuse(q) \/ Elapse(q) \/ Stream(q) \/ Abandon(q)
        PROVE  ChatIInv'
    BY <2>3, AskStep, BeginStep, ElapseStep, QueryStep, FinishStep, StopStreamStep, CleanStep
       DEF Stream
  <2> QED
    BY <2>1, <2>2, <2>3 DEF Next
<1> QED
  BY <1>1, ChatInitIInv, PTL DEF Spec

(* Type correctness. *)
THEOREM TypeCorrect == Spec => []TypeOK
<1>1. ChatIInv => TypeOK
  BY DEF ChatIInv
<1> QED
  BY <1>1, ChatInductive, PTL

(* Two streams work in one session only after the ten-minute expiry, and   *)
(* never have two pending turns.                                           *)
THEOREM GenerationIsExclusive == Spec => []OneGeneration
<1>1. ChatIInv => OneGeneration
  BY DEF ChatIInv
<1> QED
  BY <1>1, ChatInductive, PTL

(* A delivered answer is kept until the session is deleted, and every      *)
(* completed turn has its diagnostics.                                     *)
THEOREM DeliveryIsDurable == Spec => [](DeliveredIsKept /\ HistoryIsRecorded)
<1>1. ChatIInv => DeliveredIsKept /\ HistoryIsRecorded
  BY DEF ChatIInv
<1> QED
  BY <1>1, ChatInductive, PTL

(* Only a stream that was cut off leaves a pending turn behind. *)
THEOREM EndingSettles == Spec => []EndedIsSettled
<1>1. ChatIInv => EndedIsSettled
  BY DEF ChatIInv
<1> QED
  BY <1>1, ChatInductive, PTL

(* Streams that outlive the deletion bring nothing back. *)
THEOREM DeletionIsFinal == Spec => []DeletedStaysDeleted
<1>1. ChatIInv => DeletedStaysDeleted
  BY DEF ChatIInv
<1> QED
  BY <1>1, ChatInductive, PTL

(* What the user was shown is kept, and what later prompts use is recorded. *)
THEOREM AnswersKept == Spec => []AnswersAreKept
  BY TypeCorrect, DeliveryIsDurable, EndingSettles, PTL DEF AnswersAreKept
=============================================================================
