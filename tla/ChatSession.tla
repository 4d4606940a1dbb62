------------------------------ MODULE ChatSession ------------------------------
(***************************************************************************)
(* One chat session of backend/app/repositories/chat.py and the streams of *)
(* backend/app/services/search.py that answer questions in it.             *)
(*                                                                         *)
(* begin_turn, finish_turn and delete_session each write or lock the       *)
(* session's row in the transaction that touches its turns, so PostgreSQL  *)
(* orders them: each is one step here.  (Two of them may deadlock on that  *)
(* row and a turn's row; the one PostgreSQL aborts is a Refuse that the    *)
(* client repeats, an Interrupt or an Abandon.)  The stream around them    *)
(* commits the query's diagnostics in transactions of its own.             *)
(***************************************************************************)
EXTENDS Naturals, FiniteSets

CONSTANTS
    Requests,       \* questions put to the session; each gets at most one turn
    MaxLeft         \* bound on the requests that leave a turn to its expiry

ASSUME RequestsAssumption == IsFiniteSet(Requests)
ASSUME LeftAssumption == MaxLeft \in Nat

VARIABLES
    chat,       \* the chat_sessions row
    turn,       \* chat_turns.status of each request
    linked,     \* requests whose turn has been given its search_query_id
    query,      \* the search_queries row of each request
    old,        \* requests whose turn was pending for ten minutes
    pc,         \* where the stream of each request is
    known,      \* requests whose stream has the query returned by _retrieve
    outcome,    \* generation.status of a stream that was interrupted
    left        \* requests that ended without the final audit write

vars == <<chat, turn, linked, query, old, pc, known, outcome, left>>

Interrupted == {"cancelled", "error"}
Turns == {"none", "pending", "completed", "deleted"} \cup Interrupted
Queries == {"none", "open", "answered", "deleted"}   \* answered: result_summary_json has the answer
Working == {"begun", "searching", "generating", "recorded"}
Stages == {"idle", "asked", "cleaning", "settling", "done", "ended"} \cup Working

Init ==
    /\ chat = "open"
    /\ turn = [r \in Requests |-> "none"]
    /\ linked = {}
    /\ query = [r \in Requests |-> "none"]
    /\ old = {}
    /\ pc = [r \in Requests |-> "idle"]
    /\ known = {}
    /\ outcome = [r \in Requests |-> "error"]
    /\ left = {}

Ask(r) ==
    /\ pc[r] = "idle"
    /\ pc' = [pc EXCEPT ![r] = "asked"]
    /\ UNCHANGED <<chat, turn, linked, query, old, known, outcome, left>>

-----------------------------------------------------------------------------
(* The repository: what holds the session's row. *)

(* Mutant: the comparison of the ages the wrong way round. *)
BusyWhenOld == \E r \in Requests : turn[r] = "pending" /\ r \in old

(* Mutant: any pending turn makes the session busy. *)
BusyForever == \E r \in Requests : turn[r] = "pending"

Busy == \E r \in Requests : turn[r] = "pending" /\ r \notin old

(* Mutant: the expiry looks at the age alone. *)
WithTurnByAge(r) == [s \in Requests |->
    IF s = r THEN "pending" ELSE IF s \in old /\ turn[s] # "none" THEN "error" ELSE turn[s]]

(* The turns after begin_turn: a pending turn it finds is older than ten   *)
(* minutes and becomes an error.                                           *)
WithTurn(r) == [s \in Requests |->
    IF s = r THEN "pending" ELSE IF turn[s] = "pending" THEN "error" ELSE turn[s]]

(* While the session is busy the client gets 409 and asks again.  A stream *)
(* cancelled between the commit and the return of begin_turn has no turn   *)
(* to write its outcome to.                                                *)
Begin(r) ==
    /\ pc[r] = "asked" /\ chat = "open" /\ ~Busy
    /\ turn' = WithTurn(r)
    /\ \/ pc' = [pc EXCEPT ![r] = "begun"] /\ UNCHANGED left
       \/ /\ Cardinality(left) < MaxLeft
          /\ pc' = [pc EXCEPT ![r] = "ended"]
          /\ left' = left \cup {r}
    /\ UNCHANGED <<chat, linked, query, old, known, outcome>>

Refuse(r) ==
    /\ pc[r] = "asked" /\ chat = "deleted"
    /\ pc' = [pc EXCEPT ![r] = "ended"]
    /\ UNCHANGED <<chat, turn, linked, query, old, known, outcome, left>>

(* Mutant: finish_turn inserts the row again. *)
SettleAnyway(r, status) ==
    /\ turn' = [turn EXCEPT ![r] = status]
    /\ linked' = IF r \in known THEN linked \cup {r} ELSE linked

(* finish_turn raises StaleDataError when the turn's row is gone.          *)
Settle(r, status) ==
    /\ turn[r] # "deleted"
    /\ turn' = [turn EXCEPT ![r] = status]
    /\ linked' = IF r \in known THEN linked \cup {r} ELSE linked

(* The cascade removes the turns, and the linked queries go with them.     *)
Delete ==
    /\ chat = "open" /\ ~Busy
    /\ chat' = "deleted"
    /\ turn' = [r \in Requests |-> IF turn[r] = "none" THEN "none" ELSE "deleted"]
    /\ query' = [r \in Requests |-> IF r \in linked THEN "deleted" ELSE query[r]]
    /\ UNCHANGED <<linked, old, pc, known, outcome, left>>

Elapse(r) ==
    /\ turn[r] = "pending" /\ r \notin old
    /\ old' = old \cup {r}
    /\ UNCHANGED <<chat, turn, linked, query, pc, known, outcome, left>>

-----------------------------------------------------------------------------
(* stream_answer. *)

CreateQuery(r) ==
    /\ pc[r] = "begun"
    /\ query' = [query EXCEPT ![r] = "open"]
    /\ pc' = [pc EXCEPT ![r] = "searching"]
    /\ UNCHANGED <<chat, turn, linked, old, known, outcome, left>>

(* _retrieve returns: only now does the stream hold the query's id.  Its   *)
(* updates, and record_generation, raise when the row is gone.             *)
Retrieved(r) ==
    /\ pc[r] = "searching" /\ query[r] # "deleted"
    /\ known' = known \cup {r}
    /\ pc' = [pc EXCEPT ![r] = "generating"]
    /\ UNCHANGED <<chat, turn, linked, query, old, outcome, left>>

Record(r) ==
    /\ pc[r] = "generating" /\ query[r] # "deleted"
    /\ query' = [query EXCEPT ![r] = "answered"]
    /\ pc' = [pc EXCEPT ![r] = "recorded"]
    /\ UNCHANGED <<chat, turn, linked, old, known, outcome, left>>

(* The final audit write starts with the query, if the stream has one. *)
Cleaning(r, status) ==
    /\ outcome' = [outcome EXCEPT ![r] = status]
    /\ pc' = [pc EXCEPT ![r] = IF r \in known THEN "cleaning" ELSE "settling"]

(* The commit of finish_turn may take effect although the stream is        *)
(* cancelled, or loses its connection, before it is told.                  *)
Finish(r) ==
    /\ pc[r] = "recorded" /\ Settle(r, "completed")
    /\ \/ pc' = [pc EXCEPT ![r] = "done"] /\ UNCHANGED outcome
       \/ \E status \in Interrupted : Cleaning(r, status)
    /\ UNCHANGED <<chat, query, old, known, left>>

(* The client disconnects, or a step raises: StaleDataError, a search that *)
(* fails, a transaction PostgreSQL aborts.                                 *)
Interrupt(r) ==
    /\ pc[r] \in Working
    /\ \E status \in Interrupted : Cleaning(r, status)
    /\ UNCHANGED <<chat, turn, linked, query, old, known, left>>

(* record_generation raises when the query's row is gone, and the turn is  *)
(* then not written.                                                       *)
CleanRecord(r) ==
    /\ pc[r] = "cleaning"
    /\ query' = IF query[r] = "deleted" THEN query ELSE [query EXCEPT ![r] = "answered"]
    /\ pc' = [pc EXCEPT ![r] = IF query[r] = "deleted" THEN "ended" ELSE "settling"]
    /\ UNCHANGED <<chat, turn, linked, old, known, outcome, left>>

CleanFinish(r) ==
    /\ pc[r] = "settling"
    /\ \/ Settle(r, outcome[r])
       \/ turn[r] = "deleted" /\ UNCHANGED <<turn, linked>>
    /\ pc' = [pc EXCEPT ![r] = "ended"]
    /\ UNCHANGED <<chat, query, old, known, outcome, left>>

(* The process dies, or the final audit write fails and is only logged. *)
Abandon(r) ==
    /\ pc[r] \in Working \cup {"cleaning", "settling"} /\ Cardinality(left) < MaxLeft
    /\ pc' = [pc EXCEPT ![r] = "ended"]
    /\ left' = left \cup {r}
    /\ UNCHANGED <<chat, turn, linked, query, old, known, outcome>>

Stream(r) ==
    \/ CreateQuery(r) \/ Retrieved(r) \/ Record(r) \/ Finish(r) \/ Interrupt(r)
    \/ CleanRecord(r) \/ CleanFinish(r)

Next ==
    \/ \E r \in Requests :
        Ask(r) \/ Begin(r) \/ Refuse(r) \/ Elapse(r) \/ Stream(r) \/ Abandon(r)
    \/ Delete

Spec == Init /\ [][Next]_vars

(* Time passes, and a client that is told to come back later does; nothing *)
(* is assumed of the streams, which may hang in a model's answer.          *)
FairSpec == Spec /\ \A r \in Requests : WF_vars(Elapse(r)) /\ SF_vars(Begin(r) \/ Refuse(r))

-----------------------------------------------------------------------------
(* Properties. *)

(* Type invariant. *)
TypeOK ==
    /\ chat \in {"open", "deleted"}
    /\ turn \in [Requests -> Turns]
    /\ linked \subseteq Requests
    /\ query \in [Requests -> Queries]
    /\ old \subseteq Requests
    /\ pc \in [Requests -> Stages]
    /\ known \subseteq Requests
    /\ outcome \in [Requests -> Interrupted]
    /\ left \subseteq Requests

(* docs/ai-chat.md: one pending request per session.  Two streams work at  *)
(* the same time only when one of them has been given up as expired, and   *)
(* no two turns are pending even then.                                     *)
OneGeneration == \A r, s \in Requests : r # s =>
    /\ ~(turn[r] = "pending" /\ turn[s] = "pending")
    /\ pc[r] \in Working /\ pc[s] \in Working => r \in old \/ s \in old

(* An answer whose done event was sent is what the session shows, with its *)
(* diagnostics, until the session is deleted: neither a newer request that *)
(* had expired the turn nor a stream that ends late takes it back.         *)
DeliveredIsKept == \A r \in Requests :
    pc[r] = "done" /\ chat = "open" => turn[r] = "completed" /\ r \in linked

(* What later prompts use as history (the completed turns) has its answer  *)
(* in the query's diagnostics, whichever of the writers came last.         *)
HistoryIsRecorded == \A r \in Requests :
    turn[r] = "completed" => r \in linked /\ query[r] = "answered"

(* A stream that ends settles its turn, on every path: only one that was   *)
(* cut off without its audit write leaves it to the ten-minute expiry.     *)
EndedIsSettled == \A r \in Requests :
    pc[r] \in {"done", "ended"} /\ r \notin left => turn[r] # "pending"

(* What the user was shown is what the session keeps and later prompts use. *)
AnswersAreKept == TypeOK /\ DeliveredIsKept /\ HistoryIsRecorded /\ EndedIsSettled

(* A stream that outlives the deletion brings nothing of the session back: *)
(* no turn, and no diagnostics that had been linked to one.                *)
DeletedStaysDeleted == chat = "deleted" => \A r \in Requests :
    /\ turn[r] \in {"none", "deleted"}
    /\ r \in linked => query[r] = "deleted"

(* A session is not blocked by a stream that hangs or died: a client that  *)
(* keeps asking is served, or told that the session is gone.               *)
AskedIsServed == \A r \in Requests : pc[r] = "asked" ~> pc[r] # "asked"

(* docs/ai-chat.md: DELETE removes the session, all its turns and the      *)
(* query and generation diagnostics that belong to them.                   *)
DeletionIsComplete == chat = "deleted" => \A r \in Requests :
    turn[r] = "deleted" => query[r] \in {"none", "deleted"}
=============================================================================
