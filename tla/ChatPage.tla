------------------------------- MODULE ChatPage -------------------------------
(***************************************************************************)
(* The chat page of the browser (frontend/src/pages/AiChatPage.tsx) over   *)
(* the requests of frontend/src/api/client.ts.  Each of its asynchronous   *)
(* functions is a call that sleeps between two requests: meanwhile the     *)
(* user selects another conversation, stops the answer, deletes, leaves    *)
(* the page or comes back to a new one.  A call goes on writing the page   *)
(* only while the page's version is the one it started with.               *)
(*                                                                         *)
(* The conversation to come back to is under one key of localStorage, for  *)
(* all tabs of the browser, and the browser may refuse to read or write    *)
(* it: the page then does without.                                         *)
(***************************************************************************)
EXTENDS Naturals, FiniteSets

CONSTANTS
    Sessions,     \* ids of conversations
    NoSession,    \* the empty id: a new conversation
    MaxActions    \* bound on the user's actions

ASSUME NoSessionAssumption == NoSession \notin Sessions

VARIABLES
    exists,       \* the conversations the server has
    remembered,   \* localStorage: the conversation to restore
    foreign,      \* history: the key is not as this page last read or wanted it
    session,      \* sessionId: the conversation shown
    options,      \* sessions: the conversations to choose from
    chatBusy,     \* busy.current: sending or deleting
    restoring,    \* a conversation is being loaded
    mounted,      \* the page is on screen
    pageVersion,      \* version.current; a new page goes on counting
    calls         \* the asynchronous functions that have not returned

page == <<session, options, chatBusy, restoring, mounted, pageVersion>>
chatVars == <<exists, remembered, foreign, page, calls>>

Steps == {"restore list", "restore detail", "select", "create", "stream", "refresh", "delete"}
Calls == [step : Steps, version : Nat, id : Sessions \cup {NoSession},
          aborted : BOOLEAN, served : BOOLEAN, found : SUBSET Sessions]

ChatPageTypeOK ==
    /\ exists \subseteq Sessions /\ options \subseteq Sessions
    /\ remembered \in Sessions \cup {NoSession} /\ foreign \in BOOLEAN
    /\ session \in Sessions \cup {NoSession}
    /\ chatBusy \in BOOLEAN /\ restoring \in BOOLEAN /\ mounted \in BOOLEAN
    /\ pageVersion \in Nat
    /\ calls \subseteq Calls

Call(step, v, id) == [step |-> step, version |-> v, id |-> id, aborted |-> FALSE,
                      served |-> FALSE, found |-> {}]

(* controller.current is the controller of the last call that was started. *)
Aborted == {[c EXCEPT !.aborted = (@ \/ c.version = pageVersion)] : c \in calls}

Current(c) == c.version = pageVersion

(* rememberSession, which takes no notice of a browser that refuses.       *)
Remember(id) ==
    \/ remembered' = id /\ foreign' = FALSE
    \/ remembered' = remembered /\ foreign' = (remembered # id)

-----------------------------------------------------------------------------
(* The page appears and restores the remembered conversation; it goes.     *)

ChatPageInit ==
    /\ exists \in SUBSET Sessions /\ remembered \in Sessions \cup {NoSession} /\ foreign = FALSE
    /\ session = NoSession /\ options = {} /\ chatBusy = FALSE /\ restoring = TRUE
    /\ mounted = TRUE /\ pageVersion = 0
    /\ calls = {Call("restore list", 0, NoSession)}

Acts == pageVersion < MaxActions /\ pageVersion' = pageVersion + 1

Leave ==
    /\ mounted /\ Acts
    /\ mounted' = FALSE
    /\ calls' = Aborted
    /\ UNCHANGED <<exists, remembered, foreign, session, options, chatBusy, restoring>>

Return ==
    /\ ~mounted
    /\ mounted' = TRUE /\ session' = NoSession /\ options' = {}
    /\ chatBusy' = FALSE /\ restoring' = TRUE
    /\ calls' = calls \cup {Call("restore list", pageVersion, NoSession)}
    /\ UNCHANGED <<exists, remembered, foreign, pageVersion>>

-----------------------------------------------------------------------------
(* What the user does.                                                     *)

Selectable == ~chatBusy /\ ~restoring

SelectSession(id) ==
    /\ mounted /\ Selectable /\ Acts
    /\ IF id = NoSession
       THEN /\ session' = NoSession /\ Remember(NoSession)
            /\ calls' = Aborted
            /\ UNCHANGED restoring
       ELSE /\ restoring' = TRUE
            /\ calls' = Aborted \cup {Call("select", pageVersion + 1, id)}
            /\ UNCHANGED <<session, remembered, foreign>>
    /\ UNCHANGED <<exists, options, chatBusy, mounted>>

SendQuestion ==
    /\ mounted /\ ~chatBusy /\ ~restoring /\ Acts
    /\ chatBusy' = TRUE
    /\ calls' = Aborted \cup
         {Call(IF session = NoSession THEN "create" ELSE "stream", pageVersion + 1, session)}
    /\ UNCHANGED <<exists, remembered, foreign, session, options, restoring, mounted>>

DeleteConversation ==
    /\ mounted /\ session # NoSession /\ ~chatBusy /\ ~restoring /\ Acts
    /\ chatBusy' = TRUE
    /\ calls' = Aborted \cup {Call("delete", pageVersion + 1, session)}
    /\ UNCHANGED <<exists, remembered, foreign, session, options, restoring, mounted>>

StopGenerating ==
    /\ mounted /\ \E c \in calls : Current(c) /\ c.step \in {"create", "stream"} /\ ~c.aborted
    /\ calls' = Aborted
    /\ UNCHANGED <<exists, remembered, foreign, page>>

-----------------------------------------------------------------------------
(* The server answers a request; other tabs create, delete and remember    *)
(* conversations, each under its own rules.                                *)

(* What a reply carries of the conversations that are there. *)
Carried(c, there) ==
    CASE c.step \in {"restore list", "refresh"} -> there
      [] c.step \in {"restore detail", "select"} -> there \cap {c.id}
      [] OTHER -> {}

Serve(c) ==
    /\ ~c.served
    /\ \E id \in Sessions :
         /\ c.step = "create" => id \notin exists
         /\ c.step # "create" => id = c.id \/ c.id = NoSession
         /\ exists' = CASE c.step = "create" -> exists \cup {id}
                        [] c.step = "delete" -> exists \ {id}
                        [] OTHER -> exists
         /\ calls' = (calls \ {c}) \cup
              {[c EXCEPT !.served = TRUE, !.id = IF c.step = "create" THEN id ELSE @,
                         !.found = Carried(c, exists')]}
    /\ UNCHANGED <<remembered, foreign, page>>

ChangeElsewhere ==
    /\ \E id \in Sessions : exists' \in {exists \cup {id}, exists \ {id}}
    /\ UNCHANGED <<remembered, foreign, page, calls>>

RememberElsewhere ==
    /\ remembered' \in (Sessions \cup {NoSession}) \ {remembered}
    /\ foreign' = TRUE
    /\ UNCHANGED <<exists, page, calls>>

-----------------------------------------------------------------------------
(* A promise settles: with the reply, or with an error, which an abort     *)
(* always brings, whatever the server has done.                            *)

Answered(c) == c.served /\ ~c.aborted
Returns(c) == calls' = calls \ {c}
Goes(c, next) == calls' = (calls \ {c}) \cup {next}
Silent(c) == Returns(c) /\ UNCHANGED <<remembered, foreign, page>>

(* readSessionId: the browser may refuse, or the conversation be gone.     *)
RestoreList(c) ==
    /\ c.step = "restore list"
    /\ IF ~Current(c) THEN Silent(c)
       ELSE \/ /\ Answered(c)
               /\ options' = c.found
               /\ \/ /\ remembered \in c.found
                     /\ Goes(c, Call("restore detail", pageVersion, remembered))
                     /\ foreign' = FALSE
                     /\ UNCHANGED restoring
                  \/ Returns(c) /\ restoring' = FALSE /\ UNCHANGED foreign
               /\ UNCHANGED <<remembered, session, chatBusy, mounted, pageVersion>>
            \/ /\ Returns(c) /\ restoring' = FALSE
               /\ UNCHANGED <<remembered, foreign, session, options, chatBusy, mounted, pageVersion>>

\* Mutant: the conversation that is loaded is not the one a reload restores.
ShownOnly(c) ==
    /\ c.step \in {"restore detail", "select"}
    /\ IF ~Current(c) THEN Silent(c)
       ELSE /\ Returns(c) /\ restoring' = FALSE
            /\ session' = IF Answered(c) /\ c.id \in c.found THEN c.id ELSE session
            /\ UNCHANGED <<remembered, foreign, options, chatBusy, mounted, pageVersion>>

(* getChatSession, when the page restores and when the user selects, which *)
(* is remembered.                                                          *)
ShowSession(c) ==
    /\ c.step \in {"restore detail", "select"}
    /\ IF ~Current(c) THEN Silent(c)
       ELSE /\ Returns(c) /\ restoring' = FALSE
            /\ \/ /\ Answered(c) /\ c.id \in c.found
                  /\ session' = c.id
                  /\ IF c.step = "select" THEN Remember(c.id) ELSE UNCHANGED <<remembered, foreign>>
               \/ UNCHANGED <<session, remembered, foreign>>
            /\ UNCHANGED <<options, chatBusy, mounted, pageVersion>>

Created(c) ==
    /\ c.step = "create" /\ Answered(c)
    /\ IF Current(c)
       THEN /\ session' = c.id /\ Remember(c.id)
            /\ options' = options \cup {c.id}
            /\ Goes(c, Call("stream", pageVersion, c.id))
            /\ UNCHANGED <<chatBusy, restoring, mounted, pageVersion>>
       ELSE Silent(c)

(* The answer is complete, or the create or the stream failed or was       *)
(* stopped: the page is free again before the list is read once more.      *)
SendEnds(c) ==
    /\ c.step \in {"create", "stream"}
    /\ c.step = "create" => ~Answered(c)
    /\ IF Current(c)
       THEN /\ chatBusy' = FALSE
            /\ Goes(c, Call("refresh", pageVersion, NoSession))
            /\ UNCHANGED <<remembered, foreign, session, options, restoring, mounted, pageVersion>>
       ELSE Silent(c)

Refreshed(c) ==
    /\ c.step = "refresh"
    /\ Returns(c)
    /\ options' \in IF Current(c) /\ c.served THEN {options, c.found} ELSE {options}
    /\ UNCHANGED <<remembered, foreign, session, chatBusy, restoring, mounted, pageVersion>>

DeleteEnds(c) ==
    /\ c.step = "delete"
    /\ IF ~Current(c) THEN Silent(c)
       ELSE /\ Returns(c) /\ chatBusy' = FALSE
            /\ \/ /\ Answered(c)
                  /\ options' = options \ {c.id}
                  /\ session' = NoSession /\ Remember(NoSession)
               \/ UNCHANGED <<options, session, remembered, foreign>>
            /\ UNCHANGED <<restoring, mounted, pageVersion>>

SettleCall(c) ==
    /\ RestoreList(c) \/ ShowSession(c) \/ Created(c) \/ SendEnds(c) \/ Refreshed(c)
       \/ DeleteEnds(c)
    /\ UNCHANGED exists

ChatPageNext ==
    \/ Leave \/ Return \/ SendQuestion \/ DeleteConversation \/ StopGenerating
    \/ ChangeElsewhere \/ RememberElsewhere
    \/ \E id \in options \cup {NoSession} : SelectSession(id)
    \/ \E c \in calls : Serve(c) \/ SettleCall(c)

ChatPageSpec == ChatPageInit /\ [][ChatPageNext]_chatVars

-----------------------------------------------------------------------------
(* Properties.                                                             *)

\* The page is never left busy or restoring with nothing on its way that
\* could free it: whatever is stopped, fails or is overtaken.
QuietIsFree ==
    mounted /\ (chatBusy \/ restoring) => \E c \in calls : Current(c) /\ c.step # "refresh"

\* The question goes to the conversation on screen, and reloading the page
\* returns to that conversation, although calls of a page that was left may
\* still come back: unless another tab has written the shared key, or the
\* browser refused it, since this page last read or wrote it.
ReloadReturnsHere ==
    mounted =>
        /\ session # NoSession => remembered = session \/ foreign
        /\ \A c \in calls : Current(c) /\ c.step = "stream" => c.id = session

(* The page is free when nothing is on its way, and what it shows is what  *)
(* it would restore, as far as the key is its own.                         *)
PageIsConsistent == ChatPageTypeOK /\ QuietIsFree /\ ReloadReturnsHere
=============================================================================
