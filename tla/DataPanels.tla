------------------------------ MODULE DataPanels ------------------------------
(***************************************************************************)
(* The browsing pages of the frontend (DatabasePage, RunDetailPage,        *)
(* ContentDetailPage, SupplierPage, DocumentLibraryPanel, DronesPage and   *)
(* VideoGraphPage).  Each keeps a selection and a few React effects; an    *)
(* effect requests what the selection asks for, and replies come in any    *)
(* order while the user goes on selecting.  React runs the cleanups and    *)
(* effects of a change before it renders again, so they are one step with  *)
(* the change.                                                             *)
(***************************************************************************)
EXTENDS Naturals, FiniteSets

CONSTANTS
    Ids,        \* what can be selected; 0 is nothing
    MaxPending  \* bound on the requests under way

ASSUME IdAssumption == Ids \subseteq Nat \ {0} /\ Ids # {}

VARIABLES
    panel,      \* the page that is open
    sel,        \* the selection: master, filter (with the offset) and detail
    displayed,      \* of each effect: the selection whose answer is on screen
    loading,    \* of each effect
    listed,     \* the details the list on screen offers
    requests    \* promises that have not settled

panelVars == <<panel, sel, displayed, loading, listed, requests>>

Keys == {"master", "filter", "detail"}
NoAnswer == [k \in {"nothing"} |-> 0]

(* A page is a list effect and what hangs on it: the keys each effect      *)
(* depends on, what a new list does to the detail, and which other keys a  *)
(* choice of each key clears.                                              *)
Page(list, detail, adopts, clears) ==
    [list |-> list, detail |-> detail, adopts |-> adopts, clears |-> clears]
Clears(master, filter, detail) == [master |-> master, filter |-> filter, detail |-> detail]

DatabasePage ==
    Page({"master"}, Keys, "keep listed", Clears({"filter", "detail"}, {}, {"filter"}))
RunDetailPage == Page({}, {"detail"}, "keep any", Clears({}, {}, {}))
ContentDetailPage ==
    Page({"master"}, {"master", "detail"}, "keep any", Clears({"detail"}, {}, {}))
SupplierPage ==
    Page({"master", "filter"}, {"detail"}, "none", Clears({"filter", "detail"}, {"detail"}, {}))
DocumentLibraryPanel ==
    Page({"master", "filter"}, {"detail"}, "keep listed", Clears({"detail"}, {"detail"}, {}))
DronesPage ==
    Page({"master"}, {"master", "detail"}, "keep listed", Clears({"filter", "detail"}, {}, {}))
VideoGraphPage ==
    Page({"master", "filter"}, {"detail", "filter"}, "clear", Clears({"detail"}, {"detail"}, {}))

PanelOf(name) ==
    CASE name = "database" -> DatabasePage
      [] name = "runs" -> RunDetailPage
      [] name = "contents" -> ContentDetailPage
      [] name = "supplier" -> SupplierPage
      [] name = "documents" -> DocumentLibraryPanel
      [] name = "drones" -> DronesPage
      [] name = "graph" -> VideoGraphPage

Names == {"database", "runs", "contents", "supplier", "documents", "drones", "graph"}
Effects == {"list", "detail"}
Deps(e) == IF e = "list" THEN PanelOf(panel).list ELSE PanelOf(panel).detail
Asked(e, s) == [k \in Deps(e) |-> s[k]]

(* The detail effect has nothing to ask for without a detail.              *)
Asks(e, s) == e = "list" \/ s["detail"] # 0

Request(e, s) == [effect |-> e, asked |-> Asked(e, s), ignore |-> FALSE]

\* Mutant: the cleanup of an effect is forgotten.
NotVoided(rerun, left) == left

(* ignore = true: the replies of the last run of these effects are void,   *)
(* and so is an expansion of a graph that is loaded again.                 *)
Voided(rerun, left) ==
    {IF r.effect \in rerun \/ (r.effect = "expand" /\ "list" \in rerun)
     THEN [r EXCEPT !.ignore = TRUE] ELSE r : r \in left}

(* A list that is requested again leaves the screen, except the contents    *)
(* and the tables of the same database.                                    *)
Stays(s) == panel = "contents" \/ (panel = "database" /\ s["master"] = sel["master"])

(* An effect with nothing to ask for is not loading, except that of the    *)
(* rows of the database, which leaves before it says so.                   *)
Idle(e, loads) == panel = "database" /\ loads[e]

(* The selection becomes s: the effects whose keys changed, and those in   *)
(* again, are cleaned up and run.                                          *)
Change(s, again, left, shows, loads) ==
    LET rerun == again \cup {e \in Effects : Asked(e, s) # Asked(e, sel)}
        asking == {e \in rerun : Asks(e, s)}
    IN  /\ sel' = s
        /\ requests' = Voided(rerun, left) \cup {Request(e, s) : e \in asking}
        /\ displayed' = [e \in Effects |->
              IF e \in rerun /\ ~(e = "list" /\ Stays(s)) THEN NoAnswer ELSE shows[e]]
        /\ loading' = [e \in DOMAIN loading |->
              IF e \in Effects /\ e \in rerun THEN e \in asking \/ Idle(e, loads)
              ELSE IF e = "expand" /\ "list" \in rerun THEN FALSE ELSE loads[e]]

Room == Cardinality(requests) + 2 <= MaxPending

PanelInit ==
    /\ panel \in Names
    /\ sel = [k \in Keys |-> IF k = "master" THEN CHOOSE i \in Ids : TRUE ELSE 0]
    /\ displayed = [e \in Effects |-> NoAnswer]
    /\ loading = [e \in Effects \cup {"expand"} |-> e = "list"]
    /\ listed = {}
    /\ requests = {Request("list", sel)}

-----------------------------------------------------------------------------
ChooseKey(k, id) ==
    /\ Room /\ id # sel[k] /\ k \in PanelOf(panel).list \cup PanelOf(panel).detail
    /\ k = "detail" => /\ id \in listed \/ (id = 0 /\ panel # "database")
                       /\ displayed["list"] # NoAnswer
    /\ Change([x \in Keys |-> IF x = k THEN id
                              ELSE IF x \in PanelOf(panel).clears[k] THEN 0 ELSE sel[x]],
              {}, requests, displayed, loading)
    /\ listed' = IF panel = "database" /\ k = "master" THEN {} ELSE listed
    /\ UNCHANGED panel

(* The refresh button and the revision it counts; the drones offer it only *)
(* after an error.                                                         *)
RefreshPanel ==
    /\ Room /\ panel \in {"database", "supplier", "documents", "graph", "drones"}
    /\ panel \in {"database", "documents", "drones"} => ~loading["list"]
    /\ panel = "database" => ~loading["detail"]
    /\ panel = "drones" => displayed["list"] = NoAnswer
    /\ Change(IF panel \in {"graph", "supplier"} THEN [sel EXCEPT !["detail"] = 0] ELSE sel,
              {"list", "detail"}, requests, displayed, loading)
    /\ UNCHANGED <<panel, listed>>

(* expandNode: one at a time, and only on the graph it was asked for.      *)
ExpandNode ==
    /\ Room /\ panel = "graph" /\ ~loading["expand"] /\ displayed["list"] # NoAnswer
    /\ loading' = [loading EXCEPT !["expand"] = TRUE]
    /\ requests' = requests \cup
         {[effect |-> "expand", asked |-> Asked("list", sel), ignore |-> FALSE]}
    /\ UNCHANGED <<panel, sel, displayed, listed>>

(* What a list that arrives makes of the detail.                           *)
Adopted(adopts, items) ==
    LET first == IF items = {} THEN 0 ELSE CHOOSE i \in items : TRUE IN
    CASE adopts = "keep listed" -> IF sel["detail"] \in items THEN sel["detail"] ELSE first
      [] adopts = "keep any" -> IF sel["detail"] # 0 THEN sel["detail"] ELSE first
      [] OTHER -> sel["detail"]

Void(r) ==
    /\ r.ignore
    /\ requests' = requests \ {r} /\ UNCHANGED <<panel, sel, displayed, loading, listed>>

ListArrives(r) ==
    /\ ~r.ignore /\ r.effect = "list"
    /\ \E items \in SUBSET Ids :
         LET s == [sel EXCEPT !["detail"] = Adopted(PanelOf(panel).adopts, items)]
         IN  /\ listed' = items
             /\ Change(s, {}, requests \ {r}, [displayed EXCEPT !["list"] = r.asked],
                       [loading EXCEPT !["list"] = FALSE])
    /\ UNCHANGED panel

OtherArrives(r) ==
    /\ ~r.ignore /\ r.effect # "list"
    /\ requests' = requests \ {r}
    /\ loading' = [loading EXCEPT ![r.effect] = FALSE]
    /\ displayed' = IF r.effect = "detail" THEN [displayed EXCEPT !["detail"] = r.asked] ELSE displayed
    /\ UNCHANGED <<panel, sel, listed>>

(* An error is displayed in place of the answer; a list of documents that      *)
(* fails also clears the choice.                                           *)
RequestFails(r) ==
    /\ ~r.ignore
    /\ LET s == IF panel = "documents" /\ r.effect = "list" THEN [sel EXCEPT !["detail"] = 0] ELSE sel
           shows == IF panel = "contents" /\ r.effect = "list"
                    THEN [displayed EXCEPT !["list"] = NoAnswer] ELSE displayed
       IN  Change(s, {}, requests \ {r}, shows, [loading EXCEPT ![r.effect] = FALSE])
    /\ UNCHANGED <<panel, listed>>

PanelNext ==
    \/ RefreshPanel \/ ExpandNode
    \/ \E k \in Keys, id \in Ids \cup {0} : ChooseKey(k, id)
    \/ \E r \in requests : Void(r) \/ ListArrives(r) \/ OtherArrives(r) \/ RequestFails(r)

PanelSpec == PanelInit /\ [][PanelNext]_panelVars

-----------------------------------------------------------------------------
(* Properties.                                                             *)

\* What is on screen was asked for with the selection that is on screen,
\* in whatever order the replies came (the contents keep their old list until
\* the new one is there), and where the page chooses for the
\* user the detail is one the list offers.
ShownIsSelected ==
    /\ \A e \in Effects :
          displayed[e] # NoAnswer /\ ~(panel = "contents" /\ e = "list")
            => displayed[e] = Asked(e, sel)
    /\ PanelOf(panel).adopts = "keep listed" /\ displayed["list"] # NoAnswer
         => sel["detail"] \in listed \cup {0}

\* The page says that it is loading while an answer it would show is on its
\* way, and only then.  The database page alone may say so with nothing on its
\* way, for the rows and while no table is selected: a table that is selected
\* is loading only if its rows are awaited.
RowsLeftLoading(e) == panel = "database" /\ e = "detail" /\ sel["detail"] = 0
LoadingIsTrue ==
    \A e \in DOMAIN loading :
        LET awaited == \E r \in requests : r.effect = e /\ ~r.ignore IN
        /\ awaited => loading[e]
        /\ loading[e] => awaited \/ RowsLeftLoading(e)

(* The panels show what is selected, and load what they say they load. *)
PanelIsTrue == ShownIsSelected /\ LoadingIsTrue
=============================================================================
