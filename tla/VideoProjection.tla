---------------------------- MODULE VideoProjection ----------------------------
(***************************************************************************)
(* What the video graph promises to its readers, without builds, workers   *)
(* or leases: what is served for a video is a graph of the revision its    *)
(* source had when the graph was published, made of facts found in that    *)
(* revision, or nothing.                                                   *)
(***************************************************************************)
CONSTANTS
    Revisions,      \* the fingerprints the source can have
    Nothing,        \* nothing is served
    Facts,          \* what a graph can state
    FoundIn(_, _)   \* FoundIn(f, r): fact f is found in revision r

VARIABLES
    source,   \* the current revision, or a value outside Revisions
    served,   \* the revision whose graph readers see, or Nothing
    facts     \* what that graph states

Init == source \notin Revisions /\ served = Nothing /\ facts = {}

ChangeSource == UNCHANGED <<served, facts>>

\* Only the current revision is published: an older one never replaces it.
Publish ==
    /\ source \in Revisions
    /\ served' = source
    /\ facts' \in SUBSET {f \in Facts : FoundIn(f, source)}
    /\ UNCHANGED source

Hide == served' = Nothing /\ facts' = {} /\ UNCHANGED source

\* A source that is gone may take what was served with it.
Vanish == source' \notin Revisions /\ served' = Nothing /\ facts' = {}

Next == ChangeSource \/ Publish \/ Hide \/ Vanish

Spec == Init /\ [][Next]_<<source, served, facts>>
================================================================================
