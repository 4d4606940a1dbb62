----------------------------- MODULE CaptionGate -----------------------------
(***************************************************************************)
(* The descriptions of the figures of a document bundle                    *)
(* (tools/drone_documents/enrich.py, caption_quality.py, model_io.py).     *)
(* Every figure is a task: it takes an accepted description from the cache *)
(* or asks the vision model, at most three candidates, checks each one and *)
(* has those of screenshots and software sections reviewed against the     *)
(* picture.  A figure without an accepted candidate is quarantined.        *)
(*                                                                         *)
(* The cache is written at once and survives; the bundle is written when   *)
(* all tasks have ended.  Figures of equal picture and equal surroundings  *)
(* share a cache entry, also when only one of them is in a section of a    *)
(* software: preparing the bundle has marked those sections, and marking   *)
(* them once more at the end of a run changes nothing.  Both answers of    *)
(* the vision model are arbitrary.                                         *)
(***************************************************************************)
EXTENDS Naturals, FiniteSets, Functions

CONSTANTS
    Figures, Pictures, PictureOf, KeyOf,
    SoftwareFigures,        \* metadata_json.software_context, filled in by prepare
    Captions, Malformed, Screens,   \* candidates; the unsound ones; those that call it a screenshot
    NoText,
    Seeds,                  \* what an older bundle may offer: pictures to captions
    CallLimit,              \* --concurrency
    MaxRounds, MaxGateFaults    \* bounds: runs; failed calls and kills

Tries == 3

ASSUME FigureAssumption == PictureOf \in [Figures -> Pictures] /\ SoftwareFigures \subseteq Figures
(* The hash of the picture is part of the key of the cache.                *)
ASSUME KeyAssumption ==
    /\ KeyOf \in [Figures -> Range(KeyOf)]
    /\ \A f, g \in Figures : KeyOf[f] = KeyOf[g] => PictureOf[f] = PictureOf[g]
ASSUME CaptionAssumption == Malformed \cup Screens \subseteq Captions /\ NoText \notin Captions
ASSUME SeedAssumption == Seeds \subseteq [Pictures -> Captions \cup {NoText}]
ASSUME GateBounds == CallLimit \in Nat \ {0} /\ {MaxRounds, MaxGateFaults} \subseteq Nat

VARIABLES
    stage,      \* manifest: prepared, enrichment_partial, enriched; or broken
    figure,     \* elements.jsonl: the figure's status, description and gate
    kept,       \* vlm-cache: the accepted description of a key
    enriching, tasks, denied,       \* the process: its tasks and provider_blocked
    rounds, gateFaults,
    passed      \* history: <<picture, caption>> a review has passed

gateVars == <<stage, figure, kept, enriching, tasks, denied, rounds, gateFaults, passed>>

Unread == [text |-> NoText, check |-> "none"]
Pending(seed) == [at |-> "waiting", tries |-> 1, text |-> seed, check |-> "none"]
Undescribed == [f \in Figures |-> [status |-> "prepared", text |-> NoText, check |-> "none"]]
Ended == {"described", "description_quarantined", "description_failed"}

GateInit ==
    /\ stage = "prepared" /\ figure = Undescribed
    /\ kept = [k \in Range(KeyOf) |-> Unread]
    /\ enriching = FALSE /\ denied = FALSE
    /\ tasks = [f \in Figures |-> Pending(NoText)]
    /\ rounds = 0 /\ gateFaults = 0 /\ passed = {}

-----------------------------------------------------------------------------
(* Checks. *)

(* description_issues: what can be seen from the answer alone.             *)
Sound(c) == c \in Captions \ Malformed

(* A screenshot, or a figure in a section of a software.                   *)
NeedsVision(f, c) == c \in Screens \/ f \in SoftwareFigures

\* Mutant: an accepted entry of the cache is good for every figure.
UsableAnywhere(f, entry) == Sound(entry.text) /\ entry.check # "none"

Usable(f, entry) ==
    /\ Sound(entry.text) /\ entry.check # "none"
    /\ NeedsVision(f, entry.text) => entry.check = "vision_grounding"

InFlight == {f \in Figures : tasks[f].at \in {"asking", "reviewing"}}

Become(f, t) == tasks' = [tasks EXCEPT ![f] = t]
Move(f, to) == Become(f, [tasks[f] EXCEPT !.at = to])

Accept(f, c, check) ==
    /\ kept' = [kept EXCEPT ![KeyOf[f]] = [text |-> c, check |-> check]]
    /\ Become(f, [tasks[f] EXCEPT !.at = "described", !.text = c, !.check = check])

(* A rejected candidate leaves its reasons for the next attempt.           *)
Reject(f) ==
    /\ IF tasks[f].tries = Tries
       THEN Move(f, "description_quarantined")
       ELSE Become(f, [tasks[f] EXCEPT !.at = "drafting", !.tries = @ + 1, !.text = NoText])
    /\ UNCHANGED kept

Judge(f, c) ==
    IF ~Sound(c) THEN Reject(f)
    ELSE IF NeedsVision(f, c)
    THEN Become(f, [tasks[f] EXCEPT !.at = "unreviewed", !.text = c]) /\ UNCHANGED kept
    ELSE Accept(f, c, "structural_checks")

-----------------------------------------------------------------------------
(* A run. *)

(* The bundle must be valid; the descriptions of an older bundle are       *)
(* candidates for the figures of the same picture.                         *)
StartEnrich ==
    /\ ~enriching /\ stage # "broken" /\ rounds < MaxRounds
    /\ enriching' = TRUE /\ denied' = FALSE /\ rounds' = rounds + 1
    /\ \E old \in Seeds : tasks' = [f \in Figures |-> Pending(old[PictureOf[f]])]
    /\ UNCHANGED <<stage, figure, kept, gateFaults, passed>>

(* The cached description is taken, or becomes the first candidate.        *)
LookUp(f) ==
    /\ enriching /\ tasks[f].at = "waiting"
    /\ LET entry == kept[KeyOf[f]]
           seed == IF entry.check # "none" THEN entry.text ELSE tasks[f].text
       IN CASE Usable(f, entry) ->
                 /\ Become(f, [tasks[f] EXCEPT !.at = "described", !.text = entry.text,
                                               !.check = entry.check])
                 /\ UNCHANGED kept
            [] ~Usable(f, entry) /\ seed # NoText -> Judge(f, seed)
            [] OTHER -> Move(f, "drafting") /\ UNCHANGED kept
    /\ UNCHANGED <<stage, figure, enriching, denied, rounds, gateFaults, passed>>

(* guard_request: nothing is sent to a provider that has refused the key.  *)
CallModel(f) ==
    /\ enriching /\ tasks[f].at \in {"drafting", "unreviewed"}
    /\ Cardinality(InFlight) < CallLimit
    /\ Move(f, CASE denied -> "description_failed"
                 [] ~denied /\ tasks[f].at = "drafting" -> "asking"
                 [] OTHER -> "reviewing")
    /\ UNCHANGED <<stage, figure, kept, enriching, denied, rounds, gateFaults, passed>>

ModelAnswers(f) ==
    /\ enriching /\ tasks[f].at = "asking"
    /\ \E c \in Captions : Judge(f, c)
    /\ UNCHANGED <<stage, figure, enriching, denied, rounds, gateFaults, passed>>

Reviewed(f) ==
    /\ enriching /\ tasks[f].at = "reviewing"
    /\ \/ /\ Accept(f, tasks[f].text, "vision_grounding")
          /\ passed' = passed \cup {<<PictureOf[f], tasks[f].text>>}
       \/ Reject(f) /\ UNCHANGED passed
    /\ UNCHANGED <<stage, figure, enriching, denied, rounds, gateFaults>>

(* chat_json gives up: an answer that is no JSON object is the figure's    *)
(* fault, everything else is the run's.                                    *)
CallFails(f) ==
    /\ enriching /\ f \in InFlight /\ gateFaults < MaxGateFaults
    /\ gateFaults' = gateFaults + 1
    /\ \/ Move(f, "description_quarantined") /\ UNCHANGED denied
       \/ Move(f, "description_failed") /\ UNCHANGED denied
       \/ Move(f, "description_failed") /\ denied' = TRUE
    /\ UNCHANGED <<stage, figure, kept, enriching, rounds, passed>>

-----------------------------------------------------------------------------
(* The end of a run. *)

StageAfter == IF \E f \in Figures : tasks[f].at = "description_failed"
              THEN "enrichment_partial" ELSE "enriched"

(* A description of an earlier run stays in the figure's metadata.         *)
Outcome(f) ==
    IF tasks[f].at = "described"
    THEN [status |-> "described", text |-> tasks[f].text, check |-> tasks[f].check]
    ELSE [status |-> tasks[f].at, text |-> figure[f].text, check |-> "none"]

(* Elements and links are written, the software sections marked, the       *)
(* chunks built and the bundle sealed.                                     *)
WriteBundle ==
    /\ enriching /\ \A f \in Figures : tasks[f].at \in Ended
    /\ stage' = StageAfter
    /\ figure' = [f \in Figures |-> Outcome(f)]
    /\ enriching' = FALSE
    /\ tasks' = [f \in Figures |-> Pending(NoText)]
    /\ UNCHANGED <<kept, denied, rounds, gateFaults, passed>>

(* The process is killed: the tasks are lost, and when the files were      *)
(* being written their hashes no longer fit the manifest.                  *)
Killed ==
    /\ enriching /\ gateFaults < MaxGateFaults
    /\ gateFaults' = gateFaults + 1 /\ enriching' = FALSE
    /\ tasks' = [f \in Figures |-> Pending(NoText)]
    /\ \/ UNCHANGED stage
       \/ (\A f \in Figures : tasks[f].at \in Ended) /\ stage' = "broken"
    /\ UNCHANGED <<figure, kept, denied, rounds, passed>>

(* stage_worker: a bundle that is not valid is prepared again; the cache   *)
(* is beside it.                                                           *)
PrepareAgain ==
    /\ ~enriching /\ stage = "broken"
    /\ stage' = "prepared" /\ figure' = Undescribed
    /\ UNCHANGED <<kept, enriching, tasks, denied, rounds, gateFaults, passed>>

GateNext ==
    \/ StartEnrich \/ WriteBundle \/ Killed \/ PrepareAgain
    \/ \E f \in Figures : LookUp(f) \/ CallModel(f) \/ ModelAnswers(f) \/ Reviewed(f) \/ CallFails(f)

GateSpec == GateInit /\ [][GateNext]_gateVars

-----------------------------------------------------------------------------
(* Properties. *)

GateTypeOK ==
    /\ stage \in {"prepared", "enriched", "enrichment_partial", "broken"}
    /\ figure \in [Figures -> [status : Ended \cup {"prepared"}, text : Captions \cup {NoText},
                               check : {"none", "structural_checks", "vision_grounding"}]]
    /\ {enriching, denied} \subseteq BOOLEAN
    /\ passed \subseteq Pictures \X Captions

(* What a task accepts, by itself or from the cache, is sound, and when    *)
(* the figure needs it a review has passed this very text for this         *)
(* picture - also when another figure, in another run, left it in the      *)
(* cache without a review (enrich.py, the quality gate).                   *)
AcceptedIsReviewed ==
    \A f \in Figures : tasks[f].at = "described" =>
        /\ Sound(tasks[f].text)
        /\ NeedsVision(f, tasks[f].text) => <<PictureOf[f], tasks[f].text>> \in passed

(* A bundle that says it is enriched holds an outcome for every figure,    *)
(* and a description in it of a screenshot, or of a figure in a section of *)
(* a software, has passed a review of this text against this picture,      *)
(* whatever runs were killed or refused on the way and whichever figure    *)
(* filled the cache (enrich.py, the gate and the manifest's stage).        *)
EnrichedIsWhole ==
    /\ stage = "enriched" =>
        \A f \in Figures : figure[f].status \in {"described", "description_quarantined"}
    /\ \A f \in Figures : figure[f].status = "described" =>
        /\ Sound(figure[f].text)
        /\ NeedsVision(f, figure[f].text) => <<PictureOf[f], figure[f].text>> \in passed

(* What the gate lets through and what a bundle says of itself. *)
CaptionsAreSound == GateTypeOK /\ AcceptedIsReviewed /\ EnrichedIsWhole
=============================================================================
