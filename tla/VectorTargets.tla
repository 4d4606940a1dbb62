----------------------------- MODULE VectorTargets -----------------------------
(* The vector settings every indexer reads: QDRANT_COLLECTION on the       *)
(* server of QDRANT_URL.  A target is one collection.                      *)
CONSTANTS
    Targets,
    StoreOf,        \* [Targets -> a Qdrant server]
    None

ASSUME NoTargetAssumption == None \notin Targets
=============================================================================
