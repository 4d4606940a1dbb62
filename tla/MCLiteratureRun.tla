---------------------------- MODULE MCLiteratureRun ----------------------------
(* Small instances of LiteratureRun for TLC: the .cfg files name the runs  *)
(* and the workers.                                                        *)
EXTENDS LiteratureRun, TLC
=============================================================================
