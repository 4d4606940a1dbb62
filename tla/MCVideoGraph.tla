----------------------------- MODULE MCVideoGraph -----------------------------
(* Instances of VideoGraph for TLC.                                        *)
EXTENDS VideoGraphTables, TLC

CONSTANTS r1, r2, c1, c2, t1, t2, t3, w1, w2, v1, v2

\* Revision r1 has two chunks; r2 rewrites the first and keeps the second.
MCTextOf == [r \in Revisions |->
               [c \in Chunks |-> IF c = c2 THEN t2 ELSE IF r = r1 THEN t1 ELSE t3]]
\* An extraction of t1 quotes nothing that t3 still has, and conversely.
MCGrounded == {<<t, t>> : t \in Texts}
\* An extraction of t3 may still validate against t1: t1 contains what it quotes.
MCGroundedLoose == MCGrounded \cup {<<t3, t1>>}
MCWorkerVersion == [w \in Workers |-> v1]

\* One chunk per revision, with a text of its own: the queue is the subject.
MCTextOf1 == [r \in Revisions |-> [c \in Chunks |-> IF r = r1 THEN t1 ELSE t3]]
Bounds(e, o, s, c, r) == [edits |-> e, operator |-> o, slow |-> s, crashes |-> c, retries |-> r]
QueueBudget == Bounds(1, 1, 1, 0, 0)
ChunkBudget == Bounds(2, 0, 0, 0, 1)
LiveBudget == Bounds(1, 1, 1, 1, 0)
RaceBudget == Bounds(2, 0, 0, 0, 0)
Symmetry == Permutations(Workers)
===============================================================================
