--------------------------- MODULE MCMetaPublishing ---------------------------
(* Instances of MetaPublishing for TLC. *)
EXTENDS MetaPublishing, TLC

CONSTANTS j1, j2, a1, a2, w1, w2, u1

\* Attempts are interchangeable, and so are the workers; the workers' steps
\* are symmetric and no liveness property is checked under this set.
AttemptSymmetry == Permutations(Attempts) \cup Permutations(Workers)
=============================================================================
