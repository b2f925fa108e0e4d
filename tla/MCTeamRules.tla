---------------------------- MODULE MCTeamRules ----------------------------
(* Instances of TeamRules for TLC. *)
EXTENDS TeamRules, TLC
Symmetry == Permutations(Users)
Schedules == {[day |-> 1, variant |-> 1, reuse |-> FALSE], [day |-> 2, variant |-> 2, reuse |-> TRUE]}
=============================================================================
