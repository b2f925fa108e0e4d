----------------------------- MODULE MCMatchday -----------------------------
(* Two teams of one club, one result post each, and every step of the workers
   and the users between the first reading and the transfer. *)
EXTENDS Matchday
=============================================================================
