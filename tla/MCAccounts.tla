----------------------------- MODULE MCAccounts -----------------------------
(* Two accounts and two browsers: every overlap of two requests about one
   account, with the platform's changes between their steps.  The browsers are
   interchangeable. *)
EXTENDS Accounts

Symmetry == Permutations(Browsers)
=============================================================================
