----------------------------- MODULE MCAccounts -----------------------------
(***************************************************************************)
(* Accounts with up to three users and two requests, which are             *)
(* interchangeable.                                                        *)
(***************************************************************************)
EXTENDS Accounts, TLC

CONSTANTS r1, r2

Symmetry == Permutations(Requests)
=============================================================================
