----------------------------- MODULE MCAccounts -----------------------------
(* Requests that compete for one login, one state and one reset token; the *)
(* GitHub account has the name of a local user.                             *)
EXTENDS Accounts, TLC

CONSTANTS l1, l2, g1

Logs == (g1 :> l1)

Symmetry == Permutations(Requests)
=============================================================================
