----------------------------- MODULE MCAccounts -----------------------------
(* Symmetry for the instance of Accounts.                                  *)
EXTENDS Accounts, TLC

Symmetry == Permutations(Request) \cup Permutations(Device) \cup Permutations(Account)
=============================================================================
