-------------------------- MODULE MCPasswordReset --------------------------
(* Small instances of PasswordReset for TLC.                                *)
EXTENDS PasswordReset, TLC

Symmetry == Permutations(Asks) \cup Permutations(Confirms) \cup Permutations(Accounts)
=============================================================================
