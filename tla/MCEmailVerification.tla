------------------------ MODULE MCEmailVerification ------------------------
(* Small instances of EmailVerification for TLC.                            *)
EXTENDS EmailVerification, TLC

Symmetry == Permutations(Sends) \cup Permutations(Confirms) \cup Permutations(Accounts)
=============================================================================
