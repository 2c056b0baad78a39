----------------------------- MODULE MCProfile -----------------------------
(* Small instances of Profile for TLC.                                      *)
EXTENDS Profile, TLC

Symmetry == Permutations(Requests)
=============================================================================
