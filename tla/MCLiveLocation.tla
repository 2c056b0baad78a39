--------------------------- MODULE MCLiveLocation ---------------------------
(* Small instances of LiveLocation for TLC.                                 *)
EXTENDS LiveLocation, TLC

CONSTANTS ana, admin

\* The administrator has no zone in the profile: a search with a radius needs one.
ZonaOf == [u \in {ana, admin} |-> IF u = ana THEN 0 ELSE NULL]

Symmetry == Permutations(Requests)
=============================================================================
