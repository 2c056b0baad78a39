----------------------------- MODULE MCReports -----------------------------
(* Small instances of Reports for TLC.                                      *)
EXTENDS Reports, TLC

CONSTANTS ana, bob, act, msg

\* Two contents, each of another person.
Authors == act :> ana @@ msg :> bob
OneAuthor == act :> ana

\* The two people may be swapped together with what they made.
Swapped == ana :> bob @@ bob :> ana @@ act :> msg @@ msg :> act

Symmetry == {Swapped} \cup UNION {Permutations(S) : S \in {Posts, Lists, Reviews}}
=============================================================================
