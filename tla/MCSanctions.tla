---------------------------- MODULE MCSanctions ----------------------------
(* Small instances of Sanctions for TLC.                                    *)
EXTENDS Sanctions, TLC

\* The accounts other than the administrators, the requests of each kind and the reports are alike.
Symmetry == Permutations(Accounts \ Admins) \cup Permutations(Applies) \cup
            Permutations(Lifts) \cup Permutations(Calls)
=============================================================================
