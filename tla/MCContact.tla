------------------------------ MODULE MCContact ------------------------------
(* Small instances of Contact for TLC.                                      *)
EXTENDS Contact, TLC

CONSTANTS ana, bob, eva

\* One block: the other pairs have none.
OneBlock == {{<<ana, bob>>}}

\* Each one has muted the next: of the other two, one is in the list and one is not.
Circle == {<<ana, bob>>, <<bob, eva>>, <<eva, ana>>}

Symmetry == Permutations(Requests)
=============================================================================
