--------------------------- MODULE MCDurableWork ---------------------------
(* DurableWork for TLC: replicas, items and the symmetry of both.  Only    *)
(* safety is checked with symmetry.                                        *)
EXTENDS DurableWork, TLC

CONSTANTS p1, p2, p3, i1, i2

TwoReplicas == {p1, p2}
ThreeReplicas == {p1, p2, p3}
OneItem == {i1}
TwoItems == {i1, i2}

Symmetry == Permutations(Processes) \cup Permutations(Items)
=============================================================================
