-------------------------- MODULE MCSshCoordinator --------------------------
(* SshCoordinator for TLC: the calls and their symmetry.                   *)
EXTENDS SshCoordinator, TLC

CONSTANTS a, b, c

TwoCalls == {a, b}
ThreeCalls == {a, b, c}

Symmetry == Permutations(Calls)
=============================================================================
