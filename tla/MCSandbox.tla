----------------------------- MODULE MCSandbox -----------------------------
(* Sandbox for TLC: two requests at a time beside the maintenance tick.    *)
EXTENDS Sandbox, TLC

CONSTANTS c1, c2

TwoCallers == {c1, c2}

(* One caller may ask for anything, the other resumes.                     *)
AnyAndResume == (c1 :> {"pause", "resume", "network", "terminate"}) @@ (c2 :> {"resume"})
=============================================================================
