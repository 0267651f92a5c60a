--------------------------- MODULE ExclusiveScope ---------------------------
(***************************************************************************)
(* What runExclusive promises its callers, with no lease, clock or row in  *)
(* sight: among the calls that name one coordination scope, at most one    *)
(* runs its work at a time; a call may give up waiting; a process may die  *)
(* inside its work, after which the scope becomes free again.  Contract of *)
(* the MutationCoordinator port in packages/application/src/ports.ts and   *)
(* of docs/decisions/ADR-028.                                              *)
(***************************************************************************)
CONSTANTS Calls,    (* the calls of runExclusive                           *)
          Scopes,   (* coordination scopes, "kind:key" in the source       *)
          ScopeOf   (* the scope each call names                           *)

VARIABLE phase      (* how far each call is; settled: its work is over     *)

Phases == {"idle", "waiting", "working", "settled", "crashed"}

Init == phase = [c \in Calls |-> "idle"]

Request(c) ==
    /\ phase[c] = "idle"
    /\ phase' = [phase EXCEPT ![c] = "waiting"]

(* The work of c starts only when no call works in the same scope.         *)
Enter(c) ==
    /\ phase[c] = "waiting"
    /\ \A d \in Calls : ScopeOf[d] = ScopeOf[c] => phase[d] # "working"
    /\ phase' = [phase EXCEPT ![c] = "working"]

Leave(c) ==
    /\ phase[c] = "working"
    /\ phase' = [phase EXCEPT ![c] = "settled"]

GiveUp(c) ==
    /\ phase[c] = "waiting"
    /\ phase' = [phase EXCEPT ![c] = "settled"]

Die(c) ==
    /\ phase[c] \in {"waiting", "working", "settled"}
    /\ phase' = [phase EXCEPT ![c] = "crashed"]

Next == \E c \in Calls :
            Request(c) \/ Enter(c) \/ Leave(c) \/ GiveUp(c) \/ Die(c)

Spec == Init /\ [][Next]_phase
=============================================================================
