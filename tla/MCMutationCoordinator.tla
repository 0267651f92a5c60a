----------------------- MODULE MCMutationCoordinator -----------------------
(* Callers of one scope.  c1 and c2 belong to one request and so share an  *)
(* owner id; the clock of c3's process runs ahead by MaxSkew.              *)
EXTENDS MutationCoordinator

TwoCalls == {"c1", "c3"}
ThreeCalls == {"c1", "c2", "c3"}
MCScopes == {"resource-runtime:r1"}
MCScopeOf == [c \in Calls |-> "resource-runtime:r1"]
MCOwners == {"req1", "req2"}
MCOwnerOf == [c \in Calls |-> IF c = "c3" THEN "req2" ELSE "req1"]
MCSkew == [c \in Calls |-> IF c = "c3" THEN MaxSkew ELSE 0]

(* States that differ only in values nobody will read again are one state: *)
(* an instant that no step waits for, the token of a call that is over.    *)
MCView ==
    <<now, row, pc, beat,
      [c \in Calls |-> IF Pending(c) THEN due[c] ELSE 0],
      [c \in Calls |-> IF pc[c] \in {"insert", "takeover", "sleep"} THEN deadline[c] ELSE 0],
      [c \in Calls |-> IF pc[c] \in {"work", "release"} THEN <<acquired[c], lost[c]>>
                       ELSE IF pc[c] = "crashed" \/ outcome[c] = "threw" THEN acquired[c]
                       ELSE "over"]>>
=============================================================================
