--------------------------- MODULE MCDeployments ---------------------------
(* Small instances of Deployments: interchangeable commands on one or two  *)
(* placements of one resource.                                             *)
EXTENDS Deployments, TLC

CONSTANTS c1, c2, c3, p1, p2
TwoCommands == {c1, c2}
ThreeCommands == {c1, c2, c3}
BothKinds == {"container", "host-process"}
ContainersOnly == {"container"}
OnePlacement == {p1}
TwoPlacements == {p1, p2}
Symmetry == Permutations(Commands) \cup Permutations(Placements)

(* Two states are one when they differ only in what nobody reads again:    *)
(* the fields of a command that its remaining steps do not use, the kind   *)
(* and the caller of an executor past its guard, a dead one's memory.      *)
CommandView(c) ==
    LET s == cmd[c]
    IN CASE s.pc \in {"idle", "done", "crashed"} -> <<s.pc>>
         [] s.pc = "over" -> <<"over", {p \in Placements : lease[p] = c}>>
         [] s.pc \in {"wait", "admit"} ->
              <<s.pc, s.kind, s.placement, s.target,
                IF s.kind = "reconcile" THEN <<s.copy.status, s.copy.notes>> ELSE <<>>>>
         [] s.pc \in {"insert", "start", "admitted"} -> <<s.pc, s.kind = "create", s.placement, s.new>>
         [] OTHER -> <<s.pc, s.kind, s.placement, s.target, s.new, s.copy>>
ExecutorView(d) ==
    LET e == exec[d]
    IN CASE e.pc \in {"none", "done", "dead"} -> <<"off">>
         [] e.pc \in {"deploying", "report"} -> <<e.pc, e.mem.status, e.mem.mark, e.mem.archived>>
         [] OTHER -> <<e.pc, e.kind, e.by, e.mem.status, e.mem.mark, e.mem.archived>>
MCView == <<row, ids, lease, [c \in Commands |-> CommandView(c)],
            [d \in Ids |-> ExecutorView(d)], note>>

(* What the properties of the orderly runs read besides.                   *)
OrderlyView == <<MCView, undone,
                 [c \in Commands |-> IF cmd[c].pc = "over" THEN cmd[c].new ELSE NoId]>>
=============================================================================
