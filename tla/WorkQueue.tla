----------------------------- MODULE WorkQueue -----------------------------
(***************************************************************************)
(* What the durable work ledger promises its producers and handlers, with  *)
(* no table, clock, list or slot in sight: an item that was recorded waits *)
(* until a worker takes it, is in the hands of that worker alone, and      *)
(* leaves them settled, to be tried again, or lost with the worker.  A lost*)
(* item is not handed out again: claimDue looks at waiting items only.     *)
(* Contract of DurableWorkQueueAdapter in packages/application/src/        *)
(* durable-work.ts and of docs/decisions/ADR-082.                          *)
(***************************************************************************)
CONSTANTS Items,    (* durable work items                                  *)
          Workers   (* whoever drains the queue                            *)

VARIABLES place,    (* "absent", "waiting", "taken", "settled" or "lost"   *)
          hands     (* the workers that have the item in hand              *)

Init ==
    /\ place = [i \in Items |-> "absent"]
    /\ hands = [i \in Items |-> {}]

Record(i) ==
    /\ place[i] = "absent"
    /\ place' = [place EXCEPT ![i] = "waiting"]
    /\ UNCHANGED hands

(* A worker handles one item after the other.                              *)
Take(i, w) ==
    /\ place[i] = "waiting"
    /\ \A j \in Items : w \notin hands[j]
    /\ place' = [place EXCEPT ![i] = "taken"]
    /\ hands' = [hands EXCEPT ![i] = {w}]

(* The worker reports a result, asks for a retry, or is gone.              *)
Leave(i, to) ==
    /\ place[i] = "taken"
    /\ place' = [place EXCEPT ![i] = to]
    /\ hands' = [hands EXCEPT ![i] = {}]

Settle(i) == Leave(i, "settled")
PutBack(i) == Leave(i, "waiting")
Lose(i) == Leave(i, "lost")

Next ==
    \E i \in Items :
        \/ Record(i) \/ Settle(i) \/ PutBack(i) \/ Lose(i)
        \/ \E w \in Workers : Take(i, w)

Spec == Init /\ [][Next]_<<place, hands>>
=============================================================================
