------------------------- MODULE DurableWorkProofs -------------------------
(***************************************************************************)
(* DurableWork for any number of replicas, items, attempts and faults: the *)
(* types, that an item is in the hands of one replica at most, and that a  *)
(* replica that drains has a slot.                                         *)
(* Exclusive claims are inductive only together with four facts: a tick    *)
(* that logs, handles or completes has an item; an item that may be claimed *)
(* has an attempt left; so has the item of a tick that asks for a retry;   *)
(* and an item is absent until its producer records it.                    *)
(* Slots are kept because a row that has an owner is online and, without a *)
(* fault, grows old only after its process is gone.                        *)
(* The refinement of WorkQueue follows from exclusive claims and one fact  *)
(* more: a tick that does not handle anything has no item.  Slots are      *)
(* counted by an injection: each replica that drains is mapped to its slot.*)
(***************************************************************************)
EXTENDS DurableWork, FiniteSetTheorems, TLAPS

AtWork == {"log", "handle", "complete"}

HasItem == \A p \in Processes : drain[p].pc \in AtWork => drain[p].item \in Items

AttemptsLeft ==
    /\ \A i \in Items : item[i].status \in {"absent"} \cup Claimables
                            => item[i].attempts < MaxAttempts
    /\ \A p \in Processes : drain[p].pc = "complete" /\ drain[p].result = "retry-scheduled"
                            => drain[p].attempt < MaxAttempts

NotRecorded == \A i \in Items : producer[i] = "new" => item[i].status = "absent"

IInv == TypeOK /\ HasItem /\ AttemptsLeft /\ NotRecorded /\ ClaimIsExclusive

(* Where everything starts: no item, no tick.                              *)
LEMMA InitiallyExclusive == Init => IInv
  BY WorkerSlotsAssumption, DurableWorkAssumption
     DEF Init, IInv, TypeOK, HasItem, AttemptsLeft, NotRecorded, ClaimIsExclusive, SlotsInit, SlotsTypeOK,
         Slots, Row, NoRow, Process, Lives, Item, NoItem, Drain, NoTick, AtWork, Claimables,
         Settled

-----------------------------------------------------------------------------
(* The slots.                                                              *)
LEMMA SlotsKeepTypes ==
  ASSUME SlotsTypeOK, NEW p \in Processes,
         \/ StartRuntime(p) \/ TimerFires(p) \/ SlotClaimed(p) \/ SlotHeld(p) \/ ClaimFails(p)
         \/ Heartbeat(p) \/ MarkStopped(p) \/ Exit(p)
         \/ \E ticking \in BOOLEAN : Stop(p, ticking)
         \/ \E s \in Slots : GoesStale(s)
  PROVE  SlotsTypeOK'
<1> USE WorkerSlotsAssumption DEF SlotsTypeOK, Slots, Lives
<1>0. \A s : [worker |-> p, owner |-> p, online |-> TRUE, fresh |-> TRUE] \in Row
  BY DEF Row
<1>f. ASSUME Fault \/ UNCHANGED faults
      PROVE  faults' \in 0..MaxFaults
  BY <1>f DEF Fault
<1>p. proc[p] \in Process /\ 0 \in 0..SlotCount /\ 1 \in 0..SlotCount
  OBVIOUS
<1>t. \A q \in Processes : \A n \in 0..SlotCount : [proc[q] EXCEPT !.try = n] \in Process
  BY DEF Process
<1>1. CASE StartRuntime(p)
  <2>1. [proc[p] EXCEPT !.life = "up", !.try = 1] \in Process
    BY <1>p DEF Process
  <2>2. proc' = [proc EXCEPT ![p] = [proc[p] EXCEPT !.life = "up", !.try = 1]]
    BY <1>1 DEF StartRuntime
  <2> QED
    BY <1>1, <2>1, <2>2 DEF StartRuntime
<1>2. CASE TimerFires(p)
  BY <1>2 DEF TimerFires, Process
<1>3. CASE SlotClaimed(p)
  <2> DEFINE n == IF proc[p].leased = 0 THEN proc[p].try ELSE proc[p].leased
  <2>0. n \in 0..SlotCount
    BY <1>p DEF Process
  <2>1. [proc[p] EXCEPT !.try = 0, !.leased = n] \in Process
    <3> HIDE DEF n
    <3> QED
      BY <1>p, <2>0 DEF Process
  <2>2. proc' = [proc EXCEPT ![p] = [proc[p] EXCEPT !.try = 0, !.leased = n]]
    BY <1>3 DEF SlotClaimed
  <2> HIDE DEF n
  <2>3. proc' \in [Processes -> Process]
    BY <2>1, <2>2
  <2>4. beat' \in [Slots -> Row]
    BY <1>3, <1>0 DEF SlotClaimed, Upsert
  <2> QED
    BY <1>3, <2>3, <2>4 DEF SlotClaimed
<1>4. CASE SlotHeld(p)
  <2> DEFINE n == IF proc[p].try = SlotCount THEN 0 ELSE proc[p].try + 1
  <2>1. n \in 0..SlotCount
    BY DEF Process
  <2>2. [proc[p] EXCEPT !.try = n] \in Process
    BY <2>1, <1>t
  <2>3. proc' = [proc EXCEPT ![p] = [proc[p] EXCEPT !.try = n]]
    BY <1>4 DEF SlotHeld
  <2> HIDE DEF n
  <2>4. proc' \in [Processes -> Process]
    BY <2>2, <2>3
  <2> QED
    BY <1>4, <2>4 DEF SlotHeld
<1>5. CASE ClaimFails(p)
  <2>1. Fault \/ UNCHANGED faults
    BY <1>5 DEF ClaimFails
  <2>2. proc' = [proc EXCEPT ![p] = [proc[p] EXCEPT !.try = 0]] /\ UNCHANGED beat
    BY <1>5 DEF ClaimFails
  <2>3. [proc[p] EXCEPT !.try = 0] \in Process
    BY <1>t
  <2> QED
    BY <1>f, <2>1, <2>2, <2>3
<1>6. CASE Heartbeat(p)
  BY <1>6, <1>0 DEF Heartbeat, Upsert
<1>7. CASE MarkStopped(p)
  <2>1. proc' \in [Processes -> Process]
    BY <1>7 DEF MarkStopped, Process
  <2>2. beat' \in [Slots -> Row]
    BY <1>7 DEF MarkStopped, Row
  <2> QED
    BY <1>7, <2>1, <2>2 DEF MarkStopped
<1>8. CASE Exit(p)
  BY <1>8 DEF Exit, Process
<1>9. CASE \E ticking \in BOOLEAN : Stop(p, ticking)
  BY <1>9 DEF Stop, Process
<1>10. CASE \E s \in Slots : GoesStale(s)
  <2>1. PICK s \in Slots : GoesStale(s)
    BY <1>10
  <2>2. Fault \/ UNCHANGED faults
    BY <2>1 DEF GoesStale
  <2>3. [beat[s] EXCEPT !.fresh = FALSE] \in Row
    BY DEF Row
  <2>4. beat' = [beat EXCEPT ![s] = [beat[s] EXCEPT !.fresh = FALSE]] /\ UNCHANGED proc
    BY <2>1 DEF GoesStale
  <2> QED
    BY <1>f, <2>2, <2>3, <2>4
<1> QED
  BY <1>1, <1>2, <1>3, <1>4, <1>5, <1>6, <1>7, <1>8, <1>9, <1>10

-----------------------------------------------------------------------------
(* Steps that leave the items and every tick alone.                        *)
LEMMA SlotsKeepInvariant ==
  ASSUME IInv, SlotsTypeOK', UNCHANGED workVars
  PROVE  IInv'
  BY DEF IInv, TypeOK, HasItem, AttemptsLeft, NotRecorded, ClaimIsExclusive, workVars

(* What a tick and an item start from.                                     *)
LEMMA FreshTick ==
  ASSUME NEW t \in 0..MaxTime, NEW todo \in SUBSET Items, NEW pc \in {"idle", "beat", "next"}
  PROVE  /\ [NoTick EXCEPT !.pc = pc, !.now = t, !.todo = todo] \in Drain
         /\ [NoTick EXCEPT !.pc = pc, !.now = t] \in Drain
<1>1. NoTick \in Drain
  BY DurableWorkAssumption DEF NoTick, Drain, Settled
<1> QED
  BY <1>1 DEF Drain

LEMMA FreshItem ==
  ASSUME NEW t \in 0..MaxTime
  PROVE  [NoItem EXCEPT !.status = "pending", !.available = t] \in Item
<1>1. NoItem \in Item
  BY DurableWorkAssumption DEF NoItem, Item
<1>2. "pending" \in Claimables
  BY DEF Claimables
<1> QED
  BY <1>1, <1>2 DEF Item

(* A tick that begins or ends has no item.                                 *)
LEMMA IdleTick ==
  ASSUME IInv, SlotsTypeOK', NEW p \in Processes, NEW d \in Drain,
         d.item = None, d.pc \notin AtWork,
         drain' = [drain EXCEPT ![p] = d], UNCHANGED <<now, item, first, producer>>
  PROVE  IInv'
  BY DEF IInv, TypeOK, HasItem, AttemptsLeft, NotRecorded, ClaimIsExclusive, AtWork

-----------------------------------------------------------------------------
(* The steps of a tick.                                                    *)
LEMMA TickEndsWell ==
  ASSUME IInv, NEW p \in Processes, TickEnds(p), UNCHANGED beat, Fault \/ UNCHANGED faults,
         UNCHANGED <<now, item, first, producer>>
  PROVE  IInv'
<1>1. SlotsTypeOK'
  <2>1. proc' \in [Processes -> Process]
    BY DEF TickEnds, IInv, TypeOK, SlotsTypeOK, Process, Lives
  <2>2. faults' \in 0..MaxFaults
    BY WorkerSlotsAssumption DEF Fault, IInv, TypeOK, SlotsTypeOK
  <2> QED
    BY <2>1, <2>2 DEF IInv, TypeOK, SlotsTypeOK
<1>2. NoTick \in Drain /\ NoTick.item = None /\ NoTick.pc \notin AtWork
  BY DurableWorkAssumption DEF NoTick, Drain, AtWork, Settled
<1>3. drain' = [drain EXCEPT ![p] = NoTick]
  BY DEF TickEnds, EndsTick
<1> QED
  BY <1>1, <1>2, <1>3, IdleTick

LEMMA BeatAndListKeep ==
  ASSUME IInv, NEW p \in Processes, TickBeat(p) \/ List(p)
  PROVE  IInv'
<1>d. drain[p] \in Drain
  BY DEF IInv, TypeOK
<1>1. CASE TickBeat(p)
  <2>1. SlotsTypeOK'
    BY <1>1, SlotsKeepTypes DEF TickBeat, IInv, TypeOK
  <2>2. [drain[p] EXCEPT !.pc = "list"] \in Drain
    BY <1>d DEF Drain
  <2> QED
    BY <1>1, <1>d, <2>1, <2>2
       DEF TickBeat, Ticking, IInv, TypeOK, HasItem, AttemptsLeft, NotRecorded,
           ClaimIsExclusive, AtWork, Drain
<1>2. CASE List(p)
  <2>1. CASE TickEnds(p) /\ Fault
    BY <1>2, <2>1, TickEndsWell DEF List
  <2>2. CASE ~(TickEnds(p) /\ Fault)
    <3> DEFINE t == {i \in Items : Due(i, drain[p].now)}
    <3>1. [drain[p] EXCEPT !.pc = "next", !.todo = t] \in Drain
      BY <1>d DEF Drain
    <3>2. drain' = [drain EXCEPT ![p] = [drain[p] EXCEPT !.pc = "next", !.todo = t]]
      BY <1>2, <2>2 DEF List
    <3> HIDE DEF t
    <3>3. SlotsTypeOK'
      BY <1>2, <2>2 DEF List, IInv, TypeOK, SlotsTypeOK
    <3> QED
      BY <1>2, <1>d, <3>1, <3>2, <3>3
         DEF List, IInv, TypeOK, HasItem, AttemptsLeft, NotRecorded, ClaimIsExclusive,
             AtWork, Drain
  <2> QED
    BY <2>1, <2>2
<1> QED
  BY <1>1, <1>2

(* Only an item that may be claimed is, so no other tick has it.           *)
LEMMA ClaimKeeps ==
  ASSUME IInv, NEW p \in Processes, Claim(p)
  PROVE  IInv'
<1>d. drain[p] \in Drain
  BY DEF IInv, TypeOK
<1>1. PICK i \in drain[p].todo :
         \/ /\ ClaimHolds(i, drain[p].now)
            /\ item' = [item EXCEPT ![i].status = "running", ![i].attempts = @ + 1]
            /\ drain' = [drain EXCEPT ![p].pc = "log", ![p].item = i,
                                      ![p].attempt = item[i].attempts + 1,
                                      ![p].todo = @ \ {i}]
            /\ UNCHANGED <<proc, faults>>
         \/ /\ ~ClaimHolds(i, drain[p].now)
            /\ drain' = [drain EXCEPT ![p].todo = @ \ {i}]
            /\ UNCHANGED <<proc, item, faults>>
         \/ TickEnds(p) /\ Fault /\ UNCHANGED item
  BY DEF Claim
<1>i. i \in Items /\ item[i] \in Item
  BY <1>d DEF Drain, IInv, TypeOK
<1>u. UNCHANGED <<beat, now, first, producer>>
  BY DEF Claim
<1>2. CASE TickEnds(p) /\ Fault /\ UNCHANGED item
  BY <1>2, <1>u, TickEndsWell
<1>3. CASE /\ ~ClaimHolds(i, drain[p].now)
           /\ drain' = [drain EXCEPT ![p].todo = @ \ {i}]
           /\ UNCHANGED <<proc, item, faults>>
  <2> DEFINE t == drain[p].todo \ {i}
  <2>1. [drain[p] EXCEPT !.todo = t] \in Drain
    BY <1>d DEF Drain
  <2>2. drain' = [drain EXCEPT ![p] = [drain[p] EXCEPT !.todo = t]]
    BY <1>3
  <2> HIDE DEF t
  <2>3. SlotsTypeOK'
    BY <1>3, <1>u DEF IInv, TypeOK, SlotsTypeOK
  <2> QED
    BY <1>3, <1>u, <1>d, <2>1, <2>2, <2>3
       DEF IInv, TypeOK, HasItem, AttemptsLeft, NotRecorded, ClaimIsExclusive, Drain
<1>4. CASE /\ ClaimHolds(i, drain[p].now)
           /\ item' = [item EXCEPT ![i].status = "running", ![i].attempts = @ + 1]
           /\ drain' = [drain EXCEPT ![p].pc = "log", ![p].item = i,
                                     ![p].attempt = item[i].attempts + 1,
                                     ![p].todo = @ \ {i}]
           /\ UNCHANGED <<proc, faults>>
  <2> DEFINE t == drain[p].todo \ {i}
             n == item[i].attempts + 1
             d == [drain[p] EXCEPT !.pc = "log", !.item = i, !.attempt = n, !.todo = t]
             m == [item[i] EXCEPT !.status = "running", !.attempts = n]
  <2>1. item[i].status \in Claimables /\ n \in 0..MaxAttempts
    BY <1>4, <1>i, DurableWorkAssumption
       DEF ClaimHolds, Due, IInv, AttemptsLeft, Item
  <2>2. d \in Drain /\ d.item = i /\ d.attempt = n /\ d.pc = "log"
    <3> HIDE DEF n
    <3> QED
      BY <1>d, <1>i, <2>1 DEF Drain
  <2>3. m \in Item /\ m.status = "running" /\ m.attempts = n
    <3> HIDE DEF n
    <3> QED
      BY <1>i, <2>1 DEF Item
  <2>4. item' = [item EXCEPT ![i] = m] /\ drain' = [drain EXCEPT ![p] = d]
    BY <1>4
  <2> HIDE DEF d, m, n, t
  <2>5. TypeOK'
    <3>1. SlotsTypeOK'
      BY <1>4, <1>u DEF IInv, TypeOK, SlotsTypeOK
    <3> QED
      BY <1>i, <1>u, <2>2, <2>3, <2>4, <3>1 DEF IInv, TypeOK
  <2>6. \A q \in Processes : drain[q].item # i
    BY <1>i, <2>1, DurableWorkAssumption DEF IInv, ClaimIsExclusive, Claimables
  <2>7. HasItem' /\ AttemptsLeft'
    <3>1. HasItem'
      BY <1>i, <2>2, <2>4 DEF IInv, TypeOK, HasItem
    <3>2. \A j \in Items : item'[j].status \in {"absent"} \cup Claimables
                              => item'[j].attempts < MaxAttempts
      BY <1>i, <2>3, <2>4 DEF IInv, TypeOK, AttemptsLeft, Claimables
    <3>3. \A q \in Processes :
             drain'[q].pc = "complete" /\ drain'[q].result = "retry-scheduled"
               => drain'[q].attempt < MaxAttempts
      BY <2>2, <2>4 DEF IInv, TypeOK, AttemptsLeft
    <3> QED
      BY <3>1, <3>2, <3>3 DEF AttemptsLeft
  <2>8. ClaimIsExclusive'
    <3>1. ASSUME NEW q \in Processes, drain'[q].item # None
          PROVE  /\ item'[drain'[q].item].status = "running"
                 /\ item'[drain'[q].item].attempts = drain'[q].attempt
      <4>1. CASE q = p
        BY <1>i, <2>2, <2>3, <2>4, <4>1 DEF IInv, TypeOK
      <4>2. CASE q # p
        <5>1. drain'[q] = drain[q] /\ drain[q].item \in Items
          BY <2>4, <3>1, <4>2 DEF IInv, TypeOK, Drain
        <5>2. item'[drain[q].item] = item[drain[q].item]
          BY <2>4, <2>6, <5>1 DEF IInv, TypeOK
        <5> QED
          BY <3>1, <5>1, <5>2 DEF IInv, ClaimIsExclusive
      <4> QED
        BY <4>1, <4>2
    <3>2. ASSUME NEW q \in Processes, NEW r \in Processes,
                 drain'[q].item # None, drain'[r].item = drain'[q].item
          PROVE  q = r
      BY <2>2, <2>4, <2>6, <3>2 DEF IInv, TypeOK, ClaimIsExclusive
    <3> QED
      BY <3>1, <3>2 DEF ClaimIsExclusive
  <2>9. NotRecorded'
    BY <1>i, <1>u, <2>1, <2>3, <2>4 DEF IInv, TypeOK, NotRecorded, Claimables
  <2> QED
    BY <2>5, <2>7, <2>8, <2>9 DEF IInv
<1> QED
  BY <1>1, <1>2, <1>3, <1>4

LEMMA LogAndHandleKeep ==
  ASSUME IInv, NEW p \in Processes, LogClaim(p) \/ Handle(p)
  PROVE  IInv'
<1>d. drain[p] \in Drain
  BY DEF IInv, TypeOK
<1>1. CASE LogClaim(p)
  <2>1. [drain[p] EXCEPT !.pc = "handle"] \in Drain
    BY <1>d DEF Drain
  <2>2. TypeOK'
    BY <1>1, <2>1 DEF LogClaim, slotVars, IInv, TypeOK, SlotsTypeOK
  <2> QED
    BY <1>1, <1>d, <2>2
       DEF LogClaim, Ticking, IInv, TypeOK, HasItem, AttemptsLeft, NotRecorded,
           ClaimIsExclusive, AtWork, Drain
<1>2. CASE Handle(p)
  <2>1. PICK result \in Settled \cup {"retry-scheduled"}, next \in 0..MaxTime :
          /\ result = "retry-scheduled" => drain[p].attempt < MaxAttempts
          /\ drain' = [drain EXCEPT ![p].pc = "complete", ![p].result = result,
                                    ![p].next = next]
    <3>1. CASE \E result \in Settled :
                 drain' = [drain EXCEPT ![p].pc = "complete", ![p].result = result,
                                        ![p].next = drain[p].now]
      BY <1>d, <3>1 DEF Drain, Settled
    <3>2. CASE /\ drain[p].attempt < MaxAttempts /\ now < MaxTime
               /\ drain' = [drain EXCEPT ![p].pc = "complete",
                                         ![p].result = "retry-scheduled", ![p].next = now + 1]
      <4>1. now + 1 \in 0..MaxTime
        BY <3>2, DurableWorkAssumption DEF IInv, TypeOK
      <4> QED
        BY <3>2, <4>1
    <3> QED
      BY <1>2, <3>1, <3>2 DEF Handle
  <2> DEFINE d == [drain[p] EXCEPT !.pc = "complete", !.result = result, !.next = next]
  <2>2. /\ d \in Drain /\ d.item = drain[p].item /\ d.attempt = drain[p].attempt
        /\ d.result = result
    BY <1>d, <2>1 DEF Drain
  <2>3. drain' = [drain EXCEPT ![p] = d]
    BY <2>1
  <2>4. drain[p].item \in Items
    BY <1>2 DEF Handle, Ticking, IInv, HasItem, AtWork
  <2> HIDE DEF d
  <2>5. TypeOK'
    BY <1>2, <2>2, <2>3 DEF Handle, slotVars, IInv, TypeOK, SlotsTypeOK
  <2>6. UNCHANGED item
    BY <1>2 DEF Handle
  <2>7. HasItem'
    BY <2>2, <2>3, <2>4 DEF IInv, TypeOK, HasItem
  <2>8. AttemptsLeft'
    BY <2>1, <2>2, <2>3, <2>6 DEF IInv, TypeOK, AttemptsLeft
  <2>9. \A q \in Processes : drain'[q].item = drain[q].item
                              /\ drain'[q].attempt = drain[q].attempt
    BY <2>2, <2>3 DEF IInv, TypeOK
  <2>10. ClaimIsExclusive'
    BY <2>6, <2>9 DEF IInv, ClaimIsExclusive
  <2>11. NotRecorded'
    BY <1>2 DEF Handle, IInv, NotRecorded
  <2> QED
    BY <2>5, <2>7, <2>8, <2>10, <2>11 DEF IInv
<1> QED
  BY <1>1, <1>2

(* complete writes the item of its own tick, and no other tick has it.     *)
LEMMA CompleteKeeps ==
  ASSUME IInv, NEW p \in Processes, Complete(p)
  PROVE  IInv'
<1> DEFINE i == drain[p].item
           d == [NoTick EXCEPT !.pc = "next", !.now = drain[p].now, !.todo = drain[p].todo]
<1>d. drain[p] \in Drain
  BY DEF IInv, TypeOK
<1>u. UNCHANGED <<beat, now, first, producer>>
  BY DEF Complete
<1>i. i \in Items /\ item[i] \in Item /\ drain[p].pc = "complete"
  BY DEF Complete, Ticking, IInv, TypeOK, HasItem, AtWork
<1>1. CASE TickEnds(p) /\ Fault /\ UNCHANGED item
  BY <1>1, <1>u, TickEndsWell
<1>2. CASE ~(TickEnds(p) /\ Fault /\ UNCHANGED item)
  <2> DEFINE m == [item[i] EXCEPT !.status = drain[p].result, !.available = drain[p].next]
  <2>1. /\ item' = IF item[i].status = "running" THEN [item EXCEPT ![i] = m] ELSE item
        /\ drain' = [drain EXCEPT ![p] = d]
        /\ UNCHANGED <<proc, faults>>
    BY <1>2 DEF Complete
  <2>2. d \in Drain /\ d.item = None /\ d.pc = "next"
    <3>1. d \in Drain
      BY <1>d, FreshTick, ZenonT(60) DEF Drain
    <3> QED
      BY <3>1 DEF NoTick
  <2>3. m \in Item /\ m.attempts = item[i].attempts /\ m.status = drain[p].result
    BY <1>i, <1>d DEF Item, Drain, Settled, Claimables
  <2>4. drain[p].result = "retry-scheduled" => item[i].attempts < MaxAttempts
    BY <1>i, DurableWorkAssumption DEF IInv, AttemptsLeft, ClaimIsExclusive
  <2>5. drain[p].result \in Settled \cup {"retry-scheduled"}
    BY <1>d DEF Drain
  <2> HIDE DEF d, m, i
  <2>6. TypeOK'
    BY <1>u, <1>i, <2>1, <2>2, <2>3 DEF IInv, TypeOK, SlotsTypeOK
  <2>7. HasItem'
    BY <2>1, <2>2 DEF IInv, TypeOK, HasItem, AtWork
  <2>8. AttemptsLeft'
    <3>1. \A j \in Items : item'[j].status \in {"absent"} \cup Claimables
                              => item'[j].attempts < MaxAttempts
      BY <1>i, <2>1, <2>3, <2>4, <2>5 DEF IInv, TypeOK, AttemptsLeft, Claimables, Settled
    <3>2. \A q \in Processes :
             drain'[q].pc = "complete" /\ drain'[q].result = "retry-scheduled"
               => drain'[q].attempt < MaxAttempts
      BY <2>1, <2>2 DEF IInv, TypeOK, AttemptsLeft
    <3> QED
      BY <3>1, <3>2 DEF AttemptsLeft
  <2>9. ClaimIsExclusive'
    <3>1. ASSUME NEW q \in Processes, drain'[q].item # None
          PROVE  /\ drain'[q] = drain[q] /\ drain[q].item # i /\ drain[q].item \in Items
                 /\ item'[drain[q].item] = item[drain[q].item]
      <4>1. q # p /\ drain'[q] = drain[q]
        BY <2>1, <2>2, <3>1 DEF IInv, TypeOK
      <4>2. drain[q].item # i
        BY <1>i, <3>1, <4>1, DurableWorkAssumption DEF IInv, ClaimIsExclusive, i
      <4>3. drain[q].item \in Items
        BY <3>1, <4>1 DEF IInv, TypeOK, Drain
      <4> QED
        BY <2>1, <4>1, <4>2, <4>3 DEF IInv, TypeOK
    <3> QED
      BY <3>1 DEF IInv, ClaimIsExclusive
  <2>10. NotRecorded'
    BY <1>i, <1>u, <2>1, <2>3, DurableWorkAssumption
       DEF IInv, TypeOK, NotRecorded, ClaimIsExclusive, i
  <2> QED
    BY <2>6, <2>7, <2>8, <2>9, <2>10 DEF IInv
<1> QED
  BY <1>1, <1>2

-----------------------------------------------------------------------------
(* The producers: nobody has an item before it is recorded.                *)
LEMMA ProducersKeep ==
  ASSUME IInv, NEW i \in Items, Record(i) \/ AppendAccepted(i)
  PROVE  IInv'
<1>1. CASE Record(i)
  <2>1. CASE producer' = [producer EXCEPT ![i] = "refused"] /\ Fault /\ UNCHANGED item
    <3>1. SlotsTypeOK'
      BY <1>1, <2>1, WorkerSlotsAssumption DEF Record, Fault, IInv, TypeOK, SlotsTypeOK
    <3> QED
      BY <1>1, <2>1, <3>1
         DEF Record, IInv, TypeOK, HasItem, AttemptsLeft, NotRecorded, ClaimIsExclusive
  <2>2. CASE /\ item' = [item EXCEPT ![i] = [NoItem EXCEPT !.status = "pending",
                                                          !.available = now]]
             /\ producer' = [producer EXCEPT ![i] = "recorded"]
             /\ UNCHANGED faults
    <3> DEFINE m == [NoItem EXCEPT !.status = "pending", !.available = now]
    <3>1. m \in Item /\ m.attempts < MaxAttempts /\ m.status = "pending"
      <4>1. m \in Item
        BY FreshItem DEF IInv, TypeOK
      <4> QED
        BY <4>1, DurableWorkAssumption DEF NoItem
    <3>2. item' = [item EXCEPT ![i] = m]
      BY <2>2
    <3> HIDE DEF m
    <3>3. item[i].status = "absent"
      BY <1>1 DEF Record, IInv, NotRecorded
    <3>4. \A q \in Processes : drain[q].item # i
      BY <3>3, DurableWorkAssumption DEF IInv, ClaimIsExclusive
    <3>5. TypeOK'
      BY <1>1, <2>2, <3>1, <3>2 DEF Record, IInv, TypeOK, SlotsTypeOK
    <3>6. HasItem' /\ NotRecorded'
      BY <1>1, <2>2, <3>2 DEF Record, IInv, TypeOK, HasItem, NotRecorded
    <3>7. AttemptsLeft'
      BY <1>1, <3>1, <3>2 DEF Record, IInv, TypeOK, AttemptsLeft
    <3>8. ClaimIsExclusive'
      <4>1. \A q \in Processes : drain[q].item # None =>
               item'[drain[q].item] = item[drain[q].item]
        BY <3>2, <3>4 DEF IInv, TypeOK, Drain
      <4> QED
        BY <1>1, <4>1 DEF Record, IInv, ClaimIsExclusive
    <3> QED
      BY <3>5, <3>6, <3>7, <3>8 DEF IInv
  <2> QED
    BY <1>1, <2>1, <2>2 DEF Record
<1>2. CASE AppendAccepted(i)
  BY <1>2 DEF AppendAccepted, slotVars, IInv, TypeOK, SlotsTypeOK, HasItem, AttemptsLeft,
              NotRecorded, ClaimIsExclusive
<1> QED
  BY <1>1, <1>2

-----------------------------------------------------------------------------
(* The replicas.                                                           *)
LEMMA ReplicasKeep ==
  ASSUME IInv, NEW p \in Processes,
         Starts(p) \/ Timer(p) \/ ClaimStep(p) \/ Stops(p) \/ Stopped(p) \/ Dies(p)
  PROVE  IInv'
<1>t. SlotsTypeOK
  BY DEF IInv, TypeOK
<1>1. CASE Starts(p) \/ Timer(p) \/ Stopped(p) \/ Dies(p)
  BY <1>1, <1>t, SlotsKeepTypes, SlotsKeepInvariant DEF Starts, Timer, Stopped, Dies
<1>2. CASE Stops(p)
  BY <1>2, <1>t, SlotsKeepTypes, SlotsKeepInvariant DEF Stops
<1>3. CASE (SlotHeld(p) \/ ClaimFails(p)) /\ UNCHANGED workVars
  BY <1>3, <1>t, SlotsKeepTypes, SlotsKeepInvariant
<1>4. CASE GetsSlot(p)
  <2>1. SlotsTypeOK'
    BY <1>4, <1>t, SlotsKeepTypes DEF GetsSlot
  <2>2. CASE drain[p].pc = "idle"
    <3> DEFINE d == [NoTick EXCEPT !.pc = "beat", !.now = now]
    <3>1. d \in Drain /\ d.item = None /\ d.pc \notin AtWork
      <4>1. d \in Drain
        BY FreshTick DEF IInv, TypeOK
      <4> QED
        BY <4>1 DEF NoTick, AtWork
    <3>2. drain' = [drain EXCEPT ![p] = d] /\ UNCHANGED <<now, item, first, producer>>
      BY <1>4, <2>2 DEF GetsSlot, StartTick
    <3> HIDE DEF d
    <3> QED
      BY <2>1, <3>1, <3>2, IdleTick
  <2>3. CASE drain[p].pc # "idle"
    <3>1. UNCHANGED workVars
      BY <1>4, <2>3 DEF GetsSlot, StartTick, workVars
    <3> QED
      BY <2>1, <3>1, SlotsKeepInvariant
  <2> QED
    BY <2>2, <2>3
<1> QED
  BY <1>1, <1>2, <1>3, <1>4 DEF ClaimStep

LEMMA TickDoneKeeps ==
  ASSUME IInv, NEW p \in Processes, TickDone(p)
  PROVE  IInv'
  BY TickEndsWell DEF TickDone

(* Every step of the specification.                                        *)
LEMMA StepKeepsInvariant == IInv /\ [Next]_vars => IInv'
<1> SUFFICES ASSUME IInv, [Next]_vars
             PROVE  IInv'
  OBVIOUS
<1>1. ASSUME NEW i \in Items, Record(i) \/ AppendAccepted(i)
      PROVE  IInv'
  BY <1>1, ProducersKeep
<1>2. ASSUME NEW p \in Processes,
             Starts(p) \/ Timer(p) \/ ClaimStep(p) \/ Stops(p) \/ Stopped(p) \/ Dies(p)
      PROVE  IInv'
  BY <1>2, ReplicasKeep
<1>3. ASSUME NEW p \in Processes, TickStep(p)
      PROVE  IInv'
  BY <1>3, BeatAndListKeep, ClaimKeeps, LogAndHandleKeep, CompleteKeeps, TickDoneKeeps
     DEF TickStep
<1>4. ASSUME NEW s \in Slots, Stale(s)
      PROVE  IInv'
  <2>1. SlotsTypeOK'
    <3>1. faults' \in 0..MaxFaults
      BY <1>4, WorkerSlotsAssumption DEF Stale, GoesStale, Fault, IInv, TypeOK, SlotsTypeOK
    <3>2. [beat[s] EXCEPT !.fresh = FALSE] \in Row
      BY DEF Row, IInv, TypeOK, SlotsTypeOK
    <3> QED
      BY <1>4, <3>1, <3>2 DEF Stale, GoesStale, IInv, TypeOK, SlotsTypeOK
  <2> QED
    BY <1>4, <2>1, SlotsKeepInvariant DEF Stale
<1>5. CASE TimePasses
  BY <1>5, DurableWorkAssumption
     DEF TimePasses, slotVars, IInv, TypeOK, SlotsTypeOK, HasItem, AttemptsLeft, NotRecorded,
         ClaimIsExclusive
<1>6. CASE UNCHANGED vars
  BY <1>6, SlotsKeepInvariant DEF vars, slotVars, IInv, TypeOK, SlotsTypeOK
<1> QED
  BY <1>1, <1>2, <1>3, <1>4, <1>5, <1>6 DEF Next

-----------------------------------------------------------------------------
(* The slots of the replicas at work.  That a replica drains only with a   *)
(* slot of its own is inductive together with three facts: a row that has  *)
(* an owner is its owner's, and online; without a fault the rows that are  *)
(* old are those of processes that are gone; and a replica that was not    *)
(* started has no tick.                                                    *)
OwnersRow == \A s \in Slots : beat[s].owner # None =>
    beat[s].worker = beat[s].owner /\ beat[s].online

OldRowsAreLeft == faults = 0 =>
    \A s \in Slots : beat[s].worker # None /\ ~beat[s].fresh
                        => proc[beat[s].worker].life = "gone"

OffIsIdle == \A p \in Processes : proc[p].life = "off" => drain[p].pc = "idle"

SlotInv == OwnersRow /\ OldRowsAreLeft /\ OffIsIdle /\ DrainsWithSlot

LEMMA InitiallySlots == Init => SlotInv
  BY DEF Init, SlotsInit, SlotInv, OwnersRow, OldRowsAreLeft, OffIsIdle, DrainsWithSlot, NoRow,
         NoTick

(* Lives only go on, and no tick begins.                                   *)
LivesGoOn == \A q \in Processes :
    /\ proc[q].life = "gone" => proc'[q].life = "gone"
    /\ proc'[q].life = "off" => proc[q].life = "off"
    /\ proc'[q].life = "up" => proc[q].life \in {"off", "up"}

NoTickBegins == \A q \in Processes : drain'[q].pc # "idle" => drain[q].pc # "idle"

FaultsStay == faults' = 0 => faults = 0

LEMMA RowsUntouched ==
  ASSUME TypeOK, SlotInv, UNCHANGED beat, LivesGoOn, NoTickBegins, FaultsStay
  PROVE  SlotInv'
<1>1. OwnersRow'
  BY DEF SlotInv, OwnersRow
<1>2. OldRowsAreLeft'
  BY DEF SlotInv, OldRowsAreLeft, LivesGoOn, FaultsStay, TypeOK, SlotsTypeOK, Row
<1>3. OffIsIdle'
  BY DEF SlotInv, OffIsIdle, LivesGoOn, NoTickBegins
<1>4. DrainsWithSlot'
  BY DEF SlotInv, DrainsWithSlot, OffIsIdle, LivesGoOn, NoTickBegins, FaultsStay
<1> QED
  BY <1>1, <1>2, <1>3, <1>4 DEF SlotInv

(* The row of a live replica is nobody else's to write.                    *)
LEMMA SlotIsKept ==
  ASSUME TypeOK, SlotInv, faults = 0, NEW p \in Processes, NEW q \in Processes, NEW s \in Slots,
         beat[s].owner = p, proc[p].life = "up", Claimable(q, s) \/ Beatable(q, s)
  PROVE  q = p
  BY WorkerSlotsAssumption
     DEF SlotInv, OwnersRow, OldRowsAreLeft, Claimable, Beatable, Own

(* The statements that write a replica's row; a tick may begin with them.  *)
LEMMA UpsertKeepsSlots ==
  ASSUME TypeOK, SlotInv, NEW p \in Processes, NEW s \in Slots, Upsert(p, s),
         Claimable(p, s) \/ Beatable(p, s), Live(p), UNCHANGED faults,
         \A q \in Processes : proc'[q].life = proc[q].life,
         \A q \in Processes \ {p} : drain'[q].pc = drain[q].pc
  PROVE  SlotInv'
<1>r. /\ beat'[s] = [worker |-> p, owner |-> p, online |-> TRUE, fresh |-> TRUE]
      /\ \A t \in Slots \ {s} : beat'[t] = beat[t]
  BY DEF Upsert, TypeOK, SlotsTypeOK
<1>1. OwnersRow'
  BY <1>r DEF SlotInv, OwnersRow
<1>2. OldRowsAreLeft'
  BY <1>r DEF SlotInv, OldRowsAreLeft, TypeOK, SlotsTypeOK, Row
<1>3. OffIsIdle'
  BY DEF SlotInv, OffIsIdle, Live
<1>4. DrainsWithSlot'
  <2> SUFFICES ASSUME NEW q \in Processes, faults = 0, proc[q].life = "up",
                      drain'[q].pc # "idle"
               PROVE  \E t \in Slots : beat'[t].owner = q
    BY DEF DrainsWithSlot
  <2>1. CASE q = p
    BY <1>r, <2>1
  <2>2. CASE q # p
    <3>1. PICK t \in Slots : beat[t].owner = q
      BY <2>2 DEF SlotInv, DrainsWithSlot
    <3>2. t # s
      BY <2>2, <3>1, SlotIsKept
    <3> QED
      BY <1>r, <3>1, <3>2
  <2> QED
    BY <2>1, <2>2
<1> QED
  BY <1>1, <1>2, <1>3, <1>4 DEF SlotInv

LEMMA TicksKeepSlots ==
  ASSUME TypeOK, SlotInv, NEW p \in Processes, TickStep(p)
  PROVE  SlotInv'
<1>e. ASSUME TickEnds(p)
      PROVE  LivesGoOn /\ NoTickBegins
  BY <1>e DEF TickEnds, EndsTick, NoTick, LivesGoOn, NoTickBegins, TypeOK, SlotsTypeOK, Process
<1>f. ASSUME Fault \/ UNCHANGED faults
      PROVE  FaultsStay
  BY <1>f, WorkerSlotsAssumption DEF Fault, FaultsStay, TypeOK, SlotsTypeOK
<1>k. ASSUME UNCHANGED proc
      PROVE  LivesGoOn
  BY <1>k DEF LivesGoOn
<1>d. ASSUME NEW d, drain' = [drain EXCEPT ![p] = d], drain[p].pc # "idle"
      PROVE  NoTickBegins
  BY <1>d DEF NoTickBegins, TypeOK
<1>1. CASE TickBeat(p)
  <2> DEFINE s == proc[p].leased
  <2>1. /\ Live(p) /\ drain[p].pc = "beat" /\ UNCHANGED <<proc, faults>>
        /\ drain' = [drain EXCEPT ![p].pc = "list"]
    BY <1>1 DEF TickBeat, Ticking, Heartbeat
  <2>2. CASE Upsert(p, s) /\ Beatable(p, s) /\ s \in Slots
    BY <2>1, <2>2, UpsertKeepsSlots DEF TypeOK
  <2>3. CASE ~(Upsert(p, s) /\ Beatable(p, s) /\ s \in Slots)
    <3>1. UNCHANGED beat
      BY <1>1, <2>3 DEF TickBeat, Heartbeat, Upsert, TypeOK, SlotsTypeOK
    <3> QED
      BY <2>1, <3>1, <1>f, <1>k, RowsUntouched DEF NoTickBegins, TypeOK
  <2> QED
    BY <2>2, <2>3
<1>2. CASE List(p)
  <2>1. CASE TickEnds(p) /\ Fault
    BY <1>2, <2>1, <1>e, <1>f, RowsUntouched DEF List
  <2>2. CASE ~(TickEnds(p) /\ Fault)
    BY <1>2, <2>2, <1>f, <1>k, <1>d, RowsUntouched DEF List, Ticking
  <2> QED
    BY <2>1, <2>2
<1>3. CASE Claim(p)
  <2>1. CASE TickEnds(p) /\ Fault
    BY <1>3, <2>1, <1>e, <1>f, RowsUntouched DEF Claim
  <2>2. CASE ~(TickEnds(p) /\ Fault)
    BY <1>3, <2>2, <1>f, <1>k, <1>d, RowsUntouched DEF Claim, Ticking
  <2> QED
    BY <2>1, <2>2
<1>4. CASE LogClaim(p) \/ Handle(p)
  <2>1. UNCHANGED slotVars /\ drain[p].pc # "idle"
    BY <1>4 DEF LogClaim, Handle, Ticking
  <2>2. NoTickBegins
    BY <1>4, <2>1, <1>d DEF LogClaim, Handle
  <2> QED
    BY <2>1, <2>2, <1>f, <1>k, RowsUntouched DEF slotVars
<1>5. CASE Complete(p)
  <2>1. CASE TickEnds(p) /\ Fault
    BY <1>5, <2>1, <1>e, <1>f, RowsUntouched DEF Complete
  <2>2. CASE ~(TickEnds(p) /\ Fault)
    BY <1>5, <2>2, <1>f, <1>k, <1>d, RowsUntouched DEF Complete, Ticking
  <2> QED
    BY <2>1, <2>2
<1>6. CASE TickDone(p)
  BY <1>6, <1>e, <1>f, RowsUntouched DEF TickDone
<1> QED
  BY <1>1, <1>2, <1>3, <1>4, <1>5, <1>6 DEF TickStep

LEMMA ReplicasKeepSlots ==
  ASSUME TypeOK, SlotInv, NEW p \in Processes,
         Starts(p) \/ Timer(p) \/ ClaimStep(p) \/ Stops(p) \/ Stopped(p) \/ Dies(p)
  PROVE  SlotInv'
<1>1. CASE GetsSlot(p)
  <2>1. proc[p].try \in Slots
    BY <1>1, WorkerSlotsAssumption
       DEF GetsSlot, SlotClaimed, TypeOK, SlotsTypeOK, Process, Slots
  <2>2. \A q \in Processes : proc'[q].life = proc[q].life
    BY <1>1 DEF GetsSlot, SlotClaimed, TypeOK, SlotsTypeOK, Process
  <2>3. \A q \in Processes \ {p} : drain'[q].pc = drain[q].pc
    BY <1>1 DEF GetsSlot, StartTick, TypeOK
  <2> QED
    BY <1>1, <2>1, <2>2, <2>3, UpsertKeepsSlots DEF GetsSlot, SlotClaimed
<1>2. CASE Stopped(p)
  <2>1. /\ proc[p].life = "stopping" /\ UNCHANGED <<faults, drain>>
        /\ proc' = [proc EXCEPT ![p].life = "stopped"]
    BY <1>2 DEF Stopped, MarkStopped, workVars
  <2>2. LivesGoOn
    BY <2>1 DEF LivesGoOn, TypeOK, SlotsTypeOK, Process
  <2>3. ASSUME NEW s \in Slots
        PROVE  /\ beat'[s].worker = beat[s].worker
               /\ beat[s].fresh => beat'[s].fresh
               /\ \/ beat'[s] = beat[s]
                  \/ beat[s].owner = p /\ beat'[s].owner = None
    BY <1>2 DEF Stopped, MarkStopped, TypeOK, SlotsTypeOK, Row
  <2>4. OwnersRow'
    BY <2>3 DEF SlotInv, OwnersRow
  <2>5. OldRowsAreLeft'
    BY <2>1, <2>2, <2>3 DEF SlotInv, OldRowsAreLeft, LivesGoOn, TypeOK, SlotsTypeOK, Row
  <2>6. OffIsIdle'
    BY <2>1, <2>2 DEF SlotInv, OffIsIdle, LivesGoOn
  <2>7. DrainsWithSlot'
    BY <2>1, <2>3, SMTT(30) DEF SlotInv, DrainsWithSlot, TypeOK, SlotsTypeOK, Process
  <2> QED
    BY <2>4, <2>5, <2>6, <2>7 DEF SlotInv
<1>3. CASE Starts(p) \/ Timer(p) \/ ((SlotHeld(p) \/ ClaimFails(p)) /\ UNCHANGED workVars)
           \/ Stops(p) \/ Dies(p)
  <2>1. UNCHANGED <<beat, drain>>
    BY <1>3 DEF Starts, Timer, Stops, Dies, StartRuntime, TimerFires, SlotHeld, ClaimFails,
                Stop, Exit, workVars
  <2>2. Fault \/ UNCHANGED faults
    BY <1>3 DEF Starts, Timer, Stops, Dies, StartRuntime, TimerFires, SlotHeld, ClaimFails,
                Stop, Exit
  <2>3. FaultsStay
    BY <2>2, WorkerSlotsAssumption DEF Fault, FaultsStay, TypeOK, SlotsTypeOK
  <2>4. LivesGoOn
    <3>1. CASE Starts(p)
      BY <3>1 DEF Starts, StartRuntime, LivesGoOn, TypeOK, SlotsTypeOK, Process
    <3>2. CASE Timer(p) \/ SlotHeld(p) \/ ClaimFails(p)
      BY <3>2 DEF Timer, TimerFires, SlotHeld, ClaimFails, LivesGoOn, TypeOK, SlotsTypeOK,
                  Process
    <3>3. CASE Stops(p)
      BY <3>3 DEF Stops, Stop, LivesGoOn, TypeOK, SlotsTypeOK, Process
    <3>4. CASE Dies(p)
      BY <3>4 DEF Dies, Exit, LivesGoOn, TypeOK, SlotsTypeOK, Process
    <3> QED
      BY <1>3, <3>1, <3>2, <3>3, <3>4
  <2> QED
    BY <2>1, <2>3, <2>4, RowsUntouched DEF NoTickBegins
<1> QED
  BY <1>1, <1>2, <1>3 DEF ClaimStep

LEMMA StepKeepsSlots == TypeOK /\ SlotInv /\ [Next]_vars => SlotInv'
<1> SUFFICES ASSUME TypeOK, SlotInv, [Next]_vars
             PROVE  SlotInv'
  OBVIOUS
<1>f. ASSUME Fault \/ UNCHANGED faults
      PROVE  FaultsStay
  BY <1>f, WorkerSlotsAssumption DEF Fault, FaultsStay, TypeOK, SlotsTypeOK
<1>1. ASSUME NEW i \in Items, Record(i) \/ AppendAccepted(i)
      PROVE  SlotInv'
  BY <1>1, <1>f, RowsUntouched DEF Record, AppendAccepted, slotVars, LivesGoOn, NoTickBegins
<1>2. ASSUME NEW p \in Processes,
             Starts(p) \/ Timer(p) \/ ClaimStep(p) \/ Stops(p) \/ Stopped(p) \/ Dies(p)
      PROVE  SlotInv'
  BY <1>2, ReplicasKeepSlots
<1>3. ASSUME NEW p \in Processes, TickStep(p)
      PROVE  SlotInv'
  BY <1>3, TicksKeepSlots
<1>4. ASSUME NEW s \in Slots, Stale(s)
      PROVE  SlotInv'
  <2>1. UNCHANGED <<proc, drain>> /\ FaultsStay
    BY <1>4, <1>f DEF Stale, GoesStale, workVars
  <2>2. \A t \in Slots : /\ beat'[t].owner = beat[t].owner /\ beat'[t].worker = beat[t].worker
                         /\ beat'[t].online = beat[t].online
                         /\ t # s => beat'[t] = beat[t]
    BY <1>4 DEF Stale, GoesStale, TypeOK, SlotsTypeOK, Row
  <2>3. faults' = 0 => proc[beat[s].worker].life = "gone"
    BY <1>4, WorkerSlotsAssumption DEF Stale, GoesStale, Fault, TypeOK, SlotsTypeOK
  <2>4. OwnersRow'
    BY <2>2 DEF SlotInv, OwnersRow
  <2>5. OldRowsAreLeft'
    BY <2>1, <2>2, <2>3 DEF SlotInv, OldRowsAreLeft, FaultsStay
  <2>6. OffIsIdle'
    BY <2>1 DEF SlotInv, OffIsIdle
  <2>7. DrainsWithSlot'
    BY <2>1, <2>2 DEF SlotInv, DrainsWithSlot, FaultsStay
  <2> QED
    BY <2>4, <2>5, <2>6, <2>7 DEF SlotInv
<1>5. CASE TimePasses \/ UNCHANGED vars
  BY <1>5, <1>f, RowsUntouched
     DEF TimePasses, vars, slotVars, workVars, LivesGoOn, NoTickBegins
<1> QED
  BY <1>1, <1>2, <1>3, <1>4, <1>5 DEF Next

(* For any number of replicas, items and faults an item is in the hands of *)
(* one tick at most, and no claim is older than the item's latest          *)
(* (durable-work-ledger.ts, claimDue and complete).                        *)
THEOREM ClaimsAreExclusive == Spec => []ClaimIsExclusive
<1>1. IInv => ClaimIsExclusive
  BY DEF IInv
<1> QED
  BY InitiallyExclusive, StepKeepsInvariant, <1>1, PTL DEF Spec

(* The types, likewise.                                                    *)
THEOREM WorkIsTyped == Spec => []TypeOK
<1>1. IInv => TypeOK
  BY DEF IInv
<1> QED
  BY InitiallyExclusive, StepKeepsInvariant, <1>1, PTL DEF Spec

(* For any number of replicas and slots: while heartbeats are in time and  *)
(* statements succeed, a replica that was not told to stop drains only     *)
(* with a slot of its own, whatever is started, stopped and killed         *)
(* (durable-worker-heartbeat-store.ts, claimWorkerSlot).                   *)
THEOREM ReplicasHaveSlots == Spec => []DrainsWithSlot
<1>1. IInv => TypeOK
  BY DEF IInv
<1>2. SlotInv => DrainsWithSlot
  BY DEF SlotInv
<1> QED
  BY InitiallyExclusive, StepKeepsInvariant, InitiallySlots, StepKeepsSlots, <1>1, <1>2,
     PTL DEF Spec

-----------------------------------------------------------------------------
(* The queue as its users see it.  A step matters to them by the items     *)
(* whose status it changes and the live replica that has them.             *)
Has(p, i) == Live(p) /\ drain[p].item = i

(* A tick that handles nothing has nothing.                                *)
FreeTick == \A p \in Processes : drain[p].pc \notin AtWork => drain[p].item = None

QInv == IInv /\ SlotInv /\ FreeTick

(* The tick d that a step of a tick of p leaves behind: with the same item *)
(* as before, with one that it has just claimed, or with none.             *)
Keeps(p, d) == d.item = drain[p].item /\ UNCHANGED item

Gains(p, d) ==
    /\ drain[p].item = None /\ d.item \in Items
    /\ item[d.item].status \in Claimables /\ item'[d.item].status = "running"
    /\ \A j \in Items \ {d.item} : item'[j] = item[j]

Drops(p, d) ==
    /\ drain[p].item \in Items /\ d.item = None
    /\ item'[drain[p].item].status \in {"running"} \cup Claimables \cup Settled
    /\ \A j \in Items \ {drain[p].item} : item'[j] = item[j]

Leaves(p, d) ==
    /\ drain' = [drain EXCEPT ![p] = d]
    /\ d.pc \notin AtWork => d.item = None
    /\ Keeps(p, d) \/ Gains(p, d) \/ Drops(p, d)

SameLives == \A q \in Processes : Live(q)' <=> Live(q)

LEMMA WhatATickLeaves ==
  ASSUME IInv, FreeTick, NEW p \in Processes, TickStep(p)
  PROVE  SameLives /\ \E d : Leaves(p, d)
<1>t. /\ drain[p] \in Drain /\ drain \in [Processes -> Drain] /\ proc \in [Processes -> Process]
      /\ item \in [Items -> Item] /\ Live(p)
      /\ drain[p].pc \in AtWork => drain[p].item \in Items
      /\ drain[p].pc \notin AtWork => drain[p].item = None
  BY DEF IInv, TypeOK, SlotsTypeOK, HasItem, FreeTick, TickStep, TickBeat, List, Claim, LogClaim,
         Handle, Complete, TickDone, Ticking
<1>n. NoTick.item = None /\ NoTick.pc = "idle"
  BY DEF NoTick
<1>r. drain[p].item \in Items => item[drain[p].item].status = "running"
  BY DurableWorkAssumption DEF IInv, ClaimIsExclusive
<1>l. SameLives
  <2>1. CASE UNCHANGED proc
    BY <2>1 DEF SameLives, Live
  <2>2. CASE TickEnds(p)
    BY <1>t, <2>2 DEF TickEnds, SameLives, Live, Process
  <2> QED
    BY <2>1, <2>2 DEF TickStep, TickBeat, List, Claim, LogClaim, Handle, Complete, TickDone,
                      Heartbeat, slotVars
<1>s. ASSUME NEW d, drain' = [drain EXCEPT ![p] = d], d.item = drain[p].item, UNCHANGED item,
             d.pc \in AtWork \/ d.item = None
      PROVE  Leaves(p, d)
  BY <1>s DEF Leaves, Keeps
<1>e. CASE TickEnds(p) /\ UNCHANGED item
  <2>1. drain' = [drain EXCEPT ![p] = NoTick]
    BY <1>e DEF TickEnds, EndsTick
  <2>2. Keeps(p, NoTick) \/ Drops(p, NoTick)
    BY <1>e, <1>t, <1>n, <1>r DEF Keeps, Drops
  <2> QED
    BY <1>l, <1>n, <2>1, <2>2 DEF Leaves, AtWork
<1>1. CASE TickBeat(p)
  <2> DEFINE d == [drain[p] EXCEPT !.pc = "list"]
  <2>1. drain' = [drain EXCEPT ![p] = d] /\ UNCHANGED item /\ drain[p].pc = "beat"
    BY <1>1 DEF TickBeat, Ticking
  <2>2. d.item = drain[p].item /\ d.item = None
    BY <1>t, <2>1 DEF Drain, AtWork
  <2> QED
    BY <1>l, <1>s, <2>1, <2>2
<1>2. CASE List(p) /\ ~TickEnds(p)
  <2> DEFINE l == {i \in Items : Due(i, drain[p].now)}
             d == [drain[p] EXCEPT !.pc = "next", !.todo = l]
  <2>1. drain' = [drain EXCEPT ![p] = d] /\ UNCHANGED item /\ drain[p].pc = "list"
    BY <1>2 DEF List, Ticking
  <2>2. d.item = drain[p].item /\ d.item = None
    <3> HIDE DEF l
    <3> QED
      BY <1>t, <2>1 DEF Drain, AtWork
  <2> QED
    BY <1>l, <1>s, <2>1, <2>2
<1>3. CASE Claim(p)
  <2>0. drain[p].pc = "next" /\ drain[p].item = None
    BY <1>3, <1>t DEF Claim, Ticking, AtWork
  <2>1. PICK i \in drain[p].todo :
         \/ /\ ClaimHolds(i, drain[p].now)
            /\ item' = [item EXCEPT ![i].status = "running", ![i].attempts = @ + 1]
            /\ drain' = [drain EXCEPT ![p].pc = "log", ![p].item = i,
                                      ![p].attempt = item[i].attempts + 1,
                                      ![p].todo = @ \ {i}]
         \/ /\ drain' = [drain EXCEPT ![p].todo = @ \ {i}]
            /\ UNCHANGED item
         \/ TickEnds(p) /\ UNCHANGED item
    BY <1>3 DEF Claim
  <2>i. i \in Items /\ item[i] \in Item
    BY <1>t DEF Drain
  <2>2. CASE drain' = [drain EXCEPT ![p].todo = @ \ {i}] /\ UNCHANGED item
    <3> DEFINE d == [drain[p] EXCEPT !.todo = @ \ {i}]
    <3>1. drain' = [drain EXCEPT ![p] = d]
      BY <2>2
    <3>2. d.item = drain[p].item
      BY <1>t DEF Drain
    <3> QED
      BY <1>l, <1>s, <2>0, <2>2, <3>1, <3>2
  <2>3. CASE /\ ClaimHolds(i, drain[p].now)
             /\ item' = [item EXCEPT ![i].status = "running", ![i].attempts = @ + 1]
             /\ drain' = [drain EXCEPT ![p].pc = "log", ![p].item = i,
                                       ![p].attempt = item[i].attempts + 1,
                                       ![p].todo = @ \ {i}]
    <3> DEFINE t == drain[p].todo \ {i}
               n == item[i].attempts + 1
               d == [drain[p] EXCEPT !.pc = "log", !.item = i, !.attempt = n, !.todo = t]
               m == [item[i] EXCEPT !.status = "running", !.attempts = n]
    <3>1. d.item = i /\ d.pc = "log" /\ m.status = "running"
      <4> HIDE DEF n, t
      <4> QED
        BY <1>t, <2>i DEF Drain, Item
    <3>2. item' = [item EXCEPT ![i] = m] /\ drain' = [drain EXCEPT ![p] = d]
      BY <2>3
    <3>3. item[i].status \in Claimables
      BY <2>3 DEF ClaimHolds, Due
    <3> HIDE DEF d, m, n, t
    <3>4. Gains(p, d)
      BY <1>t, <2>0, <2>i, <3>1, <3>2, <3>3 DEF Gains
    <3> QED
      BY <1>l, <3>1, <3>2, <3>4 DEF Leaves, AtWork
  <2> QED
    BY <1>e, <2>1, <2>2, <2>3
<1>4. CASE LogClaim(p)
  <2> DEFINE d == [drain[p] EXCEPT !.pc = "handle"]
  <2>1. drain' = [drain EXCEPT ![p] = d] /\ UNCHANGED item
    BY <1>4 DEF LogClaim
  <2>2. d.item = drain[p].item /\ d.pc = "handle"
    BY <1>t DEF Drain
  <2> QED
    BY <1>l, <1>s, <2>1, <2>2 DEF AtWork
<1>5. CASE Handle(p)
  <2>1. PICK result, next : drain' = [drain EXCEPT ![p].pc = "complete", ![p].result = result,
                                                   ![p].next = next]
    BY <1>5 DEF Handle
  <2> DEFINE d == [drain[p] EXCEPT !.pc = "complete", !.result = result, !.next = next]
  <2>2. d.item = drain[p].item /\ d.pc = "complete"
    BY <1>t DEF Drain
  <2>3. drain' = [drain EXCEPT ![p] = d]
    BY <2>1
  <2>4. UNCHANGED item
    BY <1>5 DEF Handle
  <2> QED
    BY <1>l, <1>s, <2>2, <2>3, <2>4 DEF AtWork
<1>6. CASE Complete(p) /\ ~(TickEnds(p) /\ UNCHANGED item)
  <2> DEFINE i == drain[p].item
             d == [NoTick EXCEPT !.pc = "next", !.now = drain[p].now, !.todo = drain[p].todo]
             m == [item[i] EXCEPT !.status = drain[p].result, !.available = drain[p].next]
  <2>1. i \in Items /\ item[i] \in Item /\ item[i].status = "running"
    BY <1>6, <1>t, <1>r DEF Complete, Ticking, AtWork
  <2>2. drain' = [drain EXCEPT ![p] = d]
    BY <1>6 DEF Complete
  <2>3. item' = [item EXCEPT ![i] = m]
    BY <1>6, <2>1 DEF Complete
  <2>4. d.item = None /\ d.pc = "next"
    BY DEF NoTick
  <2>5. m.status \in {"running"} \cup Claimables \cup Settled
    BY <1>t, <2>1 DEF Item, Drain, Claimables, Settled
  <2> HIDE DEF d, m
  <2>6. Drops(p, d)
    BY <1>t, <2>1, <2>3, <2>4, <2>5 DEF Drops
  <2> QED
    BY <1>l, <2>2, <2>4, <2>6 DEF Leaves
<1> QED
  BY <1>e, <1>1, <1>2, <1>3, <1>4, <1>5, <1>6 DEF TickStep, List, TickDone

LEMMA FreeTickKept ==
  ASSUME IInv, FreeTick, [Next]_vars
  PROVE  FreeTick'
<1>t. drain \in [Processes -> Drain] /\ NoTick.item = None
  BY DEF IInv, TypeOK, NoTick
<1>0. ASSUME UNCHANGED drain
      PROVE  FreeTick'
  BY <1>0 DEF FreeTick
<1>1. ASSUME NEW p \in Processes, TickStep(p)
      PROVE  FreeTick'
  BY <1>1, <1>t, WhatATickLeaves DEF Leaves, FreeTick
<1>4. ASSUME NEW p \in Processes, GetsSlot(p)
      PROVE  FreeTick'
  <2>1. CASE drain[p].pc = "idle"
    <3> DEFINE d == [NoTick EXCEPT !.pc = "beat", !.now = now]
    <3>1. drain' = [drain EXCEPT ![p] = d]
      BY <1>4, <2>1 DEF GetsSlot, StartTick
    <3>2. d.item = None
      BY DEF NoTick
    <3> QED
      BY <1>t, <3>1, <3>2 DEF FreeTick
  <2>2. CASE drain[p].pc # "idle"
    BY <1>0, <1>4, <2>2 DEF GetsSlot, StartTick
  <2> QED
    BY <2>1, <2>2
<1>5. ASSUME NEW p \in Processes,
             Starts(p) \/ Timer(p) \/ Stops(p) \/ Stopped(p) \/ Dies(p)
             \/ ((SlotHeld(p) \/ ClaimFails(p)) /\ UNCHANGED workVars)
      PROVE  FreeTick'
  BY <1>0, <1>5 DEF Starts, Timer, Stops, Stopped, Dies, workVars
<1>6. ASSUME NEW i \in Items, Record(i) \/ AppendAccepted(i)
      PROVE  FreeTick'
  BY <1>0, <1>6 DEF Record, AppendAccepted
<1>7. CASE (\E s \in Slots : Stale(s)) \/ TimePasses \/ UNCHANGED vars
  BY <1>0, <1>7 DEF Stale, TimePasses, vars, workVars
<1> QED
  BY <1>1, <1>4, <1>5, <1>6, <1>7 DEF Next, ClaimStep

-----------------------------------------------------------------------------
(* What a step is to the queue.                                            *)
places == [i \in Items |-> Place(i)]
handed == [i \in Items |-> Hands(i)]

LEMMA SameQueue ==
  ASSUME \A i \in Items : item'[i].status = item[i].status,
         \A q \in Processes : \A i \in Items : Has(q, i)' <=> Has(q, i)
  PROVE  UNCHANGED <<places, handed>>
<1>1. \A i \in Items : Hands(i)' = Hands(i)
  BY DEF Hands, Has
<1>2. \A i \in Items : Place(i)' = Place(i)
  BY <1>1 DEF Place
<1> QED
  BY <1>1, <1>2 DEF places, handed

(* An item in somebody's hands is running, and it is in the hands of one.  *)
LEMMA HeldIsRunning ==
  ASSUME IInv, NEW p \in Processes, NEW i \in Items, Has(p, i)
  PROVE  Place(i) = "taken" /\ Hands(i) = {p} /\ item[i].status = "running"
<1>1. item[i].status = "running" /\ \A q \in Processes : drain[q].item = i => q = p
  BY DurableWorkAssumption DEF IInv, ClaimIsExclusive, Has
<1>2. Hands(i) = {p}
  BY <1>1 DEF Hands, Has
<1> QED
  BY <1>1, <1>2 DEF Place, Claimables, Settled

(* A replica loses the item it has: its tick has ended, or it died.        *)
LEMMA HandsEmptied ==
  ASSUME IInv, TypeOK', NEW p \in Processes, NEW i \in Items, Has(p, i),
         item'[i].status \in {"running"} \cup Claimables \cup Settled,
         \A j \in Items \ {i} : item'[j].status = item[j].status,
         \A j \in Items : ~Has(p, j)',
         \A q \in Processes \ {p} : \A j \in Items : Has(q, j)' <=> Has(q, j)
  PROVE  Queue!Next
<1>1. Place(i) = "taken" /\ Hands(i) = {p}
  BY HeldIsRunning
<1>2. \A j \in Items \ {i} : Hands(j)' = Hands(j)
  BY DEF Hands, Has
<1>3. Hands(i)' = {}
  BY <1>1 DEF Hands, Has
<1>4. \A j \in Items \ {i} : Place(j)' = Place(j)
  BY <1>2 DEF Place
<1>5. Place(i)' \in {"waiting", "settled", "lost"}
  BY <1>3 DEF Place, Claimables, Settled
<1>6. handed' = [handed EXCEPT ![i] = {}] /\ places' = [places EXCEPT ![i] = Place(i)']
  BY <1>2, <1>3, <1>4 DEF handed, places
<1> QED
  BY <1>1, <1>5, <1>6 DEF Queue!Next, Queue!Settle, Queue!PutBack, Queue!Lose, Queue!Leave,
                          handed, places

LEMMA HandsFilled ==
  ASSUME IInv, NEW p \in Processes, NEW i \in Items,
         item[i].status \in Claimables, item'[i].status = "running",
         \A j \in Items \ {i} : item'[j].status = item[j].status,
         \A j \in Items : ~Has(p, j) /\ (Has(p, j)' <=> j = i),
         \A q \in Processes \ {p} : \A j \in Items : Has(q, j)' <=> Has(q, j)
  PROVE  Queue!Next
<1>1. Hands(i) = {} /\ Place(i) = "waiting"
  <2>1. \A q \in Processes : ~Has(q, i)
    BY HeldIsRunning DEF Claimables
  <2>2. Hands(i) = {}
    BY <2>1 DEF Hands, Has
  <2>3. Place(i) = "waiting"
    BY DEF Place, Claimables, Settled
  <2> QED
    BY <2>2, <2>3
<1>2. \A j \in Items : p \notin Hands(j)
  BY DEF Hands, Has
<1>3. Hands(i)' = {p}
  BY <1>1 DEF Hands, Has
<1>4. \A j \in Items \ {i} : Hands(j)' = Hands(j)
  BY DEF Hands, Has
<1>5. \A j \in Items \ {i} : Place(j)' = Place(j)
  BY <1>4 DEF Place
<1>6. Place(i)' = "taken"
  BY <1>3 DEF Place, Claimables, Settled
<1>7. handed' = [handed EXCEPT ![i] = {p}] /\ places' = [places EXCEPT ![i] = "taken"]
  BY <1>3, <1>4, <1>5, <1>6 DEF handed, places
<1> QED
  BY <1>1, <1>2, <1>7 DEF Queue!Next, Queue!Take, handed, places

LEMMA StepOfTheQueue ==
  ASSUME QInv, [Next]_vars
  PROVE  Queue!Next \/ UNCHANGED <<places, handed>>
<1>t. /\ TypeOK /\ TypeOK' /\ FreeTick' /\ IInv /\ FreeTick /\ OffIsIdle
      /\ drain \in [Processes -> Drain] /\ proc \in [Processes -> Process]
      /\ item \in [Items -> Item] /\ item' \in [Items -> Item]
  BY StepKeepsInvariant, FreeTickKept DEF QInv, IInv, TypeOK, SlotsTypeOK, SlotInv
<1>0. ASSUME UNCHANGED <<item, drain>>, SameLives
      PROVE  UNCHANGED <<places, handed>>
  BY <1>0, SameQueue DEF Has, SameLives
<1>1. ASSUME NEW p \in Processes, TickStep(p)
      PROVE  Queue!Next \/ UNCHANGED <<places, handed>>
  <2>1. PICK d : Leaves(p, d)
    BY <1>1, <1>t, WhatATickLeaves
  <2>2. SameLives /\ Live(p)
    BY <1>1, <1>t, WhatATickLeaves
       DEF TickStep, TickBeat, List, Claim, LogClaim, Handle, Complete, TickDone, Ticking
  <2>3. drain'[p] = d /\ \A q \in Processes \ {p} : drain'[q] = drain[q]
    BY <1>t, <2>1 DEF Leaves
  <2>4. \A q \in Processes \ {p} : \A j \in Items : Has(q, j)' <=> Has(q, j)
    BY <2>2, <2>3 DEF Has, SameLives
  <2>5. \A j \in Items : Has(p, j)' <=> d.item = j
    BY <2>2, <2>3 DEF Has, SameLives
  <2>6. CASE Keeps(p, d)
    BY <2>2, <2>4, <2>5, <2>6, SameQueue DEF Keeps, Has
  <2>7. CASE Gains(p, d)
    <3>1. \A j \in Items : ~Has(p, j) /\ (Has(p, j)' <=> j = d.item)
      BY <2>5, <2>7, DurableWorkAssumption DEF Gains, Has
    <3> QED
      BY <1>t, <2>4, <2>7, <3>1, HandsFilled DEF Gains
  <2>8. CASE Drops(p, d)
    <3>1. Has(p, drain[p].item) /\ \A j \in Items : ~Has(p, j)'
      BY <2>2, <2>5, <2>8, DurableWorkAssumption DEF Drops, Has
    <3> QED
      BY <1>t, <2>4, <2>8, <3>1, HandsEmptied DEF Drops
  <2> QED
    BY <2>1, <2>6, <2>7, <2>8 DEF Leaves
<1>2. ASSUME NEW p \in Processes, GetsSlot(p)
      PROVE  UNCHANGED <<places, handed>>
  <2>1. SameLives
    BY <1>2, <1>t DEF GetsSlot, SlotClaimed, SameLives, Live, Process
  <2>2. \A q \in Processes : drain'[q].item = drain[q].item
    <3>1. CASE drain[p].pc = "idle"
      <4> DEFINE d == [NoTick EXCEPT !.pc = "beat", !.now = now]
      <4>1. drain' = [drain EXCEPT ![p] = d]
        BY <1>2, <3>1 DEF GetsSlot, StartTick
      <4>2. d.item = None /\ drain[p].item = None
        BY <1>t, <3>1 DEF NoTick, FreeTick, AtWork
      <4> QED
        BY <1>t, <4>1, <4>2
    <3>2. CASE drain[p].pc # "idle"
      BY <1>2, <3>2 DEF GetsSlot, StartTick
    <3> QED
      BY <3>1, <3>2
  <2>3. UNCHANGED item
    BY <1>2 DEF GetsSlot
  <2> QED
    BY <2>1, <2>2, <2>3, SameQueue DEF Has, SameLives
<1>3. ASSUME NEW p \in Processes, (SlotHeld(p) \/ ClaimFails(p)) /\ UNCHANGED workVars
      PROVE  UNCHANGED <<places, handed>>
  BY <1>3, <1>0, <1>t DEF SlotHeld, ClaimFails, SameLives, Live, Process, workVars
<1>4. ASSUME NEW p \in Processes, Timer(p) \/ Stops(p) \/ Stopped(p)
      PROVE  UNCHANGED <<places, handed>>
  <2>1. SameLives
    BY <1>4, <1>t DEF Timer, Stops, Stopped, TimerFires, Stop, MarkStopped, SameLives, Live,
                      Process
  <2> QED
    BY <1>4, <1>0, <2>1 DEF Timer, Stops, Stopped, workVars
<1>5. ASSUME NEW p \in Processes, Starts(p)
      PROVE  UNCHANGED <<places, handed>>
  <2>1. drain[p].item = None
    BY <1>5, <1>t DEF Starts, StartRuntime, OffIsIdle, FreeTick, AtWork
  <2>2. UNCHANGED <<item, drain>> /\ \A q \in Processes \ {p} : Live(q)' <=> Live(q)
    BY <1>5, <1>t DEF Starts, StartRuntime, Live, workVars
  <2> QED
    BY <2>1, <2>2, SameQueue, DurableWorkAssumption DEF Has
<1>6. ASSUME NEW p \in Processes, Dies(p)
      PROVE  Queue!Next \/ UNCHANGED <<places, handed>>
  <2>1. /\ UNCHANGED <<item, drain>> /\ ~Live(p)' /\ Live(p)
        /\ \A q \in Processes \ {p} : Live(q)' <=> Live(q)
    BY <1>6, <1>t DEF Dies, Exit, Live, workVars
  <2>2. CASE drain[p].item = None
    BY <2>1, <2>2, SameQueue, DurableWorkAssumption DEF Has
  <2>3. CASE drain[p].item # None
    <3> DEFINE i == drain[p].item
    <3>1. i \in Items /\ Has(p, i)
      BY <1>t, <2>1, <2>3 DEF Drain, Has
    <3>2. item'[i].status = "running" /\ \A j \in Items \ {i} : item'[j].status = item[j].status
      BY <1>t, <2>1, <3>1, HeldIsRunning
    <3>3. /\ \A j \in Items : ~Has(p, j)'
          /\ \A q \in Processes \ {p} : \A j \in Items : Has(q, j)' <=> Has(q, j)
      BY <2>1 DEF Has
    <3> HIDE DEF i
    <3> QED
      BY <1>t, <3>1, <3>2, <3>3, HandsEmptied
  <2> QED
    BY <2>2, <2>3
<1>7. ASSUME NEW i \in Items, Record(i)
      PROVE  Queue!Next \/ UNCHANGED <<places, handed>>
  <2>1. UNCHANGED <<drain, proc>>
    BY <1>7 DEF Record
  <2>2. \A q \in Processes : \A j \in Items : Has(q, j)' <=> Has(q, j)
    BY <2>1 DEF Has, Live
  <2>3. CASE UNCHANGED item
    BY <2>2, <2>3, SameQueue
  <2>4. CASE item' = [item EXCEPT ![i] = [NoItem EXCEPT !.status = "pending",
                                                        !.available = now]]
    <3>1. /\ item[i].status = "absent" /\ item'[i].status = "pending"
          /\ \A j \in Items \ {i} : item'[j].status = item[j].status
      BY <1>7, <1>t, <2>4 DEF Record, IInv, NotRecorded, NoItem
    <3>2. \A j \in Items : Hands(j)' = Hands(j)
      BY <2>2 DEF Hands, Has
    <3>3. \A j \in Items \ {i} : Place(j)' = Place(j)
      BY <3>1, <3>2 DEF Place
    <3>4. Place(i) = "absent" /\ Place(i)' = "waiting"
      BY <3>1 DEF Place, Claimables, Settled
    <3>5. handed' = handed /\ places' = [places EXCEPT ![i] = "waiting"]
      BY <3>2, <3>3, <3>4 DEF handed, places
    <3> QED
      BY <3>4, <3>5 DEF Queue!Next, Queue!Record, handed, places
  <2> QED
    BY <1>7, <2>3, <2>4 DEF Record
<1>8. ASSUME NEW i \in Items, AppendAccepted(i)
      PROVE  UNCHANGED <<places, handed>>
  BY <1>8, <1>0 DEF AppendAccepted, slotVars, SameLives, Live
<1>9. CASE (\E s \in Slots : Stale(s)) \/ TimePasses \/ UNCHANGED vars
  BY <1>9, <1>0 DEF Stale, GoesStale, TimePasses, vars, slotVars, workVars, SameLives, Live
<1> QED
  BY <1>1, <1>2, <1>3, <1>4, <1>5, <1>6, <1>7, <1>8, <1>9 DEF Next, ClaimStep

(* Replicas that list the same items, are stopped and die at any moment,   *)
(* and statements that fail, implement the queue: an item is handed to one *)
(* replica at a time, only that one settles it or puts it back, a settled  *)
(* item stays settled and one whose replica is lost is not handed out again.*)
THEOREM DurableWorkImplementsQueue == Spec => ImplementsQueue
<1>1. Init => QInv /\ Queue!Init
  <2>1. Init => QInv
    BY InitiallyExclusive, InitiallySlots DEF QInv, Init, FreeTick, NoTick
  <2>2. ASSUME Init, NEW i \in Items
        PROVE  Place(i) = "absent" /\ Hands(i) = {}
    BY <2>2, DurableWorkAssumption DEF Init, Place, Hands, NoItem, NoTick, Claimables, Settled
  <2> QED
    BY <2>1, <2>2 DEF Queue!Init
<1>2. QInv /\ [Next]_vars => QInv'
  BY StepKeepsInvariant, StepKeepsSlots, FreeTickKept DEF QInv, IInv
<1>3. QInv /\ [Next]_vars
        => [Queue!Next]_<<[i \in Items |-> Place(i)], [i \in Items |-> Hands(i)]>>
  BY StepOfTheQueue DEF places, handed
<1> QED
  BY <1>1, <1>2, <1>3, PTL DEF Spec, ImplementsQueue, Queue!Spec

-----------------------------------------------------------------------------
(* A slot belongs to one replica, so the slots bound how many drain at a   *)
(* time, not only that each one has a slot.                                *)
Busy == {p \in Processes : proc[p].life = "up" /\ drain[p].pc # "idle"}

LEMMA SlotsBoundTheBusy ==
  ASSUME DrainsWithSlot, faults = 0
  PROVE  IsFiniteSet(Busy) /\ Cardinality(Busy) <= SlotCount
<1>1. IsFiniteSet(Slots) /\ Cardinality(Slots) = SlotCount
  BY FS_Interval, WorkerSlotsAssumption DEF Slots
<1> DEFINE slot == [p \in Busy |-> CHOOSE s \in Slots : beat[s].owner = p]
<1>2. \A p \in Busy : slot[p] \in Slots /\ beat[slot[p]].owner = p
  BY DEF Busy, DrainsWithSlot
<1> HIDE DEF slot
<1>3. slot \in [Busy -> Slots]
  BY <1>2 DEF slot
<1>4. slot \in Injection(Busy, Slots)
  BY <1>2, <1>3 DEF Injection, IsInjective
<1> QED
  BY <1>1, <1>4, FS_Injection

(* While heartbeats are in time, never more replicas that were not told to *)
(* stop are draining than there are slots, whatever number is started,     *)
(* stopped and killed meanwhile (ADR-082: drain loops for declared worker  *)
(* slots).                                                                 *)
THEOREM SlotsBoundTheDrain == Spec => [](faults = 0 => Cardinality(Busy) <= SlotCount)
<1>1. DrainsWithSlot => (faults = 0 => Cardinality(Busy) <= SlotCount)
  BY SlotsBoundTheBusy
<1> QED
  BY <1>1, ReplicasHaveSlots, PTL
=============================================================================
