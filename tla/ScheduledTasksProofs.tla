------------------------ MODULE ScheduledTasksProofs ------------------------
(***************************************************************************)
(* ScheduledTasks for any number of servers, commands, replicas and faults.*)
(* That a run goes forward only, and that its item tells the truth of it,  *)
(* are inductive together with what each step of an admission and of a     *)
(* replica knows of the run it has in hand, although it reads the row once *)
(* only: nobody else has it.                                               *)
(***************************************************************************)
EXTENDS ScheduledTasks, TLAPS

(* An admission that goes on to the item has the run it has just written;  *)
(* a command has not written one before.                                   *)
AdmissionKnows ==
    \A a \in Runs :
        /\ admission[a] = "enqueue" => run[a] = "accepted" /\ item[a] = "none"
        /\ ~Scheduled(a) /\ admission[a] \in {"idle", "admit", "save"} => run[a] = "none"

(* An item follows its run.                                                *)
ItemFollowsRun ==
    \A r \in Runs :
        /\ run[r] = "none" => item[r] = "none"
        /\ item[r] \in {"none", "pending"} => run[r] \in {"none", "accepted"}

(* A replica has an item that is running, and no other replica has it.     *)
Busy(w) == work[w].at # "idle"

WorkHasItem ==
    \A w \in Workers : Busy(w) =>
        /\ work[w].run \in Runs /\ item[work[w].run] = "running"
        /\ \A v \in Workers : Busy(v) /\ work[v].run = work[w].run => v = w

WorkKnows ==
    \A w \in Workers :
        /\ work[w].at \in {"load", "start"} => run[work[w].run] = "accepted"
        /\ work[w].at \in {"execute", "save"} => run[work[w].run] = "running"
        /\ work[w].at = "complete"
              => (work[w].result = "succeeded" <=> run[work[w].run] = "succeeded")

IInv ==
    /\ TypeOK /\ OneRunPerSlot /\ ItemTellsTheRun
    /\ AdmissionKnows /\ ItemFollowsRun /\ WorkHasItem /\ WorkKnows

LEMMA InitiallyIdle == Init => IInv
<1> SUFFICES ASSUME Init PROVE IInv
  OBVIOUS
<1> USE ScheduledTasksAssumption DEF Init
<1>1. TypeOK
  BY DEF TypeOK, RunStatuses, ItemStatuses, NoWork, Ended
<1>2. OneRunPerSlot /\ ItemTellsTheRun /\ AdmissionKnows /\ ItemFollowsRun
  BY DEF OneRunPerSlot, ItemTellsTheRun, AdmissionKnows, ItemFollowsRun, Runs, Ended
<1>3. WorkHasItem /\ WorkKnows
  BY DEF WorkHasItem, WorkKnows, Busy, NoWork
<1> QED
  BY <1>1, <1>2, <1>3 DEF IInv

-----------------------------------------------------------------------------
(* The types.                                                              *)
LEMMA Typed ==
  ASSUME TypeOK, WorkHasItem, [Next]_vars
  PROVE  TypeOK'
<1> USE ScheduledTasksAssumption DEF TypeOK, WorkHasItem, Busy, RunStatuses, ItemStatuses, Ended, Scheduled
<1>1. CASE UNCHANGED vars \/ TimePasses \/ Configure
  BY <1>1, ZenonT(60) DEF vars, TimePasses, Configure
<1>2. ASSUME NEW a \in Runs,
             \/ a \in Servers /\ ListDue(a)
             \/ a \in Commands /\ RunNow(a)
             \/ AdmissionStep(a) \/ ServerDies(a)
      PROVE  TypeOK'
  <2>1. CASE (a \in Servers /\ ListDue(a)) \/ (a \in Commands /\ RunNow(a))
    BY <2>1 DEF ListDue, RunNow, Goes
  <2>2. CASE Admit(a)
    BY <2>2 DEF Admit, Goes, Over
  <2>3. CASE SaveRun(a)
    BY <2>3 DEF SaveRun, Goes, Over, Insertable, SlotTaken, Fault
  <2>4. CASE RecordItem(a)
    BY <2>4 DEF RecordItem, Goes, Over, Fault
  <2>5. CASE Answer(a)
    BY <2>5 DEF Answer, Goes, Over, Fault
  <2>6. CASE ServerDies(a)
    BY <2>6 DEF ServerDies, Over, Goes, Fault
  <2> QED
    BY <1>2, <2>1, <2>2, <2>3, <2>4, <2>5, <2>6 DEF AdmissionStep
<1>3. ASSUME NEW w \in Workers, WorkStep(w) \/ WorkerDies(w)
      PROVE  TypeOK'
  <2>1. CASE Claim(w)
    BY <2>1 DEF Claim, NoWork
  <2>2. CASE Load(w)
    BY <2>2 DEF Load, Does, Settles, Executable
  <2>3. CASE Start(w)
    BY <2>3 DEF Start, Does, Settles, Write, Fault
  <2>4. CASE Execute(w)
    BY <2>4 DEF Execute, Settles, Fault
  <2>5. CASE SaveResult(w)
    BY <2>5 DEF SaveResult, Does, Unsaved, Settles, Write, Fault
  <2>6. CASE Complete(w)
    BY <2>6 DEF Complete, NoWork, Fault
  <2>7. CASE WorkerDies(w)
    BY <2>7 DEF WorkerDies, NoWork, Fault
  <2> QED
    BY <1>3, <2>1, <2>2, <2>3, <2>4, <2>5, <2>6, <2>7 DEF WorkStep
<1> QED
  BY <1>1, <1>2, <1>3 DEF Next, Runs

(* The index keeps a second run of the slot out; whatever else is written has *)
(* been there before.                                                      *)
LEMMA SlotOnce ==
  ASSUME TypeOK, OneRunPerSlot, ItemFollowsRun, WorkHasItem, [Next]_vars
  PROVE  OneRunPerSlot'
<1> USE ScheduledTasksAssumption DEF TypeOK, OneRunPerSlot, ItemFollowsRun, WorkHasItem, Busy, Runs, Scheduled
<1>1. CASE UNCHANGED vars \/ TimePasses \/ Configure
  BY <1>1 DEF vars, TimePasses, Configure
<1>2. ASSUME NEW a \in Runs,
             \/ a \in Servers /\ ListDue(a)
             \/ a \in Commands /\ RunNow(a)
             \/ AdmissionStep(a) \/ ServerDies(a)
      PROVE  OneRunPerSlot'
  <2>1. CASE (a \in Servers /\ ListDue(a)) \/ (a \in Commands /\ RunNow(a))
    BY <2>1 DEF ListDue, RunNow, Goes
  <2>2. CASE Admit(a)
    BY <2>2 DEF Admit, Goes, Over
  <2>3. CASE SaveRun(a)
    BY <2>3 DEF SaveRun, Goes, Over, Insertable, SlotTaken
  <2>4. CASE RecordItem(a)
    BY <2>4 DEF RecordItem, Goes, Over
  <2>5. CASE Answer(a)
    BY <2>5 DEF Answer, Goes, Over
  <2>6. CASE ServerDies(a)
    BY <2>6 DEF ServerDies, Over, Goes
  <2> QED
    BY <1>2, <2>1, <2>2, <2>3, <2>4, <2>5, <2>6 DEF AdmissionStep
<1>3. ASSUME NEW w \in Workers, WorkStep(w) \/ WorkerDies(w)
      PROVE  OneRunPerSlot'
  <2>1. CASE Claim(w)
    BY <2>1 DEF Claim, Claimable, NoWork
  <2>2. CASE Load(w)
    BY <2>2 DEF Load, Does, Settles, Executable
  <2>3. CASE Start(w)
    BY <2>3 DEF Start, Does, Settles, Write
  <2>4. CASE Execute(w)
    BY <2>4 DEF Execute, Settles
  <2>5. CASE SaveResult(w)
    BY <2>5 DEF SaveResult, Does, Unsaved, Settles, Write
  <2>6. CASE Complete(w)
    BY <2>6 DEF Complete, NoWork
  <2>7. CASE WorkerDies(w)
    BY <2>7 DEF WorkerDies, NoWork
  <2> QED
    BY <1>3, <2>1, <2>2, <2>3, <2>4, <2>5, <2>6, <2>7 DEF WorkStep
<1> QED
  BY <1>1, <1>2, <1>3 DEF Next, Runs

(* What an admission knows is not changed by others.                       *)
LEMMA AdmissionKept ==
  ASSUME TypeOK, AdmissionKnows, ItemFollowsRun, WorkHasItem, WorkKnows, [Next]_vars
  PROVE  AdmissionKnows'
<1> USE ScheduledTasksAssumption DEF TypeOK, AdmissionKnows, ItemFollowsRun, WorkHasItem, WorkKnows, Busy, Scheduled, Runs
<1>1. CASE UNCHANGED vars \/ TimePasses \/ Configure
  BY <1>1 DEF vars, TimePasses, Configure
<1>2. ASSUME NEW a \in Runs,
             \/ a \in Servers /\ ListDue(a)
             \/ a \in Commands /\ RunNow(a)
             \/ AdmissionStep(a) \/ ServerDies(a)
      PROVE  AdmissionKnows'
  <2>1. CASE (a \in Servers /\ ListDue(a)) \/ (a \in Commands /\ RunNow(a))
    BY <2>1 DEF ListDue, RunNow, Goes
  <2>2. CASE Admit(a)
    BY <2>2 DEF Admit, Goes, Over
  <2>3. CASE SaveRun(a)
    BY <2>3 DEF SaveRun, Goes, Over, Insertable, SlotTaken
  <2>4. CASE RecordItem(a)
    BY <2>4 DEF RecordItem, Goes, Over
  <2>5. CASE Answer(a)
    BY <2>5 DEF Answer, Goes, Over
  <2>6. CASE ServerDies(a)
    BY <2>6 DEF ServerDies, Over, Goes
  <2> QED
    BY <1>2, <2>1, <2>2, <2>3, <2>4, <2>5, <2>6 DEF AdmissionStep
<1>3. ASSUME NEW w \in Workers, WorkStep(w) \/ WorkerDies(w)
      PROVE  AdmissionKnows'
  <2>1. CASE Claim(w)
    BY <2>1 DEF Claim, Claimable, NoWork
  <2>2. CASE Load(w)
    BY <2>2 DEF Load, Does, Settles, Executable
  <2>3. CASE Start(w)
    BY <2>3 DEF Start, Does, Settles, Write
  <2>4. CASE Execute(w)
    BY <2>4 DEF Execute, Settles
  <2>5. CASE SaveResult(w)
    BY <2>5 DEF SaveResult, Does, Unsaved, Settles, Write
  <2>6. CASE Complete(w)
    BY <2>6 DEF Complete, NoWork
  <2>7. CASE WorkerDies(w)
    BY <2>7 DEF WorkerDies, NoWork
  <2> QED
    BY <1>3, <2>1, <2>2, <2>3, <2>4, <2>5, <2>6, <2>7 DEF WorkStep
<1> QED
  BY <1>1, <1>2, <1>3 DEF Next, Runs

(* Items follow their runs.                                                *)
LEMMA ItemKept ==
  ASSUME TypeOK, AdmissionKnows, ItemFollowsRun, WorkHasItem, WorkKnows, [Next]_vars
  PROVE  ItemFollowsRun'
<1> USE ScheduledTasksAssumption DEF TypeOK, AdmissionKnows, ItemFollowsRun, WorkHasItem, WorkKnows, Busy, Ended, Scheduled, Runs
<1>1. CASE UNCHANGED vars \/ TimePasses \/ Configure
  BY <1>1 DEF vars, TimePasses, Configure
<1>2. ASSUME NEW a \in Runs,
             \/ a \in Servers /\ ListDue(a)
             \/ a \in Commands /\ RunNow(a)
             \/ AdmissionStep(a) \/ ServerDies(a)
      PROVE  ItemFollowsRun'
  <2>1. CASE (a \in Servers /\ ListDue(a)) \/ (a \in Commands /\ RunNow(a))
    BY <2>1 DEF ListDue, RunNow, Goes
  <2>2. CASE Admit(a)
    BY <2>2 DEF Admit, Goes, Over
  <2>3. CASE SaveRun(a)
    BY <2>3 DEF SaveRun, Goes, Over, Insertable, SlotTaken
  <2>4. CASE RecordItem(a)
    BY <2>4 DEF RecordItem, Goes, Over
  <2>5. CASE Answer(a)
    BY <2>5 DEF Answer, Goes, Over
  <2>6. CASE ServerDies(a)
    BY <2>6 DEF ServerDies, Over, Goes
  <2> QED
    BY <1>2, <2>1, <2>2, <2>3, <2>4, <2>5, <2>6 DEF AdmissionStep
<1>3. ASSUME NEW w \in Workers, WorkStep(w) \/ WorkerDies(w)
      PROVE  ItemFollowsRun'
  <2>1. CASE Claim(w)
    BY <2>1 DEF Claim, Claimable, NoWork
  <2>2. CASE Load(w)
    BY <2>2 DEF Load, Does, Settles, Executable
  <2>3. CASE Start(w)
    BY <2>3 DEF Start, Does, Settles, Write
  <2>4. CASE Execute(w)
    BY <2>4 DEF Execute, Settles
  <2>5. CASE SaveResult(w)
    BY <2>5 DEF SaveResult, Does, Unsaved, Settles, Write
  <2>6. CASE Complete(w)
    BY <2>6 DEF Complete, NoWork
  <2>7. CASE WorkerDies(w)
    BY <2>7 DEF WorkerDies, NoWork
  <2> QED
    BY <1>3, <2>1, <2>2, <2>3, <2>4, <2>5, <2>6, <2>7 DEF WorkStep
<1> QED
  BY <1>1, <1>2, <1>3 DEF Next, Runs

(* Claims are exclusive, and an item is in hand as long as it is running.  *)
LEMMA WorkHeld ==
  ASSUME TypeOK, AdmissionKnows, WorkHasItem, [Next]_vars
  PROVE  WorkHasItem'
<1> USE ScheduledTasksAssumption DEF TypeOK, AdmissionKnows, WorkHasItem, Busy, Ended
<1>1. CASE UNCHANGED vars \/ TimePasses \/ Configure
  BY <1>1 DEF vars, TimePasses, Configure
<1>2. ASSUME NEW a \in Runs,
             \/ a \in Servers /\ ListDue(a)
             \/ a \in Commands /\ RunNow(a)
             \/ AdmissionStep(a) \/ ServerDies(a)
      PROVE  WorkHasItem'
  <2>1. CASE (a \in Servers /\ ListDue(a)) \/ (a \in Commands /\ RunNow(a))
    BY <2>1 DEF ListDue, RunNow, Goes
  <2>2. CASE Admit(a)
    BY <2>2 DEF Admit, Goes, Over
  <2>3. CASE SaveRun(a)
    BY <2>3 DEF SaveRun, Goes, Over, Insertable, SlotTaken
  <2>4. CASE RecordItem(a)
    BY <2>4 DEF RecordItem, Goes, Over
  <2>5. CASE Answer(a)
    BY <2>5 DEF Answer, Goes, Over
  <2>6. CASE ServerDies(a)
    BY <2>6 DEF ServerDies, Over, Goes
  <2> QED
    BY <1>2, <2>1, <2>2, <2>3, <2>4, <2>5, <2>6 DEF AdmissionStep
<1>3. ASSUME NEW w \in Workers, WorkStep(w) \/ WorkerDies(w)
      PROVE  WorkHasItem'
  <2>1. CASE Claim(w)
    BY <2>1 DEF Claim, Claimable, NoWork
  <2>2. CASE Load(w)
    BY <2>2 DEF Load, Does, Settles, Executable
  <2>3. CASE Start(w)
    BY <2>3 DEF Start, Does, Settles, Write
  <2>4. CASE Execute(w)
    BY <2>4 DEF Execute, Settles
  <2>5. CASE SaveResult(w)
    BY <2>5 DEF SaveResult, Does, Unsaved, Settles, Write
  <2>6. CASE Complete(w)
    BY <2>6 DEF Complete, NoWork
  <2>7. CASE WorkerDies(w)
    BY <2>7 DEF WorkerDies, NoWork
  <2> QED
    BY <1>3, <2>1, <2>2, <2>3, <2>4, <2>5, <2>6, <2>7 DEF WorkStep
<1> QED
  BY <1>1, <1>2, <1>3 DEF Next, Runs

(* What a replica has read stays true.                                     *)
LEMMA WorkKept ==
  ASSUME TypeOK, AdmissionKnows, ItemFollowsRun, WorkHasItem, WorkKnows, [Next]_vars
  PROVE  WorkKnows'
<1> USE ScheduledTasksAssumption DEF TypeOK, AdmissionKnows, ItemFollowsRun, WorkHasItem, WorkKnows, Busy, Ended, Scheduled, Runs
<1>1. CASE UNCHANGED vars \/ TimePasses \/ Configure
  BY <1>1 DEF vars, TimePasses, Configure
<1>2. ASSUME NEW a \in Runs,
             \/ a \in Servers /\ ListDue(a)
             \/ a \in Commands /\ RunNow(a)
             \/ AdmissionStep(a) \/ ServerDies(a)
      PROVE  WorkKnows'
  <2>1. CASE (a \in Servers /\ ListDue(a)) \/ (a \in Commands /\ RunNow(a))
    BY <2>1 DEF ListDue, RunNow, Goes
  <2>2. CASE Admit(a)
    BY <2>2 DEF Admit, Goes, Over
  <2>3. CASE SaveRun(a)
    BY <2>3 DEF SaveRun, Goes, Over, Insertable, SlotTaken
  <2>4. CASE RecordItem(a)
    BY <2>4 DEF RecordItem, Goes, Over
  <2>5. CASE Answer(a)
    BY <2>5 DEF Answer, Goes, Over
  <2>6. CASE ServerDies(a)
    BY <2>6 DEF ServerDies, Over, Goes
  <2> QED
    BY <1>2, <2>1, <2>2, <2>3, <2>4, <2>5, <2>6 DEF AdmissionStep
<1>3. ASSUME NEW w \in Workers, WorkStep(w) \/ WorkerDies(w)
      PROVE  WorkKnows'
  <2>1. CASE Claim(w)
    BY <2>1 DEF Claim, Claimable, NoWork
  <2>2. CASE Load(w)
    BY <2>2 DEF Load, Does, Settles, Executable
  <2>3. CASE Start(w)
    BY <2>3 DEF Start, Does, Settles, Write
  <2>4. CASE Execute(w)
    BY <2>4 DEF Execute, Settles
  <2>5. CASE SaveResult(w)
    BY <2>5 DEF SaveResult, Does, Unsaved, Settles, Write
  <2>6. CASE Complete(w)
    BY <2>6 DEF Complete, NoWork
  <2>7. CASE WorkerDies(w)
    BY <2>7 DEF WorkerDies, NoWork
  <2> QED
    BY <1>3, <2>1, <2>2, <2>3, <2>4, <2>5, <2>6, <2>7 DEF WorkStep
<1> QED
  BY <1>1, <1>2, <1>3 DEF Next, Runs

(* An item is settled with what its run was left with.                     *)
LEMMA ItemTrue ==
  ASSUME TypeOK, AdmissionKnows, ItemFollowsRun, WorkHasItem, WorkKnows, ItemTellsTheRun, [Next]_vars
  PROVE  ItemTellsTheRun'
<1> USE ScheduledTasksAssumption DEF TypeOK, AdmissionKnows, ItemFollowsRun, WorkHasItem, WorkKnows, ItemTellsTheRun, Busy, Ended, Scheduled, Runs
<1>1. CASE UNCHANGED vars \/ TimePasses \/ Configure
  BY <1>1 DEF vars, TimePasses, Configure
<1>2. ASSUME NEW a \in Runs,
             \/ a \in Servers /\ ListDue(a)
             \/ a \in Commands /\ RunNow(a)
             \/ AdmissionStep(a) \/ ServerDies(a)
      PROVE  ItemTellsTheRun'
  <2>1. CASE (a \in Servers /\ ListDue(a)) \/ (a \in Commands /\ RunNow(a))
    BY <2>1 DEF ListDue, RunNow, Goes
  <2>2. CASE Admit(a)
    BY <2>2 DEF Admit, Goes, Over
  <2>3. CASE SaveRun(a)
    BY <2>3 DEF SaveRun, Goes, Over, Insertable, SlotTaken
  <2>4. CASE RecordItem(a)
    BY <2>4 DEF RecordItem, Goes, Over
  <2>5. CASE Answer(a)
    BY <2>5 DEF Answer, Goes, Over
  <2>6. CASE ServerDies(a)
    BY <2>6 DEF ServerDies, Over, Goes
  <2> QED
    BY <1>2, <2>1, <2>2, <2>3, <2>4, <2>5, <2>6 DEF AdmissionStep
<1>3. ASSUME NEW w \in Workers, WorkStep(w) \/ WorkerDies(w)
      PROVE  ItemTellsTheRun'
  <2>1. CASE Claim(w)
    BY <2>1 DEF Claim, Claimable, NoWork
  <2>2. CASE Load(w)
    BY <2>2 DEF Load, Does, Settles, Executable
  <2>3. CASE Start(w)
    BY <2>3 DEF Start, Does, Settles, Write
  <2>4. CASE Execute(w)
    BY <2>4 DEF Execute, Settles
  <2>5. CASE SaveResult(w)
    BY <2>5 DEF SaveResult, Does, Unsaved, Settles, Write
  <2>6. CASE Complete(w)
    BY <2>6 DEF Complete, NoWork
  <2>7. CASE WorkerDies(w)
    BY <2>7 DEF WorkerDies, NoWork
  <2> QED
    BY <1>3, <2>1, <2>2, <2>3, <2>4, <2>5, <2>6, <2>7 DEF WorkStep
<1> QED
  BY <1>1, <1>2, <1>3 DEF Next, Runs

(* Every write of a run is the next one.                                   *)
LEMMA Forward ==
  ASSUME TypeOK, AdmissionKnows, WorkHasItem, WorkKnows, [Next]_vars
  PROVE  \A r \in Runs : run'[r] # run[r] =>
             <<run[r], run'[r]>> \in {<<"none", "accepted">>, <<"accepted", "running">>}
                                     \cup ({"running"} \X Ended)
<1> USE ScheduledTasksAssumption DEF TypeOK, AdmissionKnows, WorkHasItem, WorkKnows, Busy, Ended, Scheduled, Runs
<1>1. CASE UNCHANGED vars \/ TimePasses \/ Configure
  BY <1>1 DEF vars, TimePasses, Configure
<1>2. ASSUME NEW a \in Runs,
             \/ a \in Servers /\ ListDue(a)
             \/ a \in Commands /\ RunNow(a)
             \/ AdmissionStep(a) \/ ServerDies(a)
      PROVE  \A r \in Runs : run'[r] # run[r] =>
             <<run[r], run'[r]>> \in {<<"none", "accepted">>, <<"accepted", "running">>}
                                     \cup ({"running"} \X Ended)
  <2>1. CASE (a \in Servers /\ ListDue(a)) \/ (a \in Commands /\ RunNow(a))
    BY <2>1 DEF ListDue, RunNow, Goes
  <2>2. CASE Admit(a)
    BY <2>2 DEF Admit, Goes, Over
  <2>3. CASE SaveRun(a)
    BY <2>3 DEF SaveRun, Goes, Over, Insertable, SlotTaken
  <2>4. CASE RecordItem(a)
    BY <2>4 DEF RecordItem, Goes, Over
  <2>5. CASE Answer(a)
    BY <2>5 DEF Answer, Goes, Over
  <2>6. CASE ServerDies(a)
    BY <2>6 DEF ServerDies, Over, Goes
  <2> QED
    BY <1>2, <2>1, <2>2, <2>3, <2>4, <2>5, <2>6 DEF AdmissionStep
<1>3. ASSUME NEW w \in Workers, WorkStep(w) \/ WorkerDies(w)
      PROVE  \A r \in Runs : run'[r] # run[r] =>
             <<run[r], run'[r]>> \in {<<"none", "accepted">>, <<"accepted", "running">>}
                                     \cup ({"running"} \X Ended)
  <2>1. CASE Claim(w)
    BY <2>1 DEF Claim, Claimable, NoWork
  <2>2. CASE Load(w)
    BY <2>2 DEF Load, Does, Settles, Executable
  <2>3. CASE Start(w)
    BY <2>3 DEF Start, Does, Settles, Write
  <2>4. CASE Execute(w)
    BY <2>4 DEF Execute, Settles
  <2>5. CASE SaveResult(w)
    BY <2>5 DEF SaveResult, Does, Unsaved, Settles, Write
  <2>6. CASE Complete(w)
    BY <2>6 DEF Complete, NoWork
  <2>7. CASE WorkerDies(w)
    BY <2>7 DEF WorkerDies, NoWork
  <2> QED
    BY <1>3, <2>1, <2>2, <2>3, <2>4, <2>5, <2>6, <2>7 DEF WorkStep
<1> QED
  BY <1>1, <1>2, <1>3 DEF Next, Runs

(* The invariant is inductive.                                             *)
LEMMA Preserved == IInv /\ [Next]_vars => IInv'
  BY Typed, SlotOnce, AdmissionKept, ItemKept, WorkHeld, WorkKept, ItemTrue DEF IInv

LEMMA Reached == Spec => []IInv
<1>1. Init => IInv
  BY InitiallyIdle
<1>2. IInv /\ [Next]_vars => IInv'
  BY Preserved
<1> QED
  BY <1>1, <1>2, PTL DEF Spec

-----------------------------------------------------------------------------
(* Every variable of admission and execution keeps its type.               *)
THEOREM TasksAreTyped == Spec => []TypeOK
<1>1. IInv => TypeOK
  BY DEF IInv
<1> QED
  BY <1>1, Reached, PTL

(* Any number of schedulers write one run for the slot.                    *)
THEOREM SlotHasOneRun == Spec => []OneRunPerSlot
<1>1. IInv => OneRunPerSlot
  BY DEF IInv
<1> QED
  BY <1>1, Reached, PTL

(* An item that is settled as succeeded is that of a run that has          *)
(* succeeded, and the other way round, whatever was lost or died.          *)
THEOREM ItemsAreTrue == Spec => []ItemTellsTheRun
<1>1. IInv => ItemTellsTheRun
  BY DEF IInv
<1> QED
  BY <1>1, Reached, PTL

(* Every write of a run takes it one step forward: it is executed once.    *)
THEOREM RunsAreExecutedOnce == Spec => RunsOnce
<1>1. IInv /\ [Next]_vars
        => [\A r \in Runs : run'[r] # run[r] =>
              <<run[r], run'[r]>> \in {<<"none", "accepted">>, <<"accepted", "running">>}
                                      \cup ({"running"} \X Ended)]_vars
  BY Forward DEF IInv
<1> QED
  BY <1>1, Reached, PTL DEF Spec, RunsOnce

-----------------------------------------------------------------------------
(* The items of the runs are a work queue.                                 *)
Has(w, r) == Busy(w) /\ work[w].run = r

places == [r \in Runs |-> Place(r)]
handed == [r \in Runs |-> Hands(r)]

LEMMA SameQueue ==
  ASSUME UNCHANGED item, \A w \in Workers : \A r \in Runs : Has(w, r)' <=> Has(w, r)
  PROVE  UNCHANGED <<places, handed>>
<1>1. \A r \in Runs : Hands(r)' = Hands(r)
  BY DEF Hands, Has, Busy
<1>2. \A r \in Runs : Place(r)' = Place(r)
  BY <1>1 DEF Place
<1> QED
  BY <1>1, <1>2 DEF places, handed

(* The item that a replica has leaves its hands.                           *)
LEMMA HandsEmptied ==
  ASSUME IInv, NEW w \in Workers, Busy(w), work' = [work EXCEPT ![w] = NoWork],
         NEW r, r = work[w].run, item'[r] \in {"running"} \cup Ended,
         \A q \in Runs \ {r} : item'[q] = item[q]
  PROVE  Queue!Next
<1>1. r \in Runs /\ item[r] = "running"
  BY DEF IInv, WorkHasItem
<1>2. Hands(r) = {w}
  BY DEF IInv, WorkHasItem, Hands, Busy
<1>3. /\ work'[w].at = "idle"
      /\ \A v \in Workers \ {w} : work'[v] = work[v]
  BY DEF IInv, TypeOK, NoWork
<1>4. Hands(r)' = {}
  BY <1>2, <1>3 DEF Hands
<1>5. \A q \in Runs \ {r} : Hands(q)' = Hands(q)
  BY <1>3 DEF Hands
<1>6. \A q \in Runs \ {r} : Place(q)' = Place(q)
  BY <1>5 DEF Place
<1>7. Place(r) = "taken" /\ Place(r)' \in {"settled", "lost"}
  BY <1>1, <1>2, <1>4 DEF Place, Ended
<1>8. handed' = [handed EXCEPT ![r] = {}] /\ places' = [places EXCEPT ![r] = Place(r)']
  BY <1>4, <1>5, <1>6 DEF handed, places
<1> QED
  BY <1>1, <1>7, <1>8 DEF Queue!Next, Queue!Settle, Queue!Lose, Queue!Leave, places, handed

LEMMA StepOfTheQueue ==
  ASSUME IInv, [Next]_vars
  PROVE  Queue!Next \/ UNCHANGED <<places, handed>>
<1>t. TypeOK /\ TypeOK' /\ WorkHasItem /\ AdmissionKnows
  BY Preserved DEF IInv
<1>0. ASSUME UNCHANGED <<item, work>>
      PROVE  UNCHANGED <<places, handed>>
  BY <1>0, SameQueue DEF Has, Busy
<1>1. CASE UNCHANGED vars \/ TimePasses \/ Configure
  BY <1>0, <1>1 DEF vars, TimePasses, Configure
<1>2. ASSUME NEW a \in Runs,
             ListDue(a) \/ RunNow(a) \/ Admit(a) \/ SaveRun(a) \/ Answer(a) \/ ServerDies(a)
      PROVE  UNCHANGED <<places, handed>>
  BY <1>0, <1>2 DEF ListDue, RunNow, Admit, SaveRun, Answer, ServerDies
<1>3. ASSUME NEW a \in Runs, RecordItem(a)
      PROVE  Queue!Next \/ UNCHANGED <<places, handed>>
  <2>1. CASE UNCHANGED item
    BY <1>0, <1>3, <2>1 DEF RecordItem
  <2>2. CASE item' = [item EXCEPT ![a] = "pending"]
    <3>1. item[a] = "none" /\ UNCHANGED work
      BY <1>3, <1>t DEF RecordItem, AdmissionKnows
    <3>2. item'[a] = "pending" /\ \A q \in Runs \ {a} : item'[q] = item[q]
      BY <1>t, <2>2 DEF TypeOK
    <3>3. \A q \in Runs : Hands(q)' = Hands(q)
      BY <3>1 DEF Hands
    <3>4. \A q \in Runs \ {a} : Place(q)' = Place(q)
      BY <3>2, <3>3 DEF Place
    <3>5. Place(a) = "absent" /\ Place(a)' = "waiting"
      BY <3>1, <3>2 DEF Place, Ended
    <3>6. handed' = handed /\ places' = [places EXCEPT ![a] = "waiting"]
      BY <3>3, <3>4, <3>5 DEF handed, places
    <3> QED
      BY <3>5, <3>6 DEF Queue!Next, Queue!Record, places, handed
  <2> QED
    BY <1>3, <2>1, <2>2 DEF RecordItem
<1>4. ASSUME NEW w \in Workers, Claim(w)
      PROVE  Queue!Next
  <2>1. PICK r \in Runs :
          /\ item[r] = "pending" /\ item' = [item EXCEPT ![r] = "running"]
          /\ work' = [work EXCEPT ![w] = [at |-> "load", run |-> r, result |-> "failed"]]
    BY <1>4 DEF Claim, Claimable
  <2>2. /\ item'[r] = "running" /\ \A q \in Runs \ {r} : item'[q] = item[q]
        /\ work'[w].at = "load" /\ work'[w].run = r
        /\ \A v \in Workers \ {w} : work'[v] = work[v]
    BY <1>t, <2>1 DEF TypeOK
  <2>3. work[w].at = "idle" /\ \A q \in Runs : w \notin Hands(q)
    BY <1>4 DEF Claim, Hands
  <2>4. Hands(r) = {}
    BY <1>t, <2>1 DEF WorkHasItem, Busy, Hands
  <2>5. Hands(r)' = {w}
    BY <2>2, <2>4 DEF Hands
  <2>6. \A q \in Runs \ {r} : Hands(q)' = Hands(q)
    BY <2>2, <2>3 DEF Hands
  <2>7. \A q \in Runs \ {r} : Place(q)' = Place(q)
    BY <2>2, <2>6 DEF Place
  <2>8. Place(r) = "waiting" /\ Place(r)' = "taken"
    BY <2>1, <2>2, <2>5 DEF Place, Ended
  <2>9. handed' = [handed EXCEPT ![r] = {w}] /\ places' = [places EXCEPT ![r] = "taken"]
    BY <2>5, <2>6, <2>7, <2>8 DEF handed, places
  <2> QED
    BY <2>3, <2>8, <2>9 DEF Queue!Next, Queue!Take, places, handed
<1>5. ASSUME NEW w \in Workers, Load(w) \/ Start(w) \/ Execute(w) \/ SaveResult(w)
      PROVE  UNCHANGED <<places, handed>>
  <2>1. \/ \E x \in {"start", "execute", "complete"} : Does(w, x)
        \/ \E y \in Ended : work' = [work EXCEPT ![w].at = "save", ![w].result = y]
        \/ Settles(w, "failed")
    BY <1>5 DEF Load, Start, Execute, SaveResult, Unsaved
  <2>2. Busy(w) /\ UNCHANGED item
    BY <1>5 DEF Busy, Load, Start, Execute, SaveResult
  <2>3. /\ work'[w].run = work[w].run /\ work'[w].at # "idle"
        /\ \A v \in Workers \ {w} : work'[v] = work[v]
    BY <1>t, <2>1 DEF TypeOK, Does, Settles
  <2> QED
    BY <2>2, <2>3, SameQueue DEF Has, Busy
<1>6. ASSUME NEW w \in Workers, Complete(w) \/ WorkerDies(w)
      PROVE  Queue!Next
  <2>1. Busy(w) /\ work' = [work EXCEPT ![w] = NoWork]
    BY <1>6 DEF Busy, Complete, WorkerDies
  <2>2. work[w].run \in Runs /\ item[work[w].run] = "running" /\ work[w].result \in Ended
    BY <1>t, <2>1 DEF WorkHasItem, TypeOK
  <2>3. /\ item'[work[w].run] \in {"running"} \cup Ended
        /\ \A q \in Runs \ {work[w].run} : item'[q] = item[q]
    BY <1>6, <1>t, <2>2 DEF Complete, WorkerDies, TypeOK
  <2> QED
    BY <2>1, <2>3, HandsEmptied, <1>t
<1> QED
  BY <1>1, <1>2, <1>3, <1>4, <1>5, <1>6 DEF Next, AdmissionStep, WorkStep, Runs

(* The items of the runs are a work queue: the item of a run is recorded   *)
(* once, although admission upserts it by its id, is handed to one replica *)
(* only, and is settled by that one or lost with it.                       *)
THEOREM TasksImplementQueue == Spec => ImplementsQueue
<1>1. Init => Queue!Init
  BY DEF Init, Queue!Init, Place, Hands, NoWork, Ended
<1>2. IInv /\ [Next]_vars
        => [Queue!Next]_<<[r \in Runs |-> Place(r)], [r \in Runs |-> Hands(r)]>>
  BY StepOfTheQueue DEF places, handed
<1> QED
  BY <1>1, <1>2, Reached, PTL DEF Spec, ImplementsQueue, Queue!Spec
=============================================================================
