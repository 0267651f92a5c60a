--------------------------- MODULE ScheduledTasks ---------------------------
(***************************************************************************)
(* One slot of a scheduled task, the minute in which it is due: schedulers *)
(* of several servers and run-now commands admit runs of the task, and the *)
(* replicas that drain the durable queue execute them.  Runs of different  *)
(* slots do not meet anywhere: the unique index and listDue, the one query *)
(* for due tasks, are by slot, the rest is by run.  An admission writes the*)
(* run, its work item and the item's first event with three statements and *)
(* no transaction around them; the handler of the item writes the whole run*)
(* back from the copy it has read.  That an item is claimed by one replica *)
(* is what DurableWork.tla shows of the queue.                             *)
(***************************************************************************)
EXTENDS Integers

CONSTANTS
    Servers,     (* servers whose scheduled task runner is on              *)
    Commands,    (* run-now commands                                       *)
    Workers,     (* replicas of the durable work runtime                   *)
    None,        (* no run in hand                                         *)
    MaxFaults    (* bound: failed statements and processes that die        *)

ASSUME ScheduledTasksAssumption ==
    /\ Servers \cap Commands = {}
    /\ None \notin Servers \cup Commands
    /\ MaxFaults \in Nat

VARIABLES
    due,        (* the clock is in the minute of the slot                  *)
    task,       (* the task definition                                     *)
    run,        (* scheduled_task_run_attempts                             *)
    item,       (* the durable work item of each run                       *)
    admission,  (* the admission each server or command is in              *)
    work,       (* the item each replica has claimed                       *)
    faults

vars == <<due, task, run, item, admission, work, faults>>

(* A run is named by who admits it; a scheduler's is the run of the slot.  *)
(* A server that lists the slot again has not written a run for it.        *)
Runs == Servers \cup Commands
Scheduled(r) == r \in Servers

Ended == {"succeeded", "failed"}
RunStatuses == {"none", "accepted", "running"} \cup Ended
ItemStatuses == {"none", "pending", "running"} \cup Ended

NoWork == [at |-> "idle", run |-> None, result |-> "failed"]

TypeOK ==
    /\ due \in BOOLEAN
    /\ task \in {"enabled", "disabled", "deleted"}
    /\ run \in [Runs -> RunStatuses]
    /\ item \in [Runs -> ItemStatuses]
    /\ admission \in [Runs ->
         {"idle", "admit", "save", "enqueue", "answer", "answered", "refused"}]
    /\ work \in [Workers ->
         [at : {"idle", "load", "start", "execute", "save", "complete"},
          run : Runs \cup {None}, result : Ended]]
    /\ faults \in 0..MaxFaults

Init ==
    /\ due = TRUE
    /\ task = "enabled"
    /\ run = [r \in Runs |-> "none"]
    /\ item = [r \in Runs |-> "none"]
    /\ admission = [a \in Runs |-> "idle"]
    /\ work = [w \in Workers |-> NoWork]
    /\ faults = 0

Fault == faults < MaxFaults /\ faults' = faults + 1

-----------------------------------------------------------------------------
TimePasses ==
    /\ due /\ due' = FALSE
    /\ UNCHANGED <<task, run, item, admission, work, faults>>

(* The update and delete operations; they look at no run.                  *)
Configure ==
    /\ task # "deleted"
    /\ task' \in {"enabled", "disabled", "deleted"} \ {task}
    /\ UNCHANGED <<due, run, item, admission, work, faults>>

-----------------------------------------------------------------------------
(* Admission.  A server is done with one when it is idle again, whatever   *)
(* the outcome; a command answers.                                         *)
Goes(a, place) == admission' = [admission EXCEPT ![a] = place]
Over(a, answer) == Goes(a, IF Scheduled(a) THEN "idle" ELSE answer)

SlotTaken == \E r \in Servers : run[r] # "none"

(* listDue of the tick.                                                    *)
ListDue(s) ==
    /\ admission[s] = "idle"
    /\ due /\ task = "enabled" /\ ~SlotTaken
    /\ Goes(s, "admit")
    /\ UNCHANGED <<due, task, run, item, work, faults>>

RunNow(c) ==
    /\ admission[c] = "idle" /\ Goes(c, "admit")
    /\ UNCHANGED <<due, task, run, item, work, faults>>

(* The task is looked up, and the run of the slot: it is the answer.       *)
Admit(a) ==
    /\ admission[a] = "admit"
    /\ \/ task # "enabled" /\ Over(a, "refused")
       \/ task = "enabled" /\ Scheduled(a) /\ SlotTaken /\ Over(a, "answered")
       \/ task = "enabled" /\ ~(Scheduled(a) /\ SlotTaken) /\ Goes(a, "save")
    /\ UNCHANGED <<due, task, run, item, work, faults>>

(* Mutant: no unique index on task and slot.                               *)
InsertableAlways(r) == TRUE

(* The partial unique index on (task_id, scheduled_for).                   *)
Insertable(r) == ~(Scheduled(r) /\ SlotTaken)

SaveRun(a) ==
    /\ admission[a] = "save"
    /\ \/ /\ Insertable(a)
          /\ run' = [run EXCEPT ![a] = "accepted"]
          /\ Goes(a, "enqueue") /\ UNCHANGED faults
       \/ /\ IF Insertable(a) THEN Fault ELSE UNCHANGED faults
          /\ Over(a, "refused") /\ UNCHANGED run
    /\ UNCHANGED <<due, task, item, work>>

RecordItem(a) ==
    /\ admission[a] = "enqueue"
    /\ \/ /\ item' = [item EXCEPT ![a] = "pending"]
          /\ Goes(a, "answer") /\ UNCHANGED faults
       \/ Fault /\ Over(a, "refused") /\ UNCHANGED item
    /\ UNCHANGED <<due, task, run, work>>

(* The accepted event, which is refused when the event of a claim took the *)
(* sequence, and the process attempt.                                      *)
Answer(a) ==
    /\ admission[a] = "answer"
    /\ \/ Over(a, "answered") /\ UNCHANGED faults
       \/ /\ IF item[a] = "pending" THEN Fault ELSE UNCHANGED faults
          /\ Over(a, "refused")
    /\ UNCHANGED <<due, task, run, item, work>>

AdmissionStep(a) == Admit(a) \/ SaveRun(a) \/ RecordItem(a) \/ Answer(a)

-----------------------------------------------------------------------------
(* Execution.                                                              *)
Does(w, place) == work' = [work EXCEPT ![w].at = place]
Settles(w, result) == work' = [work EXCEPT ![w].at = "complete", ![w].result = result]

(* Mutant: an item that is running is claimed again.                       *)
ClaimableAgain(r) == item[r] \in {"pending", "running"}

Claimable(r) == item[r] = "pending"

Claim(w) ==
    /\ work[w].at = "idle"
    /\ \E r \in Runs :
          /\ Claimable(r)
          /\ item' = [item EXCEPT ![r] = "running"]
          /\ work' = [work EXCEPT ![w] = [at |-> "load", run |-> r, result |-> "failed"]]
    /\ UNCHANGED <<due, task, run, admission, faults>>

(* Mutant: a run of a task that was disabled meanwhile is not executed.    *)
ExecutableWhileEnabled(status) == task = "enabled" /\ status = "accepted"

(* The run is read, then the task it needs; start() wants it accepted.     *)
Executable(status) == task # "deleted" /\ status = "accepted"

Load(w) ==
    /\ work[w].at = "load"
    /\ IF Executable(run[work[w].run])
         THEN Does(w, "start")
         ELSE Settles(w, "failed")
    /\ UNCHANGED <<due, task, run, item, admission, faults>>

(* A write of the run; an exception of it fails the item.                  *)
Write(w, status) == run' = [run EXCEPT ![work[w].run] = status]

Start(w) ==
    /\ work[w].at = "start"
    /\ \/ Write(w, "running") /\ Does(w, "execute") /\ UNCHANGED faults
       \/ Fault /\ Settles(w, "failed") /\ UNCHANGED run
    /\ UNCHANGED <<due, task, item, admission>>

(* The runtime and the record of its log; an error of the latter returns.  *)
Execute(w) ==
    /\ work[w].at = "execute"
    /\ \/ /\ \E result \in Ended :
                work' = [work EXCEPT ![w].at = "save", ![w].result = result]
          /\ UNCHANGED faults
       \/ Fault /\ Settles(w, "failed")
    /\ UNCHANGED <<due, task, run, item, admission>>

(* Mutant: the item gets the result of the runtime, saved or not.          *)
UnsavedKeepsResult(w) == Does(w, "complete")

(* Mutant: the item is settled with the status the run was left in.        *)
UnsavedTellsStatus(w) == Settles(w, run[work[w].run])

Unsaved(w) == Settles(w, "failed")

SaveResult(w) ==
    /\ work[w].at = "save"
    /\ \/ Write(w, work[w].result) /\ Does(w, "complete") /\ UNCHANGED faults
       \/ Fault /\ Unsaved(w) /\ UNCHANGED run
    /\ UNCHANGED <<due, task, item, admission>>

Complete(w) ==
    /\ work[w].at = "complete"
    /\ \/ item' = [item EXCEPT ![work[w].run] = work[w].result] /\ UNCHANGED faults
       \/ Fault /\ UNCHANGED item
    /\ work' = [work EXCEPT ![w] = NoWork]
    /\ UNCHANGED <<due, task, run, admission>>

WorkStep(w) ==
    Claim(w) \/ Load(w) \/ Start(w) \/ Execute(w) \/ SaveResult(w) \/ Complete(w)

-----------------------------------------------------------------------------
(* Processes die; a replica that is started again is another one, or the   *)
(* same with nothing in hand.                                              *)
ServerDies(a) ==
    /\ admission[a] \notin {"idle", "answered", "refused"} /\ Fault
    /\ Over(a, "refused")
    /\ UNCHANGED <<due, task, run, item, work>>

WorkerDies(w) ==
    /\ work[w].at # "idle" /\ Fault
    /\ work' = [work EXCEPT ![w] = NoWork]
    /\ UNCHANGED <<due, task, run, item, admission>>

Next ==
    \/ TimePasses \/ Configure
    \/ \E s \in Servers : ListDue(s)
    \/ \E c \in Commands : RunNow(c)
    \/ \E a \in Runs : AdmissionStep(a) \/ ServerDies(a)
    \/ \E w \in Workers : WorkStep(w) \/ WorkerDies(w)

Spec == Init /\ [][Next]_vars

(* What was begun goes on, and replicas drain the queue.                   *)
FairSpec ==
    /\ Spec
    /\ \A a \in Runs : WF_vars(AdmissionStep(a))
    /\ \A w \in Workers : WF_vars(WorkStep(w))

-----------------------------------------------------------------------------
(* The work items of the runs are those of a queue as DurableWork.tla shows*)
(* it to be: the same contract holds of them here; nothing is retried.     *)
Hands(r) == {w \in Workers : work[w].at # "idle" /\ work[w].run = r}

Place(r) ==
    CASE item[r] = "pending" -> "waiting"
      [] item[r] \in Ended -> "settled"
      [] item[r] = "running" -> IF Hands(r) = {} THEN "lost" ELSE "taken"
      [] OTHER -> "absent"

Queue == INSTANCE WorkQueue
           WITH Items <- Runs,
                place <- [r \in Runs |-> Place(r)], hands <- [r \in Runs |-> Hands(r)]

(* The item of a run is recorded once, although admission upserts it by id,*)
(* and only the replica that has claimed it settles it.                    *)
ImplementsQueue == Queue!Spec

(* A slot of the schedule has one run, however many schedulers list it as  *)
(* due before one of them has written it.                                  *)
OneRunPerSlot ==
    \A r, q \in Servers : run[r] # "none" /\ run[q] # "none" => r = q

(* What the queue says of a run that was executed is what the run says:    *)
(* its item has succeeded exactly if it has, through lost writes, failed   *)
(* logs and replicas that die.                                             *)
ItemTellsTheRun ==
    \A r \in Runs : item[r] \in Ended => (item[r] = "succeeded" <=> run[r] = "succeeded")

(* A run goes forward only: accepted, running and ended, once each, though *)
(* every write of it is an unconditional upsert from an earlier copy.      *)
RunsOnce ==
    [][\A r \in Runs : run'[r] # run[r] =>
          <<run[r], run'[r]>> \in {<<"none", "accepted">>, <<"accepted", "running">>}
                                  \cup ({"running"} \X Ended)]_vars

(* A run that was accepted ends, unless a statement or a process failed on *)
(* its way or its task was deleted: then nobody looks at it again.         *)
AcceptedRunsEnd ==
    \A r \in Runs : run[r] = "accepted" ~> run[r] \in Ended \/ faults > 0 \/ task = "deleted"
=============================================================================
