---------------------------- MODULE DurableWork ----------------------------
(***************************************************************************)
(* The durable work queue on the database, drained by the replicas of      *)
(* WorkerSlots.  A producer records a pending item and appends its first   *)
(* event.  A replica that has claimed a slot ticks: it takes the time, sends*)
(* a heartbeat, lists the items that are due at that time, and claims,     *)
(* handles and completes them one after the other.  Several replicas may   *)
(* have listed the same item.                                              *)
(* The lease columns of an item are set with status running and cleared    *)
(* when it leaves it, and an item that is running is never claimed, so what*)
(* they hold makes no difference.  Of the events of an item only who wrote *)
(* the one with sequence 1 does.  A list holds every due item, in any      *)
(* order: there are fewer items than the batch size.                       *)
(***************************************************************************)
EXTENDS WorkerSlots

CONSTANTS
    Items,        (* ids of durable work items                             *)
    MaxAttempts,  (* bound: claims of one item                             *)
    MaxTime       (* bound: the clock                                      *)

ASSUME DurableWorkAssumption ==
    MaxAttempts \in Nat \ {0} /\ MaxTime \in Nat /\ None \notin Items

VARIABLES
    now,       (* the clock of the replicas                                *)
    item,      (* durable_work_items                                       *)
    first,     (* durable_work_events: the kind of the event with sequence 1*)
    producer,  (* the command that enqueues each item                      *)
    drain      (* each replica: its active tick                            *)

workVars == <<now, item, first, producer, drain>>
vars == <<slotVars, workVars>>

Settled == {"succeeded", "failed"}
Claimables == {"pending", "retry-scheduled"}
Item == [status : {"absent", "running"} \cup Claimables \cup Settled,
         attempts : 0..MaxAttempts, available : 0..MaxTime]
NoItem == [status |-> "absent", attempts |-> 0, available |-> 0]

(* now, todo: input.now and the candidates left; item, attempt: the claimed*)
(* item as it was returned; result, next: what the handler asks for.       *)
Drain == [pc : {"idle", "beat", "list", "next", "log", "handle", "complete"},
          now : 0..MaxTime, todo : SUBSET Items, item : Items \cup {None},
          attempt : 0..MaxAttempts, result : Settled \cup {"retry-scheduled"},
          next : 0..MaxTime]
NoTick == [pc |-> "idle", now |-> 0, todo |-> {}, item |-> None, attempt |-> 0,
           result |-> "failed", next |-> 0]

TypeOK ==
    /\ SlotsTypeOK
    /\ now \in 0..MaxTime
    /\ item \in [Items -> Item]
    /\ first \in [Items -> {"none", "accepted", "claimed"}]
    /\ producer \in [Items -> {"new", "recorded", "accepted", "refused"}]
    /\ drain \in [Processes -> Drain]

Init ==
    /\ SlotsInit
    /\ now = 0
    /\ item = [i \in Items |-> NoItem]
    /\ first = [i \in Items |-> "none"]
    /\ producer = [i \in Items |-> "new"]
    /\ drain = [p \in Processes |-> NoTick]

-----------------------------------------------------------------------------
(* The producers: recordItem, then appendEvent with sequence 1, which is   *)
(* unique for the item.  An error of either is the command's error.        *)
Record(i) ==
    /\ producer[i] = "new"
    /\ \/ /\ item' = [item EXCEPT ![i] = [NoItem EXCEPT !.status = "pending",
                                                        !.available = now]]
          /\ producer' = [producer EXCEPT ![i] = "recorded"]
          /\ UNCHANGED faults
       \/ /\ producer' = [producer EXCEPT ![i] = "refused"]
          /\ Fault /\ UNCHANGED item
    /\ UNCHANGED <<beat, proc, now, first, drain>>

AppendAccepted(i) ==
    /\ producer[i] = "recorded"
    /\ IF first[i] = "none"
         THEN /\ first' = [first EXCEPT ![i] = "accepted"]
              /\ producer' = [producer EXCEPT ![i] = "accepted"]
         ELSE /\ producer' = [producer EXCEPT ![i] = "refused"]
              /\ UNCHANGED first
    /\ UNCHANGED <<slotVars, now, item, drain>>

-----------------------------------------------------------------------------
(* A tick: drainDurableWorkOnce.                                           *)
Ticking(p, pc) == Live(p) /\ drain[p].pc = pc

(* startTick, unless the replica's tick is still active.                   *)
StartTick(p) ==
    drain' = IF drain[p].pc = "idle"
               THEN [drain EXCEPT ![p] = [NoTick EXCEPT !.pc = "beat", !.now = now]]
               ELSE drain

EndsTick(p) == drain' = [drain EXCEPT ![p] = NoTick]

(* Stop waits for the tick that was active when it was called.             *)
TickEnds(p) ==
    /\ EndsTick(p)
    /\ proc' = IF proc[p].life = "draining" THEN [proc EXCEPT ![p].life = "stopping"] ELSE proc

TickBeat(p) ==
    /\ Ticking(p, "beat")
    /\ Heartbeat(p)
    /\ drain' = [drain EXCEPT ![p].pc = "list"]
    /\ UNCHANGED <<now, item, first, producer>>

Due(i, t) == item[i].status \in Claimables /\ item[i].available <= t

(* listDueCandidates.                                                      *)
List(p) ==
    /\ Ticking(p, "list")
    /\ \/ /\ drain' = [drain EXCEPT ![p].pc = "next",
                                    ![p].todo = {i \in Items : Due(i, drain[p].now)}]
          /\ UNCHANGED <<proc, faults>>
       \/ TickEnds(p) /\ Fault
    /\ UNCHANGED <<beat, now, item, first, producer>>

(* Mutant: the update of the claim trusts what was listed.                 *)
ClaimHoldsAsListed(i, t) == TRUE

(* The WHERE of claimDue, with the time of the tick.                       *)
ClaimHolds(i, t) == Due(i, t)

Claim(p) ==
    /\ Ticking(p, "next")
    /\ \E i \in drain[p].todo :
         \/ /\ ClaimHolds(i, drain[p].now)
            /\ item' = [item EXCEPT ![i].status = "running", ![i].attempts = @ + 1]
            /\ drain' = [drain EXCEPT ![p].pc = "log", ![p].item = i,
                                      ![p].attempt = item[i].attempts + 1,
                                      ![p].todo = @ \ {i}]
            /\ UNCHANGED <<proc, faults>>
         \/ /\ ~ClaimHolds(i, drain[p].now)
            /\ drain' = [drain EXCEPT ![p].todo = @ \ {i}]
            /\ UNCHANGED <<proc, item, faults>>
         \/ TickEnds(p) /\ Fault /\ UNCHANGED item
    /\ UNCHANGED <<beat, now, first, producer>>

(* The claimed event takes the next sequence; an error is swallowed.       *)
LogClaim(p) ==
    /\ Ticking(p, "log")
    /\ first' = [first EXCEPT ![drain[p].item] = IF @ = "none" THEN "claimed" ELSE @]
    /\ drain' = [drain EXCEPT ![p].pc = "handle"]
    /\ UNCHANGED <<slotVars, now, item, producer>>

(* The handler.  An error or an exception of it is a failure; it may ask   *)
(* for a retry, at a later time, while the bounds leave room for one.      *)
Handle(p) ==
    /\ Ticking(p, "handle")
    /\ \/ \E result \in Settled :
             drain' = [drain EXCEPT ![p].pc = "complete", ![p].result = result,
                                    ![p].next = drain[p].now]
       \/ /\ drain[p].attempt < MaxAttempts /\ now < MaxTime
          /\ drain' = [drain EXCEPT ![p].pc = "complete", ![p].result = "retry-scheduled",
                                    ![p].next = now + 1]
    /\ UNCHANGED <<slotVars, now, item, first, producer>>

(* complete: an item that is running, whoever holds it.  If the statement  *)
(* fails the tick ends and the item stays running.                         *)
Complete(p) ==
    /\ Ticking(p, "complete")
    /\ LET i == drain[p].item
       IN \/ /\ item' = IF item[i].status = "running"
                          THEN [item EXCEPT ![i].status = drain[p].result,
                                            ![i].available = drain[p].next]
                          ELSE item
             /\ drain' = [drain EXCEPT ![p] = [NoTick EXCEPT !.pc = "next",
                                                             !.now = drain[p].now,
                                                             !.todo = drain[p].todo]]
             /\ UNCHANGED <<proc, faults>>
          \/ TickEnds(p) /\ Fault /\ UNCHANGED item
    /\ UNCHANGED <<beat, now, first, producer>>

TickDone(p) ==
    /\ Ticking(p, "next") /\ drain[p].todo = {}
    /\ TickEnds(p)
    /\ UNCHANGED <<beat, faults, now, item, first, producer>>

TickStep(p) ==
    \/ TickBeat(p) \/ List(p) \/ Claim(p) \/ LogClaim(p) \/ Handle(p) \/ Complete(p)
    \/ TickDone(p)

-----------------------------------------------------------------------------
(* The replicas.  A slot that is claimed starts a tick.                    *)
GetsSlot(p) ==
    /\ SlotClaimed(p) /\ StartTick(p)
    /\ UNCHANGED <<now, item, first, producer>>

ClaimStep(p) ==
    \/ GetsSlot(p)
    \/ (SlotHeld(p) \/ ClaimFails(p)) /\ UNCHANGED workVars

Starts(p) == StartRuntime(p) /\ UNCHANGED workVars
Timer(p) == TimerFires(p) /\ UNCHANGED workVars
Stopped(p) == MarkStopped(p) /\ UNCHANGED workVars
Stale(s) == GoesStale(s) /\ UNCHANGED workVars

(* Replicas are stopped, or die, but never all of them.                    *)
OthersRemain(p) == \E q \in Processes \ {p} : proc[q].life \in {"off", "up"}

Stops(p) ==
    /\ OthersRemain(p) /\ Stop(p, drain[p].pc # "idle")
    /\ UNCHANGED workVars

Dies(p) ==
    /\ OthersRemain(p) \/ proc[p].life # "up"
    /\ Exit(p)
    /\ UNCHANGED workVars

TimePasses ==
    /\ now < MaxTime /\ now' = now + 1
    /\ UNCHANGED <<slotVars, item, first, producer, drain>>

Next ==
    \/ \E i \in Items : Record(i) \/ AppendAccepted(i)
    \/ \E p \in Processes :
          \/ Starts(p) \/ Timer(p) \/ ClaimStep(p) \/ TickStep(p)
          \/ Stops(p) \/ Stopped(p) \/ Dies(p)
    \/ \E s \in Slots : Stale(s)
    \/ TimePasses

(* What runs keeps running: the timers, the statements of a claim or a     *)
(* tick, the handlers, a stop; a process that has stopped ends; time       *)
(* passes, and a heartbeat that nobody renews gets old.                    *)
Fairness ==
    /\ \A p \in Processes :
          /\ WF_vars(Starts(p)) /\ WF_vars(Timer(p)) /\ WF_vars(ClaimStep(p))
          /\ WF_vars(TickStep(p)) /\ WF_vars(Stopped(p))
          /\ WF_vars(proc[p].life = "stopped" /\ Dies(p))
    /\ \A s \in Slots : WF_vars(Stale(s))
    /\ WF_vars(TimePasses)

Spec == Init /\ [][Next]_vars
FairSpec == Spec /\ Fairness

-----------------------------------------------------------------------------
(* An item is in the hands of one tick at most, and that tick's claim is   *)
(* the latest one: no other replica has claimed, completed or rescheduled  *)
(* the item since (ADR-082: the durable state prevents duplicate           *)
(* execution).                                                             *)
ClaimIsExclusive ==
    /\ \A p \in Processes : drain[p].item # None =>
          /\ item[drain[p].item].status = "running"
          /\ item[drain[p].item].attempts = drain[p].attempt
    /\ \A p, q \in Processes : drain[p].item # None /\ drain[q].item = drain[p].item => p = q

(* The queue as its producers and handlers see it: an item is in the hands *)
(* of the live replica whose tick has claimed it, and an item that is      *)
(* running with no such replica is lost.                                   *)
Hands(i) == {p \in Processes : Live(p) /\ drain[p].item = i}

Place(i) ==
    CASE item[i].status \in Claimables -> "waiting"
      [] item[i].status \in Settled -> "settled"
      [] item[i].status = "running" -> IF Hands(i) = {} THEN "lost" ELSE "taken"
      [] OTHER -> "absent"

Queue == INSTANCE WorkQueue
           WITH Workers <- Processes,
                place <- [i \in Items |-> Place(i)], hands <- [i \in Items |-> Hands(i)]

(* Whatever several replicas have listed, and however they are stopped,    *)
(* killed or let down by a statement, an item is handed to one replica at a*)
(* time, only that one settles it or puts it back, a settled item stays so,*)
(* and an item whose replica is lost is never handed out again.            *)
ImplementsQueue == Queue!Spec

(* While heartbeats are in time, a replica that has not been told to stop  *)
(* drains only with a slot of its own: the slots bound the replicas at work*)
(* even when they are started, stopped and killed all the time.            *)
DrainsWithSlot ==
    \A p \in Processes :
        faults = 0 /\ proc[p].life = "up" /\ drain[p].pc # "idle"
            => \E s \in Slots : beat[s].owner = p

(* Work that is pending or due for a retry is taken up in the end: replicas*)
(* that are stopped or die are replaced by one that remains.               *)
DueWorkIsTaken ==
    \A i \in Items : item[i].status \in Claimables ~> item[i].status \notin Claimables

(* async-lifecycle-and-acceptance.md: an error answer of a command means   *)
(* that the request was not accepted, so no worker executes it.  The code  *)
(* does not do so (README, section 5).                                     *)
RefusedIsNotExecuted ==
    \A i \in Items : producer[i] = "refused" => item[i].status = "absent"
=============================================================================
