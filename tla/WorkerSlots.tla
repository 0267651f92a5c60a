---------------------------- MODULE WorkerSlots ----------------------------
(***************************************************************************)
(* The worker slots of a standalone durable work runtime.  Replicas compete*)
(* for the numbered slots of one worker group through the heartbeat table: *)
(* every interval a replica tries slot 1, 2, ... with one upsert each and  *)
(* keeps the first it gets; a slot whose heartbeat is three intervals old  *)
(* may be taken over.  The table has two keys: the upsert resolves a       *)
(* conflict on (worker_group, slot), and worker_id, the primary key, then  *)
(* refuses a replica that has a row in another slot.                       *)
(* A replica that is started again has new ids: it is another process.     *)
(***************************************************************************)
EXTENDS Integers, FiniteSets

CONSTANTS
    Processes,   (* worker replicas: worker id and lease owner id          *)
    SlotCount,   (* topology.expectedWorkerCount                           *)
    MaxFaults,   (* bound: stalls and failed statements of a behaviour     *)
    None         (* no row, no lease owner                                 *)

ASSUME WorkerSlotsAssumption ==
    SlotCount \in Nat \ {0} /\ MaxFaults \in Nat /\ None \notin Processes

VARIABLES
    beat,    (* durable_worker_heartbeats: the row of each slot            *)
    proc,    (* each replica: its life, the slot its claim is trying (0: no*)
             (* claim in flight) and the slot of leasedWorker (0: none)    *)
    faults   (* how many stalls and failed statements there were           *)

slotVars == <<beat, proc, faults>>

Slots == 1..SlotCount

(* fresh: last_seen_at is not before staleBefore.                          *)
Row == [worker : Processes \cup {None}, owner : Processes \cup {None},
        online : BOOLEAN, fresh : BOOLEAN]
NoRow == [worker |-> None, owner |-> None, online |-> FALSE, fresh |-> FALSE]

Lives == {"off", "up", "draining", "stopping", "stopped", "gone"}
Process == [life : Lives, try : 0..SlotCount, leased : 0..SlotCount]

SlotsTypeOK ==
    /\ beat \in [Slots -> Row]
    /\ proc \in [Processes -> Process]
    /\ faults \in 0..MaxFaults

SlotsInit ==
    /\ beat = [s \in Slots |-> NoRow]
    /\ proc = [p \in Processes |-> [life |-> "off", try |-> 0, leased |-> 0]]
    /\ faults = 0

Fault == faults < MaxFaults /\ faults' = faults + 1

Live(p) == proc[p].life \notin {"off", "gone"}

-----------------------------------------------------------------------------
(* The upserts of the heartbeat store.                                     *)
HasOtherRow(p, s) == \E t \in Slots \ {s} : beat[t].worker = p

Own(p, s) == beat[s].owner = p \/ beat[s].worker = p

(* Mutant: a claim overwrites whatever the slot holds.                     *)
ClaimableAlways(p, s) == TRUE

(* Mutant: a slot is not taken over from a replica that is gone.           *)
ClaimableNotStale(p, s) ==
    beat[s].worker = None \/ Own(p, s) \/ ~beat[s].online

(* claimWorkerSlot: the slot has no row, or the WHERE of its DO UPDATE.    *)
Claimable(p, s) ==
    beat[s].worker = None \/ Own(p, s) \/ ~beat[s].online \/ ~beat[s].fresh

(* recordHeartbeat does not look at last_seen_at.                          *)
Beatable(p, s) == beat[s].worker = None \/ Own(p, s) \/ ~beat[s].online

Upsert(p, s) ==
    beat' = [beat EXCEPT ![s] = [worker |-> p, owner |-> p, online |-> TRUE, fresh |-> TRUE]]

-----------------------------------------------------------------------------
(* The replica.  start() claims at once; then a timer does, while no claim *)
(* is in flight.                                                           *)
StartRuntime(p) ==
    /\ proc[p].life = "off"
    /\ proc' = [proc EXCEPT ![p].life = "up", ![p].try = 1]
    /\ UNCHANGED <<beat, faults>>

TimerFires(p) ==
    /\ proc[p].life = "up" /\ proc[p].try = 0
    /\ proc' = [proc EXCEPT ![p].try = 1]
    /\ UNCHANGED <<beat, faults>>

(* The slot is claimed; leasedWorker keeps the slot it was first given,    *)
(* since the worker id is the same for every slot.                         *)
SlotClaimed(p) ==
    /\ Live(p) /\ proc[p].try # 0
    /\ Claimable(p, proc[p].try) /\ ~HasOtherRow(p, proc[p].try)
    /\ Upsert(p, proc[p].try)
    /\ proc' = [proc EXCEPT ![p].try = 0,
                            ![p].leased = IF @ = 0 THEN proc[p].try ELSE @]
    /\ UNCHANGED faults

(* Mutant: the loop runs one slot too far.                                 *)
SlotHeldTooFar(p) ==
    /\ Live(p) /\ proc[p].try # 0 /\ ~Claimable(p, proc[p].try)
    /\ proc' = [proc EXCEPT ![p].try = IF @ > SlotCount THEN 0 ELSE @ + 1]
    /\ UNCHANGED <<beat, faults>>

(* Zero rows: on to the next slot, or lease_unavailable.                   *)
SlotHeld(p) ==
    /\ Live(p) /\ proc[p].try # 0 /\ ~Claimable(p, proc[p].try)
    /\ proc' = [proc EXCEPT ![p].try = IF @ = SlotCount THEN 0 ELSE @ + 1]
    /\ UNCHANGED <<beat, faults>>

(* lease_failed: the primary key, or a statement that fails, ends the      *)
(* claim; no tick is started.                                              *)
ClaimFails(p) ==
    /\ Live(p) /\ proc[p].try # 0
    /\ IF Claimable(p, proc[p].try) /\ HasOtherRow(p, proc[p].try) THEN UNCHANGED faults
                                                                   ELSE Fault
    /\ proc' = [proc EXCEPT ![p].try = 0]
    /\ UNCHANGED beat

(* recordHeartbeat of a tick, for the slot of leasedWorker; an error is    *)
(* only logged.                                                            *)
Heartbeat(p) ==
    /\ LET s == proc[p].leased
       IN IF Beatable(p, s) /\ ~HasOtherRow(p, s) THEN Upsert(p, s) ELSE UNCHANGED beat
    /\ UNCHANGED <<proc, faults>>

-----------------------------------------------------------------------------
(* stop() clears the timers, waits for the tick that is active, if any, and*)
(* marks the slot stopped.  It does not wait for a claim in flight.        *)
Stop(p, ticking) ==
    /\ proc[p].life = "up"
    /\ proc' = [proc EXCEPT ![p].life = IF ticking THEN "draining" ELSE "stopping"]
    /\ UNCHANGED <<beat, faults>>

MarkStopped(p) ==
    /\ proc[p].life = "stopping"
    /\ proc' = [proc EXCEPT ![p].life = "stopped"]
    /\ beat' = [s \in Slots |->
                  IF proc[p].leased # 0 /\ beat[s].worker = p /\ beat[s].owner = p
                    THEN [beat[s] EXCEPT !.owner = None, !.online = FALSE, !.fresh = TRUE]
                    ELSE beat[s]]
    /\ UNCHANGED faults

(* The process ends, stopped or not.                                       *)
Exit(p) ==
    /\ Live(p)
    /\ proc' = [proc EXCEPT ![p].life = "gone"]
    /\ UNCHANGED <<beat, faults>>

(* Three intervals without a heartbeat: the process is gone, or it stalled.*)
GoesStale(s) ==
    /\ beat[s].online /\ beat[s].fresh
    /\ beat' = [beat EXCEPT ![s].fresh = FALSE]
    /\ IF proc[beat[s].worker].life = "gone" THEN UNCHANGED faults ELSE Fault
    /\ UNCHANGED proc
=============================================================================
