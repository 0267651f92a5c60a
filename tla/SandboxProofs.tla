--------------------------- MODULE SandboxProofs ---------------------------
(***************************************************************************)
(* Sandbox for any callers, requests, attempts and faults: the types, that *)
(* the handle fits the status, and that a paused sandbox nobody but the    *)
(* idle suspend has paused keeps its image.  The second needs that every   *)
(* copy of the row a call or the tick has in hand fits as well, stale or   *)
(* not: a whole row is written back.  The third needs that, as long as only*)
(* resumptions and the maintenance tick run, one call is in flight at most,*)
(* and the row shows how far it is.                                        *)
(***************************************************************************)
EXTENDS Sandbox, TLAPS

Underway == {"save", "provider", "complete"}

(* What a call knows of the handle in the copy it goes on with.            *)
Expects(op, place, r) ==
    place \in Underway =>
        /\ op = "reconcile" => r.handle = "none"
        /\ op = "pause" => r.handle = "container"
        /\ op = "resume" => r.handle = "image"

CallFits(c) == HandleFits(c.copy) /\ HandleFits(c.seen) /\ Expects(c.op, c.at, c.copy)

CallsFit ==
    /\ call \in [Actors -> CallRecords]
    /\ \A a \in Actors : CallFits(call[a])

IInv == TypeOK /\ HandleFitsStatus /\ CallsFit /\ HandleFits(tick.copy)

-----------------------------------------------------------------------------
(* The transitions of the aggregate, field by field.                       *)
LEMMA TransitionsAreTyped ==
  ASSUME NEW r \in Rows
  PROVE  /\ StartProvisioning(r) \in Rows
         /\ StartProvisioning(r).status = "provisioning" /\ StartProvisioning(r).handle = r.handle
         /\ MarkReady(r) \in Rows
         /\ MarkReady(r).status = "ready" /\ MarkReady(r).handle = "container"
         /\ MarkFailed(r) \in Rows
         /\ MarkFailed(r).status = "failed" /\ MarkFailed(r).handle = r.handle
         /\ RequestPause(r) \in Rows
         /\ RequestPause(r).status = "pausing" /\ RequestPause(r).handle = r.handle
         /\ MarkPaused(r) \in Rows
         /\ MarkPaused(r).status = "paused" /\ MarkPaused(r).handle = "image"
         /\ MarkPauseFailed(r) \in Rows
         /\ MarkPauseFailed(r).status = "ready" /\ MarkPauseFailed(r).handle = r.handle
         /\ RequestResume(r) \in Rows
         /\ RequestResume(r).status = "resuming" /\ RequestResume(r).handle = r.handle
         /\ MarkResumeFailed(r) \in Rows
         /\ MarkResumeFailed(r).status = "paused" /\ MarkResumeFailed(r).handle = r.handle
         /\ RequestTermination(r) \in Rows
         /\ RequestTermination(r).status = "terminating"
         /\ RequestTermination(r).handle = r.handle
         /\ MarkTerminated(r) \in Rows
         /\ MarkTerminated(r).status = "terminated" /\ MarkTerminated(r).handle = "none"
         /\ Expire(r) \in Rows
         /\ Expire(r).status = "expired" /\ Expire(r).handle = "none"
<1> USE DEF Rows, Statuses, Transitions, Terminal, Handles
<1>1. StartProvisioning(r) \in Rows /\ StartProvisioning(r).status = "provisioning"
      /\ StartProvisioning(r).handle = r.handle
  <2>1. ASSUME NEW n \in Nat
        PROVE  LET q == [r EXCEPT !.status = "provisioning", !.attempts = n]
               IN  q \in Rows /\ q.status = "provisioning" /\ q.handle = r.handle
    OBVIOUS
  <2>2. StartProvisioning(r) = [r EXCEPT !.status = "provisioning",
                                         !.attempts = r.attempts + 1]
    BY Zenon DEF StartProvisioning
  <2>3. r.attempts + 1 \in Nat
    OBVIOUS
  <2> QED
    BY <2>1, <2>2, <2>3, Zenon
<1>2. MarkReady(r) \in Rows /\ MarkReady(r).status = "ready" /\ MarkReady(r).handle = "container"
  BY DEF MarkReady
<1>3. MarkFailed(r) \in Rows /\ MarkFailed(r).status = "failed" /\ MarkFailed(r).handle = r.handle
  BY DEF MarkFailed
<1>4. RequestPause(r) \in Rows /\ RequestPause(r).status = "pausing"
      /\ RequestPause(r).handle = r.handle
  BY DEF RequestPause
<1>5. MarkPaused(r) \in Rows /\ MarkPaused(r).status = "paused" /\ MarkPaused(r).handle = "image"
  BY DEF MarkPaused
<1>6. MarkPauseFailed(r) \in Rows /\ MarkPauseFailed(r).status = "ready"
      /\ MarkPauseFailed(r).handle = r.handle
  BY DEF MarkPauseFailed
<1>7. RequestResume(r) \in Rows /\ RequestResume(r).status = "resuming"
      /\ RequestResume(r).handle = r.handle
  BY DEF RequestResume
<1>8. MarkResumeFailed(r) \in Rows /\ MarkResumeFailed(r).status = "paused"
      /\ MarkResumeFailed(r).handle = r.handle
  BY DEF MarkResumeFailed
<1>9. RequestTermination(r) \in Rows /\ RequestTermination(r).status = "terminating"
      /\ RequestTermination(r).handle = r.handle
  BY DEF RequestTermination
<1>10. MarkTerminated(r) \in Rows /\ MarkTerminated(r).status = "terminated"
       /\ MarkTerminated(r).handle = "none"
  BY DEF MarkTerminated
<1>11. Expire(r) \in Rows /\ Expire(r).status = "expired" /\ Expire(r).handle = "none"
  BY DEF Expire
<1> QED
  BY <1>1, <1>2, <1>3, <1>4, <1>5, <1>6, <1>7, <1>8, <1>9, <1>10, <1>11

LEMMA NoRowFits == NoRow \in Rows /\ HandleFits(NoRow) /\ Idle \in CallRecords
  BY DEF NoRow, Idle, Rows, HandleFits, Statuses, Transitions, Terminal, Handles, CallRecords,
         Operations, Places

(* What they make of the handle, if it fits what they start from.          *)
LEMMA TransitionsFit ==
  ASSUME NEW r \in Rows, HandleFits(r)
  PROVE  /\ r.status \in {"requested", "failed"} =>
               HandleFits(StartProvisioning(r)) /\ StartProvisioning(r).handle = "none"
         /\ r.status = "ready" =>
               HandleFits(RequestPause(r)) /\ RequestPause(r).handle = "container"
         /\ r.status = "paused" =>
               HandleFits(RequestResume(r)) /\ RequestResume(r).handle = "image"
         /\ r.handle = "none" => HandleFits(MarkFailed(r))
         /\ r.handle = "container" => HandleFits(MarkPauseFailed(r))
         /\ r.handle = "image" => HandleFits(MarkResumeFailed(r))
         /\ HandleFits(MarkReady(r)) /\ HandleFits(MarkPaused(r))
         /\ HandleFits(RequestTermination(r))
         /\ HandleFits(MarkTerminated(r)) /\ HandleFits(Expire(r))
  BY TransitionsAreTyped DEF HandleFits, Terminal

-----------------------------------------------------------------------------
(* What the ways to move a call do to the calls.                           *)
LEMMA CallEnters ==
  ASSUME CallsFit, NEW a \in Actors, NEW op \in Operations, NEW place \in Places,
         NEW r \in Rows, HandleFits(r), Expects(op, place, r), Enter(a, op, place, r)
  PROVE  CallsFit'
<1>1. [op |-> op, at |-> place, copy |-> r, seen |-> NoRow] \in CallRecords
  BY NoRowFits DEF CallRecords
<1>2. CallFits([op |-> op, at |-> place, copy |-> r, seen |-> NoRow])
  BY NoRowFits DEF CallFits
<1> QED
  BY <1>1, <1>2 DEF CallsFit, Enter

LEMMA CallGoesOn ==
  ASSUME CallsFit, NEW a \in Actors, NEW place \in Places, NEW r \in Rows,
         HandleFits(r), Expects(call[a].op, place, r), GoOn(a, place, r)
  PROVE  CallsFit'
<1> DEFINE c == [call[a] EXCEPT !.at = place, !.copy = r]
<1>1. call[a] \in CallRecords /\ CallFits(call[a])
  BY DEF CallsFit
<1>2. c \in CallRecords /\ c.op = call[a].op /\ c.at = place /\ c.copy = r
      /\ c.seen = call[a].seen
  BY <1>1 DEF CallRecords
<1>3. CallFits(c)
  BY <1>1, <1>2 DEF CallFits
<1>4. call' = [call EXCEPT ![a] = c]
  BY DEF GoOn, CallsFit
<1> HIDE DEF c
<1> QED
  BY <1>2, <1>3, <1>4 DEF CallsFit

LEMMA CallReturns ==
  ASSUME CallsFit, NEW a \in Actors, Return(a)
  PROVE  CallsFit'
<1>1. CallFits(Idle)
  BY NoRowFits DEF CallFits, Expects, Idle, Underway
<1> QED
  BY <1>1, NoRowFits DEF CallsFit, Return

(* The steps that wait in ready().                                         *)
LEMMA CallWaits ==
  ASSUME CallsFit, NEW a \in Actors, NEW place \in {"expire", "expired"},
         NEW s \in Rows, HandleFits(s),
         \/ call' = [call EXCEPT ![a].at = place, ![a].seen = s]
         \/ s = call[a].seen /\ call' = [call EXCEPT ![a].at = place]
         \/ \E op \in Operations :
              call' = [call EXCEPT ![a] = [Idle EXCEPT !.op = op, !.at = place, !.seen = s]]
  PROVE  CallsFit'
<1>1. call[a] \in CallRecords /\ CallFits(call[a])
  BY DEF CallsFit
<1>2. PICK c \in CallRecords : /\ c.at = place /\ c.seen = s
                               /\ c.copy \in {call[a].copy, NoRow}
                               /\ call' = [call EXCEPT ![a] = c]
  <2>1. CASE call' = [call EXCEPT ![a].at = place, ![a].seen = s]
    <3> DEFINE c == [call[a] EXCEPT !.at = place, !.seen = s]
    <3>1. c \in CallRecords /\ c.at = place /\ c.seen = s /\ c.copy = call[a].copy
      BY <1>1 DEF CallRecords, Places
    <3>2. call' = [call EXCEPT ![a] = c]
      BY <2>1 DEF CallsFit
    <3> HIDE DEF c
    <3> QED
      BY <3>1, <3>2
  <2>2. CASE s = call[a].seen /\ call' = [call EXCEPT ![a].at = place]
    <3> DEFINE c == [call[a] EXCEPT !.at = place]
    <3>1. c \in CallRecords /\ c.at = place /\ c.seen = s /\ c.copy = call[a].copy
      BY <1>1, <2>2 DEF CallRecords, Places
    <3>2. call' = [call EXCEPT ![a] = c]
      BY <2>2 DEF CallsFit
    <3> HIDE DEF c
    <3> QED
      BY <3>1, <3>2
  <2>3. ASSUME NEW op \in Operations,
               call' = [call EXCEPT ![a] = [Idle EXCEPT !.op = op, !.at = place, !.seen = s]]
        PROVE  \E c \in CallRecords : /\ c.at = place /\ c.seen = s
                                      /\ c.copy \in {call[a].copy, NoRow}
                                      /\ call' = [call EXCEPT ![a] = c]
    <3> DEFINE c == [Idle EXCEPT !.op = op, !.at = place, !.seen = s]
    <3>1. c \in CallRecords /\ c.at = place /\ c.seen = s /\ c.copy = NoRow
      BY NoRowFits DEF CallRecords, Places, Idle
    <3> HIDE DEF c
    <3> QED
      BY <2>3, <3>1 DEF c
  <2> QED
    BY <2>1, <2>2, <2>3
<1>3. CallFits(c)
  BY <1>1, <1>2, NoRowFits DEF CallFits, Expects, Underway
<1> QED
  BY <1>2, <1>3 DEF CallsFit

LEMMA FaultIsCounted ==
  ASSUME SandboxAssumption, TypeOK, Fault
  PROVE  faults' \in 0..MaxFaults
  BY DEF SandboxAssumption, TypeOK, Fault

-----------------------------------------------------------------------------
(* How each operation begins.                                              *)
LEMMA CallsBegin ==
  ASSUME IInv, NEW a \in Actors,
         Reconcile(a) \/ Resume(a) \/ Terminate(a) \/ Pause(a) \/ UpdateNetworkPolicy(a)
  PROVE  CallsFit'
<1> USE DEF Operations, Places, Expects, Underway
<1>1. row \in Rows /\ HandleFits(row) /\ CallsFit
  BY DEF IInv, TypeOK, HandleFitsStatus
<1>2. CASE Reconcile(a)
  BY <1>1, <1>2, TransitionsAreTyped, TransitionsFit, CallEnters DEF Reconcile
<1>3. CASE Resume(a)
  BY <1>1, <1>3, TransitionsAreTyped, TransitionsFit, CallEnters DEF Resume
<1>4. CASE Terminate(a)
  BY <1>1, <1>4, CallEnters DEF Terminate
<1>5. CASE Pause(a)
  <2>1. CASE ~past /\ row.status = "ready" /\ Enter(a, "pause", "save", RequestPause(row))
    BY <1>1, <2>1, TransitionsAreTyped, TransitionsFit, CallEnters
  <2>2. CASE call' = [call EXCEPT ![a] = [Idle EXCEPT !.op = "pause", !.at = "expire",
                                                      !.seen = row]]
    BY <1>1, <2>2, CallWaits
  <2> QED
    BY <1>5, <2>1, <2>2 DEF Pause, WithReady
<1>6. CASE UpdateNetworkPolicy(a)
  <2>1. CASE ~past /\ row.status = "ready" /\ Enter(a, "network", "provider", row)
    BY <1>1, <2>1, CallEnters
  <2>2. CASE call' = [call EXCEPT ![a] = [Idle EXCEPT !.op = "network", !.at = "expire",
                                                      !.seen = row]]
    BY <1>1, <2>2, CallWaits
  <2> QED
    BY <1>6, <2>1, <2>2 DEF UpdateNetworkPolicy, WithReady
<1> QED
  BY <1>2, <1>3, <1>4, <1>5, <1>6

LEMMA DeniedFits ==
  ASSUME IInv, NEW a \in Actors, Denied(a)
  PROVE  CallsFit'
<1>1. CallsFit /\ call[a].copy \in Rows /\ HandleFits(call[a].copy)
  BY DEF IInv, CallsFit, CallFits, CallRecords
<1>2. CASE Enter(a, "terminate", "save", RequestTermination(call[a].copy))
  BY <1>1, <1>2, TransitionsAreTyped, TransitionsFit, CallEnters
     DEF Operations, Places, Expects
<1>3. CASE Return(a)
  BY <1>1, <1>3, CallReturns
<1> QED
  BY <1>2, <1>3 DEF Denied

(* The steps of a call.                                                    *)
LEMMA StepsFit ==
  ASSUME SandboxAssumption, IInv, NEW a \in Actors, Step(a)
  PROVE  IInv'
<1> DEFINE c == call[a]
           r == call[a].copy
<1> USE DEF Places, Expects, Underway, At
<1>1. /\ CallsFit /\ c \in CallRecords /\ CallFits(c)
      /\ r \in Rows /\ HandleFits(r) /\ c.seen \in Rows /\ HandleFits(c.seen)
      /\ row \in Rows /\ HandleFits(row)
  BY DEF IInv, TypeOK, HandleFitsStatus, CallsFit, CallFits, CallRecords
<1>2. Expects(c.op, c.at, r)
  BY <1>1 DEF CallFits
<1> DEFINE T == /\ MarkReady(r) \in Rows /\ MarkFailed(r) \in Rows /\ MarkPaused(r) \in Rows
                /\ MarkPauseFailed(r) \in Rows /\ MarkResumeFailed(r) \in Rows
                /\ RequestTermination(r) \in Rows /\ MarkTerminated(r) \in Rows
                /\ Expire(r) \in Rows
           F == /\ r.handle = "none" => HandleFits(MarkFailed(r))
                /\ r.handle = "container" => HandleFits(MarkPauseFailed(r))
                /\ r.handle = "image" => HandleFits(MarkResumeFailed(r))
                /\ HandleFits(MarkReady(r)) /\ HandleFits(MarkPaused(r))
                /\ HandleFits(RequestTermination(r))
                /\ HandleFits(MarkTerminated(r)) /\ HandleFits(Expire(r))
<1>3. T /\ F
  BY <1>1, TransitionsAreTyped, TransitionsFit
<1>4. ASSUME NEW q \in Rows, HandleFits(q), GoOn(a, "record", q)
      PROVE  CallsFit'
  BY <1>1, <1>4, CallGoesOn
<1>5. ASSUME NEW place \in Underway, c.at \in Underway, GoOn(a, place, r)
      PROVE  CallsFit'
  BY <1>1, <1>2, <1>5, CallGoesOn
<1>6. Return(a) => CallsFit'
  BY <1>1, CallReturns
<1>7. Fault => faults' \in 0..MaxFaults
  BY FaultIsCounted DEF IInv
<1>8. SUFFICES /\ row' \in Rows /\ HandleFits(row')
               /\ host' \subseteq {"container", "image"}
               /\ CallsFit'
               /\ faults' \in 0..MaxFaults
  <2>1. UNCHANGED <<past, tick, calm>>
        /\ abandoned' \subseteq abandoned \cup {"template"}
    BY DEF Step, BeginReconcile, AccessTerminate, ExpireRuntime, SaveExpired, Save, Record,
           TemplateFails, Provision, Provisioned, Capture, Release, Recreate, Restore, ApplyNetwork,
           RemoveRuntime
  <2> QED
    BY <2>1 DEF IInv, TypeOK, HandleFitsStatus, CallsFit
<1>9. host \subseteq {"container", "image"} /\ faults \in 0..MaxFaults
  BY DEF IInv, TypeOK
<1> HIDE DEF T, F
<1>10. CASE BeginReconcile(a)
  BY <1>1, <1>6, <1>9, <1>10, CallsBegin DEF BeginReconcile
<1>11. CASE AccessTerminate(a)
  <2>1. ASSUME call' = [call EXCEPT ![a].at = "expire", ![a].seen = row]
       PROVE  CallsFit'
    BY <1>1, <2>1, CallWaits
  <2>2. ASSUME GoOn(a, "save", RequestTermination(r))
       PROVE  CallsFit'
    BY <1>1, <1>3, <1>11, <2>2, CallGoesOn DEF AccessTerminate, T, F
  <2>3. ASSUME Return(a)
       PROVE  CallsFit'
    BY <1>6, <2>3
  <2> QED
    BY <1>1, <1>7, <1>9, <1>11, <2>1, <2>2, <2>3 DEF AccessTerminate
<1>12. CASE ExpireRuntime(a)
  <2>1. ASSUME call' = [call EXCEPT ![a].at = "expired"]
       PROVE  CallsFit'
    BY <1>1, <2>1, CallWaits
  <2>2. ASSUME Denied(a)
       PROVE  CallsFit'
    BY <2>2, DeniedFits
  <2> QED
    BY <1>1, <1>7, <1>9, <1>12, <2>1, <2>2 DEF ExpireRuntime
<1>13. CASE SaveExpired(a)
  <2>1. Expire(c.seen) \in Rows /\ HandleFits(Expire(c.seen))
    BY <1>1, TransitionsAreTyped, TransitionsFit
  <2> QED
    BY <1>9, <1>13, <2>1, DeniedFits DEF SaveExpired
<1>14. CASE Save(a)
  <2>1. ASSUME GoOn(a, "record", MarkTerminated(r))
       PROVE  CallsFit'
    BY <1>3, <1>4, <2>1 DEF T, F
  <2>2. ASSUME GoOn(a, "provider", r)
       PROVE  CallsFit'
    BY <1>5, <1>14, <2>2 DEF Save
  <2> QED
    BY <1>1, <1>9, <1>14, <2>1, <2>2 DEF Save
<1>15. CASE Record(a)
  BY <1>1, <1>6, <1>9, <1>15 DEF Record
<1>16. CASE Provision(a)
  <2>1. r.handle = "none"
    BY <1>2, <1>16 DEF Provision
  <2>2. ASSUME GoOn(a, "complete", r)
       PROVE  CallsFit'
    BY <1>5, <1>16, <2>2 DEF Provision
  <2>3. ASSUME GoOn(a, "record", MarkFailed(r))
       PROVE  CallsFit'
    BY <1>3, <1>4, <2>1, <2>3 DEF T, F
  <2> QED
    BY <1>1, <1>7, <1>9, <1>16, <2>2, <2>3 DEF Provision, ContainerGone
<1>24. CASE TemplateFails(a)
  BY <1>1, <1>6, <1>7, <1>9, <1>24 DEF TemplateFails
<1>17. CASE Provisioned(a)
  <2>1. r.handle = "none"
    BY <1>2, <1>17 DEF Provisioned
  <2>2. CallsFit'
    BY <1>3, <1>4, <1>17, <2>1 DEF Provisioned, T, F
  <2> QED
    BY <1>1, <1>9, <1>17, <2>2 DEF Provisioned
<1>18. CASE Capture(a)
  <2>1. r.handle = "container"
    BY <1>2, <1>18 DEF Capture
  <2>2. ASSUME GoOn(a, "complete", r)
       PROVE  CallsFit'
    BY <1>5, <1>18, <2>2 DEF Capture
  <2>3. ASSUME GoOn(a, "record", MarkPauseFailed(r))
       PROVE  CallsFit'
    BY <1>3, <1>4, <2>1, <2>3 DEF T, F
  <2> QED
    BY <1>1, <1>7, <1>9, <1>18, <2>2, <2>3 DEF Capture
<1>19. CASE Release(a)
  <2>1. r.handle = "container"
    BY <1>2, <1>19 DEF Release
  <2>2. CallsFit'
    BY <1>3, <1>4, <1>19, <2>1 DEF Release, T, F
  <2> QED
    BY <1>1, <1>7, <1>9, <1>19, <2>2 DEF Release, ContainerGone
<1>20. CASE Recreate(a)
  <2>1. r.handle = "image"
    BY <1>2, <1>20 DEF Recreate
  <2>2. ASSUME GoOn(a, "complete", r)
       PROVE  CallsFit'
    BY <1>5, <1>20, <2>2 DEF Recreate
  <2>3. ASSUME GoOn(a, "record", MarkResumeFailed(r))
       PROVE  CallsFit'
    BY <1>3, <1>4, <2>1, <2>3 DEF T, F
  <2> QED
    BY <1>1, <1>7, <1>9, <1>20, <2>2, <2>3 DEF Recreate, ContainerGone
<1>21. CASE Restore(a)
  <2>1. r.handle = "image"
    BY <1>2, <1>21 DEF Restore
  <2>2. CallsFit'
    BY <1>3, <1>4, <1>21, <2>1 DEF Restore, T, F
  <2> QED
    BY <1>1, <1>7, <1>9, <1>21, <2>2 DEF Restore, ContainerGone
<1>22. CASE ApplyNetwork(a)
  <2>1. CallsFit'
    BY <1>1, <1>4, <1>6, <1>22 DEF ApplyNetwork
  <2> QED
    BY <1>1, <1>7, <1>9, <1>22, <2>1 DEF ApplyNetwork
<1>23. CASE RemoveRuntime(a)
  <2>1. ASSUME GoOn(a, "record", IF c.op = "expire" THEN Expire(r) ELSE MarkTerminated(r))
       PROVE  CallsFit'
    BY <1>3, <1>4, <2>1 DEF T, F
  <2>2. ASSUME Return(a)
       PROVE  CallsFit'
    BY <1>6, <2>2
  <2> QED
    BY <1>1, <1>7, <1>9, <1>23, <2>1, <2>2 DEF RemoveRuntime
<1> QED
  BY <1>10, <1>11, <1>12, <1>13, <1>14, <1>15, <1>16, <1>17, <1>18, <1>19, <1>20, <1>21,
     <1>22, <1>23, <1>24 DEF Step

(* The steps of the maintenance tick.                                      *)
LEMMA SweepFits ==
  ASSUME SandboxAssumption, IInv, Sweep
  PROVE  IInv'
<1> DEFINE r == tick.copy
           Ticks == [at : {"idle", "listed", "claims", "sweep", "orphan"},
                     copy : Rows, late : BOOLEAN]
<1>1. /\ CallsFit /\ Maintenance \in Actors /\ tick \in Ticks
      /\ r \in Rows /\ HandleFits(r) /\ row \in Rows /\ HandleFits(row)
      /\ NoRow \in Rows /\ HandleFits(NoRow)
  BY NoRowFits DEF IInv, TypeOK, HandleFitsStatus, Actors
<1>2. host \subseteq {"container", "image"} /\ faults \in 0..MaxFaults
      /\ past \in BOOLEAN /\ calm \in BOOLEAN
  BY DEF IInv, TypeOK
<1>3. SUFFICES /\ host' \subseteq {"container", "image"}
               /\ CallsFit'
               /\ tick' \in Ticks /\ HandleFits(tick'.copy)
               /\ calm' \in BOOLEAN
               /\ faults' \in 0..MaxFaults
  <2>1. UNCHANGED <<row, past, abandoned>>
    BY DEF Sweep, ListForMaintenance, Maintain, ReadClaims, ReadInventory, RemoveOrphan
  <2> QED
    BY <2>1 DEF IInv, TypeOK, HandleFitsStatus, CallsFit
<1>4. UNCHANGED call => CallsFit'
  BY <1>1 DEF CallsFit
<1>5. CASE ListForMaintenance
  BY <1>1, <1>2, <1>4, <1>5 DEF ListForMaintenance
<1>6. CASE Maintain
  <2>1. ASSUME ExpireCandidate(r)
        PROVE  CallsFit'
    <3>1. Expire(r) \in Rows /\ HandleFits(Expire(r))
      BY <1>1, TransitionsAreTyped, TransitionsFit
    <3> QED
      BY <1>1, <2>1, <3>1, CallEnters
         DEF ExpireCandidate, Operations, Places, Expects
  <2>2. ASSUME Reconcile(Maintenance) \/ Pause(Maintenance)
        PROVE  CallsFit'
    BY <1>1, <2>2, CallsBegin
  <2>3. ASSUME Enter(Maintenance, "remove", "provider", r)
        PROVE  CallsFit'
    BY <1>1, <2>3, CallEnters DEF Operations, Places, Expects
  <2>4. CallsFit'
    BY <1>4, <1>6, <2>1, <2>2, <2>3 DEF Maintain
  <2> QED
    BY <1>1, <1>2, <1>6, <2>4 DEF Maintain
<1>7. CASE ReadClaims
  BY <1>1, <1>2, <1>4, <1>7 DEF ReadClaims
<1>8. CASE ReadInventory
  BY <1>1, <1>2, <1>4, <1>8 DEF ReadInventory
<1>9. CASE RemoveOrphan
  <2>1. faults' \in 0..MaxFaults
    BY <1>2, <1>9, FaultIsCounted DEF RemoveOrphan, IInv
  <2> QED
    BY <1>1, <1>2, <1>4, <1>9, <2>1 DEF RemoveOrphan, ContainerGone
<1> QED
  BY <1>5, <1>6, <1>7, <1>8, <1>9 DEF Sweep

LEMMA InitFits ==
  ASSUME SandboxAssumption, Init
  PROVE  IInv
<1>1. call \in [Actors -> CallRecords] /\ \A a \in Actors : CallFits(call[a])
  <2>1. CallFits(Idle)
    BY NoRowFits DEF CallFits, Expects, Idle, Underway
  <2> DEFINE d == [Idle EXCEPT !.op = "reconcile"]
  <2>2. d \in CallRecords
    BY NoRowFits DEF CallRecords, Operations, Places, Idle
  <2>3. CallFits(d)
    BY NoRowFits DEF CallFits, Expects, Idle, Underway
  <2>4. \/ call = [a \in Actors |-> Idle]
        \/ \E c \in Callers : call = [a \in Actors |-> IF a = c THEN d ELSE Idle]
    BY DEF Init
  <2> HIDE DEF d
  <2>5. CASE call = [a \in Actors |-> Idle]
    BY <2>1, <2>5, NoRowFits
  <2>6. ASSUME NEW c \in Callers, call = [a \in Actors |-> IF a = c THEN d ELSE Idle]
        PROVE  call \in [Actors -> CallRecords] /\ \A a \in Actors : CallFits(call[a])
    <3>1. \A a \in Actors : call[a] \in {d, Idle}
      BY <2>6
    <3>2. call \in [Actors -> CallRecords]
      BY <2>2, <2>6, NoRowFits
    <3>3. \A a \in Actors : CallFits(call[a])
      BY <2>1, <2>3, <3>1
    <3> QED
      BY <3>2, <3>3
  <2> QED
    BY <2>4, <2>5, <2>6
<1>2. calm \in BOOLEAN
  <2>1. calm = (call = [a \in Actors |-> Idle])
    BY DEF Init
  <2> QED
    BY <2>1, Zenon
<1>3. row = NoRow /\ host = {} /\ past = FALSE /\ abandoned = {} /\ faults = 0
      /\ tick = [at |-> "idle", copy |-> NoRow, late |-> FALSE]
  BY DEF Init
<1>4. abandoned \subseteq {"crash", "template"} /\ faults \in 0..MaxFaults
  BY <1>3 DEF SandboxAssumption
<1>5. /\ tick \in [at : {"idle", "listed", "claims", "sweep", "orphan"},
                   copy : Rows, late : BOOLEAN]
      /\ tick.copy = NoRow
  BY <1>3, NoRowFits
<1>6. TypeOK
  BY <1>1, <1>2, <1>3, <1>4, <1>5, NoRowFits, Zenon DEF TypeOK
<1> QED
  BY <1>1, <1>3, <1>5, <1>6, NoRowFits, Zenon DEF IInv, HandleFitsStatus, CallsFit

LEMMA IInvIsKept ==
  ASSUME SandboxAssumption, IInv, [Next]_vars
  PROVE  IInv'
<1>1. ASSUME NEW c \in Callers, NEW op \in Requests[c], Ask(c, op)
      PROVE  IInv'
  <2>1. c \in Actors
    BY DEF Actors
  <2>2. CallsFit'
    BY <1>1, <2>1, CallsBegin DEF Ask
  <2> QED
    BY <1>1, <2>2 DEF Ask, IInv, TypeOK, HandleFitsStatus, CallsFit
<1>2. ASSUME NEW a \in Actors, Step(a)
      PROVE  IInv'
  BY <1>2, StepsFit
<1>3. CASE Sweep
  BY <1>3, SweepFits
<1>4. CASE TtlPasses
  BY <1>4 DEF TtlPasses, IInv, TypeOK, HandleFitsStatus, CallsFit
<1>5. CASE Crash
  <2>1. CallFits(Idle)
    BY NoRowFits DEF CallFits, Expects, Idle, Underway
  <2>2. CallsFit'
    BY <1>5, <2>1, NoRowFits DEF Crash, CallsFit
  <2>3. faults' \in 0..MaxFaults /\ abandoned' \subseteq {"crash", "template"}
    BY <1>5, FaultIsCounted DEF Crash, IInv, TypeOK, SandboxAssumption
  <2> QED
    BY <1>5, <2>2, <2>3, NoRowFits DEF Crash, IInv, TypeOK, HandleFitsStatus, CallsFit
<1>6. CASE UNCHANGED vars
  BY <1>6 DEF vars, IInv, TypeOK, HandleFitsStatus, CallsFit
<1> QED
  BY <1>1, <1>2, <1>3, <1>4, <1>5, <1>6 DEF Next

-----------------------------------------------------------------------------
LEMMA IInvHolds == ASSUME SandboxAssumption PROVE Spec => []IInv
<1>1. Init => IInv
  BY InitFits
<1>2. IInv /\ [Next]_vars => IInv'
  BY IInvIsKept
<1> QED
  BY <1>1, <1>2, PTL DEF Spec

(* The row, the copies of it the calls and the tick have in hand, and what *)
(* Docker holds stay within their types, for any callers, requests and     *)
(* faults (ExecutionSandboxService and its maintenance).                   *)
THEOREM SandboxIsTyped == Spec => []TypeOK
<1>1. IInv => TypeOK
  BY DEF IInv
<1> QED
  BY <1>1, IInvHolds, SandboxAssumption, PTL

(* Whatever order calls, ticks and crashes write their stale copies in, the*)
(* handle of the row names what its status says there is: what saveSandbox *)
(* writes without condition was consistent when it was made.               *)
THEOREM HandleAlwaysFits == Spec => []HandleFitsStatus
<1>1. IInv => HandleFitsStatus
  BY DEF IInv
<1> QED
  BY <1>1, IInvHolds, SandboxAssumption, PTL

-----------------------------------------------------------------------------
(* While only resumptions and the idle suspend touch the sandbox the one   *)
(* call in flight is told by the row, and where it is tells what Docker    *)
(* holds.                                                                  *)
From(op) == CASE op = "reconcile" -> {"requested", "failed"}
              [] op = "pause" -> {"ready"}
              [] op = "resume" -> {"paused"}
              [] OTHER -> {}
During(op) == CASE op = "reconcile" -> {"provisioning"}
                [] op = "pause" -> {"pausing"}
                [] op = "resume" -> {"resuming"}
                [] OTHER -> {}

Lasting(r) == r.status \notin Terminal \cup {"terminating"}

Image == "image" \in host

Follows(a, c) ==
    /\ c.op \in {"reconcile", "pause", "resume"}
    /\ c.op = "resume" \/ a = Maintenance
    /\ c.at \in {"save", "provider", "complete", "record"}
    /\ c.at = "save" => row.status \in From(c.op)
    /\ c.at # "save" => row.status \in During(c.op)
    /\ c.at # "record" => c.copy.status \in During(c.op)
    /\ c.at = "record" => c.copy.status \in {"ready", "failed", "paused"}
    /\ c.at = "record" /\ c.copy.status = "paused" => Image
    /\ c.op = "pause" /\ c.at = "complete" => Image
    /\ c.op = "resume" /\ c.at \in {"provider", "complete"} => Image

OneCall == \A a, b \in Actors : call[a] # Idle /\ call[b] # Idle => a = b

TickWaits ==
    /\ tick.at # "claims" => call[Maintenance] = Idle
    /\ tick.late => past

CalmInv ==
    calm => /\ OneCall /\ PausedHasRecovery
            /\ Lasting(row) /\ Lasting(tick.copy)
            /\ \A a \in Actors : call[a] = Idle \/ Follows(a, call[a])

(* What the ways to move a call make of it, and that they move no other.   *)
LEMMA MovesAreSeen ==
  ASSUME call \in [Actors -> CallRecords], NEW a \in Actors
  PROVE  /\ \A place, r : GoOn(a, place, r) =>
               /\ call'[a].op = call[a].op /\ call'[a].at = place /\ call'[a].copy = r
               /\ \A b \in Actors \ {a} : call'[b] = call[b]
         /\ \A op, place, r : Enter(a, op, place, r) =>
               /\ call'[a].op = op /\ call'[a].at = place /\ call'[a].copy = r
               /\ \A b \in Actors \ {a} : call'[b] = call[b]
         /\ Return(a) =>
               call'[a] = Idle /\ \A b \in Actors \ {a} : call'[b] = call[b]
<1>1. ASSUME NEW place, NEW r, GoOn(a, place, r)
      PROVE  /\ call'[a].op = call[a].op /\ call'[a].at = place /\ call'[a].copy = r
             /\ \A b \in Actors \ {a} : call'[b] = call[b]
  <2> DEFINE c == [call[a] EXCEPT !.at = place, !.copy = r]
  <2>1. c.op = call[a].op /\ c.at = place /\ c.copy = r
    BY DEF CallRecords
  <2>2. call' = [call EXCEPT ![a] = c]
    BY <1>1 DEF GoOn
  <2> HIDE DEF c
  <2> QED
    BY <2>1, <2>2
<1>2. ASSUME NEW op, NEW place, NEW r, Enter(a, op, place, r)
      PROVE  /\ call'[a].op = op /\ call'[a].at = place /\ call'[a].copy = r
             /\ \A b \in Actors \ {a} : call'[b] = call[b]
  BY <1>2 DEF Enter
<1>3. ASSUME Return(a)
      PROVE  call'[a] = Idle /\ \A b \in Actors \ {a} : call'[b] = call[b]
  BY <1>3 DEF Return
<1> QED
  BY <1>1, <1>2, <1>3

(* A step of a call is of a call in flight and touches no other.           *)
LEMMA StepMovesOne ==
  ASSUME call \in [Actors -> CallRecords], NEW a \in Actors, Step(a)
  PROVE  call[a] # Idle /\ \A b \in Actors \ {a} : call'[b] = call[b]
<1>1. call[a] # Idle
  BY DEF Step, BeginReconcile, AccessTerminate, ExpireRuntime, SaveExpired, Save, Record,
         TemplateFails, Provision, Provisioned, Capture, Release, Recreate, Restore, ApplyNetwork,
         RemoveRuntime, At, Idle
<1> DEFINE Same == \A b \in Actors \ {a} : call'[b] = call[b]
<1>2. /\ \A place, r : GoOn(a, place, r) => Same
      /\ \A op, place, r : Enter(a, op, place, r) => Same
      /\ Return(a) => Same
  BY MovesAreSeen
<1>3. Denied(a) => Same
  BY <1>2 DEF Denied
<1>4. BeginReconcile(a) => Same
  BY <1>2 DEF BeginReconcile, Reconcile
<1>5. AccessTerminate(a) => Same
  BY <1>2 DEF AccessTerminate
<1>6. ExpireRuntime(a) \/ SaveExpired(a) => Same
  BY <1>3 DEF ExpireRuntime, SaveExpired
<1>7. Save(a) \/ Record(a) => Same
  BY <1>2 DEF Save, Record
<1>8. TemplateFails(a) \/ Provision(a) \/ Provisioned(a) => Same
  BY <1>2 DEF TemplateFails, Provision, Provisioned
<1>9. Capture(a) \/ Release(a) => Same
  BY <1>2 DEF Capture, Release
<1>10. Recreate(a) \/ Restore(a) => Same
  BY <1>2 DEF Recreate, Restore
<1>11. ApplyNetwork(a) \/ RemoveRuntime(a) => Same
  BY <1>2 DEF ApplyNetwork, RemoveRuntime
<1> HIDE DEF Same
<1>12. Same
  BY <1>4, <1>5, <1>6, <1>7, <1>8, <1>9, <1>10, <1>11 DEF Step
<1> QED
  BY <1>1, <1>12 DEF Same

LEMMA TickWaitsIsKept ==
  ASSUME SandboxAssumption, TypeOK, TickWaits, [Next]_vars
  PROVE  TickWaits'
<1> USE DEF TickWaits
<1>1. ASSUME NEW c \in Callers, NEW op \in Requests[c], Ask(c, op)
      PROVE  TickWaits'
  <2>1. c \in Actors /\ Maintenance \in Actors \ {c}
    BY DEF Actors, SandboxAssumption
  <2>2. call'[Maintenance] = call[Maintenance]
    BY <1>1, <2>1 DEF Ask, Resume, Terminate, Pause, UpdateNetworkPolicy, WithReady, Enter, TypeOK
  <2> QED
    BY <1>1, <2>2 DEF Ask
<1>2. ASSUME NEW a \in Actors, Step(a)
      PROVE  TickWaits'
  <2>1. UNCHANGED <<past, tick>>
    BY <1>2 DEF Step, BeginReconcile, AccessTerminate, ExpireRuntime, SaveExpired, Save, Record,
           TemplateFails, Provision, Provisioned, Capture, Release, Recreate, Restore, ApplyNetwork,
           RemoveRuntime
  <2>2. call[a] # Idle /\ \A b \in Actors \ {a} : call'[b] = call[b]
    BY <1>2, StepMovesOne DEF TypeOK
  <2> QED
    BY <2>1, <2>2 DEF Actors
<1>3. CASE Sweep
  <2>1. CASE ListForMaintenance
    BY <2>1 DEF ListForMaintenance, TypeOK
  <2>2. CASE Maintain
    BY <2>2 DEF Maintain
  <2>3. CASE ReadClaims
    BY <2>3 DEF ReadClaims, TypeOK
  <2>4. CASE ReadInventory
    BY <2>4 DEF ReadInventory, TypeOK
  <2>5. CASE RemoveOrphan
    BY <2>5 DEF RemoveOrphan, TypeOK
  <2> QED
    BY <1>3, <2>1, <2>2, <2>3, <2>4, <2>5 DEF Sweep
<1>4. CASE TtlPasses
  BY <1>4 DEF TtlPasses
<1>5. CASE Crash
  BY <1>5 DEF Crash, Actors
<1>6. CASE UNCHANGED vars
  BY <1>6 DEF vars
<1> QED
  BY <1>1, <1>2, <1>3, <1>4, <1>5, <1>6 DEF Next

(* A step of the one call in flight, while calm.                           *)
LEMMA StepsStayCalm ==
  ASSUME SandboxAssumption, TypeOK, CalmInv, NEW a \in Actors, Step(a)
  PROVE  CalmInv'
<1> DEFINE c == call[a]
           r == call[a].copy
<1>1. UNCHANGED <<tick, calm>>
  BY DEF Step, BeginReconcile, AccessTerminate, ExpireRuntime, SaveExpired, Save, Record,
         TemplateFails, Provision, Provisioned, Capture, Release, Recreate, Restore, ApplyNetwork,
         RemoveRuntime
<1>2. CASE ~calm
  BY <1>1, <1>2 DEF CalmInv
<1>3. CASE calm
  <2>1. c # Idle /\ \A b \in Actors \ {a} : call'[b] = call[b]
    BY StepMovesOne DEF TypeOK
  <2>2. Follows(a, c) /\ PausedHasRecovery /\ Lasting(row) /\ Lasting(tick.copy)
    BY <1>3, <2>1 DEF CalmInv
  <2>3. \A b \in Actors \ {a} : call'[b] = Idle
    BY <1>3, <2>1 DEF CalmInv, OneCall
  <2>4. OneCall'
    BY <2>3 DEF OneCall
  <2>5. SUFFICES /\ Lasting(row')
                 /\ row'.status = "paused" => Image'
                 /\ call'[a] = Idle \/ Follows(a, call[a])'
    BY <1>1, <2>2, <2>3, <2>4 DEF CalmInv, PausedHasRecovery, Lasting, Image
  <2>6. /\ \A place, q : GoOn(a, place, q) =>
              call'[a].op = c.op /\ call'[a].at = place /\ call'[a].copy = q
        /\ Return(a) => call'[a] = Idle
    BY MovesAreSeen DEF TypeOK
  <2>7. /\ MarkReady(r).status = "ready" /\ MarkFailed(r).status = "failed"
        /\ MarkPaused(r).status = "paused" /\ MarkPauseFailed(r).status = "ready"
        /\ MarkResumeFailed(r).status = "paused"
    BY TransitionsAreTyped DEF TypeOK, CallRecords
  <2>8. /\ c.op \in {"reconcile", "pause", "resume"}
        /\ c.op = "resume" \/ a = Maintenance
        /\ c.at \in {"save", "provider", "complete", "record"}
        /\ c.at = "save" => row.status \in From(c.op)
        /\ c.at # "save" => row.status \in During(c.op)
        /\ c.at # "record" => r.status \in During(c.op)
        /\ c.at = "record" => r.status \in {"ready", "failed", "paused"}
        /\ c.at = "record" /\ r.status = "paused" => Image
        /\ c.op = "pause" /\ c.at = "complete" => Image
        /\ c.op = "resume" /\ c.at \in {"provider", "complete"} => Image
        /\ row.status = "paused" => Image
        /\ Lasting(row)
    BY <1>3, <2>2 DEF Follows, PausedHasRecovery, Image
  <2> HIDE DEF c, r
  <2> USE DEF Follows, From, During, Lasting, Terminal, Image, ContainerGone
  <2>9. ~BeginReconcile(a) /\ ~AccessTerminate(a) /\ ~ExpireRuntime(a) /\ ~SaveExpired(a)
        /\ ~ApplyNetwork(a) /\ ~RemoveRuntime(a)
    BY <2>8 DEF BeginReconcile, AccessTerminate, ExpireRuntime, SaveExpired, ApplyNetwork,
                RemoveRuntime, At, c
  <2>10. CASE Save(a)
    <3>1. c.at = "save" /\ row' = r /\ host' = host /\ GoOn(a, "provider", r)
      BY <2>8, <2>10 DEF Save, c, r
    <3> QED
      BY <2>6, <2>8, <3>1
  <2>11. CASE Record(a)
    <3>1. c.at = "record" /\ row' = r /\ host' = host /\ Return(a)
      BY <2>11 DEF Record, c, r
    <3> QED
      BY <2>6, <2>8, <3>1
  <2>12. CASE Provision(a)
    <3>1. /\ c.op = "reconcile" /\ c.at = "provider" /\ row' = row
          /\ "image" \in host' <=> "image" \in host
          /\ GoOn(a, "complete", r) \/ GoOn(a, "record", MarkFailed(r))
      BY <2>12 DEF Provision, At, c, r
    <3> QED
      BY <2>6, <2>7, <2>8, <3>1
  <2>18. CASE TemplateFails(a)
    <3>1. row' = row /\ host' = host /\ Return(a)
      BY <2>18 DEF TemplateFails
    <3> QED
      BY <2>6, <2>8, <3>1
  <2>13. CASE Provisioned(a)
    <3>1. /\ c.op = "reconcile" /\ c.at = "complete" /\ row' = row /\ host' = host
          /\ GoOn(a, "record", MarkReady(r)) \/ GoOn(a, "record", MarkFailed(r))
      BY <2>13 DEF Provisioned, At, c, r
    <3> QED
      BY <2>6, <2>7, <2>8, <3>1
  <2>14. CASE Capture(a)
    <3>1. /\ c.op = "pause" /\ c.at = "provider" /\ row' = row
          /\ \/ "image" \in host' /\ GoOn(a, "complete", r)
             \/ host' = host /\ GoOn(a, "record", MarkPauseFailed(r))
      BY <2>14 DEF Capture, At, c, r
    <3> QED
      BY <2>6, <2>7, <2>8, <3>1
  <2>15. CASE Release(a)
    <3>1. /\ c.op = "pause" /\ c.at = "complete" /\ row' = row
          /\ \/ host' = host \ {"container"} /\ GoOn(a, "record", MarkPaused(r))
             \/ GoOn(a, "record", MarkPauseFailed(r))
      BY <2>15 DEF Release, At, c, r
    <3> QED
      BY <2>6, <2>7, <2>8, <3>1
  <2>16. CASE Recreate(a)
    <3>1. /\ c.op = "resume" /\ c.at = "provider" /\ row' = row
          /\ "image" \in host' <=> "image" \in host
          /\ GoOn(a, "complete", r) \/ GoOn(a, "record", MarkResumeFailed(r))
      BY <2>16 DEF Recreate, At, c, r
    <3> QED
      BY <2>6, <2>7, <2>8, <3>1
  <2>17. CASE Restore(a)
    <3>1. /\ c.op = "resume" /\ c.at = "complete" /\ row' = row
          /\ \/ GoOn(a, "record", MarkReady(r))
             \/ host' = host \ {"container"} /\ GoOn(a, "record", MarkResumeFailed(r))
      BY <2>17 DEF Restore, At, c, r
    <3> QED
      BY <2>6, <2>7, <2>8, <3>1
  <2> QED
    BY <2>9, <2>10, <2>11, <2>12, <2>13, <2>14, <2>15, <2>16, <2>17, <2>18 DEF Step
<1> QED
  BY <1>2, <1>3 DEF TypeOK

(* While calm a call begins when no other is in flight.                    *)
LEMMA BeginsAlone ==
  ASSUME SandboxAssumption, TypeOK, CalmInv, calm, NEW a \in Actors,
         \/ a # Maintenance /\ Resume(a)
         \/ /\ a = Maintenance /\ call[a] = Idle
            /\ Reconcile(a) \/ (~past /\ Pause(a))
  PROVE  /\ OneCall' /\ \A b \in Actors : call'[b] = Idle \/ b = a
         /\ row.status = "paused" => call'[a].op = "resume"
         /\ call'[a].at = "save" /\ call'[a].op \in {"reconcile", "pause", "resume"}
         /\ call'[a].op = "resume" \/ a = Maintenance
         /\ row.status \in From(call'[a].op)
         /\ call'[a].copy.status \in During(call'[a].op)
<1>1. \A b \in Actors : call[b] = Idle \/ Follows(b, call[b])
  BY DEF CalmInv
<1>2. row \in Rows /\ call \in [Actors -> CallRecords]
  BY DEF TypeOK
<1>3. /\ StartProvisioning(row).status = "provisioning"
      /\ RequestPause(row).status = "pausing" /\ RequestResume(row).status = "resuming"
  BY <1>2, TransitionsAreTyped
<1>4. \A op, place, r : Enter(a, op, place, r) =>
        /\ call'[a].op = op /\ call'[a].at = place /\ call'[a].copy = r
        /\ \A b \in Actors \ {a} : call'[b] = call[b]
  BY <1>2, MovesAreSeen
<1>5. CASE Resume(a)
  <2>1. /\ row.status = "paused" /\ Enter(a, "resume", "save", RequestResume(row))
        /\ \A b \in Actors : call[b].op # "resume"
    BY <1>5 DEF Resume
  <2>2. \A b \in Actors : call[b] = Idle
    BY <1>1, <2>1 DEF Follows, From, During
  <2> QED
    BY <1>3, <1>4, <2>1, <2>2 DEF OneCall, From, During
<1>6. CASE a = Maintenance /\ call[a] = Idle /\ (Reconcile(a) \/ (~past /\ Pause(a)))
  <2>1. \/ row.status \in {"requested", "failed"}
           /\ Enter(a, "reconcile", "save", StartProvisioning(row))
        \/ row.status = "ready" /\ Enter(a, "pause", "save", RequestPause(row))
    BY <1>6 DEF Reconcile, Pause, WithReady
  <2>2. \A b \in Actors : call[b] = Idle
    BY <1>1, <1>6, <2>1 DEF Follows, From, During
  <2> QED
    BY <1>3, <1>4, <1>6, <2>1, <2>2 DEF OneCall, From, During
<1> QED
  BY <1>5, <1>6

LEMMA CalmInvIsKept ==
  ASSUME SandboxAssumption, TypeOK, TickWaits, CalmInv, [Next]_vars
  PROVE  CalmInv'
<1>1. ASSUME NEW a \in Actors, calm, UNCHANGED <<row, host, tick>>,
             a # Maintenance, Resume(a)
      PROVE  /\ OneCall' /\ PausedHasRecovery' /\ Lasting(row')
             /\ \A b \in Actors : call'[b] = Idle \/ Follows(b, call[b])'
  <2>1. PausedHasRecovery' /\ Lasting(row')
    BY <1>1 DEF CalmInv, PausedHasRecovery, Lasting
  <2>2. /\ OneCall' /\ \A b \in Actors : call'[b] = Idle \/ b = a
        /\ call'[a].at = "save" /\ call'[a].op \in {"reconcile", "pause", "resume"}
        /\ call'[a].op = "resume" \/ a = Maintenance
        /\ row.status \in From(call'[a].op)
        /\ call'[a].copy.status \in During(call'[a].op)
    BY <1>1, BeginsAlone
  <2>3. Follows(a, call[a])'
    BY <1>1, <2>2 DEF Follows
  <2> QED
    BY <2>1, <2>2, <2>3
<1>2. ASSUME NEW c \in Callers, NEW op \in Requests[c], Ask(c, op)
      PROVE  CalmInv'
  <2>1. CASE ~calm'
    BY <2>1 DEF CalmInv
  <2>2. CASE calm'
    <3>1. calm /\ Resume(c) /\ UNCHANGED <<row, host, tick>>
      BY <1>2, <2>2 DEF Ask
    <3>2. c \in Actors /\ c # Maintenance
      BY DEF Actors, SandboxAssumption
    <3> QED
      BY <1>1, <3>1, <3>2 DEF CalmInv
  <2> QED
    BY <2>1, <2>2
<1>3. ASSUME NEW a \in Actors, Step(a)
      PROVE  CalmInv'
  BY <1>3, StepsStayCalm
<1>4. ASSUME UNCHANGED <<row, call>>, "image" \in host => "image" \in host',
             calm' => calm, calm' => Lasting(tick'.copy)
      PROVE  CalmInv'
  BY <1>4 DEF CalmInv, OneCall, PausedHasRecovery, Lasting, Follows, Image
<1>5. Lasting(NoRow)
  BY DEF Lasting, NoRow, Terminal
<1>6. CASE Sweep
  <2>1. CASE ListForMaintenance
    <3>1. calm => Lasting(tick'.copy)
      BY <2>1 DEF ListForMaintenance, CalmInv, TypeOK, Lasting
    <3> QED
      BY <1>4, <2>1, <3>1 DEF ListForMaintenance
  <2>2. CASE Maintain
    <3>1. CASE ~calm'
      BY <3>1 DEF CalmInv
    <3>2. CASE calm'
      <4>1. /\ calm /\ ~past /\ ~tick.late /\ UNCHANGED <<row, host>>
            /\ call[Maintenance] = Idle /\ tick'.copy = NoRow
        BY <2>2, <3>2 DEF Maintain, TickWaits, TypeOK
      <4>2. tick.copy.status # "terminating"
        BY <4>1 DEF CalmInv, Lasting
      <4>3. Reconcile(Maintenance) \/ (~past /\ Pause(Maintenance)) \/ UNCHANGED call
        BY <2>2, <4>1, <4>2 DEF Maintain, Finishable
      <4>4. CASE UNCHANGED call
        BY <1>4, <1>5, <4>1, <4>4
      <4>5. CASE Reconcile(Maintenance) \/ (~past /\ Pause(Maintenance))
        <5>1. Maintenance \in Actors
          BY DEF Actors
        <5>2. /\ OneCall' /\ \A b \in Actors : call'[b] = Idle \/ b = Maintenance
              /\ row.status = "paused" => call'[Maintenance].op = "resume"
              /\ call'[Maintenance].at = "save"
              /\ call'[Maintenance].op \in {"reconcile", "pause", "resume"}
              /\ row.status \in From(call'[Maintenance].op)
              /\ call'[Maintenance].copy.status \in During(call'[Maintenance].op)
          BY <4>1, <4>5, <5>1, BeginsAlone
        <5>3. Follows(Maintenance, call[Maintenance])'
          BY <4>1, <5>2 DEF Follows
        <5> QED
          BY <1>5, <4>1, <5>2, <5>3 DEF CalmInv, PausedHasRecovery, Lasting
      <4> QED
        BY <4>3, <4>4, <4>5
    <3> QED
      BY <3>1, <3>2
  <2>3. CASE ReadClaims
    <3>1. calm => Lasting(tick'.copy)
      BY <2>3 DEF ReadClaims, CalmInv, TypeOK
    <3> QED
      BY <1>4, <2>3, <3>1 DEF ReadClaims
  <2>4. CASE ReadInventory
    <3>1. tick'.copy = NoRow
      BY <2>4 DEF ReadInventory, TypeOK
    <3> QED
      BY <1>4, <1>5, <2>4, <3>1 DEF ReadInventory
  <2>5. CASE RemoveOrphan
    <3>1. calm => Lasting(tick'.copy)
      BY <2>5 DEF RemoveOrphan, CalmInv, TypeOK
    <3> QED
      BY <1>4, <2>5, <3>1 DEF RemoveOrphan, ContainerGone
  <2> QED
    BY <1>6, <2>1, <2>2, <2>3, <2>4, <2>5 DEF Sweep
<1>7. CASE TtlPasses
  BY <1>4, <1>7 DEF TtlPasses, CalmInv
<1>8. CASE Crash
  <2>1. tick'.copy = NoRow /\ \A a \in Actors : call'[a] = Idle
    BY <1>8 DEF Crash
  <2> QED
    BY <1>5, <1>8, <2>1 DEF Crash, CalmInv, OneCall, PausedHasRecovery, Lasting
<1>9. CASE UNCHANGED vars
  BY <1>4, <1>9 DEF vars, CalmInv
<1> QED
  BY <1>2, <1>3, <1>6, <1>7, <1>8, <1>9 DEF Next

(* While nobody but the idle suspend pauses or ends it, a paused sandbox   *)
(* has the image its workspace is in, whatever fails or crashes between the*)
(* capture, the removal of the container and the writes of the row.        *)
THEOREM PausedIsRecoverable == Spec => []PausedHasRecovery
<1>1. Init => TickWaits /\ CalmInv
  <2>1. ASSUME Init
        PROVE  TickWaits
    <3>1. Maintenance \in Actors /\ Maintenance \notin Callers
      BY SandboxAssumption DEF Actors
    <3>2. call[Maintenance] = Idle
      BY <2>1, <3>1 DEF Init
    <3> QED
      BY <2>1, <3>2 DEF Init, TickWaits
  <2>2. ASSUME Init, calm
        PROVE  call = [a \in Actors |-> Idle]
    BY <2>2, Zenon DEF Init
  <2>3. ASSUME Init
        PROVE  CalmInv
    BY <2>2, <2>3 DEF Init, CalmInv, OneCall, PausedHasRecovery, Lasting, NoRow, Terminal
  <2> QED
    BY <2>1, <2>3
<1>2. TypeOK /\ TickWaits /\ CalmInv /\ [Next]_vars => TickWaits' /\ CalmInv'
  BY SandboxAssumption, TickWaitsIsKept, CalmInvIsKept
<1>3. CalmInv => PausedHasRecovery
  <2>1. CASE calm
    BY <2>1 DEF CalmInv
  <2>2. CASE ~calm
    BY <2>2 DEF PausedHasRecovery
  <2> QED
    BY <2>1, <2>2
<1> QED
  BY <1>1, <1>2, <1>3, SandboxIsTyped, PTL DEF Spec
=============================================================================
