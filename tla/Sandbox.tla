------------------------------ MODULE Sandbox ------------------------------
(***************************************************************************)
(* One execution sandbox: its row, its Docker container and its recovery   *)
(* image, the calls of ExecutionSandboxService on it and the maintenance   *)
(* tick that expires, reconciles, suspends and finishes it and then sweeps *)
(* the provider's inventory for orphans.  A call reads the row once, keeps *)
(* that copy over every await and writes the whole of it back: saveSandbox *)
(* is an unconditional upsert.                                             *)
(* An actor is a request or the maintenance tick.  Its call is between two *)
(* awaits: "begin" before the row is read, "access" before the second read *)
(* of terminate, "expire" and "expired" in ready() of a sandbox past its   *)
(* time to live, "save" before the first write, "provider" and "complete"  *)
(* in the two halves of the provider's operation, "record" before the last *)
(* write.                                                                  *)
(***************************************************************************)
EXTENDS Integers

CONSTANTS
    Callers,      (* requests on the sandbox                               *)
    Maintenance,  (* the tick of the maintenance runner                    *)
    Requests,     (* the operations each caller asks for                   *)
    MaxAttempts,  (* maxProvisionAttempts of maintain                      *)
    MaxFaults     (* bound: crashes and operations that fail               *)

ASSUME SandboxAssumption ==
    /\ Maintenance \notin Callers
    /\ Requests \in [Callers -> SUBSET {"pause", "resume", "network", "terminate"}]
    /\ MaxAttempts \in Nat /\ MaxFaults \in Nat

VARIABLES
    row,      (* the row of execution_sandboxes                            *)
    host,     (* what Docker holds under the sandbox's two names           *)
    past,     (* expiresAt is not after now                                *)
    call,     (* the call of each actor                                    *)
    tick,     (* how far the maintenance tick is                           *)
    calm,     (* history: nothing but resume was asked for, nothing expired*)
    abandoned,(* history: what has left an operation without its last write *)
    faults    (* history: how much has failed                             *)

vars == <<row, host, past, call, tick, calm, abandoned, faults>>

Actors == Callers \cup {Maintenance}

Transitions == {"provisioning", "pausing", "resuming", "terminating"}
Terminal == {"terminated", "expired"}
Statuses == {"requested", "ready", "paused", "failed"} \cup Transitions \cup Terminal
Handles == {"none", "container", "image"}

Rows == [status : Statuses, handle : Handles, attempts : Nat]
Operations == {"none", "reconcile", "pause", "resume", "network", "terminate",
               "expire", "remove"}
Places == {"begin", "access", "expire", "expired", "save", "provider", "complete", "record"}

CallRecords == [op : Operations, at : Places, copy : Rows, seen : Rows]

NoRow == [status |-> "requested", handle |-> "none", attempts |-> 0]
Idle == [op |-> "none", at |-> "begin", copy |-> NoRow, seen |-> NoRow]

TypeOK ==
    /\ row \in Rows
    /\ host \subseteq {"container", "image"}
    /\ past \in BOOLEAN
    /\ call \in [Actors -> CallRecords]
    /\ tick \in [at : {"idle", "listed", "claims", "sweep", "orphan"},
                 copy : Rows, late : BOOLEAN]
    /\ calm \in BOOLEAN
    /\ abandoned \subseteq {"crash", "template"}
    /\ faults \in 0..MaxFaults

(* create() has saved the row; the external create goes on to reconcile.   *)
Init ==
    /\ row = NoRow
    /\ host = {}
    /\ past = FALSE
    /\ \/ call = [a \in Actors |-> Idle]
       \/ \E c \in Callers : call = [a \in Actors |->
                             IF a = c THEN [Idle EXCEPT !.op = "reconcile"] ELSE Idle]
    /\ tick = [at |-> "idle", copy |-> NoRow, late |-> FALSE]
    /\ calm = (call = [a \in Actors |-> Idle])
    /\ abandoned = {}
    /\ faults = 0

-----------------------------------------------------------------------------
(* Mutant: an attempt is counted down.                                     *)
StartProvisioningDown(r) == [r EXCEPT !.status = "provisioning", !.attempts = @ - 1]

(* The aggregate's transitions, each on the copy a call has in hand.       *)
StartProvisioning(r) == [r EXCEPT !.status = "provisioning", !.attempts = @ + 1]
MarkReady(r) == [r EXCEPT !.status = "ready", !.handle = "container"]
MarkFailed(r) == [r EXCEPT !.status = "failed"]
RequestPause(r) == [r EXCEPT !.status = "pausing"]

(* Mutant: the handle of the container that was removed is kept.           *)
MarkPausedKeeping(r) == [r EXCEPT !.status = "paused"]

MarkPaused(r) == [r EXCEPT !.status = "paused", !.handle = "image"]
MarkPauseFailed(r) == [r EXCEPT !.status = "ready"]
RequestResume(r) == [r EXCEPT !.status = "resuming"]
MarkResumeFailed(r) == [r EXCEPT !.status = "paused"]
RequestTermination(r) == [r EXCEPT !.status = "terminating"]
MarkTerminated(r) == [r EXCEPT !.status = "terminated", !.handle = "none"]
Expire(r) == [r EXCEPT !.status = "expired", !.handle = "none"]

At(a, op, place) == call[a].op = op /\ call[a].at = place

(* A call of a has read the row, or goes on to a place with r in hand, or  *)
(* returns.                                                                *)
Enter(a, op, place, r) ==
    call' = [call EXCEPT ![a] = [op |-> op, at |-> place, copy |-> r, seen |-> NoRow]]
GoOn(a, place, r) == call' = [call EXCEPT ![a].at = place, ![a].copy = r]
Return(a) == call' = [call EXCEPT ![a] = Idle]

Fault == faults < MaxFaults /\ faults' = faults + 1

-----------------------------------------------------------------------------
(* How each operation begins; one that the row it reads does not admit     *)
(* returns an error and changes nothing.                                   *)
Reconcile(a) ==
    row.status \in {"requested", "failed"} /\ Enter(a, "reconcile", "save", StartProvisioning(row))

(* Mutant: resume is not single flight.                                    *)
ResumeTwice(a) ==
    row.status = "paused" /\ row.handle # "none" /\ Enter(a, "resume", "save", RequestResume(row))

(* A second resume joins the one in flight.                                *)
Resume(a) ==
    /\ \A b \in Actors : call[b].op # "resume"
    /\ row.status = "paused" /\ row.handle # "none"
    /\ Enter(a, "resume", "save", RequestResume(row))

Terminate(a) == row.status \notin Terminal /\ Enter(a, "terminate", "access", row)

(* ready(): a sandbox past its time to live has its runtime removed first. *)
WithReady(a, op, place, r) ==
    /\ row.handle # "none"
    /\ \/ past /\ call' = [call EXCEPT ![a] = [Idle EXCEPT !.op = op, !.at = "expire", !.seen = row]]
       \/ ~past /\ row.status = "ready" /\ Enter(a, op, place, r)

Pause(a) == WithReady(a, "pause", "save", RequestPause(row))

UpdateNetworkPolicy(a) == WithReady(a, "network", "provider", row)

Ask(c, op) ==
    /\ call[c] = Idle
    /\ \/ op = "resume" /\ Resume(c) /\ UNCHANGED calm
       \/ op = "terminate" /\ Terminate(c) /\ calm' = FALSE
       \/ op = "pause" /\ Pause(c) /\ calm' = FALSE
       \/ op = "network" /\ UpdateNetworkPolicy(c) /\ calm' = FALSE
    /\ UNCHANGED <<row, host, past, tick, abandoned, faults>>

(* The external create reads back the row it has saved.                    *)
BeginReconcile(c) ==
    /\ At(c, "reconcile", "begin")
    /\ \/ Reconcile(c)
       \/ row.status \notin {"requested", "failed"} /\ Return(c)
    /\ UNCHANGED <<row, host, past, tick, calm, abandoned, faults>>

(* terminate calls ready() to clean up the runtime home; what it says is   *)
(* ignored, an error of the clean-up is not.                               *)
AccessTerminate(a) ==
    /\ At(a, "terminate", "access")
    /\ \/ /\ IF past /\ row.handle # "none"
               THEN call' = [call EXCEPT ![a].at = "expire", ![a].seen = row]
               ELSE GoOn(a, "save", RequestTermination(call[a].copy))
          /\ UNCHANGED faults
       \/ ~past /\ row.status = "ready" /\ Fault /\ Return(a)
    /\ UNCHANGED <<row, host, past, tick, calm, abandoned>>

(* Where ready() of an expired sandbox leaves its caller.                  *)
Denied(a) ==
    IF call[a].op = "terminate"
      THEN Enter(a, "terminate", "save", RequestTermination(call[a].copy))
      ELSE Return(a)

ExpireRuntime(a) ==
    /\ call[a].at = "expire"
    /\ \/ /\ host' = host \ {call[a].seen.handle}
          /\ call' = [call EXCEPT ![a].at = "expired"]
          /\ UNCHANGED faults
       \/ Fault /\ Denied(a) /\ UNCHANGED host
    /\ UNCHANGED <<row, past, tick, calm, abandoned>>

SaveExpired(a) ==
    /\ call[a].at = "expired"
    /\ row' = Expire(call[a].seen)
    /\ Denied(a)
    /\ UNCHANGED <<host, past, tick, calm, abandoned, faults>>

-----------------------------------------------------------------------------
(* The writes of a call.  A termination without a handle has no provider   *)
(* operation.                                                              *)
Save(a) ==
    /\ call[a].at = "save"
    /\ row' = call[a].copy
    /\ IF call[a].op = "terminate" /\ call[a].copy.handle = "none"
         THEN GoOn(a, "record", MarkTerminated(call[a].copy))
         ELSE GoOn(a, "provider", call[a].copy)
    /\ UNCHANGED <<host, past, tick, calm, abandoned, faults>>

Record(a) ==
    /\ call[a].at = "record"
    /\ row' = call[a].copy
    /\ Return(a)
    /\ UNCHANGED <<host, past, tick, calm, abandoned, faults>>

-----------------------------------------------------------------------------
(* The provider's operations, each cut where another one on the same names *)
(* can come between.  docker create refuses a name in use, and provision   *)
(* answers any error with docker rm -f on that name.                       *)
ContainerGone == host' = host \ {"container"}

Provision(a) ==
    /\ At(a, "reconcile", "provider")
    /\ \/ /\ "container" \notin host
          /\ host' = host \cup {"container"}
          /\ GoOn(a, "complete", call[a].copy)
          /\ UNCHANGED faults
       \/ /\ "container" \in host
          /\ ContainerGone
          /\ GoOn(a, "record", MarkFailed(call[a].copy))
          /\ UNCHANGED faults
       \/ /\ Fault
          /\ host' \in {host \ {"container"}, host \cup {"container"}}
          /\ GoOn(a, "record", MarkFailed(call[a].copy))
    /\ UNCHANGED <<row, past, tick, calm, abandoned>>

(* reconcile resolves the template between its first write and the         *)
(* provider: it returns the template's error as it is, neither marking the *)
(* row failed nor saving it.                                               *)
TemplateFails(a) ==
    /\ At(a, "reconcile", "provider")
    /\ Fault
    /\ Return(a)
    /\ abandoned' = abandoned \cup {"template"}
    /\ UNCHANGED <<row, host, past, tick, calm>>

(* The container must still be there to answer that it is ready.           *)
Provisioned(a) ==
    /\ At(a, "reconcile", "complete")
    /\ GoOn(a, "record", IF "container" \in host THEN MarkReady(call[a].copy)
                                                 ELSE MarkFailed(call[a].copy))
    /\ UNCHANGED <<row, host, past, tick, calm, abandoned, faults>>

(* pause captures the workspace as an image and then removes the container.*)
Capture(a) ==
    /\ At(a, "pause", "provider")
    /\ \/ /\ "container" \in host
          /\ host' = host \cup {"image"}
          /\ GoOn(a, "complete", call[a].copy)
          /\ UNCHANGED faults
       \/ /\ IF "container" \in host THEN Fault ELSE UNCHANGED faults
          /\ GoOn(a, "record", MarkPauseFailed(call[a].copy))
          /\ UNCHANGED host
    /\ UNCHANGED <<row, past, tick, calm, abandoned>>

Release(a) ==
    /\ At(a, "pause", "complete")
    /\ \/ /\ ContainerGone
          /\ GoOn(a, "record", MarkPaused(call[a].copy))
          /\ UNCHANGED faults
       \/ /\ Fault
          /\ host' = host \ {"image"}
          /\ GoOn(a, "record", MarkPauseFailed(call[a].copy))
    /\ UNCHANGED <<row, past, tick, calm, abandoned>>

(* resume needs the image, provisions a container, copies the workspace and*)
(* deletes the image; the image stays when it fails.                       *)
Recreate(a) ==
    /\ At(a, "resume", "provider")
    /\ \/ /\ "image" \in host /\ "container" \notin host
          /\ host' = host \cup {"container"}
          /\ GoOn(a, "complete", call[a].copy)
          /\ UNCHANGED faults
       \/ /\ IF "image" \in host THEN ContainerGone ELSE UNCHANGED host
          /\ IF "image" \in host /\ "container" \notin host THEN Fault ELSE UNCHANGED faults
          /\ GoOn(a, "record", MarkResumeFailed(call[a].copy))
    /\ UNCHANGED <<row, past, tick, calm, abandoned>>

Restore(a) ==
    /\ At(a, "resume", "complete")
    /\ \/ /\ host = {"container", "image"}
          /\ host' = {"container"}
          /\ GoOn(a, "record", MarkReady(call[a].copy))
          /\ UNCHANGED faults
       \/ /\ IF host = {"container", "image"} THEN Fault ELSE UNCHANGED faults
          /\ ContainerGone
          /\ GoOn(a, "record", MarkResumeFailed(call[a].copy))
    /\ UNCHANGED <<row, past, tick, calm, abandoned>>

(* updateNetworkPolicy reaches the container or returns the error.         *)
ApplyNetwork(a) ==
    /\ At(a, "network", "provider")
    /\ \/ "container" \in host /\ GoOn(a, "record", call[a].copy) /\ UNCHANGED faults
       \/ /\ IF "container" \in host THEN Fault ELSE UNCHANGED faults
          /\ Return(a)
    /\ UNCHANGED <<row, host, past, tick, calm, abandoned>>

(* provider.terminate removes what the handle of the copy names; it is     *)
(* idempotent.                                                             *)
RemoveRuntime(a) ==
    /\ call[a].op \in {"terminate", "expire", "remove"} /\ call[a].at = "provider"
    /\ \/ /\ host' = host \ {call[a].copy.handle}
          /\ GoOn(a, "record", IF call[a].op = "expire" THEN Expire(call[a].copy)
                                                        ELSE MarkTerminated(call[a].copy))
          /\ UNCHANGED faults
       \/ Fault /\ Return(a) /\ UNCHANGED host
    /\ UNCHANGED <<row, past, tick, calm, abandoned>>

(* What a call in flight does next.                                        *)
Step(a) ==
    \/ BeginReconcile(a) \/ AccessTerminate(a) \/ ExpireRuntime(a) \/ SaveExpired(a)
    \/ Save(a) \/ Record(a)
    \/ TemplateFails(a) \/ Provision(a) \/ Provisioned(a) \/ Capture(a) \/ Release(a)
    \/ Recreate(a) \/ Restore(a) \/ ApplyNetwork(a) \/ RemoveRuntime(a)

-----------------------------------------------------------------------------
(* The maintenance tick: the candidate is copied when the tick starts, and *)
(* so is the time it is judged by.                                         *)
ListForMaintenance ==
    /\ tick.at = "idle"
    /\ tick' = IF row.status \in Terminal
                 THEN [tick EXCEPT !.at = "claims"]
                 ELSE [at |-> "listed", copy |-> row, late |-> past]
    /\ UNCHANGED <<row, host, past, call, calm, abandoned, faults>>

(* What maintain does with its candidate: an expired one is removed and    *)
(* expired, a requested or failed one is reconciled, an idle one suspended,*)
(* one in terminating finished.                                            *)
ExpireCandidate(r) ==
    IF r.handle = "none" THEN Enter(Maintenance, "expire", "record", Expire(r))
                         ELSE Enter(Maintenance, "expire", "provider", r)

Retriable(r) == r.status \in {"requested", "failed"} /\ r.attempts < MaxAttempts

(* Mutant: a termination that was interrupted is left to its caller.       *)
FinishableNever(r) == FALSE

Finishable(r) == r.status = "terminating" /\ r.handle # "none"

Maintain ==
    /\ tick.at = "listed"
    /\ \/ tick.late /\ ExpireCandidate(tick.copy)
       \/ /\ ~tick.late
          /\ \/ Retriable(tick.copy) /\ Reconcile(Maintenance)
             \/ tick.copy.status = "ready" /\ Pause(Maintenance)
             \/ Finishable(tick.copy) /\ Enter(Maintenance, "remove", "provider", tick.copy)
             \/ /\ Retriable(tick.copy) => row.status \notin {"requested", "failed"}
                /\ ~Finishable(tick.copy)
                /\ UNCHANGED call
    /\ tick' = [at |-> "claims", copy |-> NoRow, late |-> FALSE]
    /\ calm' = (calm /\ ~past)
    /\ UNCHANGED <<row, host, past, abandoned, faults>>

(* reconcileProviderOrphans reads the claims and then the inventory.       *)
ReadClaims ==
    /\ tick.at = "claims" /\ call[Maintenance] = Idle
    /\ tick' = [tick EXCEPT !.at = "sweep", !.copy = row]
    /\ UNCHANGED <<row, host, past, call, calm, abandoned, faults>>

(* Mutant: any row of the sandbox, however ended, claims its runtime.      *)
OrphanOfNobody(claim) ==
    /\ "container" \in host /\ claim.handle # "container"
    /\ claim.status \notin Transitions \cup Terminal

Orphan(claim) ==
    /\ "container" \in host
    /\ claim.handle # "container"
    /\ claim.status \notin Transitions

ReadInventory ==
    /\ tick.at = "sweep"
    /\ tick' = [tick EXCEPT !.at = IF Orphan(tick.copy) THEN "orphan" ELSE "idle", !.copy = NoRow]
    /\ UNCHANGED <<row, host, past, call, calm, abandoned, faults>>

RemoveOrphan ==
    /\ tick.at = "orphan"
    /\ \/ ContainerGone /\ UNCHANGED faults
       \/ Fault /\ UNCHANGED host
    /\ tick' = [tick EXCEPT !.at = "idle"]
    /\ UNCHANGED <<row, past, call, calm, abandoned>>

Sweep == ListForMaintenance \/ Maintain \/ ReadClaims \/ ReadInventory \/ RemoveOrphan

-----------------------------------------------------------------------------
TtlPasses ==
    /\ ~past
    /\ past' = TRUE
    /\ UNCHANGED <<row, host, call, tick, calm, abandoned, faults>>

(* The server process ends and is started again; Docker goes on.           *)
Crash ==
    /\ Fault
    /\ abandoned' = abandoned \cup {"crash"}
    /\ call' = [a \in Actors |-> Idle]
    /\ tick' = [at |-> "idle", copy |-> NoRow, late |-> FALSE]
    /\ UNCHANGED <<row, host, past, calm>>

Next ==
    \/ \E c \in Callers : \E op \in Requests[c] : Ask(c, op)
    \/ \E a \in Actors : Step(a)
    \/ Sweep \/ TtlPasses \/ Crash

Spec == Init /\ [][Next]_vars

(* Awaits return and the runner's timer fires; a sandbox need not have a   *)
(* time to live.                                                           *)
FairSpec ==
    /\ Spec
    /\ \A a \in Actors : WF_vars(Step(a))
    /\ WF_vars(Sweep)

-----------------------------------------------------------------------------
(* The handle names what the status says there is: pause, resume, terminate*)
(* and the sweep pick the container or the image by it, whatever order the *)
(* stale copies of the row were written in.                                *)
HandleFits(r) ==
    /\ r.status \in {"requested", "provisioning", "failed"} \cup Terminal => r.handle = "none"
    /\ r.status \in {"ready", "pausing"} => r.handle = "container"
    /\ r.status \in {"paused", "resuming"} => r.handle = "image"

HandleFitsStatus == HandleFits(row)

(* As long as only resumptions and the idle auto-suspend touch a sandbox,  *)
(* with crashes and provider failures anywhere, a paused one has the image *)
(* it is to be recreated from: the workspace of a paused sandbox is only   *)
(* there.                                                                  *)
PausedHasRecovery == calm /\ row.status = "paused" => "image" \in host

(* A lifecycle transition that was persisted is followed by a row that is  *)
(* in none, whichever provider operation failed in it.  There are two ways *)
(* to leave a row in its transition for good: a crash of the process, and  *)
(* the template of a sandbox in provisioning, whose error reconcile returns*)
(* without a write; maintain takes up requested and failed rows only.      *)
LeftBehind ==
    \/ "crash" \in abandoned
    \/ row.status = "provisioning" /\ "template" \in abandoned

TransitionsConverge ==
    (row.status \in Transitions /\ ~LeftBehind)
        ~> (row.status \notin Transitions \/ LeftBehind)

(* Once the requests stop, a sandbox past its time to live is terminated or*)
(* expired for good, and one that is has no container: rows revived by a   *)
(* stale copy and containers a crash left without a row included.          *)
Quiet == \A c \in Callers : call[c] = Idle

TtlEndsContainers ==
    <>[]Quiet => <>[](/\ past => row.status \in Terminal
                      /\ row.status \in Terminal => "container" \notin host)
=============================================================================
