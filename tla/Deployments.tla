---------------------------- MODULE Deployments ----------------------------
(***************************************************************************)
(* The deployment attempts of one resource.  Commands (create, retry,      *)
(* rollback, cancel, reconcile-stale, archive) read an attempt, change     *)
(* their copy and write the whole row back; an executor builds and deploys *)
(* each admitted attempt, inline or from the durable queue; a progress     *)
(* recorder appends to the timeline, again by writing the whole row.  Each *)
(* read and each write is a step of its own.  What keeps them apart:       *)
(*   - the coordination lease of the resource on one placement (server and *)
(*     destination), see MutationCoordinator; archive, executors and the   *)
(*     progress recorder write without it;                                 *)
(*   - the unique index on the active attempt of a resource;               *)
(*   - the fence: a write that does not carry the row's supersede mark     *)
(*     changes nothing;                                                    *)
(*   - the guard that executors ask before they deploy.                    *)
(* Attempts are numbered in order of created_at.  The states created and   *)
(* planning never reach the table and rolled-back is not written here.     *)
(***************************************************************************)
EXTENDS Integers, FiniteSets

CONSTANTS
    Commands,        (* command invocations, each of which makes at most   *)
                     (* one attempt                                        *)
    Placements,      (* server and destination pairs of the resource       *)
    ExecutionKinds,  (* of the attempts: "container", "host-process"       *)
    MaxNotes,        (* bound: progress entries per attempt                *)
    MaxInFlight,     (* bound: progress records of one attempt on their    *)
                     (* way at a time                                      *)
    Detached,        (* is a durable queue configured for detached creates?*)
    CancelMayFail,   (* may executionBackend.cancel fail?                  *)
    Crashes,         (* may commands and executors die?                    *)
    LeaseMayBeLost,  (* may a live command lose its lease?                 *)
    None             (* no holder of a lease, no placement                 *)

ASSUME DeploymentsAssumption ==
    /\ IsFiniteSet(Commands) /\ Placements # {} /\ {MaxNotes, MaxInFlight} \subseteq Nat
    /\ {Detached, CancelMayFail, Crashes, LeaseMayBeLost} \subseteq BOOLEAN
    /\ ExecutionKinds \subseteq {"container", "host-process"}
    /\ None \notin Commands \cup Placements

VARIABLES
    row,    (* deployments: the persisted attempts                         *)
    ids,    (* how many ids the factory has given out                      *)
    lease,  (* who holds the resource-runtime scope of each placement      *)
    cmd,    (* each command: its step and its copy of an attempt           *)
    exec,   (* the executor of each attempt                                *)
    note,   (* each attempt's progress records on their way: the copies    *)
            (* that they have read                                         *)
    undone  (* history: attempts whose status a late record has put back   *)

vars == <<row, ids, lease, cmd, exec, note, undone>>

Ids == 1..Cardinality(Commands)
NoId == 0
Active == {"planned", "running", "cancel-requested"}
Recoverable == {"failed", "canceled", "interrupted"}
Terminal == Recoverable \cup {"succeeded"}

Attempt == [status : Active \cup Terminal \cup {"absent"}, mark : Ids \cup {NoId},
            placement : Placements \cup {None}, notes : 0..MaxNotes, archived : BOOLEAN]

(* Mutant: the attempt is persisted before markPlanned.                    *)
PlannedTooEarly(p) == [status |-> "planning", mark |-> NoId, placement |-> p,
                       notes |-> 0, archived |-> FALSE]

Planned(p) == [status |-> "planned", mark |-> NoId, placement |-> p,
               notes |-> 0, archived |-> FALSE]
Absent == [Planned(None) EXCEPT !.status = "absent"]

Kinds == {"none", "create", "retry", "rollback", "cancel", "reconcile", "archive"}
Steps == {"idle", "wait", "admit", "request", "backend", "settle", "insert", "start",
          "admitted", "over", "done", "crashed"}
Command == [pc : Steps, kind : Kinds, placement : Placements \cup {None},
            target : Ids \cup {NoId}, new : Ids \cup {NoId}, copy : Attempt]

Unused == [pc |-> "idle", kind |-> "none", placement |-> Absent.placement,
           target |-> NoId, new |-> NoId, copy |-> Absent]
Ended == [Unused EXCEPT !.pc = "done"]

Executor == [pc : {"none", "queued", "building", "deploying", "report", "done", "dead"},
             kind : {"container", "host-process"}, by : {"create", "recovery", "queue"},
             mem : Attempt]
NoExecutor == [pc |-> "none", kind |-> "container", by |-> "create", mem |-> Absent]

TypeOK ==
    /\ row \in [Ids -> Attempt]
    /\ ids \in Ids \cup {NoId}
    /\ lease \in [Placements -> Commands \cup {None}]
    /\ cmd \in [Commands -> Command]
    /\ exec \in [Ids -> Executor]
    /\ note \in [Ids -> SUBSET Attempt]
    /\ undone \subseteq Ids

Init ==
    /\ row = [d \in Ids |-> Absent]
    /\ ids = 0
    /\ lease = [p \in Placements |-> None]
    /\ cmd = [c \in Commands |-> Unused]
    /\ exec = [d \in Ids |-> NoExecutor]
    /\ note = [d \in Ids |-> {}]
    /\ undone = {}

-----------------------------------------------------------------------------
(* The repository.                                                         *)
Present == {d \in Ids : row[d].status # "absent"}
IsLatest(d) == d \in Present /\ \A e \in Present : e <= d
Busy == \E d \in Ids : IsLatest(d) /\ row[d].status \in Active

(* Mutant: the fence stops only writers that carry no mark at all.         *)
FencedIfUnmarked(d, m) == row[d].mark # NoId /\ m.mark = NoId

(* updateOne's WHERE clause: zero rows when the marks differ.              *)
Fenced(d, m) == row[d].mark # NoId /\ row[d].mark # m.mark

(* The unique index deployments_active_resource_unique.                    *)
Clash(d, m) == m.status \in Active /\ \E e \in Ids \ {d} : row[e].status \in Active

Writable(d, m) == ~Fenced(d, m) /\ ~Clash(d, m)

(* updateOne succeeds: it overwrites the row, whatever it holds by now.    *)
Save(d, m) == Writable(d, m) /\ row' = [row EXCEPT ![d] = m]

(* Mutant: the continuation looks at the mark and not at the status.       *)
MayContinueIfUnmarked(d) == row[d].mark = NoId

(* resolveExecutionContinuation, as the execution guard reads it.          *)
MayContinue(d) == row[d].status \notin {"cancel-requested", "canceled"} /\ row[d].mark = NoId

-----------------------------------------------------------------------------
(* Commands: what happens before the lease.                                *)
Goto(c, step) == cmd' = [cmd EXCEPT ![c].pc = step]

Begin(c, kind, step, d, p) ==
    /\ cmd[c].pc = "idle"
    /\ cmd' = [cmd EXCEPT ![c] = [Unused EXCEPT !.pc = step, !.kind = kind, !.target = d,
                                                !.placement = p,
                                                !.copy = IF d = NoId THEN Absent ELSE row[d]]]
    /\ UNCHANGED <<row, ids, lease, exec, note, undone>>

BeginCreate(c) ==
    \E p \in Placements : Begin(c, "create", "wait", NoId, p)

(* retry of a recoverable attempt, rollback to a succeeded candidate.      *)
BeginRecovery(c) ==
    \E d \in Present :
        \/ row[d].status \in Recoverable /\ Begin(c, "retry", "wait", d, row[d].placement)
        \/ row[d].status = "succeeded" /\ Begin(c, "rollback", "wait", d, row[d].placement)

(* cancel of an attempt; reconcile-stale of one that was listed as stale,  *)
(* whose copy is the stateVersion the caller quotes.                       *)
BeginEnding(c) ==
    \E d \in Present :
        \/ Begin(c, "cancel", "wait", d, row[d].placement)
        \/ row[d].status \in Active /\ Begin(c, "reconcile", "wait", d, row[d].placement)

(* archive reads the attempt and writes it, without the lease.             *)
BeginArchive(c) ==
    \E d \in Present :
        /\ row[d].status \in Terminal /\ ~row[d].archived
        /\ Begin(c, "archive", "settle", d, row[d].placement)

Invoke(c) == BeginCreate(c) \/ BeginRecovery(c) \/ BeginEnding(c) \/ BeginArchive(c)

Acquire(c) ==
    /\ cmd[c].pc = "wait" /\ lease[cmd[c].placement] = None
    /\ lease' = [lease EXCEPT ![cmd[c].placement] = c]
    /\ Goto(c, "admit")
    /\ UNCHANGED <<row, ids, exec, note, undone>>

-----------------------------------------------------------------------------
(* Commands: admission under the lease.                                    *)
Admitting(c, kind) ==
    /\ cmd[c].pc = "admit" /\ cmd[c].kind = kind
    /\ UNCHANGED <<row, lease, exec, note, undone>>

(* create reads the latest attempt and gives the new one its id; an active *)
(* latest attempt is to be superseded.                                     *)
AdmitCreate(c) ==
    /\ Admitting(c, "create")
    /\ ids' = ids + 1
    /\ \/ /\ ~Busy
          /\ cmd' = [cmd EXCEPT ![c].pc = "insert", ![c].new = ids + 1]
       \/ \E d \in Ids :
            LET runs == row[d].status = "running"
                copy == [row[d] EXCEPT !.mark = ids + 1,
                           !.status = IF runs THEN "cancel-requested" ELSE "canceled"]
            IN /\ IsLatest(d) /\ row[d].status \in Active
               /\ cmd' = [cmd EXCEPT ![c] = [@ EXCEPT !.pc = IF runs THEN "request" ELSE "settle",
                                                      !.new = ids + 1, !.target = d,
                                                      !.copy = copy]]

(* retry and rollback refuse a resource whose latest attempt is active;    *)
(* retry first cancels what is left of its source at the backend.          *)
AdmitRecovery(c) ==
    /\ \/ Admitting(c, "retry")
       \/ Admitting(c, "rollback")
    /\ \/ Busy /\ Goto(c, "over") /\ UNCHANGED ids
       \/ /\ ~Busy /\ cmd[c].kind = "retry" /\ CancelMayFail
          /\ Goto(c, "over") /\ UNCHANGED ids
       \/ /\ ~Busy
          /\ ids' = ids + 1
          /\ cmd' = [cmd EXCEPT ![c].pc = "insert", ![c].new = ids + 1]

(* cancel reads the attempt again.                                         *)
AdmitCancel(c) ==
    /\ Admitting(c, "cancel")
    /\ LET now == row[cmd[c].target]
           go(step, status) == cmd' = [cmd EXCEPT ![c].pc = step,
                                                  ![c].copy = [now EXCEPT !.status = status]]
       IN \/ now.status \notin Active /\ Goto(c, "over")
          \/ now.status = "running" /\ go("request", "cancel-requested")
          \/ now.status = "cancel-requested" /\ go("backend", "cancel-requested")
          \/ now.status = "planned" /\ go("settle", "canceled")
    /\ UNCHANGED ids

(* What reconcile-stale takes for the version of an attempt.               *)
StateVersion(m) == <<m.status, m.notes>>

(* reconcile-stale reads it again and compares the stateVersion.           *)
AdmitReconcile(c) ==
    /\ Admitting(c, "reconcile")
    /\ LET now == row[cmd[c].target]
           same == StateVersion(now) = StateVersion(cmd[c].copy)
           go(step, status) == cmd' = [cmd EXCEPT ![c].pc = step,
                                                  ![c].copy = [now EXCEPT !.status = status]]
       IN \/ ~same /\ Goto(c, "over")
          \/ same /\ now.status \in {"running", "cancel-requested"} /\ go("backend", now.status)
          \/ same /\ now.status = "planned" /\ go("settle", "interrupted")
    /\ UNCHANGED ids

(* The cancel-requested write of create and cancel.                        *)
Request(c) ==
    /\ cmd[c].pc = "request"
    /\ LET d == cmd[c].target  m == cmd[c].copy
       IN \/ Save(d, m) /\ Goto(c, "backend")
          \/ ~Writable(d, m) /\ Goto(c, "over") /\ UNCHANGED row
    /\ UNCHANGED <<ids, lease, exec, note, undone>>

(* Mutant: the copy is not moved on to its terminal status.                *)
BackendCancelOnly(c) ==
    /\ cmd[c].pc = "backend" /\ Goto(c, "settle")
    /\ UNCHANGED <<row, ids, lease, exec, note, undone>>

(* Mutant: a manual cancel ends with the backend call.                     *)
BackendCancelEnds(c) ==
    /\ cmd[c].pc = "backend"
    /\ cmd' = [cmd EXCEPT ![c].pc = IF cmd[c].kind = "cancel" THEN "over" ELSE "settle",
                          ![c].copy.status = IF cmd[c].kind = "reconcile"
                                               THEN "interrupted" ELSE "canceled"]
    /\ UNCHANGED <<row, ids, lease, exec, note, undone>>

(* executionBackend.cancel; when it fails the command ends as it stands.   *)
BackendCancel(c) ==
    /\ cmd[c].pc = "backend"
    /\ \/ cmd' = [cmd EXCEPT ![c].pc = "settle",
                             ![c].copy.status = IF cmd[c].kind = "reconcile"
                                                  THEN "interrupted" ELSE "canceled"]
       \/ CancelMayFail /\ Goto(c, "over")
    /\ UNCHANGED <<row, ids, lease, exec, note, undone>>

(* The terminal write of create's supersede, cancel and reconcile, and the *)
(* write of archive.                                                       *)
Settle(c) ==
    /\ cmd[c].pc = "settle"
    /\ LET d == cmd[c].target
           m == IF cmd[c].kind = "archive" THEN [cmd[c].copy EXCEPT !.archived = TRUE]
                                           ELSE cmd[c].copy
       IN \/ Save(d, m) /\ Goto(c, IF cmd[c].kind = "create" THEN "insert" ELSE "over")
          \/ ~Writable(d, m) /\ Goto(c, "over") /\ UNCHANGED row
    /\ UNCHANGED <<ids, lease, exec, note, undone>>

(* insertOne of the planned attempt.                                       *)
Insert(c) ==
    /\ cmd[c].pc = "insert"
    /\ LET d == cmd[c].new  m == Planned(cmd[c].placement)
       IN \/ ~Clash(d, m) /\ row' = [row EXCEPT ![d] = m] /\ Goto(c, "start")
          \/ Clash(d, m) /\ Goto(c, "over") /\ UNCHANGED row
    /\ UNCHANGED <<ids, lease, exec, note, undone>>

(* startExecution and its write; create goes on when it is fenced.         *)
Started(c) == [Planned(cmd[c].placement) EXCEPT !.status = "running"]

Start(c) ==
    /\ cmd[c].pc = "start"
    /\ LET d == cmd[c].new
       IN \/ Save(d, Started(c)) /\ Goto(c, "admitted")
          \/ /\ ~Writable(d, Started(c))
             /\ Goto(c, IF cmd[c].kind = "create" /\ Fenced(d, Started(c))
                          THEN "admitted" ELSE "over")
             /\ UNCHANGED row
    /\ UNCHANGED <<ids, lease, exec, note, undone>>

-----------------------------------------------------------------------------
(* The end of runExclusive; an admitted attempt gets its executor, inline  *)
(* or, for a detached create, in the durable queue.  A lease that was lost *)
(* may or may not be noticed; noticed, it turns success into an error.     *)
Holds(c) == lease[cmd[c].placement] = c

Launch(c) ==
    \E kind \in ExecutionKinds :
        exec' = [exec EXCEPT ![cmd[c].new] =
                   [pc |-> "building", kind |-> kind, mem |-> Started(c),
                    by |-> IF cmd[c].kind = "create" THEN "create" ELSE "recovery"]]

Enqueue(c) ==
    \E kind \in ExecutionKinds :
        exec' = [exec EXCEPT ![cmd[c].new] =
                   [NoExecutor EXCEPT !.pc = "queued", !.kind = kind, !.by = "queue"]]

Release(c) ==
    /\ cmd[c].pc \in {"admitted", "over"}
    /\ lease' = [p \in Placements |-> IF lease[p] = c THEN None ELSE lease[p]]
    /\ \/ cmd[c].pc = "admitted" /\ Launch(c)
       \/ Detached /\ cmd[c].pc = "admitted" /\ cmd[c].kind = "create" /\ Enqueue(c)
       \/ (cmd[c].pc = "over" \/ ~Holds(c)) /\ UNCHANGED exec
    /\ cmd' = [cmd EXCEPT ![c] = Ended]
    /\ UNCHANGED <<row, ids, note, undone>>

(* The durable handler reads the attempt, in whatever state it is.         *)
Dequeue(d) ==
    /\ exec[d].pc = "queued"
    /\ exec' = [exec EXCEPT ![d].pc = "building", ![d].mem = row[d]]
    /\ UNCHANGED <<row, ids, lease, cmd, note, undone>>

(* applyExecutionResult acts on a running attempt only.                    *)
Finish(d, result) ==
    exec' = [exec EXCEPT ![d].pc = "report",
                         ![d].mem.status = IF @ = "running" THEN result ELSE @]

(* failExecution is an error for an attempt that is not running.           *)
FailOrStop(d) ==
    \/ exec[d].mem.status = "running" /\ Finish(d, "failed")
    \/ exec[d].mem.status # "running" /\ exec' = [exec EXCEPT ![d].pc = "done"]

(* Build errors, as a failed result or as an error of the backend.         *)
BuildFails(d) ==
    /\ exec[d].pc = "building"
    /\ Finish(d, "failed") \/ FailOrStop(d)
    /\ UNCHANGED <<row, ids, lease, cmd, note, undone>>

(* ensureExecutionStillOwned; executeHostProcess does not call it.         *)
Deploy(d) ==
    /\ exec[d].pc = "building"
    /\ exec[d].kind = "container" => MayContinue(d)
    /\ exec' = [exec EXCEPT ![d].pc = "deploying"]
    /\ UNCHANGED <<row, ids, lease, cmd, note, undone>>

(* The guard refuses: an inline create returns and writes nothing, retry,  *)
(* rollback and the durable handler record a failure.                      *)
Refused(d) ==
    /\ exec[d].pc = "building" /\ exec[d].kind = "container" /\ ~MayContinue(d)
    /\ IF exec[d].by = "create" THEN exec' = [exec EXCEPT ![d].pc = "done"]
                                ELSE FailOrStop(d)
    /\ UNCHANGED <<row, ids, lease, cmd, note, undone>>

Deployed(d) ==
    /\ exec[d].pc = "deploying"
    /\ Finish(d, "succeeded") \/ Finish(d, "failed") \/ FailOrStop(d)
    /\ UNCHANGED <<row, ids, lease, cmd, note, undone>>

(* Mutant: a failed execution is not persisted.                            *)
ReportSuccessOnly(d) ==
    /\ exec[d].pc = "report"
    /\ \/ exec[d].mem.status = "succeeded" /\ Save(d, [exec[d].mem EXCEPT !.notes = row[d].notes])
       \/ ~(exec[d].mem.status = "succeeded" /\ Writable(d, exec[d].mem)) /\ UNCHANGED row
    /\ exec' = [exec EXCEPT ![d] = [NoExecutor EXCEPT !.pc = "done"]]
    /\ UNCHANGED <<ids, lease, cmd, note, undone>>

(* Mutant: the report is written by id alone.                              *)
ReportUnfenced(d) ==
    /\ exec[d].pc = "report"
    /\ row' = [row EXCEPT ![d].status = exec[d].mem.status]
    /\ exec' = [exec EXCEPT ![d] = [NoExecutor EXCEPT !.pc = "done"]]
    /\ UNCHANGED <<ids, lease, cmd, note, undone>>

(* The executor's write; fenced or not, the executor is over.  The durable *)
(* handler merges the timeline; of an inline one only the terminal status  *)
(* matters.                                                                *)
Report(d) ==
    /\ exec[d].pc = "report"
    /\ LET m == [exec[d].mem EXCEPT !.notes = row[d].notes]
       IN Save(d, m) \/ (~Writable(d, m) /\ UNCHANGED row)
    /\ exec' = [exec EXCEPT ![d] = [NoExecutor EXCEPT !.pc = "done"]]
    /\ UNCHANGED <<ids, lease, cmd, note, undone>>

-----------------------------------------------------------------------------
(* DeploymentTimelineProgressRecorder.record, which executors do not await *)
(* for the lines of their output: findOne, then updateOne of the whole row,*)
(* whatever has been written in between.                                   *)
ReadForNote(d) ==
    /\ exec[d].pc \in {"building", "deploying"}
    /\ row[d].notes < MaxNotes /\ Cardinality(note[d]) < MaxInFlight
    /\ note' = [note EXCEPT ![d] = @ \cup {[row[d] EXCEPT !.notes = @ + 1]}]
    /\ UNCHANGED <<row, ids, lease, cmd, exec, undone>>

WriteNote(d) ==
    \E m \in note[d] :
        /\ \/ /\ Save(d, m)
              /\ undone' = IF m.status = row[d].status THEN undone ELSE undone \cup {d}
           \/ ~Writable(d, m) /\ UNCHANGED <<row, undone>>
        /\ note' = [note EXCEPT ![d] = @ \ {m}]
        /\ UNCHANGED <<ids, lease, cmd, exec>>

-----------------------------------------------------------------------------
(* A command or an executor dies; a lease of its ends later.               *)
CrashCommand(c) ==
    /\ Crashes /\ cmd[c].pc \notin {"idle", "done", "crashed"}
    /\ cmd' = [cmd EXCEPT ![c] = [Unused EXCEPT !.pc = "crashed"]]
    /\ UNCHANGED <<row, ids, lease, exec, note, undone>>

CrashExecutor(d) ==
    /\ Crashes /\ exec[d].pc \in {"building", "deploying", "report"}
    /\ exec' = [exec EXCEPT ![d] = [NoExecutor EXCEPT !.pc = "dead"]]
    /\ note' = [note EXCEPT ![d] = {}]
    /\ UNCHANGED <<row, ids, lease, cmd, undone>>

LeaseEnds(p) ==
    /\ lease[p] # None
    /\ LeaseMayBeLost \/ cmd[lease[p]].pc = "crashed"
    /\ lease' = [lease EXCEPT ![p] = None]
    /\ UNCHANGED <<row, ids, cmd, exec, note, undone>>

CommandStep(c) ==
    \/ Acquire(c) \/ AdmitCreate(c) \/ AdmitRecovery(c) \/ AdmitCancel(c)
    \/ AdmitReconcile(c) \/ Request(c) \/ BackendCancel(c) \/ Settle(c)
    \/ Insert(c) \/ Start(c) \/ Release(c)

ExecutorStep(d) ==
    \/ Dequeue(d) \/ BuildFails(d) \/ Deploy(d) \/ Refused(d) \/ Deployed(d) \/ Report(d)

Next ==
    \/ \E c \in Commands : Invoke(c) \/ CommandStep(c) \/ CrashCommand(c)
    \/ \E d \in Ids : ExecutorStep(d) \/ ReadForNote(d) \/ WriteNote(d) \/ CrashExecutor(d)
    \/ \E p \in Placements : LeaseEnds(p)

(* Processes that run keep running; nobody has to issue a command.         *)
Fairness ==
    /\ \A c \in Commands : WF_vars(CommandStep(c))
    /\ \A d \in Ids : WF_vars(ExecutorStep(d)) /\ WF_vars(WriteNote(d))

Spec == Init /\ [][Next]_vars
FairSpec == Spec /\ Fairness

-----------------------------------------------------------------------------
(* Once an attempt carries a supersede mark, no later write, of a racing   *)
(* create, a late executor or a stale progress record, removes the mark or *)
(* replaces it (ADR-027: stale writes are fenced).                         *)
SupersedeMarkIsFinal ==
    [][\A d \in Ids : row[d].mark # NoId => row'[d].mark = row[d].mark]_vars

(* A superseded attempt never counts as running or completed again, however*)
(* late its executor or its progress records write.                        *)
SupersededNeverCompletes ==
    \A d \in Ids : row[d].mark # NoId => 
        row[d].status \in {"cancel-requested", "canceled", "interrupted"}

(* The execution guard lets only the owner of the resource deploy: while an*)
(* attempt is active, the executor of an older one is refused, whatever    *)
(* crashed or lost its lease.  The exception is an attempt that was        *)
(* reconciled as interrupted although its executor is alive.               *)
OlderAttemptsAreRefused ==
    \A d, e \in Ids :
        d < e /\ exec[d].pc = "building" /\ MayContinue(d) /\ row[e].status \in Active
            => row[d].status = "interrupted"

(* The next four hold of runs without failures: creates run inline, the    *)
(* backend's cancel succeeds, nobody dies, no lease is lost, the resource  *)
(* has one placement.  Their exception is the late progress record, which  *)
(* is no failure: the executor does not await it, and its whole-row write  *)
(* may put an attempt that has been settled back to running.  Such an      *)
(* attempt is in undone; nobody may be left to end it, and while it is     *)
(* active no other attempt can be inserted.                                *)

(* A supersede is never in vain: the attempt that replaced a canceled one  *)
(* is persisted, or the command is still on its way to it, or an older     *)
(* attempt came back to life by a late record and took its place.          *)
SupersedeHasSuccessor ==
    \A d \in Ids : row[d].mark # NoId =>
        \/ row[row[d].mark].status # "absent"
        \/ \E c \in Commands : cmd[c].new = row[d].mark
        \/ \E e \in undone : e < row[d].mark

(* A planned or running attempt that no late record has put back has       *)
(* somebody at work on it: its command, or its executor, whose report is   *)
(* still to come.                                                          *)
RunningIsAttended ==
    \A d \in Ids \ undone : row[d].status \in {"planned", "running"} =>
        \/ exec[d].pc \in {"queued", "building", "deploying", "report"}
        \/ \E c \in Commands : cmd[c].new = d

(* An attempt that was asked to cancel, and that no late record has put    *)
(* back, has a command that is about to write its terminal status, with a  *)
(* copy that the fence lets through.  What is active is thus never without *)
(* somebody to end it.                                                     *)
CancelIsAttended ==
    \A d \in Ids \ undone : row[d].status = "cancel-requested" =>
        \E c \in Commands : /\ cmd[c].pc \in {"backend", "settle"}
                            /\ cmd[c].target = d /\ cmd[c].copy.mark = row[d].mark

ActiveIsAttended == RunningIsAttended /\ CancelIsAttended

(* Every active attempt reaches a terminal status, unless a late progress  *)
(* record puts it back; older records, or none, delay nothing.             *)
EveryAttemptSettles ==
    \A d \in Ids : row[d].status \in Active ~> row[d].status \in Terminal \/ d \in undone

-----------------------------------------------------------------------------
(* What the documents say and the code does not do (README, section 5).    *)

(* deployments.cancel.md: terminal attempts are immutable history.         *)
TerminalIsImmutable ==
    [][\A d \in Ids : row[d].status \in Terminal => row'[d].status = row[d].status]_vars

(* ADR-027: stale writes of a superseded attempt are fenced, so the report *)
(* of its executor changes nothing.                                        *)
StaleReportsAreFenced ==
    [][\A d \in Ids :
          row[d].mark # NoId /\ exec[d].pc = "report" /\ exec'[d].pc = "done"
             => row'[d].status = row[d].status]_vars

(* deployments.create.md: execution stops at phase boundaries when the     *)
(* durable state says that the attempt no longer owns it.                  *)
DeploysOnlyWhileOwner ==
    [][\A d \in Ids : exec[d].pc = "building" /\ exec'[d].pc = "deploying"
                        => MayContinue(d)]_vars
=============================================================================
