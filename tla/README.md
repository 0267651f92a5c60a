# Appaloft in TLA+

Appaloft is a deployment control plane: a server (HTTP, CLI, web console) takes
commands on projects, servers, environments and resources, and turns a resource
into *deployment attempts* that it builds and runs on registered hosts. This
directory holds TLA+ models of the parts of it where several actors share state,
TLC configurations that check them on small instances, and TLAPS proofs.

Paths below are relative to the repository. `packages/application/src` is
written `app/`, `packages/persistence/pg/src` is written `pg/`.

    tlc -workers 2 -config deployments_orderly.cfg MCDeployments.tla
    tlapm DeploymentsProofs.tla

## 1. Inventory

The repository is a TypeScript monorepo in a ports-and-adapters layout: aggregates
in `packages/core`, use cases in `packages/application`, tables and repositories
in `packages/persistence/pg` (PostgreSQL or an embedded pglite), effects on hosts
in `packages/adapters`, composition in `packages/server` and `apps/shell`. All
coordination goes through the database (or, in the SSH mode, through files on the
remote host); processes do not talk to each other directly, with one exception:
a Worker on a remote server keeps a connection to the control plane (the relay).

| component | state | operations | what is hard | what makes it correct |
|---|---|---|---|---|
| **Mutation coordinator** `app/mutation-coordination.ts`, `pg/mutation-coordinator.ts` | table `mutation_coordinations`: one row per scope with owner, token `acquired_at`, expiry | `runExclusive` (insert, take over, wait), heartbeat, `assertOwned`, release | clocks, late statements, crashes, several calls with one owner id | one work per scope; a live work keeps its lease; nobody touches a lease that is not his |
| **Deployment attempts** `app/operations/deployments/*`, `packages/core/src/release-orchestration`, `pg/repositories/deployment-repository.ts` | table `deployments`: status, supersede mark, timeline; unique index on the active attempt of a resource | create (with supersede), retry, rollback, redeploy, cancel, reconcile-stale, archive, prune; execution inline or from the queue; progress records | every write is a whole-row overwrite of a copy read earlier; executors and archive do not take the lease; four-step supersede | one owner of the resource deploys; superseded attempts stay superseded; every attempt ends |
| **Durable work** `app/durable-work.ts`, `pg/repositories/durable-work-ledger.ts` | `durable_work_items` (status, attempts, lease), `durable_work_events` | record, append event, list due, claim, complete, drain | several replicas drain the same table, statements fail, replicas die | an item is executed by one replica at a time, due work is executed, what was refused is not |
| **Worker slots** `packages/server/src/durable-work-runtime-runner.ts`, `pg/repositories/durable-worker-heartbeat-store.ts` | `durable_worker_heartbeats`, timers and the active tick of each replica | claim slot, heartbeat, start, stop | takeover by age, two keys of one table, stop during a claim | no more replicas drain than there are slots; a free slot is taken over |
| Runtime adapters `packages/adapters/runtime` | containers, processes, routes on hosts | execute, cancel, rollback | I/O | ask the guard at the deploy boundary |
| **SSH coordinator** `apps/shell/src/ssh-mutation-coordinator.ts`; state sync `remote-pglite-state-sync.ts` | one lock directory per scope on the remote host with `owner.json`; a database image and local copies of it | acquire, recover a stale lock, heartbeat, refresh, release; pull and push of the state | scripts that read and then move, connections that break under a running script, two calls that recover one lock | same contract as the coordinator; an overlap is reported; nothing is left behind |
| **Process attempts, operator work** `pg/repositories/process-attempt-journal.ts`, `app/operations/operator-work` | `process_attempt_journal` | record, claim, complete, generate due retries, lists; retry, cancel, dead-letter, recover, prune by operators | stale lists of several replicas, operators who overwrite what they have read, two statements per manual retry | an attempt has one worker; one retry per failure; what waits is taken |
| **Scheduled tasks** `app/operations/scheduled-tasks`, `pg/repositories/scheduled-task-repository.ts` | task definitions, run attempts, work items | due slots, admission by tick and by command, worker | two writes per admission, whole-row writes of a run, tasks deleted meanwhile | one run per slot, a run is executed once, its item tells the truth about it |
| **Execution sandbox** `app/execution-sandbox.ts`, `packages/core/src/execution-sandbox`, `packages/adapters/runtime/src/docker-sandbox-provider.ts` | sandbox rows with a provider handle; containers and recovery images on the host | reconcile, ready, pause, resume, network policy, terminate, expire; maintenance tick, orphan sweep | provider calls of minutes between a read and an unconditional save; sweep with stale claims | the handle fits the status; a paused sandbox can be recovered; transitions end; a time to live ends the container |
| Sandbox agents, task runs, workspaces `app/sandbox-agent-runtime.ts`, `app/agent-task-run.ts` | runs, turns, approvals | dispatch, stream, cancel | durable steps with retries, callbacks | a run ends once |
| Domain bindings, certificates `app/operations/domain-bindings` | bindings, certificate attempts | verify, issue, renew, reconcile | provider callbacks, retry timers | the active certificate is the newest valid one |
| **Preview cleanup** `app/operations/preview-deployments` | `preview_environments`, the source link, process attempts | cleanup by closed pull requests, deletions, expiry and retry schedulers; deployment events | events that write back an older row, retries after partial cleanups | an expired preview is cleaned and stays so |
| Source events `app/operations/source-events` | event records | ingest, dedupe, dispatch | duplicate and late webhooks | one deployment per event |
| Dependency resources, storage, backups | records of provisioned services | provision, bind, back up, restore | provider I/O, retention | restore needs a backup that exists |
| **Server-worker relay** `packages/server-worker-relay` | connections, leases, streams and sessions on both ends | connect, hello, heartbeat, replace, revoke; open, write and close of streams | concurrent handshakes, late hooks, frames lost with their connection | a live Worker is reachable; generations only grow; streams are in order; sessions end |
| Terminals, tunnels, dev sessions | interactive sessions | open, close | connection loss | outside the core |
| Web console, CLI, SDK, docs, contracts, i18n | none of their own | presentation, generated code | | |

**How the modelled parts interact.** A deployment command opens its scope
(resource, server, destination) with the coordinator, reads and writes attempts
inside it, and hands the admitted attempt to an executor: inline, after the lease
is released, or, for a detached create, as a durable work item that the queue's
runtime gives to the deployment handler. Executors read the attempt (the guard),
write progress records and finally the result, all without the lease. What
protects them is the *fence* (an update must carry the row's supersede mark), the
unique index and the guard. Scheduled tasks use the same queue for their runs;
preview cleanup uses the process attempt journal, which operators may rewrite.
The retry scheduler of previews asks the mutation coordinator for its turn, but
that is optional and its lease can be lost, so its model lets ticks run side by
side.

The hazards are in `PROJECT.json`, each at its line with the properties that
would catch it, or the reason why none does yet.

## 2. Modules

| module | models | its actions |
|---|---|---|
| `ExclusiveScope` | abstract contract of `runExclusive`: per scope at most one call works | Request, Enter, Leave, GiveUp, Die |
| `WorkQueue` | abstract contract of the durable queue: an item waits, is in the hands of one worker, is settled, put back or lost | Record, Take, Settle, PutBack, Lose |
| `OrderedStream` | abstract contract of one relayed stream: the session reads what was written, in order, and nothing once it is over | Open, Write, Close; Begin, Read, End, Miss |
| `MutationCoordinator` | `PgMutationCoordinator.runExclusive` with its heartbeat loop | one per SQL statement or timer: Call, Insert, Takeover, Wake, BeatTimer, BeatRenew, BeatCheck, BeatFails, AssertOwned, WorkReturns, Release, ReleaseFails; Crash; Tick |
| `Deployments` | the attempts of one resource, the commands on them, executors, progress recorder | one per read or write of the table or backend call: Invoke, Acquire, Admit*, Request, BackendCancel, Settle, Insert, Start, Release; Dequeue, BuildFails, Deploy, Refused, Deployed, Report; ReadForNote, WriteNote; crashes; LeaseEnds |
| `WorkerSlots` | slot competition of the replicas of the runtime | StartRuntime, TimerFires, SlotClaimed, SlotHeld, ClaimFails, Heartbeat, Stop, MarkStopped, Exit, GoesStale |
| `DurableWork` | producers, ledger and drain; composed with `WorkerSlots` (EXTENDS: a slot that is claimed starts a tick, a tick sends the heartbeat, a stop waits for the tick); implements `WorkQueue` | Record, AppendAccepted, TickBeat, List, Claim, LogClaim, Handle, Complete, TickDone, and the slot actions |
| `SshCoordinator` | `SshMutationCoordinator.runExclusive` on one lock directory; implements `ExclusiveScope` until a fresh lock is taken, up to recovered calls | one per remote command or answer: Call, MakeDir, Check, Inspect, Recover, Remake, Claim, AcquireFails, Wake, Refreshed, RefreshFails, Heartbeat, FinishWork, Release, Remove; Crash, GoesStale |
| `ScheduledTasks` | one slot of a task: schedulers, command, work item, workers; implements `WorkQueue` | one per statement: Configure, ListDue, RunNow, Admit, SaveRun, RecordItem, Answer; Claim, Load, Start, Execute, SaveResult, Complete; TimePasses, ServerDies, WorkerDies |
| `Sandbox` | one execution sandbox with its Docker container and images | aggregate transitions as operators; one action per read, save or provider call of each operation, maintenance and sweep |
| `Relay` | the connections of one Worker and its streams, server and client end; each stream implements `OrderedStream` | Connect, ReceiveHello, Register, HookDone, SocketCloses, frames in both directions, Heartbeat, Disconnect, ClientCloses, handler results, faults |
| `PreviewCleanup` | the cleanup of one preview with its process attempts | one per statement of the cleanup service, retry scheduler, operator commands and deployment events; Expires, BecomesDue |
| `MC*` | instances, symmetry and views for TLC | |
| `*Proofs` | theorems and proofs | |

**MutationCoordinator.** A clock read and the statement that uses it are two
steps: `due[c]` is when the pending step read its clock (or when its timer
fires), `Stamp(c)` adds the skew of the caller's clock. `Tick` lets time pass only
while no suspended step is more than `MaxStall` late, so `MaxStall` is the one
parameter between a prompt and an arbitrarily slow process. `beat[c]` is the
heartbeat loop, which goes on until the release has awaited it. The policy in
`app/mutation-coordination.ts` is a lease of 30 s renewed every 10 s; `Timely`
states what the arithmetic needs: interval + 4 late steps + skew < lease.
A `runExclusive` nested in one of the same scope runs in the outer lease and has
no state of its own.

**Deployments.** Attempts are numbered by `created_at`; `row[d]` is the table,
`cmd[c].copy`, `exec[d].mem` and `note[d]` are the copies that commands,
executors and the recorder hold across awaits, and `Save` is `updateOne`: the
fence, the unique index and a whole-row overwrite. The lease is one variable per
placement with the contract of `ExclusiveScope`; `LeaseMayBeLost` adds the lease
losses the coordinator allows when it is not timely. `note[d]` is a set: several
records of one attempt may be on their way, because output lines are not awaited
(`local-execution.ts:673`), at most `MaxInFlight` between read and write. The row's
`notes` count its progress entries, which are part of the state version
reconcile-stale compares. `undone` is history: the attempts whose status the
whole-row write of a late record has put back. A
host-process execution never asks the guard, as in
`packages/adapters/runtime/src/local-execution.ts:1188-1496`; containers ask at
line 1875, and the SSH and compose variants do the same at their boundary. Left
out: prune (deletes old rows), cleanup of previews, what the host does; redeploy
is a create with another trigger. Plans, sources, health checks and routes are
the nondeterministic result of an execution.

**WorkerSlots, DurableWork.** Each upsert of the heartbeat table is a step;
`fresh` abstracts the age of a row against `staleBefore`. A replica that is
started again has new ids, so it is another process. The lease columns of work
items are left out because nothing that is claimed is ever claimed again while it
is running (`claimDue` and `listDueCandidates` look at waiting items only). Two
simplifications: the timer fires only while no slot claim of that replica is in
flight (the code may have two of them), and the claim of a slot and the
assignment of `leasedWorker` after it are one step. Static slots are the case
without competition. `Place` and `Hands` map an item to `WorkQueue`: it is in the
hands of the replica whose tick has claimed it, and lost when that tick ends
without a completion.

**SshCoordinator.** A script is one step as long as it cannot be interleaved:
making the directory, judging its age and moving it away are separate steps of
the acquisition script. Time is the one remote clock. A lock grows stale when its
keeper has ended, when a heartbeat of it has failed (the timer sends no other), or
when a live keeper is late, the fault "stall": commands run with `Bun.spawnSync`
(line 69), which holds up the event loop and with it the timer of every lock the
process keeps, 10 s between beats against 30 s. Three histories tell what
happened: `recovered`, the calls whose stale lock was moved away; `taken`, whether
a lock was moved away or removed while fresh, the flaw of `ssh_double_recovery`;
`missed`, the calls whose release found no owner.json and exited with 0.
`Standing` maps a call to `ExclusiveScope`: it leaves the scope when its stale lock
is recovered, whether it still works or not. `ContractUntilTaken` is that contract
for as long as `taken` is false. A script ends with its connection. Nested calls run in the outer lock, and what
the refresh copies is left out.

**ScheduledTasks.** `task` is the definition, `run` the attempts of one slot,
`item` their work items, `admission` and `work` what servers and workers hold.
Every write of a run is a whole-row upsert of the copy its process holds. Schedule
arithmetic is the one slot; what the command of a task does is its result. The
process attempt rows that are written along with a run are never read for it and
are left out. The items are those of `DurableWork`, claimed in one step; that both
modules keep the contract `WorkQueue` is what justifies the smaller one.

**Sandbox.** `row` is the table, `host` the container and images that exist, and
`call[a]` the call of each actor with the copy it has read; `tick` is the phase of
the maintenance tick. `MaxAttempts` is its maxProvisionAttempts. The transitions
of the aggregate are operators named as its methods; a refused one ends the
operation. Between its first save and the provider `reconcile` may return an error
of the template store as it is, with the row left in provisioning (`TemplateFails`);
`abandoned` is the history of what has left a transition in the row, such an error
or a crash. `calm` is the history "nothing but resumes and the idle suspend has
touched the sandbox", the scope of `PausedHasRecovery`.

**Relay.** Queues `toServer` and `toWorker` hold the frames of each connection
until it ends. Generations number the connections of the Worker in the order the
client opens them. The handlers in the tree (terminal, network forward) write
synchronously, so the flush of data that came before the session is one step.
`torn` and `broken` are history: a hook failed after its connection had been
replaced; a sequence number was not the next one. `Reader` maps the client's end
of a stream to `OrderedStream`, whose other variables are the server's end and what
the session has got; connections, queues and sequence numbers do not occur there.

**PreviewCleanup.** `env`, `link` and `expired` are the preview; a cleanup that
removes things in a fixed order is abstracted to its last removal, the source
link, without which later cleanups find nothing to do. `row[i].of` is
`retryOfWorkId`, `row[i].phase` who made the attempt, `base` the attempt that has
the dedupe key of the cleanup (record renames it to its new id). `todo` and
`mine` are the lists a tick holds. `Foreign` stands for due attempts of other
operations, which share kind "system" and use up the limit of the list.

## 3. Runs

| run | instance | shows |
|---|---|---|
| `coordinator_timely` | two calls, one scope, skew 1, lease 7, interval 1, stall 1, crashes | type invariant; the lease table implements `ExclusiveScope`; a live work keeps its lease |
| `coordinator_stalls` | three calls, two with one owner id; lease 3, so that one stall loses it; failing statements | only one call passes `assertOwned`, whatever late renewals and releases do; a lease is left behind only by a crash or a failed DELETE |
| `deployments_orderly` | three commands of any kind, one placement, both execution kinds, a progress record per attempt at any time; creates inline, nobody dies, no lease is lost, the backend cancels (244,829 states) | types; a supersede has its successor; a planned or running attempt has somebody at work on it and one that was asked to cancel a command that will end it; every attempt settles; all but types except attempts that a late record has put back (`undone`) |
| `deployments_faults` | three commands, two placements, queue, crashes, lost leases, refused cancellations, progress records (1,803,317 states) | the guard refuses older attempts; superseded attempts never complete; marks are final |
| `worker_one_slot` | two replicas, one slot, one item with two attempts, one stall or failed statement, stops and deaths | types; the ledger implements `WorkQueue`; drains only with a slot; due work is taken |
| `worker_slot_takeover` | two replicas, two slots, no fault | counterexample to `DueWorkIsTaken`, section 5 |
| `sandbox_lifecycle` | a caller with any operation, one that resumes, the maintenance tick, one attempt, one fault (781,762 states) | types; handle fits status; a paused sandbox has its image; transitions converge, but for a crash or a template error; a time to live ends the container |
| `ssh_lock` | three calls, two faults of any of the five kinds, late heartbeats included, one further try (2,031,023 states) | types; every step before a fresh lock is taken is one of `ExclusiveScope`, up to recovered calls; of two overlapping calls at most one succeeds, unless a release finds no owner.json; without faults nothing is left |
| `ssh_double_recovery` | three calls, one of which may crash | counterexample to `ImplementsContract`, section 5 |
| `scheduled_tasks` | two schedulers, a command, two workers, one slot, two faults (328,716 states) | types; one run per slot; item and run agree; runs go forward and are executed once; accepted runs end |
| `relay_streams` | two connections, one stream, two data frames down and one up, one fault (1,639,134 states) | types; the stream implements `OrderedStream`; a Worker that is up is served; newer generations win; the Worker's session of a stream ends after the server's close or the loss of the connection |
| `preview_cleanup` | expiry scheduler, two retry ticks, one operator with any command, one deployment event, one failed cleanup, two faults, four attempts (317,262 states) | types; one worker per attempt; one retry per failure; waiting attempts are taken; what has expired is cleaned |

**Why the bounds are enough.** The coordinator's guarantees relate at most a
holder, the call that takes its lease over and a third with the same owner id,
which is the stalls run; with times of 1, 3 and 7 units every order of stall,
interval and expiry occurs. Deployment properties relate a write, the attempt it
hits and an attempt that came after it: three commands give a create, a second
create that supersedes it and a third command (or an executor) that interferes;
two placements are the case where leases do not exclude each other. In the queue
two replicas race for one item, and one item with two attempts is enough for a
completion that meets a later claim; instances with two faults or three replicas
were also explored (700,000 and 470,000 states) without a difference. Named
bounds: `MaxTime`, `MaxNotes` (a revival needs one record, taken before a status
write and written after it), `MaxInFlight` (1; the invariants were also checked
with 2), `MaxFaults`, `MaxAttempts`, and one attempt per
command. For a lock directory a holder, the call that recovers its lock and a
third that has judged the old one suffice (`MaxTries` bounds the waits, so that
each call can find the lock held once and then free). A slot needs two admissions
and two workers. A sandbox needs two calls whose copies overlap, one of which may
be any operation, beside the tick, which may itself pause or end the sandbox.
Relay properties relate a connection and its successor (`MaxGeneration` 2) and the
frames before, during and after the opening of a session (`MaxData` 2,
`MaxReplies` 1). A preview attempt, its retry, the renamed record of a second
cleanup and the retry of an operator are the four ids; `MaxIds` never blocks a
step in this instance (with no fault or one it was checked that no id is missing,
and faults make none); a caller beside the scheduler and five ids were explored
for the invariants (1.7 million states). `MCView` identifies states that differ
only in values no step reads again; `OrderlyView` keeps besides what the orderly
properties read, `undone` and the attempt of a command that is about to end, so that
neither an invariant nor a liveness property tells two identified states apart;
symmetry is used in safety runs only. Deadlock
is checked in the worker and preview runs; in the others finitely many calls, runs
or connections simply end.

## 4. Fairness

`Deployments`: weak fairness of each command that has begun, of each executor and
of a progress write in flight (promises that settle). Nobody has to issue a
command, and no lease has to be lost. `DurableWork`: weak fairness of timers,
statements, handlers and stops, of the exit of a stopped process, of the clock
and of the ageing of a heartbeat that nobody renews. Replicas are stopped and
die, but never all of them (`OthersRemain`): with none left nothing can be
promised. All of this is what the event loop and the operator's restart policy
provide. The coordinators and `deployments_faults` are checked for safety only.

`ScheduledTasks`: weak fairness of each admission that has begun and of each
worker; nobody has to admit a run. `Sandbox`: weak fairness of calls in flight and
of the maintenance tick; nobody has to call and the time to live need not pass.
`TtlEndsContainers` speaks of what follows once no further request is made.
`Relay`: weak fairness of ClientReceives, ClientCloses, HelloFails and the
heartbeats: frames that are sent on an open connection arrive, a closed one is
noticed and the hello has a timer. Nothing is assumed of handlers, hooks or
callers. `PreviewCleanup`: weak fairness of the steps of a call, a tick or a
command that has begun, of the timers of both schedulers and of time. Both
schedulers are off by default; the liveness is that of an installation that has
enabled them.

## 5. Where code and documents disagree

Two runs are kept as counterexamples:

* `DueWorkIsTaken` with two slots (`worker_slot_takeover`): a replica that holds
  slot 2 tries slot 1 first at every interval. When slot 1 becomes claimable the
  upsert violates the primary key (one row per worker id), the claim fails, and the
  replica never drains again.
* `ImplementsContract` of the SSH coordinator (`ssh_double_recovery`): two calls
  judge the lock of a dead holder stale; the first moves it away and makes its own,
  the second moves that one away. Both work in one scope. The heartbeat of the
  first notices later, so its result becomes an error, but its work has been done.

Five more are stated in the modules and refuted by TLC in a few seconds; the
properties that are run state what is left of them.

* `TerminalIsImmutable` (`Deployments`; `deployments_orderly.cfg` with
  `Commands <- TwoCommands` and this PROPERTY): an attempt that
  has ended changes status again. `docs/commands/deployments.cancel.md:22` calls
  terminal attempts immutable history; `cancel-deployment.use-case.ts:144` reads,
  decides and writes without a condition on the status, the report of an
  executor overwrites a manual cancel, and a late progress record puts back the
  status it has read.
* `StaleReportsAreFenced` (`Deployments`; the same with `Detached = TRUE`): the
  fence compares marks. A handler that dequeues an attempt after it was superseded
  loads the mark with it, and its report puts the attempt back to
  cancel-requested, against ADR-027.
* `DeploysOnlyWhileOwner` (`Deployments`; the same): host-process executions never
  ask whether they still own the attempt.
* `RefusedIsNotExecuted` (`DurableWork`; `worker_one_slot.cfg` with
  `MaxFaults = 0` and this INVARIANT): a work item is visible before its first
  event is appended; a fast worker takes that event's sequence number and the
  command answers with an error for a deployment that is executed.
* `RetriedIsNotRunAgain` (`PreviewCleanup`; `preview_cleanup.cfg` with
  `MaxFailures = 3`, `MaxIds = 7`, `MaxFaults = 0`, `Operators` and `Events` empty,
  and this PROPERTY): generating a retry leaves its source retry-scheduled without
  an eligible time, and `claimDue` takes a missing time as due. A tick whose list
  is older than that claims the source again, so that one failure is run twice and
  retried twice, against PROC-DELIVERY-010 of
  `docs/specs/060-durable-process-delivery-baseline/spec.md`. It takes a retry that
  was listed while it was pending; for attempts the service has recorded it cannot
  happen, which is `FailuresAreRetriedOnce`.

Observations made while modelling, each within a model's reach but without a
property (the properties except them, as their comments say):

* *Deployments.* An output line is recorded without being awaited
  (`packages/adapters/runtime/src/local-execution.ts:673`), by a read and a
  whole-row write (`app/deployment-progress-recorder.ts:77`). When the executor's
  report or a cancel comes in between, the settled attempt is running again;
  nobody is at work on it, and the unique index and the admission refuse other
  attempts until somebody cancels or reconciles it by hand. It takes no failure,
  and two commands are enough: `EveryAttemptSettles` without its exception is
  refuted by TLC at once. These attempts are `undone`.
* *Scheduled tasks.* The process attempt of a run stays pending after the run;
  forbid-concurrency (SCHED-TASK-SPEC-006,
  `docs/specs/044-scheduled-task-resource-shape/spec.md:46`) is nowhere enforced; a
  run admitted without its work item is reported as accepted by the next admission
  of its slot and never executed; deleting a task leaves its accepted runs.
* *Sandbox.* Saves are whole rows, so that ended rows are revived (ADR-091,
  decision 11), until maintenance ends them again. A sweep with claims read before
  a resume removes the new container (SBX-RECONCILE-002). Overlapping pauses and a
  resume lose the workspace; so does a network update that ends after a pause and
  a resume: `PausedHasRecovery` speaks of `calm` sandboxes. A crash in a transition
  leaves it there, for ever if there is no time to live (SANDBOX-SPEC-013), and so
  does an error of the template store in `reconcile`, which is returned with the row
  saved as provisioning (`app/execution-sandbox.ts:1459`, 1489, 1500); maintenance
  takes up requested and failed rows only. Recovery
  images leak when expiry or termination races a pause.
* *Relay.* When a socket closes on the server, its streams are not closed there
  (SWR-FORWARD-010, `docs/specs/133-outbound-server-worker-relay/spec.md:30`), so
  that `SessionsEnd` speaks of the Worker's sessions only; a session whose stream or connection ends while its handler
  is opening it is left as an orphan; a hook that fails after its connection was
  replaced removes the newer entry (`torn`); requests and new streams do not consult
  the lease (SWR-LEASE-005, SWR-ORPHAN-015).
* *SSH coordinator.* A live holder whose heartbeat is late (`Bun.spawnSync`, line 69
  of `ssh-mutation-coordinator.ts`) is recovered while it works, and both work.
  Releasing a directory that is missing or has no owner.json exits with 0 (lines
  242-243): if the second call releases first and no heartbeat of the first has
  failed by then, both report success. One late heartbeat is enough for that.
* *Preview cleanup.* `listDueRetries` applies its limit before the scheduler skips
  other operations; backups of storage volumes leave rows of the same kind that
  nobody generates a retry for, and 25 of them starve preview retries for good
  (`Foreign >= Batch`). A crash between requesting the cleanup and recording it
  leaves a preview that no scheduler lists; one between claim and completion leaves
  an attempt running for ever. Operators overwrite by id what they have read, so
  running work becomes canceled (against `docs/commands/operator-work.cancel.md:93`).
  Manual retry is two statements: a failure can be retried twice, or spent without
  a retry. A deployment event that was dispatched before the cleanup and deploys
  after it leaves a runtime nobody cleans.

## 6. Proofs

All theorems hold for every value of the constants that meets the named
assumptions of the modules (`CoordinatorAssumption`, `DeploymentsAssumption`,
`WorkerSlotsAssumption`, `DurableWorkAssumption`, `SshCoordinatorAssumption`,
`ScheduledTasksAssumption`, `SandboxAssumption`, `RelayAssumption`,
`PreviewCleanupAssumption`), and, where said, more.

* `MutationCoordinatorProofs`: `TypeCorrect`, for all constants. `LeaseKept` and
  `CoordinatorImplementsContract` under `Timely` and `OneCallPerRequest` (the
  calls of one scope have different owner ids). The invariant is the slack of the
  lease: at each point of the heartbeat loop the row ends at least so many stalls
  after the loop's pending step, and a pending step is at most `MaxStall` late.
  Without the bounds per control point the claim "the lease has not expired" is
  not inductive. It follows that a takeover never meets a working call, which
  gives both theorems. `LeasesDoNotLeak`, for all constants: every row matches a
  call that works, releases, died or has thrown, and a call that has thrown never
  works again. `AuthorityIsExclusive` under `NotTooLate` (`MaxSkew + MaxStall <
  Ttl`), which is weaker than `Timely` and lets leases be lost: no two active calls
  of one request have the same token, because a call whose row is gone was
  overtaken a whole lease after its token, and a renewal never shortens a lease.
* `DeploymentsProofs`: `DeploymentsAreTyped`, `SupersededStaysStopped` and
  `MarksAreFinal`, with every failure allowed. A row is sound only if each copy
  that may overwrite it is, so the invariant covers the copies of commands,
  executors and progress records; and an insert overwrites nothing only because no
  id is given out twice and the row of an id not yet inserted is absent, which
  needs a count of the commands that have taken an id.
  `SupersedesSucceed` holds under `Orderly` (one placement, inline creates, a backend
  that cancels, no crash, no lost lease): the lease keeps the commands inside apart,
  an active attempt is the latest, and the target of a supersede is the latest and
  only it has the new mark. Each part of `Orderly` is needed: TLC refutes the property
  when any one of them is dropped. Progress records are not restricted, in number or
  in time: what they can do is put back the status of an attempt, and such attempts,
  in `undone`, are excepted from "an active attempt is the latest". The property
  itself excepts a supersede whose insert met an older attempt that had been put
  back; nothing else can be in its way.
  `NobodyIsForgotten` needs much less, and holds on any number of placements, with
  detached creates and failing backends: no process dies and no lease is lost. (With
  a crash or a lost lease TLC refutes it.) It excepts the attempts in `undone`. The
  invariant says who attends to a row (the command about to start it, to hand it
  over or to settle it, or its executor), that the copy of an executor which is not
  of a running attempt has outlived the attempt, and that a row and its commands
  have one placement, so that the lease of that placement keeps apart the commands
  that could meet on it: that is why any number of placements will do. Of records it
  says that they carry the mark of their row, unless the row has got one since, and
  are never of a planned attempt (`NotesFollow`), so that a late one either puts
  its attempt in `undone` or only adds to its notes.
  `WhatIsActiveIsAttended` adds the attempts that were asked to cancel, for creates
  that run inline and a backend that does cancel (TLC refutes it without either), and
  again except those in `undone`: the command about to write the end of such an
  attempt holds a copy that the fence lets through.
  `OlderExecutorsAreRefused`, for all constants: the index admits one active
  attempt, no copy of an attempt says failed or succeeded before its executor has
  reported, and the attempt of a command that is still inside has no executor yet.
* `DurableWorkProofs`: `ClaimsAreExclusive` and `WorkIsTyped`, with any number of
  replicas, stalls and deaths. The invariant adds that a tick at work has an item,
  that an item that may be claimed has an attempt left, and that an item is absent
  until its producer records it. `ReplicasHaveSlots`: a row that has an
  owner is that owner's and online, a row grows old only after its process is gone
  (as long as there was no fault), and a replica that was not started has no tick.
  `DurableWorkImplementsQueue`: the ledger implements `WorkQueue`, each step being a
  step of it or a stutter. A claim is a Take only since the claiming tick has
  nothing in hand and nobody has the item, which is `ClaimsAreExclusive` and its
  invariant; a completion never meets another claim, so each is a Settle, a PutBack
  or, when its statement fails or the replica dies, a Lose. `SlotsBoundTheDrain`: as
  long as there was no fault, at most `SlotCount` replicas drain at a time, because
  each has a slot that no other one has.
* `SshCoordinatorProofs`: `CallsAreTyped`, `WorksAreAlone`, `OverlapsAreReported`,
  `NothingIsLeft`, for any calls, tries and faults, late heartbeats included. The
  invariant says who has the directory: while no fresh lock was taken, a call that
  has made or claimed it still has it, fresh or stale, unless it is in `recovered`
  (`HasLock`). From that, two works overlap only if the lock of one was recovered.
  `OverlapsAreReported` does not need `taken` to be false: owner.json names one call,
  so of two that overlap one is not the owner, never is again (`Robbed`), and its
  release either ends with an error or finds no owner.json, the stated exception
  `Unaware`. `ContractHoldsUntilTaken`: up to the step that takes a fresh lock, each
  step is one of `ExclusiveScope`, a call leaving the scope when its stale lock is
  recovered (`UpToRecovery`). `WithoutFaultsContractHolds`: with `MaxFaults = 0` the
  coordinator implements the contract outright, without either restriction. One
  fault of any one of the five kinds breaks that (`ssh_double_recovery` with a crash;
  TLC refutes `ImplementsContract` for each other kind with `MaxFaults = 1`).
* `ScheduledTasksProofs`: `TasksAreTyped`, `SlotHasOneRun`, `ItemsAreTrue`,
  `RunsAreExecutedOnce`, for any servers, commands, workers and faults. The
  invariant adds what an admission knows of its run at each statement, that an item
  follows its run, and that a worker's place tells the state of both: only then is
  an unconditional upsert from an old copy harmless. `TasksImplementQueue`: the
  items implement `WorkQueue`; admission's upsert is a Record because the invariant
  knows that no item of that run exists while an admission is about to write it.
* `SandboxProofs`: `SandboxIsTyped` and `HandleAlwaysFits` (the row fits because
  every copy in flight and every copy about to be saved does), `PausedIsRecoverable`
  from a second invariant: while the sandbox is calm, one call at most is in flight
  between a transition and its end, the row follows it, and the image lasts as long
  as it is named.
* `RelayProofs`: `AcknowledgedIsServed` and `LaterGenerationStays`, for any number
  of connections. The entry is the leased generation, generations not yet used are
  new, and a registered connection that is still open has the entry unless it was
  superseded or torn. `StreamsAreInOrder` and `RelayIsTyped`, for any number of
  streams, frames, generations and faults: the frames of a stream that can still
  arrive are numbered without a gap from the last one received on, and are all
  there as long as their sender has not closed the stream; a frame is in the queue
  of its stream's connection; both ends agree on which connection that is. With
  that, no received frame fails the check of its number, so `broken` stays false.
  `StreamsKeepTheContract` and, stream by stream, `EveryStreamIsOrdered`: every
  stream implements `OrderedStream`. A frame that is read is the next one written,
  both before and after the step, by the same invariant; what remains is that only
  a new stream is opened and that no end comes back from "gone".
* `PreviewCleanupProofs`: `CleanupIsTyped`, `AttemptsHaveOneWorker`,
  `CleanupsAreRetriedOnce`, for any calls, ticks, operators, events and limits. One
  worker per attempt needs that an attempt a tick works on is neither pending nor
  retry-scheduled, which only that tick's completion may change. One retry per
  failure needs that ticks only ever claim retries (`TicksHoldRetries`), so that
  what the service has recorded is spent for good once it was retried.

Only model-checked: liveness (`EveryAttemptSettles`, `DueWorkIsTaken`,
`TransitionsConverge`, `TtlEndsContainers`, `AcceptedRunsEnd`, `SessionsEnd`,
`WaitingAttemptsAreTaken`, `ExpiredIsCleaned`; fairness is out of the prover's
reach). Every safety property of the passing runs is also a theorem. The other way
round, `WorksAlone`, `ClaimIsExclusive`, `StreamsInOrder` and `RunningIsAttended`
are proved and, since a run checks something stronger, in no run of their own.

## 7. Plan and what is not modelled

Next, in this order: work items whose replica has died; domain certificates.

Not modelled, inside the modelled parts: prune of deployments and what is deployed
on hosts; other backends of the durable queue; requests, enrollment, certificate
rotation and upgrade of the relay; snapshots, relocation, quota and credentials of
sandboxes; schedule arithmetic; creation and policies of previews; read models.

Not modelled at all: runtime adapters, terminals and dev sessions (I/O with little
shared state), dependency resources and storage (CRUD over provider I/O), sandbox
agents and workspaces, and the web console, CLI, SDK, contracts, translations and
documentation (presentation or generated code). Most of the repository's lines are
of that kind, so the map covers a small share of all lines (about 1.5 %) and about
a fifth of the lines of the files it touches, where the rest is queries, error
texts, telemetry and conversions between rows and aggregates.
