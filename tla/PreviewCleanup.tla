---------------------------- MODULE PreviewCleanup ----------------------------
(***************************************************************************)
(* The cleanup of one preview environment and the process attempt journal  *)
(* that makes it durable: calls of the cleanup service (closed pull        *)
(* requests, deletions, the expiry scheduler), ticks of the retry          *)
(* scheduler, operator work commands and deployment events, one action per *)
(* statement.                                                              *)
(* app = packages/application/src/operations:                              *)
(*   app/preview-deployments/preview-cleanup.service.ts                    *)
(*   app/preview-deployments/preview-cleanup-retry-scheduler.ts            *)
(*   app/operator-work/*.use-case.ts                                       *)
(*   packages/persistence/pg/src/repositories/process-attempt-journal.ts   *)
(***************************************************************************)
EXTENDS Integers, FiniteSets

CONSTANTS
    Calls,        \* closed pull requests and deletions
    Expiry,       \* the expiry scheduler, which calls the service as well
    Ticks,        \* retry schedulers, one per replica
    Operators,    \* operator work commands
    Events,       \* deployment events of the pull request
    MaxIds,       \* bound: attempts recorded
    MaxFailures,  \* bound: cleanups that fail and may be retried
    MaxFaults,    \* bound: other failures and crashes
    Batch,        \* limit of a tick's lists
    Foreign       \* due attempts of other operations with the same kind

Callers == Calls \cup {Expiry}
Ids == 1 .. MaxIds

ASSUME PreviewCleanupAssumption ==
    /\ {MaxIds, MaxFailures, MaxFaults, Batch, Foreign} \subseteq Nat
    /\ Expiry \notin Calls
    /\ Callers \cap Ticks = {}
    /\ IsFiniteSet(Events)

VARIABLES
    env,       \* preview_environments.status
    expired,   \* expires_at has passed
    link,      \* the source link, which is the last thing a cleanup removes
    row,       \* process_attempt_journal by id
    base,      \* the attempt that has the dedupe key of the cleanup, 0: none
    lastId,
    proc,      \* the cleanup a caller or a tick is in
    op,        \* operator work commands
    event,     \* deployment events
    failures,
    faults

attempts == <<row, base, lastId>>
vars == <<env, expired, link, attempts, proc, op, event, failures, faults>>

Retryable == "retry-scheduled"
Prunable == {"succeeded", "failed", "canceled", "dead-lettered"}
Statuses == {"absent", "pending", "running", "deleted", Retryable} \cup Prunable

(* Columns of an attempt.  `of' is safe_details.retryOfWorkId and `phase'  *)
(* who made it.  retriable and due are read of waiting attempts only and   *)
(* are left FALSE and "none" in the others.                                *)
Attempts == [status : Statuses, retriable : BOOLEAN, due : {"none", "later", "now"},
             of : 0 .. MaxIds, phase : {"cleanup", "scheduler", "operator"}]

Results == {"none", "succeeded", Retryable, "failed"}

Present(i) == row[i].status \notin {"absent", "deleted"}

(* An attempt that has been given a status: what complete, record and the  *)
(* operator's overwrites write.                                            *)
Settled(a, s) ==
    [a EXCEPT !.status = s, !.retriable = s = Retryable,
              !.due = IF s = Retryable THEN "later" ELSE "none"]

(* What a retry leaves of its source, whoever makes the retry.             *)
Spent(a) == [a EXCEPT !.retriable = FALSE, !.due = "none"]

NewRetry(i, p) ==
    [status |-> "pending", retriable |-> FALSE, due |-> "none", of |-> i, phase |-> p]

Init ==
    /\ env = "active"
    /\ expired = FALSE
    /\ link \in BOOLEAN
    /\ row = [i \in Ids |-> [status |-> "absent", retriable |-> FALSE, due |-> "none",
                             of |-> 0, phase |-> "cleanup"]]
    /\ base = 0
    /\ lastId = 0
    /\ proc = [p \in Callers \cup Ticks |->
                  [pc |-> "idle", id |-> 0, result |-> "none", todo |-> {}, mine |-> {}]]
    /\ op = [o \in Operators |-> [pc |-> "idle", kind |-> "retry", id |-> 0]]
    /\ event = [e \in Events |-> "idle"]
    /\ failures = 0
    /\ faults = 0

Goto(p, here, there) ==
    /\ proc[p].pc = here
    /\ proc' = [proc EXCEPT ![p].pc = there]

-----------------------------------------------------------------------------
(* The cleanup service.                                                    *)

(* The expiry scheduler lists the active previews that have expired.       *)
(* Mutant: a preview that has been cleaned before is not listed.           *)
ListExpiredOnce ==
    /\ expired /\ env = "active" /\ base = 0
    /\ Goto(Expiry, "idle", "read")
    /\ UNCHANGED <<env, expired, link, attempts, op, event, failures, faults>>

ListExpired ==
    /\ expired /\ env = "active"
    /\ Goto(Expiry, "idle", "read")
    /\ UNCHANGED <<env, expired, link, attempts, op, event, failures, faults>>

AfterRequest(p) == IF p \in Ticks THEN "claim" ELSE "clean"

AfterRead(p) == IF env = "active" THEN "request" ELSE AfterRequest(p)

ReadEnvironment(c) ==
    /\ Goto(c, IF c = Expiry THEN "read" ELSE "idle", AfterRead(c))
    /\ UNCHANGED <<env, expired, link, attempts, op, event, failures, faults>>

RequestCleanup(p) ==
    /\ Goto(p, "request", AfterRequest(p))
    /\ env' = "cleanup-requested"
    /\ UNCHANGED <<expired, link, attempts, op, event, failures, faults>>

(* Runtime, dependencies, storage, tasks, routes, then the source link, and*)
(* after them the feedback: a cleanup that fails may have removed the link,*)
(* and one without a link removes nothing.                                 *)
Clean(p) ==
    /\ proc[p].pc = "clean"
    /\ \E r \in Results \ {"none"} :
          /\ proc' = [proc EXCEPT ![p].pc = IF p \in Ticks THEN "complete" ELSE "select",
                                  ![p].result = r]
          /\ link' \in IF r = "succeeded" THEN {FALSE} ELSE {link, FALSE}
          /\ IF r = Retryable THEN failures < MaxFailures /\ failures' = failures + 1
                              ELSE failures' = failures
          /\ IF r = "failed" THEN faults < MaxFaults /\ faults' = faults + 1
                             ELSE faults' = faults
    /\ UNCHANGED <<env, expired, attempts, op, event>>

SelectExisting(c) ==
    /\ proc[c].pc = "select"
    /\ proc' = [proc EXCEPT ![c].pc = "record", ![c].id = base]
    /\ UNCHANGED <<env, expired, link, attempts, op, event, failures, faults>>

(* record inserts, or updates the attempt it has selected and gives it the *)
(* new id.  It fails when the key was taken meanwhile or the attempt has   *)
(* gone, and nobody looks at the error.                                    *)
RecordResult(c) ==
    /\ proc[c].pc = "record"
    /\ proc' = [proc EXCEPT ![c].pc = IF c = Expiry THEN "idle" ELSE "done", ![c].id = 0,
                            ![c].result = "none"]
    /\ IF proc[c].id = base
       THEN /\ lastId < MaxIds
            /\ lastId' = lastId + 1
            /\ base' = lastId'
            /\ row' = [i \in Ids |-> IF i = lastId' THEN Settled(row[i], proc[c].result)
                                     ELSE IF i = base THEN Settled(row[i], "deleted")
                                     ELSE row[i]]
       ELSE UNCHANGED attempts
    /\ UNCHANGED <<env, expired, link, op, event, failures, faults>>

(* A statement fails or the process dies.                                  *)
CallFails(c) ==
    /\ proc[c].pc \notin {"idle", "done"}
    /\ faults < MaxFaults
    /\ faults' = faults + 1
    /\ proc' = [proc EXCEPT ![c].pc = IF c = Expiry THEN "idle" ELSE "done", ![c].id = 0,
                            ![c].result = "none"]
    /\ UNCHANGED <<env, expired, link, attempts, op, event, failures>>

CallStep(c) ==
    \/ RequestCleanup(c)
    \/ Clean(c)
    \/ SelectExisting(c)
    \/ RecordResult(c)

-----------------------------------------------------------------------------
(* The retry scheduler.  Its mutual exclusion among replicas is an option  *)
(* and its lease can be lost, so ticks run side by side.                   *)

DueRetries == {i \in Ids : row[i].status = Retryable /\ row[i].due = "now"}
(* Mutant: the retries of operators are not picked up.                     *)
PendingOfScheduler == {i \in Ids : row[i].status = "pending" /\ row[i].phase = "scheduler"}

Pending == {i \in Ids : row[i].status = "pending"}

(* A list of at most n members of S.                                       *)
Lists(S, n) ==
    {L \in SUBSET S : Cardinality(L) = IF Cardinality(S) <= n THEN Cardinality(S) ELSE n}

(* The limit is applied before attempts of other operations are skipped.   *)
ListDueRetries(t) ==
    /\ proc[t].pc = "idle"
    /\ \E L \in Lists(DueRetries, IF Foreign < Batch THEN Batch - Foreign ELSE 0) :
          proc' = [proc EXCEPT ![t].pc = "generate", ![t].todo = L, ![t].mine = {}]
    /\ UNCHANGED <<env, expired, link, attempts, op, event, failures, faults>>

(* Mutant: whether the source is still due is not asked again.             *)
GenerableTwice(i) == row[i].status = Retryable

Generable(i) == row[i].status = Retryable /\ row[i].retriable /\ row[i].due = "now"

(* One transaction: the source is spent if it is still due, and only then  *)
(* the retry inserted.                                                     *)
GenerateDueRetry(t) ==
    /\ proc[t].pc = "generate"
    /\ \E i \in proc[t].todo :
          IF Generable(i)
          THEN /\ lastId < MaxIds
               /\ lastId' = lastId + 1
               /\ row' = [row EXCEPT ![i] = Spent(@), ![lastId'] = NewRetry(i, "scheduler")]
               /\ proc' = [proc EXCEPT ![t].todo = @ \ {i}, ![t].mine = @ \cup {lastId'}]
          ELSE /\ proc' = [proc EXCEPT ![t].todo = @ \ {i}]
               /\ UNCHANGED <<row, lastId>>
    /\ UNCHANGED <<env, expired, link, base, op, event, failures, faults>>

ListPending(t) ==
    /\ proc[t].pc = "generate" /\ proc[t].todo = {}
    /\ \E L \in Lists(Pending, Batch) :
          proc' = [proc EXCEPT ![t].pc = "dispatch", ![t].todo = L \cup proc[t].mine,
                               ![t].mine = {}]
    /\ UNCHANGED <<env, expired, link, attempts, op, event, failures, faults>>

(* The next attempt, for which the environment is read.                    *)
Dispatch(t) ==
    /\ proc[t].pc = "dispatch"
    /\ IF proc[t].todo = {}
       THEN proc' = [proc EXCEPT ![t].pc = "idle"]
       ELSE \E i \in proc[t].todo :
               proc' = [proc EXCEPT ![t].pc = AfterRead(t), ![t].id = i, ![t].todo = @ \ {i}]
    /\ UNCHANGED <<env, expired, link, attempts, op, event, failures, faults>>

(* Mutant: whether the attempt is running already is not asked.            *)
ClaimableTwice(i) ==
    /\ row[i].status \in {"pending", "running", Retryable}
    /\ row[i].due # "later"

Claimable(i) ==
    /\ row[i].status \in {"pending", Retryable}
    /\ row[i].due # "later"

Claim(t) ==
    /\ proc[t].pc = "claim"
    /\ IF Claimable(proc[t].id)
       THEN /\ row' = [row EXCEPT ![proc[t].id] = Settled(@, "running")]
            /\ proc' = [proc EXCEPT ![t].pc = "clean"]
       ELSE /\ proc' = [proc EXCEPT ![t].pc = "dispatch", ![t].id = 0]
            /\ UNCHANGED row
    /\ UNCHANGED <<env, expired, link, base, lastId, op, event, failures, faults>>

Complete(t) ==
    /\ proc[t].pc = "complete"
    /\ row' = IF row[proc[t].id].status = "running"
              THEN [row EXCEPT ![proc[t].id] = Settled(@, proc[t].result)]
              ELSE row
    /\ proc' = [proc EXCEPT ![t].pc = "dispatch", ![t].id = 0, ![t].result = "none"]
    /\ UNCHANGED <<env, expired, link, base, lastId, op, event, failures, faults>>

(* An error of a statement of generateDueRetry, claim or complete concerns *)
(* that one attempt; another error, or a crash, ends the tick.             *)
TickFails(t) ==
    /\ proc[t].pc # "idle"
    /\ faults < MaxFaults
    /\ faults' = faults + 1
    /\ \/ proc' = [proc EXCEPT ![t] = [pc |-> "idle", id |-> 0, result |-> "none",
                                       todo |-> {}, mine |-> {}]]
       \/ /\ proc[t].pc = "generate"
          /\ \E i \in proc[t].todo : proc' = [proc EXCEPT ![t].todo = @ \ {i}]
       \/ /\ proc[t].pc \in {"claim", "complete"}
          /\ proc' = [proc EXCEPT ![t].pc = "dispatch", ![t].id = 0, ![t].result = "none"]
    /\ UNCHANGED <<env, expired, link, attempts, op, event, failures>>

TickStep(t) ==
    \/ ListDueRetries(t)
    \/ GenerateDueRetry(t)
    \/ ListPending(t)
    \/ Dispatch(t)
    \/ RequestCleanup(t)
    \/ Claim(t)
    \/ Clean(t)
    \/ Complete(t)

-----------------------------------------------------------------------------
(* Operator work: each command checks the attempt it has read and writes   *)
(* it by id, whatever it has become.                                       *)

Allowed ==
    [retry |-> {"failed", Retryable},
     cancel |-> {"pending", Retryable},
     deadLetter |-> {"failed", Retryable},
     recover |-> {"failed", Retryable, "dead-lettered"},
     prune |-> Prunable]

(* Mutant: a recovered attempt gets a status of its own.                   *)
OutcomeAsAnswered ==
    [cancel |-> "canceled", deadLetter |-> "dead-lettered", recover |-> "marked-recovered",
     prune |-> "deleted"]

Outcome ==
    [cancel |-> "canceled", deadLetter |-> "dead-lettered", recover |-> "succeeded",
     prune |-> "deleted"]

Finished == [pc |-> "done", kind |-> "retry", id |-> 0]

Decide(o) ==
    /\ op[o].pc = "idle"
    /\ \E k \in DOMAIN Allowed, i \in Ids :
          /\ row[i].status \in Allowed[k]
          /\ k = "retry" => row[i].retriable
          /\ op' = [op EXCEPT ![o] = [pc |-> "write", kind |-> k, id |-> i]]
    /\ UNCHANGED <<env, expired, link, attempts, proc, event, failures, faults>>

Overwrite(o) ==
    /\ op[o].pc = "write" /\ op[o].kind \in DOMAIN Outcome
    /\ op' = [op EXCEPT ![o] = Finished]
    /\ row' = IF Present(op[o].id)
              THEN [row EXCEPT ![op[o].id] = Settled(@, Outcome[op[o].kind])] ELSE row
    /\ base' = IF op[o].kind = "prune" /\ op[o].id = base THEN 0 ELSE base
    /\ UNCHANGED <<env, expired, link, lastId, proc, event, failures, faults>>

(* retry: an update of the source, whatever it is, and then an insert.     *)
SpendSource(o) ==
    /\ op[o].pc = "write" /\ op[o].kind = "retry"
    /\ op' = [op EXCEPT ![o].pc = "insert"]
    /\ row' = IF Present(op[o].id) THEN [row EXCEPT ![op[o].id] = Spent(@)] ELSE row
    /\ UNCHANGED <<env, expired, link, base, lastId, proc, event, failures, faults>>

InsertRetry(o) ==
    /\ op[o].pc = "insert"
    /\ lastId < MaxIds
    /\ lastId' = lastId + 1
    /\ op' = [op EXCEPT ![o] = Finished]
    /\ row' = [row EXCEPT ![lastId'] = NewRetry(op[o].id, "operator")]
    /\ UNCHANGED <<env, expired, link, base, proc, event, failures, faults>>

OperatorFails(o) ==
    /\ op[o].pc \in {"write", "insert"}
    /\ faults < MaxFaults
    /\ faults' = faults + 1
    /\ op' = [op EXCEPT ![o] = Finished]
    /\ UNCHANGED <<env, expired, link, attempts, proc, event, failures>>

OperatorStep(o) == Overwrite(o) \/ SpendSource(o) \/ InsertRetry(o)

-----------------------------------------------------------------------------
(* A deployment event reads the environment, refuses one that is not active*)
(* and writes the whole row back.                                          *)

ReadForDeploy(e) ==
    /\ event[e] = "idle"
    /\ event' = [event EXCEPT ![e] = IF env = "active" THEN "write" ELSE "done"]
    /\ UNCHANGED <<env, expired, link, attempts, proc, op, failures, faults>>

UpdateSource(e) ==
    /\ event[e] = "write"
    /\ event' = [event EXCEPT ![e] = "done"]
    /\ env' = "active"
    /\ UNCHANGED <<expired, link, attempts, proc, op, failures, faults>>

(* Time.                                                                   *)

BecomesDue(i) ==
    /\ row[i].due = "later"
    /\ row' = [row EXCEPT ![i].due = "now"]
    /\ UNCHANGED <<env, expired, link, base, lastId, proc, op, event, failures, faults>>

Expires ==
    /\ ~expired
    /\ expired' = TRUE
    /\ UNCHANGED <<env, link, attempts, proc, op, event, failures, faults>>

Next ==
    \/ ListExpired
    \/ \E c \in Callers : ReadEnvironment(c) \/ CallStep(c) \/ CallFails(c)
    \/ \E t \in Ticks : TickStep(t) \/ TickFails(t)
    \/ \E o \in Operators : Decide(o) \/ OperatorStep(o) \/ OperatorFails(o)
    \/ \E e \in Events : ReadForDeploy(e) \/ UpdateSource(e)
    \/ \E i \in Ids : BecomesDue(i)
    \/ Expires

Spec == Init /\ [][Next]_vars

(* Calls that have begun go on, both schedulers are enabled and their      *)
(* timers fire, and time passes.  Nobody has to call, decide or deploy.    *)
FairSpec ==
    /\ Spec
    /\ \A c \in Callers : WF_vars(CallStep(c))
    /\ WF_vars(ListExpired) /\ WF_vars(ReadEnvironment(Expiry))
    /\ \A t \in Ticks : WF_vars(TickStep(t))
    /\ \A o \in Operators : WF_vars(OperatorStep(o))
    /\ \A e \in Events : WF_vars(UpdateSource(e))
    /\ \A i \in Ids : WF_vars(BecomesDue(i))

-----------------------------------------------------------------------------
Cleanups ==
    [pc : {"idle", "read", "request", "clean", "select", "record", "generate",
           "dispatch", "claim", "complete", "done"},
     id : 0 .. MaxIds, result : Results, todo : SUBSET Ids, mine : SUBSET Ids]

Commands ==
    [pc : {"idle", "write", "insert", "done"}, kind : DOMAIN Allowed, id : 0 .. MaxIds]

TypeOK ==
    /\ env \in {"active", "cleanup-requested"}
    /\ expired \in BOOLEAN
    /\ link \in BOOLEAN
    /\ row \in [Ids -> Attempts]
    /\ base \in 0 .. lastId
    /\ lastId \in 0 .. MaxIds
    /\ proc \in [Callers \cup Ticks -> Cleanups]
    /\ op \in [Operators -> Commands]
    /\ event \in [Events -> {"idle", "write", "done"}]
    /\ failures \in 0 .. MaxFailures
    /\ faults \in 0 .. MaxFaults

(* docs/decisions/ADR-054: two workers cannot execute the same attempt     *)
(* concurrently, whatever operators do to it and without the lease of the  *)
(* scheduler.                                                              *)
OneWorkerPerAttempt ==
    \A s, t \in Ticks :
        /\ proc[s].pc \in {"clean", "complete"} /\ proc[t].pc \in {"clean", "complete"}
        /\ proc[s].id = proc[t].id
        => s = t

IsRetryOf(k, i) == row[k].status # "absent" /\ row[k].of = i

(* A failed cleanup is retried, and the scheduler retries it once however  *)
(* many of its ticks have listed it: an attempt is spent only when its     *)
(* retry is there or an operator is about to insert it.                    *)
RetriedOnce ==
    \A k, l \in Ids :
        /\ row[k].phase = "scheduler" /\ row[l].phase = "scheduler"
        /\ row[k].of = row[l].of
        /\ row[k].of # 0 /\ row[row[k].of].phase = "cleanup"
        => k = l

SpentHasRetry ==
    \A i \in Ids :
        row[i].status = Retryable /\ ~row[i].retriable =>
            \/ \E k \in Ids : IsRetryOf(k, i)
            \/ \E o \in Operators : op[o].pc = "insert" /\ op[o].id = i
            \/ faults > 0

FailuresAreRetriedOnce == RetriedOnce /\ SpentHasRetry

(* The same for what retries is not true: a tick that listed a retry while *)
(* it was pending claims it after others have run it, seen it fail and     *)
(* retried it, for a spent attempt still is retry-scheduled and claimDue   *)
(* takes a missing eligible time as due (README, section 5).               *)
RetriedIsNotRunAgain ==
    [][\A i \in Ids :
          row'[i].status = "running" /\ row[i].status # "running" =>
             \A k \in Ids : row[k].phase = "scheduler" => row[k].of # i]_vars

(* What waits is taken: again and again no attempt is pending or waits for *)
(* its retry, through all crashes and whatever operators do.               *)
Waits(i) ==
    \/ row[i].status = "pending"
    \/ row[i].status = Retryable /\ row[i].retriable

WaitingAttemptsAreTaken == []<>(\A i \in Ids : ~Waits(i))

(* A preview that has expired is requested to be cleaned and stays so, even*)
(* when a deployment event writes its older copy back, and it is cleaned to*)
(* the last step over cleanups and retries that fail, unless a statement or*)
(* a cleanup fails for good, something crashes, or an operator takes it up.*)
ExpiredIsCleaned ==
    expired ~> [](/\ env = "cleanup-requested"
                  /\ ~link \/ faults > 0 \/ \E o \in Operators : op[o].pc # "idle")
=============================================================================
