-------------------------- MODULE PreviewCleanupProofs --------------------------
(***************************************************************************)
(* PreviewCleanup for any number of callers, ticks, operators and faults.  *)
(* That no two ticks work on one attempt, and that the scheduler retries a *)
(* failed cleanup once, rest on what a tick may hold: an attempt it works  *)
(* on has been claimed and waits no more, and what it dispatches is a      *)
(* retry, never the attempt of the service itself.                         *)
(***************************************************************************)
EXTENDS PreviewCleanup, TLAPS

(* Ids are given out one after the other, and what somebody has in hand has*)
(* been given out.                                                         *)
FreshIsAbsent ==
    \A i \in Ids :
        IF i <= lastId THEN row[i].status # "absent"
        ELSE row[i].status = "absent" /\ row[i].phase = "cleanup" /\ row[i].of = 0
             /\ row[i].due = "none"

Held(t) == proc[t].pc \in {"request", "claim", "clean", "complete"}

TickIds ==
    \A t \in Ticks :
        /\ proc[t].todo \subseteq 1 .. lastId
        /\ proc[t].mine \subseteq 1 .. lastId
        /\ Held(t) => proc[t].id \in 1 .. lastId

OperatorIds ==
    \A o \in Operators : op[o].pc \in {"write", "insert"} => op[o].id \in 1 .. lastId

RetryIds == \A i \in Ids : row[i].of <= lastId

HasResult ==
    \A p \in Callers \cup Ticks :
        proc[p].pc \in {"select", "record", "complete"} => proc[p].result # "none"

(* A tick at work has claimed its attempt.                                 *)
Busy(t) == proc[t].pc \in {"clean", "complete"}

WorkIsClaimed ==
    \A t \in Ticks : Busy(t) => row[proc[t].id].status \notin {"pending", Retryable}

PendingIsRetry ==
    \A i \in Ids : row[i].status = "pending" => row[i].phase # "cleanup"

(* From its dispatch on, what a tick has in hand is a retry.               *)
Dispatching(t) == proc[t].pc \in {"dispatch", "request", "claim", "clean", "complete"}

TicksHoldRetries ==
    \A t \in Ticks :
        /\ \A i \in proc[t].mine : row[i].phase # "cleanup"
        /\ Dispatching(t) => \A i \in proc[t].todo : row[i].phase # "cleanup"
        /\ Held(t) => row[proc[t].id].phase # "cleanup"

RetriedIsSpent ==
    \A k \in Ids :
        /\ row[k].phase = "scheduler" /\ row[k].of # 0
        /\ row[row[k].of].phase = "cleanup"
        => ~row[row[k].of].retriable

IInv ==
    /\ TypeOK /\ FreshIsAbsent /\ TickIds /\ OperatorIds /\ RetryIds /\ HasResult
    /\ WorkIsClaimed /\ OneWorkerPerAttempt
    /\ PendingIsRetry /\ TicksHoldRetries
    /\ RetriedIsSpent /\ RetriedOnce /\ SpentHasRetry

LEMMA ListsAreParts ==
  ASSUME NEW S, NEW n, NEW L \in Lists(S, n)
  PROVE  L \subseteq S
  BY DEF Lists

(* What the columns of an attempt become.                                  *)
LEMMA Columns ==
  ASSUME NEW a \in Attempts
  PROVE  /\ a.status \in Statuses /\ a.retriable \in BOOLEAN /\ a.of \in 0 .. MaxIds
         /\ a.phase \in {"cleanup", "scheduler", "operator"}
  BY DEF Attempts

LEMMA SettledColumns ==
  ASSUME NEW a \in Attempts, NEW s \in Statuses
  PROVE  /\ Settled(a, s) \in Attempts
         /\ Settled(a, s).status = s /\ Settled(a, s).retriable = (s = Retryable)
         /\ Settled(a, s).of = a.of /\ Settled(a, s).phase = a.phase
  BY DEF Attempts, Settled

LEMMA SpentColumns ==
  ASSUME NEW a \in Attempts
  PROVE  /\ Spent(a) \in Attempts
         /\ Spent(a).status = a.status /\ Spent(a).retriable = FALSE
         /\ Spent(a).of = a.of /\ Spent(a).phase = a.phase
  BY DEF Attempts, Spent

LEMMA RetryColumns ==
  ASSUME NEW i \in 0 .. MaxIds, NEW p \in {"scheduler", "operator"}
  PROVE  /\ NewRetry(i, p) \in Attempts
         /\ NewRetry(i, p).status = "pending" /\ NewRetry(i, p).retriable = FALSE
         /\ NewRetry(i, p).of = i /\ NewRetry(i, p).phase = p
  BY DEF Attempts, NewRetry, Statuses

LEMMA DueColumns ==
  ASSUME NEW a \in Attempts
  PROVE  /\ [a EXCEPT !.due = "now"] \in Attempts
         /\ [a EXCEPT !.due = "now"].status = a.status
         /\ [a EXCEPT !.due = "now"].retriable = a.retriable
         /\ [a EXCEPT !.due = "now"].of = a.of /\ [a EXCEPT !.due = "now"].phase = a.phase
  BY DEF Attempts

LEMMA InitiallyNothing == Init => IInv
<1> SUFFICES ASSUME Init PROVE IInv
  OBVIOUS
<1> USE PreviewCleanupAssumption DEF Init
<1>1. row \in [Ids -> Attempts] /\ lastId \in 0 .. MaxIds /\ base \in 0 .. lastId
  BY DEF Attempts, Statuses, Ids
<1>2. proc \in [Callers \cup Ticks -> Cleanups]
  BY DEF Cleanups, Results, Ids
<1>3. op \in [Operators -> Commands]
  BY DEF Commands, Allowed
<1>4. env \in {"active", "cleanup-requested"} /\ expired \in BOOLEAN /\ link \in BOOLEAN
  OBVIOUS
<1>5. failures \in 0 .. MaxFailures /\ faults \in 0 .. MaxFaults
  OBVIOUS
<1>6. event \in [Events -> {"idle", "write", "done"}]
  OBVIOUS
<1>7. TypeOK
  BY <1>1, <1>2, <1>3, <1>4, <1>6, <1>5 DEF TypeOK
<1>8. FreshIsAbsent /\ TickIds /\ OperatorIds /\ RetryIds /\ HasResult
  BY DEF FreshIsAbsent, TickIds, OperatorIds, RetryIds, HasResult, Held, Ids
<1>9. WorkIsClaimed /\ OneWorkerPerAttempt
  BY DEF WorkIsClaimed, OneWorkerPerAttempt, Busy
<1>10. PendingIsRetry /\ TicksHoldRetries /\ RetriedIsSpent /\ RetriedOnce /\ SpentHasRetry
  BY DEF PendingIsRetry, TicksHoldRetries, Held, Dispatching, RetriedIsSpent, RetriedOnce,
         SpentHasRetry, Retryable
<1> QED
  BY <1>7, <1>8, <1>9, <1>10 DEF IInv

-----------------------------------------------------------------------------
(* Which steps write attempts, and which move callers, ticks and operators.*)

LEMMA WhoWritesRows ==
  ASSUME [Next]_vars
  PROVE  \/ UNCHANGED attempts
         \/ \E c \in Callers : RecordResult(c)
         \/ \E t \in Ticks : GenerateDueRetry(t) \/ Claim(t) \/ Complete(t)
         \/ \E o \in Operators : Overwrite(o) \/ SpendSource(o) \/ InsertRetry(o)
         \/ \E i \in Ids : BecomesDue(i)
<1>1. CASE UNCHANGED vars
  BY <1>1 DEF vars
<1>2. CASE ListExpired \/ Expires
  BY <1>2 DEF ListExpired, Expires
<1>3. ASSUME NEW c \in Callers, ReadEnvironment(c) \/ CallStep(c) \/ CallFails(c)
      PROVE  UNCHANGED attempts \/ RecordResult(c)
  BY <1>3 DEF ReadEnvironment, CallStep, RequestCleanup, Clean, SelectExisting, CallFails
<1>4. ASSUME NEW t \in Ticks, TickStep(t) \/ TickFails(t)
      PROVE  UNCHANGED attempts \/ GenerateDueRetry(t) \/ Claim(t) \/ Complete(t)
  BY <1>4 DEF TickStep, ListDueRetries, ListPending, Dispatch, RequestCleanup, Clean, TickFails
<1>5. ASSUME NEW o \in Operators, Decide(o) \/ OperatorStep(o) \/ OperatorFails(o)
      PROVE  UNCHANGED attempts \/ Overwrite(o) \/ SpendSource(o) \/ InsertRetry(o)
  BY <1>5 DEF Decide, OperatorStep, OperatorFails
<1>6. ASSUME NEW e \in Events, ReadForDeploy(e) \/ UpdateSource(e)
      PROVE  UNCHANGED attempts
  BY <1>6 DEF ReadForDeploy, UpdateSource
<1> QED
  BY <1>1, <1>2, <1>3, <1>4, <1>5, <1>6 DEF Next

LEMMA WhoMovesCalls ==
  ASSUME [Next]_vars
  PROVE  \/ UNCHANGED proc
         \/ ListExpired
         \/ \E c \in Callers : ReadEnvironment(c) \/ RequestCleanup(c) \/ Clean(c)
                              \/ SelectExisting(c) \/ RecordResult(c) \/ CallFails(c)
         \/ \E t \in Ticks : TickStep(t) \/ TickFails(t)
<1>1. CASE UNCHANGED vars
  BY <1>1 DEF vars
<1>2. ASSUME NEW o \in Operators, Decide(o) \/ OperatorStep(o) \/ OperatorFails(o)
      PROVE  UNCHANGED proc
  BY <1>2 DEF Decide, OperatorStep, Overwrite, SpendSource, InsertRetry, OperatorFails
<1>3. ASSUME NEW e \in Events, ReadForDeploy(e) \/ UpdateSource(e)
      PROVE  UNCHANGED proc
  BY <1>3 DEF ReadForDeploy, UpdateSource
<1>4. ASSUME NEW i \in Ids, BecomesDue(i)
      PROVE  UNCHANGED proc
  BY <1>4 DEF BecomesDue
<1>5. CASE Expires
  BY <1>5 DEF Expires
<1> QED
  BY <1>1, <1>2, <1>3, <1>4, <1>5 DEF Next, CallStep

LEMMA WhoMovesOperators ==
  ASSUME [Next]_vars
  PROVE  \/ UNCHANGED op
         \/ \E o \in Operators : Decide(o) \/ Overwrite(o) \/ SpendSource(o) \/ InsertRetry(o)
                                \/ OperatorFails(o)
<1>1. CASE UNCHANGED vars
  BY <1>1 DEF vars
<1>2. CASE ListExpired \/ Expires
  BY <1>2 DEF ListExpired, Expires
<1>3. ASSUME NEW c \in Callers, ReadEnvironment(c) \/ CallStep(c) \/ CallFails(c)
      PROVE  UNCHANGED op
  BY <1>3 DEF ReadEnvironment, CallStep, RequestCleanup, Clean, SelectExisting, RecordResult,
              CallFails
<1>4. ASSUME NEW t \in Ticks, TickStep(t) \/ TickFails(t)
      PROVE  UNCHANGED op
  BY <1>4 DEF TickStep, ListDueRetries, GenerateDueRetry, ListPending, Dispatch, RequestCleanup,
              Claim, Clean, Complete, TickFails
<1>5. ASSUME NEW e \in Events, ReadForDeploy(e) \/ UpdateSource(e)
      PROVE  UNCHANGED op
  BY <1>5 DEF ReadForDeploy, UpdateSource
<1>6. ASSUME NEW i \in Ids, BecomesDue(i)
      PROVE  UNCHANGED op
  BY <1>6 DEF BecomesDue
<1> QED
  BY <1>1, <1>2, <1>3, <1>4, <1>5, <1>6 DEF Next, OperatorStep

-----------------------------------------------------------------------------
(* What a step makes of the attempts that are there, and of the new one.   *)

Completes(i) ==
    \E t \in Ticks :
        /\ proc[t].pc = "complete" /\ proc[t].id = i /\ proc'[t].pc = "dispatch"

OldRows ==
    \A i \in 1 .. lastId :
        /\ row'[i].of = row[i].of /\ row'[i].phase = row[i].phase
        /\ row'[i].status # "absent"
        /\ row'[i].status = "pending" => row[i].status = "pending"
        /\ row'[i].status = Retryable => row[i].status = Retryable \/ Completes(i)
        /\ row'[i].retriable => row[i].retriable \/ Completes(i)
        /\ row'[i].status = Retryable /\ ~row'[i].retriable =>
              \/ row[i].status = Retryable /\ ~row[i].retriable
              \/ \E k \in Ids : row'[k].status = "pending" /\ row'[k].of = i
              \/ \E o \in Operators : op'[o].pc = "insert" /\ op'[o].id = i

Inserted ==
    /\ lastId' = lastId + 1 /\ lastId' \in Ids
    /\ row'[lastId'].status # "absent"
    /\ row'[lastId'].status = Retryable => row'[lastId'].retriable
    /\ \/ row'[lastId'].phase = "cleanup" /\ row'[lastId'].of = 0
          /\ row'[lastId'].status # "pending"
       \/ row'[lastId'].phase = "operator" /\ row'[lastId'].of \in 1 .. lastId
       \/ row'[lastId'].phase = "scheduler" /\ row'[lastId'].of \in 1 .. lastId
          /\ row[row'[lastId'].of].retriable /\ ~row'[row'[lastId'].of].retriable

RowsGoOn ==
    /\ row' \in [Ids -> Attempts]
    /\ lastId' \in 0 .. MaxIds /\ base' \in 0 .. lastId'
    /\ OldRows
    /\ lastId' = lastId \/ Inserted
    /\ \A i \in Ids : i > lastId' => row'[i] = row[i]

LEMMA RowsStep ==
  ASSUME TypeOK, FreshIsAbsent, TickIds, OperatorIds, HasResult, [Next]_vars
  PROVE  RowsGoOn
<1>1. row \in [Ids -> Attempts] /\ lastId \in 0 .. MaxIds /\ base \in 0 .. lastId /\ MaxIds \in Nat
  BY PreviewCleanupAssumption DEF TypeOK
<1>2. proc \in [Callers \cup Ticks -> Cleanups] /\ op \in [Operators -> Commands]
  BY DEF TypeOK
<1>3. \A i \in 1 .. lastId : i \in Ids /\ row[i].status # "absent"
  BY <1>1 DEF FreshIsAbsent, Ids
<1>4. \A i \in Ids : i > lastId => row[i].phase = "cleanup" /\ row[i].of = 0
                                      /\ row[i].due = "none"
  BY <1>1 DEF FreshIsAbsent, Ids
<1>5. CASE UNCHANGED attempts
  BY <1>1, <1>3, <1>5 DEF attempts, RowsGoOn, OldRows
<1>6. ASSUME NEW i \in 1 .. lastId, NEW a \in Attempts, row' = [row EXCEPT ![i] = a],
             UNCHANGED lastId, base' \in {base, 0},
             a.of = row[i].of, a.phase = row[i].phase, a.status \notin {"absent", "pending"} \/ a.status = row[i].status,
             a.status = Retryable => row[i].status = Retryable \/ Completes(i),
             a.retriable => row[i].retriable \/ Completes(i),
             a.status = Retryable /\ ~a.retriable =>
                 \/ row[i].status = Retryable /\ ~row[i].retriable
                 \/ \E o \in Operators : op'[o].pc = "insert" /\ op'[o].id = i
      PROVE  RowsGoOn
  <2>1. \A j \in Ids : row'[j] = IF j = i THEN a ELSE row[j]
    BY <1>1, <1>6
  <2>2. row' \in [Ids -> Attempts]
    BY <1>1, <1>6
  <2>3. OldRows
    BY <1>1, <1>3, <1>6, <2>1 DEF OldRows
  <2> QED
    BY <1>1, <1>3, <1>6, <2>1, <2>2, <2>3 DEF RowsGoOn
<1>7. ASSUME NEW c \in Callers, RecordResult(c)
      PROVE  RowsGoOn
  <2>1. CASE proc[c].id # base
    BY <1>5, <1>7, <2>1 DEF RecordResult
  <2> DEFINE new == lastId + 1
             s == proc[c].result
  <2>2. CASE proc[c].id = base
    <3>1. lastId < MaxIds /\ lastId' = new /\ base' = new /\ new \in Ids
      BY <1>1, <1>7, <2>2 DEF RecordResult, Ids
    <3>2. s \in Statuses /\ s \notin {"absent", "pending"}
      BY <1>2, <1>7 DEF RecordResult, HasResult, Cleanups, Results, Statuses, Prunable, Retryable
    <3>3. "deleted" \in Statuses
      BY DEF Statuses
    <3>4. row' = [i \in Ids |-> IF i = new THEN Settled(row[i], s)
                                 ELSE IF i = base THEN Settled(row[i], "deleted") ELSE row[i]]
      BY <1>7, <2>2, <3>1 DEF RecordResult
    <3>5. \A i \in Ids : row'[i] \in Attempts
      BY <1>1, <3>2, <3>3, <3>4, SettledColumns
    <3>6. /\ row'[new].status = s /\ row'[new].retriable = (s = Retryable)
          /\ row'[new].of = 0 /\ row'[new].phase = "cleanup"
      BY <1>1, <1>4, <3>1, <3>2, <3>4, SettledColumns
    <3>7. OldRows
      <4> SUFFICES ASSUME NEW i \in 1 .. lastId
                   PROVE  row'[i] = row[i] \/ /\ row'[i].of = row[i].of /\ row'[i].phase = row[i].phase
                                              /\ row'[i].status = "deleted" /\ row'[i].retriable = FALSE
        BY <1>3 DEF OldRows, Retryable
      <4>1. i \in Ids /\ i # new
        BY <1>1, <1>3
      <4> QED
        BY <1>1, <3>3, <3>4, <4>1, SettledColumns, ZenonT(60) DEF Retryable
    <3>8. row' \in [Ids -> Attempts]
      BY <3>4, <3>5
    <3>9. Inserted
      BY <3>1, <3>2, <3>6 DEF Inserted
    <3>10. \A i \in Ids : i > lastId' => row'[i] = row[i]
      BY <1>1, <3>1, <3>4 DEF Ids
    <3> QED
      BY <1>1, <3>1, <3>7, <3>8, <3>9, <3>10 DEF RowsGoOn
  <2> QED
    BY <2>1, <2>2
<1>8. ASSUME NEW t \in Ticks, GenerateDueRetry(t)
      PROVE  RowsGoOn
  <2>1. PICK i \in proc[t].todo :
              \/ /\ Generable(i) /\ lastId < MaxIds /\ lastId' = lastId + 1 /\ base' = base
                 /\ row' = [row EXCEPT ![i] = Spent(@), ![lastId'] = NewRetry(i, "scheduler")]
              \/ UNCHANGED attempts
    BY <1>8 DEF GenerateDueRetry, attempts
  <2>2. i \in 1 .. lastId /\ i \in Ids
    BY <1>3 DEF TickIds
  <2> DEFINE new == lastId + 1
  <2>3. CASE /\ Generable(i) /\ lastId < MaxIds /\ lastId' = new /\ base' = base
             /\ row' = [row EXCEPT ![i] = Spent(@), ![lastId'] = NewRetry(i, "scheduler")]
    <3>1. new \in Ids /\ new # i /\ lastId' = new
      BY <1>1, <2>2, <2>3 DEF Ids
    <3>2. \A j \in Ids : row'[j] = IF j = new THEN NewRetry(i, "scheduler")
                                    ELSE IF j = i THEN Spent(row[i]) ELSE row[j]
      BY <1>1, <2>2, <2>3, <3>1
    <3>3. /\ NewRetry(i, "scheduler") \in Attempts
          /\ row'[new].status = "pending" /\ row'[new].of = i /\ row'[new].phase = "scheduler"
      <4>1. i \in 0 .. MaxIds
        BY <1>1, <2>2
      <4>2. row'[new] = NewRetry(i, "scheduler")
        BY <3>1, <3>2
      <4>3. /\ NewRetry(i, "scheduler") \in Attempts
            /\ NewRetry(i, "scheduler").status = "pending"
            /\ NewRetry(i, "scheduler").of = i /\ NewRetry(i, "scheduler").phase = "scheduler"
        BY <4>1, RetryColumns
      <4> QED
        BY <4>2, <4>3
    <3>4. /\ Spent(row[i]) \in Attempts /\ row'[i].status = row[i].status
          /\ row'[i].retriable = FALSE
          /\ row'[i].of = row[i].of /\ row'[i].phase = row[i].phase
      <4>1. row[i] \in Attempts /\ row'[i] = Spent(row[i])
        BY <1>1, <2>2, <3>1, <3>2
      <4> QED
        BY <4>1, SpentColumns
    <3>5. row' \in [Ids -> Attempts]
      BY <1>1, <2>2, <2>3, <3>1, <3>3, <3>4
    <3>6. OldRows
      BY <1>1, <1>3, <2>2, <3>1, <3>2, <3>3, <3>4 DEF OldRows
    <3>7. row[i].retriable
      BY <2>3 DEF Generable
    <3> QED
      BY <1>1, <2>2, <2>3, <3>1, <3>2, <3>3, <3>4, <3>5, <3>6, <3>7 DEF RowsGoOn, Inserted, Retryable
  <2> QED
    BY <1>5, <2>1, <2>3
<1>9. ASSUME NEW t \in Ticks, Claim(t) \/ Complete(t)
      PROVE  RowsGoOn
  <2> DEFINE i == proc[t].id
  <2>1. i \in 1 .. lastId /\ i \in Ids /\ row[i] \in Attempts
    BY <1>1, <1>3, <1>9 DEF TickIds, Held, Claim, Complete
  <2>2. CASE Claim(t)
    <3>1. UNCHANGED attempts \/ (row' = [row EXCEPT ![i] = Settled(row[i], "running")] /\ UNCHANGED <<lastId, base>>)
      BY <2>2 DEF Claim, attempts
    <3>2. /\ Settled(row[i], "running") \in Attempts
          /\ Settled(row[i], "running").status = "running"
          /\ Settled(row[i], "running").retriable = FALSE
          /\ Settled(row[i], "running").of = row[i].of
          /\ Settled(row[i], "running").phase = row[i].phase
      <4>1. "running" \in Statuses /\ "running" # Retryable
        BY DEF Statuses, Retryable
      <4> QED
        BY <2>1, <4>1, SettledColumns
    <3> QED
      BY <1>5, <1>6, <2>1, <3>1, <3>2 DEF Retryable
  <2>3. CASE Complete(t)
    <3> DEFINE s == proc[t].result
    <3>1. UNCHANGED attempts \/ (row' = [row EXCEPT ![i] = Settled(row[i], s)] /\ UNCHANGED <<lastId, base>>)
      BY <2>3 DEF Complete, attempts
    <3>2. s \in Statuses /\ s \notin {"absent", "pending"}
      BY <1>2, <2>3 DEF Complete, HasResult, Cleanups, Results, Statuses, Prunable, Retryable
    <3>3. /\ Settled(row[i], s) \in Attempts
          /\ Settled(row[i], s).status = s
          /\ Settled(row[i], s).retriable = (s = Retryable)
          /\ Settled(row[i], s).of = row[i].of
          /\ Settled(row[i], s).phase = row[i].phase
      BY <2>1, <3>2, SettledColumns
    <3>4. Completes(i)
      BY <1>2, <2>3 DEF Complete, Completes, Cleanups
    <3> QED
      BY <1>5, <1>6, <2>1, <3>1, <3>2, <3>3, <3>4
  <2> QED
    BY <1>9, <2>2, <2>3
<1>10. ASSUME NEW o \in Operators, Overwrite(o) \/ SpendSource(o)
      PROVE  RowsGoOn
  <2> DEFINE i == op[o].id
  <2>1. i \in 1 .. lastId /\ i \in Ids /\ row[i] \in Attempts
    BY <1>1, <1>3, <1>10 DEF OperatorIds, Overwrite, SpendSource
  <2>2. CASE Overwrite(o)
    <3> DEFINE s == Outcome[op[o].kind]
    <3>1. /\ UNCHANGED row \/ row' = [row EXCEPT ![i] = Settled(row[i], s)]
          /\ UNCHANGED lastId /\ base' \in {base, 0}
      BY <2>2 DEF Overwrite
    <3>2. s \in Statuses /\ s \notin {"absent", "pending", Retryable}
      BY <2>2 DEF Overwrite, Outcome, Statuses, Prunable, Retryable
    <3>3. /\ Settled(row[i], s) \in Attempts
          /\ Settled(row[i], s).status = s
          /\ Settled(row[i], s).retriable = FALSE
          /\ Settled(row[i], s).of = row[i].of
          /\ Settled(row[i], s).phase = row[i].phase
      BY <2>1, <3>2, SettledColumns
    <3>4. CASE UNCHANGED row
      BY <1>1, <1>3, <3>1, <3>4 DEF RowsGoOn, OldRows
    <3>5. CASE row' = [row EXCEPT ![i] = Settled(row[i], s)]
      BY <1>6, <2>1, <3>1, <3>2, <3>3, <3>5
    <3> QED
      BY <3>1, <3>4, <3>5
  <2>3. CASE SpendSource(o)
    <3>1. UNCHANGED attempts \/ (row' = [row EXCEPT ![i] = Spent(row[i])] /\ UNCHANGED <<lastId, base>>)
      BY <2>3 DEF SpendSource, attempts
    <3>2. /\ Spent(row[i]) \in Attempts
          /\ Spent(row[i]).status = row[i].status
          /\ Spent(row[i]).retriable = FALSE
          /\ Spent(row[i]).of = row[i].of
          /\ Spent(row[i]).phase = row[i].phase
      BY <2>1, SpentColumns
    <3>3. op'[o].pc = "insert" /\ op'[o].id = i
      BY <1>2, <2>3 DEF SpendSource, Commands
    <3> QED
      BY <1>5, <1>6, <2>1, <3>1, <3>2, <3>3
  <2> QED
    BY <1>10, <2>2, <2>3
<1>11. ASSUME NEW o \in Operators, InsertRetry(o)
      PROVE  RowsGoOn
  <2> DEFINE i == op[o].id
             new == lastId + 1
  <2>1. i \in 1 .. lastId /\ i \in Ids
    BY <1>1, <1>3, <1>11 DEF OperatorIds, InsertRetry
  <2>2. lastId < MaxIds /\ lastId' = new /\ base' = base /\ new \in Ids /\ new # i
    BY <1>1, <1>11, <2>1 DEF InsertRetry, Ids
  <2>3. row' = [row EXCEPT ![new] = NewRetry(i, "operator")]
    BY <1>11, <2>2 DEF InsertRetry
  <2>4. /\ NewRetry(i, "operator") \in Attempts
        /\ NewRetry(i, "operator").status = "pending"
        /\ NewRetry(i, "operator").of = i /\ NewRetry(i, "operator").phase = "operator"
    <3>1. i \in 0 .. MaxIds
      BY <1>1, <2>1
    <3> QED
      BY <3>1, RetryColumns
  <2>5. \A j \in Ids : row'[j] = IF j = new THEN NewRetry(i, "operator") ELSE row[j]
    BY <1>1, <2>3
  <2>6. row' \in [Ids -> Attempts]
    BY <1>1, <2>3, <2>4
  <2>7. OldRows
    BY <1>1, <1>3, <2>5 DEF OldRows
  <2> QED
    BY <1>1, <2>1, <2>2, <2>4, <2>5, <2>6, <2>7 DEF RowsGoOn, Inserted, Retryable
<1>12. ASSUME NEW i \in Ids, BecomesDue(i)
      PROVE  RowsGoOn
  <2> DEFINE a == [row[i] EXCEPT !.due = "now"]
  <2>1. row' = [row EXCEPT ![i] = a] /\ UNCHANGED <<lastId, base>>
    BY <1>1, <1>12 DEF BecomesDue
  <2>2. /\ a \in Attempts /\ a.status = row[i].status /\ a.retriable = row[i].retriable
        /\ a.of = row[i].of /\ a.phase = row[i].phase
    BY <1>1, DueColumns
  <2>3. \A j \in Ids : row'[j] = IF j = i THEN a ELSE row[j]
    BY <1>1, <2>1
  <2>4. i \in 1 .. lastId
    BY <1>1, <1>4, <1>12 DEF BecomesDue, Ids
  <2> QED
    BY <1>6, <2>1, <2>2, <2>4
<1> QED
  BY <1>5, <1>7, <1>8, <1>9, <1>10, <1>11, <1>12, WhoWritesRows

LEMMA WhoChangesPreview ==
  ASSUME [Next]_vars
  PROVE  \/ UNCHANGED <<env, expired, link, event>>
         \/ \E p \in Callers \cup Ticks : RequestCleanup(p) \/ Clean(p)
         \/ \E e \in Events : ReadForDeploy(e) \/ UpdateSource(e)
         \/ Expires
<1>1. CASE UNCHANGED vars
  BY <1>1 DEF vars
<1>2. CASE ListExpired
  BY <1>2 DEF ListExpired
<1>3. ASSUME NEW c \in Callers, ReadEnvironment(c) \/ CallStep(c) \/ CallFails(c)
      PROVE  UNCHANGED <<env, expired, link, event>> \/ RequestCleanup(c) \/ Clean(c)
  BY <1>3 DEF ReadEnvironment, CallStep, SelectExisting, RecordResult, CallFails
<1>4. ASSUME NEW t \in Ticks, TickStep(t) \/ TickFails(t)
      PROVE  UNCHANGED <<env, expired, link, event>> \/ RequestCleanup(t) \/ Clean(t)
  BY <1>4 DEF TickStep, ListDueRetries, GenerateDueRetry, ListPending, Dispatch, Claim, Complete,
              TickFails
<1>5. ASSUME NEW o \in Operators, Decide(o) \/ OperatorStep(o) \/ OperatorFails(o)
      PROVE  UNCHANGED <<env, expired, link, event>>
  BY <1>5 DEF Decide, OperatorStep, Overwrite, SpendSource, InsertRetry, OperatorFails
<1>6. ASSUME NEW i \in Ids, BecomesDue(i)
      PROVE  UNCHANGED <<env, expired, link, event>>
  BY <1>6 DEF BecomesDue
<1> QED
  BY <1>1, <1>2, <1>3, <1>4, <1>5, <1>6 DEF Next

LEMMA WhoFails ==
  ASSUME [Next]_vars
  PROVE  \/ UNCHANGED <<failures, faults>>
         \/ \E p \in Callers \cup Ticks : Clean(p)
         \/ UNCHANGED failures /\ faults < MaxFaults /\ faults' = faults + 1
<1> DEFINE Fails == \/ UNCHANGED <<failures, faults>>
                    \/ \E p \in Callers \cup Ticks : Clean(p)
                    \/ UNCHANGED failures /\ faults < MaxFaults /\ faults' = faults + 1
<1>1. CASE UNCHANGED vars
  BY <1>1 DEF vars
<1>2. CASE ListExpired \/ Expires
  BY <1>2 DEF ListExpired, Expires
<1>3. ASSUME NEW c \in Callers, ReadEnvironment(c) \/ CallStep(c) \/ CallFails(c)
      PROVE  Fails
  BY <1>3 DEF ReadEnvironment, CallStep, RequestCleanup, SelectExisting, RecordResult, CallFails
<1>4. ASSUME NEW t \in Ticks, TickStep(t) \/ TickFails(t)
      PROVE  Fails
  BY <1>4 DEF TickStep, ListDueRetries, GenerateDueRetry, ListPending, Dispatch, RequestCleanup,
              Claim, Complete, TickFails
<1>5. ASSUME NEW o \in Operators, Decide(o) \/ OperatorStep(o) \/ OperatorFails(o)
      PROVE  Fails
  BY <1>5 DEF Decide, OperatorStep, Overwrite, SpendSource, InsertRetry, OperatorFails
<1>6. ASSUME NEW e \in Events, ReadForDeploy(e) \/ UpdateSource(e)
      PROVE  Fails
  BY <1>6 DEF ReadForDeploy, UpdateSource
<1>7. ASSUME NEW i \in Ids, BecomesDue(i)
      PROVE  Fails
  BY <1>7 DEF BecomesDue
<1> QED
  BY <1>1, <1>2, <1>3, <1>4, <1>5, <1>6, <1>7 DEF Next

-----------------------------------------------------------------------------
(* The types of calls, ticks and commands.                                 *)

CallsTyped == proc \in [Callers \cup Ticks -> Cleanups]

LEMMA CallsStayTyped ==
  ASSUME CallsTyped, TickIds, lastId \in 0 .. MaxIds, lastId' \in 0 .. MaxIds,
         base \in 0 .. MaxIds, MaxIds \in Nat, [Next]_vars
  PROVE  CallsTyped'
<1> USE DEF CallsTyped
<1>5. lastId \in 0 .. MaxIds /\ base \in 0 .. MaxIds /\ MaxIds \in Nat
  OBVIOUS
<1>1. CASE UNCHANGED proc
  BY <1>1
<1>2. CASE ListExpired
  BY <1>2 DEF ListExpired, Goto, Callers, Cleanups
<1>3. ASSUME NEW c \in Callers, \/ ReadEnvironment(c) \/ RequestCleanup(c) \/ Clean(c)
                                \/ SelectExisting(c) \/ RecordResult(c) \/ CallFails(c)
      PROVE  CallsTyped'
  <2>1. CASE ReadEnvironment(c)
    BY <2>1 DEF ReadEnvironment, Goto, AfterRead, AfterRequest, Cleanups, Results
  <2>2. CASE RequestCleanup(c)
    BY <2>2 DEF RequestCleanup, Goto, AfterRequest, Cleanups, Results
  <2>3. CASE Clean(c)
    <3>1. PICK r \in Results \ {"none"} :
              proc' = [proc EXCEPT ![c].pc = IF c \in Ticks THEN "complete" ELSE "select", ![c].result = r]
      BY <2>3 DEF Clean
    <3> DEFINE q == [proc[c] EXCEPT !.pc = IF c \in Ticks THEN "complete" ELSE "select", !.result = r]
    <3>8. q \in Cleanups
      BY <3>1, <1>5 DEF Cleanups, Results
    <3>9. proc' = [proc EXCEPT ![c] = q]
      BY <2>3, <3>1 DEF Clean
    <3> QED
      BY <3>8, <3>9
  <2>4. CASE SelectExisting(c)
    <3> DEFINE q == [proc[c] EXCEPT !.pc = "record", !.id = base]
    <3>8. q \in Cleanups
      BY <1>5 DEF Cleanups, Results
    <3>9. proc' = [proc EXCEPT ![c] = q]
      BY <2>4 DEF SelectExisting
    <3> QED
      BY <3>8, <3>9
  <2>5. CASE RecordResult(c)
    <3>1. 0 \in 0 .. MaxIds /\ "none" \in Results
      BY <1>5 DEF Results
    <3> DEFINE q == [proc[c] EXCEPT !.pc = IF c = Expiry THEN "idle" ELSE "done", !.id = 0, !.result = "none"]
    <3>8. q \in Cleanups
      BY <3>1, <1>5 DEF Cleanups
    <3>9. proc' = [proc EXCEPT ![c] = q]
      BY <2>5, <3>1 DEF RecordResult
    <3> QED
      BY <3>8, <3>9
  <2>6. CASE CallFails(c)
    <3>1. 0 \in 0 .. MaxIds /\ "none" \in Results
      BY <1>5 DEF Results
    <3> DEFINE q == [proc[c] EXCEPT !.pc = IF c = Expiry THEN "idle" ELSE "done", !.id = 0, !.result = "none"]
    <3>8. q \in Cleanups
      BY <3>1, <1>5 DEF Cleanups
    <3>9. proc' = [proc EXCEPT ![c] = q]
      BY <2>6, <3>1 DEF CallFails
    <3> QED
      BY <3>8, <3>9
  <2> QED
    BY <1>3, <2>1, <2>2, <2>3, <2>4, <2>5, <2>6
<1>4. ASSUME NEW t \in Ticks, TickStep(t) \/ TickFails(t)
      PROVE  CallsTyped'
  <2>1. CASE ListDueRetries(t)
    <3>1. PICK L \in Lists(DueRetries, IF Foreign < Batch THEN Batch - Foreign ELSE 0) :
              proc' = [proc EXCEPT ![t].pc = "generate", ![t].todo = L, ![t].mine = {}]
      BY <2>1 DEF ListDueRetries
    <3>2. L \subseteq Ids
      BY <3>1, ListsAreParts DEF DueRetries
    <3> DEFINE q == [proc[t] EXCEPT !.pc = "generate", !.todo = L, !.mine = {}]
    <3>8. q \in Cleanups
      BY <3>2, <1>5 DEF Cleanups, Results
    <3>9. proc' = [proc EXCEPT ![t] = q]
      BY <2>1, <3>1 DEF ListDueRetries
    <3> QED
      BY <3>8, <3>9
  <2>2. CASE GenerateDueRetry(t)
    BY <2>2 DEF GenerateDueRetry, Cleanups, Results, TickIds, Ids
  <2>3. CASE ListPending(t)
    <3>1. PICK L \in Lists(Pending, Batch) :
              proc' = [proc EXCEPT ![t].pc = "dispatch", ![t].todo = L \cup proc[t].mine,
                                        ![t].mine = {}]
      BY <2>3 DEF ListPending
    <3>2. L \subseteq Ids
      BY <3>1, ListsAreParts DEF Pending
    <3> DEFINE q == [proc[t] EXCEPT !.pc = "dispatch", !.todo = L \cup proc[t].mine, !.mine = {}]
    <3>8. q \in Cleanups
      BY <3>2, <1>5 DEF Cleanups, Results
    <3>9. proc' = [proc EXCEPT ![t] = q]
      BY <2>3, <3>1 DEF ListPending
    <3> QED
      BY <3>8, <3>9
  <2>4. CASE Dispatch(t)
    <3>1. CASE proc[t].todo = {}
      BY <2>4, <3>1 DEF Dispatch, Cleanups
    <3>2. CASE proc[t].todo # {}
      <4>1. PICK i \in proc[t].todo :
                proc' = [proc EXCEPT ![t].pc = AfterRead(t), ![t].id = i, ![t].todo = @ \ {i}]
        BY <2>4, <3>2 DEF Dispatch
      <4>2. i \in 0 .. MaxIds /\ proc[t].todo \subseteq Ids
        BY <1>5 DEF TickIds, Ids, Cleanups
      <4> DEFINE q == [proc[t] EXCEPT !.pc = AfterRead(t), !.id = i, !.todo = @ \ {i}]
      <4>3. q \in Cleanups
        BY <4>2 DEF Cleanups, AfterRead, AfterRequest
      <4> QED
        BY <4>1, <4>3
    <3> QED
      BY <3>1, <3>2
  <2>5. CASE RequestCleanup(t)
    BY <2>5 DEF RequestCleanup, Goto, AfterRequest, Cleanups, Results
  <2>6. CASE Claim(t)
    BY <2>6 DEF Claim, Cleanups, Results
  <2>7. CASE Clean(t)
    <3>1. PICK r \in Results \ {"none"} :
              proc' = [proc EXCEPT ![t].pc = IF t \in Ticks THEN "complete" ELSE "select", ![t].result = r]
      BY <2>7 DEF Clean
    <3> DEFINE q == [proc[t] EXCEPT !.pc = IF t \in Ticks THEN "complete" ELSE "select", !.result = r]
    <3>8. q \in Cleanups
      BY <3>1, <1>5 DEF Cleanups, Results
    <3>9. proc' = [proc EXCEPT ![t] = q]
      BY <2>7, <3>1 DEF Clean
    <3> QED
      BY <3>8, <3>9
  <2>8. CASE Complete(t)
    <3>1. 0 \in 0 .. MaxIds /\ "none" \in Results
      BY <1>5 DEF Results
    <3> DEFINE q == [proc[t] EXCEPT !.pc = "dispatch", !.id = 0, !.result = "none"]
    <3>8. q \in Cleanups
      BY <3>1, <1>5 DEF Cleanups
    <3>9. proc' = [proc EXCEPT ![t] = q]
      BY <2>8, <3>1 DEF Complete
    <3> QED
      BY <3>8, <3>9
  <2>9. CASE TickFails(t)
    BY <2>9 DEF TickFails, Cleanups, Results
  <2> QED
    BY <1>4, <2>1, <2>2, <2>3, <2>4, <2>5, <2>6, <2>7, <2>8, <2>9 DEF TickStep
<1> QED
  BY <1>1, <1>2, <1>3, <1>4, WhoMovesCalls

LEMMA ResultsStay ==
  ASSUME CallsTyped, HasResult, [Next]_vars
  PROVE  HasResult'
<1> USE DEF CallsTyped, HasResult
<1>1. CASE UNCHANGED proc
  BY <1>1
<1>2. CASE ListExpired
  BY <1>2 DEF ListExpired, Goto, Callers, Cleanups
<1>3. ASSUME NEW c \in Callers, \/ ReadEnvironment(c) \/ RequestCleanup(c) \/ Clean(c)
                                \/ SelectExisting(c) \/ RecordResult(c) \/ CallFails(c)
      PROVE  HasResult'
  <2>1. CASE ReadEnvironment(c)
    BY <2>1 DEF ReadEnvironment, Goto, AfterRead, AfterRequest, Cleanups
  <2>2. CASE RequestCleanup(c)
    BY <2>2 DEF RequestCleanup, Goto, AfterRequest, Cleanups
  <2>3. CASE Clean(c)
    BY <2>3 DEF Clean, Cleanups
  <2>4. CASE SelectExisting(c)
    BY <2>4 DEF SelectExisting, Cleanups
  <2>5. CASE RecordResult(c)
    BY <2>5 DEF RecordResult, Cleanups
  <2>6. CASE CallFails(c)
    BY <2>6 DEF CallFails, Cleanups
  <2> QED
    BY <1>3, <2>1, <2>2, <2>3, <2>4, <2>5, <2>6
<1>4. ASSUME NEW t \in Ticks, TickStep(t) \/ TickFails(t)
      PROVE  HasResult'
  <2>1. CASE ListDueRetries(t)
    BY <2>1 DEF ListDueRetries, DueRetries, Cleanups
  <2>2. CASE GenerateDueRetry(t)
    BY <2>2 DEF GenerateDueRetry, Cleanups
  <2>3. CASE ListPending(t)
    BY <2>3 DEF ListPending, Pending, Cleanups
  <2>4. CASE Dispatch(t)
    <3>1. \A p \in Callers \cup Ticks : p # t => proc'[p] = proc[p]
      BY <2>4 DEF Dispatch
    <3>2. CASE proc[t].todo = {}
      BY <2>4, <3>1, <3>2 DEF Dispatch, Cleanups
    <3>3. CASE proc[t].todo # {}
      <4>1. AfterRead(t) \in {"request", "claim"}
        BY DEF AfterRead, AfterRequest
      <4>2. proc'[t].pc = AfterRead(t)
        BY <2>4, <3>3 DEF Dispatch, Cleanups
      <4> QED
        BY <3>1, <4>1, <4>2
    <3> QED
      BY <3>2, <3>3
  <2>5. CASE RequestCleanup(t)
    BY <2>5 DEF RequestCleanup, Goto, AfterRequest, Cleanups
  <2>6. CASE Claim(t)
    BY <2>6 DEF Claim, Cleanups
  <2>7. CASE Clean(t)
    BY <2>7 DEF Clean, Cleanups
  <2>8. CASE Complete(t)
    BY <2>8 DEF Complete, Cleanups
  <2>9. CASE TickFails(t)
    BY <2>9 DEF TickFails, Cleanups
  <2> QED
    BY <1>4, <2>1, <2>2, <2>3, <2>4, <2>5, <2>6, <2>7, <2>8, <2>9 DEF TickStep
<1> QED
  BY <1>1, <1>2, <1>3, <1>4, WhoMovesCalls

LEMMA CommandsStayTyped ==
  ASSUME op \in [Operators -> Commands], [Next]_vars, MaxIds \in Nat
  PROVE  op' \in [Operators -> Commands]
<1>1. ASSUME NEW o \in Operators, Decide(o)
      PROVE  op' \in [Operators -> Commands]
  BY <1>1 DEF Decide, Commands, Ids
<1>2. ASSUME NEW o \in Operators, Overwrite(o) \/ InsertRetry(o) \/ OperatorFails(o)
      PROVE  op' \in [Operators -> Commands]
  BY <1>2 DEF Overwrite, InsertRetry, OperatorFails, Finished, Commands, Allowed
<1>3. ASSUME NEW o \in Operators, SpendSource(o)
      PROVE  op' \in [Operators -> Commands]
  BY <1>3 DEF SpendSource, Commands
<1> QED
  BY <1>1, <1>2, <1>3, WhoMovesOperators

LEMMA Typed ==
  ASSUME TypeOK, RowsGoOn, TickIds, [Next]_vars
  PROVE  TypeOK'
<1>1. MaxIds \in Nat /\ lastId \in 0 .. MaxIds /\ lastId' \in 0 .. MaxIds /\ base \in 0 .. MaxIds
  BY PreviewCleanupAssumption DEF TypeOK, RowsGoOn
<1>2. proc' \in [Callers \cup Ticks -> Cleanups]
  BY <1>1, CallsStayTyped DEF TypeOK, CallsTyped
<1>3. op' \in [Operators -> Commands]
  BY <1>1, CommandsStayTyped DEF TypeOK
<1>4. env' \in {"active", "cleanup-requested"} /\ expired' \in BOOLEAN /\ link' \in BOOLEAN
      /\ event' \in [Events -> {"idle", "write", "done"}]
  <2>1. env \in {"active", "cleanup-requested"} /\ expired \in BOOLEAN /\ link \in BOOLEAN
        /\ event \in [Events -> {"idle", "write", "done"}]
    BY DEF TypeOK
  <2>2. CASE UNCHANGED <<env, expired, link, event>>
    BY <2>1, <2>2
  <2>3. ASSUME NEW p \in Callers \cup Ticks, RequestCleanup(p) \/ Clean(p)
        PROVE  /\ env' \in {"active", "cleanup-requested"} /\ expired' \in BOOLEAN
               /\ link' \in BOOLEAN /\ event' \in [Events -> {"idle", "write", "done"}]
    BY <2>1, <2>3 DEF RequestCleanup, Clean
  <2>4. ASSUME NEW e \in Events, ReadForDeploy(e) \/ UpdateSource(e)
        PROVE  /\ env' \in {"active", "cleanup-requested"} /\ expired' \in BOOLEAN
               /\ link' \in BOOLEAN /\ event' \in [Events -> {"idle", "write", "done"}]
    BY <2>1, <2>4 DEF ReadForDeploy, UpdateSource
  <2>5. CASE Expires
    BY <2>1, <2>5 DEF Expires
  <2> QED
    BY <2>2, <2>3, <2>4, <2>5, WhoChangesPreview
<1>5. failures' \in 0 .. MaxFailures /\ faults' \in 0 .. MaxFaults
  <2>1. /\ failures \in 0 .. MaxFailures /\ MaxFailures \in Nat
        /\ faults \in 0 .. MaxFaults /\ MaxFaults \in Nat
    BY PreviewCleanupAssumption DEF TypeOK
  <2>2. CASE UNCHANGED <<failures, faults>>
    BY <2>1, <2>2
  <2>3. ASSUME NEW p \in Callers \cup Ticks, Clean(p)
        PROVE  failures' \in 0 .. MaxFailures /\ faults' \in 0 .. MaxFaults
    BY <2>1, <2>3 DEF Clean
  <2>4. CASE UNCHANGED failures /\ faults < MaxFaults /\ faults' = faults + 1
    BY <2>1, <2>4
  <2> QED
    BY <2>2, <2>3, <2>4, WhoFails
<1> QED
  BY <1>2, <1>3, <1>4, <1>5 DEF TypeOK, RowsGoOn

-----------------------------------------------------------------------------
(* What a step makes of what a tick has in hand.                           *)

Unmoved(t) == proc'[t] = proc[t]

MoveOf(t) ==
    /\ \A i \in proc'[t].mine :
          i \in proc[t].mine \/ (Inserted /\ i = lastId' /\ row'[i].phase = "scheduler")
    /\ \A i \in proc'[t].todo :
          \/ i \in proc[t].todo /\ (Dispatching(t)' => Dispatching(t))
          \/ i \in proc[t].mine
          \/ i \in Pending
          \/ i \in DueRetries /\ ~Dispatching(t)'
    /\ Held(t)' => \/ Held(t) /\ proc'[t].id = proc[t].id
                   \/ Dispatching(t) /\ proc'[t].id \in proc[t].todo
    /\ Busy(t)' =>
          /\ Held(t) /\ proc'[t].id = proc[t].id
          /\ \/ Busy(t)
             \/ /\ row[proc[t].id].status \in {"pending", Retryable}
                /\ row'[proc[t].id].status = "running"
                /\ \A u \in Ticks : u # t => Unmoved(u)

LEMMA UnmovedTick ==
  ASSUME NEW t \in Ticks, Unmoved(t)
  PROVE  MoveOf(t)
  BY DEF Unmoved, MoveOf, Dispatching, Held, Busy

LEMMA TicksMove ==
  ASSUME CallsTyped, row \in [Ids -> Attempts], TickIds, lastId \in 0 .. MaxIds, MaxIds \in Nat,
         [Next]_vars, NEW t \in Ticks
  PROVE  MoveOf(t)
<1> USE DEF CallsTyped
<1>1. CASE UNCHANGED proc
  BY <1>1, UnmovedTick DEF Unmoved
<1>2. CASE ListExpired \/ \E c \in Callers : \/ ReadEnvironment(c) \/ RequestCleanup(c) \/ Clean(c)
                                             \/ SelectExisting(c) \/ RecordResult(c) \/ CallFails(c)
  <2>1. Expiry # t /\ Expiry \in Callers /\ \A c \in Callers : c # t
    BY PreviewCleanupAssumption DEF Callers
  <2>2. Unmoved(t)
    BY <1>2, <2>1 DEF Unmoved, ListExpired, ReadEnvironment, RequestCleanup, Goto, Clean,
                      SelectExisting, RecordResult, CallFails
  <2> QED
    BY <2>2, UnmovedTick
<1>3. ASSUME NEW s \in Ticks, TickStep(s) \/ TickFails(s)
      PROVE  \A u \in Ticks : u # s => Unmoved(u)
  BY <1>3 DEF Unmoved, TickStep, ListDueRetries, GenerateDueRetry, ListPending, Dispatch,
              RequestCleanup, Goto, Claim, Clean, Complete, TickFails
<1>4. ASSUME TickStep(t) \/ TickFails(t)
      PROVE  MoveOf(t)
  <2>1. CASE ListDueRetries(t)
    <3>1. PICK L \in Lists(DueRetries, IF Foreign < Batch THEN Batch - Foreign ELSE 0) :
              proc' = [proc EXCEPT ![t].pc = "generate", ![t].todo = L, ![t].mine = {}]
      BY <2>1 DEF ListDueRetries
    <3>2. L \subseteq DueRetries
      BY <3>1, ListsAreParts
    <3>3. proc'[t].pc = "generate" /\ proc'[t].todo = L /\ proc'[t].mine = {}
      BY <3>1 DEF Cleanups
    <3> QED
      BY <3>2, <3>3 DEF MoveOf, Dispatching, Held, Busy
  <2>2. CASE GenerateDueRetry(t)
    <3>1. PICK i \in proc[t].todo :
              \/ /\ lastId < MaxIds /\ lastId' = lastId + 1
                 /\ row' = [row EXCEPT ![i] = Spent(@), ![lastId'] = NewRetry(i, "scheduler")]
                 /\ proc' = [proc EXCEPT ![t].todo = @ \ {i}, ![t].mine = @ \cup {lastId'}]
                 /\ Generable(i)
              \/ proc' = [proc EXCEPT ![t].todo = @ \ {i}]
      BY <2>2 DEF GenerateDueRetry
    <3>2. proc[t].pc = "generate" /\ proc'[t].pc = "generate" /\ proc'[t].todo \subseteq proc[t].todo
      BY <2>2 DEF GenerateDueRetry, Cleanups
    <3>3. CASE proc' = [proc EXCEPT ![t].todo = @ \ {i}]
      <4>1. proc'[t].mine = proc[t].mine
        BY <3>3 DEF Cleanups
      <4> QED
        BY <3>2, <4>1 DEF MoveOf, Dispatching, Held, Busy
    <3>4. CASE /\ lastId < MaxIds /\ lastId' = lastId + 1
               /\ row' = [row EXCEPT ![i] = Spent(@), ![lastId'] = NewRetry(i, "scheduler")]
               /\ proc' = [proc EXCEPT ![t].todo = @ \ {i}, ![t].mine = @ \cup {lastId'}]
               /\ Generable(i)
      <4>1. proc'[t].mine = proc[t].mine \cup {lastId'}
        BY <3>4 DEF Cleanups
      <4>2. i \in 1 .. lastId /\ i \in Ids /\ lastId' \in Ids /\ lastId' # i
        BY <3>4 DEF TickIds, Ids
      <4>3. row'[lastId'] = NewRetry(i, "scheduler") /\ row'[i] = Spent(row[i])
        BY <3>4, <4>2
      <4>4. row'[lastId'].status = "pending" /\ row'[lastId'].of = i /\ row'[lastId'].phase = "scheduler"
        BY <4>3 DEF NewRetry
      <4>5. row[i].retriable /\ row'[i].retriable = FALSE
        BY <3>4, <4>2, <4>3, SpentColumns DEF Generable
      <4>6. Inserted
        BY <3>4, <4>2, <4>4, <4>5 DEF Inserted, Retryable
      <4> QED
        BY <3>2, <4>1, <4>4, <4>6 DEF MoveOf, Dispatching, Held, Busy
    <3> QED
      BY <3>1, <3>3, <3>4
  <2>3. CASE ListPending(t)
    <3>1. PICK L \in Lists(Pending, Batch) :
              proc' = [proc EXCEPT ![t].pc = "dispatch", ![t].todo = L \cup proc[t].mine,
                                   ![t].mine = {}]
      BY <2>3 DEF ListPending
    <3>2. L \subseteq Pending
      BY <3>1, ListsAreParts
    <3>3. proc'[t].pc = "dispatch" /\ proc'[t].todo = L \cup proc[t].mine /\ proc'[t].mine = {}
      BY <3>1 DEF Cleanups
    <3> QED
      BY <3>2, <3>3 DEF MoveOf, Held, Busy
  <2>4. CASE Dispatch(t)
    <3>1. CASE proc[t].todo = {}
      <4>1. proc'[t].pc = "idle" /\ proc'[t].todo = {} /\ proc'[t].mine = proc[t].mine
        BY <2>4, <3>1 DEF Dispatch, Cleanups
      <4> QED
        BY <4>1 DEF MoveOf, Dispatching, Held, Busy
    <3>2. CASE proc[t].todo # {}
      <4>1. PICK i \in proc[t].todo :
                proc' = [proc EXCEPT ![t].pc = AfterRead(t), ![t].id = i, ![t].todo = @ \ {i}]
        BY <2>4, <3>2 DEF Dispatch
      <4>2. /\ proc'[t].pc = AfterRead(t) /\ proc'[t].id = i /\ proc'[t].todo = proc[t].todo \ {i}
            /\ proc'[t].mine = proc[t].mine
        BY <4>1 DEF Cleanups
      <4>3. AfterRead(t) \in {"request", "claim"} /\ proc[t].pc = "dispatch"
        BY <2>4 DEF Dispatch, AfterRead, AfterRequest
      <4> QED
        BY <4>2, <4>3 DEF MoveOf, Dispatching, Held, Busy
    <3> QED
      BY <3>1, <3>2
  <2>5. CASE RequestCleanup(t)
    <3>1. /\ proc[t].pc = "request" /\ proc'[t].pc = "claim" /\ proc'[t].id = proc[t].id
          /\ proc'[t].todo = proc[t].todo /\ proc'[t].mine = proc[t].mine
      BY <2>5 DEF RequestCleanup, Goto, AfterRequest, Cleanups
    <3> QED
      BY <3>1 DEF MoveOf, Dispatching, Held, Busy
  <2>6. CASE Claim(t)
    <3> DEFINE i == proc[t].id
    <3>1. proc[t].pc = "claim" /\ i \in 1 .. lastId /\ i \in Ids
      BY <2>6 DEF Claim, TickIds, Held, Ids
    <3>2. proc'[t].todo = proc[t].todo /\ proc'[t].mine = proc[t].mine
      BY <2>6 DEF Claim, Cleanups
    <3>3. CASE Claimable(i)
      <4>1. proc'[t].pc = "clean" /\ proc'[t].id = i
        BY <2>6, <3>3 DEF Claim, Cleanups
      <4>2. row[i].status \in {"pending", Retryable} /\ row'[i].status = "running"
        <5>1. row[i].status \in {"pending", Retryable}
          BY <3>3 DEF Claimable
        <5>2. row' = [row EXCEPT ![i] = Settled(@, "running")]
          BY <2>6, <3>3 DEF Claim
        <5>3. row'[i] = Settled(row[i], "running") /\ row[i] \in Attempts
          BY <3>1, <5>2
        <5> QED
          BY <5>1, <5>3, SettledColumns DEF Statuses
      <4> QED
        BY <1>3, <3>1, <3>2, <4>1, <4>2, <1>4 DEF MoveOf, Dispatching, Held, Busy
    <3>4. CASE ~Claimable(i)
      <4>1. proc'[t].pc = "dispatch"
        BY <2>6, <3>4 DEF Claim, Cleanups
      <4> QED
        BY <3>1, <3>2, <4>1 DEF MoveOf, Dispatching, Held, Busy
    <3> QED
      BY <3>3, <3>4
  <2>7. CASE Clean(t)
    <3>1. PICK r \in Results :
              proc' = [proc EXCEPT ![t].pc = IF t \in Ticks THEN "complete" ELSE "select",
                                   ![t].result = r]
      BY <2>7 DEF Clean
    <3>2. /\ proc'[t].pc = "complete" /\ proc'[t].id = proc[t].id
          /\ proc'[t].todo = proc[t].todo /\ proc'[t].mine = proc[t].mine
      BY <3>1 DEF Cleanups
    <3>3. proc[t].pc = "clean"
      BY <2>7 DEF Clean
    <3> QED
      BY <3>2, <3>3 DEF MoveOf, Dispatching, Held, Busy
  <2>8. CASE Complete(t)
    <3>1. /\ proc[t].pc = "complete" /\ proc'[t].pc = "dispatch"
          /\ proc'[t].todo = proc[t].todo /\ proc'[t].mine = proc[t].mine
      BY <2>8 DEF Complete, Cleanups
    <3> QED
      BY <3>1 DEF MoveOf, Dispatching, Held, Busy
  <2>9. CASE TickFails(t)
    <3>1. CASE proc' = [proc EXCEPT ![t] = [pc |-> "idle", id |-> 0, result |-> "none",
                                            todo |-> {}, mine |-> {}]]
      <4>1. proc'[t].pc = "idle" /\ proc'[t].todo = {} /\ proc'[t].mine = {}
        BY <3>1
      <4> QED
        BY <4>1 DEF MoveOf, Dispatching, Held, Busy
    <3>2. CASE proc[t].pc = "generate" /\ \E i \in proc[t].todo : proc' = [proc EXCEPT ![t].todo = @ \ {i}]
      <4>1. /\ proc'[t].pc = "generate" /\ proc'[t].todo \subseteq proc[t].todo
            /\ proc'[t].mine = proc[t].mine
        BY <3>2 DEF Cleanups
      <4> QED
        BY <3>2, <4>1 DEF MoveOf, Dispatching, Held, Busy
    <3>3. CASE /\ proc[t].pc \in {"claim", "complete"}
               /\ proc' = [proc EXCEPT ![t].pc = "dispatch", ![t].id = 0, ![t].result = "none"]
      <4>1. /\ proc'[t].pc = "dispatch" /\ proc'[t].todo = proc[t].todo
            /\ proc'[t].mine = proc[t].mine
        BY <3>3 DEF Cleanups
      <4> QED
        BY <3>3, <4>1 DEF MoveOf, Dispatching, Held, Busy
    <3> QED
      BY <2>9, <3>1, <3>2, <3>3 DEF TickFails
  <2> QED
    BY <1>4, <2>1, <2>2, <2>3, <2>4, <2>5, <2>6, <2>7, <2>8, <2>9 DEF TickStep
<1>5. ASSUME NEW s \in Ticks, TickStep(s) \/ TickFails(s)
      PROVE  MoveOf(t)
  BY <1>3, <1>4, <1>5, UnmovedTick
<1> QED
  BY <1>1, <1>2, <1>5, WhoMovesCalls

-----------------------------------------------------------------------------
(* The parts of the invariant, from what a step makes of attempts and ticks.*)

LEMMA IdsGoOn ==
  ASSUME TypeOK, FreshIsAbsent, TickIds, OperatorIds, RetryIds, RowsGoOn, TypeOK',
         \A t \in Ticks : MoveOf(t), [Next]_vars
  PROVE  (FreshIsAbsent /\ TickIds /\ OperatorIds /\ RetryIds)'
<1>1. /\ MaxIds \in Nat /\ lastId \in 0 .. MaxIds /\ lastId' \in 0 .. MaxIds
      /\ lastId' = lastId \/ (lastId' = lastId + 1 /\ Inserted)
  BY PreviewCleanupAssumption DEF TypeOK, RowsGoOn, Inserted
<1>2. 1 .. lastId \subseteq 1 .. lastId' /\ 1 .. lastId \subseteq Ids
  BY <1>1 DEF Ids
<1>3. FreshIsAbsent'
  <2> SUFFICES ASSUME NEW i \in Ids
               PROVE  IF i <= lastId' THEN row'[i].status # "absent"
                      ELSE row'[i].status = "absent" /\ row'[i].phase = "cleanup"
                           /\ row'[i].of = 0 /\ row'[i].due = "none"
    BY DEF FreshIsAbsent
  <2>1. CASE i > lastId'
    <3>1. row'[i] = row[i] /\ i > lastId
      BY <1>1, <2>1 DEF RowsGoOn, Ids
    <3> QED
      BY <1>1, <2>1, <3>1 DEF FreshIsAbsent, Ids
  <2>2. CASE i <= lastId
    BY <1>1, <2>2 DEF RowsGoOn, OldRows, Ids
  <2>3. CASE i = lastId' /\ i = lastId + 1
    BY <1>1, <2>3 DEF Inserted
  <2> QED
    BY <1>1, <2>1, <2>2, <2>3 DEF Ids
<1>4. TickIds'
  <2> SUFFICES ASSUME NEW t \in Ticks
               PROVE  /\ proc'[t].todo \subseteq 1 .. lastId' /\ proc'[t].mine \subseteq 1 .. lastId'
                      /\ Held(t)' => proc'[t].id \in 1 .. lastId'
    BY DEF TickIds
  <2>1. Pending \subseteq 1 .. lastId /\ DueRetries \subseteq 1 .. lastId
    BY <1>1 DEF Pending, DueRetries, FreshIsAbsent, Ids, Retryable
  <2>2. /\ proc[t].todo \subseteq 1 .. lastId /\ proc[t].mine \subseteq 1 .. lastId
        /\ Held(t) => proc[t].id \in 1 .. lastId
    BY DEF TickIds
  <2>3. lastId' \in 1 .. lastId' \/ ~Inserted
    BY <1>1 DEF Inserted, Ids
  <2> QED
    BY <1>2, <2>1, <2>2, <2>3 DEF MoveOf
<1>5. OperatorIds'
  <2>1. op \in [Operators -> Commands]
    BY DEF TypeOK
  <2>2. CASE UNCHANGED op
    BY <1>2, <2>2 DEF OperatorIds
  <2>3. ASSUME NEW o \in Operators, Decide(o)
        PROVE  OperatorIds'
    <3>1. PICK k \in DOMAIN Allowed, i \in Ids :
              row[i].status \in Allowed[k] /\ op' = [op EXCEPT ![o] = [pc |-> "write", kind |-> k, id |-> i]]
      BY <2>3 DEF Decide
    <3>2. i \in 1 .. lastId
      BY <1>1, <3>1 DEF FreshIsAbsent, Ids, Allowed, Prunable, Retryable
    <3> QED
      BY <1>2, <2>1, <3>1, <3>2 DEF OperatorIds
  <2>4. ASSUME NEW o \in Operators, \/ Overwrite(o) \/ SpendSource(o)
                                    \/ InsertRetry(o) \/ OperatorFails(o)
        PROVE  OperatorIds'
    BY <1>2, <2>1, <2>4 DEF OperatorIds, Overwrite, SpendSource, InsertRetry, OperatorFails,
                            Finished, Commands
  <2> QED
    BY <2>2, <2>3, <2>4, WhoMovesOperators
<1>6. RetryIds'
  <2> SUFFICES ASSUME NEW i \in Ids
               PROVE  row'[i].of <= lastId'
    BY DEF RetryIds
  <2>1. row \in [Ids -> Attempts] /\ row[i].of \in 0 .. MaxIds /\ row[i].of <= lastId
    BY Columns DEF TypeOK, RetryIds
  <2>2. CASE i > lastId'
    BY <1>1, <2>1, <2>2 DEF RowsGoOn
  <2>3. CASE i <= lastId
    BY <1>1, <2>1, <2>3 DEF RowsGoOn, OldRows, Ids
  <2>4. CASE i = lastId' /\ i = lastId + 1
    BY <1>1, <2>4 DEF Inserted
  <2> QED
    BY <1>1, <2>2, <2>3, <2>4 DEF Ids
<1> QED
  BY <1>3, <1>4, <1>5, <1>6

(* A tick that works has claimed an attempt that waited, and nobody makes  *)
(* it wait again but that tick.                                            *)
LEMMA OneGoesOn ==
  ASSUME TypeOK, TickIds, WorkIsClaimed, OneWorkerPerAttempt, RowsGoOn,
         \A t \in Ticks : MoveOf(t)
  PROVE  (WorkIsClaimed /\ OneWorkerPerAttempt)'
<1>1. ASSUME NEW s \in Ticks, NEW t \in Ticks, Busy(s), Busy(t), proc[s].id = proc[t].id
      PROVE  s = t
  BY <1>1 DEF OneWorkerPerAttempt, Busy
<1>2. ASSUME NEW t \in Ticks, Busy(t)'
      PROVE  row'[proc'[t].id].status \notin {"pending", Retryable}
  <2>1. Held(t) /\ proc'[t].id = proc[t].id /\ proc[t].id \in 1 .. lastId
    BY <1>2 DEF MoveOf, TickIds
  <2>2. CASE row'[proc[t].id].status = "running"
    BY <2>1, <2>2 DEF Retryable
  <2>3. CASE Busy(t)
    <3>1. row[proc[t].id].status \notin {"pending", Retryable}
      BY <2>3 DEF WorkIsClaimed
    <3>2. ~Completes(proc[t].id)
      BY <1>1, <1>2, <2>3 DEF Completes, Busy
    <3> QED
      BY <2>1, <3>1, <3>2 DEF RowsGoOn, OldRows
  <2> QED
    BY <1>2, <2>2, <2>3 DEF MoveOf
<1>3. ASSUME NEW s \in Ticks, NEW t \in Ticks, Busy(s)', Busy(t)', proc'[s].id = proc'[t].id, s # t
      PROVE  FALSE
  <2>1. proc'[s].id = proc[s].id /\ proc'[t].id = proc[t].id
    BY <1>3 DEF MoveOf
  <2>2. ASSUME NEW u \in Ticks, NEW v \in Ticks, u # v, Busy(u)', Busy(v)', ~Busy(u),
               proc[u].id = proc[v].id
        PROVE  FALSE
    <3>1. row[proc[u].id].status \in {"pending", Retryable} /\ Unmoved(v)
      BY <2>2 DEF MoveOf
    <3>2. Busy(v)
      BY <2>2, <3>1 DEF Unmoved, Busy
    <3> QED
      BY <2>2, <3>1, <3>2 DEF WorkIsClaimed
  <2> QED
    BY <1>1, <1>3, <2>1, <2>2
<1> QED
  BY <1>2, <1>3 DEF WorkIsClaimed, OneWorkerPerAttempt, Busy

LEMMA RetriesGoOn ==
  ASSUME TypeOK, FreshIsAbsent, TickIds, PendingIsRetry, TicksHoldRetries, RowsGoOn,
         \A t \in Ticks : MoveOf(t)
  PROVE  (PendingIsRetry /\ TicksHoldRetries)'
<1>1. /\ MaxIds \in Nat /\ lastId \in 0 .. MaxIds /\ lastId' \in 0 .. MaxIds
      /\ lastId' = lastId \/ (lastId' = lastId + 1 /\ Inserted)
  BY PreviewCleanupAssumption DEF TypeOK, RowsGoOn, Inserted
<1>2. PendingIsRetry'
  <2> SUFFICES ASSUME NEW i \in Ids, row'[i].status = "pending"
               PROVE  row'[i].phase # "cleanup"
    BY DEF PendingIsRetry
  <2>1. CASE i > lastId'
    BY <1>1, <2>1 DEF RowsGoOn, PendingIsRetry
  <2>2. CASE i <= lastId
    BY <1>1, <2>2 DEF RowsGoOn, OldRows, PendingIsRetry, Ids
  <2>3. CASE i = lastId' /\ i = lastId + 1
    BY <1>1, <2>3 DEF Inserted
  <2> QED
    BY <1>1, <2>1, <2>2, <2>3 DEF Ids
<1>3. \A i \in 1 .. lastId : row[i].phase # "cleanup" => row'[i].phase # "cleanup"
  BY DEF RowsGoOn, OldRows
<1>4. TicksHoldRetries'
  <2> SUFFICES ASSUME NEW t \in Ticks
               PROVE  /\ \A i \in proc'[t].mine : row'[i].phase # "cleanup"
                      /\ Dispatching(t)' => \A i \in proc'[t].todo : row'[i].phase # "cleanup"
                      /\ Held(t)' => row'[proc'[t].id].phase # "cleanup"
    BY DEF TicksHoldRetries
  <2>1. /\ proc[t].todo \subseteq 1 .. lastId /\ proc[t].mine \subseteq 1 .. lastId
        /\ Held(t) => proc[t].id \in 1 .. lastId
    BY DEF TickIds
  <2>2. \A i \in Pending : i \in 1 .. lastId /\ row[i].phase # "cleanup"
    BY <1>1 DEF Pending, PendingIsRetry, FreshIsAbsent, Ids
  <2>3. ASSUME NEW i \in proc'[t].mine
        PROVE  row'[i].phase # "cleanup"
    BY <1>3, <2>1, <2>3 DEF MoveOf, TicksHoldRetries
  <2>4. ASSUME Dispatching(t)', NEW i \in proc'[t].todo
        PROVE  row'[i].phase # "cleanup"
    BY <1>3, <2>1, <2>2, <2>4 DEF MoveOf, TicksHoldRetries
  <2>5. ASSUME Held(t)'
        PROVE  row'[proc'[t].id].phase # "cleanup"
    BY <1>3, <2>1, <2>5 DEF MoveOf, TicksHoldRetries
  <2> QED
    BY <2>3, <2>4, <2>5
<1> QED
  BY <1>2, <1>4

(* What was recorded by the service is never claimed again, so that it is  *)
(* spent for good once the scheduler has made its retry.                   *)
LEMMA OnceGoesOn ==
  ASSUME TypeOK, FreshIsAbsent, RetryIds, TickIds, TicksHoldRetries, RetriedIsSpent, RetriedOnce,
         RowsGoOn
  PROVE  (RetriedIsSpent /\ RetriedOnce)'
<1>1. /\ MaxIds \in Nat /\ lastId \in 0 .. MaxIds /\ lastId' \in 0 .. MaxIds
      /\ lastId' = lastId \/ (lastId' = lastId + 1 /\ Inserted)
  BY PreviewCleanupAssumption DEF TypeOK, RowsGoOn, Inserted
<1>2. \A i \in 1 .. lastId : /\ row'[i].of = row[i].of /\ row'[i].phase = row[i].phase /\ i \in Ids
                             /\ row'[i].retriable => row[i].retriable \/ Completes(i)
  BY <1>1 DEF RowsGoOn, OldRows, Ids
<1>3. \A i \in Ids : /\ row[i].of \in 0 .. MaxIds /\ row[i].of <= lastId
                     /\ i > lastId => row[i].phase = "cleanup"
                     /\ i > lastId' => row'[i] = row[i]
  BY Columns, <1>1 DEF TypeOK, RetryIds, FreshIsAbsent, RowsGoOn, Ids
<1>4. ASSUME NEW i \in 1 .. lastId, row[i].phase = "cleanup", ~row[i].retriable
      PROVE  ~row'[i].retriable
  <2>1. ~Completes(i)
    BY <1>4 DEF Completes, TicksHoldRetries, Held
  <2> QED
    BY <1>2, <1>4, <2>1
(* A retry of the scheduler is an old one, or has just been made of an     *)
(* attempt that was not spent.                                             *)
<1>5. ASSUME NEW k \in Ids, row'[k].phase = "scheduler", row'[k].of # 0
      PROVE  /\ row'[k].of \in 1 .. lastId
             /\ \/ k \in 1 .. lastId /\ row[k].phase = "scheduler" /\ row[k].of = row'[k].of
                \/ k = lastId + 1 /\ row[row'[k].of].retriable /\ ~row'[row'[k].of].retriable
  <2>1. CASE k <= lastId
    BY <1>1, <1>2, <1>3, <1>5, <2>1 DEF Ids
  <2>2. CASE k = lastId + 1 /\ lastId' = lastId + 1
    BY <1>1, <1>5, <2>2 DEF Inserted
  <2>3. CASE k > lastId'
    <3>1. k > lastId
      BY <1>1, <2>3 DEF Ids
    <3> QED
      BY <1>3, <1>5, <2>3, <3>1
  <2> QED
    BY <1>1, <2>1, <2>2, <2>3 DEF Ids
<1>6. RetriedIsSpent'
  <2> SUFFICES ASSUME NEW k \in Ids, row'[k].phase = "scheduler", row'[k].of # 0,
                      row'[row'[k].of].phase = "cleanup"
               PROVE  ~row'[row'[k].of].retriable
    BY DEF RetriedIsSpent
  <2>1. CASE k \in 1 .. lastId /\ row[k].phase = "scheduler" /\ row[k].of = row'[k].of
    <3>1. row[k].of \in 1 .. lastId /\ row[row[k].of].phase = "cleanup"
      BY <1>2, <1>5, <2>1
    <3>2. ~row[row[k].of].retriable
      BY <2>1, <3>1 DEF RetriedIsSpent
    <3> QED
      BY <1>4, <2>1, <3>1, <3>2
  <2> QED
    BY <1>5, <2>1
<1>7. RetriedOnce'
  <2> SUFFICES ASSUME NEW k \in Ids, NEW l \in Ids,
                      row'[k].phase = "scheduler", row'[l].phase = "scheduler",
                      row'[k].of = row'[l].of, row'[k].of # 0,
                      row'[row'[k].of].phase = "cleanup"
               PROVE  k = l
    BY DEF RetriedOnce
  <2>1. row'[k].of \in 1 .. lastId /\ row[row'[k].of].phase = "cleanup"
    BY <1>2, <1>5
  <2>2. CASE k \in 1 .. lastId /\ row[k].phase = "scheduler" /\ row[k].of = row'[k].of
    <3>1. ~row[row[k].of].retriable
      BY <2>1, <2>2 DEF RetriedIsSpent
    <3>2. l \in 1 .. lastId /\ row[l].phase = "scheduler" /\ row[l].of = row'[l].of
      BY <1>5, <2>2, <3>1
    <3> QED
      BY <2>1, <2>2, <3>2 DEF RetriedOnce
  <2>3. CASE k = lastId + 1 /\ row[row'[k].of].retriable
    <3>1. CASE l \in 1 .. lastId /\ row[l].phase = "scheduler" /\ row[l].of = row'[l].of
      BY <1>2, <2>1, <2>3, <3>1 DEF RetriedIsSpent
    <3> QED
      BY <1>5, <2>3, <3>1
  <2> QED
    BY <1>5, <2>2, <2>3
<1> QED
  BY <1>6, <1>7

LEMMA SpentGoesOn ==
  ASSUME TypeOK, FreshIsAbsent, OperatorIds, SpentHasRetry, RowsGoOn, [Next]_vars
  PROVE  SpentHasRetry'
<1> SUFFICES ASSUME NEW i \in Ids, row'[i].status = Retryable, ~row'[i].retriable
             PROVE  \/ \E k \in Ids : row'[k].status # "absent" /\ row'[k].of = i
                    \/ \E o \in Operators : op'[o].pc = "insert" /\ op'[o].id = i
                    \/ faults' > 0
  BY DEF SpentHasRetry, IsRetryOf
<1>1. /\ MaxIds \in Nat /\ lastId \in 0 .. MaxIds /\ lastId' \in 0 .. MaxIds
      /\ lastId' = lastId \/ (lastId' = lastId + 1 /\ Inserted)
      /\ faults \in Nat
  BY PreviewCleanupAssumption DEF TypeOK, RowsGoOn, Inserted
<1>2. i \in 1 .. lastId
  <2>1. i <= lastId'
    <3>1. i > lastId' => row[i].status = Retryable /\ i > lastId
      BY <1>1 DEF RowsGoOn, Ids
    <3> QED
      BY <1>1, <3>1 DEF FreshIsAbsent, Ids, Retryable
  <2>2. i # lastId + 1 \/ lastId' = lastId
    BY <1>1 DEF Inserted
  <2> QED
    BY <1>1, <2>1, <2>2 DEF Ids
<1>3. \/ row[i].status = Retryable /\ ~row[i].retriable
      \/ \E k \in Ids : row'[k].status = "pending" /\ row'[k].of = i
      \/ \E o \in Operators : op'[o].pc = "insert" /\ op'[o].id = i
  BY <1>2 DEF RowsGoOn, OldRows
<1>4. CASE row[i].status = Retryable /\ ~row[i].retriable
  <2>1. CASE \E k \in Ids : row[k].status # "absent" /\ row[k].of = i
    <3>1. PICK k \in Ids : row[k].status # "absent" /\ row[k].of = i
      BY <2>1
    <3>2. k \in 1 .. lastId
      BY <1>1, <3>1 DEF FreshIsAbsent, Ids
    <3> QED
      BY <3>1, <3>2 DEF RowsGoOn, OldRows
  <2>2. CASE \E o \in Operators : op[o].pc = "insert" /\ op[o].id = i
    <3>1. PICK o \in Operators : op[o].pc = "insert" /\ op[o].id = i
      BY <2>2
    <3>2. op \in [Operators -> Commands]
      BY DEF TypeOK
    <3>3. CASE op'[o] = op[o]
      BY <3>1, <3>3
    <3>4. CASE InsertRetry(o)
      <4>1. lastId' = lastId + 1 /\ lastId' \in Ids
        BY <1>1, <3>4 DEF InsertRetry, Ids
      <4>2. row'[lastId'] = NewRetry(i, "operator")
        BY <3>1, <3>4, <4>1 DEF InsertRetry, TypeOK
      <4> QED
        BY <4>1, <4>2 DEF NewRetry
    <3>5. CASE OperatorFails(o)
      BY <1>1, <3>5 DEF OperatorFails
    <3>6. op'[o] = op[o] \/ InsertRetry(o) \/ OperatorFails(o)
      <4>1. ASSUME NEW q \in Operators, \/ Decide(q) \/ Overwrite(q) \/ SpendSource(q)
                                        \/ InsertRetry(q) \/ OperatorFails(q)
            PROVE  op'[o] = op[o] \/ InsertRetry(o) \/ OperatorFails(o)
        BY <3>1, <3>2, <4>1 DEF Decide, Overwrite, SpendSource, InsertRetry, OperatorFails
      <4> QED
        BY <4>1, WhoMovesOperators
    <3> QED
      BY <3>3, <3>4, <3>5, <3>6
  <2>3. CASE faults > 0
    <3>1. faults' = faults \/ faults' = faults + 1
      <4>1. ASSUME NEW p \in Callers \cup Ticks, Clean(p)
            PROVE  faults' = faults \/ faults' = faults + 1
        BY <4>1 DEF Clean
      <4> QED
        BY <4>1, WhoFails
    <3> QED
      BY <1>1, <2>3, <3>1
  <2> QED
    BY <1>4, <2>1, <2>2, <2>3 DEF SpentHasRetry, IsRetryOf
<1> QED
  BY <1>3, <1>4

-----------------------------------------------------------------------------
LEMMA Inductive ==
  ASSUME IInv, [Next]_vars
  PROVE  IInv'
<1> USE DEF IInv
<1>1. MaxIds \in Nat /\ lastId \in 0 .. MaxIds /\ row \in [Ids -> Attempts] /\ CallsTyped
  BY PreviewCleanupAssumption DEF TypeOK, CallsTyped
<1>2. RowsGoOn
  BY RowsStep
<1>3. \A t \in Ticks : MoveOf(t)
  BY <1>1, TicksMove
<1>4. TypeOK'
  BY <1>2, Typed
<1>5. HasResult'
  BY <1>1, ResultsStay
<1> QED
  BY <1>2, <1>3, <1>4, <1>5, IdsGoOn, OneGoesOn, RetriesGoOn, OnceGoesOn, SpentGoesOn

(* Every reachable state has the types of TypeOK.                          *)
THEOREM CleanupIsTyped == Spec => []TypeOK
<1>1. IInv => TypeOK
  BY DEF IInv
<1> QED
  BY <1>1, InitiallyNothing, Inductive, PTL DEF Spec

(* Two ticks never run one attempt at once, in any number of replicas,     *)
(* whatever operators do to it.                                            *)
THEOREM AttemptsHaveOneWorker == Spec => []OneWorkerPerAttempt
<1>1. IInv => OneWorkerPerAttempt
  BY DEF IInv
<1> QED
  BY <1>1, InitiallyNothing, Inductive, PTL DEF Spec

(* A failed cleanup is retried by the scheduler once, and what is spent has *)
(* its retry unless something failed in between.                           *)
THEOREM CleanupsAreRetriedOnce == Spec => []FailuresAreRetriedOnce
<1>1. IInv => FailuresAreRetriedOnce
  BY DEF IInv, FailuresAreRetriedOnce
<1> QED
  BY <1>1, InitiallyNothing, Inductive, PTL DEF Spec
=============================================================================
