------------------------- MODULE DeploymentsProofs -------------------------
(***************************************************************************)
(* Deployments for any number of commands, placements and progress records,*)
(* with every failure allowed: the types, that a supersede mark is final,  *)
(* that a superseded attempt is never running or completed again, and that *)
(* the executors of older attempts are refused while a newer is active.    *)
(* When nothing fails and a resource has one placement: that a supersede   *)
(* always has its successor.  When no process dies and no lease is lost, on*)
(* any placements: that no attempt is left planned or running with nobody  *)
(* at work on it; and, when nothing fails at all, that none is left cancel-*)
(* requested either.  These three except what a late progress record has   *)
(* put back to life (undone).                                              *)
(*                                                                         *)
(* The row of an attempt is not the only place that must be sound: so must *)
(* every copy that may still be written over it, those of the commands, of *)
(* the executors and of the progress recorder.  And an insert overwrites   *)
(* nothing only because no two commands have the same id and the row of an *)
(* id that is still to be inserted is absent.                              *)
(***************************************************************************)
EXTENDS Deployments, FiniteSetTheorems, TLAPS

(* The type invariant of all that the code keeps; undone is history.       *)
Typed ==
    /\ row \in [Ids -> Attempt]
    /\ ids \in Ids \cup {NoId}
    /\ lease \in [Placements -> Commands \cup {None}]
    /\ cmd \in [Commands -> Command]
    /\ exec \in [Ids -> Executor]
    /\ note \in [Ids -> SUBSET Attempt]

Sound(m) == m.mark # NoId => m.status \in {"cancel-requested", "canceled", "interrupted"}

Exists(d) == row[d].status # "absent"

RowsOK == \A d \in Ids : Sound(row[d]) /\ (ids < d => ~Exists(d))

(* What holds of a command k.                                              *)
Early == {"idle", "wait", "admit"}
Writing == {"request", "backend", "settle"}

CommandOK(k) ==
    /\ Sound(k.copy)
    /\ k.new <= ids
    /\ k.pc \in Early => k.new = NoId
    /\ k.target # NoId => Exists(k.target)
    /\ k.kind \in {"cancel", "reconcile"} => k.target # NoId
    /\ k.pc \in Writing => k.target # NoId /\ k.copy.status # "absent"
    /\ k.pc \in Writing /\ k.kind = "create" => k.new # NoId
    /\ k.pc = "insert" => k.new # NoId
    /\ k.pc \in Writing \cup {"insert"} /\ k.new # NoId => ~Exists(k.new)
    /\ k.pc \in {"start", "admitted"} => k.new # NoId /\ Exists(k.new)

(* What holds of the executor x of attempt d, and of its progress records. *)
ExecutorOK(d, x) ==
    /\ Sound(x.mem)
    /\ x.pc # "none" => Exists(d)
    /\ x.pc \in {"building", "deploying", "report"} => x.mem.status # "absent"

NoteOK(d) == \A n \in note[d] : Sound(n) /\ Exists(d) /\ n.status # "absent"

NoIdTwice == \A b, c \in Commands : cmd[b].new # NoId /\ cmd[b].new = cmd[c].new => b = c

(* Every id was given out to a command of its own.                         *)
Spent == {c \in Commands : cmd[c].pc \notin Early}
IdsCounted == ids <= Cardinality(Spent)

IInv ==
    /\ Typed
    /\ IdsCounted
    /\ NoIdTwice
    /\ RowsOK
    /\ \A c \in Commands : CommandOK(cmd[c])
    /\ \A d \in Ids : ExecutorOK(d, exec[d]) /\ NoteOK(d)

-----------------------------------------------------------------------------
LEMMA NumberOfIds ==
  /\ Cardinality(Commands) \in Nat
  /\ Ids \subseteq Nat \ {0}
  /\ \A d \in Nat : d # 0 /\ d <= Cardinality(Commands) => d \in Ids
  /\ \A d \in Ids \cup {NoId} : d \in Nat
<1>1. Cardinality(Commands) \in Nat
  BY DeploymentsAssumption, FS_CardinalityType
<1> QED
  BY <1>1 DEF Ids, NoId

LEMMA PlainAttempts ==
  /\ Absent \in Attempt /\ Sound(Absent) /\ Absent.status = "absent" /\ Absent.mark = NoId
  /\ \A p \in Placements \cup {None} :
       /\ Planned(p) \in Attempt /\ Sound(Planned(p)) /\ Planned(p).status = "planned"
       /\ Planned(p).mark = NoId
<1>1. \A p \in Placements \cup {None} : Planned(p) \in Attempt
  BY DeploymentsAssumption DEF Planned, Attempt, Active, NoId
<1>2. \A p : Planned(p).mark = NoId /\ Planned(p).status = "planned"
  BY DEF Planned
<1>3. Absent \in Attempt
  BY <1>1 DEF Absent, Attempt
<1>4. Absent.status = "absent" /\ Absent.mark = NoId
  BY DEF Absent, Planned
<1> QED
  BY <1>1, <1>2, <1>3, <1>4 DEF Sound

(* Idle commands and executors.                                            *)
LEMMA PlainRecords ==
  /\ Unused \in Command /\ Ended \in Command /\ [Unused EXCEPT !.pc = "crashed"] \in Command
  /\ Unused.copy = Absent /\ Unused.new = NoId /\ Unused.target = NoId /\ Unused.pc = "idle"
  /\ Unused.kind = "none"
  /\ NoExecutor \in Executor /\ NoExecutor.mem = Absent /\ NoExecutor.pc = "none"
<1>1. Unused \in Command
  BY PlainAttempts DEF Unused, Command, Steps, Kinds, Attempt
<1>2. NoExecutor \in Executor
  BY PlainAttempts DEF NoExecutor, Executor
<1>3. /\ Unused.copy = Absent /\ Unused.new = NoId /\ Unused.target = NoId /\ Unused.pc = "idle"
      /\ Unused.kind = "none"
      /\ NoExecutor.mem = Absent /\ NoExecutor.pc = "none"
  BY DEF Unused, NoExecutor
<1> QED
  BY <1>1, <1>2, <1>3 DEF Ended, Command, Steps

LEMMA InitiallySound == Init => IInv
<1> SUFFICES ASSUME Init
             PROVE  IInv
  OBVIOUS
<1>1. Typed
  BY PlainAttempts, PlainRecords, NumberOfIds DEF Init, Typed, NoId
<1>2. IdsCounted
  <2>1. Spent = {}
    BY PlainRecords DEF Init, Spent, Early
  <2> QED
    BY <2>1, FS_EmptySet DEF Init, IdsCounted
<1>3. NoIdTwice
  BY PlainRecords DEF Init, NoIdTwice
<1>4. RowsOK
  BY PlainAttempts DEF Init, RowsOK, Exists
<1>5. \A c \in Commands : CommandOK(cmd[c])
  <2>1. ids = NoId /\ NoId <= NoId
    BY DEF Init, NoId
  <2>2. CommandOK(Unused)
    BY <2>1, PlainAttempts, PlainRecords DEF CommandOK, Writing
  <2> QED
    BY <2>2 DEF Init
<1>6. \A d \in Ids : ExecutorOK(d, exec[d]) /\ NoteOK(d)
  BY PlainAttempts, PlainRecords DEF Init, ExecutorOK, NoteOK
<1> QED
  BY <1>1, <1>2, <1>3, <1>4, <1>5, <1>6 DEF IInv

-----------------------------------------------------------------------------
(* A row is written with a sound value that exists, over a row that exists *)
(* or for the first time.                                                  *)
LEMMA RowWritten ==
  ASSUME IInv, NEW d \in Ids, NEW m \in Attempt, Sound(m), m.status # "absent",
         row' = [row EXCEPT ![d] = m], d <= ids, UNCHANGED ids
  PROVE  /\ row' \in [Ids -> Attempt] /\ RowsOK' /\ Exists(d)'
         /\ \A e \in Ids \ {d} : Exists(e)' <=> Exists(e)
         /\ \A e \in Ids : Exists(e) => Exists(e)'
  BY NumberOfIds DEF IInv, Typed, RowsOK, Exists

(* What others know of a row survives while existing rows stay, and an id  *)
(* that is to be inserted stays absent.                                    *)
LEMMA CommandUndisturbed ==
  ASSUME IInv, NEW k \in Command, CommandOK(k),
         \A e \in Ids : Exists(e) => Exists(e)',
         k.new # NoId /\ k.pc \in Writing \cup {"insert"} => ~Exists(k.new)',
         ids <= ids', ids' \in Nat
  PROVE  CommandOK(k)'
<1>1. k.new \in Ids \cup {NoId} /\ k.target \in Ids \cup {NoId}
  BY DEF Command
<1>2. k.new <= ids'
  <2>1. k.new <= ids
    BY DEF CommandOK
  <2>2. ids \in Nat
    BY NumberOfIds DEF IInv, Typed, NoId
  <2>3. k.new \in Nat
    BY <1>1, NumberOfIds
  <2> QED
    BY <2>1, <2>2, <2>3
<1> QED
  BY <1>1, <1>2 DEF CommandOK

LEMMA ExecutorsUndisturbed ==
  ASSUME IInv, \A e \in Ids : Exists(e) => Exists(e)'
  PROVE  /\ \A d \in Ids : UNCHANGED exec[d] => ExecutorOK(d, exec[d])'
         /\ \A d \in Ids : UNCHANGED note[d] => NoteOK(d)'
  BY DEF IInv, ExecutorOK, NoteOK

(* The commands whose turn has not come only ever get fewer.               *)
LEMMA SpentGrows ==
  ASSUME IInv, NEW c \in Commands, NEW k \in Command, cmd' = [cmd EXCEPT ![c] = k],
         k.pc \in Early => cmd[c].pc \in Early
  PROVE  /\ Cardinality(Spent) <= Cardinality(Spent')
         /\ Cardinality(Spent) \in Nat /\ Cardinality(Spent') \in Nat
         /\ Cardinality(Spent') <= Cardinality(Commands)
         /\ c \notin Spent /\ k.pc \notin Early => Cardinality(Spent) + 1 <= Cardinality(Spent')
<1>1. IsFiniteSet(Spent') /\ Cardinality(Spent') <= Cardinality(Commands)
  <2>1. Spent' \in SUBSET Commands
    BY DEF Spent
  <2> QED
    BY <2>1, DeploymentsAssumption, FS_Subset
<1>2. Spent \subseteq Spent' /\ (k.pc \notin Early => Spent \cup {c} \subseteq Spent')
  BY DEF Spent, IInv, Typed
<1>3. IsFiniteSet(Spent) /\ Cardinality(Spent) <= Cardinality(Spent')
  BY <1>1, <1>2, FS_Subset
<1>4. Cardinality(Spent) \in Nat /\ Cardinality(Spent') \in Nat
  BY <1>1, <1>3, FS_CardinalityType
<1>5. ASSUME c \notin Spent, k.pc \notin Early
      PROVE  Cardinality(Spent) + 1 <= Cardinality(Spent')
  <2>1. Cardinality(Spent \cup {c}) = Cardinality(Spent) + 1
    BY <1>3, <1>5, FS_AddElement
  <2>2. Cardinality(Spent \cup {c}) <= Cardinality(Spent')
    BY <1>1, <1>2, <1>5, FS_Subset
  <2> QED
    BY <2>1, <2>2
<1> QED
  BY <1>1, <1>3, <1>4, <1>5

-----------------------------------------------------------------------------
(* A command moves on as k, with the id it has or none.                    *)
LEMMA CommandMoves ==
  ASSUME IInv, NEW c \in Commands, NEW k \in Command, cmd' = [cmd EXCEPT ![c] = k],
         k.pc \in Early => cmd[c].pc \in Early,
         k.new \in {cmd[c].new, NoId}, UNCHANGED <<ids, note>>,
         lease' \in [Placements -> Commands \cup {None}],
         row' \in [Ids -> Attempt], RowsOK',
         exec' \in [Ids -> Executor], \A d \in Ids : ExecutorOK(d, exec[d])',
         \A e \in Ids : Exists(e) => Exists(e)',
         \A e \in Ids : e # cmd[c].new /\ ~Exists(e) => ~Exists(e)',
         CommandOK(k)'
  PROVE  IInv'
<1>1. Typed'
  BY DEF IInv, Typed
<1>2. IdsCounted'
  <2>1. ids \in Nat /\ ids <= Cardinality(Spent)
    BY NumberOfIds DEF IInv, Typed, IdsCounted, NoId
  <2>2. /\ Cardinality(Spent) <= Cardinality(Spent')
        /\ Cardinality(Spent) \in Nat /\ Cardinality(Spent') \in Nat
    BY SpentGrows
  <2> QED
    BY <2>1, <2>2 DEF IdsCounted
<1>3. NoIdTwice'
  BY DEF IInv, Typed, NoIdTwice
<1>4. ASSUME NEW b \in Commands, b # c
      PROVE  CommandOK(cmd[b])'
  <2>1. cmd'[b] = cmd[b] /\ cmd[b] \in Command /\ CommandOK(cmd[b])
    BY <1>4 DEF IInv, Typed
  <2>2. cmd[b].new # NoId /\ cmd[b].pc \in Writing \cup {"insert"} => ~Exists(cmd[b].new)'
    BY <1>4, <2>1 DEF CommandOK, IInv, NoIdTwice, Command
  <2>3. ids <= ids' /\ ids' \in Nat
    BY NumberOfIds DEF IInv, Typed, NoId
  <2> QED
    BY <2>1, <2>2, <2>3, CommandUndisturbed
<1>5. cmd'[c] = k
  BY DEF IInv, Typed
<1>6. \A d \in Ids : NoteOK(d)'
  BY ExecutorsUndisturbed
<1> QED
  BY <1>1, <1>2, <1>3, <1>4, <1>5, <1>6 DEF IInv

(* The same when nothing but the command and its lease changes.            *)
LEMMA CommandMovesAlone ==
  ASSUME IInv, NEW c \in Commands, NEW k \in Command, cmd' = [cmd EXCEPT ![c] = k],
         k.pc \in Early => cmd[c].pc \in Early,
         k.new \in {cmd[c].new, NoId}, UNCHANGED <<row, ids, exec, note>>,
         lease' \in [Placements -> Commands \cup {None}], CommandOK(k)
  PROVE  IInv'
<1>1. row' \in [Ids -> Attempt] /\ RowsOK' /\ exec' \in [Ids -> Executor]
  BY DEF IInv, Typed, RowsOK, Exists
<1>2. \A e \in Ids : Exists(e)' <=> Exists(e)
  BY DEF Exists
<1>3. \A d \in Ids : ExecutorOK(d, exec[d])'
  BY <1>2, ExecutorsUndisturbed
<1>4. CommandOK(k)'
  BY DEF CommandOK, Exists
<1> QED
  BY <1>1, <1>2, <1>3, <1>4, CommandMoves

(* A command that has written row d, which existed or had its own new id.  *)
LEMMA CommandWrites ==
  ASSUME IInv, NEW c \in Commands, NEW k \in Command, cmd' = [cmd EXCEPT ![c] = k],
         k.pc \notin Early, k.new = cmd[c].new, UNCHANGED <<ids, lease, exec, note>>,
         NEW d \in Ids, NEW m \in Attempt, Sound(m), m.status # "absent",
         row' = [row EXCEPT ![d] = m], d <= ids, Exists(d) \/ d = cmd[c].new,
         CommandOK(k)'
  PROVE  IInv'
<1>1. /\ row' \in [Ids -> Attempt] /\ RowsOK'
      /\ \A e \in Ids : Exists(e) => Exists(e)'
      /\ \A e \in Ids \ {d} : Exists(e)' <=> Exists(e)
  BY RowWritten
<1>2. \A e \in Ids : ExecutorOK(e, exec[e])'
  BY <1>1, ExecutorsUndisturbed
<1>3. lease' \in [Placements -> Commands \cup {None}] /\ exec' \in [Ids -> Executor]
  BY DEF IInv, Typed
<1>4. \A e \in Ids : e # cmd[c].new /\ ~Exists(e) => ~Exists(e)'
  BY <1>1
<1> QED
  BY <1>1, <1>2, <1>3, <1>4, CommandMoves

(* An attempt of another status, with or without a mark.                   *)
LEMMA OtherStatus ==
  ASSUME NEW m \in Attempt, NEW s \in Active \cup Terminal
  PROVE  /\ [m EXCEPT !.status = s] \in Attempt
         /\ [m EXCEPT !.status = s].status = s /\ [m EXCEPT !.status = s].mark = m.mark
         /\ s \in {"cancel-requested", "canceled", "interrupted"}
              => Sound([m EXCEPT !.status = s])
  BY DEF Attempt, Sound

-----------------------------------------------------------------------------
(* Commands before the lease.                                              *)
LEMMA InvokeKeeps ==
  ASSUME IInv, NEW c \in Commands, Invoke(c)
  PROVE  IInv'
<1>1. PICK kind \in Kinds, step \in {"wait", "settle"}, d \in Ids \cup {NoId},
           p \in Placements \cup {None} :
        /\ Begin(c, kind, step, d, p)
        /\ d # NoId => d \in Present
        /\ step = "settle" => d # NoId /\ kind = "archive"
        /\ kind \in {"cancel", "reconcile"} => d # NoId
  <2>1. \A d \in Present : d \in Ids /\ row[d].placement \in Placements \cup {None}
    BY DEF Present, IInv, Typed, Attempt
  <2> QED
    BY <2>1, NumberOfIds DEF Invoke, BeginCreate, BeginRecovery, BeginEnding, BeginArchive, Kinds, NoId
<1> DEFINE copy == IF d = NoId THEN Absent ELSE row[d]
           k == [Unused EXCEPT !.pc = step, !.kind = kind, !.target = d, !.placement = p,
                               !.copy = copy]
<1>2. /\ cmd[c].pc = "idle" /\ cmd' = [cmd EXCEPT ![c] = k]
      /\ UNCHANGED <<row, ids, lease, exec, note>>
  BY <1>1 DEF Begin
<1>3. copy \in Attempt /\ Sound(copy)
  BY <1>1, PlainAttempts DEF IInv, Typed, RowsOK
<1>4. d # NoId => Exists(d) /\ copy.status # "absent"
  BY <1>1 DEF Present, Exists
<1> HIDE DEF copy
<1>5. k \in Command
  BY <1>1, <1>3, PlainRecords DEF Command, Steps
<1>6. /\ k.pc = step /\ k.kind = kind /\ k.target = d /\ k.new = NoId /\ k.copy = copy
  BY PlainRecords DEF Unused
<1> HIDE DEF k
<1>7. CommandOK(k)
  <2>1. NoId <= ids
    BY NumberOfIds DEF IInv, Typed, NoId
  <2> QED
    BY <1>1, <1>3, <1>4, <1>6, <2>1 DEF CommandOK, Writing, Early
<1>8. cmd[c].pc \in Early /\ lease' \in [Placements -> Commands \cup {None}]
  BY <1>2 DEF Early, IInv, Typed
<1> QED
  BY <1>2, <1>5, <1>6, <1>7, <1>8, CommandMovesAlone

LEMMA AcquireKeeps ==
  ASSUME IInv, NEW c \in Commands, Acquire(c)
  PROVE  IInv'
<1> DEFINE k == [cmd[c] EXCEPT !.pc = "admit"]
<1>1. cmd[c] \in Command /\ CommandOK(cmd[c]) /\ cmd[c].pc = "wait"
  BY DEF Acquire, IInv, Typed
<1>2. /\ k \in Command /\ k.pc = "admit" /\ k.new = cmd[c].new /\ k.target = cmd[c].target
      /\ k.copy = cmd[c].copy /\ k.kind = cmd[c].kind
  BY <1>1 DEF Command, Steps
<1>3. cmd' = [cmd EXCEPT ![c] = k] /\ UNCHANGED <<row, ids, exec, note>>
  BY DEF Acquire, Goto
<1> HIDE DEF k
<1>4. lease' \in [Placements -> Commands \cup {None}]
  BY DEF Acquire, IInv, Typed
<1>5. CommandOK(k)
  BY <1>1, <1>2 DEF CommandOK, Early, Writing
<1>6. cmd[c].pc \in Early
  BY <1>1 DEF Early
<1> QED
  BY <1>2, <1>3, <1>4, <1>5, <1>6, CommandMovesAlone

-----------------------------------------------------------------------------
(* Admission: a command in the lease has a fresh id to take.               *)
LEMMA FreshId ==
  ASSUME IInv, NEW c \in Commands, cmd[c].pc \in Early
  PROVE  ids \in Nat /\ ids + 1 \in Ids /\ ids + 1 # NoId /\ ~Exists(ids + 1)
<1>1. ids \in Nat /\ ids <= Cardinality(Spent)
  BY NumberOfIds DEF IInv, Typed, IdsCounted, NoId
<1>2. c \notin Spent /\ Spent \subseteq Commands
  BY DEF Spent
<1>3. IsFiniteSet(Spent) /\ Cardinality(Spent) \in Nat
  BY <1>2, DeploymentsAssumption, FS_Subset, FS_CardinalityType
<1>4. Cardinality(Spent \cup {c}) = Cardinality(Spent) + 1
  BY <1>2, <1>3, FS_AddElement
<1>5. Cardinality(Spent \cup {c}) <= Cardinality(Commands)
  <2>1. Spent \cup {c} \in SUBSET Commands
    BY <1>2
  <2> QED
    BY <2>1, DeploymentsAssumption, FS_Subset
<1>6. ids + 1 \in Ids
  BY <1>1, <1>3, <1>4, <1>5, NumberOfIds
<1> QED
  BY <1>1, <1>6 DEF NoId, IInv, RowsOK

LEMMA CommandTakesId ==
  ASSUME IInv, NEW c \in Commands, NEW k \in Command, cmd' = [cmd EXCEPT ![c] = k],
         cmd[c].pc = "admit", k.pc \notin Early, k.new = ids + 1, ids' = ids + 1,
         UNCHANGED <<row, lease, exec, note>>, CommandOK(k)'
  PROVE  IInv'
<1>1. ids \in Nat /\ ids' \in Ids /\ ids' # NoId /\ cmd[c].pc \in Early
  BY FreshId DEF Early
<1>2. Typed'
  BY <1>1 DEF IInv, Typed
<1>3. IdsCounted'
  <2>1. ids <= Cardinality(Spent)
    BY DEF IInv, IdsCounted
  <2>2. c \notin Spent
    BY <1>1 DEF Spent
  <2>3. /\ Cardinality(Spent) + 1 <= Cardinality(Spent')
        /\ Cardinality(Spent) \in Nat /\ Cardinality(Spent') \in Nat
    BY <2>2, SpentGrows
  <2> QED
    BY <1>1, <2>1, <2>3 DEF IdsCounted
<1>4. \A b \in Commands : cmd[b].new \in Nat /\ cmd[b].new <= ids
  <2> SUFFICES ASSUME NEW b \in Commands
               PROVE  cmd[b].new \in Nat /\ cmd[b].new <= ids
    OBVIOUS
  <2>1. cmd[b] \in Command /\ CommandOK(cmd[b])
    BY DEF IInv, Typed
  <2>2. cmd[b].new \in Ids \cup {NoId} /\ cmd[b].new <= ids
    BY <2>1 DEF Command, CommandOK
  <2> QED
    BY <2>2, NumberOfIds
<1>5. NoIdTwice'
  BY <1>1, <1>4 DEF IInv, Typed, NoIdTwice
<1>6. \A e \in Ids : Exists(e)' <=> Exists(e)
  BY DEF Exists
<1>7. RowsOK'
  <2>1. \A d \in Ids : ids' < d => ids < d
    BY <1>1, NumberOfIds
  <2> QED
    BY <1>6, <2>1 DEF IInv, RowsOK
<1>8. ASSUME NEW b \in Commands, b # c
      PROVE  CommandOK(cmd[b])'
  <2>1. cmd'[b] = cmd[b] /\ cmd[b] \in Command /\ CommandOK(cmd[b])
    BY <1>8 DEF IInv, Typed
  <2>2. cmd[b].new # NoId /\ cmd[b].pc \in Writing \cup {"insert"} => ~Exists(cmd[b].new)'
    BY <2>1 DEF CommandOK, Exists
  <2>3. ids <= ids' /\ ids' \in Nat
    BY <1>1
  <2> QED
    BY <1>6, <2>1, <2>2, <2>3, CommandUndisturbed
<1>9. cmd'[c] = k
  BY DEF IInv, Typed
<1>10. \A d \in Ids : ExecutorOK(d, exec[d])' /\ NoteOK(d)'
  BY <1>6, ExecutorsUndisturbed
<1> QED
  BY <1>2, <1>3, <1>5, <1>7, <1>8, <1>9, <1>10 DEF IInv

(* What holds of a command that is waiting for admission.                  *)
LEMMA Admitted ==
  ASSUME IInv, NEW c \in Commands, cmd[c].pc = "admit"
  PROVE  /\ cmd[c] \in Command /\ Sound(cmd[c].copy) /\ cmd[c].new = NoId
         /\ cmd[c].pc \in Early /\ NoId <= ids
         /\ cmd[c].target # NoId => cmd[c].target \in Ids /\ Exists(cmd[c].target)
         /\ cmd[c].kind \in {"cancel", "reconcile"} => cmd[c].target # NoId
<1>1. cmd[c] \in Command /\ CommandOK(cmd[c]) /\ cmd[c].pc \in Early
  BY DEF IInv, Typed, Early
<1>2. NoId <= ids
  BY NumberOfIds DEF IInv, Typed, NoId
<1> QED
  BY <1>1, <1>2 DEF CommandOK, Command

(* A command whose step is over, having written nothing.                   *)
LEMMA GivesUp ==
  ASSUME IInv, NEW c \in Commands, Goto(c, "over"), UNCHANGED <<row, ids, lease, exec, note>>
  PROVE  IInv'
<1> DEFINE k == [cmd[c] EXCEPT !.pc = "over"]
<1>1. cmd[c] \in Command /\ CommandOK(cmd[c])
  BY DEF IInv, Typed
<1>2. /\ k \in Command /\ k.pc = "over" /\ k.new = cmd[c].new /\ k.target = cmd[c].target
      /\ k.copy = cmd[c].copy /\ k.kind = cmd[c].kind
  BY <1>1 DEF Command, Steps
<1>3. cmd' = [cmd EXCEPT ![c] = k]
  BY DEF Goto
<1> HIDE DEF k
<1>4. CommandOK(k)
  BY <1>1, <1>2 DEF CommandOK, Early, Writing
<1>5. lease' \in [Placements -> Commands \cup {None}] /\ k.pc \notin Early
  BY <1>2 DEF IInv, Typed, Early
<1> QED
  BY <1>2, <1>3, <1>4, <1>5, CommandMovesAlone

(* A command that takes the next id and goes on to insert.                 *)
LEMMA InsertsNext ==
  ASSUME IInv, NEW c \in Commands, cmd[c].pc = "admit", ids' = ids + 1,
         cmd' = [cmd EXCEPT ![c].pc = "insert", ![c].new = ids + 1],
         UNCHANGED <<row, lease, exec, note>>
  PROVE  IInv'
<1>1. ids \in Nat /\ ids + 1 \in Ids /\ ids + 1 # NoId /\ ~Exists(ids + 1)
  BY FreshId DEF Early
<1>2. /\ cmd[c] \in Command /\ Sound(cmd[c].copy)
      /\ cmd[c].target # NoId => Exists(cmd[c].target)
      /\ cmd[c].kind \in {"cancel", "reconcile"} => cmd[c].target # NoId
  BY Admitted
<1>3. PICK k \in Command : k = [cmd[c] EXCEPT !.pc = "insert", !.new = ids + 1]
  BY <1>1, <1>2 DEF Command, Steps
<1>4. /\ k.pc = "insert" /\ k.new = ids + 1 /\ k.target = cmd[c].target /\ k.copy = cmd[c].copy
      /\ k.kind = cmd[c].kind
      /\ cmd' = [cmd EXCEPT ![c] = k]
  BY <1>2, <1>3 DEF Command
<1>5. CommandOK(k)'
  BY <1>1, <1>2, <1>4 DEF CommandOK, Early, Writing, Exists
<1>6. k.pc \notin Early
  BY <1>4 DEF Early
<1> QED
  BY <1>4, <1>5, <1>6, CommandTakesId

LEMMA AdmitRecoveryKeeps ==
  ASSUME IInv, NEW c \in Commands, AdmitRecovery(c)
  PROVE  IInv'
<1>1. cmd[c].pc = "admit" /\ UNCHANGED <<row, lease, exec, note>>
  BY DEF AdmitRecovery, Admitting
<1>2. CASE Goto(c, "over") /\ UNCHANGED ids
  BY <1>1, <1>2, GivesUp
<1>3. CASE /\ ids' = ids + 1
           /\ cmd' = [cmd EXCEPT ![c].pc = "insert", ![c].new = ids + 1]
  BY <1>1, <1>3, InsertsNext
<1> QED
  BY <1>2, <1>3 DEF AdmitRecovery

LEMMA AdmitCreateKeeps ==
  ASSUME IInv, NEW c \in Commands, AdmitCreate(c)
  PROVE  IInv'
<1>1. cmd[c].pc = "admit" /\ UNCHANGED <<row, lease, exec, note>> /\ ids' = ids + 1
  BY DEF AdmitCreate, Admitting
<1>2. CASE cmd' = [cmd EXCEPT ![c].pc = "insert", ![c].new = ids + 1]
  BY <1>1, <1>2, InsertsNext
<1>3. ASSUME NEW d \in Ids, IsLatest(d), row[d].status \in Active,
             NEW runs \in BOOLEAN,
             cmd' = [cmd EXCEPT ![c] = [@ EXCEPT !.pc = IF runs THEN "request" ELSE "settle",
                        !.new = ids + 1, !.target = d,
                        !.copy = [row[d] EXCEPT !.mark = ids + 1,
                                    !.status = IF runs THEN "cancel-requested" ELSE "canceled"]]]
      PROVE  IInv'
  <2>1. ids \in Nat /\ ids + 1 \in Ids /\ ids + 1 # NoId /\ ~Exists(ids + 1)
    BY <1>1, FreshId DEF Early
  <2>2. row[d] \in Attempt /\ Exists(d) /\ d # NoId
    BY <1>3, NumberOfIds DEF IsLatest, Present, Exists, NoId, IInv, Typed
  <2>3. PICK m \in Attempt : m = [row[d] EXCEPT !.mark = ids + 1,
                     !.status = IF runs THEN "cancel-requested" ELSE "canceled"]
    BY <2>1, <2>2 DEF Attempt, Active, Terminal, Recoverable
  <2>m. m.status \in {"cancel-requested", "canceled"}
    BY <2>2, <2>3 DEF Attempt
  <2>4. cmd[c] \in Command
    BY <1>1, Admitted
  <2>5. PICK k \in Command : k = [cmd[c] EXCEPT !.pc = IF runs THEN "request" ELSE "settle",
                                                 !.new = ids + 1, !.target = d, !.copy = m]
    BY <2>1, <2>4 DEF Command, Steps
  <2>6. /\ k.pc \in {"request", "settle"} /\ k.new = ids + 1 /\ k.target = d /\ k.copy = m
        /\ cmd' = [cmd EXCEPT ![c] = k]
    BY <1>3, <2>3, <2>4, <2>5 DEF Command
  <2>7. CommandOK(k)'
    BY <1>1, <2>1, <2>2, <2>m, <2>6 DEF CommandOK, Early, Writing, Exists, Sound
  <2>8. k.pc \notin Early
    BY <2>6 DEF Early
  <2> QED
    BY <1>1, <2>6, <2>7, <2>8, CommandTakesId
<1> QED
  BY <1>2, <1>3 DEF AdmitCreate

(* cancel and reconcile take a copy of the attempt that they are to end.   *)
LEMMA TakesCopy ==
  ASSUME IInv, NEW c \in Commands, cmd[c].pc = "admit", cmd[c].kind \in {"cancel", "reconcile"},
         NEW step \in Writing, NEW s \in Active \cup Terminal,
         Sound([row[cmd[c].target] EXCEPT !.status = s]),
         cmd' = [cmd EXCEPT ![c].pc = step, ![c].copy = [row[cmd[c].target] EXCEPT !.status = s]],
         UNCHANGED <<row, ids, lease, exec, note>>
  PROVE  IInv'
<1>1. /\ cmd[c] \in Command /\ cmd[c].new = NoId /\ NoId <= ids
      /\ cmd[c].target \in Ids /\ Exists(cmd[c].target) /\ cmd[c].target # NoId
  BY Admitted
<1>2. row[cmd[c].target] \in Attempt
  BY <1>1 DEF IInv, Typed
<1>3. PICK m \in Attempt : m = [row[cmd[c].target] EXCEPT !.status = s]
  BY <1>2, OtherStatus
<1>4. m.status = s /\ Sound(m)
  BY <1>2, <1>3, OtherStatus
<1>5. s # "absent" /\ step \in {"request", "backend", "settle"}
  BY DEF Active, Terminal, Recoverable, Writing
<1>6. PICK k \in Command : k = [cmd[c] EXCEPT !.pc = step, !.copy = m]
  BY <1>1, <1>5 DEF Command, Steps
<1>7. /\ k.pc = step /\ k.copy = m /\ k.new = NoId /\ k.target = cmd[c].target
      /\ k.kind = cmd[c].kind /\ cmd' = [cmd EXCEPT ![c] = k]
  BY <1>1, <1>3, <1>6 DEF Command
<1>8. CommandOK(k)
  BY <1>1, <1>4, <1>5, <1>7 DEF CommandOK, Early
<1>9. k.pc \notin Early /\ lease' \in [Placements -> Commands \cup {None}]
  BY <1>5, <1>7 DEF Early, IInv, Typed
<1> QED
  BY <1>1, <1>7, <1>8, <1>9, CommandMovesAlone

LEMMA AdmitCancelKeeps ==
  ASSUME IInv, NEW c \in Commands, AdmitCancel(c)
  PROVE  IInv'
<1>1. /\ cmd[c].pc = "admit" /\ cmd[c].kind \in {"cancel", "reconcile"}
      /\ UNCHANGED <<row, ids, lease, exec, note>>
  BY DEF AdmitCancel, Admitting
<1>2. row[cmd[c].target] \in Attempt
  BY <1>1, Admitted DEF IInv, Typed
<1>3. {"cancel-requested", "canceled"} \subseteq Active \cup Terminal
  BY DEF Active, Terminal, Recoverable
<1>4. CASE Goto(c, "over")
  BY <1>1, <1>4, GivesUp
<1>5. ASSUME NEW step \in Writing, NEW s \in {"cancel-requested", "canceled"},
             cmd' = [cmd EXCEPT ![c].pc = step,
                                ![c].copy = [row[cmd[c].target] EXCEPT !.status = s]]
      PROVE  IInv'
  BY <1>1, <1>2, <1>3, <1>5, OtherStatus, TakesCopy
<1> QED
  BY <1>4, <1>5 DEF AdmitCancel, Writing

LEMMA AdmitReconcileKeeps ==
  ASSUME IInv, NEW c \in Commands, AdmitReconcile(c)
  PROVE  IInv'
<1>1. /\ cmd[c].pc = "admit" /\ cmd[c].kind \in {"cancel", "reconcile"}
      /\ UNCHANGED <<row, ids, lease, exec, note>>
  BY DEF AdmitReconcile, Admitting
<1>2. row[cmd[c].target] \in Attempt /\ Sound(row[cmd[c].target])
  BY <1>1, Admitted DEF IInv, Typed, RowsOK
<1>3. CASE Goto(c, "over")
  BY <1>1, <1>3, GivesUp
<1>4. ASSUME row[cmd[c].target].status \in {"running", "cancel-requested"},
             cmd' = [cmd EXCEPT ![c].pc = "backend",
                                ![c].copy = [row[cmd[c].target] EXCEPT
                                               !.status = row[cmd[c].target].status]]
      PROVE  IInv'
  <2>1. PICK s \in Active \cup Terminal : s = row[cmd[c].target].status
    BY <1>4 DEF Active
  <2>2. Sound([row[cmd[c].target] EXCEPT !.status = s])
    BY <1>2, <2>1, OtherStatus DEF Sound
  <2> QED
    BY <1>1, <1>4, <2>1, <2>2, TakesCopy DEF Writing
<1>5. ASSUME cmd' = [cmd EXCEPT ![c].pc = "settle",
                                ![c].copy = [row[cmd[c].target] EXCEPT !.status = "interrupted"]]
      PROVE  IInv'
  <2>1. "interrupted" \in Active \cup Terminal
    BY DEF Terminal, Recoverable
  <2> QED
    BY <1>1, <1>2, <1>5, <2>1, OtherStatus, TakesCopy DEF Writing
<1> QED
  BY <1>3, <1>4, <1>5 DEF AdmitReconcile

-----------------------------------------------------------------------------
(* Commands that write.                                                    *)
LEMMA Written ==
  ASSUME IInv, NEW d \in Ids, Exists(d)
  PROVE  d <= ids
  BY NumberOfIds DEF IInv, Typed, RowsOK, NoId

(* Before it inserts, a command writes the attempt that it is to end.      *)
LEMMA WritesTarget ==
  ASSUME IInv, NEW c \in Commands, cmd[c].pc \in Writing,
         NEW m \in Attempt, Sound(m), m.status # "absent",
         row' = [row EXCEPT ![cmd[c].target] = m],
         NEW step \in {"backend", "insert", "over"}, Goto(c, step),
         step = "insert" => cmd[c].kind = "create",
         UNCHANGED <<ids, lease, exec, note>>
  PROVE  IInv'
<1>1. cmd[c] \in Command /\ CommandOK(cmd[c])
  BY DEF IInv, Typed
<1>2. PICK d \in Ids : d = cmd[c].target
  BY <1>1 DEF CommandOK, Command
<1>d. Exists(d) /\ d <= ids /\ d # NoId /\ row' = [row EXCEPT ![d] = m]
  BY <1>1, <1>2, Written DEF CommandOK
<1>3. PICK k \in Command : k = [cmd[c] EXCEPT !.pc = step]
  BY <1>1 DEF Command, Steps
<1>4. /\ k.pc = step /\ k.copy = cmd[c].copy /\ k.new = cmd[c].new /\ k.target = d
      /\ k.kind = cmd[c].kind /\ cmd' = [cmd EXCEPT ![c] = k]
  BY <1>1, <1>2, <1>3 DEF Command, Goto
<1>5. Exists(d)' /\ \A e \in Ids \ {d} : Exists(e)' <=> Exists(e)
  BY <1>d, RowWritten
<1>6. k.new # NoId => k.new \in Ids /\ ~Exists(k.new)'
  BY <1>1, <1>d, <1>4, <1>5 DEF CommandOK, Command
<1>7. k.target # NoId /\ Exists(k.target)' /\ UNCHANGED ids
  BY <1>d, <1>4, <1>5
<1>8. CommandOK(k)'
  BY <1>1, <1>4, <1>6, <1>7 DEF CommandOK, Early, Writing
<1>9. k.pc \notin Early
  BY <1>4 DEF Early
<1> QED
  BY <1>d, <1>4, <1>8, <1>9, CommandWrites

LEMMA RequestKeeps ==
  ASSUME IInv, NEW c \in Commands, Request(c)
  PROVE  IInv'
<1>1. cmd[c].pc = "request" /\ cmd[c].pc \in Writing /\ UNCHANGED <<ids, lease, exec, note>>
  BY DEF Request, Writing
<1>2. CASE Goto(c, "over") /\ UNCHANGED row
  BY <1>1, <1>2, GivesUp
<1>3. CASE Save(cmd[c].target, cmd[c].copy) /\ Goto(c, "backend")
  <2>1. cmd[c].copy \in Attempt /\ Sound(cmd[c].copy) /\ cmd[c].copy.status # "absent"
    BY <1>1 DEF IInv, Typed, Command, CommandOK
  <2>2. row' = [row EXCEPT ![cmd[c].target] = cmd[c].copy]
    BY <1>3 DEF Save
  <2> QED
    BY <1>1, <1>3, <2>1, <2>2, WritesTarget
<1> QED
  BY <1>2, <1>3 DEF Request

LEMMA SettleKeeps ==
  ASSUME IInv, NEW c \in Commands, Settle(c)
  PROVE  IInv'
<1>1. cmd[c].pc = "settle" /\ cmd[c].pc \in Writing /\ UNCHANGED <<ids, lease, exec, note>>
  BY DEF Settle, Writing
<1>2. CASE Goto(c, "over") /\ UNCHANGED row
  BY <1>1, <1>2, GivesUp
<1>3. ASSUME NEW m, m \in {cmd[c].copy, [cmd[c].copy EXCEPT !.archived = TRUE]},
             Save(cmd[c].target, m),
             Goto(c, IF cmd[c].kind = "create" THEN "insert" ELSE "over")
      PROVE  IInv'
  <2>1. cmd[c].copy \in Attempt /\ Sound(cmd[c].copy) /\ cmd[c].copy.status # "absent"
    BY <1>1 DEF IInv, Typed, Command, CommandOK
  <2>2. m \in Attempt /\ m.status = cmd[c].copy.status /\ m.mark = cmd[c].copy.mark
    BY <1>3, <2>1 DEF Attempt
  <2>3. Sound(m) /\ m.status # "absent"
    BY <2>1, <2>2 DEF Sound
  <2>4. row' = [row EXCEPT ![cmd[c].target] = m]
    BY <1>3 DEF Save
  <2> QED
    BY <1>1, <1>3, <2>2, <2>3, <2>4, WritesTarget
<1> QED
  BY <1>2, <1>3 DEF Settle

LEMMA BackendCancelKeeps ==
  ASSUME IInv, NEW c \in Commands, BackendCancel(c)
  PROVE  IInv'
<1>1. cmd[c].pc = "backend" /\ UNCHANGED <<row, ids, lease, exec, note>>
  BY DEF BackendCancel
<1>2. CASE Goto(c, "over")
  BY <1>1, <1>2, GivesUp
<1>3. ASSUME NEW s \in {"canceled", "interrupted"},
             cmd' = [cmd EXCEPT ![c].pc = "settle", ![c].copy.status = s]
      PROVE  IInv'
  <2>1. cmd[c] \in Command /\ CommandOK(cmd[c]) /\ cmd[c].copy \in Attempt
    BY DEF IInv, Typed, Command
  <2>2. s \in Active \cup Terminal /\ s # "absent"
    BY DEF Terminal, Recoverable
  <2>3. PICK m \in Attempt : m = [cmd[c].copy EXCEPT !.status = s]
    BY <2>1, <2>2, OtherStatus
  <2>4. m.status = s /\ Sound(m)
    BY <2>1, <2>2, <2>3, OtherStatus
  <2>5. PICK k \in Command : k = [cmd[c] EXCEPT !.pc = "settle", !.copy = m]
    BY <2>1 DEF Command, Steps
  <2>6. /\ k.pc = "settle" /\ k.copy = m /\ k.new = cmd[c].new /\ k.target = cmd[c].target
        /\ k.kind = cmd[c].kind /\ cmd' = [cmd EXCEPT ![c] = k]
    BY <1>3, <2>1, <2>3, <2>5 DEF Command
  <2>7. CommandOK(k)
    BY <1>1, <2>1, <2>2, <2>4, <2>6 DEF CommandOK, Early, Writing
  <2>8. k.pc \notin Early /\ lease' \in [Placements -> Commands \cup {None}]
    BY <1>1, <2>6 DEF Early, IInv, Typed
  <2> QED
    BY <1>1, <2>6, <2>7, <2>8, CommandMovesAlone
<1> QED
  BY <1>2, <1>3 DEF BackendCancel

(* The insert of a new attempt, and the write that starts it.              *)
LEMMA WritesNew ==
  ASSUME IInv, NEW c \in Commands, cmd[c].pc \in {"insert", "start"},
         NEW m \in Attempt, Sound(m), m.status # "absent",
         row' = [row EXCEPT ![cmd[c].new] = m],
         NEW step \in {"start", "admitted"}, Goto(c, step),
         UNCHANGED <<ids, lease, exec, note>>
  PROVE  IInv'
<1>1. cmd[c] \in Command /\ CommandOK(cmd[c])
  BY DEF IInv, Typed
<1>2. PICK d \in Ids : d = cmd[c].new
  BY <1>1 DEF CommandOK, Command
<1>3. d <= ids /\ d # NoId /\ row' = [row EXCEPT ![d] = m]
  BY <1>1, <1>2 DEF CommandOK
<1>4. /\ RowsOK' /\ Exists(d)'
      /\ \A e \in Ids : Exists(e) => Exists(e)'
  BY <1>3, RowWritten
<1>5. PICK k \in Command : k = [cmd[c] EXCEPT !.pc = step]
  BY <1>1 DEF Command, Steps
<1>6. /\ k.pc = step /\ k.copy = cmd[c].copy /\ k.new = d /\ k.target = cmd[c].target
      /\ k.kind = cmd[c].kind /\ cmd' = [cmd EXCEPT ![c] = k]
  BY <1>1, <1>2, <1>5 DEF Command, Goto
<1>7. k.target # NoId => Exists(k.target)'
  BY <1>1, <1>4, <1>6 DEF CommandOK, Command
<1>8. CommandOK(k)'
  BY <1>1, <1>3, <1>4, <1>6, <1>7 DEF CommandOK, Early, Writing
<1>9. k.pc \notin Early
  BY <1>6 DEF Early
<1> QED
  BY <1>2, <1>3, <1>6, <1>8, <1>9, CommandWrites

LEMMA InsertKeeps ==
  ASSUME IInv, NEW c \in Commands, Insert(c)
  PROVE  IInv'
<1>1. cmd[c].pc = "insert" /\ UNCHANGED <<ids, lease, exec, note>>
  BY DEF Insert
<1>2. CASE Goto(c, "over") /\ UNCHANGED row
  BY <1>1, <1>2, GivesUp
<1>3. CASE row' = [row EXCEPT ![cmd[c].new] = Planned(cmd[c].placement)] /\ Goto(c, "start")
  <2>1. PICK m \in Attempt : m = Planned(cmd[c].placement)
    BY PlainAttempts DEF IInv, Typed, Command
  <2>2. Sound(m) /\ m.status # "absent"
    BY <2>1, PlainAttempts DEF IInv, Typed, Command
  <2> QED
    BY <1>1, <1>3, <2>1, <2>2, WritesNew
<1> QED
  BY <1>2, <1>3 DEF Insert

(* The attempt as started.                                                 *)
LEMMA StartedSound ==
  ASSUME IInv, NEW c \in Commands
  PROVE  /\ Started(c) \in Attempt /\ Started(c).status = "running"
         /\ Started(c).mark = NoId /\ Sound(Started(c))
<1>1. PICK m \in Attempt : m = Planned(cmd[c].placement)
  BY PlainAttempts DEF IInv, Typed, Command
<1>2. m.mark = NoId
  BY <1>1, PlainAttempts DEF IInv, Typed, Command
<1>3. "running" \in Active \cup Terminal
  BY DEF Active
<1> QED
  BY <1>1, <1>2, <1>3, OtherStatus DEF Started, Sound

LEMMA StartKeeps ==
  ASSUME IInv, NEW c \in Commands, Start(c)
  PROVE  IInv'
<1>1. cmd[c].pc = "start" /\ UNCHANGED <<ids, lease, exec, note>>
  BY DEF Start
<1>2. CASE Goto(c, "over") /\ UNCHANGED row
  BY <1>1, <1>2, GivesUp
<1>3. CASE Goto(c, "admitted") /\ UNCHANGED row
  <2>1. cmd[c] \in Command /\ CommandOK(cmd[c])
    BY DEF IInv, Typed
  <2>2. PICK k \in Command : k = [cmd[c] EXCEPT !.pc = "admitted"]
    BY <2>1 DEF Command, Steps
  <2>3. /\ k.pc = "admitted" /\ k.copy = cmd[c].copy /\ k.new = cmd[c].new
        /\ k.target = cmd[c].target /\ k.kind = cmd[c].kind /\ cmd' = [cmd EXCEPT ![c] = k]
    BY <1>3, <2>1, <2>2 DEF Command, Goto
  <2>4. CommandOK(k)
    BY <1>1, <2>1, <2>3 DEF CommandOK, Early, Writing
  <2>5. k.pc \notin Early /\ lease' \in [Placements -> Commands \cup {None}]
    BY <1>1, <2>3 DEF Early, IInv, Typed
  <2> QED
    BY <1>1, <1>3, <2>3, <2>4, <2>5, CommandMovesAlone
<1>4. CASE Save(cmd[c].new, Started(c)) /\ Goto(c, "admitted")
  <2>1. PICK m \in Attempt : m = Started(c)
    BY StartedSound
  <2>2. Sound(m) /\ m.status # "absent"
    BY <2>1, StartedSound
  <2>3. row' = [row EXCEPT ![cmd[c].new] = m]
    BY <1>4, <2>1 DEF Save
  <2> QED
    BY <1>1, <1>4, <2>2, <2>3, WritesNew
<1> QED
  BY <1>2, <1>3, <1>4 DEF Start

-----------------------------------------------------------------------------
(* Commands that end, and leases.                                          *)
LEMMA EndedCommands ==
  ASSUME IInv, NEW k \in {Ended, [Unused EXCEPT !.pc = "crashed"]}
  PROVE  /\ k \in Command /\ CommandOK(k) /\ k.new = NoId /\ k.pc \notin Early
         /\ k.target = NoId /\ k.kind = "none" /\ k.copy = Absent /\ k.pc \in {"done", "crashed"}
<1>1. /\ k \in Command /\ k.new = NoId /\ k.target = NoId /\ k.copy = Absent
      /\ k.kind = "none" /\ k.pc \in {"done", "crashed"}
  BY PlainRecords DEF Ended, Command
<1>2. NoId <= ids
  BY NumberOfIds DEF IInv, Typed, NoId
<1> QED
  BY <1>1, <1>2, PlainAttempts DEF CommandOK, Early, Writing

LEMMA CrashCommandKeeps ==
  ASSUME IInv, NEW c \in Commands, CrashCommand(c)
  PROVE  IInv'
<1>1. PICK k : k = [Unused EXCEPT !.pc = "crashed"]
  OBVIOUS
<1>2. cmd' = [cmd EXCEPT ![c] = k] /\ UNCHANGED <<row, ids, lease, exec, note>>
  BY <1>1 DEF CrashCommand
<1>3. lease' \in [Placements -> Commands \cup {None}]
  BY <1>2 DEF IInv, Typed
<1> QED
  BY <1>1, <1>2, <1>3, EndedCommands, CommandMovesAlone

LEMMA LeaseEndsKeeps ==
  ASSUME IInv, NEW p \in Placements, LeaseEnds(p)
  PROVE  IInv'
<1>1. UNCHANGED <<row, ids, cmd, exec, note>> /\ lease' \in [Placements -> Commands \cup {None}]
  BY DEF LeaseEnds, IInv, Typed
<1>2. Typed' /\ NoIdTwice'
  BY <1>1 DEF IInv, Typed, NoIdTwice
<1>3. RowsOK' /\ IdsCounted'
  BY <1>1 DEF IInv, RowsOK, Exists, IdsCounted, Spent
<1>4. \A c \in Commands : CommandOK(cmd[c])'
  BY <1>1 DEF IInv, CommandOK, Exists
<1>5. \A d \in Ids : ExecutorOK(d, exec[d])' /\ NoteOK(d)'
  BY <1>1 DEF IInv, ExecutorOK, NoteOK, Exists
<1> QED
  BY <1>2, <1>3, <1>4, <1>5 DEF IInv

LEMMA ReleaseKeeps ==
  ASSUME IInv, NEW c \in Commands, Release(c)
  PROVE  IInv'
<1>1. /\ cmd' = [cmd EXCEPT ![c] = Ended] /\ UNCHANGED <<row, ids, note>>
      /\ lease' \in [Placements -> Commands \cup {None}]
  BY DEF Release, IInv, Typed
<1>2. PICK k \in Command : k = Ended
  BY PlainRecords
<1>3. CASE UNCHANGED exec
  BY <1>1, <1>2, <1>3, EndedCommands, CommandMovesAlone
<1>4. ASSUME NEW x \in Executor, cmd[c].pc = "admitted", x.pc \in {"building", "queued"},
             Sound(x.mem), x.pc = "building" => x.mem.status # "absent",
             exec' = [exec EXCEPT ![cmd[c].new] = x]
      PROVE  IInv'
  <2>1. PICK d \in Ids : d = cmd[c].new
    BY <1>4 DEF IInv, Typed, CommandOK, Command
  <2>2. Exists(d) /\ exec' = [exec EXCEPT ![d] = x]
    BY <1>4, <2>1 DEF IInv, CommandOK
  <2>3. \A e \in Ids : Exists(e)' <=> Exists(e)
    BY <1>1 DEF Exists
  <2>4. exec' \in [Ids -> Executor]
    BY <2>2 DEF IInv, Typed
  <2>5. ExecutorOK(d, x)'
    BY <1>4, <2>2, <2>3 DEF ExecutorOK
  <2>6. \A e \in Ids : ExecutorOK(e, exec[e])'
    <3>1. exec'[d] = x /\ \A e \in Ids \ {d} : exec'[e] = exec[e]
      BY <2>2 DEF IInv, Typed
    <3>2. \A e \in Ids \ {d} : ExecutorOK(e, exec[e])'
      BY <2>3, <3>1, ExecutorsUndisturbed
    <3> QED
      BY <2>5, <3>1, <3>2
  <2>7. row' \in [Ids -> Attempt] /\ RowsOK'
    BY <1>1 DEF IInv, Typed, RowsOK, Exists
  <2>8. CommandOK(k)'
    BY <1>1, <1>2, EndedCommands, PlainAttempts DEF CommandOK, Early, Writing, Exists
  <2> QED
    BY <1>1, <1>2, <2>3, <2>4, <2>6, <2>7, <2>8, EndedCommands, CommandMoves
<1>5. CASE cmd[c].pc = "admitted" /\ Launch(c)
  <2>1. PICK kind \in ExecutionKinds :
          exec' = [exec EXCEPT ![cmd[c].new] =
                     [pc |-> "building", kind |-> kind, mem |-> Started(c),
                      by |-> IF cmd[c].kind = "create" THEN "create" ELSE "recovery"]]
    BY <1>5 DEF Launch
  <2>2. PICK x : x = [pc |-> "building", kind |-> kind, mem |-> Started(c),
                      by |-> IF cmd[c].kind = "create" THEN "create" ELSE "recovery"]
    OBVIOUS
  <2>3. x \in Executor /\ x.pc = "building" /\ x.mem = Started(c)
    BY <2>2, StartedSound, DeploymentsAssumption DEF Executor
  <2> QED
    BY <1>4, <1>5, <2>1, <2>2, <2>3, StartedSound
<1>6. CASE cmd[c].pc = "admitted" /\ Enqueue(c)
  <2>1. PICK kind \in ExecutionKinds :
          exec' = [exec EXCEPT ![cmd[c].new] =
                     [NoExecutor EXCEPT !.pc = "queued", !.kind = kind, !.by = "queue"]]
    BY <1>6 DEF Enqueue
  <2>2. PICK x : x = [NoExecutor EXCEPT !.pc = "queued", !.kind = kind, !.by = "queue"]
    OBVIOUS
  <2>3. x \in Executor /\ x.pc = "queued" /\ x.mem = Absent
    BY <2>2, PlainRecords, DeploymentsAssumption DEF Executor
  <2> QED
    BY <1>4, <1>6, <2>1, <2>2, <2>3, PlainAttempts
<1> QED
  BY <1>3, <1>5, <1>6 DEF Release

-----------------------------------------------------------------------------
(* Executors and the progress recorder: row and executor of one attempt    *)
(* become sound values m and x, and its records sound copies, the set N.   *)
LEMMA AttemptMoves ==
  ASSUME IInv, NEW d \in Ids, Exists(d), UNCHANGED <<ids, lease, cmd>>,
         NEW m \in Attempt, row' = [row EXCEPT ![d] = m], Sound(m), m.status # "absent",
         NEW x \in Executor, exec' = [exec EXCEPT ![d] = x], Sound(x.mem),
         x.pc \in {"building", "deploying", "report"} => x.mem.status # "absent",
         NEW N \in SUBSET Attempt, note' = [note EXCEPT ![d] = N],
         \A n \in N : Sound(n) /\ n.status # "absent"
  PROVE  IInv'
<1>1. d <= ids
  BY Written
<1>2. /\ row' \in [Ids -> Attempt] /\ RowsOK' /\ Exists(d)'
      /\ \A e \in Ids \ {d} : Exists(e)' <=> Exists(e)
      /\ \A e \in Ids : Exists(e) => Exists(e)'
  BY <1>1, RowWritten
<1>3. Typed'
  BY <1>2 DEF IInv, Typed
<1>4. IdsCounted' /\ NoIdTwice'
  BY DEF IInv, IdsCounted, Spent, NoIdTwice
<1>5. ASSUME NEW c \in Commands
      PROVE  CommandOK(cmd[c])'
  <2>1. cmd'[c] = cmd[c] /\ cmd[c] \in Command /\ CommandOK(cmd[c])
    BY DEF IInv, Typed
  <2>2. cmd[c].new # NoId /\ cmd[c].pc \in Writing \cup {"insert"} => ~Exists(cmd[c].new)'
    <3>1. PICK e \in Ids \cup {NoId} : e = cmd[c].new
      BY <2>1 DEF Command
    <3>2. e # NoId /\ cmd[c].pc \in Writing \cup {"insert"} => ~Exists(e) /\ e # d
      BY <2>1, <3>1 DEF CommandOK
    <3>3. e # NoId /\ cmd[c].pc \in Writing \cup {"insert"} => ~Exists(e)'
      BY <1>2, <3>1, <3>2
    <3>4. e = cmd'[c].new
      BY <2>1, <3>1
    <3> QED
      BY <2>1, <3>1, <3>3, <3>4
  <2>3. ids <= ids' /\ ids' \in Nat
    BY NumberOfIds DEF IInv, Typed, NoId
  <2>4. PICK k \in Command : k = cmd[c]
    BY <2>1
  <2>5. k = cmd'[c]
    BY <2>1, <2>4
  <2>6. CommandOK(k)'
    BY <1>2, <2>1, <2>2, <2>3, <2>4, <2>5, CommandUndisturbed
  <2> QED
    BY <2>5, <2>6
<1>6. exec'[d] = x /\ note'[d] = N
      /\ \A e \in Ids \ {d} : exec'[e] = exec[e] /\ note'[e] = note[e]
  BY DEF IInv, Typed
<1>7. ExecutorOK(d, x)' /\ NoteOK(d)'
  BY <1>2, <1>6 DEF ExecutorOK, NoteOK
<1>8. \A e \in Ids : ExecutorOK(e, exec[e])' /\ NoteOK(e)'
  BY <1>2, <1>6, <1>7, ExecutorsUndisturbed
<1> QED
  BY <1>2, <1>3, <1>4, <1>5, <1>8 DEF IInv

(* The executor alone moves.                                               *)
LEMMA ExecutorMoves ==
  ASSUME IInv, NEW d \in Ids, exec[d].pc # "none", UNCHANGED <<row, ids, lease, cmd, note>>,
         NEW x \in Executor, exec' = [exec EXCEPT ![d] = x], Sound(x.mem),
         x.pc \in {"building", "deploying", "report"} => x.mem.status # "absent"
  PROVE  IInv'
<1>1. Exists(d)
  BY DEF IInv, ExecutorOK
<1>2. PICK m \in Attempt : m = row[d]
  BY DEF IInv, Typed
<1>3. PICK N \in SUBSET Attempt : N = note[d]
  BY DEF IInv, Typed
<1>4. row' = [row EXCEPT ![d] = m] /\ note' = [note EXCEPT ![d] = N]
  BY <1>2, <1>3 DEF IInv, Typed
<1>5. Sound(m) /\ m.status # "absent" /\ (\A n \in N : Sound(n) /\ n.status # "absent")
  BY <1>1, <1>2, <1>3 DEF IInv, RowsOK, NoteOK, Exists
<1> QED
  BY <1>1, <1>4, <1>5, AttemptMoves

LEMMA DequeueKeeps ==
  ASSUME IInv, NEW d \in Ids, Dequeue(d)
  PROVE  IInv'
<1>1. /\ exec[d].pc = "queued" /\ UNCHANGED <<row, ids, lease, cmd, note>>
      /\ exec' = [exec EXCEPT ![d].pc = "building", ![d].mem = row[d]]
  BY DEF Dequeue
<1>2. exec[d] \in Executor /\ row[d] \in Attempt
  BY DEF IInv, Typed
<1>3. Sound(row[d]) /\ row[d].status # "absent"
  BY <1>1 DEF IInv, RowsOK, ExecutorOK, Exists
<1>4. PICK x \in Executor : x = [exec[d] EXCEPT !.pc = "building", !.mem = row[d]]
  BY <1>2 DEF Executor
<1>5. x.pc = "building" /\ x.mem = row[d] /\ exec' = [exec EXCEPT ![d] = x]
  BY <1>1, <1>2, <1>4 DEF Executor
<1> QED
  BY <1>1, <1>3, <1>5, ExecutorMoves

(* What is known of an executor at work.                                   *)
LEMMA AtWork ==
  ASSUME IInv, NEW d \in Ids, exec[d].pc \in {"building", "deploying", "report"}
  PROVE  /\ exec[d] \in Executor /\ exec[d].mem \in Attempt /\ Sound(exec[d].mem)
         /\ exec[d].mem.status # "absent" /\ Exists(d)
  BY DEF IInv, Typed, ExecutorOK, Executor

LEMMA FinishKeeps ==
  ASSUME IInv, NEW d \in Ids, exec[d].pc \in {"building", "deploying"},
         NEW result \in {"succeeded", "failed"}, Finish(d, result),
         UNCHANGED <<row, ids, lease, cmd, note>>
  PROVE  IInv'
<1>1. /\ exec[d] \in Executor /\ exec[d].mem \in Attempt /\ Sound(exec[d].mem)
      /\ exec[d].mem.status # "absent"
  BY AtWork
<1>2. PICK s \in Active \cup Terminal :
         s = IF exec[d].mem.status = "running" THEN result ELSE exec[d].mem.status
  BY <1>1 DEF Attempt, Active, Terminal, Recoverable
<1>3. PICK m \in Attempt : m = [exec[d].mem EXCEPT !.status = s]
  BY <1>1, OtherStatus
<1>4. m.status = s /\ m.mark = exec[d].mem.mark
  BY <1>1, <1>3, OtherStatus
<1>5. Sound(m) /\ m.status # "absent"
  BY <1>1, <1>2, <1>4 DEF Sound
<1>6. PICK x \in Executor : x = [exec[d] EXCEPT !.pc = "report", !.mem = m]
  BY <1>1 DEF Executor
<1>7. x.mem = m /\ exec' = [exec EXCEPT ![d] = x]
  BY <1>1, <1>2, <1>3, <1>6, ZenonT(60) DEF Executor, Finish
<1> QED
  BY <1>5, <1>7, ExecutorMoves

LEMMA ExecutorGoes ==
  ASSUME IInv, NEW d \in Ids, exec[d].pc \in {"building", "deploying"},
         NEW step \in {"deploying", "done"}, exec' = [exec EXCEPT ![d].pc = step],
         UNCHANGED <<row, ids, lease, cmd, note>>
  PROVE  IInv'
<1>1. /\ exec[d] \in Executor /\ Sound(exec[d].mem) /\ exec[d].mem.status # "absent"
  BY AtWork
<1>2. PICK x \in Executor : x = [exec[d] EXCEPT !.pc = step]
  BY <1>1 DEF Executor
<1>3. x.mem = exec[d].mem /\ exec' = [exec EXCEPT ![d] = x]
  BY <1>1, <1>2 DEF Executor
<1> QED
  BY <1>1, <1>3, ExecutorMoves

LEMMA FailOrStopKeeps ==
  ASSUME IInv, NEW d \in Ids, exec[d].pc \in {"building", "deploying"}, FailOrStop(d),
         UNCHANGED <<row, ids, lease, cmd, note>>
  PROVE  IInv'
<1>1. CASE Finish(d, "failed")
  BY <1>1, FinishKeeps
<1>2. CASE exec' = [exec EXCEPT ![d].pc = "done"]
  BY <1>2, ExecutorGoes
<1> QED
  BY <1>1, <1>2 DEF FailOrStop

(* The executor is over, and what it wrote is in the row.                  *)
LEMMA ReportKeeps ==
  ASSUME IInv, NEW d \in Ids, Report(d)
  PROVE  IInv'
<1>1. /\ exec[d].pc = "report" /\ UNCHANGED <<ids, lease, cmd, note>>
      /\ exec' = [exec EXCEPT ![d] = [NoExecutor EXCEPT !.pc = "done"]]
  BY DEF Report
<1>2. PICK x \in Executor : x = [NoExecutor EXCEPT !.pc = "done"]
  BY PlainRecords DEF Executor
<1>3. x.pc = "done" /\ x.mem = Absent /\ exec' = [exec EXCEPT ![d] = x]
  BY <1>1, <1>2, PlainRecords DEF Executor
<1>4. CASE UNCHANGED row
  BY <1>1, <1>3, <1>4, PlainAttempts, ExecutorMoves
<1>5. CASE Save(d, [exec[d].mem EXCEPT !.notes = row[d].notes])
  <2>1. /\ exec[d].mem \in Attempt /\ Sound(exec[d].mem) /\ exec[d].mem.status # "absent"
        /\ Exists(d) /\ row[d].notes \in 0..MaxNotes
    BY <1>1, AtWork DEF IInv, Typed, Attempt
  <2>2. PICK m \in Attempt : m = [exec[d].mem EXCEPT !.notes = row[d].notes]
    BY <2>1 DEF Attempt
  <2>3. m.status = exec[d].mem.status /\ m.mark = exec[d].mem.mark
    BY <2>1, <2>2 DEF Attempt
  <2>4. Sound(m) /\ m.status # "absent"
    BY <2>1, <2>3 DEF Sound
  <2>5. PICK N \in SUBSET Attempt : N = note[d]
    BY DEF IInv, Typed
  <2>6. note' = [note EXCEPT ![d] = N] /\ \A n \in N : Sound(n) /\ n.status # "absent"
    BY <1>1, <2>5 DEF IInv, Typed, NoteOK
  <2>7. row' = [row EXCEPT ![d] = m]
    BY <1>5, <2>2 DEF Save
  <2> QED
    BY <1>1, <1>3, <2>1, <2>4, <2>6, <2>7, PlainAttempts, AttemptMoves
<1> QED
  BY <1>4, <1>5 DEF Report

LEMMA ExecutorKeeps ==
  ASSUME IInv, NEW d \in Ids, ExecutorStep(d)
  PROVE  IInv'
<1>1. CASE Dequeue(d)
  BY <1>1, DequeueKeeps
<1>2. CASE BuildFails(d)
  BY <1>2, FinishKeeps, FailOrStopKeeps DEF BuildFails
<1>3. CASE Deploy(d)
  BY <1>3, ExecutorGoes DEF Deploy
<1>4. CASE Refused(d)
  BY <1>4, ExecutorGoes, FailOrStopKeeps DEF Refused
<1>5. CASE Deployed(d)
  BY <1>5, FinishKeeps, FailOrStopKeeps DEF Deployed
<1>6. CASE Report(d)
  BY <1>6, ReportKeeps
<1> QED
  BY <1>1, <1>2, <1>3, <1>4, <1>5, <1>6 DEF ExecutorStep

LEMMA CrashExecutorKeeps ==
  ASSUME IInv, NEW d \in Ids, CrashExecutor(d)
  PROVE  IInv'
<1>1. /\ exec[d].pc \in {"building", "deploying", "report"}
      /\ exec' = [exec EXCEPT ![d] = [NoExecutor EXCEPT !.pc = "dead"]]
      /\ note' = [note EXCEPT ![d] = {}] /\ UNCHANGED <<row, ids, lease, cmd>>
  BY DEF CrashExecutor
<1>2. PICK x \in Executor : x = [NoExecutor EXCEPT !.pc = "dead"]
  BY PlainRecords DEF Executor
<1>3. x.pc = "dead" /\ x.mem = Absent /\ exec' = [exec EXCEPT ![d] = x]
  BY <1>1, <1>2, PlainRecords DEF Executor
<1>4. PICK m \in Attempt : m = row[d]
  BY DEF IInv, Typed
<1>5. row' = [row EXCEPT ![d] = m] /\ Sound(m) /\ m.status # "absent" /\ Exists(d)
  BY <1>1, <1>4, AtWork DEF IInv, Typed, RowsOK, Exists
<1>6. PICK N \in SUBSET Attempt : N = {}
  OBVIOUS
<1> QED
  BY <1>1, <1>3, <1>5, <1>6, PlainAttempts, AttemptMoves

LEMMA ReadForNoteKeeps ==
  ASSUME IInv, NEW d \in Ids, ReadForNote(d)
  PROVE  IInv'
<1>1. /\ exec[d].pc \in {"building", "deploying"} /\ row[d].notes < MaxNotes
      /\ note' = [note EXCEPT ![d] = note[d] \cup {[row[d] EXCEPT !.notes = row[d].notes + 1]}]
      /\ UNCHANGED <<row, ids, lease, cmd, exec>>
  BY DEF ReadForNote
<1>2. /\ row[d] \in Attempt /\ Sound(row[d]) /\ Exists(d) /\ row[d].status # "absent"
      /\ exec[d] \in Executor /\ Sound(exec[d].mem) /\ exec[d].mem.status # "absent"
  BY <1>1, AtWork DEF IInv, Typed, RowsOK, Exists
<1>3. row[d].notes + 1 \in 0..MaxNotes
  BY <1>1, <1>2, DeploymentsAssumption DEF Attempt
<1>4. PICK n \in Attempt : n = [row[d] EXCEPT !.notes = row[d].notes + 1]
  BY <1>2, <1>3 DEF Attempt
<1>5. Sound(n) /\ n.status # "absent"
  BY <1>2, <1>4 DEF Sound, Attempt
<1>6. PICK N \in SUBSET Attempt : N = note[d] \cup {n}
  BY DEF IInv, Typed
<1>7. note' = [note EXCEPT ![d] = N] /\ \A k \in N : Sound(k) /\ k.status # "absent"
  BY <1>1, <1>4, <1>5, <1>6 DEF IInv, NoteOK
<1>8. PICK m \in Attempt : m = row[d]
  BY <1>2
<1>9. PICK x \in Executor : x = exec[d]
  BY <1>2
<1>10. row' = [row EXCEPT ![d] = m] /\ exec' = [exec EXCEPT ![d] = x]
  BY <1>1, <1>8, <1>9 DEF IInv, Typed
<1> QED
  BY <1>1, <1>2, <1>7, <1>8, <1>9, <1>10, AttemptMoves

(* A record writes its copy or nothing, and is over.                       *)
LEMMA Recorded ==
  ASSUME IInv, NEW d \in Ids, WriteNote(d)
  PROVE  \E m \in note[d] :
           /\ \/ Save(d, m) /\ undone' = IF m.status = row[d].status THEN undone
                                                                   ELSE undone \cup {d}
              \/ UNCHANGED <<row, undone>>
           /\ note' = [note EXCEPT ![d] = note[d] \ {m}]
           /\ UNCHANGED <<ids, lease, cmd, exec>>
           /\ m \in Attempt /\ Sound(m) /\ m.status # "absent" /\ Exists(d)
<1>1. PICK m \in note[d] :
        /\ \/ Save(d, m) /\ undone' = IF m.status = row[d].status THEN undone
                                                                ELSE undone \cup {d}
           \/ UNCHANGED <<row, undone>>
        /\ note' = [note EXCEPT ![d] = note[d] \ {m}]
        /\ UNCHANGED <<ids, lease, cmd, exec>>
  BY DEF WriteNote
<1>2. m \in Attempt /\ Sound(m) /\ m.status # "absent" /\ Exists(d)
  BY <1>1 DEF IInv, Typed, NoteOK
<1> QED
  BY <1>1, <1>2

LEMMA WriteNoteKeeps ==
  ASSUME IInv, NEW d \in Ids, WriteNote(d)
  PROVE  IInv'
<1>1. PICK n \in note[d] :
        /\ Save(d, n) \/ UNCHANGED row
        /\ note' = [note EXCEPT ![d] = note[d] \ {n}]
        /\ UNCHANGED <<ids, lease, cmd, exec>>
        /\ n \in Attempt /\ Sound(n) /\ n.status # "absent" /\ Exists(d)
  BY Recorded
<1>2. row[d] \in Attempt /\ Sound(row[d]) /\ row[d].status # "absent"
  BY <1>1 DEF IInv, Typed, RowsOK, Exists
<1>3. PICK m \in {n, row[d]} : row' = [row EXCEPT ![d] = m]
  BY <1>1 DEF Save, IInv, Typed
<1>4. PICK x \in Executor : x = exec[d]
  BY DEF IInv, Typed
<1>5. /\ exec' = [exec EXCEPT ![d] = x] /\ Sound(x.mem)
      /\ x.pc \in {"building", "deploying", "report"} => x.mem.status # "absent"
  BY <1>1, <1>4 DEF IInv, Typed, ExecutorOK
<1>6. PICK N \in SUBSET Attempt : N = note[d] \ {n}
  BY DEF IInv, Typed
<1>7. note' = [note EXCEPT ![d] = N] /\ \A k \in N : Sound(k) /\ k.status # "absent"
  BY <1>1, <1>6 DEF IInv, NoteOK
<1> QED
  BY <1>1, <1>2, <1>3, <1>5, <1>6, <1>7, AttemptMoves

-----------------------------------------------------------------------------
LEMMA StutteringKeeps ==
  ASSUME IInv, UNCHANGED vars
  PROVE  IInv'
<1>1. Typed' /\ NoIdTwice' /\ RowsOK' /\ IdsCounted'
  BY DEF IInv, vars, Typed, NoIdTwice, RowsOK, Exists, IdsCounted, Spent
<1>2. \A c \in Commands : CommandOK(cmd[c])'
  BY DEF IInv, vars, CommandOK, Exists
<1>3. \A d \in Ids : ExecutorOK(d, exec[d])' /\ NoteOK(d)'
  BY DEF IInv, vars, ExecutorOK, NoteOK, Exists
<1> QED
  BY <1>1, <1>2, <1>3 DEF IInv

LEMMA StepKeepsInvariant == IInv /\ [Next]_vars => IInv'
<1> SUFFICES ASSUME IInv, [Next]_vars
             PROVE  IInv'
  OBVIOUS
<1>1. ASSUME NEW c \in Commands, Invoke(c) \/ CommandStep(c) \/ CrashCommand(c)
      PROVE  IInv'
  BY <1>1, InvokeKeeps, AcquireKeeps, AdmitCreateKeeps, AdmitRecoveryKeeps, AdmitCancelKeeps,
     AdmitReconcileKeeps, RequestKeeps, BackendCancelKeeps, SettleKeeps, InsertKeeps,
     StartKeeps, ReleaseKeeps, CrashCommandKeeps DEF CommandStep
<1>2. ASSUME NEW d \in Ids,
             ExecutorStep(d) \/ ReadForNote(d) \/ WriteNote(d) \/ CrashExecutor(d)
      PROVE  IInv'
  BY <1>2, ExecutorKeeps, ReadForNoteKeeps, WriteNoteKeeps, CrashExecutorKeeps
<1>3. ASSUME NEW p \in Placements, LeaseEnds(p)
      PROVE  IInv'
  BY <1>3, LeaseEndsKeeps
<1>4. CASE UNCHANGED vars
  BY <1>4, StutteringKeeps
<1> QED
  BY <1>1, <1>2, <1>3, <1>4 DEF Next

-----------------------------------------------------------------------------
(* What a step does to the table: nothing, a write of an attempt that the  *)
(* fence lets through, or an insert over a row that is absent.             *)
MarksStay == \A d \in Ids : row[d].mark # NoId => row'[d].mark = row[d].mark

LEMMA WritesKeepMarks ==
  ASSUME IInv, NEW d \in Ids, NEW m, Save(d, m)
  PROVE  MarksStay
<1>1. row[d].mark # NoId => row[d].mark = m.mark
  BY DEF Save, Writable, Fenced
<1>2. row'[d] = m /\ \A e \in Ids \ {d} : row'[e] = row[e]
  BY DEF Save, IInv, Typed
<1> QED
  BY <1>1, <1>2 DEF MarksStay

LEMMA InsertKeepsMarks ==
  ASSUME IInv, NEW c \in Commands, Insert(c)
  PROVE  MarksStay
<1>1. PICK d \in Ids : d = cmd[c].new /\ ~Exists(d)
  <2>1. cmd[c].pc = "insert" /\ cmd[c] \in Command /\ CommandOK(cmd[c])
    BY DEF Insert, IInv, Typed
  <2> QED
    BY <2>1 DEF CommandOK, Command
<1>2. row[d].mark = NoId
  BY <1>1 DEF IInv, RowsOK, Sound, Exists
<1>3. \A e \in Ids \ {d} : row'[e] = row[e]
  BY <1>1 DEF Insert, IInv, Typed
<1> QED
  BY <1>2, <1>3 DEF MarksStay

LEMMA StepKeepsMarks == IInv /\ [Next]_vars => [MarksStay]_vars
<1> SUFFICES ASSUME IInv, Next
             PROVE  MarksStay
  OBVIOUS
<1>1. CASE UNCHANGED row
  BY <1>1 DEF MarksStay
<1>2. ASSUME NEW c \in Commands, Request(c) \/ Settle(c)
      PROVE  MarksStay
  <2>1. PICK d \in Ids : d = cmd[c].target
    BY <1>2 DEF Request, Settle, IInv, Typed, CommandOK, Writing, Command
  <2> QED
    BY <1>1, <1>2, <2>1, WritesKeepMarks DEF Request, Settle
<1>3. ASSUME NEW c \in Commands, Start(c)
      PROVE  MarksStay
  <2>1. PICK d \in Ids : d = cmd[c].new
    BY <1>3 DEF Start, IInv, Typed, CommandOK, Command
  <2> QED
    BY <1>1, <1>3, <2>1, WritesKeepMarks DEF Start
<1>4. ASSUME NEW d \in Ids, Report(d) \/ WriteNote(d)
      PROVE  MarksStay
  BY <1>1, <1>4, WritesKeepMarks DEF Report, WriteNote
<1>5. ASSUME NEW c \in Commands, Invoke(c) \/ CommandStep(c) \/ CrashCommand(c)
      PROVE  MarksStay
  <2>1. CASE Invoke(c)
    BY <1>1, <2>1 DEF Invoke, BeginCreate, BeginRecovery, BeginEnding, BeginArchive, Begin
  <2>2. CASE Request(c) \/ Settle(c) \/ Start(c) \/ Insert(c)
    BY <1>2, <1>3, <2>2, InsertKeepsMarks
  <2>3. CASE AdmitCreate(c) \/ AdmitRecovery(c) \/ AdmitCancel(c) \/ AdmitReconcile(c)
    BY <1>1, <2>3 DEF AdmitCreate, AdmitRecovery, AdmitCancel, AdmitReconcile, Admitting
  <2>4. CASE Acquire(c) \/ BackendCancel(c) \/ Release(c) \/ CrashCommand(c)
    BY <1>1, <2>4 DEF Acquire, BackendCancel, Release, CrashCommand
  <2> QED
    BY <1>5, <2>1, <2>2, <2>3, <2>4 DEF CommandStep
<1>6. ASSUME NEW d \in Ids,
             ExecutorStep(d) \/ ReadForNote(d) \/ WriteNote(d) \/ CrashExecutor(d)
      PROVE  MarksStay
  <2>1. CASE Report(d) \/ WriteNote(d)
    BY <1>4, <2>1
  <2>2. CASE Dequeue(d) \/ BuildFails(d) \/ Deploy(d) \/ Refused(d) \/ Deployed(d)
    BY <1>1, <2>2 DEF Dequeue, BuildFails, Deploy, Refused, Deployed
  <2>3. CASE ReadForNote(d) \/ CrashExecutor(d)
    BY <1>1, <2>3 DEF ReadForNote, CrashExecutor
  <2> QED
    BY <1>6, <2>1, <2>2, <2>3 DEF ExecutorStep
<1>7. ASSUME NEW p \in Placements, LeaseEnds(p)
      PROVE  MarksStay
  BY <1>1, <1>7 DEF LeaseEnds
<1> QED
  BY <1>5, <1>6, <1>7 DEF Next

-----------------------------------------------------------------------------
LEMMA OnlyRecords ==
  [Next]_vars => \/ UNCHANGED <<note, undone>>
                 \/ \E d \in Ids : ReadForNote(d) \/ WriteNote(d) \/ CrashExecutor(d)
<1> SUFFICES ASSUME [Next]_vars,
                    \A d \in Ids : ~ReadForNote(d) /\ ~WriteNote(d) /\ ~CrashExecutor(d)
             PROVE  UNCHANGED <<note, undone>>
  OBVIOUS
<1>1. ASSUME NEW c \in Commands, Invoke(c) \/ CrashCommand(c)
      PROVE  UNCHANGED <<note, undone>>
  BY <1>1 DEF Invoke, BeginCreate, BeginRecovery, BeginEnding, BeginArchive, Begin, CrashCommand
<1>2. ASSUME NEW c \in Commands, CommandStep(c)
      PROVE  UNCHANGED <<note, undone>>
  <2>1. CASE Acquire(c) \/ BackendCancel(c) \/ Release(c)
    BY <2>1 DEF Acquire, BackendCancel, Release
  <2>2. CASE AdmitCreate(c) \/ AdmitRecovery(c) \/ AdmitCancel(c) \/ AdmitReconcile(c)
    BY <2>2 DEF AdmitCreate, AdmitRecovery, AdmitCancel, AdmitReconcile, Admitting
  <2>3. CASE Request(c) \/ Settle(c) \/ Start(c) \/ Insert(c)
    BY <2>3 DEF Request, Settle, Start, Insert
  <2> QED
    BY <1>2, <2>1, <2>2, <2>3 DEF CommandStep
<1>3. ASSUME NEW d \in Ids, ExecutorStep(d)
      PROVE  UNCHANGED <<note, undone>>
  BY <1>3 DEF ExecutorStep, Dequeue, BuildFails, Deploy, Refused, Deployed, Report
<1>4. ASSUME NEW p \in Placements, LeaseEnds(p)
      PROVE  UNCHANGED <<note, undone>>
  BY <1>4 DEF LeaseEnds
<1>5. CASE UNCHANGED vars
  BY <1>5 DEF vars
<1> QED
  BY <1>1, <1>2, <1>3, <1>4, <1>5 DEF Next

LEMMA AlwaysSound == Spec => []IInv
<1>1. Init => IInv
  BY InitiallySound
<1>2. IInv /\ [Next]_vars => IInv'
  BY StepKeepsInvariant
<1> QED
  BY <1>1, <1>2, PTL DEF Spec

(* Every variable of the model keeps its type: in particular, every status *)
(* that any writer puts into the table is one of the enumeration and the   *)
(* id factory never runs out.                                              *)
THEOREM DeploymentsAreTyped == Spec => []TypeOK
<1>1. Init => undone \subseteq Ids
  BY DEF Init
<1>2. undone \subseteq Ids /\ [Next]_vars => (undone \subseteq Ids)'
  <2> SUFFICES ASSUME undone \subseteq Ids, [Next]_vars
               PROVE  undone' \subseteq Ids
    OBVIOUS
  <2>1. CASE UNCHANGED undone
    BY <2>1
  <2>2. ASSUME NEW d \in Ids, ReadForNote(d) \/ WriteNote(d) \/ CrashExecutor(d)
        PROVE  undone' \subseteq Ids
    BY <2>2 DEF ReadForNote, WriteNote, CrashExecutor
  <2> QED
    BY <2>1, <2>2, OnlyRecords
<1>3. IInv /\ undone \subseteq Ids => TypeOK
  BY DEF IInv, Typed, TypeOK
<1> QED
  BY <1>1, <1>2, <1>3, AlwaysSound, PTL DEF Spec

(* A superseded attempt is never planned, running, failed or succeeded     *)
(* again, whichever executor, progress record or command writes it last    *)
(* (updateOne in deployment-repository.ts, applyExecutionResult).          *)
THEOREM SupersededStaysStopped == Spec => []SupersededNeverCompletes
<1>1. IInv => SupersededNeverCompletes
  BY DEF IInv, RowsOK, Sound, SupersededNeverCompletes
<1> QED
  BY <1>1, AlwaysSound, PTL

(* No write removes or replaces the supersede mark of an attempt (the WHERE*)
(* clause of updateOne), and no insert hits a row that has one.            *)
THEOREM MarksAreFinal == Spec => SupersedeMarkIsFinal
<1>1. IInv /\ [Next]_vars => [\A d \in Ids : row[d].mark # NoId => row'[d].mark = row[d].mark]_vars
  BY StepKeepsMarks DEF MarksStay
<1> QED
  BY <1>1, AlwaysSound, PTL DEF Spec, SupersedeMarkIsFinal

-----------------------------------------------------------------------------
(* Older attempts are refused, for all constants.  An attempt is failed or *)
(* succeeded only when its executor is over, since only its report writes  *)
(* that and nobody has copied it before; the index keeps two attempts from *)
(* being active; and what the guard lets pass is then interrupted.         *)
Outcomes == {"succeeded", "failed"}

ExecutorOver(d) == exec[d].pc \in {"done", "dead"}

OneIsActive == \A d, e \in Ids : row[d].status \in Active /\ row[e].status \in Active => d = e

Unreported(d) == ~ExecutorOver(d) =>
    /\ row[d].status \notin Outcomes
    /\ \A n \in note[d] : n.status \notin Outcomes
    /\ \A c \in Commands : cmd[c].target = d => cmd[c].copy.status \notin Outcomes

NewIsFresh == \A c \in Commands : cmd[c].new # NoId => exec[cmd[c].new].pc = "none"

RInv == OneIsActive /\ NewIsFresh /\ \A d \in Ids : Unreported(d)

Guarded == IInv /\ RInv

LEMMA GuardedFacts ==
  ASSUME Guarded
  PROVE  /\ row \in [Ids -> Attempt] /\ cmd \in [Commands -> Command] /\ exec \in [Ids -> Executor]
         /\ note \in [Ids -> SUBSET Attempt] /\ NoId \notin Ids
         /\ \A d \in Ids : Unreported(d) /\ (exec[d].pc # "none" => Exists(d))
         /\ \A c \in Commands : /\ CommandOK(cmd[c]) /\ cmd[c] \in Command
                                /\ cmd[c].new # NoId => cmd[c].new \in Ids
                                /\ cmd[c].target # NoId => cmd[c].target \in Ids
  BY NumberOfIds DEF Guarded, RInv, IInv, Typed, ExecutorOK, NoId, Command

LEMMA IndexKeepsOne ==
  ASSUME Guarded, NEW d \in Ids, NEW m, row' = [row EXCEPT ![d] = m], ~Clash(d, m)
  PROVE  OneIsActive'
<1>1. row'[d] = m /\ \A e \in Ids \ {d} : row'[e] = row[e]
  BY GuardedFacts
<1> QED
  BY <1>1 DEF Clash, OneIsActive, Guarded, RInv

(* Commands that write nothing, or only their target.                      *)
LEMMA CommandGuarded ==
  ASSUME Guarded, NEW c \in Commands, NEW k, cmd' = [cmd EXCEPT ![c] = k], UNCHANGED <<row, exec, note>>,
         k.new # NoId => exec[k.new].pc = "none",
         \A d \in Ids : k.target = d /\ ~ExecutorOver(d) => k.copy.status \notin Outcomes
  PROVE  RInv'
<1>1. cmd'[c] = k /\ \A e \in Commands \ {c} : cmd'[e] = cmd[e]
  BY GuardedFacts
<1>2. OneIsActive' /\ NewIsFresh'
  BY <1>1 DEF Guarded, RInv, OneIsActive, NewIsFresh
<1>3. ASSUME NEW d \in Ids
      PROVE  Unreported(d)'
  BY <1>1, GuardedFacts DEF Unreported, ExecutorOver
<1> QED
  BY <1>2, <1>3 DEF RInv

LEMMA GotoGuarded ==
  ASSUME Guarded, NEW c \in Commands, NEW step, Goto(c, step), UNCHANGED <<row, exec, note>>
  PROVE  RInv'
<1>1. PICK k : k = [cmd[c] EXCEPT !.pc = step]
  OBVIOUS
<1>2. /\ cmd' = [cmd EXCEPT ![c] = k] /\ k.new = cmd[c].new /\ k.target = cmd[c].target
      /\ k.copy = cmd[c].copy
  BY <1>1, GuardedFacts DEF Goto, Command
<1>3. k.new # NoId => exec[k.new].pc = "none"
  BY <1>2 DEF Guarded, RInv, NewIsFresh
<1>4. \A d \in Ids : k.target = d /\ ~ExecutorOver(d) => k.copy.status \notin Outcomes
  BY <1>2, GuardedFacts DEF Unreported
<1> QED
  BY <1>2, <1>3, <1>4, CommandGuarded

LEMMA WriteGuarded ==
  ASSUME Guarded, NEW d \in Ids, NEW m, row' = [row EXCEPT ![d] = m], ~Clash(d, m),
         ~ExecutorOver(d) => m.status \notin Outcomes,
         NEW c \in Commands, NEW step, Goto(c, step), UNCHANGED <<exec, note>>
  PROVE  RInv'
<1>1. row'[d] = m /\ \A e \in Ids \ {d} : row'[e] = row[e]
  BY GuardedFacts
<1>2. \A e \in Commands : /\ cmd'[e].new = cmd[e].new /\ cmd'[e].target = cmd[e].target
                          /\ cmd'[e].copy = cmd[e].copy
  BY GuardedFacts DEF Goto, Command
<1>3. NewIsFresh'
  BY <1>2 DEF Guarded, RInv, NewIsFresh
<1>4. ASSUME NEW e \in Ids
      PROVE  Unreported(e)'
  BY <1>1, <1>2, GuardedFacts DEF Unreported, ExecutorOver
<1> QED
  BY <1>3, <1>4, IndexKeepsOne DEF RInv

LEMMA TakesIdGuarded ==
  ASSUME Guarded, NEW c \in Commands, cmd[c].pc \in Early
  PROVE  exec[ids + 1].pc = "none"
<1>1. ids + 1 \in Ids /\ ~Exists(ids + 1)
  BY FreshId DEF Guarded
<1> QED
  BY <1>1, GuardedFacts

LEMMA InvokeGuarded ==
  ASSUME Guarded, NEW c \in Commands, Invoke(c)
  PROVE  RInv'
<1>1. ASSUME NEW d \in Ids \cup {NoId}, NEW p, NEW kind \in Kinds, NEW step \in Steps,
             Begin(c, kind, step, d, p)
      PROVE  RInv'
  <2>1. PICK k : /\ cmd' = [cmd EXCEPT ![c] = k] /\ UNCHANGED <<row, exec, note>>
                 /\ k = [Unused EXCEPT !.pc = step, !.kind = kind, !.target = d, !.placement = p,
                                       !.copy = IF d = NoId THEN Absent ELSE row[d]]
    BY <1>1 DEF Begin
  <2>2. k.new = NoId /\ k.target = d /\ (d # NoId => k.copy = row[d])
    BY <2>1 DEF Unused
  <2>3. \A e \in Ids : k.target = e /\ ~ExecutorOver(e) => k.copy.status \notin Outcomes
    BY <2>2, GuardedFacts DEF Unreported
  <2> QED
    BY <2>1, <2>2, <2>3, CommandGuarded
<1>2. /\ NoId \in Ids \cup {NoId} /\ Present \subseteq Ids
      /\ {"create", "retry", "rollback", "cancel", "reconcile", "archive"} \subseteq Kinds
      /\ {"wait", "settle"} \subseteq Steps
  BY DEF Present, Kinds, Steps
<1>3. PICK d \in Ids \cup {NoId}, step \in {"wait", "settle"},
           kind \in {"create", "retry", "rollback", "cancel", "reconcile", "archive"} :
             \E p : Begin(c, kind, step, d, p)
  <2>1. CASE BeginCreate(c)
    BY <1>2, <2>1 DEF BeginCreate
  <2>2. CASE BeginRecovery(c)
    BY <1>2, <2>2 DEF BeginRecovery
  <2>3. CASE BeginEnding(c)
    BY <1>2, <2>3 DEF BeginEnding
  <2>4. CASE BeginArchive(c)
    BY <1>2, <2>4 DEF BeginArchive
  <2> QED
    BY <2>1, <2>2, <2>3, <2>4 DEF Invoke
<1> QED
  BY <1>1, <1>2, <1>3

LEMMA AdmitGuarded ==
  ASSUME Guarded, NEW c \in Commands,
         AdmitCreate(c) \/ AdmitRecovery(c) \/ AdmitCancel(c) \/ AdmitReconcile(c)
  PROVE  RInv'
<1>1. cmd[c].pc = "admit" /\ cmd[c].pc \in Early /\ UNCHANGED <<row, lease, exec, note>>
  BY DEF AdmitCreate, AdmitRecovery, AdmitCancel, AdmitReconcile, Admitting, Early
<1>2. exec[ids + 1].pc = "none" /\ cmd[c].new = NoId
  BY <1>1, TakesIdGuarded, GuardedFacts DEF CommandOK
<1>3. CASE cmd' = [cmd EXCEPT ![c].pc = "insert", ![c].new = ids + 1]
  <2>1. PICK k : k = [cmd[c] EXCEPT !.pc = "insert", !.new = ids + 1]
    OBVIOUS
  <2>2. /\ cmd' = [cmd EXCEPT ![c] = k] /\ k.new = ids + 1 /\ k.target = cmd[c].target
        /\ k.copy = cmd[c].copy
    BY <1>3, <2>1, GuardedFacts DEF Command
  <2>3. \A d \in Ids : k.target = d /\ ~ExecutorOver(d) => k.copy.status \notin Outcomes
    BY <2>2, GuardedFacts DEF Unreported
  <2> QED
    BY <1>1, <1>2, <2>2, <2>3, CommandGuarded
<1>4. ASSUME NEW d \in Ids, NEW runs \in BOOLEAN, NEW m,
             m = [row[d] EXCEPT !.mark = ids + 1,
                    !.status = IF runs THEN "cancel-requested" ELSE "canceled"],
             cmd' = [cmd EXCEPT ![c] = [@ EXCEPT !.pc = IF runs THEN "request" ELSE "settle",
                                                 !.new = ids + 1, !.target = d, !.copy = m]]
      PROVE  RInv'
  <2>1. PICK k : k = [cmd[c] EXCEPT !.pc = IF runs THEN "request" ELSE "settle",
                                    !.new = ids + 1, !.target = d, !.copy = m]
    OBVIOUS
  <2>2. cmd' = [cmd EXCEPT ![c] = k] /\ k.new = ids + 1 /\ k.copy = m
    BY <1>4, <2>1, GuardedFacts DEF Command
  <2>3. m.status \notin Outcomes
    BY <1>4, GuardedFacts DEF Attempt, Outcomes
  <2> QED
    BY <1>1, <1>2, <2>2, <2>3, CommandGuarded
<1>5. ASSUME NEW step \in Writing, NEW s, s \notin Outcomes, cmd[c].kind \in {"cancel", "reconcile"},
             cmd' = [cmd EXCEPT ![c].pc = step, ![c].copy = [row[cmd[c].target] EXCEPT !.status = s]]
      PROVE  RInv'
  <2>1. PICK d \in Ids : d = cmd[c].target
    BY <1>5, GuardedFacts DEF CommandOK
  <2>2. PICK m : m = [row[d] EXCEPT !.status = s]
    OBVIOUS
  <2>3. m.status \notin Outcomes
    BY <1>5, <2>2, GuardedFacts DEF Attempt
  <2>4. PICK k : k = [cmd[c] EXCEPT !.pc = step, !.copy = m]
    OBVIOUS
  <2>5. cmd' = [cmd EXCEPT ![c] = k] /\ k.new = NoId /\ k.copy = m
    BY <1>2, <1>5, <2>1, <2>2, <2>4, GuardedFacts DEF Command
  <2> QED
    BY <1>1, <2>3, <2>5, CommandGuarded
<1>6. CASE Goto(c, "over")
  BY <1>1, <1>6, GotoGuarded
<1>7. CASE AdmitCreate(c)
  <2>1. CASE \E d \in Ids :
               LET runs == row[d].status = "running"
                   copy == [row[d] EXCEPT !.mark = ids + 1,
                              !.status = IF runs THEN "cancel-requested" ELSE "canceled"]
               IN /\ IsLatest(d) /\ row[d].status \in Active
                  /\ cmd' = [cmd EXCEPT ![c] = [@ EXCEPT !.pc = IF runs THEN "request" ELSE "settle",
                                                         !.new = ids + 1, !.target = d,
                                                         !.copy = copy]]
    <3>1. PICK d, runs, m :
            /\ d \in Ids /\ runs \in BOOLEAN
            /\ m = [row[d] EXCEPT !.mark = ids + 1,
                      !.status = IF runs THEN "cancel-requested" ELSE "canceled"]
            /\ cmd' = [cmd EXCEPT ![c] = [@ EXCEPT !.pc = IF runs THEN "request" ELSE "settle",
                                                   !.new = ids + 1, !.target = d, !.copy = m]]
      BY <2>1
    <3> QED
      BY <1>4, <3>1
  <2> QED
    BY <1>3, <1>7, <2>1 DEF AdmitCreate
<1>8. CASE AdmitRecovery(c)
  BY <1>3, <1>6, <1>8 DEF AdmitRecovery
<1>9. CASE AdmitCancel(c)
  <2>1. cmd[c].kind = "cancel" /\ {"cancel-requested", "canceled"} \cap Outcomes = {}
    BY <1>9 DEF AdmitCancel, Admitting, Outcomes
  <2> QED
    BY <1>5, <1>6, <1>9, <2>1 DEF AdmitCancel, Writing
<1>10. CASE AdmitReconcile(c)
  <2>1. cmd[c].kind = "reconcile" /\ {"running", "cancel-requested", "interrupted"} \cap Outcomes = {}
    BY <1>10 DEF AdmitReconcile, Admitting, Outcomes
  <2> QED
    BY <1>5, <1>6, <1>10, <2>1 DEF AdmitReconcile, Writing
<1> QED
  BY <1>7, <1>8, <1>9, <1>10

LEMMA RequestGuarded ==
  ASSUME Guarded, NEW c \in Commands, Request(c) \/ Settle(c)
  PROVE  RInv'
<1>1. cmd[c].pc \in Writing /\ UNCHANGED <<exec, note>>
  BY DEF Request, Settle, Writing
<1>2. PICK d \in Ids : d = cmd[c].target
  BY <1>1, GuardedFacts DEF CommandOK
<1>3. \E step : Goto(c, step)
  BY DEF Request, Settle
<1>4. PICK m : /\ m.status = cmd[c].copy.status
               /\ UNCHANGED row \/ Save(d, m)
  <2>1. PICK m : m = [cmd[c].copy EXCEPT !.archived = TRUE]
    OBVIOUS
  <2>2. m.status = cmd[c].copy.status
    BY <2>1, GuardedFacts DEF Command, Attempt
  <2>3. CASE Request(c)
    BY <1>2, <2>3 DEF Request
  <2>4. CASE Settle(c) /\ cmd[c].kind = "archive"
    BY <1>2, <2>1, <2>2, <2>4 DEF Settle
  <2>5. CASE Settle(c) /\ cmd[c].kind # "archive"
    BY <1>2, <2>5 DEF Settle
  <2> QED
    BY <2>3, <2>4, <2>5
<1>5. ~ExecutorOver(d) => m.status \notin Outcomes
  BY <1>2, <1>4, GuardedFacts DEF Unreported
<1>6. CASE Save(d, m)
  BY <1>1, <1>3, <1>5, <1>6, WriteGuarded DEF Save, Writable
<1> QED
  BY <1>1, <1>3, <1>4, <1>6, GotoGuarded

LEMMA InsertGuarded ==
  ASSUME Guarded, NEW c \in Commands, Insert(c) \/ Start(c)
  PROVE  RInv'
<1>1. cmd[c].pc \in {"insert", "start"} /\ UNCHANGED <<exec, note>>
  BY DEF Insert, Start
<1>2. PICK d \in Ids : d = cmd[c].new
  BY <1>1, GuardedFacts DEF CommandOK
<1>3. \E step : Goto(c, step)
  BY DEF Insert, Start
<1>4. PICK m : m.status \in {"planned", "running"}
               /\ (UNCHANGED row \/ (row' = [row EXCEPT ![d] = m] /\ ~Clash(d, m)))
  <2>1. Planned(cmd[c].placement).status = "planned" /\ Started(c).status = "running"
    BY DEF Planned, Started
  <2> QED
    BY <1>2, <2>1 DEF Insert, Start, Save, Writable
<1>5. m.status \notin Outcomes
  BY <1>4 DEF Outcomes
<1> QED
  BY <1>1, <1>3, <1>4, <1>5, WriteGuarded, GotoGuarded

LEMMA BackendGuarded ==
  ASSUME Guarded, NEW c \in Commands, BackendCancel(c)
  PROVE  RInv'
<1>1. UNCHANGED <<row, exec, note>>
  BY DEF BackendCancel
<1>2. ASSUME NEW s \in {"interrupted", "canceled"},
             cmd' = [cmd EXCEPT ![c].pc = "settle", ![c].copy.status = s]
      PROVE  RInv'
  <2>1. PICK m : m = [cmd[c].copy EXCEPT !.status = s]
    OBVIOUS
  <2>2. PICK k : k = [cmd[c] EXCEPT !.pc = "settle", !.copy = m]
    OBVIOUS
  <2>3. m.status \notin Outcomes
    BY <2>1, GuardedFacts DEF Command, Attempt, Outcomes
  <2>4. /\ cmd' = [cmd EXCEPT ![c] = k] /\ k.new = cmd[c].new /\ k.copy = m
    BY <1>2, <2>1, <2>2, GuardedFacts DEF Command
  <2>5. k.new # NoId => exec[k.new].pc = "none"
    BY <2>4 DEF Guarded, RInv, NewIsFresh
  <2> QED
    BY <1>1, <2>3, <2>4, <2>5, CommandGuarded
<1>3. CASE Goto(c, "over")
  BY <1>1, <1>3, GotoGuarded
<1> QED
  BY <1>2, <1>3 DEF BackendCancel

(* An executor is given to a new attempt, whose command forgets it.        *)
LEMMA ReleaseGuarded ==
  ASSUME Guarded, NEW c \in Commands, Release(c)
  PROVE  RInv'
<1>1. cmd' = [cmd EXCEPT ![c] = Ended] /\ UNCHANGED <<row, note>>
  BY DEF Release
<1>2. PICK k : k = Ended
  OBVIOUS
<1>3. k.new = NoId /\ k.target = NoId
  BY <1>2 DEF Ended, Unused
<1>4. CASE UNCHANGED exec
  BY <1>1, <1>2, <1>3, <1>4, GuardedFacts, CommandGuarded
<1>5. ASSUME NEW x, cmd[c].pc = "admitted", exec' = [exec EXCEPT ![cmd[c].new] = x]
      PROVE  RInv'
  <2>1. PICK d \in Ids : d = cmd[c].new /\ d # NoId /\ exec[d].pc = "none"
    BY <1>5, GuardedFacts DEF CommandOK, Guarded, RInv, NewIsFresh
  <2>2. \A e \in Ids \ {d} : exec'[e] = exec[e]
    BY <1>5, <2>1, GuardedFacts
  <2>3. cmd'[c] = k /\ \A b \in Commands \ {c} : cmd'[b] = cmd[b]
    BY <1>1, <1>2, <1>3, GuardedFacts
  <2>4. NewIsFresh'
    <3> SUFFICES ASSUME NEW b \in Commands, cmd'[b].new # NoId
                 PROVE  exec'[cmd'[b].new].pc = "none"
      BY DEF NewIsFresh
    <3>1. b # c /\ cmd'[b] = cmd[b]
      BY <1>2, <1>3, <2>3
    <3>2. cmd[b].new # d
      BY <2>1, <3>1 DEF Guarded, IInv, NoIdTwice
    <3> QED
      BY <2>2, <3>1, <3>2, GuardedFacts DEF Guarded, RInv, NewIsFresh
  <2>5. ASSUME NEW e \in Ids
        PROVE  Unreported(e)'
    <3>1. Unreported(e) /\ (~ExecutorOver(e)' => ~ExecutorOver(e))
      BY <2>1, <2>2, GuardedFacts DEF ExecutorOver
    <3>2. \A b \in Commands : cmd'[b].target = e => cmd'[b] = cmd[b]
      BY <1>2, <1>3, <2>3, GuardedFacts
    <3> QED
      BY <1>1, <3>1, <3>2 DEF Unreported
  <2> QED
    BY <1>1, <2>4, <2>5 DEF RInv, OneIsActive, Guarded
<1> QED
  BY <1>4, <1>5 DEF Release, Launch, Enqueue

-----------------------------------------------------------------------------
(* The steps of one attempt's executor and progress records.               *)
LEMMA AttemptGuarded ==
  ASSUME Guarded, NEW d \in Ids, UNCHANGED cmd,
         NEW m, row' = [row EXCEPT ![d] = m], ~Clash(d, m),
         NEW x, exec' = [exec EXCEPT ![d] = x], NEW N, note' = [note EXCEPT ![d] = N],
         exec[d].pc = "none" => x.pc = "none",
         x.pc \notin {"done", "dead"} =>
            ~ExecutorOver(d) /\ m.status \notin Outcomes /\ \A n \in N : n.status \notin Outcomes
  PROVE  RInv'
<1>1. /\ row'[d] = m /\ exec'[d] = x /\ note'[d] = N
      /\ \A e \in Ids \ {d} : row'[e] = row[e] /\ exec'[e] = exec[e] /\ note'[e] = note[e]
  BY GuardedFacts
<1>2. NewIsFresh'
  <2> SUFFICES ASSUME NEW c \in Commands, cmd[c].new # NoId
               PROVE  exec'[cmd[c].new].pc = "none"
    BY DEF NewIsFresh
  <2>1. cmd[c].new \in Ids /\ exec[cmd[c].new].pc = "none"
    BY GuardedFacts DEF Guarded, RInv, NewIsFresh
  <2> QED
    BY <1>1, <2>1
<1>3. ASSUME NEW e \in Ids
      PROVE  Unreported(e)'
  <2>1. CASE e = d
    BY <1>1, <2>1, GuardedFacts DEF Unreported, ExecutorOver
  <2>2. CASE e # d
    BY <1>1, <2>2, GuardedFacts DEF Unreported, ExecutorOver
  <2> QED
    BY <2>1, <2>2
<1> QED
  BY <1>2, <1>3, IndexKeepsOne DEF RInv

LEMMA SameRow ==
  ASSUME Guarded, NEW d \in Ids
  PROVE  ~Clash(d, row[d]) /\ row = [row EXCEPT ![d] = row[d]] /\ note = [note EXCEPT ![d] = note[d]]
         /\ exec = [exec EXCEPT ![d] = exec[d]]
  BY GuardedFacts DEF Clash, Guarded, RInv, OneIsActive

(* An executor goes on, is over, or dies.                                  *)
LEMMA ExecutorGuarded ==
  ASSUME Guarded, NEW d \in Ids, UNCHANGED <<row, cmd>>, exec[d].pc \notin {"none", "done", "dead"},
         NEW x, exec' = [exec EXCEPT ![d] = x], NEW N, note' = [note EXCEPT ![d] = N],
         N \subseteq note[d]
  PROVE  RInv'
<1>1. /\ ~ExecutorOver(d) /\ row[d].status \notin Outcomes
      /\ \A n \in N : n.status \notin Outcomes
  BY GuardedFacts DEF ExecutorOver, Unreported
<1>2. PICK m : m = row[d]
  OBVIOUS
<1> QED
  BY <1>1, <1>2, SameRow, AttemptGuarded

LEMMA ExecutorStepGuarded ==
  ASSUME Guarded, NEW d \in Ids, ExecutorStep(d)
  PROVE  RInv'
<1>1. ASSUME NEW x, exec' = [exec EXCEPT ![d] = x], UNCHANGED <<row, cmd, note>>,
             exec[d].pc \in {"queued", "building", "deploying"}
      PROVE  RInv'
  <2>1. PICK N : N = note[d]
    OBVIOUS
  <2> QED
    BY <1>1, <2>1, SameRow, ExecutorGuarded
<1>2. CASE Report(d)
  <2>1. PICK m : UNCHANGED row \/ Save(d, m)
    BY <1>2 DEF Report
  <2>2. PICK k : row' = [row EXCEPT ![d] = k] /\ ~Clash(d, k)
    BY <2>1, SameRow DEF Save, Writable
  <2>3. PICK x : x = [NoExecutor EXCEPT !.pc = "done"]
    OBVIOUS
  <2>4. x.pc = "done" /\ exec' = [exec EXCEPT ![d] = x] /\ exec[d].pc = "report" /\ UNCHANGED <<cmd, note>>
    BY <1>2, <2>3 DEF Report, NoExecutor
  <2>5. PICK N : N = note[d]
    OBVIOUS
  <2>6. note' = [note EXCEPT ![d] = N]
    BY <2>4, <2>5, SameRow
  <2> QED
    BY <2>2, <2>4, <2>6, AttemptGuarded
<1>3. CASE ~Report(d)
  <2>1. /\ exec[d].pc \in {"queued", "building", "deploying"} /\ UNCHANGED <<row, cmd, note>>
    BY <1>3 DEF ExecutorStep, Dequeue, BuildFails, Deploy, Refused, Deployed
  <2>2. \E x : exec' = [exec EXCEPT ![d] = x]
    <3>1. CASE Dequeue(d)
      <4>1. exec' = [exec EXCEPT ![d] = [exec[d] EXCEPT !.pc = "building", !.mem = row[d]]]
        BY <3>1, GuardedFacts DEF Dequeue, Executor
      <4> QED
        BY <4>1
    <3>2. ASSUME NEW result, Finish(d, result)
          PROVE  \E x : exec' = [exec EXCEPT ![d] = x]
      <4>1. PICK s : s = IF exec[d].mem.status = "running" THEN result ELSE exec[d].mem.status
        OBVIOUS
      <4>2. exec' = [exec EXCEPT ![d] = [exec[d] EXCEPT !.pc = "report",
                                           !.mem = [exec[d].mem EXCEPT !.status = s]]]
        BY <3>2, <4>1, GuardedFacts, ZenonT(60) DEF Finish, Executor
      <4> QED
        BY <4>2
    <3>3. ASSUME NEW step, exec' = [exec EXCEPT ![d].pc = step]
          PROVE  \E x : exec' = [exec EXCEPT ![d] = x]
      <4>1. exec' = [exec EXCEPT ![d] = [exec[d] EXCEPT !.pc = step]]
        BY <3>3, GuardedFacts DEF Executor
      <4> QED
        BY <4>1
    <3> QED
      BY <1>3, <3>1, <3>2, <3>3
         DEF ExecutorStep, BuildFails, Deploy, Refused, Deployed, FailOrStop
  <2> QED
    BY <1>1, <2>1, <2>2
<1> QED
  BY <1>2, <1>3

LEMMA RecordsGuarded ==
  ASSUME Guarded, NEW d \in Ids, ReadForNote(d) \/ WriteNote(d) \/ CrashExecutor(d)
  PROVE  RInv'
<1>1. PICK x, r : x = exec[d] /\ r = row[d]
  OBVIOUS
<1>2. CASE CrashExecutor(d)
  <2>1. PICK y : y = [NoExecutor EXCEPT !.pc = "dead"]
    OBVIOUS
  <2>2. PICK N : N = {}
    OBVIOUS
  <2>3. /\ exec[d].pc \notin {"none", "done", "dead"} /\ UNCHANGED <<row, cmd>>
        /\ exec' = [exec EXCEPT ![d] = y] /\ note' = [note EXCEPT ![d] = N]
    BY <1>2, <2>1, <2>2 DEF CrashExecutor
  <2>4. N \subseteq note[d]
    BY <2>2
  <2> QED
    BY <2>3, <2>4, ExecutorGuarded
<1>3. CASE ReadForNote(d)
  <2>1. PICK n : n = [row[d] EXCEPT !.notes = row[d].notes + 1]
    OBVIOUS
  <2>2. n.status = row[d].status
    BY <2>1, GuardedFacts DEF Attempt
  <2>3. PICK N : N = note[d] \cup {n}
    OBVIOUS
  <2>4. /\ note' = [note EXCEPT ![d] = N] /\ UNCHANGED <<row, cmd, exec>>
        /\ exec[d].pc \in {"building", "deploying"}
    BY <1>3, <2>1, <2>3 DEF ReadForNote
  <2>5. /\ ~ExecutorOver(d) /\ row[d].status \notin Outcomes
        /\ \A k \in N : k.status \notin Outcomes
    BY <2>2, <2>3, <2>4, GuardedFacts DEF ExecutorOver, Unreported
  <2>6. row' = [row EXCEPT ![d] = r] /\ exec' = [exec EXCEPT ![d] = x] /\ ~Clash(d, r)
    BY <1>1, <2>4, SameRow
  <2> QED
    BY <1>1, <2>4, <2>5, <2>6, AttemptGuarded
<1>4. CASE WriteNote(d)
  <2>1. PICK k \in note[d] : /\ note' = [note EXCEPT ![d] = note[d] \ {k}]
                             /\ UNCHANGED <<cmd, exec>> /\ (Save(d, k) \/ UNCHANGED row)
    BY <1>4 DEF WriteNote
  <2>2. PICK N : N = note[d] \ {k}
    OBVIOUS
  <2>3. PICK m \in {row[d], k} : row' = [row EXCEPT ![d] = m] /\ ~Clash(d, m)
    BY <2>1, SameRow DEF Save, Writable
  <2>4. ~ExecutorOver(d) => m.status \notin Outcomes /\ \A n \in N : n.status \notin Outcomes
    BY <2>1, <2>2, <2>3, GuardedFacts DEF Unreported
  <2>5. exec' = [exec EXCEPT ![d] = x] /\ (x.pc \notin {"done", "dead"} => ~ExecutorOver(d))
    BY <1>1, <2>1, SameRow DEF ExecutorOver
  <2>6. PICK y : y = m
    OBVIOUS
  <2> QED
    BY <1>1, <2>1, <2>2, <2>3, <2>4, <2>5, <2>6, AttemptGuarded
<1> QED
  BY <1>2, <1>3, <1>4

LEMMA InitiallyGuarded == Init => RInv
<1> SUFFICES ASSUME Init
             PROVE  RInv
  OBVIOUS
<1>1. \A d \in Ids : row[d] = Absent /\ exec[d] = NoExecutor /\ note[d] = {}
  BY DEF Init
<1>2. \A c \in Commands : cmd[c] = Unused
  BY DEF Init
<1>3. Absent.status = "absent" /\ "absent" \notin Outcomes /\ "absent" \notin Active
  BY PlainAttempts DEF Outcomes, Active
<1> QED
  BY <1>1, <1>2, <1>3, PlainRecords DEF RInv, OneIsActive, NewIsFresh, Unreported

LEMMA StepsGuarded == IInv /\ RInv /\ [Next]_vars => RInv'
<1> SUFFICES ASSUME Guarded, [Next]_vars
             PROVE  RInv'
  BY DEF Guarded
<1>1. ASSUME NEW c \in Commands, CommandStep(c)
      PROVE  RInv'
  <2>1. CASE Acquire(c)
    BY <2>1, GotoGuarded DEF Acquire
  <2> QED
    BY <1>1, <2>1, AdmitGuarded, RequestGuarded, BackendGuarded, InsertGuarded, ReleaseGuarded
       DEF CommandStep
<1>2. ASSUME NEW c \in Commands, CrashCommand(c)
      PROVE  RInv'
  <2>1. PICK k : k = [Unused EXCEPT !.pc = "crashed"]
    OBVIOUS
  <2>2. k.new = NoId /\ k.target = NoId
    BY <2>1 DEF Unused
  <2>3. cmd' = [cmd EXCEPT ![c] = k] /\ UNCHANGED <<row, exec, note>>
    BY <1>2, <2>1 DEF CrashCommand
  <2> QED
    BY <2>2, <2>3, GuardedFacts, CommandGuarded
<1>3. CASE UNCHANGED <<row, cmd, exec, note>>
  BY <1>3 DEF Guarded, RInv, OneIsActive, NewIsFresh, Unreported, ExecutorOver
<1>4. ASSUME NEW p \in Placements, LeaseEnds(p)
      PROVE  RInv'
  BY <1>3, <1>4 DEF LeaseEnds
<1> QED
  BY <1>1, <1>2, <1>3, <1>4, InvokeGuarded, ExecutorStepGuarded, RecordsGuarded DEF Next, vars

LEMMA AlwaysGuarded == Spec => []RInv
<1>1. Init => RInv
  BY InitiallyGuarded
<1> QED
  BY <1>1, StepsGuarded, AlwaysSound, PTL DEF Spec

(* While an attempt is active, the guard in front of the deployment refuses*)
(* the executors of all older attempts, except of those that were          *)
(* interrupted: for any commands, placements and progress records, with    *)
(* crashes, lost leases and failing backends                               *)
(* (resolveExecutionContinuation and deployments_active_resource_unique).  *)
THEOREM OlderExecutorsAreRefused == Spec => []OlderAttemptsAreRefused
<1>1. IInv /\ RInv => OlderAttemptsAreRefused
  <2> SUFFICES ASSUME Guarded, NEW d \in Ids, NEW e \in Ids, d < e, exec[d].pc = "building",
                      MayContinue(d), row[e].status \in Active
               PROVE  row[d].status = "interrupted"
    BY DEF Guarded, OlderAttemptsAreRefused
  <2>1. d # e
    BY NumberOfIds
  <2>2. row[d].status \notin Active
    BY <2>1 DEF Guarded, RInv, OneIsActive
  <2>3. row[d].status \notin Outcomes /\ Exists(d) /\ row[d] \in Attempt
    BY GuardedFacts DEF Unreported, ExecutorOver
  <2> QED
    BY <2>2, <2>3 DEF MayContinue, Attempt, Exists, Outcomes, Terminal, Recoverable
<1> QED
  BY <1>1, AlwaysSound, AlwaysGuarded, PTL

-----------------------------------------------------------------------------
(* What the orderly run assumes: one placement, creates run inline, and    *)
(* nothing fails.  Progress records are written as always.                 *)
Orderly ==
    /\ \E p : Placements = {p}
    /\ ~Detached /\ ~CancelMayFail /\ ~Crashes /\ ~LeaseMayBeLost

Placed(m) == m.status # "absent" => m.placement \in Placements

(* Commands that are past their lease's acquisition; archive takes none.   *)
Inside(c) ==
    cmd[c].pc \in {"admit", "request", "backend", "settle", "insert", "start", "admitted", "over"}
    /\ cmd[c].kind # "archive"

ActiveIsLatest ==
    \A d \in Ids \ undone, e \in Ids : row[d].status \in Active /\ Exists(e) => e <= d

(* What a command knows about the attempts it is about to write.           *)
Reach(c) ==
    /\ cmd[c].pc # "crashed"
    /\ cmd[c].pc \notin {"idle", "done"} => cmd[c].placement \in Placements
    /\ cmd[c].kind = "archive" => cmd[c].pc \in {"settle", "over", "done"} /\ cmd[c].new = NoId
    /\ Inside(c) => lease[cmd[c].placement] = c

Supersede(c) == cmd[c].pc \in Writing /\ cmd[c].kind = "create" =>
    /\ cmd[c].new = ids /\ cmd[c].copy.mark = cmd[c].new
    /\ IsLatest(cmd[c].target)
    /\ \A d \in Ids : row[d].mark = cmd[c].new => d = cmd[c].target /\ cmd[c].pc # "request"

Ending(c) == cmd[c].pc \in Writing =>
    /\ Placed(cmd[c].copy)
    /\ cmd[c].kind # "create" =>
         /\ cmd[c].new = NoId
         /\ cmd[c].copy.mark # NoId => cmd[c].copy.mark = row[cmd[c].target].mark
    /\ cmd[c].pc = "request" =>
         /\ cmd[c].copy.status = "cancel-requested"
         /\ IsLatest(cmd[c].target) \/ cmd[c].target \in undone
    /\ cmd[c].pc = "settle" => cmd[c].copy.status \in Terminal
    /\ cmd[c].kind = "archive" => row[cmd[c].target].status # "planned"

(* No attempt gave way to d, or d found its place taken.                   *)
InVain(d) ==
    (\A e \in Ids : row[e].mark # d) \/ (\E e \in undone : e < d)

Making(c) ==
    /\ cmd[c].pc = "insert" =>
         cmd[c].new = ids /\ \A d \in Ids \ undone : row[d].status \notin Active
    /\ cmd[c].pc = "start" => row[cmd[c].new].status = "planned" /\ row[cmd[c].new].mark = NoId
                              /\ exec[cmd[c].new].pc = "none"
    /\ cmd[c].pc = "admitted" => row[cmd[c].new].status # "planned"
    /\ cmd[c].pc = "over" /\ cmd[c].new # NoId =>
         ~Exists(cmd[c].new) /\ InVain(cmd[c].new)

Executing(d) ==
    /\ exec[d].pc \in {"none", "building", "deploying", "report", "done"}
    /\ exec[d].pc \in {"building", "deploying"} => exec[d].mem.status = "running"
    /\ exec[d].pc = "report" => exec[d].mem.status \in {"succeeded", "failed"}
    /\ exec[d].pc \in {"building", "deploying", "report"} =>
         exec[d].mem.mark = NoId /\ exec[d].mem.placement \in Placements
    /\ exec[d].pc # "none" => row[d].status # "planned"
    /\ exec[d].pc = "none" => note[d] = {} /\ d \notin undone
    /\ \A n \in note[d] : /\ n.placement \in Placements /\ n.status # "planned"
                          /\ n.mark # NoId => n.mark = row[d].mark

RowsInOrder ==
    /\ ActiveIsLatest
    /\ \A d \in Ids : Placed(row[d]) /\ row[d].mark <= ids
    /\ SupersedeHasSuccessor
    /\ RunningIsAttended

OInv ==
    /\ RowsInOrder
    /\ \A c \in Commands : Reach(c) /\ Supersede(c) /\ Ending(c) /\ Making(c)
    /\ \A d \in Ids : Executing(d)

-----------------------------------------------------------------------------
(* What the writers of the table have in common.                           *)
InOrder == IInv /\ RInv /\ OInv /\ Orderly

Knows(c) == Reach(c) /\ Supersede(c) /\ Ending(c) /\ Making(c)

(* No attempt is planned twice.                                            *)
NoReplan == \A d \in Ids : Exists(d) /\ row'[d].status = "planned" => row[d].status = "planned"

(* Attempts that had been started may have ended.                          *)
Calm == \A d \in Ids :
    \/ row'[d] = row[d]
    \/ /\ row'[d].status \in Terminal /\ Placed(row'[d]) /\ row'[d].mark = row[d].mark
       /\ Exists(d) /\ row[d].status # "planned"

AtExecutor == {"queued", "building", "deploying", "report"}

LEMMA Statuses ==
  /\ \A s \in Terminal : s \notin Active /\ s \notin {"absent", "planned", "running"}
  /\ \A s \in Active : s # "absent"
  /\ {"canceled", "interrupted", "succeeded", "failed"} \subseteq Terminal
  /\ {"planned", "running", "cancel-requested"} = Active
  BY DEF Terminal, Recoverable, Active

(* The coordination lease of the only placement keeps commands apart.      *)
LEMMA InsideAlone ==
  ASSUME InOrder, NEW c \in Commands, NEW e \in Commands, Inside(c), Inside(e)
  PROVE  c = e
<1>1. /\ cmd[c].placement \in Placements /\ lease[cmd[c].placement] = c
      /\ cmd[e].placement \in Placements /\ lease[cmd[e].placement] = e
  BY DEF InOrder, OInv, Reach, Inside
<1> QED
  BY <1>1 DEF InOrder, Orderly

(* A command that has no lease knows little: nobody can prove it wrong.    *)
LEMMA OutsideKnows ==
  ASSUME InOrder, NEW e \in Commands, ~Inside(e), cmd'[e] = cmd[e], MarksStay, NoReplan
  PROVE  Knows(e)'
<1>1. /\ Knows(e) /\ CommandOK(cmd[e]) /\ cmd[e] \in Command
  BY DEF InOrder, OInv, IInv, Typed, Knows
<1>2. Reach(e)'
  BY <1>1 DEF Knows, Reach, Inside
<1>3. /\ cmd[e].pc \in Writing => cmd[e].kind = "archive"
      /\ cmd[e].pc \notin {"insert", "start", "admitted"} /\ (cmd[e].pc = "over" => cmd[e].new = NoId)
  BY <1>1 DEF Knows, Reach, Inside, Writing
<1>4. Supersede(e)' /\ Making(e)'
  BY <1>3 DEF Supersede, Making
<1>5. Ending(e)'
  <2> SUFFICES ASSUME cmd[e].pc \in Writing
               PROVE  Ending(e)'
    BY DEF Ending
  <2>1. /\ Ending(e) /\ cmd[e].kind = "archive" /\ cmd[e].pc = "settle"
        /\ cmd[e].target \in Ids /\ Exists(cmd[e].target)
    BY <1>1, <1>3 DEF Knows, CommandOK, Command, Reach, Writing
  <2>2. PICK d \in Ids : d = cmd[e].target /\ Exists(d)
    BY <2>1
  <2>3. /\ row[d].mark # NoId => row'[d].mark = row[d].mark
        /\ row'[d].status = "planned" => row[d].status = "planned"
    BY <2>2 DEF MarksStay, NoReplan
  <2>4. Placed(cmd[e].copy)'
    BY <2>1 DEF Ending, Placed
  <2> QED
    BY <2>1, <2>2, <2>3, <2>4 DEF Ending
<1> QED
  BY <1>2, <1>4, <1>5 DEF Knows

(* A command inside goes on; the others are outside.                       *)
LEMMA CommandActs ==
  ASSUME InOrder, NEW c \in Commands, Inside(c), \A e \in Commands \ {c} : cmd'[e] = cmd[e],
         MarksStay, NoReplan, UNCHANGED <<exec, note, undone>>, Knows(c)', RowsInOrder'
  PROVE  OInv'
<1>1. ASSUME NEW e \in Commands
      PROVE  Knows(e)'
  BY <1>1, InsideAlone, OutsideKnows
<1>2. ASSUME NEW d \in Ids
      PROVE  Executing(d)'
  <2>1. Executing(d) /\ (exec[d].pc # "none" => Exists(d))
    BY DEF InOrder, OInv, IInv, ExecutorOK
  <2>2. /\ row[d].mark # NoId => row'[d].mark = row[d].mark
        /\ Exists(d) /\ row'[d].status = "planned" => row[d].status = "planned"
    BY DEF MarksStay, NoReplan
  <2> QED
    BY <2>1, <2>2 DEF Executing
<1> QED
  BY <1>1, <1>2 DEF OInv, Knows

(* Nothing that ends an attempt disturbs a command, inside or outside.     *)
LEMMA CalmKnows ==
  ASSUME InOrder, NEW e \in Commands, cmd'[e] = cmd[e], Calm, UNCHANGED <<ids, undone>>,
         Inside(e) => lease'[cmd[e].placement] = e,
         cmd[e].pc = "start" => exec'[cmd[e].new].pc = "none"
  PROVE  Knows(e)'
<1>0. /\ Knows(e) /\ CommandOK(cmd[e]) /\ cmd[e] \in Command
  BY DEF InOrder, OInv, IInv, Typed, Knows
<1>1. \A d \in Ids : /\ row'[d].mark = row[d].mark
                     /\ Exists(d) <=> row'[d].status # "absent"
                     /\ row'[d].status \in Active => row[d].status \in Active
                     /\ row[d].status = "planned" => row'[d] = row[d]
                     /\ row'[d].status = "planned" => row'[d] = row[d]
  BY Statuses DEF Calm, Exists
<1>2. \A d : IsLatest(d) => IsLatest(d)'
  BY <1>1 DEF IsLatest, Present, Exists
<1>3. Reach(e)'
  BY <1>0 DEF Knows, Reach, Inside
<1>4. Supersede(e)'
  BY <1>0, <1>1, <1>2 DEF Knows, Supersede
<1>5. Ending(e)'
  <2> SUFFICES ASSUME cmd[e].pc \in Writing
               PROVE  Ending(e)'
    BY DEF Ending
  <2>1. PICK d \in Ids : d = cmd[e].target
    BY <1>0 DEF CommandOK, Command
  <2>2. Placed(cmd[e].copy)'
    BY <1>0 DEF Knows, Ending, Placed
  <2> QED
    BY <1>0, <1>1, <1>2, <2>1, <2>2 DEF Knows, Ending
<1>6. Making(e)'
  <2>1. cmd[e].pc \in {"insert", "start", "admitted"} \/ cmd[e].new # NoId => cmd[e].new \in Ids
    BY <1>0 DEF CommandOK, Command
  <2>2. CASE cmd[e].pc = "insert"
    BY <1>0, <1>1, <2>2 DEF Knows, Making
  <2>3. CASE cmd[e].pc = "start"
    BY <1>0, <1>1, <2>1, <2>3 DEF Knows, Making
  <2>4. CASE cmd[e].pc = "over" /\ cmd[e].new # NoId
    BY <1>0, <1>1, <2>1, <2>4 DEF Knows, Making, InVain, Exists
  <2>6. CASE cmd[e].pc = "admitted"
    BY <1>0, <1>1, <2>1, <2>6 DEF Knows, Making
  <2>5. CASE /\ cmd[e].pc \notin {"insert", "start", "admitted"}
             /\ ~(cmd[e].pc = "over" /\ cmd[e].new # NoId)
    BY <2>5 DEF Making
  <2> QED
    BY <2>2, <2>3, <2>4, <2>5, <2>6
<1> QED
  BY <1>3, <1>4, <1>5, <1>6 DEF Knows

(* Nor does it disturb the table, as long as a command keeps its new       *)
(* attempt until that has an executor or there is no such attempt.         *)
Keeps(c) ==
    \/ cmd'[c].new = cmd[c].new
    \/ ~Exists(cmd[c].new) /\ InVain(cmd[c].new)
    \/ Exists(cmd[c].new) /\ exec'[cmd[c].new].pc \in AtExecutor

LEMMA CalmRows ==
  ASSUME InOrder, Calm, ids' \in Nat, ids <= ids', UNCHANGED undone,
         \A c \in Commands : cmd[c].new # NoId => Keeps(c),
         \A d \in Ids : /\ row'[d].status \in {"planned", "running"} /\ exec[d].pc \in AtExecutor
                        => exec'[d].pc \in AtExecutor
  PROVE  RowsInOrder'
<1>0. /\ RowsInOrder /\ row \in [Ids -> Attempt] /\ ids \in Nat /\ NoId \notin Ids
      /\ \A d \in Ids : row[d].mark \in Nat
  BY NumberOfIds DEF InOrder, OInv, IInv, Typed, Attempt, NoId
<1>1. \A d \in Ids : /\ row'[d].mark = row[d].mark
                     /\ Exists(d) <=> row'[d].status # "absent"
                     /\ row'[d].status \in Active => row[d].status \in Active
                     /\ row'[d].status \in {"planned", "running"} => row'[d] = row[d]
  BY Statuses DEF Calm, Exists
<1>2. ActiveIsLatest'
  BY <1>0, <1>1 DEF RowsInOrder, ActiveIsLatest, Exists
<1>3. ASSUME NEW d \in Ids
      PROVE  Placed(row[d])' /\ row'[d].mark <= ids'
  BY <1>0, <1>1 DEF RowsInOrder, Calm, Placed
<1>4. SupersedeHasSuccessor'
  <2> SUFFICES ASSUME NEW d \in Ids, row[d].mark # NoId
               PROVE  \/ row'[row[d].mark].status # "absent"
                      \/ \E c \in Commands : cmd'[c].new = row[d].mark
                      \/ \E e \in undone : e < row[d].mark
    BY <1>1 DEF SupersedeHasSuccessor
  <2>1. row[d].mark \in Ids
    BY <1>0 DEF Attempt
  <2>2. CASE Exists(row[d].mark)
    BY <1>1, <2>1, <2>2
  <2>3. ASSUME NEW c \in Commands, cmd[c].new = row[d].mark, ~Exists(row[d].mark)
        PROVE  cmd'[c].new = row[d].mark \/ \E e \in undone : e < row[d].mark
    BY <2>3 DEF Keeps, InVain
  <2> QED
    BY <1>0, <2>2, <2>3 DEF RowsInOrder, SupersedeHasSuccessor, Exists
<1>5. RunningIsAttended'
  <2> SUFFICES ASSUME NEW d \in Ids \ undone, row'[d].status \in {"planned", "running"}
               PROVE  \/ exec'[d].pc \in AtExecutor
                      \/ \E c \in Commands : cmd'[c].new = d
    BY DEF RunningIsAttended, AtExecutor
  <2>1. row[d].status \in {"planned", "running"} /\ Exists(d)
    BY <1>1 DEF Exists
  <2>2. ASSUME NEW c \in Commands, cmd[c].new = d
        PROVE  cmd'[c].new = d \/ exec'[d].pc \in AtExecutor
    BY <1>0, <2>1, <2>2 DEF Keeps
  <2> QED
    BY <1>0, <2>1, <2>2 DEF RowsInOrder, RunningIsAttended, AtExecutor
<1> QED
  BY <1>2, <1>3, <1>4, <1>5 DEF RowsInOrder

-----------------------------------------------------------------------------
LEMMA GoneTo ==
  ASSUME InOrder, NEW c \in Commands, NEW step, Goto(c, step)
  PROVE  /\ cmd'[c].pc = step /\ cmd'[c].kind = cmd[c].kind /\ cmd'[c].new = cmd[c].new
         /\ cmd'[c].target = cmd[c].target /\ cmd'[c].copy = cmd[c].copy
         /\ cmd'[c].placement = cmd[c].placement
         /\ \A e \in Commands \ {c} : cmd'[e] = cmd[e]
<1>1. cmd \in [Commands -> Command] /\ cmd' = [cmd EXCEPT ![c].pc = step]
  BY DEF InOrder, IInv, Typed, Goto
<1> QED
  BY <1>1 DEF Command

LEMMA NoRowChanges ==
  ASSUME UNCHANGED row
  PROVE  Calm /\ MarksStay /\ NoReplan
  BY DEF Calm, MarksStay, NoReplan

LEMMA Facts ==
  ASSUME InOrder, NEW c \in Commands
  PROVE  /\ Knows(c) /\ CommandOK(cmd[c]) /\ cmd[c] \in Command /\ RowsInOrder
         /\ ids \in Nat /\ NoId \notin Ids /\ row \in [Ids -> Attempt] /\ None \notin Commands
         /\ cmd \in [Commands -> Command]
  BY NumberOfIds, DeploymentsAssumption
     DEF InOrder, OInv, IInv, Typed, Knows, NoId

(* A command that gives up has inserted nothing, and has marked nothing    *)
(* unless it found its place taken.                                        *)
LEMMA GivesUpInOrder ==
  ASSUME InOrder, NEW c \in Commands, Inside(c), Goto(c, "over"),
         UNCHANGED <<row, ids, lease, exec, note, undone>>,
         cmd[c].new # NoId => ~Exists(cmd[c].new) /\ InVain(cmd[c].new)
  PROVE  OInv'
<1>1. cmd'[c].pc = "over" /\ \A e \in Commands : cmd'[e].new = cmd[e].new
  BY GoneTo
<1>2. Knows(c)'
  <2>1. Reach(c)'
    BY GoneTo, Facts DEF Knows, Reach, Inside
  <2>2. Supersede(c)' /\ Ending(c)'
    BY <1>1 DEF Supersede, Ending, Writing
  <2>3. Making(c)'
    BY <1>1 DEF Making, InVain, Exists
  <2> QED
    BY <2>1, <2>2, <2>3 DEF Knows
<1>3. RowsInOrder'
  BY <1>1, Facts, NoRowChanges, CalmRows DEF Keeps
<1> QED
  BY <1>2, <1>3, GoneTo, NoRowChanges, CommandActs

(* Before the lease.                                                       *)
LEMMA BeginInOrder ==
  ASSUME InOrder, NEW c \in Commands, NEW d \in Ids \cup {NoId}, NEW p \in Placements,
         NEW kind \in Kinds, NEW step \in {"wait", "settle"}, Begin(c, kind, step, d, p),
         step = "wait" => kind # "archive",
         step = "settle" => kind = "archive" /\ d \in Ids /\ row[d].status \in Terminal
  PROVE  OInv'
<1>1. /\ cmd[c].pc = "idle" /\ UNCHANGED <<row, ids, lease, exec, note, undone>>
      /\ cmd'[c].pc = step /\ cmd'[c].kind = kind /\ cmd'[c].placement = p
      /\ cmd'[c].target = d /\ cmd'[c].new = NoId /\ (d # NoId => cmd'[c].copy = row[d])
      /\ \A e \in Commands \ {c} : cmd'[e] = cmd[e]
  BY Facts DEF Begin, Unused
<1>2. Knows(c)'
  <2>1. Reach(c)'
    BY <1>1 DEF Reach, Inside
  <2>2. Supersede(c)' /\ Making(c)'
    BY <1>1 DEF Supersede, Making, Writing
  <2>3. CASE step # "settle"
    BY <1>1, <2>1, <2>2, <2>3 DEF Ending, Writing, Knows
  <2>4. CASE step = "settle"
    <3>1. Placed(row[d]) /\ row[d].status # "planned" /\ d # NoId
      BY <2>4, Facts, Statuses DEF RowsInOrder
    <3>2. Ending(c)'
      BY <1>1, <2>4, <3>1 DEF Ending, Placed
    <3> QED
      BY <2>1, <2>2, <3>2 DEF Knows
  <2> QED
    BY <2>1, <2>2, <2>3, <2>4 DEF Knows
<1>3. cmd[c].new = NoId
  BY <1>1, Facts DEF CommandOK, Early
<1>4. RowsInOrder'
  BY <1>1, <1>3, Facts, NoRowChanges, CalmRows DEF Keeps
<1>5. ASSUME NEW e \in Commands \ {c}
      PROVE  Knows(e)'
  <2>1. Inside(e) => lease'[cmd[e].placement] = e
    BY <1>1, Facts DEF Knows, Reach
  <2>2. cmd[e].pc = "start" => exec'[cmd[e].new].pc = "none"
    BY <1>1, Facts DEF Knows, Making
  <2> QED
    BY <1>1, <2>1, <2>2, NoRowChanges, CalmKnows
<1>6. \A e \in Ids : Executing(e)'
  BY <1>1 DEF InOrder, OInv, Executing
<1> QED
  BY <1>2, <1>4, <1>5, <1>6 DEF OInv, Knows

LEMMA InvokeInOrder ==
  ASSUME InOrder, NEW c \in Commands, Invoke(c)
  PROVE  OInv'
<1>1. \A d \in Present : d \in Ids /\ row[d].placement \in Placements
  BY Facts DEF Present, RowsInOrder, Placed
<1>2. NoId \in Ids \cup {NoId} /\ {"create", "retry", "rollback", "cancel", "reconcile", "archive"} \subseteq Kinds
  BY DEF Kinds
<1>3. CASE BeginCreate(c)
  <2>1. PICK p \in Placements, kind \in {"create"} : Begin(c, kind, "wait", NoId, p)
    BY <1>3 DEF BeginCreate
  <2> QED
    BY <1>2, <2>1, BeginInOrder
<1>4. CASE BeginRecovery(c)
  <2>1. PICK d \in Present, kind \in {"retry", "rollback"} :
          Begin(c, kind, "wait", d, row[d].placement)
    BY <1>4 DEF BeginRecovery
  <2>2. PICK p \in Placements : p = row[d].placement
    BY <1>1
  <2> QED
    BY <1>1, <1>2, <2>1, <2>2, BeginInOrder
<1>5. CASE BeginEnding(c)
  <2>1. PICK d \in Present, kind \in {"cancel", "reconcile"} :
          Begin(c, kind, "wait", d, row[d].placement)
    BY <1>5 DEF BeginEnding
  <2>2. PICK p \in Placements : p = row[d].placement
    BY <1>1
  <2> QED
    BY <1>1, <1>2, <2>1, <2>2, BeginInOrder
<1>6. CASE BeginArchive(c)
  <2>1. PICK d \in Present :
          row[d].status \in Terminal /\ Begin(c, "archive", "settle", d, row[d].placement)
    BY <1>6 DEF BeginArchive
  <2>2. PICK p \in Placements : p = row[d].placement
    BY <1>1
  <2> QED
    BY <1>1, <1>2, <2>1, <2>2, BeginInOrder
<1> QED
  BY <1>3, <1>4, <1>5, <1>6 DEF Invoke

LEMMA AcquireInOrder ==
  ASSUME InOrder, NEW c \in Commands, Acquire(c)
  PROVE  OInv'
<1>1. /\ cmd[c].pc = "wait" /\ lease[cmd[c].placement] = None /\ Goto(c, "admit")
      /\ lease' = [lease EXCEPT ![cmd[c].placement] = c] /\ UNCHANGED <<row, ids, exec, note, undone>>
  BY DEF Acquire
<1>2. cmd[c].placement \in Placements /\ Placements = {cmd[c].placement}
  BY <1>1, Facts DEF Knows, Reach, InOrder, Orderly
<1>3. \A e \in Commands : ~Inside(e)
  BY <1>1, <1>2, Facts DEF Knows, Reach, Inside
<1>4. Knows(c)'
  <2>1. lease'[cmd[c].placement] = c
    BY <1>1, <1>2 DEF InOrder, IInv, Typed
  <2>2. Reach(c)'
    BY <1>1, <2>1, GoneTo, Facts DEF Knows, Reach, Inside
  <2>3. Supersede(c)' /\ Ending(c)' /\ Making(c)'
    BY <1>1, GoneTo DEF Supersede, Ending, Making, Writing
  <2> QED
    BY <2>2, <2>3 DEF Knows
<1>5. RowsInOrder'
  BY <1>1, GoneTo, Facts, NoRowChanges, CalmRows DEF Keeps
<1>6. \A e \in Commands \ {c} : Knows(e)'
  BY <1>1, <1>3, GoneTo, NoRowChanges, OutsideKnows
<1>7. \A d \in Ids : Executing(d)'
  BY <1>1 DEF InOrder, OInv, Executing
<1> QED
  BY <1>4, <1>5, <1>6, <1>7 DEF OInv, Knows

-----------------------------------------------------------------------------
(* Admission.                                                              *)
LEMMA TakesIdInOrder ==
  ASSUME InOrder, NEW c \in Commands, Inside(c), cmd[c].pc = "admit", ids' = ids + 1,
         UNCHANGED <<row, lease, exec, note, undone>>,
         \A e \in Commands \ {c} : cmd'[e] = cmd[e],
         cmd'[c].new = ids + 1, cmd'[c].kind = cmd[c].kind,
         cmd'[c].placement = cmd[c].placement,
         cmd'[c].pc \in {"request", "settle", "insert"},
         Supersede(c)', Ending(c)', Making(c)'
  PROVE  OInv'
<1>1. Knows(c)'
  BY Facts DEF Knows, Reach, Inside
<1>2. cmd[c].new = NoId
  BY Facts DEF CommandOK, Early
<1>3. RowsInOrder'
  BY <1>2, Facts, NoRowChanges, CalmRows DEF Keeps
<1> QED
  BY <1>1, <1>3, NoRowChanges, CommandActs

(* When the latest attempt is not active, none is but those put back.      *)
LEMMA NotBusy ==
  ASSUME InOrder, ~Busy
  PROVE  \A d \in Ids \ undone : row[d].status \notin Active
<1> SUFFICES ASSUME NEW d \in Ids \ undone, row[d].status \in Active
             PROVE  FALSE
  OBVIOUS
<1>1. Exists(d) /\ d \in Present /\ \A e \in Present : e \in Ids /\ Exists(e)
  BY Statuses DEF Exists, Present
<1>2. \A e \in Present : e <= d
  BY <1>1 DEF InOrder, OInv, RowsInOrder, ActiveIsLatest
<1> QED
  BY <1>1, <1>2 DEF Busy, IsLatest

LEMMA InsertsInOrder ==
  ASSUME InOrder, NEW c \in Commands, Inside(c), cmd[c].pc = "admit", ~Busy, ids' = ids + 1,
         cmd' = [cmd EXCEPT ![c].pc = "insert", ![c].new = ids + 1],
         UNCHANGED <<row, lease, exec, note, undone>>
  PROVE  OInv'
<1>1. /\ cmd'[c].pc = "insert" /\ cmd'[c].new = ids + 1 /\ cmd'[c].kind = cmd[c].kind
      /\ cmd'[c].placement = cmd[c].placement
      /\ \A e \in Commands \ {c} : cmd'[e] = cmd[e]
  BY Facts DEF Command
<1>2. Supersede(c)' /\ Ending(c)'
  BY <1>1 DEF Supersede, Ending, Writing
<1>3. Making(c)'
  BY <1>1, NotBusy DEF Making
<1> QED
  BY <1>1, <1>2, <1>3, TakesIdInOrder

LEMMA AdmitCreateInOrder ==
  ASSUME InOrder, NEW c \in Commands, AdmitCreate(c)
  PROVE  OInv'
<1>1. /\ cmd[c].pc = "admit" /\ cmd[c].kind = "create" /\ Inside(c) /\ ids' = ids + 1
      /\ UNCHANGED <<row, lease, exec, note, undone>>
  BY DEF AdmitCreate, Admitting, Inside
<1>2. CASE ~Busy /\ cmd' = [cmd EXCEPT ![c].pc = "insert", ![c].new = ids + 1]
  BY <1>1, <1>2, InsertsInOrder
<1>3. ASSUME NEW d \in Ids, IsLatest(d), row[d].status \in Active, NEW runs \in BOOLEAN, NEW m,
             m = [row[d] EXCEPT !.mark = ids + 1,
                    !.status = IF runs THEN "cancel-requested" ELSE "canceled"],
             cmd' = [cmd EXCEPT ![c] = [@ EXCEPT !.pc = IF runs THEN "request" ELSE "settle",
                                                 !.new = ids + 1, !.target = d, !.copy = m]]
      PROVE  OInv'
  <2>1. /\ cmd'[c].pc = IF runs THEN "request" ELSE "settle"
        /\ cmd'[c].new = ids + 1 /\ cmd'[c].kind = "create" /\ cmd'[c].target = d
        /\ cmd'[c].copy = m /\ cmd'[c].placement = cmd[c].placement
        /\ \A e \in Commands \ {c} : cmd'[e] = cmd[e]
    BY <1>1, <1>3, Facts DEF Command
  <2>2. /\ m.mark = ids + 1 /\ m.placement = row[d].placement
        /\ m.status = IF runs THEN "cancel-requested" ELSE "canceled"
    BY <1>3, Facts DEF Attempt
  <2>3. row[d].placement \in Placements
    BY <1>3, Facts, Statuses DEF RowsInOrder, Placed
  <2>4. IsLatest(d)'
    BY <1>1, <1>3 DEF IsLatest, Present
  <2>5. \A e \in Ids : row[e].mark # ids + 1
    <3>1. \A e \in Ids : row[e].mark <= ids /\ row[e].mark \in Nat
      BY Facts, NumberOfIds DEF RowsInOrder, Attempt
    <3> QED
      BY <3>1, Facts
  <2>6. Supersede(c)'
    BY <1>1, <2>1, <2>2, <2>4, <2>5 DEF Supersede
  <2>7. Ending(c)'
    BY <1>1, <2>1, <2>2, <2>3, <2>4, Statuses DEF Ending, Placed
  <2>8. Making(c)'
    BY <2>1 DEF Making
  <2> QED
    BY <1>1, <2>1, <2>6, <2>7, <2>8, TakesIdInOrder
<1>4. CASE \E d \in Ids :
             LET runs == row[d].status = "running"
                 copy == [row[d] EXCEPT !.mark = ids + 1,
                            !.status = IF runs THEN "cancel-requested" ELSE "canceled"]
             IN /\ IsLatest(d) /\ row[d].status \in Active
                /\ cmd' = [cmd EXCEPT ![c] = [@ EXCEPT !.pc = IF runs THEN "request" ELSE "settle",
                                                       !.new = ids + 1, !.target = d,
                                                       !.copy = copy]]
  <2>1. PICK d, runs, m :
          /\ d \in Ids /\ runs \in BOOLEAN
          /\ IsLatest(d) /\ row[d].status \in Active
          /\ m = [row[d] EXCEPT !.mark = ids + 1,
                    !.status = IF runs THEN "cancel-requested" ELSE "canceled"]
          /\ cmd' = [cmd EXCEPT ![c] = [@ EXCEPT !.pc = IF runs THEN "request" ELSE "settle",
                                                 !.new = ids + 1, !.target = d, !.copy = m]]
    BY <1>4
  <2> QED
    BY <1>3, <2>1
<1> QED
  BY <1>2, <1>4 DEF AdmitCreate

LEMMA NewIsNone ==
  ASSUME InOrder, NEW c \in Commands, cmd[c].pc = "admit"
  PROVE  cmd[c].new = NoId
  BY Facts DEF CommandOK, Early

LEMMA AdmitRecoveryInOrder ==
  ASSUME InOrder, NEW c \in Commands, AdmitRecovery(c)
  PROVE  OInv'
<1>1. /\ cmd[c].pc = "admit" /\ Inside(c) /\ UNCHANGED <<row, lease, exec, note, undone>>
  BY DEF AdmitRecovery, Admitting, Inside
<1>2. CASE Goto(c, "over") /\ UNCHANGED ids
  BY <1>1, <1>2, NewIsNone, GivesUpInOrder
<1>3. CASE /\ ~Busy /\ ids' = ids + 1
           /\ cmd' = [cmd EXCEPT ![c].pc = "insert", ![c].new = ids + 1]
  BY <1>1, <1>3, InsertsInOrder
<1> QED
  BY <1>2, <1>3 DEF AdmitRecovery

LEMMA TakesCopyInOrder ==
  ASSUME InOrder, NEW c \in Commands, cmd[c].pc = "admit", cmd[c].kind \in {"cancel", "reconcile"},
         NEW step \in Writing, NEW s,
         cmd' = [cmd EXCEPT ![c].pc = step, ![c].copy = [row[cmd[c].target] EXCEPT !.status = s]],
         UNCHANGED <<row, ids, lease, exec, note, undone>>,
         row[cmd[c].target].status # "absent",
         step = "request" => s = "cancel-requested" /\ row[cmd[c].target].status = "running",
         step = "settle" => s \in Terminal
  PROVE  OInv'
<1>1. PICK m : m = [row[cmd[c].target] EXCEPT !.status = s]
  OBVIOUS
<1>2. /\ cmd'[c].pc = step /\ cmd'[c].new = NoId /\ cmd'[c].kind = cmd[c].kind
      /\ cmd'[c].target = cmd[c].target /\ cmd'[c].copy = m
      /\ cmd'[c].placement = cmd[c].placement /\ Inside(c)
      /\ \A e \in Commands \ {c} : cmd'[e] = cmd[e]
  BY <1>1, NewIsNone, Facts DEF Command, Inside
<1>3. PICK d \in Ids : d = cmd[c].target /\ Exists(d)
  BY Facts DEF CommandOK, Command
<1>4. m.mark = row[d].mark /\ m.placement = row[d].placement /\ m.status = s
  BY <1>1, <1>3, Facts DEF Attempt
<1>5. row[d].placement \in Placements
  BY <1>3, Facts DEF RowsInOrder, Placed, Exists
<1>6. step = "request" => IsLatest(d)' \/ d \in undone'
  <2>1. row[d].status \in Active => d \in undone \/ \A e \in Present : e <= d
    BY Facts DEF RowsInOrder, ActiveIsLatest, Present, Exists
  <2>2. row[d].status = "running" => d \in undone \/ IsLatest(d)
    BY <1>3, <2>1, Statuses DEF IsLatest, Present, Exists
  <2> QED
    BY <1>3, <2>2 DEF IsLatest, Present
<1>7. Knows(c)'
  <2>1. Reach(c)'
    BY <1>2, Facts DEF Knows, Reach, Inside, Writing
  <2>2. Supersede(c)' /\ Making(c)'
    BY <1>2 DEF Supersede, Making, Writing
  <2>3. Ending(c)'
    BY <1>2, <1>3, <1>4, <1>5, <1>6 DEF Ending, Placed
  <2> QED
    BY <2>1, <2>2, <2>3 DEF Knows
<1>8. RowsInOrder'
  BY <1>2, NewIsNone, Facts, NoRowChanges, CalmRows DEF Keeps
<1> QED
  BY <1>2, <1>7, <1>8, NoRowChanges, CommandActs

LEMMA AdmitCancelInOrder ==
  ASSUME InOrder, NEW c \in Commands, AdmitCancel(c)
  PROVE  OInv'
<1>1. /\ cmd[c].pc = "admit" /\ cmd[c].kind = "cancel" /\ Inside(c)
      /\ UNCHANGED <<row, ids, lease, exec, note, undone>>
  BY DEF AdmitCancel, Admitting, Inside
<1>2. CASE Goto(c, "over")
  BY <1>1, <1>2, NewIsNone, GivesUpInOrder
<1>3. ASSUME NEW step \in Writing, NEW s,
             cmd' = [cmd EXCEPT ![c].pc = step, ![c].copy = [row[cmd[c].target] EXCEPT !.status = s]],
             row[cmd[c].target].status # "absent",
             step = "request" => s = "cancel-requested" /\ row[cmd[c].target].status = "running",
             step = "settle" => s = "canceled"
      PROVE  OInv'
  BY <1>1, <1>3, Statuses, TakesCopyInOrder
<1> QED
  BY <1>2, <1>3 DEF AdmitCancel, Writing

LEMMA AdmitReconcileInOrder ==
  ASSUME InOrder, NEW c \in Commands, AdmitReconcile(c)
  PROVE  OInv'
<1>1. /\ cmd[c].pc = "admit" /\ cmd[c].kind = "reconcile" /\ Inside(c)
      /\ UNCHANGED <<row, ids, lease, exec, note, undone>>
  BY DEF AdmitReconcile, Admitting, Inside
<1>2. CASE Goto(c, "over")
  BY <1>1, <1>2, NewIsNone, GivesUpInOrder
<1>3. ASSUME NEW step \in {"backend", "settle"}, NEW s,
             cmd' = [cmd EXCEPT ![c].pc = step, ![c].copy = [row[cmd[c].target] EXCEPT !.status = s]],
             row[cmd[c].target].status # "absent",
             step = "settle" => s = "interrupted"
      PROVE  OInv'
  BY <1>1, <1>3, Statuses, TakesCopyInOrder DEF Writing
<1> QED
  BY <1>2, <1>3 DEF AdmitReconcile

-----------------------------------------------------------------------------
(* The writes of the attempt that a command ends: the fence has let it     *)
(* through, so its mark is the row's or the first one of the row.          *)
LEMMA WritesTargetInOrder ==
  ASSUME InOrder, NEW c \in Commands, Inside(c), cmd[c].pc \in {"request", "settle"}, MarksStay,
         Save(cmd[c].target, cmd[c].copy), NEW step \in {"backend", "insert", "over"},
         Goto(c, step), UNCHANGED <<ids, lease, exec, note, undone>>,
         cmd[c].pc = "request" <=> step = "backend",
         step = "insert" <=> cmd[c].pc = "settle" /\ cmd[c].kind = "create"
  PROVE  OInv'
<1>1. PICK d \in Ids, m \in Attempt :
          /\ d = cmd[c].target /\ m = cmd[c].copy /\ Exists(d)
          /\ row'[d] = m /\ ~Fenced(d, m)
          /\ \A e \in Ids \ {d} : row'[e] = row[e]
  BY Facts DEF Save, Writable, CommandOK, Command, Writing
<1>2. /\ Knows(c) /\ Placed(m) /\ m.mark \in Nat
      /\ m.status \in {"cancel-requested"} \cup Terminal
      /\ cmd[c].pc = "request" => IsLatest(d) \/ d \in undone
      /\ step # "backend" => m.status \in Terminal
      /\ cmd[c].kind = "create" => /\ m.mark = cmd[c].new /\ cmd[c].new = ids /\ IsLatest(d)
                                   /\ \A e \in Ids : row[e].mark = cmd[c].new => e = d
      /\ cmd[c].kind # "create" => cmd[c].new = NoId
      /\ cmd[c].kind # "create" /\ m.mark # NoId => m.mark = row[d].mark
  <2>1. m.mark \in Nat
    BY NumberOfIds DEF Attempt
  <2> QED
    BY <1>1, <2>1, Facts DEF Knows, Ending, Supersede, Writing
<1>3. /\ m.status \notin {"absent", "planned", "running"}
      /\ m.status \in Active => IsLatest(d) \/ d \in undone
      /\ row[d].mark = NoId \/ row[d].mark = m.mark
  BY <1>1, <1>2, Statuses DEF Fenced
<1>4. \A e \in Ids : /\ Exists(e) <=> row'[e].status # "absent"
                     /\ row'[e].status \in {"planned", "running"} => row'[e] = row[e]
  BY <1>1, <1>3 DEF Exists
<1>5. NoReplan
  BY <1>4 DEF NoReplan
<1>6. ActiveIsLatest'
  <2>1. \A e \in Ids \ undone :
           row'[e].status \in Active => row[e].status \in Active \/ IsLatest(e)
    BY <1>1, <1>3
  <2>2. \A e \in Ids \ undone, f \in Ids : row[e].status \in Active \/ IsLatest(e) => (Exists(f) => f <= e)
    BY Facts DEF RowsInOrder, ActiveIsLatest, IsLatest, Present, Exists
  <2> QED
    BY <1>4, <2>1, <2>2 DEF ActiveIsLatest, Exists
<1>7. \A e \in Ids : Placed(row[e])' /\ row'[e].mark <= ids'
  <2>1. m.mark <= ids
    BY <1>2, <1>1, Facts, NumberOfIds DEF RowsInOrder, NoId
  <2> QED
    BY <1>1, <1>2, <2>1, Facts DEF RowsInOrder, Placed
<1>8. SupersedeHasSuccessor'
  <2>1. \A b \in Commands : cmd'[b].new = cmd[b].new
    BY GoneTo
  <2>2. ASSUME NEW e \in Ids, row'[e].mark # NoId
        PROVE  row'[e].mark = row[e].mark \/ row'[e].mark = cmd[c].new
    BY <1>1, <1>2, <2>2
  <2>3. \A e \in Ids : row[e].mark \in Ids \cup {NoId}
    BY Facts DEF Attempt
  <2> QED
    BY <1>4, <2>1, <2>2, <2>3, Facts DEF RowsInOrder, SupersedeHasSuccessor, Exists
<1>9. RunningIsAttended'
  <2>1. \A b \in Commands : cmd'[b].new = cmd[b].new
    BY GoneTo
  <2> QED
    BY <1>4, <2>1, Facts DEF RowsInOrder, RunningIsAttended
<1>10. RowsInOrder'
  BY <1>6, <1>7, <1>8, <1>9 DEF RowsInOrder
<1>11. Knows(c)'
  <2>1. Reach(c)'
    BY GoneTo, Facts DEF Knows, Reach, Inside
  <2>2. IsLatest(d) => IsLatest(d)'
    BY <1>4 DEF IsLatest, Present, Exists
  <2>3. Supersede(c)'
    <3> SUFFICES ASSUME step = "backend", cmd[c].kind = "create"
                 PROVE  Supersede(c)'
      BY GoneTo DEF Supersede, Writing
    <3>1. \A e \in Ids : row'[e].mark = cmd[c].new => e = d
      BY <1>1, <1>2
    <3> QED
      BY <1>1, <1>2, <2>2, <3>1, GoneTo DEF Supersede
  <2>4. Ending(c)'
    <3> SUFFICES ASSUME step = "backend"
                 PROVE  Ending(c)'
      BY GoneTo DEF Ending, Writing
    <3> QED
      BY <1>1, <1>2, GoneTo DEF Ending, Placed, Inside
  <2>5. Making(c)'
    <3>1. CASE step = "backend"
      BY <3>1, GoneTo DEF Making
    <3>2. CASE step = "insert"
      <4>1. \A e \in Ids \ (undone \cup {d}) : row[e].status \notin Active
        <5> SUFFICES ASSUME NEW e \in Ids \ (undone \cup {d}), row[e].status \in Active
                     PROVE  FALSE
          OBVIOUS
        <5>1. Exists(e) /\ IsLatest(d)
          BY <1>2, <3>2, Statuses DEF Exists
        <5>2. d <= e /\ e <= d
          BY <1>1, <5>1, Facts DEF RowsInOrder, ActiveIsLatest, IsLatest, Present, Exists
        <5> QED
          BY <5>2, NumberOfIds
      <4> QED
        BY <1>1, <1>2, <3>2, <4>1, GoneTo, Statuses DEF Making
    <3>3. CASE step = "over"
      <4>1. cmd[c].kind # "create"
        BY <3>3
      <4> QED
        BY <1>2, <3>3, <4>1, GoneTo DEF Making
    <3> QED
      BY <3>1, <3>2, <3>3
  <2> QED
    BY <2>1, <2>3, <2>4, <2>5 DEF Knows
<1> QED
  BY <1>5, <1>10, <1>11, GoneTo, CommandActs

(* A supersede that is refused has left no mark of its own.                *)
LEMMA FencedGivesUp ==
  ASSUME InOrder, NEW c \in Commands, Inside(c), cmd[c].pc \in {"request", "settle"},
         ~Writable(cmd[c].target, cmd[c].copy), Goto(c, "over"),
         UNCHANGED <<row, ids, lease, exec, note, undone>>
  PROVE  OInv'
<1>1. CASE cmd[c].kind # "create"
  BY <1>1, Facts, GivesUpInOrder DEF Knows, Ending, Writing
<1>2. CASE cmd[c].kind = "create"
  <2>1. ~Exists(cmd[c].new)
    BY <1>2, Facts DEF CommandOK, Writing
  <2>2. \A e \in Ids : row[e].mark = cmd[c].new => e = cmd[c].target /\ cmd[c].pc # "request"
    BY <1>2, Facts DEF Knows, Supersede, Writing
  <2>3. row[cmd[c].target].mark # cmd[c].new
    <3>1. CASE cmd[c].pc = "request"
      BY <2>2, <3>1, Facts DEF CommandOK, Command, Writing
    <3>2. CASE cmd[c].pc = "settle"
      <4>1. cmd[c].copy.mark = cmd[c].new /\ cmd[c].copy.status \notin Active
        BY <1>2, <3>2, Facts, Statuses DEF Knows, Supersede, Ending, Writing
      <4> QED
        BY <4>1 DEF Writable, Fenced, Clash
    <3> QED
      BY <3>1, <3>2
  <2> QED
    BY <2>1, <2>2, <2>3, GivesUpInOrder DEF InVain
<1> QED
  BY <1>1, <1>2

LEMMA RequestInOrder ==
  ASSUME InOrder, NEW c \in Commands, Request(c), MarksStay
  PROVE  OInv'
<1>1. cmd[c].pc = "request" /\ UNCHANGED <<ids, lease, exec, note, undone>>
  BY DEF Request
<1>2. Inside(c)
  BY <1>1, Facts DEF Knows, Reach, Inside
<1>3. CASE Save(cmd[c].target, cmd[c].copy) /\ Goto(c, "backend")
  BY <1>1, <1>2, <1>3, WritesTargetInOrder
<1>4. CASE ~Writable(cmd[c].target, cmd[c].copy) /\ Goto(c, "over") /\ UNCHANGED row
  BY <1>1, <1>2, <1>4, FencedGivesUp
<1> QED
  BY <1>3, <1>4 DEF Request

(* The backend does not fail.                                              *)
LEMMA BackendInOrder ==
  ASSUME InOrder, NEW c \in Commands, BackendCancel(c)
  PROVE  OInv'
<1>1. PICK s \in {"interrupted", "canceled"} :
        cmd' = [cmd EXCEPT ![c].pc = "settle", ![c].copy.status = s]
  BY DEF BackendCancel, InOrder, Orderly
<1>2. /\ cmd[c].pc = "backend" /\ UNCHANGED <<row, ids, lease, exec, note, undone>>
      /\ cmd[c] \in Command /\ cmd[c].copy \in Attempt
  BY Facts DEF BackendCancel, Command
<1>3. PICK m : m = [cmd[c].copy EXCEPT !.status = s]
  OBVIOUS
<1>4. m.status = s /\ m.mark = cmd[c].copy.mark /\ m.placement = cmd[c].copy.placement
  BY <1>2, <1>3 DEF Attempt
<1>5. /\ cmd'[c].pc = "settle" /\ cmd'[c].copy = m /\ cmd'[c].kind = cmd[c].kind
      /\ cmd'[c].new = cmd[c].new /\ cmd'[c].target = cmd[c].target
      /\ cmd'[c].placement = cmd[c].placement /\ Inside(c)
      /\ \A e \in Commands \ {c} : cmd'[e] = cmd[e]
  <2>1. cmd' = [cmd EXCEPT ![c] = [cmd[c] EXCEPT !.pc = "settle", !.copy = m]]
    BY <1>1, <1>2, <1>3, Facts DEF Command
  <2>2. Inside(c)
    BY <1>2, Facts DEF Knows, Reach, Inside
  <2> QED
    BY <1>2, <2>1, <2>2, Facts DEF Command
<1>6. Knows(c)'
  <2>1. Reach(c)'
    BY <1>2, <1>5, Facts DEF Knows, Reach, Inside
  <2>2. Supersede(c)'
    <3>1. IsLatest(cmd[c].target) => IsLatest(cmd[c].target)'
      BY <1>2, <1>5 DEF IsLatest, Present
    <3>2. cmd[c].kind = "create" => Supersede(c) /\ cmd[c].pc \in Writing
      BY <1>2, Facts DEF Knows, Writing
    <3> QED
      BY <1>2, <1>4, <1>5, <3>1, <3>2 DEF Supersede
  <2>3. Ending(c)'
    <3>1. cmd[c].copy.placement \in Placements
      BY <1>2, Facts DEF Knows, Ending, Placed, CommandOK, Writing
    <3>2. /\ cmd[c].kind # "archive"
          /\ cmd[c].kind # "create" => cmd[c].new = NoId
          /\ cmd[c].kind # "create" /\ m.mark # NoId => m.mark = row[cmd[c].target].mark
      BY <1>2, <1>4, Facts DEF Knows, Ending, Reach, Writing
    <3>3. m.status \in Terminal
      BY <1>4, Statuses
    <3> QED
      BY <1>2, <1>4, <1>5, <3>1, <3>2, <3>3 DEF Ending, Placed
  <2>4. Making(c)'
    BY <1>5 DEF Making
  <2> QED
    BY <2>1, <2>2, <2>3, <2>4 DEF Knows
<1>7. RowsInOrder'
  BY <1>2, <1>5, Facts, NoRowChanges, CalmRows DEF Keeps
<1> QED
  BY <1>2, <1>5, <1>6, <1>7, NoRowChanges, CommandActs

(* A calm write by a process that has no lease.                            *)
LEMMA CalmStep ==
  ASSUME InOrder, Calm, UNCHANGED <<ids, lease, note, undone>>,
         NEW C \in SUBSET Commands, \A c \in C : cmd'[c] = cmd[c],
         \A c \in Commands \ C : Knows(c)' /\ cmd'[c].new = cmd[c].new,
         NEW D \in SUBSET Ids, \A d \in Ids \ D : exec'[d] = exec[d],
         \A d \in D : /\ exec[d].pc # "none" /\ Executing(d)'
                      /\ row'[d].status \in {"planned", "running"} /\ exec[d].pc \in AtExecutor
                           => exec'[d].pc \in AtExecutor
  PROVE  OInv'
<1>1. ASSUME NEW c \in C
      PROVE  Knows(c)'
  <2>1. Inside(c) => lease'[cmd[c].placement] = c
    BY Facts DEF Knows, Reach
  <2>2. cmd[c].pc = "start" => exec'[cmd[c].new].pc = "none"
    <3> SUFFICES ASSUME cmd[c].pc = "start"
                 PROVE  exec'[cmd[c].new].pc = "none"
      OBVIOUS
    <3>1. cmd[c].new \in Ids /\ exec[cmd[c].new].pc = "none"
      BY Facts DEF Knows, Making, CommandOK, Command
    <3> QED
      BY <3>1
  <2> QED
    BY <2>1, <2>2, CalmKnows
<1>2. RowsInOrder'
  <2>1. ids \in Nat
    BY NumberOfIds DEF InOrder, IInv, Typed
  <2>2. \A c \in Commands : cmd'[c].new = cmd[c].new
    OBVIOUS
  <2>3. \A d \in Ids : /\ row'[d].status \in {"planned", "running"} /\ exec[d].pc \in AtExecutor
                      => exec'[d].pc \in AtExecutor
    OBVIOUS
  <2> QED
    BY <2>1, <2>2, <2>3, CalmRows DEF Keeps
<1>3. ASSUME NEW d \in Ids
      PROVE  Executing(d)'
  <2>1. CASE d \in D
    BY <2>1
  <2>2. CASE d \notin D
    <3>1. exec'[d] = exec[d] /\ Executing(d) /\ (exec[d].pc # "none" => Exists(d))
      BY <2>2 DEF InOrder, OInv, IInv, ExecutorOK
    <3>2. /\ Exists(d) /\ row[d].status # "planned" => row'[d].status # "planned"
          /\ row'[d].mark = row[d].mark
      BY Statuses DEF Calm
    <3> QED
      BY <3>1, <3>2 DEF Executing
  <2> QED
    BY <2>1, <2>2
<1> QED
  BY <1>1, <1>2, <1>3 DEF OInv, Knows

LEMMA SettleInOrder ==
  ASSUME InOrder, NEW c \in Commands, Settle(c), MarksStay
  PROVE  OInv'
<1>1. cmd[c].pc = "settle" /\ UNCHANGED <<ids, lease, exec, note, undone>>
  BY DEF Settle
<1>2. CASE cmd[c].kind # "archive"
  <2>1. Inside(c)
    BY <1>1, <1>2 DEF Inside
  <2>2. CASE /\ Save(cmd[c].target, cmd[c].copy)
             /\ Goto(c, IF cmd[c].kind = "create" THEN "insert" ELSE "over")
    BY <1>1, <2>1, <2>2, WritesTargetInOrder
  <2>3. CASE ~Writable(cmd[c].target, cmd[c].copy) /\ Goto(c, "over") /\ UNCHANGED row
    BY <1>1, <2>1, <2>3, FencedGivesUp
  <2> QED
    BY <1>2, <2>2, <2>3 DEF Settle
<1>3. CASE cmd[c].kind = "archive"
  <2>1. PICK m : m = [cmd[c].copy EXCEPT !.archived = TRUE]
    OBVIOUS
  <2>2. PICK d \in Ids : d = cmd[c].target /\ Exists(d)
    BY <1>1, Facts DEF CommandOK, Command, Writing
  <2>3. /\ m.status = cmd[c].copy.status /\ m.mark = cmd[c].copy.mark
        /\ m.placement = cmd[c].copy.placement
    BY <2>1, Facts DEF Command, Attempt
  <2>4. /\ m.status \in Terminal /\ Placed(m) /\ row[d].status # "planned"
        /\ m.mark # NoId => m.mark = row[d].mark
    BY <1>1, <1>3, <2>2, <2>3, Facts DEF Knows, Ending, Placed, Writing
  <2>5. Goto(c, "over") /\ (Save(d, m) \/ UNCHANGED row)
    BY <1>3, <2>1, <2>2 DEF Settle
  <2>6. Calm
    <3>1. CASE UNCHANGED row
      BY <3>1, NoRowChanges
    <3>2. CASE Save(d, m)
      <4>1. row'[d] = m /\ ~Fenced(d, m) /\ \A e \in Ids \ {d} : row'[e] = row[e]
        BY <3>2, Facts DEF Save, Writable
      <4>2. m.mark = row[d].mark
        BY <2>4, <4>1 DEF Fenced
      <4> QED
        BY <2>2, <2>4, <4>1, <4>2 DEF Calm
    <3> QED
      BY <2>5, <3>1, <3>2
  <2>7. Knows(c)'
    <3>1. cmd'[c].pc = "over" /\ cmd'[c].kind = "archive" /\ cmd'[c].new = NoId
      BY <1>3, <2>5, GoneTo, Facts DEF Knows, Reach
    <3>2. cmd'[c].placement \in Placements
      BY <1>1, <2>5, GoneTo, Facts DEF Knows, Reach
    <3> QED
      BY <3>1, <3>2 DEF Knows, Reach, Supersede, Ending, Making, Inside, Writing
  <2>8. \A e \in Commands \ {c} : cmd'[e] = cmd[e]
    BY <2>5, GoneTo
  <2>9. cmd'[c].new = cmd[c].new
    BY <2>5, GoneTo
  <2>10. PICK C \in SUBSET Commands, D \in SUBSET Ids : C = Commands \ {c} /\ D = {}
    OBVIOUS
  <2> QED
    BY <1>1, <2>6, <2>7, <2>8, <2>9, <2>10, CalmStep
<1> QED
  BY <1>2, <1>3

-----------------------------------------------------------------------------
(* The writes of a command's new attempt.                                  *)
LEMMA WritesNewInOrder ==
  ASSUME InOrder, NEW c \in Commands, Inside(c), MarksStay, NEW d \in Ids, d = cmd[c].new,
         NEW m, row' = [row EXCEPT ![d] = m], m.mark = NoId, m.placement \in Placements,
         m.status \in {"planned", "running"}, m.status = "planned" => ~Exists(d),
         \A e \in Ids \ {d} : row[e].status \notin Active,
         \A e \in Ids : Exists(e) => e <= d,
         NEW step \in {"start", "admitted"}, Goto(c, step), UNCHANGED <<ids, lease, exec, note, undone>>,
         step = "admitted" => m.status = "running",
         step = "start" => m.status = "planned" /\ exec[d].pc = "none"
  PROVE  OInv'
<1>1. row'[d] = m /\ \A e \in Ids \ {d} : row'[e] = row[e]
  BY Facts
<1>2. NoReplan
  BY <1>1 DEF NoReplan
<1>3. ActiveIsLatest'
  <2>1. \A e \in Ids : d <= d /\ (row'[e].status # "absent" => e <= d)
    BY <1>1, NumberOfIds DEF Exists
  <2> QED
    BY <1>1, <2>1 DEF ActiveIsLatest, Exists
<1>4. \A e \in Ids : Placed(row[e])' /\ row'[e].mark <= ids'
  BY <1>1, Facts DEF RowsInOrder, Placed, NoId
<1>5. SupersedeHasSuccessor'
  <2>1. \A b \in Commands : cmd'[b].new = cmd[b].new
    BY GoneTo
  <2>2. \A e \in Ids : row[e].status # "absent" => row'[e].status # "absent"
    BY <1>1
  <2>3. \A e \in Ids : row'[e].mark # NoId => row'[e].mark = row[e].mark /\ row[e].mark \in Ids
    BY <1>1, Facts DEF Attempt
  <2> QED
    BY <2>1, <2>2, <2>3, Facts DEF RowsInOrder, SupersedeHasSuccessor
<1>6. RunningIsAttended'
  <2>1. \A b \in Commands : cmd'[b].new = cmd[b].new
    BY GoneTo
  <2> QED
    BY <1>1, <2>1, Facts DEF RowsInOrder, RunningIsAttended
<1>7. Knows(c)'
  <2>1. Reach(c)'
    BY GoneTo, Facts DEF Knows, Reach, Inside
  <2>2. Supersede(c)' /\ Ending(c)'
    BY GoneTo DEF Supersede, Ending, Writing
  <2>3. Making(c)'
    BY <1>1, GoneTo DEF Making
  <2> QED
    BY <2>1, <2>2, <2>3 DEF Knows
<1>8. RowsInOrder'
  BY <1>3, <1>4, <1>5, <1>6 DEF RowsInOrder
<1> QED
  BY <1>2, <1>7, <1>8, GoneTo, CommandActs

LEMMA InsertInOrder ==
  ASSUME InOrder, NEW c \in Commands, Insert(c), MarksStay
  PROVE  OInv'
<1>1. cmd[c].pc = "insert" /\ UNCHANGED <<ids, lease, exec, note, undone>>
  BY DEF Insert
<1>2. Inside(c) /\ cmd[c].placement \in Placements
  BY <1>1, Facts DEF Knows, Reach, Inside
<1>3. PICK d \in Ids : d = cmd[c].new /\ ~Exists(d) /\ d = ids
  BY <1>1, Facts DEF Knows, Making, CommandOK, Command
<1>4. \A e \in Ids \ undone : row[e].status \notin Active
  BY <1>1, Facts DEF Knows, Making
<1>5. \A e \in Ids : Exists(e) => e <= d
  BY <1>3, Written DEF InOrder
<1>6. PICK m : m = Planned(cmd[c].placement)
  OBVIOUS
<1>7. m.status = "planned" /\ m.mark = NoId /\ m.placement = cmd[c].placement
  BY <1>6 DEF Planned
<1>8. exec[d].pc = "none"
  BY <1>3 DEF InOrder, IInv, ExecutorOK
<1>9. CASE Clash(d, m)
  <2>1. PICK e \in Ids \ {d} : row[e].status \in Active
    BY <1>9 DEF Clash
  <2>2. e \in undone /\ Exists(e)
    BY <1>4, <2>1, Statuses DEF Exists
  <2>3. e < d
    BY <1>5, <2>1, <2>2, NumberOfIds
  <2>4. Goto(c, "over") /\ UNCHANGED row
    BY <1>3, <1>6, <1>9 DEF Insert
  <2> QED
    BY <1>1, <1>2, <1>3, <2>2, <2>3, <2>4, GivesUpInOrder DEF InVain
<1>10. CASE ~Clash(d, m)
  <2>1. \A e \in Ids \ {d} : row[e].status \notin Active
    BY <1>7, <1>10, Statuses DEF Clash
  <2>2. row' = [row EXCEPT ![d] = m] /\ Goto(c, "start")
    BY <1>3, <1>6, <1>10 DEF Insert
  <2> QED
    BY <1>1, <1>2, <1>3, <1>5, <1>7, <1>8, <2>1, <2>2, WritesNewInOrder
<1> QED
  BY <1>9, <1>10

(* The attempt was planned by this command and nobody has touched it.      *)
LEMMA StartInOrder ==
  ASSUME InOrder, NEW c \in Commands, Start(c), MarksStay
  PROVE  OInv'
<1>1. cmd[c].pc = "start" /\ UNCHANGED <<ids, lease, exec, note, undone>>
  BY DEF Start
<1>2. Inside(c) /\ cmd[c].placement \in Placements
  BY <1>1, Facts DEF Knows, Reach, Inside
<1>3. PICK d \in Ids : d = cmd[c].new
  BY <1>1, Facts DEF CommandOK, Command
<1>4. row[d].status = "planned" /\ row[d].mark = NoId
  BY <1>1, <1>3, Facts DEF Knows, Making
<1>5. \A e \in Ids : Exists(e) => e <= d
  <2>1. d \notin undone
    BY <1>1, <1>3, Facts DEF Knows, Making, InOrder, OInv, Executing
  <2> QED
    BY <1>4, <2>1, Facts, Statuses DEF RowsInOrder, ActiveIsLatest
<1>6. \A e \in Ids \ {d} : row[e].status \notin Active
  BY <1>4, Statuses DEF InOrder, RInv, OneIsActive
<1>7. PICK m : m = Started(c)
  OBVIOUS
<1>8. m.status = "running" /\ m.mark = NoId /\ m.placement = cmd[c].placement
  BY <1>7 DEF Started, Planned
<1>9. row' = [row EXCEPT ![d] = m] /\ Goto(c, "admitted")
  <2>1. Writable(d, m)
    BY <1>4, <1>6 DEF Writable, Fenced, Clash
  <2> QED
    BY <1>3, <1>7, <2>1 DEF Start, Save
<1> QED
  BY <1>1, <1>2, <1>3, <1>5, <1>6, <1>8, <1>9, WritesNewInOrder

-----------------------------------------------------------------------------
(* Leaving the lease.                                                      *)
LEMMA ReleaseInOrder ==
  ASSUME InOrder, NEW c \in Commands, Release(c)
  PROVE  OInv'
<1>1. /\ cmd[c].pc \in {"admitted", "over"} /\ UNCHANGED <<row, ids, note, undone>>
      /\ lease' = [p \in Placements |-> IF lease[p] = c THEN None ELSE lease[p]]
      /\ cmd' = [cmd EXCEPT ![c] = Ended]
  BY DEF Release
<1>2. /\ cmd'[c].pc = "done" /\ cmd'[c].kind = "none" /\ cmd'[c].new = NoId
      /\ \A e \in Commands \ {c} : cmd'[e] = cmd[e]
  BY <1>1, Facts DEF Ended, Unused
<1>3. Knows(c)'
  BY <1>2 DEF Knows, Reach, Supersede, Ending, Making, Inside, Writing
<1>4. \A e \in Commands \ {c} : Inside(e) => lease'[cmd[e].placement] = e
  <2> SUFFICES ASSUME NEW e \in Commands \ {c}, Inside(e)
               PROVE  lease'[cmd[e].placement] = e
    OBVIOUS
  <2>1. cmd[e].placement \in Placements /\ lease[cmd[e].placement] = e
    BY Facts DEF Knows, Reach, Inside
  <2> QED
    BY <1>1, <2>1
<1>5. CASE cmd[c].pc = "over"
  <2>1. UNCHANGED exec
    BY <1>5 DEF Release, InOrder, Orderly
  <2>2. cmd[c].new # NoId => Keeps(c)
    BY <1>5, Facts DEF Knows, Making, Keeps
  <2>3. RowsInOrder'
    BY <1>1, <1>2, <2>1, <2>2, Facts, NoRowChanges, CalmRows DEF Keeps
  <2>4. ASSUME NEW e \in Commands \ {c}
        PROVE  Knows(e)'
    <3>1. cmd[e].pc = "start" => exec'[cmd[e].new].pc = "none"
      BY <2>1, Facts DEF Knows, Making
    <3> QED
      BY <1>1, <1>2, <1>4, <3>1, NoRowChanges, CalmKnows
  <2>5. \A d \in Ids : Executing(d)'
    BY <1>1, <2>1 DEF InOrder, OInv, Executing
  <2> QED
    BY <1>3, <2>3, <2>4, <2>5 DEF OInv, Knows
<1>6. CASE cmd[c].pc = "admitted"
  <2>1. cmd[c].placement \in Placements /\ lease[cmd[c].placement] = c
    BY <1>6, Facts DEF Knows, Reach, Inside
  <2>2. Launch(c)
    BY <1>6, <2>1 DEF Release, Holds, InOrder, Orderly
  <2>3. PICK d \in Ids : d = cmd[c].new /\ Exists(d)
    BY <1>6, Facts DEF CommandOK, Command
  <2>4. PICK x : exec' = [exec EXCEPT ![d] = x] /\ x.pc = "building" /\ x.mem = Started(c)
    <3>1. PICK kind \in ExecutionKinds :
            exec' = [exec EXCEPT ![d] =
                       [pc |-> "building", kind |-> kind, mem |-> Started(c),
                        by |-> IF cmd[c].kind = "create" THEN "create" ELSE "recovery"]]
      BY <2>2, <2>3 DEF Launch
    <3>2. PICK x : x = [pc |-> "building", kind |-> kind, mem |-> Started(c),
                        by |-> IF cmd[c].kind = "create" THEN "create" ELSE "recovery"]
      OBVIOUS
    <3>3. x.pc = "building" /\ x.mem = Started(c) /\ exec' = [exec EXCEPT ![d] = x]
      BY <3>1, <3>2
    <3> QED
      BY <3>3
  <2>5. exec'[d] = x /\ \A e \in Ids \ {d} : exec'[e] = exec[e]
    BY <2>4 DEF InOrder, IInv, Typed
  <2>6. RowsInOrder'
    <3>1. Keeps(c)
      BY <2>3, <2>4, <2>5 DEF Keeps, AtExecutor
    <3>2. \A e \in Commands \ {c} : Keeps(e)
      BY <1>2 DEF Keeps
    <3>3. \A e \in Ids : exec[e].pc \in AtExecutor => exec'[e].pc \in AtExecutor
      BY <2>4, <2>5 DEF AtExecutor
    <3> QED
      BY <1>1, <3>1, <3>2, <3>3, Facts, NoRowChanges, CalmRows
  <2>7. ASSUME NEW e \in Commands \ {c}
        PROVE  Knows(e)'
    <3>1. cmd[e].pc = "start" => exec'[cmd[e].new].pc = "none"
      <4> SUFFICES ASSUME cmd[e].pc = "start"
                   PROVE  exec'[cmd[e].new].pc = "none"
        OBVIOUS
      <4>1. /\ cmd[e].new \in Ids /\ cmd[e].new # NoId /\ exec[cmd[e].new].pc = "none"
        BY Facts DEF Knows, Making, CommandOK, Command
      <4>2. cmd[e].new # d
        BY <2>3, <4>1 DEF InOrder, IInv, NoIdTwice
      <4> QED
        BY <2>5, <4>1, <4>2
    <3> QED
      BY <1>1, <1>2, <1>4, <3>1, NoRowChanges, CalmKnows
  <2>8. \A e \in Ids : Executing(e)'
    <3>1. Executing(d)'
      <4>1. x.mem.status = "running" /\ x.mem.mark = NoId /\ x.mem.placement \in Placements
        BY <2>1, <2>4 DEF Started, Planned
      <4>2. row'[d].status # "planned"
        BY <1>1, <1>6, <2>3, Facts DEF Knows, Making
      <4> QED
        BY <1>1, <2>4, <2>5, <4>1, <4>2 DEF InOrder, OInv, Executing
    <3> QED
      BY <1>1, <2>5, <3>1 DEF InOrder, OInv, Executing
  <2> QED
    BY <1>3, <2>6, <2>7, <2>8 DEF OInv, Knows
<1> QED
  BY <1>1, <1>5, <1>6

-----------------------------------------------------------------------------
(* Executors.                                                              *)
LEMMA ExecutorFacts ==
  ASSUME InOrder, NEW d \in Ids
  PROVE  /\ Executing(d) /\ exec[d] \in Executor /\ row[d] \in Attempt /\ NoId \notin Ids
         /\ exec \in [Ids -> Executor] /\ RowsInOrder /\ Sound(row[d])
         /\ exec[d].pc # "none" => Exists(d)
  BY NumberOfIds DEF InOrder, OInv, IInv, Typed, ExecutorOK, RowsOK, NoId

(* A step of an executor that writes nothing.                              *)
LEMMA ExecutorGoesInOrder ==
  ASSUME InOrder, NEW d \in Ids, exec[d].pc \in {"building", "deploying"},
         UNCHANGED <<row, ids, lease, cmd, note, undone>>,
         NEW x, exec' = [exec EXCEPT ![d] = x],
         \/ x.pc = "deploying" /\ x.mem = exec[d].mem
         \/ /\ x.pc = "report" /\ x.mem.status \in {"succeeded", "failed"}
            /\ x.mem.mark = NoId /\ x.mem.placement \in Placements
         \/ x.pc = "done" /\ row[d].status \notin {"planned", "running"}
  PROVE  OInv'
<1>1. exec'[d] = x /\ \A e \in Ids \ {d} : exec'[e] = exec[e]
  BY ExecutorFacts
<1>2. Executing(d)'
  BY <1>1, ExecutorFacts DEF Executing
<1>3. row'[d].status \in {"planned", "running"} => exec'[d].pc \in AtExecutor
  BY <1>1 DEF AtExecutor
<1>4. PICK C \in SUBSET Commands, D \in SUBSET Ids : C = Commands /\ D = {d}
  OBVIOUS
<1> QED
  BY <1>1, <1>2, <1>3, <1>4, NoRowChanges, CalmStep

LEMMA FinishInOrder ==
  ASSUME InOrder, NEW d \in Ids, exec[d].pc \in {"building", "deploying"},
         NEW result \in {"succeeded", "failed"}, Finish(d, result),
         UNCHANGED <<row, ids, lease, cmd, note, undone>>
  PROVE  OInv'
<1>1. /\ exec[d].mem.status = "running" /\ exec[d].mem.mark = NoId
      /\ exec[d].mem.placement \in Placements /\ exec[d].mem \in Attempt
  BY ExecutorFacts DEF Executing, Executor
<1>2. PICK x : x = [exec[d] EXCEPT !.pc = "report", !.mem = [exec[d].mem EXCEPT !.status = result]]
  OBVIOUS
<1>3. exec' = [exec EXCEPT ![d] = x]
  BY <1>1, <1>2, ExecutorFacts DEF Finish, Executor
<1>4. x.pc = "report" /\ x.mem = [exec[d].mem EXCEPT !.status = result]
  BY <1>2, ExecutorFacts DEF Executor
<1>5. x.mem.status = result /\ x.mem.mark = NoId /\ x.mem.placement \in Placements
  BY <1>1, <1>4 DEF Attempt
<1> QED
  BY <1>3, <1>4, <1>5, ExecutorGoesInOrder

LEMMA FailOrStopInOrder ==
  ASSUME InOrder, NEW d \in Ids, exec[d].pc \in {"building", "deploying"}, FailOrStop(d),
         UNCHANGED <<row, ids, lease, cmd, note, undone>>
  PROVE  OInv'
<1>1. exec[d].mem.status = "running"
  BY ExecutorFacts DEF Executing
<1> QED
  BY <1>1, FinishInOrder DEF FailOrStop

(* An executor that stops at the guard stops for a reason.                 *)
LEMMA RefusedInOrder ==
  ASSUME InOrder, NEW d \in Ids, Refused(d)
  PROVE  OInv'
<1>1. exec[d].pc = "building" /\ ~MayContinue(d) /\ UNCHANGED <<row, ids, lease, cmd, note, undone>>
  BY DEF Refused
<1>2. CASE FailOrStop(d)
  BY <1>1, <1>2, FailOrStopInOrder
<1>3. CASE exec' = [exec EXCEPT ![d].pc = "done"]
  <2>1. row[d].status \notin {"planned", "running"}
    BY <1>1, ExecutorFacts DEF MayContinue, Sound
  <2>2. PICK x : x = [exec[d] EXCEPT !.pc = "done"]
    OBVIOUS
  <2>3. x.pc = "done" /\ exec' = [exec EXCEPT ![d] = x]
    BY <1>3, <2>2, ExecutorFacts DEF Executor
  <2> QED
    BY <1>1, <2>1, <2>3, ExecutorGoesInOrder
<1> QED
  BY <1>2, <1>3 DEF Refused

LEMMA DeployInOrder ==
  ASSUME InOrder, NEW d \in Ids, Deploy(d)
  PROVE  OInv'
<1>1. /\ exec[d].pc = "building" /\ UNCHANGED <<row, ids, lease, cmd, note, undone>>
      /\ exec' = [exec EXCEPT ![d].pc = "deploying"]
  BY DEF Deploy
<1>2. PICK x : x = [exec[d] EXCEPT !.pc = "deploying"]
  OBVIOUS
<1>3. x.pc = "deploying" /\ x.mem = exec[d].mem /\ exec' = [exec EXCEPT ![d] = x]
  BY <1>1, <1>2, ExecutorFacts DEF Executor
<1> QED
  BY <1>1, <1>3, ExecutorGoesInOrder

(* A report ends its attempt, or the attempt was superseded.               *)
LEMMA ReportInOrder ==
  ASSUME InOrder, NEW d \in Ids, Report(d)
  PROVE  OInv'
<1>1. /\ exec[d].pc = "report" /\ UNCHANGED <<ids, lease, cmd, note, undone>>
      /\ exec' = [exec EXCEPT ![d] = [NoExecutor EXCEPT !.pc = "done"]]
  BY DEF Report
<1>2. PICK m : m = [exec[d].mem EXCEPT !.notes = row[d].notes]
  OBVIOUS
<1>3. /\ m.status \in {"succeeded", "failed"} /\ m.mark = NoId /\ m.placement \in Placements
      /\ exec[d].mem \in Attempt
  BY <1>1, <1>2, ExecutorFacts DEF Executing, Executor, Attempt
<1>4. (Save(d, m) \/ (~Writable(d, m) /\ UNCHANGED row)) /\ Exists(d)
  BY <1>1, <1>2, ExecutorFacts DEF Report
<1>5. exec'[d].pc = "done" /\ \A e \in Ids \ {d} : exec'[e] = exec[e]
  BY <1>1, ExecutorFacts DEF NoExecutor
<1>6. m.status \in Terminal /\ m.status \notin Active /\ Placed(m)
  BY <1>3, Statuses DEF Placed
<1>7. Calm
  <2>1. CASE Save(d, m)
    <3>1. row'[d] = m /\ ~Fenced(d, m) /\ \A e \in Ids \ {d} : row'[e] = row[e]
      BY <2>1 DEF Save, Writable, InOrder, IInv, Typed
    <3>2. m.mark = row[d].mark
      BY <1>3, <3>1 DEF Fenced
    <3>3. row[d].status # "planned"
      BY <1>1, ExecutorFacts DEF Executing
    <3> QED
      BY <1>4, <1>6, <3>1, <3>2, <3>3 DEF Calm
  <2> QED
    BY <1>4, <2>1, NoRowChanges
<1>8. row'[d].status \notin {"planned", "running"}
  <2>1. CASE Save(d, m)
    <3>1. row'[d] = m
      BY <2>1 DEF Save, InOrder, IInv, Typed
    <3> QED
      BY <1>3, <3>1
  <2>2. CASE ~Writable(d, m) /\ UNCHANGED row
    <3>1. row[d].mark # NoId
      BY <1>6, <2>2 DEF Writable, Fenced, Clash
    <3> QED
      BY <2>2, <3>1, ExecutorFacts DEF Sound
  <2> QED
    BY <1>4, <2>1, <2>2
<1>9. Executing(d)'
  <2>1. row'[d].mark = row[d].mark /\ note'[d] = note[d]
    BY <1>1, <1>7 DEF Calm
  <2> QED
    BY <1>1, <1>5, <1>8, <2>1, ExecutorFacts DEF Executing
<1>10. PICK C \in SUBSET Commands, D \in SUBSET Ids : C = Commands /\ D = {d}
  OBVIOUS
<1> QED
  BY <1>1, <1>5, <1>7, <1>8, <1>9, <1>10, CalmStep

LEMMA ExecutorInOrder ==
  ASSUME InOrder, NEW d \in Ids, ExecutorStep(d)
  PROVE  OInv'
<1>1. exec[d].pc # "queued"
  BY ExecutorFacts DEF Executing
<1>2. CASE BuildFails(d) \/ Deployed(d)
  BY <1>2, FinishInOrder, FailOrStopInOrder DEF BuildFails, Deployed
<1>3. CASE Deploy(d) \/ Refused(d) \/ Report(d)
  BY <1>3, DeployInOrder, RefusedInOrder, ReportInOrder
<1> QED
  BY <1>1, <1>2, <1>3 DEF ExecutorStep, Dequeue

-----------------------------------------------------------------------------
(* Progress records: a write that changes the status is remembered.        *)
LEMMA ReadInOrder ==
  ASSUME InOrder, NEW d \in Ids, ReadForNote(d)
  PROVE  OInv'
<1>1. /\ exec[d].pc \in {"building", "deploying"} /\ UNCHANGED <<row, ids, lease, cmd, exec, undone>>
      /\ note' = [note EXCEPT ![d] = note[d] \cup {[row[d] EXCEPT !.notes = row[d].notes + 1]}]
  BY DEF ReadForNote
<1>2. PICK n : n = [row[d] EXCEPT !.notes = row[d].notes + 1]
  OBVIOUS
<1>3. /\ note'[d] = note[d] \cup {n} /\ \A e \in Ids \ {d} : note'[e] = note[e]
  BY <1>1, <1>2 DEF InOrder, IInv, Typed
<1>4. n.mark = row[d].mark /\ n.placement = row[d].placement /\ n.status = row[d].status
  BY <1>2, ExecutorFacts DEF Attempt
<1>5. row[d].placement \in Placements /\ row[d].status # "planned"
  BY <1>1, ExecutorFacts DEF Executing, RowsInOrder, Placed, Exists
<1>6. Executing(d)'
  BY <1>1, <1>3, <1>4, <1>5, ExecutorFacts DEF Executing
<1>7. \A e \in Ids : Executing(e)'
  BY <1>1, <1>3, <1>6 DEF InOrder, OInv, Executing
<1>8. \A c \in Commands : Knows(c)'
  BY <1>1, Facts, NoRowChanges, CalmKnows DEF Knows, Reach, Making
<1>9. RowsInOrder'
  BY <1>1 DEF InOrder, OInv, RowsInOrder, ActiveIsLatest, Exists, Placed, SupersedeHasSuccessor,
              RunningIsAttended
<1> QED
  BY <1>7, <1>8, <1>9 DEF OInv, Knows

LEMMA WriteInOrder ==
  ASSUME InOrder, NEW d \in Ids, WriteNote(d)
  PROVE  OInv'
<1>1. PICK m \in note[d] :
        /\ \/ Save(d, m) /\ undone' = IF m.status = row[d].status THEN undone
                                                                ELSE undone \cup {d}
           \/ UNCHANGED <<row, undone>>
        /\ note' = [note EXCEPT ![d] = note[d] \ {m}]
        /\ UNCHANGED <<ids, lease, cmd, exec>>
        /\ m \in Attempt /\ Sound(m) /\ m.status # "absent" /\ Exists(d)
  BY Recorded DEF InOrder
<1>2. /\ m.placement \in Placements /\ m.status # "planned" /\ exec[d].pc # "none"
      /\ m.mark # NoId => m.mark = row[d].mark
  BY <1>1, ExecutorFacts DEF Executing
<1>3. /\ \A e \in Ids \ {d} : row'[e] = row[e] /\ note'[e] = note[e]
      /\ note'[d] \subseteq note[d]
      /\ row'[d].mark = row[d].mark /\ row'[d].status # "absent"
      /\ row'[d].status # "planned" /\ row'[d].placement \in Placements
  <2>1. note'[d] \subseteq note[d] /\ \A e \in Ids \ {d} : note'[e] = note[e]
    BY <1>1 DEF InOrder, IInv, Typed
  <2>2. CASE UNCHANGED row
    BY <1>1, <1>2, <2>1, <2>2, ExecutorFacts DEF Executing, RowsInOrder, Placed, Exists
  <2>3. CASE Save(d, m)
    <3>1. row'[d] = m /\ ~Fenced(d, m) /\ \A e \in Ids \ {d} : row'[e] = row[e]
      BY <2>3 DEF Save, Writable, InOrder, IInv, Typed
    <3> QED
      BY <1>1, <1>2, <2>1, <3>1 DEF Fenced
  <2> QED
    BY <1>1, <2>2, <2>3
<1>4. /\ undone \subseteq undone'
      /\ \A e \in Ids \ undone' : row'[e].status = row[e].status
  <2>1. CASE UNCHANGED <<row, undone>>
    BY <2>1
  <2>2. CASE Save(d, m) /\ undone' = IF m.status = row[d].status THEN undone ELSE undone \cup {d}
    <3>1. row'[d] = m /\ \A e \in Ids \ {d} : row'[e] = row[e]
      BY <2>2 DEF Save, InOrder, IInv, Typed
    <3> QED
      BY <2>2, <3>1
  <2> QED
    BY <1>1, <2>1, <2>2
<1>5. \A e \in Ids : /\ row'[e].mark = row[e].mark
                     /\ Exists(e) <=> row'[e].status # "absent"
                     /\ row'[e].status = "planned" => row[e].status = "planned"
                     /\ row[e].status = "planned" /\ e # d => row'[e].status = "planned"
  BY <1>1, <1>3 DEF Exists
<1>6. RowsInOrder'
  <2>1. ActiveIsLatest'
    BY <1>4, <1>5, ExecutorFacts DEF RowsInOrder, ActiveIsLatest, Exists
  <2>2. \A e \in Ids : Placed(row[e])' /\ row'[e].mark <= ids'
    BY <1>1, <1>3, <1>5, ExecutorFacts DEF RowsInOrder, Placed
  <2>3. SupersedeHasSuccessor'
    <3>1. \A e \in Ids : row[e].mark \in Ids \cup {NoId}
      BY DEF InOrder, IInv, Typed, Attempt
    <3> QED
      BY <1>1, <1>4, <1>5, <3>1, ExecutorFacts DEF RowsInOrder, SupersedeHasSuccessor, Exists
  <2>4. RunningIsAttended'
    BY <1>1, <1>4, ExecutorFacts DEF RowsInOrder, RunningIsAttended
  <2> QED
    BY <2>1, <2>2, <2>3, <2>4 DEF RowsInOrder
<1>7. ASSUME NEW c \in Commands
      PROVE  Knows(c)'
  <2>1. cmd'[c] = cmd[c] /\ Knows(c) /\ CommandOK(cmd[c]) /\ cmd[c] \in Command
    BY <1>1, Facts
  <2>2. Reach(c)'
    BY <1>1, <2>1 DEF Knows, Reach, Inside
  <2>3. \A e : IsLatest(e) <=> IsLatest(e)'
    BY <1>5 DEF IsLatest, Present, Exists
  <2>4. Supersede(c)'
    BY <1>1, <1>5, <2>1, <2>3 DEF Knows, Supersede
  <2>5. Ending(c)'
    <3> SUFFICES ASSUME cmd[c].pc \in Writing
                 PROVE  Ending(c)'
      BY <1>1 DEF Ending
    <3>1. PICK e \in Ids : e = cmd[c].target
      BY <2>1 DEF CommandOK, Command
    <3>2. Placed(cmd[c].copy)'
      BY <1>1, <2>1 DEF Knows, Ending, Placed
    <3> QED
      BY <1>1, <1>4, <1>5, <2>1, <2>3, <3>1, <3>2 DEF Knows, Ending
  <2>6. Making(c)'
    <3>1. cmd[c].pc \in {"insert", "start", "admitted"} \/ cmd[c].new # NoId => cmd[c].new \in Ids
      BY <2>1 DEF CommandOK, Command
    <3>2. CASE cmd[c].pc = "insert"
      BY <1>1, <1>4, <2>1, <3>2 DEF Knows, Making
    <3>3. CASE cmd[c].pc = "start"
      <4>1. cmd[c].new # d
        BY <1>2, <2>1, <3>3 DEF Knows, Making
      <4> QED
        BY <1>1, <1>3, <2>1, <3>1, <3>3, <4>1 DEF Knows, Making
    <3>4. CASE cmd[c].pc = "over" /\ cmd[c].new # NoId
      BY <1>1, <1>4, <1>5, <2>1, <3>1, <3>4 DEF Knows, Making, InVain, Exists
    <3>5. CASE cmd[c].pc = "admitted"
      BY <1>1, <1>5, <2>1, <3>1, <3>5 DEF Knows, Making
    <3>6. CASE /\ cmd[c].pc \notin {"insert", "start", "admitted"}
               /\ ~(cmd[c].pc = "over" /\ cmd[c].new # NoId)
      BY <1>1, <3>6 DEF Making
    <3> QED
      BY <3>2, <3>3, <3>4, <3>5, <3>6
  <2> QED
    BY <2>2, <2>4, <2>5, <2>6 DEF Knows
<1>8. ASSUME NEW e \in Ids
      PROVE  Executing(e)'
  <2>1. Executing(e) /\ exec'[e] = exec[e]
    BY <1>1, ExecutorFacts
  <2>2. exec[e].pc = "none" => e # d
    BY <1>2
  <2>3. exec[e].pc = "none" => e \notin undone'
    BY <1>1, <2>1, <2>2 DEF Executing
  <2>4. note'[e] \subseteq note[e]
    BY <1>3
  <2>5. exec[e].pc # "none" => row'[e].status # "planned"
    BY <1>5, <2>1 DEF Executing
  <2> QED
    BY <1>5, <2>1, <2>3, <2>4, <2>5 DEF Executing
<1> QED
  BY <1>6, <1>7, <1>8 DEF OInv, Knows

LEMMA InitiallyInOrder == Init => OInv
<1> SUFFICES ASSUME Init
             PROVE  OInv
  OBVIOUS
<1>1. \A d \in Ids : /\ row[d] = Absent /\ exec[d] = NoExecutor /\ note[d] = {} /\ undone = {}
                     /\ ids = 0 /\ Absent.mark <= ids
  BY PlainAttempts DEF Init, NoId
<1>2. \A c \in Commands : cmd[c] = Unused
  BY DEF Init
<1>3. RowsInOrder
  BY <1>1, PlainAttempts, Statuses
     DEF RowsInOrder, ActiveIsLatest, Placed, SupersedeHasSuccessor, RunningIsAttended
<1>4. ASSUME NEW c \in Commands
      PROVE  Reach(c) /\ Supersede(c) /\ Ending(c) /\ Making(c)
  BY <1>2, PlainRecords DEF Reach, Supersede, Ending, Making, Inside, Writing
<1>5. \A d \in Ids : Executing(d)
  BY <1>1, PlainRecords DEF Executing
<1> QED
  BY <1>3, <1>4, <1>5 DEF OInv

LEMMA StutteringInOrder ==
  ASSUME InOrder, UNCHANGED vars
  PROVE  OInv'
<1>1. RowsInOrder'
  BY DEF vars, InOrder, OInv, RowsInOrder, ActiveIsLatest, Exists, Placed, SupersedeHasSuccessor,
         RunningIsAttended
<1>2. ASSUME NEW c \in Commands
      PROVE  Knows(c)'
  BY Facts, NoRowChanges, CalmKnows DEF vars, Knows, Reach, Making
<1>3. \A d \in Ids : Executing(d)'
  BY DEF vars, InOrder, OInv, Executing
<1> QED
  BY <1>1, <1>2, <1>3 DEF OInv, Knows

LEMMA StepsInOrder == InOrder /\ [Next]_vars => OInv'
<1> SUFFICES ASSUME InOrder, [Next]_vars
             PROVE  OInv'
  OBVIOUS
<1>1. MarksStay
  BY StepKeepsMarks, NoRowChanges DEF InOrder, vars
<1>2. ASSUME NEW c \in Commands, CommandStep(c)
      PROVE  OInv'
  BY <1>1, <1>2, AcquireInOrder, AdmitCreateInOrder, AdmitRecoveryInOrder, AdmitCancelInOrder,
     AdmitReconcileInOrder, RequestInOrder, BackendInOrder, SettleInOrder, InsertInOrder,
     StartInOrder, ReleaseInOrder DEF CommandStep
<1>3. ASSUME NEW c \in Commands, Invoke(c) \/ CrashCommand(c)
      PROVE  OInv'
  BY <1>3, InvokeInOrder DEF CrashCommand, InOrder, Orderly
<1>4. ASSUME NEW d \in Ids, ExecutorStep(d)
      PROVE  OInv'
  BY <1>4, ExecutorInOrder
<1>5. ASSUME NEW d \in Ids, ReadForNote(d) \/ WriteNote(d) \/ CrashExecutor(d)
      PROVE  OInv'
  BY <1>5, ReadInOrder, WriteInOrder DEF CrashExecutor, InOrder, Orderly
<1>6. ASSUME NEW p \in Placements
      PROVE  ~LeaseEnds(p)
  <2>1. lease[p] # None => lease[p] \in Commands
    BY DEF InOrder, IInv, Typed
  <2>2. lease[p] # None => cmd[lease[p]].pc # "crashed"
    BY <2>1, Facts DEF Knows, Reach
  <2> QED
    BY <2>2 DEF LeaseEnds, InOrder, Orderly
<1>7. CASE UNCHANGED vars
  BY <1>7, StutteringInOrder
<1> QED
  BY <1>2, <1>3, <1>4, <1>5, <1>6, <1>7 DEF Next

LEMMA AlwaysInOrder ==
  ASSUME Orderly
  PROVE  Spec => []OInv
<1>1. Init => OInv
  BY InitiallyInOrder
<1>2. IInv /\ RInv /\ OInv /\ [Next]_vars => OInv'
  BY StepsInOrder DEF InOrder
<1> QED
  BY <1>1, <1>2, AlwaysSound, AlwaysGuarded, PTL DEF Spec

(* When creates run inline, nothing fails and a resource is deployed to one*)
(* placement, an attempt that create marks as superseded is followed by the*)
(* attempt that it was marked with, or its command is still to insert it:  *)
(* the unique index and the fence never refuse a supersede in the middle   *)
(* (create-deployment.use-case.ts, under the coordination lease), unless a *)
(* late progress record has brought an older attempt back to life.  Any    *)
(* number of records may be on their way.                                  *)
THEOREM SupersedesSucceed ==
  ASSUME Orderly
  PROVE  Spec => []SupersedeHasSuccessor
<1>1. OInv => SupersedeHasSuccessor
  BY DEF OInv, RowsInOrder
<1> QED
  BY <1>1, AlwaysInOrder, PTL

-----------------------------------------------------------------------------
(* Nobody is forgotten.  When no process dies and no lease is lost, every  *)
(* active attempt that no late progress record has put back has somebody to*)
(* end it: for any number of commands, placements and records, also with   *)
(* detached creates and failing backends, except that these may leave an   *)
(* attempt cancel-requested.                                               *)
Unfailing == ~Crashes /\ ~LeaseMayBeLost
Certain == ~Detached /\ ~CancelMayFail

Begun == {"planned", "running"}

(* The command k is about to write the next status of the row r of d.      *)
Attends(k, d, r) ==
    \/ r.status = "planned" /\ k.pc = "start" /\ k.new = d
    \/ r.status = "running" /\ k.pc = "admitted" /\ k.new = d
    \/ /\ r.status = "cancel-requested" /\ k.pc \in {"backend", "settle"}
       /\ k.target = d /\ k.copy.mark = r.mark

Attended(d) == row[d].status \in Active =>
    \/ \E c \in Commands : Attends(cmd[c], d, row[d])
    \/ row[d].status = "running" /\ exec[d].pc \in AtExecutor
    \/ row[d].status = "cancel-requested" /\ ~Certain

(* An executor whose copy is not that of a running attempt has outlived it.*)
Outlived(d, x) ==
    /\ x.pc # "none" => row[d].status # "planned"
    /\ x.pc \in {"building", "deploying"} /\ x.mem.status # "running" =>
         /\ ~Certain /\ x.mem.status # "planned"
         /\ d \in undone \/ row[d].status \notin Begun
    /\ x.pc = "report" => x.mem.status \notin Begun /\ (Certain => x.mem.status \notin Active)
    /\ Certain => x.pc # "queued"

Leasing(k) ==
    \/ k.pc \in {"admit", "insert", "start", "admitted"}
    \/ k.pc \in Writing /\ k.kind # "archive"

OnItsWay(k) ==
    /\ k.pc # "crashed"
    /\ k.pc \notin {"idle", "done"} => k.placement \in Placements
    /\ k.pc \in {"wait", "admit", "insert", "start", "admitted"} => k.kind # "archive"
    /\ k.pc \in Writing => Placed(k.copy)
    /\ k.pc = "request" => k.copy.status = "cancel-requested"
    /\ k.pc = "settle" => k.copy.status \in Terminal

Leased == \A c \in Commands : Leasing(cmd[c]) => lease[cmd[c].placement] = c

(* Records are of attempts that have been started.                         *)
Noted(d) ==
    /\ exec[d].pc = "none" => note[d] = {} /\ d \notin undone
    /\ \A n \in note[d] : n.status # "planned" /\ Placed(n)

AInv ==
    /\ \A d \in Ids \ undone : Attended(d)
    /\ \A d \in Ids : /\ Outlived(d, exec[d]) /\ Noted(d)
                      /\ Placed(row[d]) /\ Placed(exec[d].mem)
    /\ \A c \in Commands : OnItsWay(cmd[c])
    /\ Leased

(* Their marks are those of the row.                                       *)
NotesFollow == \A d \in Ids : \A n \in note[d] : n.mark # NoId => n.mark = row[d].mark

Minded == Guarded /\ NotesFollow /\ AInv /\ Unfailing

LEMMA Words ==
  /\ Active = {"planned", "running", "cancel-requested"} /\ Begun = {"planned", "running"}
  /\ Terminal = {"failed", "canceled", "interrupted", "succeeded"} /\ "absent" \notin Active
  /\ Terminal \cap Active = {} /\ AtExecutor = {"queued", "building", "deploying", "report"}
  BY DEF Active, Begun, Terminal, Recoverable, AtExecutor

(* A step of one command, which may write a row that has no executor, one  *)
(* of which it is not the one to attend to, or one that it ends.           *)
LEMMA CommandMinds ==
  ASSUME Minded, NEW c \in Commands, NEW k, cmd' = [cmd EXCEPT ![c] = k], UNCHANGED <<exec, note, undone>>,
         OnItsWay(k), Leasing(k) => lease'[k.placement] = c,
         \A b \in Commands \ {c} : Leasing(cmd[b]) => lease'[cmd[b].placement] = lease[cmd[b].placement],
         \A d \in Ids : row'[d] = row[d] \/ Placed(row'[d]),
         \A d \in Ids :
            \/ row'[d] = row[d] /\ (Attends(cmd[c], d, row[d]) =>
                                       \/ Attends(k, d, row[d])
                                       \/ row[d].status = "cancel-requested" /\ ~Certain)
            \/ row'[d].status \notin Active
            \/ Attends(k, d, row'[d]) /\ (row'[d].status \in Begun => exec[d].pc = "none")
  PROVE  AInv'
<1>1. cmd'[c] = k /\ \A b \in Commands \ {c} : cmd'[b] = cmd[b]
  BY GuardedFacts DEF Minded
<1>2. ASSUME NEW d \in Ids \ undone
      PROVE  Attended(d)'
  <2>1. CASE row'[d] = row[d] /\ (Attends(cmd[c], d, row[d]) =>
                                       \/ Attends(k, d, row[d])
                                       \/ row[d].status = "cancel-requested" /\ ~Certain)
    <3>1. Attended(d)
      BY DEF Minded, AInv
    <3>2. \A b \in Commands : Attends(cmd[b], d, row[d]) =>
             \/ Attends(cmd'[b], d, row[d])
             \/ row[d].status = "cancel-requested" /\ ~Certain
      BY <1>1, <2>1
    <3> HIDE DEF Attends
    <3> QED
      BY <2>1, <3>1, <3>2 DEF Attended
  <2>2. CASE row'[d].status \notin Active
    BY <2>2 DEF Attended
  <2>3. CASE Attends(k, d, row'[d])
    BY <1>1, <2>3 DEF Attended
  <2> QED
    BY <2>1, <2>2, <2>3
<1>3. ASSUME NEW d \in Ids
      PROVE  Outlived(d, exec[d])' /\ Noted(d)' /\ Placed(row'[d]) /\ Placed(exec'[d].mem)
  <2>1. Outlived(d, exec[d]) /\ Noted(d) /\ Placed(row[d]) /\ Placed(exec[d].mem)
    BY DEF Minded, AInv
  <2>2. row'[d] = row[d] \/ row'[d].status \notin Begun \/ exec[d].pc = "none"
    BY DEF Active, Begun
  <2> QED
    BY <2>1, <2>2 DEF Outlived, Noted, Begun
<1>4. \A b \in Commands : OnItsWay(cmd'[b])
  BY <1>1 DEF Minded, AInv
<1>5. Leased'
  <2> SUFFICES ASSUME NEW b \in Commands, Leasing(cmd'[b])
               PROVE  lease'[cmd'[b].placement] = b
    BY DEF Leased, Leasing
  <2> QED
    BY <1>1 DEF Minded, AInv, Leased
<1> QED
  BY <1>2, <1>3, <1>4, <1>5 DEF AInv, OnItsWay, Placed

(* The lease stays, and so do the rows: the command was not the one to     *)
(* attend to anything, or still is.                                        *)
LEMMA QuietMinds ==
  ASSUME Minded, NEW c \in Commands, NEW k, cmd' = [cmd EXCEPT ![c] = k],
         UNCHANGED <<row, lease, exec, note, undone>>, OnItsWay(k), Leasing(k) => lease[k.placement] = c,
         \/ cmd[c].pc \notin {"start", "admitted", "backend", "settle"}
         \/ \A d \in Ids : Attends(cmd[c], d, row[d]) =>
               \/ Attends(k, d, row[d])
               \/ row[d].status = "cancel-requested" /\ ~Certain
  PROVE  AInv'
<1>1. \A d \in Ids : Attends(cmd[c], d, row[d]) =>
               \/ Attends(k, d, row[d])
               \/ row[d].status = "cancel-requested" /\ ~Certain
  BY DEF Attends
<1> HIDE DEF Attends
<1> QED
  BY <1>1, CommandMinds

LEMMA MindedFacts ==
  ASSUME Minded, NEW c \in Commands
  PROVE  /\ OnItsWay(cmd[c]) /\ CommandOK(cmd[c]) /\ cmd[c] \in Command
         /\ Leasing(cmd[c]) => lease[cmd[c].placement] = c
         /\ cmd[c].new # NoId => cmd[c].new \in Ids /\ exec[cmd[c].new].pc = "none"
         /\ cmd[c].target # NoId => cmd[c].target \in Ids
         /\ cmd \in [Commands -> Command] /\ lease \in [Placements -> Commands \cup {None}]
         /\ row \in [Ids -> Attempt] /\ \A d \in Ids : Placed(row[d])
  BY GuardedFacts DEF Minded, AInv, Leased, Guarded, RInv, NewIsFresh, IInv, Typed

(* A command that gives up.                                                *)
LEMMA GivesUpMinds ==
  ASSUME Minded, NEW c \in Commands, Goto(c, "over"), cmd[c].pc \notin {"idle", "done"},
         UNCHANGED <<row, lease, exec, note, undone>>,
         \A d \in Ids : Attends(cmd[c], d, row[d]) => row[d].status = "cancel-requested" /\ ~Certain
  PROVE  AInv'
<1>1. PICK k : k = [cmd[c] EXCEPT !.pc = "over"]
  OBVIOUS
<1>2. /\ cmd' = [cmd EXCEPT ![c] = k] /\ k.pc = "over" /\ k.placement = cmd[c].placement
  BY <1>1, MindedFacts DEF Goto, Command
<1>3. OnItsWay(k) /\ ~Leasing(k)
  BY <1>2, MindedFacts DEF OnItsWay, Leasing, Writing
<1> HIDE DEF Attends
<1> QED
  BY <1>2, <1>3, QuietMinds

LEMMA InvokeMinds ==
  ASSUME Minded, NEW c \in Commands, Invoke(c)
  PROVE  AInv'
<1>1. ASSUME NEW d, NEW p \in Placements, NEW kind, NEW step, Begin(c, kind, step, d, p),
             \/ step = "wait" /\ kind # "archive"
             \/ /\ step = "settle" /\ kind = "archive" /\ d # NoId /\ row[d].status \in Terminal
                /\ Placed(row[d])
      PROVE  AInv'
  <2>1. PICK k : k = [Unused EXCEPT !.pc = step, !.kind = kind, !.target = d, !.placement = p,
                                    !.copy = IF d = NoId THEN Absent ELSE row[d]]
    OBVIOUS
  <2>2. /\ cmd' = [cmd EXCEPT ![c] = k] /\ UNCHANGED <<row, lease, exec, note, undone>>
        /\ cmd[c].pc = "idle"
    BY <1>1, <2>1 DEF Begin
  <2>3. k.pc = step /\ k.kind = kind /\ k.placement = p /\ (d # NoId => k.copy = row[d])
    BY <2>1 DEF Unused
  <2>4. OnItsWay(k) /\ ~Leasing(k)
    BY <1>1, <2>3 DEF OnItsWay, Leasing, Writing
  <2> QED
    BY <2>2, <2>4, QuietMinds
<1>2. CASE BeginCreate(c)
  BY <1>1, <1>2 DEF BeginCreate
<1>3. ASSUME NEW d \in Present
      PROVE  d \in Ids /\ row[d].placement \in Placements /\ Placed(row[d]) /\ d # NoId
  BY MindedFacts, NumberOfIds DEF Present, Placed, NoId
<1>4. CASE BeginRecovery(c) \/ BeginEnding(c)
  BY <1>1, <1>3, <1>4 DEF BeginRecovery, BeginEnding
<1>5. CASE BeginArchive(c)
  BY <1>1, <1>3, <1>5 DEF BeginArchive
<1> QED
  BY <1>2, <1>4, <1>5 DEF Invoke

LEMMA AcquireMinds ==
  ASSUME Minded, NEW c \in Commands, Acquire(c)
  PROVE  AInv'
<1>1. PICK k : k = [cmd[c] EXCEPT !.pc = "admit"]
  OBVIOUS
<1>2. /\ cmd' = [cmd EXCEPT ![c] = k] /\ k.pc = "admit" /\ k.kind = cmd[c].kind
      /\ k.placement = cmd[c].placement
  BY <1>1, MindedFacts DEF Acquire, Goto, Command
<1>3. cmd[c].pc = "wait" /\ UNCHANGED <<row, exec, note, undone>>
      /\ lease[k.placement] = None /\ lease' = [lease EXCEPT ![k.placement] = c]
  BY <1>2 DEF Acquire
<1>4. k.placement \in Placements /\ k.kind # "archive"
  BY <1>2, <1>3, MindedFacts DEF OnItsWay
<1>5. OnItsWay(k) /\ lease'[k.placement] = c
  BY <1>2, <1>3, <1>4, MindedFacts DEF OnItsWay, Writing
<1>6. ASSUME NEW b \in Commands \ {c}, Leasing(cmd[b])
      PROVE  lease'[cmd[b].placement] = lease[cmd[b].placement]
  <2>1. lease[cmd[b].placement] = b /\ b # None /\ cmd[b].placement \in Placements
    BY <1>6, MindedFacts, DeploymentsAssumption DEF OnItsWay, Leasing, Writing
  <2> QED
    BY <1>3, <1>4, <2>1, MindedFacts
<1>7. \A d \in Ids : ~Attends(cmd[c], d, row[d])
  BY <1>3 DEF Attends
<1> HIDE DEF Attends
<1> QED
  BY <1>2, <1>3, <1>5, <1>6, <1>7, CommandMinds

LEMMA AdmitMinds ==
  ASSUME Minded, NEW c \in Commands,
         AdmitCreate(c) \/ AdmitRecovery(c) \/ AdmitCancel(c) \/ AdmitReconcile(c)
  PROVE  AInv'
<1>1. cmd[c].pc = "admit" /\ UNCHANGED <<row, lease, exec, note, undone>>
  BY DEF AdmitCreate, AdmitRecovery, AdmitCancel, AdmitReconcile, Admitting
<1>2. cmd[c].kind # "archive" /\ lease[cmd[c].placement] = c /\ cmd[c].placement \in Placements
  BY <1>1, MindedFacts DEF OnItsWay, Leasing
<1>3. ASSUME NEW k, cmd' = [cmd EXCEPT ![c] = k], k.kind = cmd[c].kind,
             k.placement = cmd[c].placement, k.pc \in {"insert"} \cup Writing,
             k.pc = "request" => k.copy.status = "cancel-requested",
             k.pc = "settle" => k.copy.status \in Terminal,
             k.pc \in Writing => Placed(k.copy)
      PROVE  AInv'
  <2>1. OnItsWay(k)
    BY <1>2, <1>3 DEF OnItsWay, Writing
  <2> QED
    BY <1>1, <1>2, <1>3, <2>1, QuietMinds
<1>4. CASE cmd' = [cmd EXCEPT ![c].pc = "insert", ![c].new = ids + 1]
  <2>1. PICK k : k = [cmd[c] EXCEPT !.pc = "insert", !.new = ids + 1]
    OBVIOUS
  <2>2. /\ cmd' = [cmd EXCEPT ![c] = k] /\ k.pc = "insert" /\ k.kind = cmd[c].kind
        /\ k.placement = cmd[c].placement
    BY <1>4, <2>1, MindedFacts DEF Command
  <2> QED
    BY <1>3, <2>2 DEF Writing
<1>5. ASSUME NEW d \in Ids, NEW runs \in BOOLEAN, NEW m,
             m = [row[d] EXCEPT !.mark = ids + 1,
                    !.status = IF runs THEN "cancel-requested" ELSE "canceled"],
             row[d].status \in Active,
             cmd' = [cmd EXCEPT ![c] = [@ EXCEPT !.pc = IF runs THEN "request" ELSE "settle",
                                                 !.new = ids + 1, !.target = d, !.copy = m]]
      PROVE  AInv'
  <2>1. PICK k : k = [cmd[c] EXCEPT !.pc = IF runs THEN "request" ELSE "settle",
                                    !.new = ids + 1, !.target = d, !.copy = m]
    OBVIOUS
  <2>2. /\ cmd' = [cmd EXCEPT ![c] = k] /\ k.pc = (IF runs THEN "request" ELSE "settle")
        /\ k.kind = cmd[c].kind /\ k.placement = cmd[c].placement /\ k.copy = m
    BY <1>5, <2>1, MindedFacts DEF Command
  <2>3. /\ m.status = (IF runs THEN "cancel-requested" ELSE "canceled")
        /\ m.placement = row[d].placement
    BY <1>5, MindedFacts DEF Attempt
  <2>4. Placed(m)
    BY <1>5, <2>3, MindedFacts DEF Placed, Active
  <2> QED
    BY <1>3, <2>2, <2>3, <2>4 DEF Writing, Terminal, Recoverable
<1>6. ASSUME NEW step \in Writing, NEW s, cmd[c].kind \in {"cancel", "reconcile"},
             step = "request" => s = "cancel-requested", step = "settle" => s \in Terminal,
             cmd' = [cmd EXCEPT ![c].pc = step, ![c].copy = [row[cmd[c].target] EXCEPT !.status = s]]
      PROVE  AInv'
  <2>1. PICK d \in Ids : d = cmd[c].target /\ Exists(d)
    BY <1>6, MindedFacts DEF CommandOK
  <2>2. PICK m : m = [row[d] EXCEPT !.status = s]
    OBVIOUS
  <2>3. m.status = s /\ m.placement \in Placements
    BY <2>1, <2>2, MindedFacts DEF Attempt, Placed, Exists
  <2>4. PICK k : k = [cmd[c] EXCEPT !.pc = step, !.copy = m]
    OBVIOUS
  <2>5. /\ cmd' = [cmd EXCEPT ![c] = k] /\ k.pc = step /\ k.kind = cmd[c].kind
        /\ k.placement = cmd[c].placement /\ k.copy = m
    BY <1>6, <2>1, <2>2, <2>4, MindedFacts DEF Command
  <2> QED
    BY <1>3, <1>6, <2>3, <2>5 DEF Placed
<1>7. CASE Goto(c, "over")
  BY <1>1, <1>7, GivesUpMinds DEF Attends
<1>8. CASE AdmitCreate(c)
  <2>1. CASE \E d \in Ids :
               LET runs == row[d].status = "running"
                   copy == [row[d] EXCEPT !.mark = ids + 1,
                              !.status = IF runs THEN "cancel-requested" ELSE "canceled"]
               IN /\ IsLatest(d) /\ row[d].status \in Active
                  /\ cmd' = [cmd EXCEPT ![c] = [@ EXCEPT !.pc = IF runs THEN "request" ELSE "settle",
                                                         !.new = ids + 1, !.target = d,
                                                         !.copy = copy]]
    <3>1. PICK d, runs, m :
            /\ d \in Ids /\ runs \in BOOLEAN /\ row[d].status \in Active
            /\ m = [row[d] EXCEPT !.mark = ids + 1,
                      !.status = IF runs THEN "cancel-requested" ELSE "canceled"]
            /\ cmd' = [cmd EXCEPT ![c] = [@ EXCEPT !.pc = IF runs THEN "request" ELSE "settle",
                                                   !.new = ids + 1, !.target = d, !.copy = m]]
      BY <2>1
    <3> QED
      BY <1>5, <3>1
  <2> QED
    BY <1>4, <1>8, <2>1 DEF AdmitCreate
<1>9. CASE AdmitRecovery(c)
  BY <1>4, <1>7, <1>9 DEF AdmitRecovery
<1>10. CASE AdmitCancel(c)
  <2>1. cmd[c].kind = "cancel" /\ "canceled" \in Terminal
    BY <1>10 DEF AdmitCancel, Admitting, Terminal, Recoverable
  <2> QED
    BY <1>6, <1>7, <1>10, <2>1, SMTT(30) DEF AdmitCancel, Writing
<1>11. CASE AdmitReconcile(c)
  <2>1. cmd[c].kind = "reconcile" /\ "interrupted" \in Terminal
    BY <1>11 DEF AdmitReconcile, Admitting, Terminal, Recoverable
  <2> QED
    BY <1>6, <1>7, <1>11, <2>1, SMTT(30) DEF AdmitReconcile, Writing
<1> QED
  BY <1>8, <1>9, <1>10, <1>11

(* The writes of supersede, cancel, reconcile and archive.                 *)
LEMMA RequestMinds ==
  ASSUME Minded, NEW c \in Commands, Request(c)
  PROVE  AInv'
<1>1. cmd[c].pc = "request" /\ UNCHANGED <<lease, exec, note, undone>>
  BY DEF Request
<1>2. PICK d \in Ids : d = cmd[c].target
  BY <1>1, MindedFacts DEF CommandOK, Writing
<1>3. PICK m : m = cmd[c].copy
  OBVIOUS
<1>4. m.status = "cancel-requested" /\ Placed(m)
  BY <1>1, <1>3, MindedFacts DEF OnItsWay, Writing
<1>5. \A e \in Ids : ~Attends(cmd[c], e, row[e])
  BY <1>1 DEF Attends
<1>6. CASE Save(d, m) /\ Goto(c, "backend")
  <2>1. PICK k : k = [cmd[c] EXCEPT !.pc = "backend"]
    OBVIOUS
  <2>2. /\ cmd' = [cmd EXCEPT ![c] = k] /\ k.pc = "backend" /\ k.placement = cmd[c].placement
        /\ k.kind = cmd[c].kind /\ k.target = d /\ k.copy = m
    BY <1>2, <1>3, <1>6, <2>1, MindedFacts DEF Goto, Command
  <2>3. row'[d] = m /\ \A e \in Ids \ {d} : row'[e] = row[e]
    BY <1>6, MindedFacts DEF Save
  <2>4. OnItsWay(k) /\ (Leasing(k) => lease'[k.placement] = c)
    BY <1>1, <1>4, <2>2, MindedFacts DEF OnItsWay, Leasing, Writing
  <2>5. Attends(k, d, row'[d]) /\ m.status \notin Begun
    BY <1>4, <2>2, <2>3 DEF Attends, Begun
  <2> HIDE DEF Attends
  <2> QED
    BY <1>1, <1>4, <1>5, <2>2, <2>3, <2>4, <2>5, CommandMinds
<1>7. CASE UNCHANGED row /\ Goto(c, "over")
  BY <1>1, <1>5, <1>7, GivesUpMinds
<1> QED
  BY <1>2, <1>3, <1>6, <1>7 DEF Request

LEMMA SettleMinds ==
  ASSUME Minded, NEW c \in Commands, Settle(c)
  PROVE  AInv'
<1>1. cmd[c].pc = "settle" /\ UNCHANGED <<lease, exec, note, undone>>
  BY DEF Settle
<1>2. PICK d \in Ids : d = cmd[c].target
  BY <1>1, MindedFacts DEF CommandOK, Writing
<1>3. PICK m : m = IF cmd[c].kind = "archive" THEN [cmd[c].copy EXCEPT !.archived = TRUE]
                                              ELSE cmd[c].copy
  OBVIOUS
<1>4. m.status \in Terminal /\ Placed(m) /\ m.mark = cmd[c].copy.mark
  BY <1>1, <1>3, MindedFacts DEF OnItsWay, Writing, Command, Attempt, Placed
<1>5. \A e \in Ids \ {d} : ~Attends(cmd[c], e, row[e])
  BY <1>1, <1>2 DEF Attends
<1>6. CASE Save(d, m) /\ Goto(c, IF cmd[c].kind = "create" THEN "insert" ELSE "over")
  <2>1. PICK k : k = [cmd[c] EXCEPT !.pc = IF cmd[c].kind = "create" THEN "insert" ELSE "over"]
    OBVIOUS
  <2>2. /\ cmd' = [cmd EXCEPT ![c] = k] /\ k.placement = cmd[c].placement
        /\ k.pc = (IF cmd[c].kind = "create" THEN "insert" ELSE "over") /\ k.kind = cmd[c].kind
    BY <1>6, <2>1, MindedFacts DEF Goto, Command
  <2>3. row'[d] = m /\ \A e \in Ids \ {d} : row'[e] = row[e]
    BY <1>6, MindedFacts DEF Save
  <2>4. OnItsWay(k) /\ (Leasing(k) => lease'[k.placement] = c)
    BY <1>1, <2>2, MindedFacts DEF OnItsWay, Leasing, Writing
  <2>5. row'[d].status \notin Active
    BY <1>4, <2>3, Words
  <2> HIDE DEF Attends
  <2> QED
    BY <1>1, <1>4, <1>5, <2>2, <2>3, <2>4, <2>5, CommandMinds
<1>7. CASE ~Writable(d, m) /\ UNCHANGED row /\ Goto(c, "over")
  <2>1. row[d].mark # cmd[c].copy.mark
    BY <1>4, <1>7, Words DEF Writable, Clash, Fenced
  <2>2. ~Attends(cmd[c], d, row[d])
    BY <1>1, <2>1 DEF Attends
  <2> HIDE DEF Attends
  <2> QED
    BY <1>1, <1>5, <1>7, <2>2, GivesUpMinds
<1> QED
  BY <1>2, <1>3, <1>6, <1>7 DEF Settle

LEMMA BackendMinds ==
  ASSUME Minded, NEW c \in Commands, BackendCancel(c)
  PROVE  AInv'
<1>1. cmd[c].pc = "backend" /\ UNCHANGED <<row, lease, exec, note, undone>>
  BY DEF BackendCancel
<1>2. ASSUME NEW s \in {"interrupted", "canceled"},
             cmd' = [cmd EXCEPT ![c].pc = "settle", ![c].copy.status = s]
      PROVE  AInv'
  <2>1. PICK m : m = [cmd[c].copy EXCEPT !.status = s]
    OBVIOUS
  <2>2. PICK k : k = [cmd[c] EXCEPT !.pc = "settle", !.copy = m]
    OBVIOUS
  <2>3. /\ m.status = s /\ m.mark = cmd[c].copy.mark /\ m.placement = cmd[c].copy.placement
        /\ cmd[c].copy.status # "absent"
    BY <1>1, <2>1, MindedFacts DEF Command, Attempt, CommandOK, Writing
  <2>4. /\ cmd' = [cmd EXCEPT ![c] = k] /\ k.pc = "settle" /\ k.kind = cmd[c].kind
        /\ k.placement = cmd[c].placement /\ k.target = cmd[c].target /\ k.copy = m
    BY <1>2, <2>1, <2>2, MindedFacts DEF Command
  <2>5. s \in Terminal /\ Placed(m)
    BY <1>1, <2>3, MindedFacts, Words DEF OnItsWay, Writing, Placed
  <2>6. OnItsWay(k) /\ (Leasing(k) => lease[k.placement] = c)
    BY <1>1, <2>3, <2>4, <2>5, MindedFacts DEF OnItsWay, Leasing, Writing
  <2>7. \A d \in Ids : Attends(cmd[c], d, row[d]) => Attends(k, d, row[d])
    BY <1>1, <2>3, <2>4 DEF Attends
  <2> HIDE DEF Attends
  <2> QED
    BY <1>1, <2>4, <2>6, <2>7, QuietMinds
<1>3. CASE CancelMayFail /\ Goto(c, "over")
  <2>1. \A d \in Ids : Attends(cmd[c], d, row[d]) => row[d].status = "cancel-requested" /\ ~Certain
    BY <1>1, <1>3 DEF Attends, Certain
  <2> HIDE DEF Attends
  <2> QED
    BY <1>1, <1>3, <2>1, GivesUpMinds
<1> QED
  BY <1>2, <1>3 DEF BackendCancel

(* The attempt of the command.                                             *)
LEMMA InsertMinds ==
  ASSUME Minded, NEW c \in Commands, Insert(c)
  PROVE  AInv'
<1>1. cmd[c].pc = "insert" /\ UNCHANGED <<lease, exec, note, undone>>
  BY DEF Insert
<1> DEFINE d == cmd[c].new
           m == Planned(cmd[c].placement)
<1>2. d \in Ids /\ exec[d].pc = "none"
  BY <1>1, MindedFacts DEF CommandOK
<1>3. m.status = "planned" /\ Placed(m)
  BY <1>1, MindedFacts DEF Planned, Placed, OnItsWay
<1>8. \/ row' = [row EXCEPT ![d] = m] /\ Goto(c, "start")
      \/ UNCHANGED row /\ Goto(c, "over")
  BY DEF Insert
<1> HIDE DEF m
<1>4. \A e \in Ids : ~Attends(cmd[c], e, row[e])
  BY <1>1 DEF Attends
<1>5. CASE row' = [row EXCEPT ![d] = m] /\ Goto(c, "start")
  <2>1. PICK k : k = [cmd[c] EXCEPT !.pc = "start"]
    OBVIOUS
  <2>2. /\ cmd' = [cmd EXCEPT ![c] = k] /\ k.pc = "start" /\ k.placement = cmd[c].placement
        /\ k.kind = cmd[c].kind /\ k.new = d
    BY <1>2, <1>5, <2>1, MindedFacts DEF Goto, Command
  <2>3. row'[d] = m /\ \A e \in Ids \ {d} : row'[e] = row[e]
    BY <1>2, <1>5, MindedFacts
  <2>4. OnItsWay(k) /\ (Leasing(k) => lease'[k.placement] = c)
    BY <1>1, <2>2, MindedFacts DEF OnItsWay, Leasing, Writing
  <2>5. Attends(k, d, row'[d])
    BY <1>3, <2>2, <2>3 DEF Attends
  <2> HIDE DEF Attends
  <2> QED
    BY <1>1, <1>2, <1>3, <1>4, <2>2, <2>3, <2>4, <2>5, CommandMinds
<1>6. CASE UNCHANGED row /\ Goto(c, "over")
  BY <1>1, <1>4, <1>6, GivesUpMinds
<1> QED
  BY <1>5, <1>6, <1>8

LEMMA StartMinds ==
  ASSUME Minded, NEW c \in Commands, Start(c)
  PROVE  AInv'
<1>1. cmd[c].pc = "start" /\ UNCHANGED <<lease, exec, note, undone>>
  BY DEF Start
<1> DEFINE d == cmd[c].new
           m == Started(c)
<1>2. d \in Ids /\ exec[d].pc = "none"
  BY <1>1, MindedFacts DEF CommandOK
<1>3. m.status = "running" /\ Placed(m)
  BY <1>1, MindedFacts DEF Started, Planned, Placed, OnItsWay
<1>8. \/ Save(d, m) /\ Goto(c, "admitted")
      \/ /\ ~Writable(d, m) /\ UNCHANGED row
         /\ Goto(c, "admitted") \/ Goto(c, "over")
  BY DEF Start
<1> HIDE DEF m
<1>4. \A e \in Ids \ {d} : ~Attends(cmd[c], e, row[e])
  BY <1>1, <1>2 DEF Attends
<1>5. CASE Save(d, m) /\ Goto(c, "admitted")
  <2>1. PICK k : k = [cmd[c] EXCEPT !.pc = "admitted"]
    OBVIOUS
  <2>2. /\ cmd' = [cmd EXCEPT ![c] = k] /\ k.pc = "admitted" /\ k.placement = cmd[c].placement
        /\ k.kind = cmd[c].kind /\ k.new = d
    BY <1>2, <1>5, <2>1, MindedFacts DEF Goto, Command
  <2>3. row'[d] = m /\ \A e \in Ids \ {d} : row'[e] = row[e]
    BY <1>2, <1>5, MindedFacts DEF Save
  <2>4. OnItsWay(k) /\ (Leasing(k) => lease'[k.placement] = c)
    BY <1>1, <2>2, MindedFacts DEF OnItsWay, Leasing, Writing
  <2>5. Attends(k, d, row'[d])
    BY <1>3, <2>2, <2>3 DEF Attends
  <2> HIDE DEF Attends
  <2> QED
    BY <1>1, <1>2, <1>3, <1>4, <2>2, <2>3, <2>4, <2>5, CommandMinds
<1>6. ASSUME ~Writable(d, m), UNCHANGED row, NEW step \in {"admitted", "over"}, Goto(c, step)
      PROVE  AInv'
  <2>1. row[d].status # "planned"
    <3>1. CASE Fenced(d, m)
      BY <1>2, <3>1 DEF Fenced, Minded, Guarded, IInv, RowsOK, Sound
    <3>2. CASE Clash(d, m)
      BY <1>2, <3>2, Words DEF Clash, Minded, Guarded, RInv, OneIsActive
    <3> QED
      BY <1>6, <3>1, <3>2 DEF Writable
  <2>2. \A e \in Ids : ~Attends(cmd[c], e, row[e])
    BY <1>1, <1>4, <2>1 DEF Attends
  <2>3. PICK k : k = [cmd[c] EXCEPT !.pc = step]
    OBVIOUS
  <2>4. /\ cmd' = [cmd EXCEPT ![c] = k] /\ k.pc = step /\ k.placement = cmd[c].placement
        /\ k.kind = cmd[c].kind
    BY <1>6, <2>3, MindedFacts DEF Goto, Command
  <2>5. OnItsWay(k) /\ (Leasing(k) => lease[k.placement] = c)
    BY <1>1, <2>4, MindedFacts DEF OnItsWay, Leasing, Writing
  <2> HIDE DEF Attends
  <2> QED
    BY <1>1, <1>6, <2>2, <2>4, <2>5, QuietMinds
<1> QED
  BY <1>5, <1>6, <1>8

(* The lease ends; an attempt that was admitted has its executor from then.*)
LEMMA ReleaseMinds ==
  ASSUME Minded, NEW c \in Commands, Release(c)
  PROVE  AInv'
<1>1. /\ cmd[c].pc \in {"admitted", "over"} /\ cmd' = [cmd EXCEPT ![c] = Ended]
      /\ UNCHANGED <<row, note, undone>>
      /\ lease' = [p \in Placements |-> IF lease[p] = c THEN None ELSE lease[p]]
  BY DEF Release
<1>2. PICK k : k = Ended
  OBVIOUS
<1>3. k.pc = "done" /\ OnItsWay(k) /\ ~Leasing(k)
  BY <1>2 DEF Ended, Unused, OnItsWay, Leasing, Writing
<1>4. ASSUME NEW b \in Commands \ {c}, Leasing(cmd[b])
      PROVE  lease'[cmd[b].placement] = lease[cmd[b].placement]
  <2>1. lease[cmd[b].placement] = b /\ cmd[b].placement \in Placements
    BY <1>4, MindedFacts DEF OnItsWay, Leasing, Writing
  <2> QED
    BY <1>1, <2>1
<1>5. CASE UNCHANGED exec /\ (cmd[c].pc = "over" \/ ~Holds(c))
  <2>1. cmd[c].pc = "over"
    BY <1>1, <1>5, MindedFacts DEF Holds, Leasing
  <2>2. \A e \in Ids : ~Attends(cmd[c], e, row[e])
    BY <2>1 DEF Attends
  <2> HIDE DEF Attends
  <2> QED
    BY <1>1, <1>2, <1>3, <1>4, <1>5, <2>2, CommandMinds
<1>6. ASSUME cmd[c].pc = "admitted", NEW x, exec' = [exec EXCEPT ![cmd[c].new] = x], Placed(x.mem),
             \/ x.pc = "building" /\ x.mem.status = "running"
             \/ x.pc = "queued" /\ Detached
      PROVE  AInv'
  <2>1. PICK d \in Ids : d = cmd[c].new /\ d # NoId /\ exec[d].pc = "none" /\ d \notin undone
    BY <1>6, MindedFacts DEF CommandOK, Minded, AInv, Noted
  <2>2. exec'[d] = x /\ \A e \in Ids \ {d} : exec'[e] = exec[e]
    BY <1>6, <2>1, GuardedFacts DEF Minded
  <2>3. cmd'[c] = k /\ \A b \in Commands \ {c} : cmd'[b] = cmd[b]
    BY <1>1, <1>2, MindedFacts
  <2>4. \A b \in Commands : b # c => cmd[b].new # d
    BY <2>1 DEF Minded, Guarded, IInv, NoIdTwice
  <2>5. \A e \in Ids : /\ e \in undone \/ Attended(e)
                       /\ Outlived(e, exec[e]) /\ Noted(e)
                       /\ Placed(row[e]) /\ Placed(exec[e].mem)
    BY DEF Minded, AInv
  <2>6. row[d].status # "planned"
    <3>1. \A b \in Commands : ~(cmd[b].pc = "start" /\ cmd[b].new = d)
      BY <1>6, <2>4
    <3> QED
      BY <2>1, <2>5, <3>1, Words DEF Attended, Attends
  <2>7. ASSUME NEW e \in Ids \ undone
        PROVE  Attended(e)'
    <3>1. CASE e = d /\ row[d].status = "running"
      BY <1>1, <1>6, <2>2, <3>1, Words DEF Attended
    <3>2. CASE ~(e = d /\ row[d].status = "running")
      <4>1. ~Attends(cmd[c], e, row[e])
        BY <1>6, <2>1, <3>2 DEF Attends
      <4>2. row[e].status = "running" => exec'[e] = exec[e]
        BY <2>2, <3>2
      <4> HIDE DEF Attends
      <4> QED
        BY <1>1, <2>3, <2>5, <4>1, <4>2 DEF Attended
    <3> QED
      BY <3>1, <3>2
  <2>8. ASSUME NEW e \in Ids
        PROVE  Outlived(e, exec[e])' /\ Noted(e)' /\ Placed(row'[e]) /\ Placed(exec'[e].mem)
    <3>1. CASE e = d
      BY <1>1, <1>6, <2>2, <2>5, <2>6, <3>1 DEF Outlived, Noted, Certain
    <3>2. CASE e # d
      BY <1>1, <2>2, <2>5, <3>2 DEF Outlived, Noted
    <3> QED
      BY <3>1, <3>2
  <2>9. \A b \in Commands : OnItsWay(cmd'[b])
    BY <1>3, <2>3, MindedFacts
  <2>10. ASSUME NEW b \in Commands, Leasing(cmd'[b])
         PROVE  lease'[cmd'[b].placement] = b
    BY <1>3, <1>4, <2>3, <2>10, MindedFacts
  <2> QED
    BY <1>1, <2>7, <2>8, <2>9, <2>10 DEF AInv, OnItsWay, Placed, Leased, Leasing
<1>7. CASE cmd[c].pc = "admitted" /\ Launch(c)
  <2>1. PICK kind \in ExecutionKinds :
          exec' = [exec EXCEPT ![cmd[c].new] =
                     [pc |-> "building", kind |-> kind, mem |-> Started(c),
                      by |-> IF cmd[c].kind = "create" THEN "create" ELSE "recovery"]]
    BY <1>7 DEF Launch
  <2> DEFINE x == [pc |-> "building", kind |-> kind, mem |-> Started(c),
                   by |-> IF cmd[c].kind = "create" THEN "create" ELSE "recovery"]
  <2>2. x.pc = "building" /\ x.mem = Started(c)
    OBVIOUS
  <2>3. x.mem.status = "running" /\ Placed(x.mem)
    BY <1>7, <2>2, MindedFacts DEF Started, Planned, Placed, OnItsWay
  <2>4. exec' = [exec EXCEPT ![cmd[c].new] = x]
    BY <2>1
  <2> HIDE DEF x
  <2> QED
    BY <1>6, <1>7, <2>2, <2>3, <2>4
<1>8. CASE Detached /\ cmd[c].pc = "admitted" /\ Enqueue(c)
  <2>1. PICK kind \in ExecutionKinds :
          exec' = [exec EXCEPT ![cmd[c].new] =
                     [NoExecutor EXCEPT !.pc = "queued", !.kind = kind, !.by = "queue"]]
    BY <1>8 DEF Enqueue
  <2> DEFINE x == [NoExecutor EXCEPT !.pc = "queued", !.kind = kind, !.by = "queue"]
  <2>2. x.pc = "queued" /\ x.mem = Absent
    BY DEF NoExecutor
  <2>3. Placed(x.mem)
    BY <2>2, PlainAttempts DEF Placed
  <2>4. exec' = [exec EXCEPT ![cmd[c].new] = x]
    BY <2>1
  <2> HIDE DEF x
  <2> QED
    BY <1>6, <1>8, <2>2, <2>3, <2>4
<1> QED
  BY <1>5, <1>7, <1>8 DEF Release

-----------------------------------------------------------------------------
(* A step of an executor.  It leaves the row, or ends the attempt; what it *)
(* leaves running it goes on with.                                         *)
LEMMA ExecutorMinds ==
  ASSUME Minded, NEW d \in Ids, UNCHANGED <<lease, cmd, note, undone>>, exec[d].pc # "none",
         NEW x, exec' = [exec EXCEPT ![d] = x], Placed(x.mem), x.pc # "none",
         NEW m, row' = [row EXCEPT ![d] = m], Placed(m),
         m = row[d] \/ (m.status \notin Begun /\ (m.status \in Active => ~Certain)),
         d \in undone \/ (m.status = "running" => x.pc \in AtExecutor),
         x.pc \in {"building", "deploying"} /\ x.mem.status # "running" =>
           /\ ~Certain /\ x.mem.status # "planned"
           /\ d \in undone \/ m.status \notin Begun,
         x.pc = "report" => x.mem.status \notin Begun /\ (Certain => x.mem.status \notin Active),
         Certain => x.pc # "queued"
  PROVE  AInv'
<1>1. /\ exec'[d] = x /\ \A e \in Ids \ {d} : exec'[e] = exec[e]
      /\ row'[d] = m /\ \A e \in Ids \ {d} : row'[e] = row[e]
  BY GuardedFacts DEF Minded
<1>2. \A e \in Ids : /\ e \in undone \/ Attended(e)
                     /\ Outlived(e, exec[e]) /\ Noted(e)
                     /\ Placed(row[e]) /\ Placed(exec[e].mem)
  BY DEF Minded, AInv
<1>3. ASSUME NEW e \in Ids \ undone
      PROVE  Attended(e)'
  <2>1. CASE e = d /\ m # row[d]
    <3>1. row'[e].status \in Active => row'[e].status = "cancel-requested" /\ ~Certain
      BY <1>1, <2>1, Words
    <3> QED
      BY <3>1 DEF Attended, Certain
  <2>2. CASE row'[e] = row[e]
    <3>1. row[e].status = "running" /\ exec[e].pc \in AtExecutor => exec'[e].pc \in AtExecutor
      BY <1>1, <2>2
    <3> HIDE DEF Attends
    <3> QED
      BY <1>2, <2>2, <3>1 DEF Attended
  <2> QED
    BY <1>1, <2>1, <2>2
<1>4. ASSUME NEW e \in Ids
      PROVE  Outlived(e, exec[e])' /\ Noted(e)' /\ Placed(row'[e]) /\ Placed(exec'[e].mem)
  <2>1. CASE e = d
    <3>1. row[d].status # "planned" /\ m.status # "planned"
      BY <1>2, Words DEF Outlived
    <3> QED
      BY <1>1, <1>2, <2>1, <3>1 DEF Outlived, Noted, Certain
  <2>2. CASE e # d
    BY <1>1, <1>2, <2>2 DEF Outlived, Noted, Certain
  <2> QED
    BY <2>1, <2>2
<1>5. (\A b \in Commands : OnItsWay(cmd'[b])) /\ Leased'
  BY DEF Minded, AInv, Leased
<1> QED
  BY <1>3, <1>4, <1>5 DEF AInv, OnItsWay, Placed

LEMMA ExecutorMindedFacts ==
  ASSUME Minded, NEW d \in Ids
  PROVE  /\ Outlived(d, exec[d]) /\ Noted(d) /\ Placed(row[d]) /\ Placed(exec[d].mem)
         /\ exec[d] \in Executor /\ row[d] \in Attempt /\ Sound(row[d])
         /\ exec \in [Ids -> Executor] /\ row \in [Ids -> Attempt]
         /\ row = [row EXCEPT ![d] = row[d]] /\ ~Clash(d, row[d])
         /\ ExecutorOK(d, exec[d])
  BY GuardedFacts, SameRow DEF Minded, AInv, Guarded, IInv, Typed, RowsOK

(* An executor that writes nothing goes on, comes to its report, or stops  *)
(* when the attempt is not one that it may end.                            *)
LEMMA ExecutorGoesMinding ==
  ASSUME Minded, NEW d \in Ids, UNCHANGED <<row, lease, cmd, note, undone>>, exec[d].pc # "none",
         NEW x, exec' = [exec EXCEPT ![d] = x], Placed(x.mem),
         \/ x.pc = "done" /\ (d \in undone \/ row[d].status # "running")
         \/ /\ x.pc \in {"building", "deploying"}
            /\ x.mem.status # "running" =>
                 /\ ~Certain /\ x.mem.status # "planned"
                 /\ d \in undone \/ row[d].status \notin Begun
         \/ /\ x.pc = "report"
            /\ x.mem.status \notin Begun /\ (Certain => x.mem.status \notin Active)
  PROVE  AInv'
<1>1. PICK m : m = row[d]
  OBVIOUS
<1>2. row' = [row EXCEPT ![d] = m] /\ Placed(m) /\ Sound(m)
  BY <1>1, ExecutorMindedFacts
<1> QED
  BY <1>1, <1>2, Words, ExecutorMinds

LEMMA FinishMinds ==
  ASSUME Minded, NEW d \in Ids, UNCHANGED <<row, lease, cmd, note, undone>>,
         exec[d].pc \in {"building", "deploying"}, NEW result \in Outcomes, Finish(d, result)
  PROVE  AInv'
<1>1. PICK s : s = IF exec[d].mem.status = "running" THEN result ELSE exec[d].mem.status
  OBVIOUS
<1>2. PICK n : n = [exec[d].mem EXCEPT !.status = s]
  OBVIOUS
<1>3. PICK x : x = [exec[d] EXCEPT !.pc = "report", !.mem = n]
  OBVIOUS
<1>4. exec' = [exec EXCEPT ![d] = x]
  BY <1>1, <1>2, <1>3, ExecutorMindedFacts, ZenonT(60) DEF Finish, Executor
<1>5. x.pc = "report" /\ x.mem = n /\ n.status = s /\ n.placement = exec[d].mem.placement
  BY <1>2, <1>3, ExecutorMindedFacts DEF Executor, Attempt
<1>6. s \notin Begun /\ (Certain => s \notin Active)
  BY <1>1, ExecutorMindedFacts, Words DEF Outlived, Outcomes, Certain
<1>7. Placed(n)
  BY <1>5, ExecutorMindedFacts DEF Placed, ExecutorOK
<1> QED
  BY <1>4, <1>5, <1>6, <1>7, ExecutorGoesMinding

LEMMA GoesOnMinding ==
  ASSUME Minded, NEW d \in Ids, UNCHANGED <<row, lease, cmd, note, undone>>,
         exec[d].pc \in {"building", "deploying"}, NEW step, exec' = [exec EXCEPT ![d].pc = step],
         \/ step = "deploying"
         \/ step = "done" /\ (d \in undone \/ row[d].status # "running")
  PROVE  AInv'
<1>1. PICK x : x = [exec[d] EXCEPT !.pc = step]
  OBVIOUS
<1>2. exec' = [exec EXCEPT ![d] = x] /\ x.pc = step /\ x.mem = exec[d].mem
  BY <1>1, ExecutorMindedFacts DEF Executor
<1>3. /\ Placed(x.mem)
      /\ x.mem.status # "running" =>
           /\ ~Certain /\ x.mem.status # "planned"
           /\ d \in undone \/ row[d].status \notin Begun
  BY <1>2, ExecutorMindedFacts DEF Outlived, Certain
<1> QED
  BY <1>2, <1>3, ExecutorGoesMinding

LEMMA FailOrStopMinds ==
  ASSUME Minded, NEW d \in Ids, UNCHANGED <<row, lease, cmd, note, undone>>,
         exec[d].pc \in {"building", "deploying"}, FailOrStop(d)
  PROVE  AInv'
<1>1. CASE exec[d].mem.status = "running" /\ Finish(d, "failed")
  BY <1>1, FinishMinds DEF Outcomes
<1>2. CASE exec[d].mem.status # "running" /\ exec' = [exec EXCEPT ![d].pc = "done"]
  <2>1. d \in undone \/ row[d].status \notin Begun
    BY <1>2, ExecutorMindedFacts DEF Outlived
  <2> QED
    BY <1>2, <2>1, GoesOnMinding DEF Begun
<1> QED
  BY <1>1, <1>2 DEF FailOrStop

LEMMA ReportMinds ==
  ASSUME Minded, NEW d \in Ids, Report(d)
  PROVE  AInv'
<1>1. exec[d].pc = "report" /\ UNCHANGED <<lease, cmd, note, undone>>
  BY DEF Report
<1>2. PICK x : x = [NoExecutor EXCEPT !.pc = "done"]
  OBVIOUS
<1>3. exec' = [exec EXCEPT ![d] = x] /\ x.pc = "done" /\ Placed(x.mem)
  BY <1>2, PlainAttempts DEF Report, NoExecutor, Placed
<1>4. PICK m : m = [exec[d].mem EXCEPT !.notes = row[d].notes]
  OBVIOUS
<1>5. /\ m.status = exec[d].mem.status /\ Placed(m)
      /\ m.status \notin Begun /\ (m.status \in Active => ~Certain)
  BY <1>1, <1>4, ExecutorMindedFacts DEF Executor, Attempt, Placed, Outlived, Certain
<1>6. CASE Save(d, m)
  BY <1>1, <1>3, <1>5, <1>6, Words, ExecutorMinds DEF Save
<1>7. CASE ~Writable(d, m) /\ UNCHANGED row
  <2>1. row[d].status # "running"
    <3>1. CASE Fenced(d, m)
      BY <3>1, ExecutorMindedFacts DEF Fenced, Sound
    <3>2. CASE Clash(d, m)
      BY <3>2, Words DEF Clash, Minded, Guarded, RInv, OneIsActive
    <3> QED
      BY <1>7, <3>1, <3>2 DEF Writable
  <2> QED
    BY <1>1, <1>3, <1>7, <2>1, ExecutorGoesMinding
<1> QED
  BY <1>4, <1>6, <1>7 DEF Report

LEMMA ExecutorStepMinds ==
  ASSUME Minded, NEW d \in Ids, ExecutorStep(d)
  PROVE  AInv'
<1>1. CASE Dequeue(d)
  <2>1. exec[d].pc = "queued" /\ UNCHANGED <<row, lease, cmd, note, undone>>
    BY <1>1 DEF Dequeue
  <2>2. PICK x : x = [exec[d] EXCEPT !.pc = "building", !.mem = row[d]]
    OBVIOUS
  <2>3. exec' = [exec EXCEPT ![d] = x] /\ x.pc = "building" /\ x.mem = row[d]
    BY <1>1, <2>2, ExecutorMindedFacts DEF Dequeue, Executor
  <2>4. ~Certain /\ row[d].status # "planned" /\ Placed(x.mem)
    BY <2>1, <2>3, ExecutorMindedFacts DEF Outlived
  <2> QED
    BY <2>1, <2>3, <2>4, ExecutorGoesMinding DEF Begun
<1>2. CASE BuildFails(d)
  BY <1>2, FinishMinds, FailOrStopMinds DEF BuildFails, Outcomes
<1>3. CASE Deploy(d)
  BY <1>3, GoesOnMinding DEF Deploy
<1>4. CASE Refused(d)
  <2>1. row[d].status # "running"
    BY <1>4, ExecutorMindedFacts DEF Refused, MayContinue, Sound
  <2> QED
    BY <1>4, <2>1, GoesOnMinding, FailOrStopMinds DEF Refused
<1>5. CASE Deployed(d)
  BY <1>5, FinishMinds, FailOrStopMinds DEF Deployed, Outcomes
<1> QED
  BY <1>1, <1>2, <1>3, <1>4, <1>5, ReportMinds DEF ExecutorStep

-----------------------------------------------------------------------------
(* Progress records.                                                       *)
LEMMA RecordsFollow == IInv /\ NotesFollow /\ [Next]_vars => NotesFollow'
<1> SUFFICES ASSUME IInv, NotesFollow, [Next]_vars, NEW d \in Ids, NEW n \in note'[d], n.mark # NoId
             PROVE  n.mark = row'[d].mark
  BY DEF NotesFollow
<1>1. MarksStay
  BY StepKeepsMarks, NoRowChanges DEF vars
<1>2. n \in note[d] \/ n.mark = row[d].mark
  <2>1. CASE UNCHANGED <<note, undone>>
    BY <2>1
  <2>2. ASSUME NEW e \in Ids, ReadForNote(e)
        PROVE  n \in note[d] \/ n.mark = row[d].mark
    <3>1. PICK k : k = [row[e] EXCEPT !.notes = row[e].notes + 1]
      OBVIOUS
    <3>2. k.mark = row[e].mark
      BY <3>1 DEF IInv, Typed, Attempt
    <3>3. note' = [note EXCEPT ![e] = note[e] \cup {k}]
      BY <2>2, <3>1 DEF ReadForNote
    <3> QED
      BY <3>2, <3>3 DEF IInv, Typed
  <2>3. ASSUME NEW e \in Ids, WriteNote(e) \/ CrashExecutor(e)
        PROVE  n \in note[d]
    BY <2>3 DEF WriteNote, CrashExecutor, IInv, Typed
  <2> QED
    BY <2>1, <2>2, <2>3, OnlyRecords
<1> QED
  BY <1>1, <1>2 DEF NotesFollow, MarksStay

LEMMA ReadMinds ==
  ASSUME Minded, NEW d \in Ids, ReadForNote(d)
  PROVE  AInv'
<1>1. /\ exec[d].pc \in {"building", "deploying"} /\ UNCHANGED <<row, lease, cmd, exec, undone>>
      /\ note' = [note EXCEPT ![d] = note[d] \cup {[row[d] EXCEPT !.notes = row[d].notes + 1]}]
  BY DEF ReadForNote
<1>2. PICK n : n = [row[d] EXCEPT !.notes = row[d].notes + 1]
  OBVIOUS
<1>3. /\ note'[d] = note[d] \cup {n} /\ \A e \in Ids \ {d} : note'[e] = note[e]
  BY <1>1, <1>2, GuardedFacts DEF Minded
<1>4. n.status # "planned" /\ Placed(n)
  <2>1. n.status = row[d].status /\ n.placement = row[d].placement
    BY <1>2, ExecutorMindedFacts DEF Attempt
  <2> QED
    BY <1>1, <2>1, ExecutorMindedFacts DEF Outlived, Placed
<1>5. \A e \in Ids : Noted(e)'
  BY <1>1, <1>3, <1>4, ExecutorMindedFacts DEF Noted, Placed
<1> QED
  BY <1>1, <1>5 DEF Minded, AInv, Attended, Attends, Outlived, Placed, OnItsWay, Leased, Leasing

(* Of what is not undone, a record changes neither the status nor the mark.*)
LEMMA WriteMinds ==
  ASSUME Minded, NEW d \in Ids, WriteNote(d)
  PROVE  AInv'
<1>1. PICK m \in note[d] :
        /\ \/ Save(d, m) /\ undone' = IF m.status = row[d].status THEN undone
                                                                ELSE undone \cup {d}
           \/ UNCHANGED <<row, undone>>
        /\ note' = [note EXCEPT ![d] = note[d] \ {m}]
        /\ UNCHANGED <<ids, lease, cmd, exec>>
        /\ m \in Attempt /\ Sound(m) /\ m.status # "absent" /\ Exists(d)
  BY Recorded DEF Minded, Guarded
<1>2. /\ m.status # "planned" /\ Placed(m) /\ exec[d].pc # "none"
      /\ m.mark # NoId => m.mark = row[d].mark
  BY <1>1, ExecutorMindedFacts DEF Noted, Minded, NotesFollow
<1>3. /\ undone \subseteq undone' /\ undone' \subseteq undone \cup {d}
      /\ note'[d] \subseteq note[d] /\ \A e \in Ids \ {d} : note'[e] = note[e]
  BY <1>1, GuardedFacts DEF Minded
<1>4. \A e \in Ids : /\ e \in undone' \/ row'[e].status = row[e].status
                     /\ row'[e].mark = row[e].mark /\ Placed(row'[e])
                     /\ row'[e].status = "planned" => row[e].status = "planned"
  <2>1. CASE UNCHANGED <<row, undone>>
    BY <2>1, ExecutorMindedFacts
  <2>2. CASE Save(d, m) /\ undone' = IF m.status = row[d].status THEN undone ELSE undone \cup {d}
    <3>1. row'[d] = m /\ m.mark = row[d].mark /\ \A e \in Ids \ {d} : row'[e] = row[e]
      BY <1>2, <2>2, GuardedFacts DEF Save, Writable, Fenced, Minded
    <3> QED
      BY <1>2, <2>2, <3>1, ExecutorMindedFacts
  <2> QED
    BY <1>1, <2>1, <2>2
<1>5. ASSUME NEW e \in Ids \ undone'
      PROVE  Attended(e)'
  <2>1. Attended(e) /\ row'[e].status = row[e].status /\ row'[e].mark = row[e].mark
    BY <1>3, <1>4 DEF Minded, AInv
  <2>2. \A c \in Commands : Attends(cmd[c], e, row[e]) => Attends(cmd'[c], e, row'[e])
    BY <1>1, <2>1 DEF Attends
  <2> HIDE DEF Attends
  <2> QED
    BY <1>1, <2>1, <2>2 DEF Attended, Certain
<1>6. ASSUME NEW e \in Ids
      PROVE  Outlived(e, exec[e])' /\ Noted(e)' /\ Placed(row'[e]) /\ Placed(exec'[e].mem)
  <2>1. Outlived(e, exec[e]) /\ Noted(e) /\ Placed(exec[e].mem)
    BY ExecutorMindedFacts
  <2>2. Outlived(e, exec[e])'
    BY <1>1, <1>3, <1>4, <2>1 DEF Outlived, Certain
  <2>3. Noted(e)'
    BY <1>1, <1>2, <1>3, <2>1 DEF Noted, Placed
  <2> QED
    BY <1>1, <1>4, <2>1, <2>2, <2>3
<1>7. (\A b \in Commands : OnItsWay(cmd'[b])) /\ Leased'
  BY <1>1 DEF Minded, AInv, Leased
<1> QED
  BY <1>5, <1>6, <1>7 DEF AInv, OnItsWay, Placed

-----------------------------------------------------------------------------
LEMMA InitiallyMinded == Init => AInv
<1> SUFFICES ASSUME Init
             PROVE  AInv
  OBVIOUS
<1>1. \A d \in Ids : row[d] = Absent /\ exec[d] = NoExecutor /\ note[d] = {} /\ undone = {}
  BY DEF Init
<1>2. \A c \in Commands : cmd[c] = Unused
  BY DEF Init
<1>3. NoExecutor.pc = "none" /\ NoExecutor.mem = Absent /\ Absent.status = "absent"
  BY PlainAttempts, PlainRecords
<1>4. \A d \in Ids : Attended(d) /\ Outlived(d, exec[d]) /\ Noted(d)
  BY <1>1, <1>3, Words DEF Attended, Outlived, Noted
<1>5. \A c \in Commands : OnItsWay(cmd[c]) /\ ~Leasing(cmd[c])
  BY <1>2 DEF OnItsWay, Leasing, Unused, Writing
<1> QED
  BY <1>1, <1>3, <1>4, <1>5 DEF AInv, Placed, Leased

LEMMA StepsMind == Minded /\ [Next]_vars => AInv'
<1> SUFFICES ASSUME Minded, [Next]_vars
             PROVE  AInv'
  OBVIOUS
<1>1. ASSUME NEW c \in Commands, CommandStep(c)
      PROVE  AInv'
  BY <1>1, AcquireMinds, AdmitMinds, RequestMinds, BackendMinds, SettleMinds, InsertMinds,
     StartMinds, ReleaseMinds DEF CommandStep
<1>2. ASSUME NEW c \in Commands
      PROVE  ~CrashCommand(c)
  BY DEF CrashCommand, Minded, Unfailing
<1>3. ASSUME NEW d \in Ids
      PROVE  ~CrashExecutor(d)
  BY DEF CrashExecutor, Minded, Unfailing
<1>4. ASSUME NEW p \in Placements
      PROVE  ~LeaseEnds(p)
  <2>1. lease[p] # None => lease[p] \in Commands
    BY DEF Minded, Guarded, IInv, Typed
  <2>2. lease[p] # None => cmd[lease[p]].pc # "crashed"
    BY <2>1, MindedFacts DEF OnItsWay
  <2> QED
    BY <2>2 DEF LeaseEnds, Minded, Unfailing
<1>5. CASE UNCHANGED vars
  BY <1>5 DEF vars, Minded, AInv, Attended, Attends, Outlived, Noted, Placed, OnItsWay, Leased,
                  Leasing
<1> QED
  BY <1>1, <1>2, <1>3, <1>4, <1>5, InvokeMinds, ExecutorStepMinds, ReadMinds, WriteMinds DEF Next

LEMMA AlwaysMinded ==
  ASSUME Unfailing
  PROVE  Spec => []AInv
<1>1. Init => AInv
  BY InitiallyMinded
<1>2. Init => NotesFollow
  BY DEF Init, NotesFollow
<1>3. IInv /\ RInv /\ NotesFollow /\ AInv /\ [Next]_vars => AInv'
  BY StepsMind DEF Minded, Guarded
<1> QED
  BY <1>1, <1>2, <1>3, RecordsFollow, AlwaysSound, AlwaysGuarded, PTL DEF Spec

(* When no process dies and no lease is lost, no attempt is planned or     *)
(* running without a command or an executor that will end it, unless a late*)
(* progress record put it back: for any commands, placements and progress  *)
(* records on their way, with detached creates and with a failing          *)
(* executionBackend.cancel.  An executor gives up or is fenced only when   *)
(* its attempt has been ended by somebody else.                            *)
THEOREM NobodyIsForgotten ==
  ASSUME ~Crashes, ~LeaseMayBeLost
  PROVE  Spec => []RunningIsAttended
<1>1. AInv => RunningIsAttended
  <2> SUFFICES ASSUME AInv, NEW d \in Ids \ undone, row[d].status \in Begun
               PROVE  exec[d].pc \in AtExecutor \/ \E c \in Commands : cmd[c].new = d
    BY DEF RunningIsAttended, Begun, AtExecutor
  <2> QED
    BY Words DEF AInv, Attended, Attends
<1>2. Unfailing
  BY DEF Unfailing
<1> QED
  BY <1>1, <1>2, AlwaysMinded, PTL

(* When creates moreover execute inline and executionBackend.cancel does   *)
(* not fail, an attempt that was asked to cancel has a command about to    *)
(* write its end, with a copy that the fence lets through: whatever is     *)
(* active, and was not put back by a late progress record, has somebody to *)
(* end it, on any number of placements.                                    *)
THEOREM WhatIsActiveIsAttended ==
  ASSUME ~Crashes, ~LeaseMayBeLost, ~Detached, ~CancelMayFail
  PROVE  Spec => []ActiveIsAttended
<1>1. Certain
  BY DEF Certain
<1>2. AInv => CancelIsAttended
  <2> SUFFICES ASSUME AInv, NEW d \in Ids \ undone, row[d].status = "cancel-requested"
               PROVE  \E c \in Commands : /\ cmd[c].pc \in {"backend", "settle"} /\ cmd[c].target = d
                                          /\ cmd[c].copy.mark = row[d].mark
    BY DEF CancelIsAttended
  <2> QED
    BY <1>1, Words DEF AInv, Attended, Attends
<1>3. Unfailing
  BY DEF Unfailing
<1> QED
  BY <1>2, <1>3, AlwaysMinded, NobodyIsForgotten, PTL DEF ActiveIsAttended
=============================================================================
