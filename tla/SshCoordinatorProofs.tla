------------------------ MODULE SshCoordinatorProofs ------------------------
(***************************************************************************)
(* SshCoordinator for any number of calls, rounds and faults.  As long as  *)
(* no script has taken a lock that was being kept, a call that has made or *)
(* claimed the directory still has it, fresh or not, unless it was found   *)
(* stale and recovered: that is why a second one cannot be in.  With it    *)
(* each step maps to a step of the contract ExclusiveScope, up to the first*)
(* lock that is taken from its keeper; when nothing fails no lock is ever  *)
(* found stale, and the map holds to the end.  That overlapping works are  *)
(* reported needs no more than that owner.json has one owner.              *)
(***************************************************************************)
EXTENDS SshCoordinator, TLAPS

Kept == Holding \cup {"release", "remove"}

HasLock ==
    ~taken => \A c \in Calls \ recovered :
        /\ pc[c] = "claim" => lock.maker = c /\ lock.owner = None
        /\ pc[c] \in Kept => lock.owner = c

(* Of two calls whose work overlapped one is not the owner and never will  *)
(* be; its release ends in an error or finds no owner.json.                *)
Robbed(c) ==
    \/ pc[c] \in {"refresh", "work", "release"} /\ lock.owner # c
    \/ pc[c] \in {"settled", "crashed"} /\ (outcome[c] = "ok" => Unaware(c))

OverlapIsHeard ==
    /\ \A c, d \in Calls : <<c, d>> \in overlaps => Robbed(c) \/ Robbed(d)
    /\ \A c \in Calls : outcome[c] = "ok" => pc[c] = "settled"

(* What a behaviour without faults looks like.                             *)
NothingFailed ==
    faults = 0 =>
        /\ ~taken /\ recovered = {}
        /\ \A c \in Calls : ~lost[c] /\ pc[c] \notin {"crashed", "recover", "remake"}
        /\ lock # NoLock => lock.fresh /\ pc[Keeper] \in {"claim"} \cup Kept

IInv == TypeOK /\ HasLock /\ OverlapIsHeard /\ NothingFailed

(* No call has begun.                                                      *)
LEMMA InitiallyNothing == Init => IInv
<1> SUFFICES ASSUME Init PROVE IInv
  OBVIOUS
<1> USE SshCoordinatorAssumption DEF Init
<1>1. lock \in Locks
  BY DEF Locks
<1>2. pc \in [Calls -> PCs]
  BY DEF PCs
<1>3. tries \in [Calls -> 0..MaxTries + 1] /\ faults \in 0..MaxFaults
  OBVIOUS
<1>4. TypeOK
  BY <1>1, <1>2, <1>3 DEF TypeOK
<1>5. HasLock /\ OverlapIsHeard /\ NothingFailed
  BY DEF HasLock, OverlapIsHeard, NothingFailed, Kept, Holding
<1> QED
  BY <1>4, <1>5 DEF IInv

-----------------------------------------------------------------------------
(* What can become of the directory.                                       *)
LEMMA LocksAreTyped ==
  ASSUME lock \in Locks, NEW c \in Calls
  PROVE  /\ NoLock \in Locks
         /\ [maker |-> c, owner |-> None, fresh |-> TRUE] \in Locks
         /\ \A f \in BOOLEAN : lock # NoLock => [lock EXCEPT !.fresh = f] \in Locks
         /\ lock # NoLock => [lock EXCEPT !.owner = c, !.fresh = TRUE] \in Locks
         /\ lock.owner = c => lock # NoLock
<1> USE SshCoordinatorAssumption DEF Locks, NoLock
<1>1. /\ NoLock \in Locks
      /\ [maker |-> c, owner |-> None, fresh |-> TRUE] \in Locks
      /\ lock.owner = c => lock # NoLock
  OBVIOUS
<1>2. ASSUME lock # NoLock
      PROVE  lock \in [maker : Calls, owner : Calls \cup {None}, fresh : BOOLEAN]
  BY <1>2
<1>3. ASSUME lock # NoLock, NEW f \in BOOLEAN
      PROVE  [lock EXCEPT !.fresh = f] \in Locks
  BY <1>2, <1>3
<1>4. ASSUME lock # NoLock
      PROVE  [lock EXCEPT !.owner = c, !.fresh = TRUE] \in Locks
  BY <1>2, <1>4
<1> QED
  BY <1>1, <1>3, <1>4

(* Every step keeps the types, one conjunct of TypeOK after the other.     *)
LEMMA Typed ==
  ASSUME TypeOK, [Next]_vars
  PROVE  TypeOK'
<1> USE SshCoordinatorAssumption DEF TypeOK, history
<1>v. CASE UNCHANGED vars
  BY <1>v DEF vars
<1>a. ASSUME NEW c \in Calls, Step(c)
      PROVE  TypeOK'
  <2>1. \A r \in {"none", "ok", "error"} :
              /\ [worked EXCEPT ![c] = r] \in [Calls -> {"none", "ok", "error"}]
              /\ [outcome EXCEPT ![c] = r] \in [Calls -> {"none", "ok", "error"}]
    OBVIOUS
  <2>2. pc' = pc \/ pc' = [pc EXCEPT ![c] = pc'[c]]
    BY <1>a
       DEF Step, Call, MakeDir, Check, Inspect, Recover, Remake, Claim, AcquireFails, Wake,
           Refreshed, RefreshFails, Heartbeat, FinishWork, Release, Remove, Crash,
           Goes, Return, Conflict, StartWork
  <2>x. pc'[c] \in PCs
    BY <1>a
       DEF Step, Call, MakeDir, Check, Inspect, Recover, Remake, Claim, AcquireFails, Wake,
           Refreshed, RefreshFails, Heartbeat, FinishWork, Release, Remove, Crash,
           Goes, Return, Conflict, StartWork, PCs, Acquiring, Holding
  <2>3. pc' \in [Calls -> PCs]
    BY <2>2, <2>x
  <2>4. lock' \in Locks
    <3>1. \/ lock' = lock \/ lock' = NoLock
          \/ lock' = [maker |-> c, owner |-> None, fresh |-> TRUE]
          \/ lock # NoLock /\ lock' = [lock EXCEPT !.owner = c, !.fresh = TRUE]
          \/ lock.owner = c /\ lock' = [lock EXCEPT !.fresh = TRUE]
      BY <1>a
         DEF Step, Call, MakeDir, Check, Inspect, Recover, Remake, Claim, AcquireFails, Wake,
           Refreshed, RefreshFails, Heartbeat, FinishWork, Release, Remove, Crash, Make, Take
    <3>2. CASE lock # NoLock /\ lock' = [lock EXCEPT !.owner = c, !.fresh = TRUE]
      BY <3>2, LocksAreTyped, Zenon
    <3>3. CASE lock # NoLock /\ lock' = [lock EXCEPT !.fresh = TRUE]
      BY <3>3, LocksAreTyped
    <3> QED
      BY <3>1, <3>2, <3>3, LocksAreTyped
  <2>5. /\ worked' \in [Calls -> {"none", "ok", "error"}]
        /\ outcome' \in [Calls -> {"none", "ok", "error"}]
    BY <1>a, <2>1
       DEF Step, Call, MakeDir, Check, Inspect, Recover, Remake, Claim, AcquireFails, Wake,
           Refreshed, RefreshFails, Heartbeat, FinishWork, Release, Remove, Crash,
           Return, Result
  <2>6. tries' \in [Calls -> 0..MaxTries + 1]
    <3>1. \/ tries' = tries
          \/ tries[c] < MaxTries /\ tries' = [tries EXCEPT ![c] = tries[c] + 1]
      BY <1>a
         DEF Step, Call, MakeDir, Check, Inspect, Recover, Remake, Claim, AcquireFails, Wake,
           Refreshed, RefreshFails, Heartbeat, FinishWork, Release, Remove, Crash
    <3> QED
      BY <3>1
  <2>7. lost' \in [Calls -> BOOLEAN]
    BY <1>a
       DEF Step, Call, MakeDir, Check, Inspect, Recover, Remake, Claim, AcquireFails, Wake,
           Refreshed, RefreshFails, Heartbeat, FinishWork, Release, Remove, Crash
  <2>8. overlaps' \subseteq Calls \X Calls
    BY <1>a
       DEF Step, Call, MakeDir, Check, Inspect, Recover, Remake, Claim, AcquireFails, Wake,
           Refreshed, RefreshFails, Heartbeat, FinishWork, Release, Remove, Crash,
           StartWork, Working
  <2>9. taken' \in BOOLEAN
    BY <1>a
       DEF Step, Call, MakeDir, Check, Inspect, Recover, Remake, Claim, AcquireFails, Wake,
           Refreshed, RefreshFails, Heartbeat, FinishWork, Release, Remove, Crash, Take
  <2>11. recovered' \subseteq Calls /\ missed' \subseteq Calls
    <3>1. Stale => Keeper \in Calls
      BY DEF Stale, Keeper, Locks, NoLock
    <3> QED
      BY <1>a, <3>1
         DEF Step, Call, MakeDir, Check, Inspect, Recover, Remake, Claim, AcquireFails, Wake,
           Refreshed, RefreshFails, Heartbeat, FinishWork, Release, Remove, Crash, Take
  <2>10. faults' \in 0..MaxFaults
    <3>1. faults' = faults \/ (faults < MaxFaults /\ faults' = faults + 1)
      BY <1>a
         DEF Step, Call, MakeDir, Check, Inspect, Recover, Remake, Claim, AcquireFails, Wake,
           Refreshed, RefreshFails, Heartbeat, FinishWork, Release, Remove, Crash, Fault
    <3> QED
      BY <3>1
  <2> QED
    BY <2>3, <2>4, <2>5, <2>6, <2>7, <2>8, <2>9, <2>10, <2>11
<1>s. CASE GoesStale
  <2>1. lock # NoLock /\ lock' = [lock EXCEPT !.fresh = FALSE]
    BY <1>s DEF GoesStale
  <2>2. Keeper \in Calls
    BY <2>1 DEF Keeper, Locks, NoLock
  <2>3. lock' \in Locks
    BY <2>1, <2>2, LocksAreTyped
  <2>4. faults' \in 0..MaxFaults
    BY <1>s DEF GoesStale, Fault
  <2> QED
    BY <1>s, <2>3, <2>4 DEF GoesStale
<1> QED
  BY <1>v, <1>a, <1>s DEF Next

-----------------------------------------------------------------------------
(* A script that moves or removes a lock that is kept sets taken.          *)
LEMMA LockIsKept ==
  ASSUME TypeOK, HasLock, [Next]_vars
  PROVE  HasLock'
<1> USE SshCoordinatorAssumption DEF TypeOK, history, Locks, Kept, Holding, Acquiring,
         HasLock
<1>v. CASE UNCHANGED vars
  BY <1>v DEF vars
<1>a. ASSUME NEW c \in Calls, Step(c)
      PROVE  HasLock'
  <2>1. CASE Call(c)
    BY <2>1 DEF Call, Goes
  <2>2. CASE MakeDir(c)
    BY <2>2 DEF MakeDir, Goes, Make, NoLock
  <2>3. CASE Check(c)
    BY <2>3 DEF Check, Goes, Return
  <2>4. CASE Inspect(c)
    BY <2>4 DEF Inspect, Goes, Conflict
  <2>5. CASE Recover(c)
    BY <2>5 DEF Recover, Goes, Conflict, Take, Stale, Keeper, NoLock
  <2>6. CASE Remake(c)
    BY <2>6 DEF Remake, Goes, Return, Make, NoLock
  <2>7. CASE Claim(c)
    <3>1. CASE lock = NoLock
      BY <2>7, <3>1 DEF Claim, Goes, Return, StartWork, NoLock
    <3>l. ASSUME lock # NoLock
          PROVE  lock' = [maker |-> lock.maker, owner |-> c, fresh |-> TRUE]
      BY <2>7, <3>l DEF Claim, NoLock
    <3>2. CASE lock # NoLock /\ Keeper # c
      <4>1. taken'
        BY <2>7, <3>2 DEF Claim, NoLock
      <4> QED
        BY <4>1 DEF HasLock
    <3>3. CASE lock # NoLock /\ Keeper = c
      <4>1. /\ pc'[c] \in {"work", "refresh"} /\ \A d \in Calls \ {c} : pc'[d] = pc[d]
            /\ taken' = taken /\ recovered' = recovered
        BY <2>7, <3>3 DEF Claim, Goes, StartWork, NoLock
      <4>2. ~taken => \A d \in Calls \ recovered :
                pc[d] \in {"claim", "refresh", "work", "release", "remove"} => Keeper = d
        BY DEF Keeper
      <4>3. lock'.owner = c
        BY <3>3, <3>l
      <4> QED
        BY <3>3, <4>1, <4>2, <4>3 DEF Keeper
    <3> QED
      BY <3>1, <3>2, <3>3
  <2>8. CASE AcquireFails(c)
    BY <2>8 DEF AcquireFails, Goes, Return, Fault
  <2>9. CASE Wake(c)
    BY <2>9 DEF Wake, Goes, Return
  <2>10. CASE Refreshed(c)
    BY <2>10 DEF Refreshed, Goes, StartWork
  <2>11. CASE RefreshFails(c)
    BY <2>11 DEF RefreshFails, Goes
  <2>12. CASE Heartbeat(c)
    BY <2>12 DEF Heartbeat, Fault, NoLock
  <2>13. CASE FinishWork(c)
    BY <2>13 DEF FinishWork, Goes
  <2>14. CASE Release(c)
    BY <2>14 DEF Release, Goes, Return, Take, Fault, Result, Stale, Keeper, NoLock
  <2>15. CASE Remove(c)
    BY <2>15 DEF Remove, Goes, Return, Take, Result, Stale, Keeper, NoLock
  <2>16. CASE Crash(c)
    BY <2>16 DEF Crash, Goes, Fault
  <2> QED
    BY <1>a, <2>1, <2>2, <2>3, <2>4, <2>5, <2>6, <2>7, <2>8, <2>9, <2>10, <2>11, <2>12, <2>13, <2>14, <2>15, <2>16 DEF Step
<1>s. CASE GoesStale
  BY <1>s DEF GoesStale, Silent, Fault, Keeper, NoLock
<1> QED
  BY <1>v, <1>a, <1>s DEF Next

(* Who is not the owner is not so again, and hears of it.                  *)
LEMMA RobbedForGood ==
  ASSUME TypeOK, OverlapIsHeard, NEW c \in Calls, Step(c), NEW d \in Calls, Robbed(d)
  PROVE  Robbed(d)'
<1> USE SshCoordinatorAssumption DEF TypeOK, history
<1>1. CASE d # c
  <2>1. /\ pc'[d] = pc[d] /\ outcome'[d] = outcome[d] /\ lost'[d] = lost[d]
        /\ d \in missed => d \in missed'
    BY <1>1
       DEF Step, Call, MakeDir, Check, Inspect, Recover, Remake, Claim, AcquireFails, Wake,
           Refreshed, RefreshFails, Heartbeat, FinishWork, Release, Remove, Crash,
           Goes, Return, Conflict, StartWork
  <2>2. lock'.owner \in {lock.owner, c, None}
    <3>1. \/ lock' = lock \/ lock' = NoLock
          \/ lock' = [maker |-> c, owner |-> None, fresh |-> TRUE]
          \/ lock # NoLock /\ lock' = [lock EXCEPT !.owner = c, !.fresh = TRUE]
          \/ lock.owner = c /\ lock' = [lock EXCEPT !.fresh = TRUE]
      BY DEF Step, Call, MakeDir, Check, Inspect, Recover, Remake, Claim, AcquireFails, Wake,
           Refreshed, RefreshFails, Heartbeat, FinishWork, Release, Remove, Crash, Make, Take
    <3>2. ASSUME lock # NoLock, lock' = [lock EXCEPT !.owner = c, !.fresh = TRUE]
          PROVE  lock'.owner = c
      BY <3>2 DEF Locks
    <3>3. ASSUME lock' = [lock EXCEPT !.fresh = TRUE]
          PROVE  lock'.owner = lock.owner
      BY <3>3 DEF Locks, NoLock
    <3> QED
      BY <3>1, <3>2, <3>3 DEF NoLock
  <2> QED
    BY <1>1, <2>1, <2>2 DEF Robbed, Unaware
<1>2. CASE d = c
  <2>1. pc[c] \in {"refresh", "work", "release"} /\ lock.owner # c
    BY <1>2
       DEF Robbed, Step, Call, MakeDir, Check, Inspect, Recover, Remake, Claim, AcquireFails,
           Wake, Refreshed, RefreshFails, Heartbeat, FinishWork, Release, Remove, Crash,
           Acquiring, Holding
  <2>2. CASE Refreshed(c) \/ RefreshFails(c) \/ Heartbeat(c) \/ FinishWork(c)
    BY <1>2, <2>1, <2>2
       DEF Robbed, Refreshed, RefreshFails, Heartbeat, FinishWork, StartWork, Goes
  <2>3. CASE Release(c)
    <3>1. pc'[c] = "settled" /\ lost' = lost
          /\ (outcome'[c] = "ok" => c \in missed' /\ ~lost[c])
      BY <2>1, <2>3 DEF Release, Goes, Return, Result
    <3> QED
      BY <1>2, <3>1 DEF Robbed, Unaware
  <2>4. CASE Crash(c)
    <3>1. pc'[c] = "crashed" /\ outcome' = outcome
      BY <2>4 DEF Crash, Goes
    <3>2. outcome[c] # "ok"
      BY <2>1 DEF OverlapIsHeard
    <3> QED
      BY <1>2, <3>1, <3>2 DEF Robbed
  <2> QED
    BY <2>1, <2>2, <2>3, <2>4
       DEF Step, Call, MakeDir, Check, Inspect, Recover, Remake, Claim, AcquireFails,
           Wake, Remove, Acquiring
<1> QED
  BY <1>1, <1>2

(* Of two works that overlap one is no longer the owner.                   *)
LEMMA Heard ==
  ASSUME TypeOK, OverlapIsHeard, [Next]_vars
  PROVE  OverlapIsHeard'
<1> USE SshCoordinatorAssumption DEF TypeOK, history
<1>v. CASE UNCHANGED vars
  BY <1>v DEF vars, OverlapIsHeard, Robbed, Unaware
<1>a. ASSUME NEW c \in Calls, Step(c)
      PROVE  OverlapIsHeard'
  <2>1. \A d \in Calls : outcome'[d] = "ok" => pc'[d] = "settled"
    BY <1>a
       DEF OverlapIsHeard, Step, Call, MakeDir, Check, Inspect, Recover, Remake, Claim,
           AcquireFails, Wake, Refreshed, RefreshFails, Heartbeat, FinishWork, Release, Remove,
           Crash, Goes, Return, Conflict, StartWork, Acquiring, Holding
  <2>2. \A d \in Calls : Robbed(d) => Robbed(d)'
    BY <1>a, RobbedForGood
  <2>3. CASE overlaps' = overlaps
    BY <2>1, <2>2, <2>3 DEF OverlapIsHeard
  <2>4. CASE /\ overlaps' = overlaps \cup ({c} \X Working)
             /\ (Claim(c) /\ lock # NoLock) \/ Refreshed(c)
             /\ StartWork(c)
    <3>1. SUFFICES ASSUME NEW d \in Working
                   PROVE  Robbed(c)' \/ Robbed(d)'
      BY <2>1, <2>2, <2>4 DEF OverlapIsHeard, Working
    <3>2. d \in Calls /\ d # c /\ pc[d] = "work" /\ pc'[d] = "work" /\ pc'[c] = "work"
      BY <2>4 DEF Working, Claim, Refreshed, StartWork, Goes
    <3>3. lock'.owner # c \/ lock'.owner # d
      BY <3>2
    <3> QED
      BY <3>2, <3>3 DEF Robbed
  <2> QED
    BY <1>a, <2>3, <2>4
       DEF Step, Call, MakeDir, Check, Inspect, Recover, Remake, Claim, AcquireFails, Wake,
           Refreshed, RefreshFails, Heartbeat, FinishWork, Release, Remove, Crash, StartWork
<1>s. CASE GoesStale
  <2>1. lock'.owner = lock.owner
    BY <1>s DEF GoesStale, Locks
  <2> QED
    BY <1>s, <2>1 DEF GoesStale, OverlapIsHeard, Robbed, Unaware
<1> QED
  BY <1>v, <1>a, <1>s DEF Next

(* Without a fault no lock goes stale and none is taken.                   *)
LEMMA StillNothing ==
  ASSUME TypeOK, HasLock, NothingFailed, [Next]_vars
  PROVE  NothingFailed'
<1> USE SshCoordinatorAssumption DEF TypeOK, history, Locks, Kept, Holding, Acquiring,
         HasLock, NothingFailed, Keeper
<1>v. CASE UNCHANGED vars
  BY <1>v DEF vars, Keeper
<1>a. ASSUME NEW c \in Calls, Step(c)
      PROVE  NothingFailed'
  <2>1. CASE Call(c)
    BY <2>1 DEF Call, Goes
  <2>2. CASE MakeDir(c)
    BY <2>2 DEF MakeDir, Goes, Make, NoLock
  <2>3. CASE Check(c)
    BY <2>3 DEF Check, Goes, Return
  <2>4. CASE Inspect(c)
    BY <2>4 DEF Inspect, Goes, Conflict, Stale
  <2>5. CASE Recover(c)
    BY <2>5 DEF Recover, Goes, Conflict, Take, Stale
  <2>6. CASE Remake(c)
    BY <2>6 DEF Remake, Goes, Return, Make, NoLock
  <2>7. CASE Claim(c)
    <3>1. CASE lock = NoLock
      BY <2>7, <3>1 DEF Claim, Goes, Return, StartWork, NoLock
    <3>l. ASSUME lock # NoLock
          PROVE  lock' = [maker |-> lock.maker, owner |-> c, fresh |-> TRUE]
      BY <2>7, <3>l DEF Claim, NoLock
    <3>2. CASE lock # NoLock /\ tries[c] = 0
      BY <2>7, <3>2, <3>l DEF Claim, Goes, StartWork, NoLock
    <3>3. CASE lock # NoLock /\ tries[c] # 0
      BY <2>7, <3>3, <3>l DEF Claim, Goes, StartWork, NoLock
    <3> QED
      BY <3>1, <3>2, <3>3
  <2>8. CASE AcquireFails(c)
    BY <2>8 DEF AcquireFails, Goes, Return, Fault
  <2>9. CASE Wake(c)
    BY <2>9 DEF Wake, Goes, Return
  <2>10. CASE Refreshed(c)
    BY <2>10 DEF Refreshed, Goes, StartWork
  <2>11. CASE RefreshFails(c)
    BY <2>11 DEF RefreshFails, Goes
  <2>12. CASE Heartbeat(c)
    BY <2>12 DEF Heartbeat, Fault, NoLock
  <2>13. CASE FinishWork(c)
    BY <2>13 DEF FinishWork, Goes
  <2>14. CASE Release(c)
    BY <2>14 DEF Release, Goes, Return, Take, Fault, Result, Stale, NoLock
  <2>15. CASE Remove(c)
    BY <2>15 DEF Remove, Goes, Return, Take, Result, Stale, NoLock
  <2>16. CASE Crash(c)
    BY <2>16 DEF Crash, Goes, Fault
  <2> QED
    BY <1>a, <2>1, <2>2, <2>3, <2>4, <2>5, <2>6, <2>7, <2>8, <2>9, <2>10, <2>11, <2>12, <2>13, <2>14, <2>15, <2>16 DEF Step
<1>s. CASE GoesStale
  BY <1>s DEF GoesStale, Silent, Fault, Keeper, NoLock
<1> QED
  BY <1>v, <1>a, <1>s DEF Next

(* The invariant is inductive.                                             *)
LEMMA Preserved == IInv /\ [Next]_vars => IInv'
  BY Typed, LockIsKept, Heard, StillNothing DEF IInv

LEMMA Reached == Spec => []IInv
<1>1. Init => IInv
  BY InitiallyNothing
<1>2. IInv /\ [Next]_vars => IInv'
  BY Preserved
<1> QED
  BY <1>1, <1>2, PTL DEF Spec

-----------------------------------------------------------------------------
(* Every variable of the coordinator keeps its type.                       *)
THEOREM CallsAreTyped == Spec => []TypeOK
<1>1. IInv => TypeOK
  BY DEF IInv
<1> QED
  BY <1>1, Reached, PTL

(* Two works at one time, and no kept lock was taken: the lock of one was  *)
(* recovered, for whoever works and was not recovered is the owner.        *)
THEOREM WorksAreAlone == Spec => []WorksAlone
<1>1. IInv => WorksAlone
  BY DEF IInv, TypeOK, HasLock, WorksAlone, Working, Kept, Holding
<1> QED
  BY <1>1, Reached, PTL

(* No two calls whose works overlapped both report success, whatever failed*)
(* or was taken, but for a call whose release finds no owner.json before a *)
(* heartbeat of it has failed.                                             *)
THEOREM OverlapsAreReported == Spec => []OverlapIsReported
<1>1. IInv => OverlapIsReported
  BY DEF IInv, OverlapIsHeard, OverlapIsReported, Robbed
<1> QED
  BY <1>1, Reached, PTL

(* When all calls are over and nothing has failed, there is no lock left:  *)
(* its keeper would still be at it.                                        *)
THEOREM NothingIsLeft == Spec => []NoLockLeft
<1>1. IInv => NoLockLeft
  <2> SUFFICES ASSUME IInv, faults = 0, \A c \in Calls : pc[c] \in {"idle", "settled"},
                      lock # NoLock
               PROVE  FALSE
    BY DEF NoLockLeft
  <2>1. Keeper \in Calls
    BY DEF IInv, TypeOK, Locks, NoLock, Keeper
  <2> QED
    BY <2>1 DEF IInv, NothingFailed, Kept, Holding
<1> QED
  BY <1>1, Reached, PTL

-----------------------------------------------------------------------------
(* The contract.  A call counts as out of the scope when its work is over  *)
(* or its stale lock was recovered; until a kept lock is taken, a call that*)
(* is about to start its work is the owner, so nobody else is in the scope.*)
StandingOf(p, r) ==
    CASE p \in Acquiring \cup {"sleep", "refresh"} -> "waiting"
      [] p = "work" -> IF r THEN "settled" ELSE "working"
      [] p \in {"release", "remove"} -> "settled"
      [] OTHER -> p

standings == [c \in Calls |-> Standing(c)]

(* How a call may go on while nobody else enters.                          *)
GoesOn(s, t) ==
    \/ s = t
    \/ s = "idle" /\ t = "waiting"
    \/ s \in {"waiting", "working"} /\ t = "settled"
    \/ s \in {"waiting", "working", "settled"} /\ t = "crashed"

LEMMA StandingIs ==
  /\ \A c \in Calls : Standing(c) = StandingOf(pc[c], c \in recovered)
  /\ \A c \in Calls : Standing(c)' = StandingOf(pc'[c], c \in recovered')
  BY DEF Standing, Phase, StandingOf, Acquiring

LEMMA StandingValues ==
  ASSUME NEW r
  PROVE  /\ \A p \in Acquiring \cup {"sleep", "refresh"} : StandingOf(p, r) = "waiting"
         /\ StandingOf("work", r) = IF r THEN "settled" ELSE "working"
         /\ \A p \in {"release", "remove"} : StandingOf(p, r) = "settled"
         /\ \A p \in {"idle", "settled", "crashed"} : StandingOf(p, r) = p
  BY DEF StandingOf, Acquiring

(* Only work whose lock was not recovered counts as work.                  *)
LEMMA WorkingHasLock ==
  ASSUME TypeOK, HasLock, ~taken, NEW c \in Calls, Standing(c) = "working"
  PROVE  pc[c] = "work" /\ c \notin recovered /\ lock.owner = c
<1>1. StandingOf(pc[c], c \in recovered) = "working"
  BY StandingIs
<1>2. pc[c] = "work" /\ c \notin recovered
  BY <1>1 DEF StandingOf, TypeOK, PCs, Acquiring, Holding
<1> QED
  BY <1>2 DEF HasLock, Kept, Holding

LEMMA GoesOnIsAllowed ==
  ASSUME NEW c \in Calls, \A d \in Calls \ {c} : Standing(d)' = Standing(d),
         \/ GoesOn(Standing(c), Standing(c)')
         \/ /\ Standing(c) = "waiting" /\ Standing(c)' = "working"
            /\ \A d \in Calls : Standing(d) # "working"
  PROVE  UpToRecovery!Next \/ UNCHANGED standings
<1>1. PICK t : t = Standing(c)'
  OBVIOUS
<1>2. standings' = [standings EXCEPT ![c] = t] /\ \A d \in Calls : standings[d] = Standing(d)
  BY <1>1 DEF standings
<1>3. CASE t = Standing(c)
  BY <1>2, <1>3 DEF standings
<1>4. CASE Standing(c) = "idle" /\ t = "waiting"
  BY <1>2, <1>4 DEF UpToRecovery!Next, UpToRecovery!Request, standings
<1>5. CASE Standing(c) = "waiting" /\ t = "settled"
  BY <1>2, <1>5 DEF UpToRecovery!Next, UpToRecovery!GiveUp, standings
<1>6. CASE Standing(c) = "working" /\ t = "settled"
  BY <1>2, <1>6 DEF UpToRecovery!Next, UpToRecovery!Leave, standings
<1>7. CASE Standing(c) \in {"waiting", "working", "settled"} /\ t = "crashed"
  BY <1>2, <1>7 DEF UpToRecovery!Next, UpToRecovery!Die, standings
<1>8. CASE Standing(c) = "waiting" /\ t = "working" /\ \A d \in Calls : Standing(d) # "working"
  BY <1>2, <1>8 DEF UpToRecovery!Next, UpToRecovery!Enter, standings
<1> QED
  BY <1>1, <1>3, <1>4, <1>5, <1>6, <1>7, <1>8 DEF GoesOn

(* A step of one call that takes no stale lock leaves the others alone.    *)
LEMMA StepOfOne ==
  ASSUME TypeOK, NEW c \in Calls, Step(c)
  PROVE  /\ \A d \in Calls \ {c} : pc'[d] = pc[d]
         /\ ~taken' => ~taken
<1>1. pc' = pc \/ \E p : pc' = [pc EXCEPT ![c] = p]
  BY DEF Step, Call, MakeDir, Check, Inspect, Recover, Remake, Claim, AcquireFails, Wake,
           Refreshed, RefreshFails, Heartbeat, FinishWork, Release, Remove, Crash,
           Goes, Return, Conflict, StartWork
<1>2. taken' = taken \/ Take(c) \/ taken' = (taken \/ Keeper # c)
  BY DEF Step, Call, MakeDir, Check, Inspect, Recover, Remake, Claim, AcquireFails, Wake,
           Refreshed, RefreshFails, Heartbeat, FinishWork, Release, Remove, Crash, history
<1> QED
  BY <1>1, <1>2 DEF TypeOK, Take

(* A script that takes a lock, at whatever point of it: its call stands    *)
(* where it stood, and the keeper of a stale lock leaves the scope.        *)
LEMMA TakingIsAllowed ==
  ASSUME TypeOK, NEW c \in Calls, Recover(c) \/ Release(c) \/ Remove(c)
  PROVE  UpToRecovery!Next \/ UNCHANGED standings
<1>1. /\ pc[c] \in {"recover", "release", "remove"}
      /\ pc[c] = "recover" => pc'[c] \in {"remake", "sleep"}
      /\ pc[c] # "recover" => pc'[c] \in {"remove", "settled"}
  BY DEF Recover, Release, Remove, Goes, Return, Conflict, TypeOK
<1>2. \A r, q \in BOOLEAN : StandingOf(pc'[c], r) = StandingOf(pc[c], q)
  BY <1>1, StandingValues DEF Acquiring
<1>3. Standing(c)' = Standing(c)
  <2>1. (c \in recovered) \in BOOLEAN /\ (c \in recovered') \in BOOLEAN
    OBVIOUS
  <2> QED
    BY <1>2, <2>1, StandingIs
<1>4. \A d \in Calls \ {c} : pc'[d] = pc[d]
  BY StepOfOne DEF Step
<1>5. recovered' = recovered \/ (Stale /\ recovered' = recovered \cup ({Keeper} \ {c}))
  BY DEF Recover, Release, Remove, Take, history
<1>6. CASE recovered' = recovered
  <2>1. \A d \in Calls : Standing(d)' = Standing(d)
    BY <1>3, <1>4, <1>6, StandingIs
  <2> QED
    BY <2>1 DEF standings
<1>7. CASE Stale /\ recovered' = recovered \cup ({Keeper} \ {c})
  <2>4. Keeper \in Calls
    BY <1>7 DEF TypeOK, Stale, Keeper, Locks, NoLock
  <2>1. PICK k \in Calls : k = Keeper
    BY <2>4
  <2>5. recovered' = recovered \cup ({k} \ {c})
    BY <1>7, <2>1
  <2>2. \A d \in Calls \ {k} : Standing(d)' = Standing(d)
    BY <1>3, <1>4, <2>5, StandingIs
  <2>3. GoesOn(Standing(k), Standing(k)')
    <3>1. CASE k = c
      BY <1>3, <3>1 DEF GoesOn
    <3>2. CASE k # c
      <4>1. pc'[k] = pc[k] /\ k \in recovered'
        BY <1>4, <2>5, <3>2
      <4>2. Standing(k)' = StandingOf(pc[k], TRUE)
        BY <4>1, StandingIs
      <4>3. CASE k \in recovered
        BY <4>2, <4>3, StandingIs DEF GoesOn
      <4>4. CASE k \notin recovered
        <5>1. Standing(k) = StandingOf(pc[k], FALSE)
          BY <4>4, StandingIs DEF StandingOf
        <5>2. CASE pc[k] = "work"
          BY <4>2, <5>1, <5>2, StandingValues DEF GoesOn
        <5>3. CASE pc[k] # "work"
          BY <4>2, <5>1, <5>3 DEF StandingOf, GoesOn
        <5> QED
          BY <5>2, <5>3
      <4> QED
        BY <4>3, <4>4
    <3> QED
      BY <3>1, <3>2
  <2> QED
    BY <2>2, <2>3, GoesOnIsAllowed
<1> QED
  BY <1>5, <1>6, <1>7

(* The work starts: the call is the owner.                                 *)
LEMMA EntersAlone ==
  ASSUME TypeOK, HasLock, ~taken, NEW c \in Calls \ recovered, Claim(c) \/ Refreshed(c),
         pc'[c] = "work"
  PROVE  \A d \in Calls : Standing(d) # "working"
<1> SUFFICES ASSUME NEW d \in Calls, Standing(d) = "working"
             PROVE  FALSE
  OBVIOUS
<1>1. pc[d] = "work" /\ lock.owner = d
  BY WorkingHasLock
<1>2. CASE Claim(c)
  BY <1>1, <1>2, SshCoordinatorAssumption DEF Claim, HasLock
<1>3. CASE Refreshed(c)
  BY <1>1, <1>3 DEF Refreshed, HasLock, Kept, Holding
<1> QED
  BY <1>2, <1>3

LEMMA StepIsAllowed ==
  ASSUME TypeOK, HasLock, ~taken, NEW c \in Calls, Step(c),
         ~(Recover(c) \/ Release(c) \/ Remove(c))
  PROVE  \/ GoesOn(Standing(c), Standing(c)')
         \/ /\ Standing(c) = "waiting" /\ Standing(c)' = "working"
            /\ \A d \in Calls : Standing(d) # "working"
<1> DEFINE r == c \in recovered
           s == StandingOf(pc[c], r)
           t == StandingOf(pc'[c], r)
<1>1. Standing(c) = s /\ Standing(c)' = t
  <2>1. recovered' = recovered
    BY DEF Step, Call, MakeDir, Check, Inspect, Remake, Claim, AcquireFails, Wake,
           Refreshed, RefreshFails, Heartbeat, FinishWork, Crash, history
  <2> QED
    BY <2>1, StandingIs
<1>2. CASE Claim(c) \/ Refreshed(c)
  <2>1. pc[c] \in {"claim", "refresh"} /\ pc'[c] \in {"work", "refresh", "settled"}
    BY <1>2 DEF Claim, Refreshed, StartWork, Goes, Return, TypeOK
  <2>2. s = "waiting" /\ t \in {"working", "waiting", "settled"}
        /\ (t = "working" => pc'[c] = "work" /\ ~r)
    BY <2>1, StandingValues DEF Acquiring
  <2> HIDE DEF s, t
  <2> QED
    BY <1>1, <1>2, <2>2, EntersAlone DEF GoesOn
<1>5. CASE Crash(c)
  <2>1. pc[c] \in PCs \ {"idle", "settled", "crashed"} /\ pc'[c] = "crashed"
    BY <1>5 DEF Crash, Goes, TypeOK
  <2>2. s \in {"waiting", "working", "settled"} /\ t = "crashed"
    BY <2>1, StandingValues DEF PCs, Holding
  <2> HIDE DEF s, t
  <2> QED
    BY <1>1, <2>2 DEF GoesOn
<1>6. CASE Call(c)
  <2>1. pc[c] = "idle" /\ pc'[c] = "mkdir"
    BY <1>6 DEF Call, Goes, TypeOK
  <2>2. s = "idle" /\ t = "waiting"
    BY <2>1, StandingValues DEF Acquiring
  <2> HIDE DEF s, t
  <2> QED
    BY <1>1, <2>2 DEF GoesOn
<1>7. CASE MakeDir(c) \/ Check(c) \/ Inspect(c) \/ Remake(c) \/ AcquireFails(c) \/ Wake(c)
  <2>1. pc[c] \in Acquiring \cup {"sleep"} /\ pc'[c] \in Acquiring \cup {"sleep", "settled"}
    BY <1>7 DEF MakeDir, Check, Inspect, Remake, AcquireFails, Wake, Goes, Return,
                Conflict, TypeOK, Acquiring
  <2>2. s = "waiting" /\ t \in {"waiting", "settled"}
    BY <2>1, StandingValues
  <2> HIDE DEF s, t
  <2> QED
    BY <1>1, <2>2 DEF GoesOn
<1>8. CASE RefreshFails(c) \/ FinishWork(c)
  <2>1. pc[c] \in {"refresh", "work"} /\ pc'[c] = "release"
    BY <1>8 DEF RefreshFails, FinishWork, Goes, TypeOK
  <2>2. s \in {"waiting", "working", "settled"} /\ t = "settled"
    BY <2>1, StandingValues
  <2> HIDE DEF s, t
  <2> QED
    BY <1>1, <2>2 DEF GoesOn
<1>9. CASE Heartbeat(c)
  BY <1>1, <1>9 DEF Heartbeat, GoesOn
<1> QED
  BY <1>2, <1>5, <1>6, <1>7, <1>8, <1>9 DEF Step

LEMMA NextIsAllowed ==
  ASSUME TypeOK, HasLock, [Next]_vars, ~taken'
  PROVE  UpToRecovery!Next \/ UNCHANGED standings
<1>1. ASSUME NEW c \in Calls, Step(c), ~(Recover(c) \/ Release(c) \/ Remove(c))
      PROVE  UpToRecovery!Next \/ UNCHANGED standings
  <2>1. recovered' = recovered
    BY <1>1 DEF Step, Call, MakeDir, Check, Inspect, Remake, Claim, AcquireFails, Wake,
           Refreshed, RefreshFails, Heartbeat, FinishWork, Crash, history
  <2>2. ~taken /\ \A d \in Calls \ {c} : Standing(d)' = Standing(d)
    BY <1>1, <2>1, StepOfOne, StandingIs
  <2> QED
    BY <1>1, <2>2, StepIsAllowed, GoesOnIsAllowed
<1>2. CASE GoesStale \/ UNCHANGED vars
  <2>1. UNCHANGED <<pc, recovered>>
    BY <1>2 DEF GoesStale, vars, history
  <2> QED
    BY <2>1, StandingIs DEF standings
<1> QED
  BY <1>1, <1>2, TakingIsAllowed DEF Next

(* Whatever fails, crashes, refused releases, broken connections, heartbeats*)
(* that fail or are late and the recovery of a lock gone stale under a call*)
(* that works, each step is one of the mutual exclusion contract of the    *)
(* MutationCoordinator port, until a script takes a lock that is being     *)
(* kept; a call whose stale lock is recovered leaves the scope with it.    *)
THEOREM ContractHoldsUntilTaken == Spec => ContractUntilTaken
<1>1. IInv /\ [Next]_vars
      => (~taken' => UpToRecovery!Next \/ UNCHANGED [c \in Calls |-> Standing(c)])
  BY NextIsAllowed DEF IInv, standings
<1>2. IInv /\ [Next]_vars
      => [~taken' => UpToRecovery!Next \/ UNCHANGED [c \in Calls |-> Standing(c)]]_vars
  BY <1>1
<1> QED
  BY <1>2, Reached, PTL DEF Spec, ContractUntilTaken

(* And when nothing fails and no heartbeat is late the coordinator         *)
(* implements the whole contract, for any number of calls and rounds: no   *)
(* lock is ever stale, so none is taken.  One crash is enough to break it  *)
(* (run ssh_double_recovery).                                              *)
THEOREM WithoutFaultsContractHolds ==
  ASSUME MaxFaults = 0
  PROVE  Spec => ImplementsContract
<1>1. IInv => ~taken /\ recovered = {}
  BY DEF IInv, TypeOK, NothingFailed
<1>2. Init => Contract!Init
  BY DEF Init, Contract!Init, Phase, Acquiring
<1>3. IInv /\ IInv' /\ [Next]_vars => [Contract!Next]_([c \in Calls |-> Phase(c)])
  <2> SUFFICES ASSUME IInv, IInv', [Next]_vars
               PROVE  Contract!Next \/ UNCHANGED [c \in Calls |-> Phase(c)]
    OBVIOUS
  <2>1. ~taken' /\ recovered = {} /\ recovered' = {}
    BY <1>1 DEF IInv, TypeOK, NothingFailed
  <2>2. UpToRecovery!Next \/ UNCHANGED standings
    BY <2>1, NextIsAllowed DEF IInv
  <2>3. /\ standings = [c \in Calls |-> Phase(c)]
        /\ standings' = [c \in Calls |-> Phase(c)']
    BY <2>1 DEF standings, Standing
  <2> QED
    BY <2>2, <2>3 DEF UpToRecovery!Next, UpToRecovery!Request, UpToRecovery!Enter, UpToRecovery!Leave, UpToRecovery!GiveUp, UpToRecovery!Die,
                      Contract!Next, Contract!Request, Contract!Enter, Contract!Leave,
                      Contract!GiveUp, Contract!Die, standings
<1> QED
  BY <1>2, <1>3, Reached, PTL DEF Spec, ImplementsContract, Contract!Spec
=============================================================================
