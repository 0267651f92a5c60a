--------------------- MODULE MutationCoordinatorProofs ---------------------
(***************************************************************************)
(* Proofs about MutationCoordinator.  For all constants: type correctness, *)
(* and that no call leaves its lease behind.  If no step is late by a whole *)
(* lease: that at most one call of a scope is told that it owns it, argued *)
(* with the tokens of the calls.  If steps are timely and a request asks   *)
(* for a scope at most once: that a running work keeps its lease, and that *)
(* the coordinator then implements ExclusiveScope.                         *)
(***************************************************************************)
EXTENDS MutationCoordinator, TLAPS

(* A request asks for a scope once: owner ids tell the callers apart.      *)
OneCallPerRequest ==
    \A c, d \in Calls : ScopeOf[c] = ScopeOf[d] /\ OwnerOf[c] = OwnerOf[d] => c = d

(* The inductive invariant of one call.  How far the end of the lease is   *)
(* from the heartbeat's pending step shrinks by at most MaxStall from each *)
(* step of the loop to the next, and is restored by the renewal.           *)
OnTime(c) == Pending(c) => now <= due[c] + MaxStall

Issued(c) ==
    (pc[c] \in {"insert", "takeover"} \/ beat[c] \in {"renew", "check"}) => due[c] <= now

Slack(c) ==
    /\ beat[c] = "timer" => due[c] + Ttl <= Row(c).expiresAt + Beat + 2 * MaxStall
    /\ beat[c] = "renew" => due[c] + Ttl <= Row(c).expiresAt + Beat + 3 * MaxStall
    /\ beat[c] = "check" => due[c] + Ttl <= Row(c).expiresAt + MaxStall

Holds(c) == beat[c] # "off" /\ ~lost[c] /\ Matches(c) /\ Slack(c)

Good(c) ==
    /\ OnTime(c)
    /\ Issued(c)
    /\ pc[c] \notin {"work", "release"} => beat[c] = "off"
    /\ pc[c] \in {"idle", "insert", "takeover", "sleep"} => ~lost[c]
    /\ pc[c] = "work" => Holds(c)

IInv == TypeOK /\ \A c \in Calls : Good(c)

-----------------------------------------------------------------------------
(* Rows and per-call variables keep their types (all constants).           *)
LEMMA FreshIsLease ==
    ASSUME TypeOK, NEW c \in Calls
    PROVE  Fresh(c) \in Lease /\ Stamp(c) \in Nat
  BY CoordinatorAssumption DEF TypeOK, Fresh, Stamp, Lease

LEMMA StartKeepsTypes ==
    ASSUME TypeOK, NEW c \in Calls, StartWork(c)
    PROVE  TypeOK'
  <1>1. row' \in [Scopes -> Lease \cup {NoLease}]
    BY FreshIsLease, CoordinatorAssumption DEF TypeOK, StartWork
  <1>2. acquired' \in [Calls -> Nat] /\ due' \in [Calls -> Nat]
    BY FreshIsLease, CoordinatorAssumption DEF TypeOK, StartWork
  <1> QED BY <1>1, <1>2 DEF TypeOK, StartWork, PCs, Beats

LEMMA RenewKeepsTypes ==
    ASSUME TypeOK, NEW c \in Calls, BeatRenew(c)
    PROVE  TypeOK'
  <1>1. row' \in [Scopes -> Lease \cup {NoLease}]
    <2>1. CASE Matches(c)
      <3>1. Row(c) \in Lease
        BY <2>1, CoordinatorAssumption DEF TypeOK, Matches, Row
      <3>2. [Row(c) EXCEPT !.expiresAt = Stamp(c) + Ttl] \in Lease
        BY <3>1, FreshIsLease, CoordinatorAssumption DEF Lease
      <3> QED BY <2>1, <3>2, CoordinatorAssumption DEF TypeOK, BeatRenew, Row
    <2>2. CASE ~Matches(c)
      BY <2>2 DEF TypeOK, BeatRenew
    <2> QED BY <2>1, <2>2
  <1> QED BY <1>1 DEF TypeOK, BeatRenew, Beats

LEMMA StepKeepsTypes == TypeOK /\ [Next]_vars => TypeOK'
  <1> SUFFICES ASSUME TypeOK, [Next]_vars PROVE TypeOK'
    OBVIOUS
  <1> USE CoordinatorAssumption DEF PCs, Beats, Outcomes
  <1>1. CASE Tick
    BY <1>1 DEF Tick, TypeOK
  <1>2. CASE \E c \in Calls : Call(c) \/ Wake(c)
    BY <1>2 DEF Call, Wake, TypeOK
  <1>3. CASE \E c \in Calls : Insert(c) \/ Takeover(c)
    <2>1. PICK c \in Calls : Insert(c) \/ Takeover(c)
      BY <1>3
    <2>2. CASE StartWork(c)
      BY <2>2, StartKeepsTypes
    <2>3. CASE ~StartWork(c)
      BY <2>1, <2>3 DEF Insert, Takeover, TypeOK
    <2> QED BY <2>2, <2>3
  <1>4. CASE \E c \in Calls : BeatRenew(c)
    BY <1>4, RenewKeepsTypes
  <1>5. CASE \E c \in Calls : BeatTimer(c)
    BY <1>5 DEF BeatTimer, TypeOK
  <1>10. CASE \E c \in Calls : BeatFails(c)
    BY <1>10 DEF BeatFails, TypeOK
  <1>9. CASE \E c \in Calls : BeatCheck(c)
    <2>1. PICK c \in Calls : BeatCheck(c)
      BY <1>9
    <2>2. beat' \in [Calls -> Beats] /\ due' \in [Calls -> Nat]
      BY <2>1 DEF BeatCheck, TypeOK
    <2>3. lost' \in [Calls -> BOOLEAN]
      BY <2>1 DEF BeatCheck, Matches, TypeOK
    <2> QED BY <2>1, <2>2, <2>3 DEF BeatCheck, TypeOK
  <1>6. CASE \E c \in Calls : AssertOwned(c) \/ WorkReturns(c) \/ ReleaseFails(c) \/ Crash(c)
    BY <1>6, ZenonT(60) DEF AssertOwned, WorkReturns, ReleaseFails, Crash, TypeOK
  <1>7. CASE \E c \in Calls : Release(c)
    BY <1>7 DEF Release, TypeOK
  <1>8. CASE UNCHANGED vars
    BY <1>8 DEF vars, TypeOK
  <1> QED BY <1>1, <1>2, <1>3, <1>4, <1>5, <1>6, <1>7, <1>8, <1>9, <1>10 DEF Next

(* Every variable keeps the type it starts with.                           *)
THEOREM TypeCorrect == Spec => []TypeOK
  <1>1. Init => TypeOK
    BY CoordinatorAssumption DEF Init, TypeOK, PCs, Beats, Outcomes
  <1> QED BY <1>1, StepKeepsTypes, PTL DEF Spec
-----------------------------------------------------------------------------
(* A running work's lease ends later than any clock of the system reads.   *)
LEMMA Unexpired ==
    ASSUME Timely, IInv, NEW c \in Calls, pc[c] = "work"
    PROVE  /\ Row(c) \in Lease
           /\ now + MaxSkew < Row(c).expiresAt
  <1>1. Holds(c) /\ OnTime(c)
    BY DEF IInv, Good
  <1>2. Row(c) \in Lease /\ Row(c).expiresAt \in Int
    BY <1>1, CoordinatorAssumption DEF IInv, TypeOK, Holds, Matches, Row, Lease
  <1>3. now <= due[c] + MaxStall
    BY <1>1 DEF OnTime, Pending, Holds
  <1>4. beat[c] \in {"timer", "renew", "check"}
    BY <1>1 DEF IInv, TypeOK, Beats, Holds
  <1>5. /\ due[c] \in Int /\ now \in Int /\ MaxStall \in Nat
        /\ MaxSkew \in Int /\ Beat \in Nat /\ Ttl \in Int
    BY CoordinatorAssumption DEF IInv, TypeOK
  <1>6. due[c] + Ttl <= Row(c).expiresAt + Beat + 3 * MaxStall
    BY <1>1, <1>2, <1>4, <1>5 DEF Holds, Slack
  <1>7. Beat + 4 * MaxStall + MaxSkew < Ttl
    BY DEF Timely
  <1> QED BY <1>2, <1>3, <1>5, <1>6, <1>7

(* The invariant of a call survives a step that touches neither its        *)
(* variables nor the row it works under.                                   *)
LEMMA Undisturbed ==
    ASSUME NEW c \in Calls, Good(c), now' = now,
           pc[c]' = pc[c], beat[c]' = beat[c], due[c]' = due[c],
           acquired[c]' = acquired[c], lost[c]' = lost[c],
           pc[c] = "work" => Row(c)' = Row(c)
    PROVE  Good(c)'
  <1>1. OnTime(c)' /\ Issued(c)'
    BY DEF Good, OnTime, Issued, Pending
  <1>2. ASSUME pc[c] = "work" PROVE Holds(c)'
    BY <1>2 DEF Good, Holds, Matches, Slack
  <1> QED BY <1>1, <1>2 DEF Good

(* No step of another call touches the row of a running work.              *)
LEMMA OthersLeaveRow ==
    ASSUME Timely, OneCallPerRequest, IInv,
           NEW c \in Calls, pc[c] = "work",
           NEW d \in Calls, d # c,
           \/ Insert(d) \/ Takeover(d) \/ BeatRenew(d) \/ Release(d)
    PROVE  Row(c)' = Row(c)
  <1>1. /\ Row(c) \in Lease
        /\ now + MaxSkew < Row(c).expiresAt
    BY Unexpired
  <1>2. Matches(c)
    BY DEF IInv, Good, Holds
  <1>3. CASE ScopeOf[d] # ScopeOf[c]
    BY <1>3, CoordinatorAssumption
       DEF IInv, TypeOK, Row, Insert, Takeover, BeatRenew, Release, StartWork
  <1>4. CASE ScopeOf[d] = ScopeOf[c]
    <2>1. OwnerOf[d] # OwnerOf[c] /\ Row(d) = Row(c)
      BY <1>4 DEF OneCallPerRequest, Row
    <2>2. ~Matches(d)
      BY <2>1, <1>2 DEF Matches
    <2>3. Row(d) # NoLease
      BY <2>1, <1>2 DEF Matches
    <2>4. ASSUME Takeover(d) PROVE ~Lapsed(d)
      <3>1. due[d] <= now
        BY <2>4 DEF IInv, Good, Issued, Takeover
      <3>2. Stamp(d) <= now + MaxSkew
        BY <3>1, CoordinatorAssumption DEF Stamp, IInv, TypeOK
      <3>3. Row(c).expiresAt \in Int /\ Stamp(d) \in Int /\ now + MaxSkew \in Int
        BY <1>1, CoordinatorAssumption DEF Stamp, IInv, TypeOK, Lease
      <3> QED BY <1>1, <2>1, <3>2, <3>3 DEF Lapsed
    <2>5. row' = row
      BY <2>2, <2>3, <2>4 DEF Insert, Takeover, BeatRenew, Release
    <2> QED BY <2>5 DEF Row
  <1> QED BY <1>3, <1>4

(* Acquisition establishes the invariant of the call.                      *)
LEMMA StartIsGood ==
    ASSUME IInv, NEW c \in Calls, pc[c] \in {"insert", "takeover"}, StartWork(c)
    PROVE  Good(c)'
  <1> USE CoordinatorAssumption
  <1>1. due[c] \in Nat /\ now \in Nat /\ Stamp(c) \in Nat /\ ScopeOf[c] \in Scopes
    BY DEF IInv, TypeOK, Stamp
  <1>2. now <= due[c] + MaxStall /\ ~lost[c]
    BY DEF IInv, Good, OnTime, Pending
  <1>3. /\ pc'[c] = "work" /\ beat'[c] = "timer" /\ due'[c] = now + Beat
        /\ acquired'[c] = Stamp(c) /\ lost' = lost /\ now' = now
    BY DEF StartWork, IInv, TypeOK
  <1>4. Row(c)' = Fresh(c)
    BY <1>1 DEF StartWork, IInv, TypeOK, Row
  <1>5. Matches(c)'
    <2>1. Fresh(c) # NoLease
      BY FreshIsLease DEF IInv
    <2> QED BY <1>3, <1>4, <2>1 DEF Matches, Fresh
  <1>6. Slack(c)'
    <2>1. Row(c)'.expiresAt = due[c] + Skew[c] + Ttl /\ Skew[c] \in Nat
      BY <1>4 DEF Fresh, Stamp
    <2> QED BY <1>1, <1>2, <1>3, <2>1 DEF Slack
  <1>7. OnTime(c)' /\ Issued(c)'
    BY <1>1, <1>3 DEF OnTime, Issued, Pending
  <1> QED BY <1>2, <1>3, <1>5, <1>6, <1>7 DEF Good, Holds
-----------------------------------------------------------------------------
(* A step of call c keeps the invariant of c.                              *)
LEMMA OwnStep ==
    ASSUME Timely, IInv, NEW c \in Calls,
           \/ Call(c) \/ Insert(c) \/ Takeover(c) \/ Wake(c)
           \/ BeatTimer(c) \/ BeatRenew(c) \/ BeatCheck(c) \/ BeatFails(c)
           \/ AssertOwned(c) \/ WorkReturns(c)
           \/ Release(c) \/ ReleaseFails(c) \/ Crash(c)
    PROVE  Good(c)'
  <1> USE CoordinatorAssumption DEF IInv
  <1>1. /\ Good(c) /\ now \in Nat /\ due[c] \in Nat
        /\ pc[c] \in PCs /\ beat[c] \in Beats
    BY DEF TypeOK
  <1> USE <1>1
  <1>2. CASE Call(c)
    <2>1. /\ pc[c] = "idle" /\ pc'[c] = "insert" /\ due'[c] = now
          /\ UNCHANGED <<now, beat, lost>>
      BY <1>2 DEF Call, TypeOK
    <2> QED BY <2>1 DEF Good, OnTime, Issued, Pending
  <1>3. CASE Insert(c) \/ Takeover(c)
    <2>1. CASE StartWork(c)
      BY <1>3, <2>1, StartIsGood DEF Insert, Takeover
    <2>2. CASE ~StartWork(c)
      BY <1>3, <2>2 DEF Insert, Takeover, TypeOK, Good, OnTime, Issued, Pending
    <2> QED BY <2>1, <2>2
  <1>4. CASE Wake(c)
    BY <1>4 DEF Wake, TypeOK, Good, OnTime, Issued, Pending
  <1>5. CASE BeatTimer(c)
    <2>1. /\ beat[c] = "timer" /\ beat'[c] = "renew" /\ due'[c] = now
          /\ now <= due[c] + MaxStall
          /\ UNCHANGED <<now, row, pc, acquired, lost>>
      BY <1>5 DEF BeatTimer, TypeOK, Good, OnTime, Pending
    <2>2. OnTime(c)' /\ Issued(c)'
      BY <2>1 DEF OnTime, Issued, Pending
    <2>3. ASSUME pc[c] = "work" PROVE Holds(c)'
      <3>1. Holds(c) /\ Row(c) \in Lease /\ Row(c)' = Row(c)
        BY <2>1, <2>3, Unexpired DEF Good, Row
      <3>2. Matches(c)'
        BY <2>1, <3>1 DEF Holds, Matches
      <3>3. Slack(c)'
        BY <2>1, <3>1 DEF Holds, Slack, Lease
      <3> QED BY <2>1, <3>1, <3>2, <3>3 DEF Holds
    <2> QED BY <2>1, <2>2, <2>3 DEF Good
  <1>6. CASE BeatRenew(c)
    <2>1. /\ beat[c] = "renew" /\ beat'[c] = "check" /\ due'[c] = now
          /\ UNCHANGED <<now, pc, acquired, lost>>
      BY <1>6 DEF BeatRenew, TypeOK
    <2>2. OnTime(c)' /\ Issued(c)'
      BY <2>1 DEF OnTime, Issued, Pending
    <2>3. ASSUME pc[c] = "work" PROVE Holds(c)'
      <3>1. Matches(c) /\ ~lost[c] /\ Row(c) \in Lease
        BY <2>3, Unexpired DEF Good, Holds
      <3>2. Row(c)' = [Row(c) EXCEPT !.expiresAt = Stamp(c) + Ttl]
        BY <1>6, <3>1 DEF BeatRenew, TypeOK, Row
      <3>3. /\ Row(c)'.owner = Row(c).owner
            /\ Row(c)'.acquiredAt = Row(c).acquiredAt
            /\ Row(c)'.expiresAt = due[c] + Skew[c] + Ttl
            /\ Row(c)' \in Lease
        BY <3>1, <3>2, FreshIsLease DEF Stamp, Lease
      <3>4. Matches(c)'
        BY <2>1, <3>1, <3>3 DEF Matches
      <3>5. now <= due[c] + MaxStall
        BY <2>1 DEF Good, OnTime, Pending
      <3>6. Slack(c)'
        BY <2>1, <3>3, <3>5 DEF Slack
      <3> QED BY <2>1, <3>1, <3>4, <3>6 DEF Holds
    <2> QED BY <2>1, <2>2, <2>3 DEF Good
  <1>7. CASE BeatCheck(c)
    <2>1. /\ beat[c] = "check" /\ now <= due[c] + MaxStall
          /\ UNCHANGED <<now, row, pc, acquired>>
      BY <1>7 DEF BeatCheck, Good, OnTime, Pending
    <2>2. CASE pc[c] = "work"
      <3>1. Matches(c) /\ ~lost[c] /\ Slack(c)
        BY <2>2 DEF Good, Holds
      <3>2. beat'[c] = "timer" /\ due'[c] = now + Beat
        BY <1>7, <2>2, <3>1 DEF BeatCheck, TypeOK
      <3>3. ~lost'[c] /\ Matches(c)'
        BY <1>7, <2>1, <3>1 DEF BeatCheck, TypeOK, Matches, Row
      <3>4. Row(c) \in Lease /\ Row(c)' = Row(c)
        BY <2>1, <2>2, Unexpired DEF Row
      <3>5. Slack(c)'
        BY <2>1, <3>1, <3>2, <3>4 DEF Slack, Lease
      <3>6. OnTime(c)' /\ Issued(c)'
        BY <2>1, <2>2, <3>2 DEF OnTime, Issued, Pending
      <3> QED BY <2>1, <2>2, <3>2, <3>3, <3>5, <3>6 DEF Good, Holds
    <2>3. CASE pc[c] # "work"
      <3>1. pc[c] = "release"
        BY <2>1, <2>3 DEF Good
      <3>2. beat'[c] = "off"
        BY <1>7, <2>3 DEF BeatCheck, TypeOK
      <3> QED BY <2>1, <3>1, <3>2 DEF Good, OnTime, Issued, Pending
    <2> QED BY <2>2, <2>3
  <1>8. CASE BeatFails(c)
    BY <1>8 DEF BeatFails, Timely
  <1>9. CASE AssertOwned(c)
    <2>1. pc[c] = "work" /\ ~Owned(c) /\ Skew[c] \in 0..MaxSkew
      BY <1>9 DEF AssertOwned
    <2>2. Owned(c)
      <3>1. Row(c) \in Lease /\ now + MaxSkew < Row(c).expiresAt
        BY <2>1, Unexpired
      <3> QED BY <2>1, <3>1 DEF Owned, Good, Holds, Lease
    <2> QED BY <2>1, <2>2
  <1>10. CASE WorkReturns(c)
    BY <1>10 DEF WorkReturns, TypeOK, Good, OnTime, Issued, Pending
  <1>11. CASE Release(c) \/ ReleaseFails(c) \/ Crash(c)
    BY <1>11 DEF Release, ReleaseFails, Crash, TypeOK, Good, OnTime, Issued, Pending
  <1> QED BY <1>2, <1>3, <1>4, <1>5, <1>6, <1>7, <1>8, <1>9, <1>10, <1>11
-----------------------------------------------------------------------------
StepOf(d) ==
    \/ Call(d) \/ Insert(d) \/ Takeover(d) \/ Wake(d)
    \/ BeatTimer(d) \/ BeatRenew(d) \/ BeatCheck(d) \/ BeatFails(d)
    \/ AssertOwned(d) \/ WorkReturns(d)
    \/ Release(d) \/ ReleaseFails(d) \/ Crash(d)

LEMMA NextIsTickOrStep == Next <=> Tick \/ \E d \in Calls : StepOf(d)
  BY DEF Next, StepOf

(* A step of d writes no variable of another call.                         *)
LEMMA StepIsLocal ==
    ASSUME TypeOK, NEW d \in Calls, StepOf(d), NEW c \in Calls, c # d
    PROVE  /\ now' = now
           /\ pc[c]' = pc[c] /\ beat[c]' = beat[c] /\ due[c]' = due[c]
           /\ acquired[c]' = acquired[c] /\ lost[c]' = lost[c]
  <1>1. CASE Call(d) \/ Wake(d) \/ BeatTimer(d) \/ BeatRenew(d)
    BY <1>1 DEF Call, Wake, BeatTimer, BeatRenew, TypeOK
  <1>2. CASE Insert(d) \/ Takeover(d)
    BY <1>2 DEF Insert, Takeover, StartWork, TypeOK
  <1>3. CASE BeatCheck(d) \/ BeatFails(d) \/ AssertOwned(d) \/ WorkReturns(d)
    BY <1>3 DEF BeatCheck, BeatFails, AssertOwned, WorkReturns, TypeOK
  <1>4. CASE Release(d) \/ ReleaseFails(d) \/ Crash(d)
    BY <1>4 DEF Release, ReleaseFails, Crash, TypeOK
  <1> QED BY <1>1, <1>2, <1>3, <1>4 DEF StepOf

(* Time passes only while no suspended step is as late as it may be.       *)
LEMMA TickStep ==
    ASSUME IInv, Tick, NEW c \in Calls
    PROVE  Good(c)'
  <1>1. /\ now' = now + 1 /\ now \in Nat /\ due[c] \in Nat /\ MaxStall \in Nat
        /\ UNCHANGED <<row, pc, beat, due, acquired, lost>>
    BY CoordinatorAssumption DEF IInv, TypeOK, Tick
  <1>2. Pending(c) => now < due[c] + MaxStall
    BY DEF Tick
  <1>3. OnTime(c)' /\ Issued(c)'
    BY <1>1, <1>2 DEF IInv, Good, OnTime, Issued, Pending
  <1>4. Holds(c) => Holds(c)'
    BY <1>1 DEF Holds, Matches, Slack, Row
  <1> QED BY <1>1, <1>3, <1>4 DEF IInv, Good

LEMMA Inductive ==
    ASSUME Timely, OneCallPerRequest
    PROVE  IInv /\ [Next]_vars => IInv'
  <1> SUFFICES ASSUME IInv, [Next]_vars, NEW c \in Calls PROVE Good(c)'
    BY StepKeepsTypes DEF IInv
  <1>1. CASE Tick
    BY <1>1, TickStep
  <1>2. ASSUME NEW d \in Calls, StepOf(d) PROVE Good(c)'
    <2>1. CASE c = d
      BY <1>2, <2>1, OwnStep DEF StepOf
    <2>2. CASE c # d
      <3>1. pc[c] = "work" => Row(c)' = Row(c)
        <4>1. CASE Insert(d) \/ Takeover(d) \/ BeatRenew(d) \/ Release(d)
          BY <2>2, <4>1, OthersLeaveRow
        <4>2. CASE ~(Insert(d) \/ Takeover(d) \/ BeatRenew(d) \/ Release(d))
          <5>1. row' = row
            BY <1>2, <4>2
               DEF StepOf, Call, Wake, BeatTimer, BeatCheck, BeatFails, AssertOwned,
                   WorkReturns, ReleaseFails, Crash
          <5> QED BY <5>1 DEF Row
        <4> QED BY <4>1, <4>2
      <3>2. /\ now' = now
            /\ pc[c]' = pc[c] /\ beat[c]' = beat[c] /\ due[c]' = due[c]
            /\ acquired[c]' = acquired[c] /\ lost[c]' = lost[c]
        BY <1>2, <2>2, StepIsLocal DEF IInv
      <3>3. Good(c)
        BY DEF IInv
      <3> QED BY <3>1, <3>2, <3>3, Undisturbed
    <2> QED BY <2>1, <2>2
  <1>3. CASE UNCHANGED vars
    <2>1. Good(c)
      BY DEF IInv
    <2>2. UNCHANGED <<now, row, pc, beat, due, acquired, lost>>
      BY <1>3 DEF vars
    <2> QED BY <2>1, <2>2, Undisturbed DEF Row
  <1> QED BY <1>1, <1>2, <1>3, NextIsTickOrStep

LEMMA Initially == Init => IInv
  <1>1. Init => TypeOK
    BY CoordinatorAssumption DEF Init, TypeOK, PCs, Beats, Outcomes
  <1>2. ASSUME Init, NEW c \in Calls PROVE Good(c)
    BY <1>2, CoordinatorAssumption DEF Init, Good, OnTime, Issued, Pending
  <1> QED BY <1>1, <1>2 DEF IInv

LEMMA Invariant ==
    ASSUME Timely, OneCallPerRequest
    PROVE  Spec => []IInv
  BY Initially, Inductive, PTL DEF Spec

(* A running work keeps its lease: for any number of calls, scopes and     *)
(* requests and any clock skew, as long as an interval, four late steps    *)
(* and the skew fit into the lease.                                        *)
THEOREM LeaseKept ==
    ASSUME Timely, OneCallPerRequest
    PROVE  Spec => []WorkKeepsLease
  <1>1. IInv => WorkKeepsLease
    <2> SUFFICES ASSUME IInv, NEW c \in Calls, pc[c] = "work" PROVE Owned(c)
      BY DEF WorkKeepsLease
    <2>1. Row(c) \in Lease /\ now + MaxSkew < Row(c).expiresAt
      BY Unexpired
    <2>2. now \in Nat /\ Skew[c] \in 0..MaxSkew /\ MaxSkew \in Nat /\ Row(c).expiresAt \in Nat
      BY <2>1, CoordinatorAssumption DEF IInv, TypeOK, Lease
    <2>3. ~lost[c] /\ Matches(c)
      BY DEF IInv, Good, Holds
    <2> QED BY <2>1, <2>2, <2>3 DEF Owned
  <1> QED BY <1>1, Invariant, PTL

-----------------------------------------------------------------------------
(* The refinement: a step of the coordinator is a step of ExclusiveScope or*)
(* leaves every phase as it is.                                            *)
PhaseOf(x) ==
    CASE x \in {"insert", "takeover", "sleep"} -> "waiting"
      [] x = "work"                            -> "working"
      [] x \in {"release", "settled"}          -> "settled"
      [] OTHER                                 -> x

phases == [c \in Calls |-> PhaseOf(pc[c])]

LEMMA PhasesAreThoseOfPc == phases = [c \in Calls |-> Phase(c)]
  BY DEF phases, PhaseOf, Phase

LEMMA PhaseSteps ==
    ASSUME TypeOK, NEW d \in Calls, NEW x \in PCs, pc' = [pc EXCEPT ![d] = x]
    PROVE  phases' = [phases EXCEPT ![d] = PhaseOf(x)]
  BY DEF TypeOK, phases, PhaseOf, PCs

(* No call works in the scope of a call that starts its work.              *)
LEMMA StartsAlone ==
    ASSUME Timely, IInv, NEW d \in Calls, Insert(d) \/ Takeover(d), pc'[d] = "work",
           NEW c \in Calls, ScopeOf[c] = ScopeOf[d]
    PROVE  pc[c] # "work"
  <1> SUFFICES ASSUME pc[c] = "work" PROVE FALSE
    OBVIOUS
  <1>1. Row(d) \in Lease /\ now + MaxSkew < Row(d).expiresAt
    BY Unexpired DEF Row
  <1>2. Row(d).expiresAt <= Stamp(d)
    BY <1>1, CoordinatorAssumption DEF Insert, Takeover, StartWork, Lapsed, IInv, TypeOK
  <1>3. pc[d] = "takeover"
    BY <1>1, CoordinatorAssumption DEF Insert, Takeover, StartWork, IInv, TypeOK
  <1>4. due[d] <= now
    BY <1>3 DEF IInv, Good, Issued
  <1> QED BY <1>1, <1>2, <1>4, CoordinatorAssumption DEF Stamp, IInv, TypeOK, Lease

(* What each step does to the phase of its call.                           *)
LEMMA StepsRefine ==
    ASSUME Timely, IInv, NEW d \in Calls, StepOf(d)
    PROVE  \/ phases' = phases
           \/ /\ phases[d] = "idle" /\ phases' = [phases EXCEPT ![d] = "waiting"]
           \/ /\ phases[d] = "waiting" /\ phases' = [phases EXCEPT ![d] = "working"]
              /\ \A c \in Calls : ScopeOf[c] = ScopeOf[d] => phases[c] # "working"
           \/ /\ phases[d] = "working" /\ phases' = [phases EXCEPT ![d] = "settled"]
           \/ /\ phases[d] = "waiting" /\ phases' = [phases EXCEPT ![d] = "settled"]
           \/ /\ phases[d] \in {"waiting", "working", "settled"}
              /\ phases' = [phases EXCEPT ![d] = "crashed"]
  <1>0. TypeOK /\ \A c \in Calls : pc[c] \in PCs /\ phases[c] = PhaseOf(pc[c])
    BY DEF IInv, TypeOK, phases
  <1>1. CASE UNCHANGED pc
    BY <1>1 DEF phases
  <1>2. CASE pc[d] = "idle" /\ pc' = [pc EXCEPT ![d] = "insert"]
    <2>1. phases' = [phases EXCEPT ![d] = PhaseOf("insert")]
      BY <1>0, <1>2, PhaseSteps DEF PCs
    <2> QED BY <1>0, <1>2, <2>1 DEF PhaseOf
  <1>3. CASE /\ pc[d] \in {"insert", "takeover"} /\ pc' = [pc EXCEPT ![d] = "work"]
             /\ Insert(d) \/ Takeover(d)
    <2>1. phases' = [phases EXCEPT ![d] = PhaseOf("work")]
      BY <1>0, <1>3, PhaseSteps DEF PCs
    <2>2. pc'[d] = "work"
      BY <1>0, <1>3 DEF TypeOK
    <2>3. ASSUME NEW c \in Calls, ScopeOf[c] = ScopeOf[d] PROVE phases[c] # "working"
      <3>1. pc[c] # "work" /\ pc[c] \in PCs
        BY <1>0, <1>3, <2>2, <2>3, StartsAlone
      <3> QED BY <1>0, <3>1 DEF PhaseOf, PCs
    <2> QED BY <1>0, <1>3, <2>1, <2>3 DEF PhaseOf
  <1>4. ASSUME NEW x \in {"insert", "takeover", "sleep"},
               pc[d] \in {"insert", "takeover", "sleep"}, pc' = [pc EXCEPT ![d] = x]
        PROVE  phases' = phases
    <2>0. x \in PCs
      BY DEF PCs
    <2>1. phases' = [phases EXCEPT ![d] = PhaseOf(x)]
      BY <1>0, <1>4, <2>0, PhaseSteps
    <2>2. PhaseOf(x) = phases[d]
      BY <1>0, <1>4 DEF PhaseOf
    <2> QED BY <2>1, <2>2 DEF phases
  <1>5. CASE pc[d] \in {"sleep", "work"} /\ \E x \in {"settled", "release"} :
                pc' = [pc EXCEPT ![d] = x]
    <2> PICK x \in {"settled", "release"} : pc' = [pc EXCEPT ![d] = x]
      BY <1>5
    <2>1. phases' = [phases EXCEPT ![d] = PhaseOf(x)]
      BY <1>0, <1>5, PhaseSteps DEF PCs
    <2> QED BY <1>0, <1>5, <2>1 DEF PhaseOf
  <1>6. CASE pc[d] = "release" /\ pc' = [pc EXCEPT ![d] = "settled"]
    <2>1. phases' = [phases EXCEPT ![d] = PhaseOf("settled")]
      BY <1>0, <1>6, PhaseSteps DEF PCs
    <2>2. PhaseOf("settled") = phases[d]
      BY <1>0, <1>6 DEF PhaseOf
    <2> QED BY <2>1, <2>2 DEF phases
  <1>7. CASE pc[d] \notin {"idle", "settled", "crashed"} /\ pc' = [pc EXCEPT ![d] = "crashed"]
    <2>1. phases' = [phases EXCEPT ![d] = PhaseOf("crashed")]
      BY <1>0, <1>7, PhaseSteps DEF PCs
    <2> QED BY <1>0, <1>7, <2>1 DEF PhaseOf, PCs
  <1>8. CASE Call(d)
    BY <1>8, <1>2 DEF Call
  <1>9. CASE Insert(d) \/ Takeover(d)
    BY <1>9, <1>3, <1>4 DEF Insert, Takeover, StartWork
  <1>10. CASE Wake(d)
    BY <1>10, <1>4, <1>5 DEF Wake
  <1>11. CASE BeatTimer(d) \/ BeatRenew(d) \/ BeatCheck(d) \/ BeatFails(d) \/ AssertOwned(d)
    BY <1>11, <1>1 DEF BeatTimer, BeatRenew, BeatCheck, BeatFails, AssertOwned
  <1>12. CASE WorkReturns(d)
    BY <1>12, <1>5 DEF WorkReturns
  <1>13. CASE Release(d) \/ ReleaseFails(d)
    BY <1>13, <1>6 DEF Release, ReleaseFails
  <1>14. CASE Crash(d)
    BY <1>14, <1>7 DEF Crash
  <1> QED BY <1>8, <1>9, <1>10, <1>11, <1>12, <1>13, <1>14 DEF StepOf

(* With timely steps and one call per request and scope, the lease table   *)
(* implements mutual exclusion per scope: for any number of calls and any  *)
(* crashes no work starts while another one of its scope runs.             *)
THEOREM CoordinatorImplementsContract ==
    ASSUME Timely, OneCallPerRequest
    PROVE  Spec => ImplementsContract
  <1>1. Init => Contract!Init
    BY DEF Init, Contract!Init, Phase
  <1>2. IInv /\ [Next]_vars => [Contract!Next]_([c \in Calls |-> Phase(c)])
    <2> SUFFICES ASSUME IInv, [Next]_vars
                 PROVE  Contract!Next \/ phases' = phases
      BY PhasesAreThoseOfPc DEF phases, Phase, PhaseOf
    <2>1. CASE Tick \/ UNCHANGED vars
      BY <2>1 DEF Tick, vars, phases
    <2>2. ASSUME NEW d \in Calls, StepOf(d) PROVE Contract!Next \/ phases' = phases
      <3>1. phases = [c \in Calls |-> Phase(c)] /\ phases' = [c \in Calls |-> Phase(c)']
        BY DEF phases, Phase, PhaseOf
      <3> QED
        BY <2>2, <3>1, StepsRefine
           DEF Contract!Next, Contract!Request, Contract!Enter, Contract!Leave,
               Contract!GiveUp, Contract!Die
    <2> QED BY <2>1, <2>2, NextIsTickOrStep
  <1> QED BY <1>1, <1>2, Invariant, PTL DEF Spec, ImplementsContract, Contract!Spec

-----------------------------------------------------------------------------
(* A call never leaks its lease: the row a call has made is the row of that*)
(* call until it is deleted or taken over, since only the call that starts *)
(* its work gets a new token and no call works again after it has thrown.  *)
ThrewIsSettled == \A c \in Calls : outcome[c] = "threw" => pc[c] = "settled"

LInv == TypeOK /\ ThrewIsSettled /\ NoLeakedLease

Keeper(c) == pc[c] \in {"work", "release", "crashed"} \/ outcome[c] = "threw"

(* Rows that were there go on to match the calls they have matched.        *)
LEMMA KeepersStay ==
    ASSUME LInv,
           \A s \in Scopes : row'[s] # NoLease => row[s] # NoLease,
           \A c \in Calls : Matches(c) /\ Keeper(c) /\ Row(c)' # NoLease
                                => Matches(c)' /\ Keeper(c)'
    PROVE  NoLeakedLease'
  BY DEF LInv, NoLeakedLease, Keeper, Row

LEMMA StartLeaksNothing ==
    ASSUME LInv, NEW d \in Calls, pc[d] \in {"insert", "takeover"}, StartWork(d)
    PROVE  ThrewIsSettled' /\ NoLeakedLease'
  <1>1. /\ ScopeOf[d] \in Scopes /\ Fresh(d) \in Lease /\ Fresh(d) # NoLease
        /\ row' = [row EXCEPT ![ScopeOf[d]] = Fresh(d)]
        /\ pc'[d] = "work" /\ acquired'[d] = Stamp(d) /\ outcome' = outcome
        /\ \A c \in Calls \ {d} : pc'[c] = pc[c] /\ acquired'[c] = acquired[c]
    BY FreshIsLease, CoordinatorAssumption DEF LInv, TypeOK, StartWork
  <1>2. ThrewIsSettled'
    BY <1>1 DEF LInv, ThrewIsSettled
  <1>3. ASSUME NEW s \in Scopes, row'[s] # NoLease
        PROVE  \E c \in Calls : ScopeOf[c] = s /\ Matches(c)' /\ Keeper(c)'
    <2>1. CASE s = ScopeOf[d]
      <3>1. Row(d)' = Fresh(d)
        BY <1>1 DEF Row, LInv, TypeOK
      <3>2. Matches(d)' /\ Keeper(d)'
        BY <1>1, <3>1 DEF Matches, Fresh, Keeper
      <3> QED BY <2>1, <3>2
    <2>2. CASE s # ScopeOf[d]
      <3>1. row'[s] = row[s]
        BY <1>1, <2>2 DEF LInv, TypeOK
      <3>2. PICK c \in Calls : ScopeOf[c] = s /\ Matches(c) /\ Keeper(c)
        BY <1>3, <3>1 DEF LInv, NoLeakedLease, Keeper
      <3>3. Matches(c)' /\ Keeper(c)'
        BY <1>1, <2>2, <3>1, <3>2 DEF Matches, Row, Keeper
      <3> QED BY <3>2, <3>3
    <2> QED BY <2>1, <2>2
  <1>4. NoLeakedLease'
    BY <1>3 DEF NoLeakedLease, Keeper
  <1> QED BY <1>2, <1>4

LEMMA RenewalKeepsMatches ==
    ASSUME TypeOK, NEW d \in Calls, BeatRenew(d), NEW c \in Calls
    PROVE  /\ Matches(c)' <=> Matches(c)
           /\ Matches(c) => Row(c) \in Lease /\ Row(c)' \in Lease
  <1>1. /\ ScopeOf[c] \in Scopes /\ ScopeOf[d] \in Scopes /\ acquired' = acquired
        /\ Row(c) \in Lease \cup {NoLease}
    BY CoordinatorAssumption DEF TypeOK, BeatRenew, Row
  <1>2. CASE Matches(d) /\ ScopeOf[c] = ScopeOf[d]
    <2>1. Row(c) = Row(d) /\ Row(d) \in Lease /\ Row(d) # NoLease
      BY <1>1, <1>2 DEF Matches, Row
    <2>2. Row(c)' = [Row(d) EXCEPT !.expiresAt = Stamp(d) + Ttl]
      BY <1>1, <1>2, <2>1 DEF BeatRenew, Row, TypeOK
    <2>3. /\ Row(c)' \in Lease /\ Row(c)'.owner = Row(c).owner
          /\ Row(c)'.acquiredAt = Row(c).acquiredAt
      BY <2>1, <2>2, FreshIsLease, CoordinatorAssumption DEF Lease
    <2> QED BY <1>1, <2>1, <2>3, CoordinatorAssumption DEF Matches
  <1>3. CASE ~(Matches(d) /\ ScopeOf[c] = ScopeOf[d])
    <2>1. Row(c)' = Row(c)
      BY <1>1, <1>3 DEF BeatRenew, Row, TypeOK
    <2> QED BY <1>1, <2>1 DEF Matches
  <1> QED BY <1>2, <1>3

LEMMA StepLeaksNothing == LInv /\ [Next]_vars => LInv'
  <1> SUFFICES ASSUME LInv, [Next]_vars PROVE ThrewIsSettled' /\ NoLeakedLease'
    BY StepKeepsTypes DEF LInv
  <1>0. TypeOK /\ ThrewIsSettled
    BY DEF LInv
  <1>1. ASSUME UNCHANGED <<row, acquired, pc, outcome>>
        PROVE  ThrewIsSettled' /\ NoLeakedLease'
    BY <1>0, <1>1, KeepersStay DEF ThrewIsSettled, Matches, Row, Keeper
  <1>2. ASSUME NEW d \in Calls, StepOf(d)
        PROVE  ThrewIsSettled' /\ NoLeakedLease'
    <2>1. CASE BeatTimer(d) \/ BeatCheck(d) \/ BeatFails(d) \/ AssertOwned(d)
      BY <2>1, <1>1 DEF BeatTimer, BeatCheck, BeatFails, AssertOwned
    <2>2. CASE StartWork(d) /\ (Insert(d) \/ Takeover(d))
      BY <2>2, StartLeaksNothing DEF Insert, Takeover
    <2>3. CASE BeatRenew(d)
      <3>1. UNCHANGED <<pc, outcome>> /\ \A s \in Scopes : row'[s] # NoLease => row[s] # NoLease
        BY <2>3, <1>0 DEF BeatRenew, Matches, Row, TypeOK
      <3>2. \A c \in Calls : Matches(c) => Matches(c)'
        BY <2>3, <1>0, RenewalKeepsMatches
      <3> QED BY <1>0, <3>1, <3>2, KeepersStay DEF ThrewIsSettled, Keeper
    <2>4. CASE Release(d)
      <3>1. /\ pc[d] = "release" /\ pc' = [pc EXCEPT ![d] = "settled"]
            /\ UNCHANGED <<acquired, outcome>>
            /\ row' = IF Matches(d) THEN [row EXCEPT ![ScopeOf[d]] = NoLease] ELSE row
        BY <2>4 DEF Release
      <3>2. ThrewIsSettled'
        BY <1>0, <3>1 DEF ThrewIsSettled, TypeOK
      <3>3. \A s \in Scopes : row'[s] # NoLease => row[s] # NoLease /\ row'[s] = row[s]
        BY <1>0, <3>1, CoordinatorAssumption DEF TypeOK
      <3>4. ASSUME NEW c \in Calls, Matches(c), Keeper(c), Row(c)' # NoLease
            PROVE  Matches(c)' /\ Keeper(c)'
        <4>1. Row(c)' = Row(c)
          BY <3>3, <3>4, CoordinatorAssumption DEF Row
        <4>2. c # d
          BY <1>0, <3>1, <3>4, CoordinatorAssumption DEF Row, TypeOK
        <4> QED BY <1>0, <3>1, <3>4, <4>1, <4>2 DEF Matches, Keeper, TypeOK
      <3> QED BY <3>2, <3>3, <3>4, KeepersStay
    <2>5. CASE Call(d) \/ Wake(d) \/ WorkReturns(d) \/ ReleaseFails(d) \/ Crash(d)
               \/ (~StartWork(d) /\ (Insert(d) \/ Takeover(d)))
      <3>1. UNCHANGED <<row, acquired>>
        BY <2>5 DEF Call, Wake, WorkReturns, ReleaseFails, Crash, Insert, Takeover
      <3>2. /\ \A c \in Calls \ {d} : pc'[c] = pc[c] /\ outcome'[c] = outcome[c]
            /\ Keeper(d) => Keeper(d)'
            /\ outcome'[d] = "threw" => pc'[d] = "settled"
        BY <2>5, <1>0
           DEF Call, Wake, WorkReturns, ReleaseFails, Crash, Insert, Takeover, Keeper,
               ThrewIsSettled, TypeOK
      <3> QED BY <1>0, <3>1, <3>2, KeepersStay DEF ThrewIsSettled, Matches, Row, Keeper
    <2> QED BY <1>2, <2>1, <2>2, <2>3, <2>4, <2>5 DEF StepOf
  <1>3. CASE Tick \/ UNCHANGED vars
    BY <1>1, <1>3 DEF Tick, vars
  <1> QED BY <1>2, <1>3, NextIsTickOrStep

(* A row belongs to a call that will delete it, unless that call died or   *)
(* its DELETE failed: for all constants, whatever is late, lost or renewed *)
(* after guard.assertOwned has refused (mutation-coordinator.ts, release). *)
THEOREM LeasesDoNotLeak == Spec => []NoLeakedLease
  <1>1. Init => LInv
    BY CoordinatorAssumption
       DEF Init, LInv, TypeOK, PCs, Beats, Outcomes, ThrewIsSettled, NoLeakedLease
  <1>2. LInv => NoLeakedLease
    BY DEF LInv
  <1> QED BY <1>1, <1>2, StepLeaksNothing, PTL DEF Spec

-----------------------------------------------------------------------------
(* The fencing token.  Two calls of one request and scope that are at work *)
(* at one time have different tokens if no step is late by a whole lease:  *)
(* a call whose row is not there any more was overtaken by a takeover, a   *)
(* lease after its token, and one that starts now reads its clock later    *)
(* than that.  Renewals only move the end of a lease up.                   *)
NotTooLate == MaxSkew + MaxStall < Ttl

Active(c) == pc[c] \in {"work", "release"}

Overtaken(c) == acquired[c] + Ttl <= now + MaxSkew

Kept(c) ==
    /\ OnTime(c)
    /\ Issued(c)
    /\ beat[c] # "off" => Active(c) /\ acquired[c] <= Stamp(c)
    /\ Active(c) => Matches(c) \/ Overtaken(c)

RowsLast == \A s \in Scopes :
    row[s] # NoLease => row[s].acquiredAt + Ttl <= row[s].expiresAt

TokensDiffer == \A c, d \in Calls :
    /\ Active(c) /\ Active(d)
    /\ ScopeOf[c] = ScopeOf[d] /\ OwnerOf[c] = OwnerOf[d] /\ acquired[c] = acquired[d]
    => c = d

AInv == TypeOK /\ RowsLast /\ TokensDiffer /\ \A c \in Calls : Kept(c)

LEMMA Numbers ==
    ASSUME TypeOK, NEW c \in Calls
    PROVE  /\ now \in Nat /\ due[c] \in Nat /\ acquired[c] \in Nat /\ Skew[c] \in Nat
           /\ Skew[c] <= MaxSkew /\ MaxSkew \in Nat /\ MaxStall \in Nat /\ Ttl \in Nat
           /\ Beat \in Nat /\ Retry \in Nat /\ ScopeOf[c] \in Scopes /\ Stamp(c) = due[c] + Skew[c]
           /\ Row(c) \in Lease \cup {NoLease}
           /\ Row(c) \in Lease => /\ Row(c).acquiredAt \in Nat /\ Row(c).expiresAt \in Nat
                                  /\ Row(c) # NoLease
  BY CoordinatorAssumption DEF TypeOK, Stamp, Row, Lease

(* What a call that is at work is to one that starts in its scope.         *)
LEMMA StartsLater ==
    ASSUME NotTooLate, AInv, NEW d \in Calls, pc[d] \in {"insert", "takeover"},
           Row(d) = NoLease \/ Lapsed(d),
           NEW c \in Calls, Active(c), ScopeOf[c] = ScopeOf[d]
    PROVE  Overtaken(c) /\ acquired[c] < Stamp(d)
  <1>1. /\ TypeOK /\ Kept(c) /\ Row(c) = Row(d)
        /\ due[d] <= now /\ now <= due[d] + MaxStall
    BY DEF AInv, Kept, OnTime, Issued, Pending, Row
  <1>2. CASE Matches(c)
    <2>1. Row(d) \in Lease /\ Row(d) # NoLease /\ Row(d).acquiredAt = acquired[c]
      BY <1>1, <1>2, Numbers DEF Matches
    <2>2. Row(d).acquiredAt + Ttl <= Row(d).expiresAt
      BY <1>1, <2>1, Numbers DEF AInv, RowsLast, Row
    <2>3. Row(d).expiresAt <= Stamp(d)
      BY <2>1 DEF Lapsed
    <2> QED BY <1>1, <2>1, <2>2, <2>3, Numbers, CoordinatorAssumption DEF Overtaken
  <1>3. CASE ~Matches(c)
    <2>1. Overtaken(c)
      BY <1>1, <1>3 DEF Kept
    <2> QED BY <1>1, <2>1, Numbers DEF Overtaken, NotTooLate
  <1> QED BY <1>2, <1>3

LEMMA StartKeepsTokens ==
    ASSUME NotTooLate, AInv, NEW d \in Calls, pc[d] \in {"insert", "takeover"}, StartWork(d),
           Row(d) = NoLease \/ Lapsed(d)
    PROVE  RowsLast' /\ TokensDiffer' /\ \A c \in Calls : Kept(c)'
  <1>0. TypeOK /\ Kept(d) /\ now <= due[d] + MaxStall /\ due[d] <= now
    BY DEF AInv, Kept, OnTime, Issued, Pending
  <1>1. /\ Fresh(d) \in Lease /\ Fresh(d) # NoLease /\ now' = now
        /\ row' = [row EXCEPT ![ScopeOf[d]] = Fresh(d)]
        /\ pc'[d] = "work" /\ acquired'[d] = Stamp(d)
        /\ beat'[d] = "timer" /\ due'[d] = now + Beat
    BY <1>0, FreshIsLease, CoordinatorAssumption DEF TypeOK, StartWork
  <1>2. \A c \in Calls \ {d} : /\ pc'[c] = pc[c] /\ acquired'[c] = acquired[c]
                               /\ beat'[c] = beat[c] /\ due'[c] = due[c]
    BY <1>0 DEF TypeOK, StartWork
  <1>3. ~Active(d)
    BY DEF Active
  <1>4. RowsLast'
    <2>1. Fresh(d).acquiredAt + Ttl <= Fresh(d).expiresAt
      BY <1>0, Numbers DEF Fresh
    <2> QED BY <1>0, <1>1, <2>1 DEF AInv, RowsLast, TypeOK
  <1>5. TokensDiffer'
    <2>1. ASSUME NEW c \in Calls \ {d}, Active(c), ScopeOf[c] = ScopeOf[d]
          PROVE  acquired[c] # Stamp(d)
      BY <1>0, <2>1, StartsLater, Numbers
    <2> QED BY <1>1, <1>2, <2>1 DEF AInv, TokensDiffer, Active
  <1>6. Kept(d)'
    <2>1. Matches(d)'
      <3>1. Row(d)' = Fresh(d)
        BY <1>0, <1>1, CoordinatorAssumption DEF Row, TypeOK
      <3> QED BY <1>1, <3>1 DEF Matches, Fresh
    <2>2. Stamp(d)' = due'[d] + Skew[d] /\ acquired'[d] <= Stamp(d)'
      BY <1>0, <1>1, Numbers DEF Stamp
    <2>3. OnTime(d)' /\ Issued(d)'
      BY <1>0, <1>1, Numbers DEF OnTime, Issued
    <2> QED BY <1>1, <2>1, <2>2, <2>3 DEF Kept, Active
  <1>7. ASSUME NEW c \in Calls \ {d}
        PROVE  Kept(c)'
    <2>1. Kept(c)
      BY DEF AInv
    <2>2. OnTime(c)' /\ Issued(c)' /\ (Active(c)' <=> Active(c)) /\ Stamp(c)' = Stamp(c)
          /\ (Overtaken(c)' <=> Overtaken(c))
      BY <1>1, <1>2, <2>1 DEF Kept, OnTime, Issued, Pending, Active, Stamp, Overtaken
    <2>3. Active(c) => Matches(c)' \/ Overtaken(c)
      <3>1. CASE ScopeOf[c] = ScopeOf[d]
        BY <3>1, StartsLater
      <3>2. CASE ScopeOf[c] # ScopeOf[d]
        <4>1. Row(c)' = Row(c)
          BY <1>0, <1>1, <3>2 DEF Row, TypeOK
        <4> QED BY <1>2, <2>1, <4>1 DEF Kept, Matches
      <3> QED BY <3>1, <3>2
    <2> QED BY <1>2, <2>1, <2>2, <2>3 DEF Kept
  <1> QED BY <1>4, <1>5, <1>6, <1>7

(* The steps that start no work: no token changes.                         *)
LEMMA TokensStay ==
    ASSUME AInv, UNCHANGED acquired, \A c \in Calls : Active(c)' => Active(c)
    PROVE  TokensDiffer'
  BY DEF AInv, TokensDiffer

(* The call's own part when it starts none.                                *)
LEMMA OwnKept ==
    ASSUME AInv, NEW d \in Calls, StepOf(d), ~(StartWork(d) /\ (Insert(d) \/ Takeover(d))),
           Active(d)' => (Matches(d) => Matches(d)')
    PROVE  Kept(d)'
  <1>0. TypeOK /\ Kept(d) /\ pc[d] \in PCs /\ beat[d] \in Beats
    BY DEF AInv, TypeOK
  <1>1. UNCHANGED <<now, acquired>> /\ (Active(d)' => Active(d))
    BY <1>0
       DEF StepOf, Call, Insert, Takeover, Wake, BeatTimer, BeatRenew, BeatCheck, BeatFails,
           AssertOwned, WorkReturns, Release, ReleaseFails, Crash, Active, TypeOK
  <1>2. Active(d)' => Matches(d)' \/ Overtaken(d)'
    BY <1>0, <1>1 DEF Kept, Overtaken
  <1>3. OnTime(d)' /\ Issued(d)'
    <2>1. CASE Call(d) \/ BeatTimer(d) \/ BeatRenew(d) \/ Wake(d) \/ Insert(d) \/ Takeover(d)
      BY <1>0, <2>1, Numbers
         DEF Call, Insert, Takeover, Wake, BeatTimer, BeatRenew, Kept, OnTime, Issued, Pending,
             Active, TypeOK
    <2>2. CASE BeatCheck(d) \/ BeatFails(d) \/ AssertOwned(d)
      BY <1>0, <2>2, Numbers
         DEF BeatCheck, BeatFails, AssertOwned, Kept, OnTime, Issued, Pending, Active, TypeOK
    <2>3. CASE WorkReturns(d) \/ Release(d) \/ ReleaseFails(d) \/ Crash(d)
      BY <1>0, <2>3, Numbers
         DEF WorkReturns, Release, ReleaseFails, Crash, Kept, OnTime, Issued, Pending, Active,
             TypeOK
    <2> QED BY <2>1, <2>2, <2>3 DEF StepOf
  <1>4. beat'[d] # "off" => beat[d] # "off" /\ Active(d)' /\ due[d] <= due'[d]
    <2>1. CASE Call(d) \/ Insert(d) \/ Takeover(d) \/ Wake(d)
      BY <1>0, <2>1 DEF Call, Insert, Takeover, Wake, Kept, Active, TypeOK
    <2>2. CASE BeatTimer(d) \/ BeatRenew(d) \/ BeatCheck(d)
      BY <1>0, <2>2, Numbers
         DEF BeatTimer, BeatRenew, BeatCheck, Kept, Issued, Active, TypeOK
    <2>3. CASE BeatFails(d) \/ AssertOwned(d) \/ WorkReturns(d) \/ Release(d) \/ ReleaseFails(d)
               \/ Crash(d)
      BY <1>0, <2>3, Numbers
         DEF BeatFails, AssertOwned, WorkReturns, Release, ReleaseFails, Crash, Kept, Active,
             TypeOK
    <2> QED BY <2>1, <2>2, <2>3 DEF StepOf
  <1>5. due'[d] \in Nat
    BY <1>0, StepKeepsTypes, NextIsTickOrStep DEF TypeOK
  <1>6. beat'[d] # "off" => acquired'[d] <= Stamp(d)'
    BY <1>0, <1>1, <1>4, <1>5, Numbers DEF Kept, Stamp
  <1> QED BY <1>2, <1>3, <1>4, <1>6 DEF Kept

LEMMA StepKeepsTokens ==
    ASSUME NotTooLate, AInv, NEW d \in Calls, StepOf(d)
    PROVE  RowsLast' /\ TokensDiffer' /\ \A c \in Calls : Kept(c)'
  <1>0. TypeOK
    BY DEF AInv
  <1>1. CASE StartWork(d) /\ (Insert(d) \/ Takeover(d))
    <2>1. CASE Row(d) = NoLease \/ Lapsed(d)
      BY <1>1, <2>1, StartKeepsTokens DEF Insert, Takeover
    <2>2. CASE ~(Row(d) = NoLease \/ Lapsed(d))
      <3>1. UNCHANGED row /\ pc'[d] # "work"
        BY <1>0, <1>1, <2>2 DEF Insert, Takeover, TypeOK
      <3> QED BY <1>0, <1>1, <3>1 DEF StartWork, TypeOK
    <2> QED BY <2>1, <2>2
  <1>2. CASE ~(StartWork(d) /\ (Insert(d) \/ Takeover(d)))
    <2>1. UNCHANGED <<now, acquired>> /\ (Active(d)' => Active(d))
      BY <1>0, <1>2
         DEF StepOf, Call, Insert, Takeover, Wake, BeatTimer, BeatRenew, BeatCheck, BeatFails,
             AssertOwned, WorkReturns, Release, ReleaseFails, Crash, Active, TypeOK
    <2>2. ASSUME NEW c \in Calls \ {d}
          PROVE  /\ pc'[c] = pc[c] /\ beat'[c] = beat[c] /\ due'[c] = due[c]
      BY <1>0, StepIsLocal
    <2>3. RowsLast' /\ \A c \in Calls : Active(c)' /\ Matches(c) => Matches(c)'
      <3>1. CASE BeatRenew(d)
        <4>1. \A c \in Calls : Matches(c) => Matches(c)'
          BY <1>0, <3>1, RenewalKeepsMatches
        <4>2. RowsLast'
          <5>1. CASE Matches(d)
            <6>1. Row(d) \in Lease /\ acquired[d] <= Stamp(d) /\ Row(d).acquiredAt = acquired[d]
              BY <1>0, <3>1, <5>1, Numbers DEF BeatRenew, AInv, Kept, Matches
            <6> DEFINE r == [Row(d) EXCEPT !.expiresAt = Stamp(d) + Ttl]
            <6>2. r.acquiredAt + Ttl <= r.expiresAt
              BY <1>0, <6>1, Numbers DEF Lease
            <6>3. row' = [row EXCEPT ![ScopeOf[d]] = r]
              BY <3>1, <5>1 DEF BeatRenew, Row
            <6> HIDE DEF r
            <6> QED BY <1>0, <6>2, <6>3 DEF AInv, RowsLast, TypeOK
          <5>2. CASE ~Matches(d)
            BY <3>1, <5>2 DEF BeatRenew, AInv, RowsLast
          <5> QED BY <5>1, <5>2
        <4> QED BY <4>1, <4>2
      <3>2. CASE Release(d)
        <4>1. /\ pc[d] = "release" /\ pc'[d] = "settled" /\ UNCHANGED acquired
              /\ row' = IF Matches(d) THEN [row EXCEPT ![ScopeOf[d]] = NoLease] ELSE row
          BY <1>0, <3>2 DEF Release, TypeOK
        <4>2. RowsLast'
          BY <1>0, <4>1 DEF AInv, RowsLast, TypeOK
        <4>3. ASSUME NEW c \in Calls, Active(c)', Matches(c)
              PROVE  Matches(c)'
          <5>1. c # d
            BY <4>1, <4>3 DEF Active
          <5>2. Active(c) /\ Active(d)
            BY <2>2, <4>1, <4>3, <5>1 DEF Active
          <5>3. ~(Matches(d) /\ ScopeOf[c] = ScopeOf[d])
            BY <4>3, <5>1, <5>2 DEF AInv, TokensDiffer, Matches, Row
          <5>4. Row(c)' = Row(c)
            BY <1>0, <4>1, <5>3, Numbers DEF Row, TypeOK
          <5> QED BY <4>1, <4>3, <5>4 DEF Matches
        <4> QED BY <4>2, <4>3
      <3>3. CASE ~BeatRenew(d) /\ ~Release(d)
        <4>1. UNCHANGED row
          BY <1>2, <3>3
             DEF StepOf, Call, Insert, Takeover, Wake, BeatTimer, BeatCheck, BeatFails,
                 AssertOwned, WorkReturns, ReleaseFails, Crash
        <4> QED BY <2>1, <4>1 DEF AInv, RowsLast, Matches, Row
      <3> QED BY <3>1, <3>2, <3>3
    <2>4. TokensDiffer'
      BY <2>1, <2>2, TokensStay DEF Active
    <2>5. Kept(d)'
      BY <1>2, <2>3, OwnKept
    <2>6. ASSUME NEW c \in Calls \ {d}
          PROVE  Kept(c)'
      <3>1. Kept(c) /\ (Active(c)' <=> Active(c))
        BY <2>2 DEF AInv, Active
      <3> QED
        BY <2>1, <2>2, <2>3, <3>1
           DEF Kept, OnTime, Issued, Pending, Overtaken, Stamp
    <2> QED BY <2>3, <2>4, <2>5, <2>6
  <1> QED BY <1>1, <1>2

LEMMA TickKeepsTokens ==
    ASSUME AInv, Tick
    PROVE  RowsLast' /\ TokensDiffer' /\ \A c \in Calls : Kept(c)'
  <1>1. /\ now' = now + 1 /\ UNCHANGED <<row, pc, beat, due, acquired>> /\ TypeOK
        /\ \A c \in Calls : Pending(c) => now < due[c] + MaxStall
    BY DEF Tick, AInv
  <1>2. ASSUME NEW c \in Calls
        PROVE  Kept(c)'
    <2>1. Kept(c)
      BY DEF AInv
    <2>2. OnTime(c)' /\ Issued(c)'
      BY <1>1, <2>1, Numbers DEF Kept, OnTime, Issued, Pending
    <2>3. Overtaken(c) => Overtaken(c)'
      BY <1>1, Numbers DEF Overtaken
    <2> QED BY <1>1, <2>1, <2>2, <2>3 DEF Kept, Active, Stamp, Matches, Row
  <1>3. RowsLast' /\ TokensDiffer'
    BY <1>1 DEF AInv, RowsLast, TokensDiffer, Active
  <1> QED BY <1>2, <1>3

(* guard.assertOwned says yes to one call of a scope at a time, also when  *)
(* leases are lost and late calls renew and release: for any number of     *)
(* calls and requests, as long as a step is not late by a whole lease.     *)
THEOREM AuthorityIsExclusive ==
    ASSUME NotTooLate
    PROVE  Spec => []OneAuthorisedHolder
  <1>1. Init => AInv
    <2>1. Init => TypeOK
      BY CoordinatorAssumption DEF Init, TypeOK, PCs, Beats, Outcomes
    <2>2. ASSUME Init PROVE RowsLast /\ TokensDiffer /\ \A c \in Calls : Kept(c)
      BY <2>2, CoordinatorAssumption
         DEF Init, RowsLast, TokensDiffer, Kept, OnTime, Issued, Pending, Active
    <2> QED BY <2>1, <2>2 DEF AInv
  <1>2. AInv /\ [Next]_vars => AInv'
    <2> SUFFICES ASSUME AInv, [Next]_vars
                 PROVE  RowsLast' /\ TokensDiffer' /\ \A c \in Calls : Kept(c)'
      BY StepKeepsTypes DEF AInv
    <2>1. CASE UNCHANGED vars
      BY <2>1 DEF vars, AInv, RowsLast, TokensDiffer, Kept, OnTime, Issued, Pending, Active,
                  Stamp, Matches, Row, Overtaken
    <2> QED BY <2>1, StepKeepsTokens, TickKeepsTokens, NextIsTickOrStep
  <1>3. AInv => OneAuthorisedHolder
    BY DEF AInv, TokensDiffer, Active, OneAuthorisedHolder, Owned, Matches, Row
  <1> QED BY <1>1, <1>2, <1>3, PTL DEF Spec
=============================================================================
