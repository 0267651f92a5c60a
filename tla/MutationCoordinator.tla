------------------------ MODULE MutationCoordinator ------------------------
(***************************************************************************)
(* PgMutationCoordinator.runExclusive: a business mutation runs under a    *)
(* row of the table mutation_coordinations, one row per scope, that names  *)
(* the owner, the instant of acquisition and the instant the lease ends.   *)
(* A call inserts the row, or takes it over once the lease has ended, and  *)
(* otherwise sleeps and tries again until its deadline.  While the work    *)
(* runs, a second loop of the same process renews the lease.               *)
(*                                                                         *)
(* Every await is a point where other processes run, so a clock read and   *)
(* the SQL statement that uses it are two steps: due[c] remembers when the *)
(* clock was read.  A suspended step (a timer that fired, a statement on   *)
(* its way) is at most MaxStall late; a large MaxStall is an arbitrarily   *)
(* slow process.  Clocks of the processes differ by at most MaxSkew.       *)
(*                                                                         *)
(* Left out: a nested runExclusive for a scope the same asynchronous       *)
(* context already holds, which runs its work inside the outer lease       *)
(* without any state of its own (the outer call awaits it).                *)
(***************************************************************************)
EXTENDS Integers, FiniteSets

CONSTANTS
    Calls, Scopes, ScopeOf,
    Owners, OwnerOf,    (* owner_id: the request id, shared by the calls of one request *)
    Skew, MaxSkew,      (* how far ahead each caller's clock is            *)
    Ttl, Beat,          (* leaseTtlMs, heartbeatIntervalMs                 *)
    Wait, Retry,        (* waitTimeoutMs, retryIntervalMs                  *)
    MaxStall,           (* how late a suspended step may resume            *)
    Faults,             (* may a heartbeat or release statement fail?      *)
    MaxTime,            (* bound on the clock, for model checking          *)
    NoLease             (* no row for the scope                            *)

Lease == [owner : Owners, acquiredAt : Nat, expiresAt : Nat]

ASSUME CoordinatorAssumption ==
    /\ ScopeOf \in [Calls -> Scopes]
    /\ OwnerOf \in [Calls -> Owners]
    /\ MaxSkew \in Nat /\ Skew \in [Calls -> 0..MaxSkew]
    /\ Ttl \in Nat \ {0} /\ Beat \in Nat \ {0} /\ Retry \in Nat \ {0}
    /\ Wait \in Nat /\ MaxStall \in Nat /\ MaxTime \in Nat
    /\ Faults \in BOOLEAN
    /\ NoLease \notin Lease

(* The arithmetic behind the policy 30 s / 10 s: from one clock read of    *)
(* the heartbeat to the moment the next renewal is in the table pass one   *)
(* statement, one check, one interval, one late timer and one statement.   *)
Timely == ~Faults /\ Beat + 4 * MaxStall + MaxSkew < Ttl

VARIABLES
    now,        (* true time                                               *)
    row,        (* mutation_coordinations                                  *)
    pc,         (* how far each call is                                    *)
    beat,       (* its heartbeat loop: off, timer, renew, check            *)
    due,        (* when its pending step was issued or its timer fires     *)
    deadline,   (* end of the bounded wait                                 *)
    acquired,   (* acquiredAt, the fencing token beside the owner id       *)
    lost,       (* leaseLost                                               *)
    outcome     (* what runExclusive returns                               *)

vars == <<now, row, pc, beat, due, deadline, acquired, lost, outcome>>

PCs == {"idle", "insert", "takeover", "sleep", "work", "release", "settled", "crashed"}
Beats == {"off", "timer", "renew", "check"}
Outcomes == {"none", "result", "leaseLost", "timeout", "threw"}

TypeOK ==
    /\ now \in Nat
    /\ row \in [Scopes -> Lease \cup {NoLease}]
    /\ pc \in [Calls -> PCs]
    /\ beat \in [Calls -> Beats]
    /\ due \in [Calls -> Nat]
    /\ deadline \in [Calls -> Nat]
    /\ acquired \in [Calls -> Nat]
    /\ lost \in [Calls -> BOOLEAN]
    /\ outcome \in [Calls -> Outcomes]

Init ==
    /\ now = 0
    /\ row = [s \in Scopes |-> NoLease]
    /\ pc = [c \in Calls |-> "idle"]
    /\ beat = [c \in Calls |-> "off"]
    /\ due = [c \in Calls |-> 0]
    /\ deadline = [c \in Calls |-> 0]
    /\ acquired = [c \in Calls |-> 0]
    /\ lost = [c \in Calls |-> FALSE]
    /\ outcome = [c \in Calls |-> "none"]

-----------------------------------------------------------------------------
Row(c) == row[ScopeOf[c]]
(* Mutant: the clock's offset is applied the wrong way round.              *)
StampBehind(c) == due[c] - Skew[c]

Stamp(c) == due[c] + Skew[c]        (* the clock value read for the pending step *)
Fresh(c) == [owner |-> OwnerOf[c], acquiredAt |-> Stamp(c), expiresAt |-> Stamp(c) + Ttl]

(* Mutant: the WHERE clauses forget acquired_at.                           *)
MatchesOwnerOnly(c) == Row(c) # NoLease /\ Row(c).owner = OwnerOf[c]

(* The WHERE clause of the heartbeat, of its check and of the release.     *)
Matches(c) ==
    /\ Row(c) # NoLease
    /\ Row(c).owner = OwnerOf[c]
    /\ Row(c).acquiredAt = acquired[c]

(* What guard.assertOwned answers.                                         *)
Owned(c) ==
    /\ ~lost[c]
    /\ Matches(c)
    /\ Row(c).expiresAt > now + Skew[c]

(* A step that has been issued and not yet resumed.                        *)
Pending(c) == pc[c] \in {"insert", "takeover", "sleep"} \/ beat[c] # "off"

Tick ==
    /\ now < MaxTime
    /\ \A c \in Calls : Pending(c) => now < due[c] + MaxStall
    /\ now' = now + 1
    /\ UNCHANGED <<row, pc, beat, due, deadline, acquired, lost, outcome>>

(* runExclusive: the deadline, then the first turn of the loop.            *)
Call(c) ==
    /\ pc[c] = "idle"
    /\ pc' = [pc EXCEPT ![c] = "insert"]
    /\ due' = [due EXCEPT ![c] = now]
    /\ deadline' = [deadline EXCEPT ![c] = now + Wait]
    /\ UNCHANGED <<now, row, beat, acquired, lost, outcome>>

(* executeWithLease: the work and the heartbeat loop start together.       *)
StartWork(c) ==
    /\ row' = [row EXCEPT ![ScopeOf[c]] = Fresh(c)]
    /\ acquired' = [acquired EXCEPT ![c] = Stamp(c)]
    /\ pc' = [pc EXCEPT ![c] = "work"]
    /\ beat' = [beat EXCEPT ![c] = "timer"]
    /\ due' = [due EXCEPT ![c] = now + Beat]
    /\ UNCHANGED <<now, deadline, lost, outcome>>

(* INSERT ... ON CONFLICT DO NOTHING.                                      *)
Insert(c) ==
    /\ pc[c] = "insert"
    /\ \/ Row(c) = NoLease /\ StartWork(c)
       \/ /\ Row(c) # NoLease
          /\ pc' = [pc EXCEPT ![c] = "takeover"]
          /\ due' = [due EXCEPT ![c] = now]
          /\ UNCHANGED <<now, row, beat, deadline, acquired, lost, outcome>>

(* Mutant: the takeover forgets the expiry condition.                      *)
LapsedAlways(c) == Row(c) # NoLease

(* UPDATE ... WHERE lease_expires_at <= now.                               *)
Lapsed(c) == Row(c) # NoLease /\ Row(c).expiresAt <= Stamp(c)

Takeover(c) ==
    /\ pc[c] = "takeover"
    /\ \/ Lapsed(c) /\ StartWork(c)
       \/ /\ ~Lapsed(c)
          /\ pc' = [pc EXCEPT ![c] = "sleep"]
          /\ due' = [due EXCEPT ![c] = now + Retry]
          /\ UNCHANGED <<now, row, beat, deadline, acquired, lost, outcome>>

(* The head of the loop again, or the coordination timeout after it.       *)
Wake(c) ==
    /\ pc[c] = "sleep" /\ due[c] <= now
    /\ \/ /\ now <= deadline[c]
          /\ pc' = [pc EXCEPT ![c] = "insert"]
          /\ due' = [due EXCEPT ![c] = now]
          /\ UNCHANGED outcome
       \/ /\ now > deadline[c]
          /\ pc' = [pc EXCEPT ![c] = "settled"]
          /\ outcome' = [outcome EXCEPT ![c] = "timeout"]
          /\ UNCHANGED due
    /\ UNCHANGED <<now, row, beat, deadline, acquired, lost>>

-----------------------------------------------------------------------------
(* The heartbeat loop; it also runs on while release awaits it.            *)
BeatTimer(c) ==
    /\ beat[c] = "timer" /\ due[c] <= now
    /\ beat' = [beat EXCEPT ![c] = "renew"]
    /\ due' = [due EXCEPT ![c] = now]
    /\ UNCHANGED <<now, row, pc, deadline, acquired, lost, outcome>>

(* Mutant: the renewal writes heartbeat_at but not lease_expires_at.       *)
BeatRenewOnlyStamp(c) ==
    /\ beat[c] = "renew"
    /\ beat' = [beat EXCEPT ![c] = "check"]
    /\ due' = [due EXCEPT ![c] = now]
    /\ UNCHANGED <<now, row, pc, deadline, acquired, lost, outcome>>

(* The renewal does not ask whether the lease has ended meanwhile.         *)
BeatRenew(c) ==
    /\ beat[c] = "renew"
    /\ row' = IF Matches(c)
                THEN [row EXCEPT ![ScopeOf[c]].expiresAt = Stamp(c) + Ttl]
                ELSE row
    /\ beat' = [beat EXCEPT ![c] = "check"]
    /\ due' = [due EXCEPT ![c] = now]
    /\ UNCHANGED <<now, pc, deadline, acquired, lost, outcome>>

BeatCheck(c) ==
    /\ beat[c] = "check"
    /\ lost' = [lost EXCEPT ![c] = @ \/ ~Matches(c)]
    /\ \/ /\ Matches(c) /\ pc[c] = "work"
          /\ beat' = [beat EXCEPT ![c] = "timer"]
          /\ due' = [due EXCEPT ![c] = now + Beat]
       \/ /\ ~Matches(c) \/ pc[c] = "release"
          /\ beat' = [beat EXCEPT ![c] = "off"]
          /\ UNCHANGED due
    /\ UNCHANGED <<now, row, pc, deadline, acquired, outcome>>

(* A statement of the loop throws: the catch marks the lease lost.         *)
BeatFails(c) ==
    /\ Faults /\ beat[c] \in {"renew", "check"}
    /\ beat' = [beat EXCEPT ![c] = "off"]
    /\ lost' = [lost EXCEPT ![c] = TRUE]
    /\ UNCHANGED <<now, row, pc, due, deadline, acquired, outcome>>

(* The work asks guard.assertOwned; a refusal is remembered.               *)
AssertOwned(c) ==
    /\ pc[c] = "work"
    /\ ~Owned(c)
    /\ lost' = [lost EXCEPT ![c] = TRUE]
    /\ UNCHANGED <<now, row, pc, beat, due, deadline, acquired, outcome>>

(* The work returns: the result is replaced if the lease is known lost;    *)
(* the finally block wakes a heartbeat that sleeps.                        *)
WorkReturns(c) ==
    /\ pc[c] = "work"
    /\ pc' = [pc EXCEPT ![c] = "release"]
    /\ outcome' = [outcome EXCEPT ![c] = IF lost[c] THEN "leaseLost" ELSE "result"]
    /\ beat' = [beat EXCEPT ![c] = IF @ = "timer" THEN "off" ELSE @]
    /\ UNCHANGED <<now, row, due, deadline, acquired, lost>>

(* Mutant: a call that lost its lease leaves the row alone.                *)
ReleaseUnlessLost(c) ==
    /\ pc[c] = "release" /\ beat[c] = "off"
    /\ row' = IF Matches(c) /\ ~lost[c] THEN [row EXCEPT ![ScopeOf[c]] = NoLease] ELSE row
    /\ pc' = [pc EXCEPT ![c] = "settled"]
    /\ UNCHANGED <<now, beat, due, deadline, acquired, lost, outcome>>

(* After the heartbeat has ended: DELETE ... WHERE owner and acquired_at.  *)
Release(c) ==
    /\ pc[c] = "release" /\ beat[c] = "off"
    /\ row' = IF Matches(c) THEN [row EXCEPT ![ScopeOf[c]] = NoLease] ELSE row
    /\ pc' = [pc EXCEPT ![c] = "settled"]
    /\ UNCHANGED <<now, beat, due, deadline, acquired, lost, outcome>>

(* The DELETE throws, and its exception replaces the result.               *)
ReleaseFails(c) ==
    /\ Faults
    /\ pc[c] = "release" /\ beat[c] = "off"
    /\ pc' = [pc EXCEPT ![c] = "settled"]
    /\ outcome' = [outcome EXCEPT ![c] = "threw"]
    /\ UNCHANGED <<now, row, beat, due, deadline, acquired, lost>>

(* The process dies: the row stays until its lease ends.                   *)
Crash(c) ==
    /\ pc[c] \notin {"idle", "settled", "crashed"}
    /\ pc' = [pc EXCEPT ![c] = "crashed"]
    /\ beat' = [beat EXCEPT ![c] = "off"]
    /\ UNCHANGED <<now, row, due, deadline, acquired, lost, outcome>>

Next ==
    \/ Tick
    \/ \E c \in Calls :
        \/ Call(c) \/ Insert(c) \/ Takeover(c) \/ Wake(c)
        \/ BeatTimer(c) \/ BeatRenew(c) \/ BeatCheck(c) \/ BeatFails(c)
        \/ AssertOwned(c) \/ WorkReturns(c)
        \/ Release(c) \/ ReleaseFails(c) \/ Crash(c)

Spec == Init /\ [][Next]_vars

-----------------------------------------------------------------------------
(* How far a call is, as its caller sees it.                               *)
Phase(c) ==
    CASE pc[c] \in {"insert", "takeover", "sleep"} -> "waiting"
      [] pc[c] = "work"                            -> "working"
      [] pc[c] \in {"release", "settled"}          -> "settled"
      [] OTHER                                     -> pc[c]

Contract == INSTANCE ExclusiveScope WITH phase <- [c \in Calls |-> Phase(c)]

(* While steps are not too late (Timely), the coordinator is the mutual    *)
(* exclusion the use cases rely on: no work starts in a scope where        *)
(* another call still works, whatever the crashes and takeovers.           *)
ImplementsContract == Contract!Spec

(* While steps are not too late, the heartbeat keeps the lease of a        *)
(* running work: guard.assertOwned never refuses a call that is alive, so  *)
(* no finished work is turned into a lease-lost error.                     *)
WorkKeepsLease == \A c \in Calls : pc[c] = "work" => Owned(c)

(* Even when steps are so late that leases are lost, and calls that have   *)
(* lost theirs go on to renew and to release, guard.assertOwned never says *)
(* yes to two calls of one scope at a time, also when both carry           *)
(* the id of the same request (provided that no statement is late by as    *)
(* much as a whole lease: acquired_at tells the two apart).                *)
OneAuthorisedHolder ==
    \A c, d \in Calls :
        /\ ScopeOf[c] = ScopeOf[d]
        /\ pc[c] = "work" /\ Owned(c)
        /\ pc[d] = "work" /\ Owned(d)
        => c = d

(* A lease outlives its call only through a crash or a failed DELETE: any  *)
(* other row is that of a call which is still going to delete it, also     *)
(* when guard.assertOwned refused that call and its heartbeat has renewed  *)
(* the lease since.                                                        *)
NoLeakedLease ==
    \A s \in Scopes : row[s] # NoLease =>
        \E c \in Calls : /\ ScopeOf[c] = s /\ Matches(c)
                         /\ \/ pc[c] \in {"work", "release", "crashed"}
                            \/ outcome[c] = "threw"
=============================================================================
