--------------------------- MODULE SshCoordinator ---------------------------
(***************************************************************************)
(* runExclusive of the SSH mutation coordinator for one coordination scope:*)
(* a lock directory on the remote host with an owner.json in it.  Every    *)
(* command of the acquire and release scripts that looks at the directory  *)
(* or changes it is a step of its own, and names the directory by its path,*)
(* whoever made the one that is there.  The scripts of other scopes work on*)
(* other directories.  A script ends with the connection it was sent over. *)
(***************************************************************************)
EXTENDS Integers, FiniteSets

CONSTANTS
    Calls,       (* calls of runExclusive for the scope                    *)
    None,        (* no owner.json in the directory                         *)
    MaxTries,    (* bound: rounds of the loop before the deadline          *)
    FaultKinds,  (* what may fail: "crash", "acquire", "beat", "release";  *)
                 (* "stall" is a heartbeat that comes after staleAfter     *)
    MaxFaults    (* bound: how often something fails                       *)

ASSUME SshCoordinatorAssumption ==
    /\ None \notin Calls
    /\ MaxTries \in Nat /\ MaxFaults \in Nat
    /\ FaultKinds \subseteq {"crash", "acquire", "beat", "release", "stall"}

VARIABLES
    lock,     (* the lock directory: who made it, whose owner.json it has, *)
              (* and whether its heartbeat is younger than staleAfter      *)
    pc,       (* the next command of each call                             *)
    tries,    (* rounds each call has waited (waitedForScope: not 0)       *)
    lost,     (* heartbeatError                                            *)
    worked,   (* the result of the work                                    *)
    outcome,  (* what runExclusive returned                                *)
    overlaps, (* history: the pairs of calls whose work ran at one time    *)
    taken,    (* history: a fresh lock was moved or removed by another     *)
              (* call than its keeper, or its owner.json overwritten       *)
    recovered,(* history: the calls whose lock was moved away when stale   *)
    missed,   (* history: the calls whose release found no owner.json      *)
    faults

vars == <<lock, pc, tries, lost, worked, outcome, overlaps, taken, recovered, missed, faults>>
history == <<taken, recovered, missed>>

NoLock == [maker |-> None, owner |-> None, fresh |-> FALSE]
Locks == [maker : Calls, owner : Calls \cup {None}, fresh : BOOLEAN] \cup {NoLock}

Acquiring == {"mkdir", "check", "inspect", "recover", "remake", "claim"}
Holding == {"refresh", "work"}
PCs == {"idle", "sleep", "release", "remove", "settled", "crashed"} \cup Acquiring \cup Holding

TypeOK ==
    /\ lock \in Locks
    /\ pc \in [Calls -> PCs]
    /\ tries \in [Calls -> 0..MaxTries + 1]
    /\ lost \in [Calls -> BOOLEAN]
    /\ worked \in [Calls -> {"none", "ok", "error"}]
    /\ outcome \in [Calls -> {"none", "ok", "error"}]
    /\ overlaps \subseteq Calls \X Calls
    /\ taken \in BOOLEAN
    /\ recovered \subseteq Calls /\ missed \subseteq Calls
    /\ faults \in 0..MaxFaults

Init ==
    /\ lock = NoLock
    /\ pc = [c \in Calls |-> "idle"]
    /\ tries = [c \in Calls |-> 0]
    /\ lost = [c \in Calls |-> FALSE]
    /\ worked = [c \in Calls |-> "none"]
    /\ outcome = [c \in Calls |-> "none"]
    /\ overlaps = {}
    /\ taken = FALSE /\ recovered = {} /\ missed = {}
    /\ faults = 0

-----------------------------------------------------------------------------
Fault(kind) == kind \in FaultKinds /\ faults < MaxFaults /\ faults' = faults + 1

Goes(c, place) == pc' = [pc EXCEPT ![c] = place]

Return(c, result) == Goes(c, "settled") /\ outcome' = [outcome EXCEPT ![c] = result]

(* Mutant: mkdir -p.                                                       *)
MakeAnyway(c) == lock' = [maker |-> c, owner |-> None, fresh |-> TRUE]

(* mkdir "$lock_dir", which refuses a directory that is there.             *)
Make(c) == lock = NoLock /\ lock' = [maker |-> c, owner |-> None, fresh |-> TRUE]

Keeper == IF lock.owner = None THEN lock.maker ELSE lock.owner

(* The age of the heartbeat, or of the directory without an owner.json.    *)
Stale == lock # NoLock /\ ~lock.fresh

(* The lock directory is moved away or removed by its path, whoever keeps  *)
(* the one that is there.                                                  *)
Take(c) ==
    /\ lock' = NoLock
    /\ taken' = (taken \/ (lock.fresh /\ Keeper # c))
    /\ recovered' = recovered \cup (IF Stale THEN {Keeper} \ {c} ELSE {})

Call(c) ==
    /\ pc[c] = "idle" /\ Goes(c, "mkdir")
    /\ UNCHANGED <<lock, tries, lost, worked, outcome, overlaps, history, faults>>

MakeDir(c) ==
    /\ pc[c] = "mkdir"
    /\ \/ Make(c) /\ Goes(c, "claim")
       \/ lock # NoLock /\ Goes(c, "check") /\ UNCHANGED lock
    /\ UNCHANGED <<tries, lost, worked, outcome, overlaps, history, faults>>

(* A directory that is gone by now counts as one that cannot be created.   *)
Check(c) ==
    /\ pc[c] = "check"
    /\ \/ lock # NoLock /\ Goes(c, "inspect") /\ UNCHANGED outcome
       \/ lock = NoLock /\ Return(c, "error")
    /\ UNCHANGED <<lock, tries, lost, worked, overlaps, history, faults>>

(* Exit 73: the loop sleeps, unless the deadline has come.                 *)
Conflict(c) == Goes(c, "sleep")

Inspect(c) ==
    /\ pc[c] = "inspect"
    /\ IF Stale THEN Goes(c, "recover") ELSE Conflict(c)
    /\ UNCHANGED <<lock, tries, lost, worked, outcome, overlaps, history, faults>>

(* mv "$lock_dir" moves away whichever directory is there by now.          *)
Recover(c) ==
    /\ pc[c] = "recover"
    /\ \/ lock # NoLock /\ Take(c) /\ Goes(c, "remake")
       \/ lock = NoLock /\ Conflict(c) /\ UNCHANGED <<lock, taken, recovered>>
    /\ UNCHANGED <<tries, lost, worked, outcome, overlaps, missed, faults>>

Remake(c) ==
    /\ pc[c] = "remake"
    /\ \/ Make(c) /\ Goes(c, "claim") /\ UNCHANGED outcome
       \/ lock # NoLock /\ Return(c, "error") /\ UNCHANGED lock
    /\ UNCHANGED <<tries, lost, worked, overlaps, history, faults>>

Working == {c \in Calls : pc[c] = "work"}

StartWork(c) ==
    /\ Goes(c, "work")
    /\ overlaps' = overlaps \cup ({c} \X Working)

(* owner.json is written into the directory that is there; a call that had *)
(* to wait refreshes the local copy of the remote state before its work.   *)
Claim(c) ==
    /\ pc[c] = "claim"
    /\ \/ /\ lock # NoLock
          /\ lock' = [lock EXCEPT !.owner = c, !.fresh = TRUE]
          /\ taken' = (taken \/ Keeper # c)
          /\ IF tries[c] = 0 THEN StartWork(c) ELSE Goes(c, "refresh") /\ UNCHANGED overlaps
          /\ UNCHANGED outcome
       \/ lock = NoLock /\ Return(c, "error") /\ UNCHANGED <<lock, overlaps, taken>>
    /\ UNCHANGED <<tries, lost, worked, recovered, missed, faults>>

(* The acquire command fails with its connection: runExclusive returns, and*)
(* what the script has made stays.                                         *)
AcquireFails(c) ==
    /\ pc[c] \in Acquiring /\ Fault("acquire")
    /\ Return(c, "error")
    /\ UNCHANGED <<lock, tries, lost, worked, overlaps, history>>

(* Mutant: the loop does not end at the deadline.                          *)
WakeAgain(c) ==
    /\ pc[c] = "sleep"
    /\ tries' = [tries EXCEPT ![c] = @ + 1]
    /\ Goes(c, "mkdir")
    /\ UNCHANGED <<lock, lost, worked, outcome, overlaps, history, faults>>

(* The next round, or the coordination timeout.                            *)
Wake(c) ==
    /\ pc[c] = "sleep"
    /\ \/ /\ tries[c] < MaxTries
          /\ tries' = [tries EXCEPT ![c] = @ + 1]
          /\ Goes(c, "mkdir") /\ UNCHANGED outcome
       \/ Return(c, "error") /\ UNCHANGED tries
    /\ UNCHANGED <<lock, lost, worked, overlaps, history, faults>>

-----------------------------------------------------------------------------
(* executeWithLease.                                                       *)
Refreshed(c) ==
    /\ pc[c] = "refresh" /\ StartWork(c)
    /\ UNCHANGED <<lock, tries, lost, worked, outcome, history, faults>>

(* Mutant: a refresh that fails returns before the finally block.          *)
RefreshFailsAtOnce(c) ==
    /\ pc[c] = "refresh" /\ Return(c, "error")
    /\ UNCHANGED <<lock, tries, lost, worked, overlaps, history, faults>>

RefreshFails(c) ==
    /\ pc[c] = "refresh" /\ Goes(c, "release")
    /\ worked' = [worked EXCEPT ![c] = "error"]
    /\ UNCHANGED <<lock, tries, lost, outcome, overlaps, history, faults>>

(* The heartbeat script, from the timer or from assertOwned: it renews the *)
(* owner.json of this call, or reports the lease lost; after an error of   *)
(* any kind the timer sends no other.                                      *)
Heartbeat(c) ==
    /\ pc[c] \in Holding /\ ~lost[c]
    /\ \/ /\ lock.owner = c
          /\ lock' = [lock EXCEPT !.fresh = TRUE]
          /\ UNCHANGED <<lost, faults>>
       \/ /\ IF lock.owner = c THEN Fault("beat") ELSE UNCHANGED faults
          /\ lost' = [lost EXCEPT ![c] = TRUE]
          /\ UNCHANGED lock
    /\ UNCHANGED <<pc, tries, worked, outcome, overlaps, history>>

FinishWork(c) ==
    /\ pc[c] = "work" /\ Goes(c, "release")
    /\ worked' \in {[worked EXCEPT ![c] = r] : r \in {"ok", "error"}}
    /\ UNCHANGED <<lock, tries, lost, outcome, overlaps, history, faults>>

(* Mutant: the error of the heartbeat is forgotten.                        *)
ResultOfWork(c, released) == IF worked[c] = "ok" /\ released THEN "ok" ELSE "error"

(* What runExclusive returns after the release.                            *)
Result(c, released) ==
    IF worked[c] = "ok" /\ released /\ ~lost[c] THEN "ok" ELSE "error"

(* The release script: no directory is a success, a directory without an   *)
(* owner.json is removed, one of another owner is an error.                *)
Release(c) ==
    /\ pc[c] = "release"
    /\ \/ /\ lock.owner = c
          /\ Goes(c, "remove") /\ UNCHANGED <<lock, outcome, history, faults>>
       \/ /\ lock.owner = None
          /\ Take(c)
          /\ missed' = missed \cup {c}
          /\ Return(c, Result(c, TRUE)) /\ UNCHANGED faults
       \/ /\ lock.owner \notin {c, None}
          /\ Return(c, Result(c, FALSE)) /\ UNCHANGED <<lock, history, faults>>
       \/ /\ Fault("release")
          /\ Return(c, Result(c, FALSE)) /\ UNCHANGED <<lock, history>>
    /\ UNCHANGED <<tries, lost, worked, overlaps>>

Remove(c) ==
    /\ pc[c] = "remove"
    /\ Take(c)
    /\ Return(c, Result(c, TRUE))
    /\ UNCHANGED <<tries, lost, worked, overlaps, missed, faults>>

-----------------------------------------------------------------------------
(* The process of the call dies.                                           *)
Crash(c) ==
    /\ pc[c] \notin {"idle", "settled", "crashed"} /\ Fault("crash")
    /\ Goes(c, "crashed")
    /\ UNCHANGED <<lock, tries, lost, worked, outcome, overlaps, history>>

(* staleAfter passes without a heartbeat: the keeper of the lock has ended,*)
(* sends none after an error, or is late with it.  Its event loop stands   *)
(* still while one of the ssh commands of its process runs (spawnSync).    *)
Silent(c) == pc[c] \in {"settled", "crashed"} \/ lost[c]

GoesStale ==
    /\ lock # NoLock /\ lock.fresh
    /\ IF Silent(Keeper) THEN UNCHANGED faults ELSE Fault("stall")
    /\ lock' = [lock EXCEPT !.fresh = FALSE]
    /\ UNCHANGED <<pc, tries, lost, worked, outcome, overlaps, history>>

Step(c) ==
    \/ Call(c) \/ MakeDir(c) \/ Check(c) \/ Inspect(c) \/ Recover(c) \/ Remake(c)
    \/ Claim(c) \/ AcquireFails(c) \/ Wake(c)
    \/ Refreshed(c) \/ RefreshFails(c) \/ Heartbeat(c) \/ FinishWork(c)
    \/ Release(c) \/ Remove(c) \/ Crash(c)

Next == (\E c \in Calls : Step(c)) \/ GoesStale

Spec == Init /\ [][Next]_vars

-----------------------------------------------------------------------------
(* As long as no script has taken a lock that was being kept, the work of  *)
(* two calls runs at one time only when the lock of one of them was found  *)
(* stale and recovered: crashes, refused releases, broken connections and  *)
(* failed heartbeats alone do not let a second one in.                     *)
WorksAlone == ~taken => \A c, d \in Working : c = d \/ c \in recovered \/ d \in recovered

(* Whatever was recovered, taken or overwritten, of two calls whose work   *)
(* ran at one time not both report success: the one that is not the owner  *)
(* hears of it from a heartbeat or from its release.  The exception is a   *)
(* call no heartbeat of which has failed by the time its release finds no  *)
(* owner.json, for instance because the other call has released before it: *)
(* the script exits with 0.                                                *)
Unaware(c) == c \in missed /\ ~lost[c]

OverlapIsReported ==
    \A c, d \in Calls :
        <<c, d>> \in overlaps /\ outcome[c] = "ok" /\ outcome[d] = "ok" => Unaware(c) \/ Unaware(d)

(* Unless something failed, a late heartbeat included, calls that are over *)
(* have left no lock: every error after mkdir, a refused refresh included, *)
(* ends in the release.                                                    *)
NoLockLeft ==
    faults = 0 /\ (\A c \in Calls : pc[c] \in {"idle", "settled"}) => lock = NoLock

(* docs/decisions/ADR-028, serialize-with-bounded-wait: "only one mutation *)
(* for the same logical scope may execute at a time"; what MutationCoordi- *)
(* nator.tla shows of the PostgreSQL coordinator.                          *)
Phase(c) ==
    CASE pc[c] \in Acquiring \cup {"sleep", "refresh"} -> "waiting"
      [] pc[c] = "work" -> "working"
      [] pc[c] \in {"release", "remove"} -> "settled"
      [] OTHER -> pc[c]

Contract == INSTANCE ExclusiveScope
              WITH Scopes <- {"scope"}, ScopeOf <- [c \in Calls |-> "scope"],
                   phase <- [c \in Calls |-> Phase(c)]

ImplementsContract == Contract!Spec

(* What is left of it when anything may fail: until some script takes a    *)
(* lock that is being kept, every step is one that the contract allows,    *)
(* when a call counts as out of the scope from the moment on at which its  *)
(* lock, stale, is recovered, whether its work has ended or not.           *)
Standing(c) == IF pc[c] = "work" /\ c \in recovered THEN "settled" ELSE Phase(c)

UpToRecovery == INSTANCE ExclusiveScope
           WITH Scopes <- {"scope"}, ScopeOf <- [c \in Calls |-> "scope"],
                phase <- [c \in Calls |-> Standing(c)]

ContractUntilTaken ==
    [][~taken' => UpToRecovery!Next \/ UNCHANGED [c \in Calls |-> Standing(c)]]_vars
=============================================================================
