----------------------------- MODULE LockLeases -----------------------------
(***************************************************************************)
(* Durable locks and leases of the WOML store                              *)
(* (core/woml-engine/src/durable/transactions/locks).                      *)
(*                                                                         *)
(* Two tables coordinate the locks: woml_lock_resources, one row per key   *)
(* with the owning acquisition, its expiry and the fencing high water, and *)
(* woml_lock_waiters, one row per acquisition.  A markup <lock> is also    *)
(* recorded in its run's event history, from which the run's status and    *)
(* the lock's projected status are folded; a services.locks.withLease()    *)
(* session shares the tables but writes no lock event.                     *)
(*                                                                         *)
(* Every operation is one immediate SQLite transaction.  The helpers       *)
(* Expire and Grant work inside the caller's transaction and may touch the *)
(* history of another run, so they are functions from a database value d   *)
(* to a database value, each with the condition (ExpireOK, GrantOK) under  *)
(* which it raises no error.  An error rolls the caller back: the action   *)
(* is then not enabled, because nothing changes.                           *)
(***************************************************************************)
EXTENDS Integers, FiniteSets, RunFold

CONSTANTS
  Runs,                \* run identities
  MarkupLocks,         \* acquisitions of markup <lock> nodes
  Sessions,            \* programmatic withLease() acquisitions
  RunOf,               \* the run an acquisition belongs to
  Keys,                \* resolved lock keys
  NoOwner,             \* the NULL owner of a free resource
  Lease,               \* lease duration (lease_ms), in clock ticks
  AcquireTimeouts,     \* acquire timeouts authors configure, in clock ticks
  KeyWaiterLimit,      \* LOCK_WAITERS_PER_KEY_LIMIT
  StoreWaiterLimit,    \* LOCK_WAITERS_PER_STORE_LIMIT
  FencingLimit,        \* the greatest fencing token (i64::MAX)
  CancellableRuns,     \* runs an operator may cancel
  TimedRuns,           \* runs whose workflow configures a total timeout
  UnreleasedBodies,    \* runs whose lock body fails without a release
  MaxRestores,         \* bound on the backups that are restored
  MaxTime,             \* bound on the clock
  MaxRollback          \* how far the wall clock may step back

Acquisitions == MarkupLocks \cup Sessions

(* An acquisition identity is either a compiled acquire node or carries    *)
(* the "capability:" prefix; the limits are the ones the store enforces.   *)
ASSUME LockAssumption ==
  /\ IsFiniteSet(Acquisitions)
  /\ MarkupLocks \cap Sessions = {}
  /\ NoOwner \notin Acquisitions
  /\ RunOf \in [Acquisitions -> Runs]

ASSUME BoundAssumption ==
  /\ Lease \in Nat \ {0}
  /\ AcquireTimeouts \subseteq Nat
  /\ KeyWaiterLimit \in Nat \ {0}
  /\ StoreWaiterLimit \in Nat \ {0}
  /\ FencingLimit \in Nat
  /\ MaxTime \in Nat
  /\ MaxRollback \in Nat
  /\ MaxRestores \in Nat
  /\ CancellableRuns \subseteq Runs
  /\ TimedRuns \subseteq Runs
  /\ UnreleasedBodies \subseteq Runs

VARIABLES
  resources,   \* woml_lock_resources, one row per key
  waiters,     \* woml_lock_waiters, one row per acquisition
  locks,       \* the projected LockStatus of every markup lock
  runs,        \* the projection of every run
  admitted,    \* per key, the greatest token of a managed effect that this
               \* store admitted, since it was created or restored
  now,         \* the wall clock every transaction reads
  backup,      \* the last backup: the store as it was when it was taken
  restores,    \* how often a backup was restored
  told,        \* observer: every grant an acquisition was ever told of
  forgotten    \* observer: per key, the tokens whose grants a restore lost

vars == <<resources, waiters, locks, runs, admitted, now, backup, restores,
          told, forgotten>>

(* The store as one value: what a transaction reads and commits. *)
Db == [resources |-> resources, waiters |-> waiters, locks |-> locks,
       runs |-> runs]

Commit(d) ==
  /\ resources' = d.resources
  /\ waiters' = d.waiters
  /\ locks' = d.locks
  /\ runs' = d.runs

-----------------------------------------------------------------------------
(* Row types. "none" is the absence of a waiter row or of a lock event.    *)

WaiterStatuses == {"none", "waiting", "held", "released", "timed_out",
                   "cancelled", "lost"}

SettledStatuses == {"released", "timed_out", "cancelled", "lost"}

LockStatuses == {"none", "Waiting", "Held", "Released", "AcquireTimedOut",
                 "AcquisitionCancelled", "LeaseLost"}

(* The lease id is a fresh identifier drawn together with the token, so    *)
(* the token stands for both.                                              *)
ResourceRows ==
  [high : Nat, owner : Acquisitions \cup {NoOwner}, token : Nat,
   expires : Nat]

(* token is what the acquisition was told when it was granted: the field   *)
(* of its lock_acquired event or of its programmatic lease.                *)
WaiterRows ==
  [status : WaiterStatuses, key : Keys, seq : Nat, deadline : Nat,
   token : Nat]

Databases ==
  [resources : [Keys -> ResourceRows],
   waiters : [Acquisitions -> WaiterRows],
   locks : [MarkupLocks -> LockStatuses],
   runs : [Runs -> RunProjections]]

GrantRecords == [key : Keys, token : Nat, holder : Acquisitions]

TypeOK ==
  /\ resources \in [Keys -> ResourceRows]
  /\ waiters \in [Acquisitions -> WaiterRows]
  /\ locks \in [MarkupLocks -> LockStatuses]
  /\ runs \in [Runs -> RunProjections]
  /\ admitted \in [Keys -> Nat]
  /\ now \in 0..MaxTime
  /\ backup \in Databases
  /\ restores \in 0..MaxRestores
  /\ told \subseteq GrantRecords
  /\ forgotten \in [Keys -> SUBSET Nat]

(* The first backup was taken of the store without any lock row. *)
Init ==
  /\ resources = [k \in Keys |->
       [high |-> 0, owner |-> NoOwner, token |-> 0, expires |-> 0]]
  /\ \E k \in Keys : waiters = [e \in Acquisitions |->
       [status |-> "none", key |-> k, seq |-> 0, deadline |-> 0, token |-> 0]]
  /\ locks = [e \in MarkupLocks |-> "none"]
  /\ runs = [r \in Runs |-> RunExecutionStarted(RunAdmitted(EmptyProjection))]
  /\ admitted = [k \in Keys |-> 0]
  /\ now = 0
  /\ backup = Db
  /\ restores = 0
  /\ told = {}
  /\ forgotten = [k \in Keys |-> {}]

Larger(a, b) == IF a >= b THEN a ELSE b

-----------------------------------------------------------------------------
(* Helpers that run inside a caller's transaction. *)

Registered(d, k) ==
  {e \in Acquisitions : d.waiters[e].status # "none" /\ d.waiters[e].key = k}

Queue(d, k) ==
  {e \in Acquisitions :
     d.waiters[e].status = "waiting" /\ d.waiters[e].key = k}

StoreQueue(d) == {e \in Acquisitions : d.waiters[e].status = "waiting"}

(* ensure_lock_wait_capacity: an uncontended key is never refused. *)
WaitCapacity(d, k) ==
  (d.resources[k].owner # NoOwner \/ Queue(d, k) # {}) =>
    /\ Cardinality(Queue(d, k)) < KeyWaiterLimit
    /\ Cardinality(StoreQueue(d)) < StoreWaiterLimit

(* COALESCE(MAX(sequence), 0) over the rows of the key. *)
Sequences(d, k) == {0} \cup {d.waiters[e].seq : e \in Registered(d, k)}

MaxSequence(d, k) ==
  CHOOSE n \in Sequences(d, k) : \A m \in Sequences(d, k) : m <= n

OwnerExpired(d, k, t) ==
  d.resources[k].owner # NoOwner /\ d.resources[k].expires <= t

FreeRow(row) ==
  [high |-> row.high, owner |-> NoOwner, token |-> 0, expires |-> 0]

(* The projected lock is the exact lease the resource row names. *)
ProjectedOwner(d, k, e) ==
  /\ d.locks[e] = "Held"
  /\ d.waiters[e].key = k
  /\ d.waiters[e].token = d.resources[k].token

Settle(d, e, st) == [d EXCEPT !.waiters[e].status = st]

Vacate(d, k, e, st) ==
  [d EXCEPT !.resources[k] = FreeRow(@), !.waiters[e].status = st]

(* append_to_history for a lock event: the projected lock becomes ls and   *)
(* the projection of its run p.                                            *)
RecordLockEvent(d, e, ls, p) ==
  [d EXCEPT !.locks[e] = ls, !.runs[RunOf[e]] = p]

(* expire_lock_owner: a markup owner's loss must be appended to its own    *)
(* run's history; a session's is a table update only.                      *)
ExpireOK(d, k, t) ==
  LET e == d.resources[k].owner IN
  OwnerExpired(d, k, t) /\ e \in MarkupLocks =>
    ProjectedOwner(d, k, e) /\ CanLockLeaseLost(d.runs[RunOf[e]])

Expire(d, k, t) ==
  LET e == d.resources[k].owner
      x == Vacate(d, k, e, "lost")
  IN
  IF ~OwnerExpired(d, k, t) THEN d
  ELSE IF e \in Sessions THEN x
  ELSE RecordLockEvent(x, e, "LeaseLost", LockLeaseLost(d.runs[RunOf[e]]))

(* Waiters whose deadline has not passed, oldest first. *)
Eligible(d, k, t) == {e \in Queue(d, k) : d.waiters[e].deadline >= t}

(* Fault: ORDER BY sequence DESC. *)
NewestFirst(d, k, t) ==
  CHOOSE e \in Eligible(d, k, t) :
    \A f \in Eligible(d, k, t) : d.waiters[e].seq >= d.waiters[f].seq

Oldest(d, k, t) ==
  CHOOSE e \in Eligible(d, k, t) :
    \A f \in Eligible(d, k, t) : d.waiters[e].seq <= d.waiters[f].seq

Grantable(d, k, t) ==
  d.resources[k].owner = NoOwner /\ Eligible(d, k, t) # {}

(* Fault: the fencing high water is not written back. *)
HandToKeepsHighWater(d, k, e, t) ==
  LET token == d.resources[k].high + 1 IN
  [d EXCEPT !.resources[k] =
     [high |-> d.resources[k].high, owner |-> e, token |-> token,
      expires |-> t + Lease],
     !.waiters[e].status = "held", !.waiters[e].token = token]

HandTo(d, k, e, t) ==
  LET token == d.resources[k].high + 1
      x == [d EXCEPT
        !.resources[k] = [high |-> token, owner |-> e, token |-> token,
                          expires |-> t + Lease],
        !.waiters[e] = [d.waiters[e] EXCEPT !.status = "held", !.token = token]]
  IN
  IF e \in Sessions THEN x
  ELSE RecordLockEvent(x, e, "Held", LockAcquired(d.runs[RunOf[e]]))

HandToOK(d, k, e) ==
  /\ d.resources[k].high < FencingLimit
  /\ e \in MarkupLocks =>
       d.locks[e] = "Waiting" /\ CanLockAcquired(d.runs[RunOf[e]])

(* grant_oldest_lock_waiter: settle an expired owner, then hand a free key *)
(* to the oldest eligible waiter with the next fencing token.              *)
Grant(d, k, t) ==
  LET x == Expire(d, k, t) IN
  IF Grantable(x, k, t) THEN HandTo(x, k, Oldest(x, k, t), t) ELSE x

GrantOK(d, k, t) ==
  LET x == Expire(d, k, t) IN
  /\ ExpireOK(d, k, t)
  /\ Grantable(x, k, t) => HandToOK(x, k, Oldest(x, k, t))

CommitGrant(d, k) ==
  GrantOK(d, k, now) /\ Commit(Grant(d, k, now))

-----------------------------------------------------------------------------
(* Registration. *)

Enqueue(d, e, k, deadline) ==
  [d EXCEPT !.waiters[e] =
     [status |-> "waiting", key |-> k, seq |-> MaxSequence(d, k) + 1,
      deadline |-> deadline, token |-> 0]]

(* Nested scopes are refused by the compiler, and a run leaves a scope     *)
(* only by releasing it, so its other locks are untouched or released.     *)
OutsideLockScopes(e) ==
  \A f \in MarkupLocks \ {e} :
    RunOf[f] = RunOf[e] => locks[f] \in {"none", "Released"}

RegisterLockWaiter(e, k, timeout) ==
  /\ e \in MarkupLocks
  /\ waiters[e].status = "none"
  /\ OutsideLockScopes(e)
  /\ now + timeout <= MaxTime
  /\ WaitCapacity(Db, k)
  /\ CanLockWaitRegistered(runs[RunOf[e]])
  /\ CommitGrant(RecordLockEvent(Enqueue(Db, e, k, now + timeout), e, "Waiting",
                                 LockWaitRegistered(runs[RunOf[e]])), k)
  /\ UNCHANGED <<admitted, now>>

(* The script attempt that calls withLease() is started and not inside a   *)
(* markup lock; attempts settle before the run's outcome is decided.       *)
ActiveAttempt(s) ==
  /\ runs[RunOf[s]].status \in {"Running", "Cancelling"}
  /\ \A f \in MarkupLocks : RunOf[f] = RunOf[s] => locks[f] # "Held"

AcquireProgrammaticLock(s, k, timeout) ==
  /\ s \in Sessions
  /\ waiters[s].status = "none"
  /\ ActiveAttempt(s)
  /\ now + timeout <= MaxTime
  /\ WaitCapacity(Db, k)
  /\ CommitGrant(Enqueue(Db, s, k, now + timeout), k)
  /\ UNCHANGED <<admitted, now>>

(* Repeating withLease() under the same operation identity inserts nothing *)
(* but still drives the queue of the key.  A markup acquire node registers *)
(* once: its row and its event commit together, and the run loop registers *)
(* only while the projection has no such lock.                             *)
ReattachSession(s) ==
  /\ s \in Sessions
  /\ waiters[s].status # "none"
  /\ ActiveAttempt(s)
  /\ CommitGrant(Db, waiters[s].key)
  /\ UNCHANGED <<admitted, now>>

-----------------------------------------------------------------------------
(* Held leases. *)

(* The row a renewal, release or effect check selects: key, run, execution,*)
(* lease and token all match.                                              *)
OwnsRow(d, e) ==
  LET row == d.resources[d.waiters[e].key] IN
  row.owner = e /\ row.token = d.waiters[e].token

(* release_lock_atomically.  The first grant lets expiry win; a release    *)
(* that lost its lease still commits that handoff and reports an error.    *)
ReleaseLock(e) ==
  LET k == waiters[e].key
      x == Grant(Db, k, now)
      y == RecordLockEvent(Vacate(x, k, e, "released"), e, "Released",
                           LockReleased(x.runs[RunOf[e]]))
  IN
  /\ e \in MarkupLocks
  /\ locks[e] = "Held"
  /\ GrantOK(Db, k, now)
  /\ \/ /\ x.locks[e] # "Held"
        /\ Commit(x)
     \/ /\ x.locks[e] = "Held"
        /\ OwnsRow(x, e)
        /\ CanLockReleased(x.runs[RunOf[e]])
        /\ CommitGrant(y, k)
  /\ UNCHANGED <<admitted, now>>

(* Fault: the release does not wake the queue. *)
ReleaseWithoutGrant(s) ==
  LET k == waiters[s].key
      x == Grant(Db, k, now)
  IN
  /\ s \in Sessions
  /\ waiters[s].token > 0
  /\ GrantOK(Db, k, now)
  /\ Commit(IF x.resources[k].owner = s
            THEN Vacate(x, k, s, "released") ELSE x)
  /\ UNCHANGED <<admitted, now>>

(* release_programmatic_lock_atomically, called for sessions that were     *)
(* granted: by release() and by close_invocation().                        *)
ReleaseProgrammaticLock(s) ==
  LET k == waiters[s].key
      x == Grant(Db, k, now)
  IN
  /\ s \in Sessions
  /\ waiters[s].token > 0
  /\ GrantOK(Db, k, now)
  /\ \/ /\ x.resources[k].owner # s
        /\ Commit(x)
     \/ /\ x.resources[k].owner = s
        /\ CommitGrant(Vacate(x, k, s, "released"), k)
  /\ UNCHANGED <<admitted, now>>

(* Fault: the requested expiry overwrites the stored one. *)
ExtendFromNow(d, k) == [d EXCEPT !.resources[k].expires = now + Lease]

(* A renewal never shortens the stored expiry: the wall clock may have     *)
(* been set back since it was written.                                     *)
Extend(d, k) ==
  [d EXCEPT !.resources[k].expires = Larger(now + Lease, @)]

(* renew_lock_lease_atomically, called by the renewal task and before      *)
(* every scheduling round.  NotHeld and a lost row change nothing.         *)
RenewLockLease(e) ==
  LET k == waiters[e].key IN
  /\ e \in MarkupLocks
  /\ locks[e] = "Held"
  /\ OwnsRow(Db, e)
  /\ \/ /\ OwnerExpired(Db, k, now)
        /\ CommitGrant(Db, k)
     \/ /\ ~OwnerExpired(Db, k, now)
        /\ runs[RunOf[e]].outcome = NoOutcome
        /\ now + Lease <= MaxTime
        /\ Commit(Extend(Db, k))
  /\ UNCHANGED <<admitted, now>>

(* renew_programmatic_lock_atomically. *)
RenewProgrammaticLock(s) ==
  LET k == waiters[s].key IN
  /\ s \in Sessions
  /\ resources[k].owner = s
  /\ \/ /\ OwnerExpired(Db, k, now)
        /\ CommitGrant(Db, k)
     \/ /\ ~OwnerExpired(Db, k, now)
        /\ now + Lease <= MaxTime
        /\ Commit(Extend(Db, k))
  /\ UNCHANGED <<admitted, now>>

(* Fault: the projection alone is trusted. *)
AdmitOnProjection(e) ==
  /\ e \in MarkupLocks
  /\ locks[e] = "Held"
  /\ admitted' = [admitted EXCEPT ![waiters[e].key] = waiters[e].token]
  /\ UNCHANGED <<resources, waiters, locks, runs, now>>

(* managed_effect_has_current_lock: a managed effect inside a markup lock  *)
(* is admitted only under the exact live lease.                            *)
AdmitManagedEffect(e) ==
  LET k == waiters[e].key IN
  /\ e \in MarkupLocks
  /\ locks[e] = "Held"
  /\ \/ /\ OwnsRow(Db, e)
        /\ ~OwnerExpired(Db, k, now)
        /\ admitted' = [admitted EXCEPT ![k] = waiters[e].token]
        /\ UNCHANGED <<resources, waiters, locks, runs>>
     \/ /\ ~OwnsRow(Db, e) \/ OwnerExpired(Db, k, now)
        /\ CommitGrant(Db, k)
        /\ UNCHANGED admitted
  /\ UNCHANGED now

-----------------------------------------------------------------------------
(* Acquisitions that end without a lease. *)

(* timeout_lock_waiter_atomically. *)
TimeoutLockWaiter(e) ==
  /\ e \in MarkupLocks
  /\ locks[e] = "Waiting"
  /\ waiters[e].status = "waiting"
  /\ waiters[e].deadline <= now
  /\ CanLockAcquireTimedOut(runs[RunOf[e]])
  /\ CommitGrant(RecordLockEvent(Settle(Db, e, "timed_out"), e,
                                 "AcquireTimedOut",
                                 LockAcquireTimedOut(runs[RunOf[e]])),
                 waiters[e].key)
  /\ UNCHANGED <<admitted, now>>

(* programmatic_lock_state: settle the key, then the session's own row. *)
Overdue(d, s, t) ==
  d.waiters[s].status = "waiting" /\ d.waiters[s].deadline <= t

Polled(d, s, t) ==
  LET k == d.waiters[s].key
      x == Grant(d, k, t)
  IN
  IF Overdue(x, s, t)
  THEN Grant(Settle(x, s, "timed_out"), k, t) ELSE x

PolledOK(d, s, t) ==
  LET k == d.waiters[s].key
      x == Grant(d, k, t)
  IN
  /\ GrantOK(d, k, t)
  /\ Overdue(x, s, t) =>
       GrantOK(Settle(x, s, "timed_out"), k, t)

(* Faults: a status outside the schema; a poll that ignores the deadline.  *)
PollMisnamesTimeout(s) ==
  LET x == Polled(Db, s, now) IN
  /\ s \in Sessions
  /\ waiters[s].status = "waiting"
  /\ PolledOK(Db, s, now)
  /\ Commit(IF x.waiters[s].status = "timed_out"
            THEN Settle(x, s, "timeout") ELSE x)
  /\ UNCHANGED <<admitted, now>>

PollIgnoresDeadline(s) ==
  /\ s \in Sessions
  /\ waiters[s].status = "waiting"
  /\ CommitGrant(Db, waiters[s].key)
  /\ UNCHANGED <<admitted, now>>

(* The acquire loop of withLease() polls its own row every 25 ms. *)
PollProgrammaticLock(s) ==
  /\ s \in Sessions
  /\ waiters[s].status = "waiting"
  /\ PolledOK(Db, s, now)
  /\ Commit(Polled(Db, s, now))
  /\ UNCHANGED <<admitted, now>>

(* assert_current and managed_effect_is_current: an effect of a session    *)
(* that was granted is admitted only if the poll still finds it held.      *)
AdmitSessionEffect(s) ==
  LET k == waiters[s].key
      x == Polled(Db, s, now)
  IN
  /\ s \in Sessions
  /\ waiters[s].token > 0
  /\ PolledOK(Db, s, now)
  /\ Commit(x)
  /\ admitted' = IF x.waiters[s].status = "held"
                 THEN [admitted EXCEPT ![k] = waiters[s].token] ELSE admitted
  /\ UNCHANGED now

(* cancel_lock_waiters_atomically, the cancelling run's own settlement. A  *)
(* held lease is left to expire.                                           *)
CancelLockWaiter(e) ==
  /\ e \in MarkupLocks
  /\ runs[RunOf[e]].status = "Cancelling"
  /\ locks[e] = "Waiting"
  /\ waiters[e].status = "waiting"
  /\ CommitGrant(RecordLockEvent(Settle(Db, e, "cancelled"), e,
                                 "AcquisitionCancelled",
                                 LockAcquisitionCancelled(runs[RunOf[e]])),
                 waiters[e].key)
  /\ UNCHANGED <<admitted, now>>

(* Fault: UPDATE without AND status = 'waiting'. *)
CancelAnySession(s) ==
  /\ s \in Sessions
  /\ waiters[s].status # "none"
  /\ CommitGrant(Settle(Db, s, "cancelled"), waiters[s].key)
  /\ UNCHANGED <<admitted, now>>

CancelProgrammaticWaiter(s) ==
  /\ s \in Sessions
  /\ waiters[s].status = "waiting"
  /\ CommitGrant(Settle(Db, s, "cancelled"), waiters[s].key)
  /\ UNCHANGED <<admitted, now>>

-----------------------------------------------------------------------------
(* Run control as the locks see it. *)

LocksOf(r) == {e \in MarkupLocks : RunOf[e] = r}

SetRun(r, p) ==
  /\ runs' = [runs EXCEPT ![r] = p]
  /\ UNCHANGED <<resources, waiters, locks, admitted, now>>

(* request_run_cancellation. *)
RequestRunCancellation(r) ==
  /\ r \in CancellableRuns
  /\ runs[r].outcome = NoOutcome
  /\ CanRunCancellationRequested(runs[r])
  /\ SetRun(r, RunCancellationRequested(runs[r]))

(* settle_run_timeout: the deadline event and the failed outcome commit    *)
(* together; locks are not touched.                                        *)
SettleRunTimeout(r) ==
  /\ r \in TimedRuns
  /\ runs[r].outcome = NoOutcome
  /\ ~runs[r].cancelRequested
  /\ CanRunTimeoutReached(runs[r])
  /\ SetRun(r, RunOutcomeDecided(RunTimeoutReached(runs[r]), "Failed"))

(* The terminal node is reached only through the release node of every     *)
(* lock on the way.                                                        *)
DecideRunSucceeded(r) ==
  /\ \A e \in LocksOf(r) : locks[e] \in {"none", "Released"}
  /\ CanRunOutcomeDecided(runs[r], "Succeeded")
  /\ SetRun(r, RunOutcomeDecided(runs[r], "Succeeded"))

(* decide_run_failed: a script of a lock body releases before the run      *)
(* fails, and a lock that timed out or was lost is not held; a branch,     *)
(* choice or parallel group in the body fails the run as it stands.        *)
DecideRunFailed(r) ==
  /\ runs[r].status = "Running"
  /\ \A e \in LocksOf(r) : locks[e] # "Waiting"
  /\ \/ \A e \in LocksOf(r) : locks[e] # "Held"
     \/ \E e \in LocksOf(r) : locks[e] = "Held" /\ ~OwnsRow(Db, e)
     \/ r \in UnreleasedBodies
  /\ CanRunOutcomeDecided(runs[r], "Failed")
  /\ SetRun(r, RunOutcomeDecided(runs[r], "Failed"))

(* settle_cancelling_run, after the run's waiters were cancelled. *)
DecideRunCancelled(r) ==
  /\ runs[r].status = "Cancelling"
  /\ \A e \in LocksOf(r) : locks[e] # "Waiting"
  /\ CanRunOutcomeDecided(runs[r], "Cancelled")
  /\ SetRun(r, RunOutcomeDecided(runs[r], "Cancelled"))

(* finalize_run_v11, once the lifecycle hooks have settled. *)
FinalizeRun(r) ==
  /\ CanRunFinalized(runs[r])
  /\ SetRun(r, RunFinalized(runs[r]))

-----------------------------------------------------------------------------
(* Environment. *)

(* The grants that the rows of a store remember. *)
Grants(d) ==
  {[key |-> d.waiters[e].key, token |-> d.waiters[e].token, holder |-> e] :
     e \in {f \in Acquisitions : d.waiters[f].token > 0}}

(* What every step of the store means for the observers and the backup. *)
Remember ==
  /\ told' = told \cup Grants(Db')
  /\ UNCHANGED <<backup, restores, forgotten>>

(* create_online_backup: a consistent copy of the live store. *)
TakeBackup ==
  /\ restores < MaxRestores
  /\ backup' = Db
  /\ UNCHANGED <<resources, waiters, locks, runs, admitted, now, restores,
                 told, forgotten>>

(* Faults: the restored copy keeps its held rows; it drops the high waters *)
(* together with the owners.                                               *)
RestoredKeepsHeld(d) ==
  [d EXCEPT !.resources = [k \in Keys |-> FreeRow(d.resources[k])]]

RestoredDropsHighWater(d) ==
  [d EXCEPT
    !.resources = [k \in Keys |-> [FreeRow(d.resources[k]) EXCEPT !.high = 0]],
    !.waiters = [e \in Acquisitions |->
       IF d.waiters[e].status = "held"
       THEN [d.waiters[e] EXCEPT !.status = "lost"] ELSE d.waiters[e]]]

(* prepare_restored_store on the copy d: no owner survives, and the high   *)
(* water that stays is the one of the copy; histories are left alone.      *)
Restored(d) ==
  [d EXCEPT
    !.resources = [k \in Keys |->
       IF d.resources[k].owner = NoOwner THEN d.resources[k]
       ELSE FreeRow(d.resources[k])],
    !.waiters = [e \in Acquisitions |->
       IF d.waiters[e].status = "held"
       THEN [d.waiters[e] EXCEPT !.status = "lost"] ELSE d.waiters[e]]]

(* The restored copy replaces the store, which is retired: what was        *)
(* granted after the backup is forgotten.                                  *)
RestoreBackup ==
  /\ restores < MaxRestores
  /\ restores' = restores + 1
  /\ Commit(Restored(backup))
  /\ admitted' = [k \in Keys |-> 0]
  /\ forgotten' = [k \in Keys |->
       forgotten[k] \cup
         (backup.resources[k].high + 1)..resources[k].high]
  /\ UNCHANGED <<now, backup, told>>

Tick ==
  /\ now < MaxTime
  /\ now' = now + 1
  /\ UNCHANGED <<resources, waiters, locks, runs, admitted>>

ClockRollback ==
  /\ \E t \in 0..MaxTime : t < now /\ now - t <= MaxRollback /\ now' = t
  /\ UNCHANGED <<resources, waiters, locks, runs, admitted>>

LockStep(e) ==
  \/ \E k \in Keys, w \in AcquireTimeouts :
       RegisterLockWaiter(e, k, w) \/ AcquireProgrammaticLock(e, k, w)
  \/ ReattachSession(e)
  \/ ReleaseLock(e) \/ ReleaseProgrammaticLock(e)
  \/ RenewLockLease(e) \/ RenewProgrammaticLock(e)
  \/ AdmitManagedEffect(e) \/ AdmitSessionEffect(e)
  \/ TimeoutLockWaiter(e) \/ PollProgrammaticLock(e)
  \/ CancelLockWaiter(e) \/ CancelProgrammaticWaiter(e)

RunStep(r) ==
  \/ RequestRunCancellation(r) \/ SettleRunTimeout(r)
  \/ DecideRunSucceeded(r) \/ DecideRunFailed(r) \/ DecideRunCancelled(r)
  \/ FinalizeRun(r)

StoreStep ==
  \/ \E e \in Acquisitions : LockStep(e)
  \/ \E r \in Runs : RunStep(r)
  \/ Tick \/ ClockRollback

Next ==
  \/ StoreStep /\ Remember
  \/ TakeBackup
  \/ RestoreBackup

Spec == Init /\ [][Next]_vars

FairSpec ==
  /\ Spec
  /\ WF_vars(Tick /\ Remember)
  /\ \A e \in MarkupLocks : WF_vars(TimeoutLockWaiter(e) /\ Remember)
  /\ \A s \in Sessions : WF_vars(PollProgrammaticLock(s) /\ Remember)

-----------------------------------------------------------------------------
(* Properties. *)

(* The two tables and the run histories agree, although each transaction   *)
(* may rewrite rows of several runs: a key's owner is the only held row of *)
(* the key and holds the newest token; a markup owner is projected Held;   *)
(* a projection that says Held is backed by the row or by a row that a     *)
(* restored backup marked lost; both records agree on who waits.           *)
OwnerMatchesQueue ==
  /\ \A k \in Keys : resources[k].owner # NoOwner =>
       LET e == resources[k].owner IN
       /\ waiters[e].status = "held"
       /\ waiters[e].key = k
       /\ waiters[e].token = resources[k].token
       /\ resources[k].token = resources[k].high
       /\ e \in MarkupLocks => locks[e] = "Held"
  /\ \A e \in Acquisitions :
       waiters[e].status = "held" => resources[waiters[e].key].owner = e
  /\ \A e \in MarkupLocks :
       /\ locks[e] = "Held" => waiters[e].status \in {"held", "lost"}
       /\ locks[e] = "Waiting" <=> waiters[e].status = "waiting"

(* A fencing token names one acquisition of its key, in whatever order     *)
(* leases were lost, released or timed out: two acquisitions were told the *)
(* same token only when a restore forgot the first grant, that is, when    *)
(* the token lies above the high water of the restored backup              *)
(* (grant_oldest_lock_waiter, prepare_restored_store).                     *)
UniqueTokens ==
  /\ \A e \in Acquisitions :
       waiters[e].token <= resources[waiters[e].key].high
  /\ \A g, h \in told :
       g # h /\ g.key = h.key /\ g.token = h.token =>
         g.token \in forgotten[g.key]

(* docs/woml-lock-fencing.md:7-9: "Each grant for one key receives a token *)
(* greater than every earlier token.  WOML persists that high-water value  *)
(* through release, retention, backup, restore, and prune."                *)
TokensNeverRepeat ==
  \A g, h \in told :
    g # h /\ g.key = h.key => g.token # h.token

(* Leases of a key are granted in registration order: skipping a waiter    *)
(* whose deadline has passed never lets it be granted later.               *)
GrantOrder ==
  \A e, f \in Acquisitions :
    /\ waiters[e].key = waiters[f].key
    /\ waiters[e].seq < waiters[f].seq
    /\ waiters[e].token > 0 /\ waiters[f].token > 0
    => waiters[e].token < waiters[f].token

(* No transaction leaves a key idle while somebody who may still be        *)
(* granted waits for it: nothing else would wake that waiter.              *)
NoLostWakeup ==
  \A k \in Keys : resources[k].owner = NoOwner => Eligible(Db, k, now) = {}

(* Fencing as the protected resource sees it: while one store serves, the  *)
(* tokens of the managed effects admitted under a key never go back, so an *)
(* owner that lost its lease admits nothing after its successor.           *)
EffectTokensMonotone ==
  [][restores' = restores =>
       \A k \in Keys : admitted'[k] >= admitted[k]]_vars

(* What a transaction recorded of an acquisition is not taken back by a    *)
(* later one, of its own run or of another: exactly one terminal outcome   *)
(* wins (docs/protocols/locks-and-leases-v1.md), so a settled row is never *)
(* revived, granted or settled again; and a lease that stays with its      *)
(* owner never gets an earlier expiry, even when the wall clock was set    *)
(* back between two renewals.  Only a restore goes back to older records.  *)
RecordsStand ==
  [][restores' = restores =>
     /\ \A e \in Acquisitions :
          waiters[e].status \in SettledStatuses => waiters'[e] = waiters[e]
     /\ \A e \in MarkupLocks :
          locks[e] \notin {"none", "Waiting", "Held"} => locks'[e] = locks[e]
     /\ \A k \in Keys :
          resources[k].owner # NoOwner /\ resources'[k].owner = resources[k].owner
            => resources'[k].expires >= resources[k].expires]_vars

(* Progress: an acquisition that waits is granted or settles, although     *)
(* owners may vanish without releasing.  It rests on the clock and on the  *)
(* waiting side alone: the run loop and the withLease() loop poll every    *)
(* 25 ms for as long as they wait.                                         *)
AcquisitionSettles ==
  \A e \in Acquisitions :
    waiters[e].status = "waiting" ~> waiters[e].status # "waiting"

(* docs/woml-locks-and-leases.md:101: "When the owner releases or expires, *)
(* the oldest eligible waiter is granted the next fencing token."          *)
ExpiryPassesOn ==
  \A e \in Acquisitions :
    /\ waiters[e].status = "waiting"
    /\ OwnerExpired(Db, waiters[e].key, now)
    /\ e \in Eligible(Db, waiters[e].key, now)
    /\ e = Oldest(Db, waiters[e].key, now)
    ~> waiters[e].token > 0

(* docs/protocols/locks-and-leases-v1.md:123: after an owner is cancelled  *)
(* "expiry decides ownership": an expired lease can always be settled.     *)
ExpiryDecides ==
  \A k \in Keys : OwnerExpired(Db, k, now) => ExpireOK(Db, k, now)

(* docs/woml-lifecycle-and-run-control.md:131: a decided run "remains      *)
(* finalizing" until it ends; no lock event takes it back to running.      *)
DecidedRunsFinalize ==
  \A r \in Runs :
    runs[r].outcome # NoOutcome =>
      runs[r].status \in TerminalStatuses \cup {"Finalizing"}

(* docs/protocols/lifecycle-engine-controls-v1.md:46: after a cancellation *)
(* request "the engine schedules no new nodes": no acquire node starts.    *)
CancellationStopsAdmission ==
  [][\A e \in MarkupLocks :
       locks[e] = "none" /\ locks'[e] # "none" =>
         ~runs[RunOf[e]].cancelRequested]_vars

(* The tables as the abstract lock service. *)
Abstract ==
  INSTANCE FencedLock WITH
    holder <- [k \in Keys |-> resources[k].owner],
    fence <- [k \in Keys |-> resources[k].high],
    served <- {e \in Acquisitions : waiters[e].token > 0},
    saved <- [fence |-> [k \in Keys |-> backup.resources[k].high],
              served |-> {e \in Acquisitions : backup.waiters[e].token > 0}]

(* The store implements the fenced lock: whatever transactions interleave, *)
(* a key passes from holder to holder with consecutive tokens and no       *)
(* acquisition is granted twice, except for what a restore took back.      *)
ImplementsFencedLock == Abstract!Spec

=============================================================================
