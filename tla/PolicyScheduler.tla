--------------------------- MODULE PolicyScheduler ---------------------------
(***************************************************************************)
(* Runtime policies: the durable queue, the rolling-window rate limit and  *)
(* the expiring scheduler claims that bound how many runs of a workflow    *)
(* execute at once (core/woml-engine/src/durable/transactions/policy.rs),  *)
(* and the drivers that acquire, suspend, resume and release a claim while *)
(* they execute a run (core/woml-engine/src/runtime/scheduling/policy.rs). *)
(*                                                                         *)
(* A driver is one invocation of execute_policy_run_durable, in any        *)
(* process that shares the store.  Its owner id and claim id are fresh     *)
(* identifiers, so the driver itself stands for both.  The business work   *)
(* of a run is one step with retries, after an optional durable wait, and  *)
(* one workflow lifecycle hook after the outcome.  Every action is one     *)
(* store transaction together with what its caller does until the next     *)
(* one; a transaction that raises an error changes nothing.                *)
(***************************************************************************)
EXTENDS Integers, FiniteSets, RunFold

CONSTANTS
  Runs,               \* run identities
  Workflows,          \* workflow identities
  Drivers,            \* invocations of execute_policy_run_durable
  NoDriver,           \* no owner
  WorkflowOf,         \* the workflow of a run
  RunRank,            \* the order of the run identities (the last tie-break)
  Lane,               \* the queue name of a workflow
  Concurrency,        \* the concurrency limit of a workflow, 0 when absent
  RateCount,          \* the starts its rate limit allows, 0 when absent
  RateWindow,         \* the length of its rolling window, in clock ticks
  MaxAttempts,        \* max_attempts of the step's retry policy
  WaitingWorkflows,   \* workflows whose step follows a durable wait
  HookedWorkflows,    \* workflows with a lifecycle hook after the outcome
  ClaimLease,         \* POLICY_CLAIM_LEASE, in clock ticks
  QueueCeiling,       \* RUNTIME_POLICY_QUEUE_CEILING
  CancellableRuns,    \* runs an operator may cancel
  CrashableDrivers,   \* drivers whose process may die
  StalledHeartbeats,  \* whether a lease may expire while its driver lives
  DuplicateDispatch,  \* whether two drivers may serve one run
  GeneralRecovery,    \* whether a process runs recover_interrupted_runs
  MaxTime,            \* bound on the clock
  MaxRollback         \* how far the wall clock may step back

ASSUME PolicyAssumption ==
  /\ IsFiniteSet(Runs)
  /\ NoDriver \notin Drivers
  /\ WorkflowOf \in [Runs -> Workflows]
  /\ RunRank \in [Runs -> Nat]
  /\ Concurrency \in [Workflows -> Nat]
  /\ RateCount \in [Workflows -> Nat]
  /\ RateWindow \in [Workflows -> Nat \ {0}]
  /\ MaxAttempts \in Nat \ {0}
  /\ ClaimLease \in Nat \ {0}
  /\ QueueCeiling \in Nat
  /\ MaxTime \in Nat
  /\ MaxRollback \in Nat

VARIABLES
  runs,        \* the projection of every run
  admittedAt,  \* admitted_at of every run
  startedAt,   \* woml_runtime_policy_starts; NoInstant before the start
  waits,       \* the durable wait of every run
  steps,       \* the latest attempt of the run's step
  hooks,       \* the run's lifecycle hook
  claims,      \* woml_scheduler_claims
  drivers,     \* the local state of every driver
  now          \* the wall clock, which is also the policy clock

histories == <<runs, admittedAt, startedAt, waits, steps, hooks>>

vars == <<histories, claims, drivers, now>>

-----------------------------------------------------------------------------
(* State. *)

NoInstant == -1

(* A claim without an owner is an absent row.  A suspended claim carries   *)
(* the reserved workflow id, so it counts for no workflow.                 *)
Claims == [owner : Drivers \cup {NoDriver}, suspended : BOOLEAN, expires : Nat]

NoClaim == [owner |-> NoDriver, suspended |-> FALSE, expires |-> 0]

StepStatuses == {"ready", "started", "backoff", "due", "succeeded", "failed",
                 "interrupted", "cancelled"}

HookStatuses == {"none", "requested", "started", "completed"}

(* Where a driver is: in the acquisition loop, about to check that a run   *)
(* lost its owner, about to recover that run, in the run loop, inside the  *)
(* step's script, parking a run that waits, in the lifecycle epilogue,     *)
(* inside the hook's script, about to release its lease, or gone.          *)
DriverStates == {"idle", "acquiring", "checking", "recovering", "driving",
                 "working", "parking", "closing", "hooking", "releasing",
                 "done"}

(* held: the driver has a PolicyExecutionLease; lost: its heartbeat failed; *)
(* leaseNow: the instant of the claim that asked for recovery.             *)
DriverRecords ==
  [pc : DriverStates, run : Runs, held : BOOLEAN, suspended : BOOLEAN,
   lost : BOOLEAN, leaseNow : Nat]

TypeOK ==
  /\ runs \in [Runs -> RunProjections]
  /\ admittedAt \in [Runs -> Nat]
  /\ startedAt \in [Runs -> Nat \cup {NoInstant}]
  /\ waits \in [Runs -> {"none", "registered", "resolved"}]
  /\ steps \in [Runs -> [status : StepStatuses, attempts : 0..MaxAttempts,
                         by : Drivers \cup {NoDriver}]]
  /\ hooks \in [Runs -> [status : HookStatuses,
                         by : Drivers \cup {NoDriver}]]
  /\ claims \in [Runs -> Claims]
  /\ drivers \in [Drivers -> DriverRecords]
  /\ now \in 0..MaxTime

Init ==
  /\ runs = [r \in Runs |-> EmptyProjection]
  /\ admittedAt = [r \in Runs |-> 0]
  /\ startedAt = [r \in Runs |-> NoInstant]
  /\ waits = [r \in Runs |-> "none"]
  /\ steps = [r \in Runs |->
       [status |-> "ready", attempts |-> 0, by |-> NoDriver]]
  /\ hooks = [r \in Runs |-> [status |-> "none", by |-> NoDriver]]
  /\ claims = [r \in Runs |-> NoClaim]
  /\ \E r \in Runs : drivers = [d \in Drivers |->
       [pc |-> "idle", run |-> r, held |-> FALSE, suspended |-> FALSE,
        lost |-> FALSE, leaseNow |-> 0]]
  /\ now = 0

Status(r) == runs[r].status

-----------------------------------------------------------------------------
(* The policy tables, as a transaction sees them. *)

(* Fault: expired claims are not deleted. *)
LiveKeepsExpired(t) == claims

(* DELETE FROM woml_scheduler_claims WHERE expires_at <= t *)
LiveAt(t) ==
  [r \in Runs |-> IF claims[r].expires <= t THEN NoClaim ELSE claims[r]]

Live == LiveAt(now)

Active(c, w) ==
  {r \in Runs : /\ WorkflowOf[r] = w
                /\ c[r].owner # NoDriver
                /\ ~c[r].suspended}

HasCapacity(c, w) ==
  Concurrency[w] = 0 \/ Cardinality(Active(c, w)) < Concurrency[w]

(* Fault: starts that a clock rollback left in the future are dropped. *)
PastStarts(w) ==
  {r \in Runs : /\ WorkflowOf[r] = w
                /\ startedAt[r] # NoInstant
                /\ startedAt[r] > now - RateWindow[w]
                /\ startedAt[r] <= now}

(* "Future starts are deliberately retained so a wall-clock rollback fails *)
(* closed instead of granting extra capacity."                             *)
RecentStarts(w) ==
  {r \in Runs : /\ WorkflowOf[r] = w
                /\ startedAt[r] # NoInstant
                /\ startedAt[r] > now - RateWindow[w]}

RateEligible(w) ==
  RateCount[w] = 0 \/ Cardinality(RecentStarts(w)) < RateCount[w]

Queued == {r \in Runs : Status(r) = "Queued"}

(* Queue order: admitted_at, then the run identity (occurrence_sequence is *)
(* admitted as 0 for every run).                                           *)
Precedes(q, r) ==
  \/ admittedAt[q] < admittedAt[r]
  \/ admittedAt[q] = admittedAt[r] /\ RunRank[q] < RunRank[r]

(* Fault: only the rate is considered, never the order. *)
NoEarlierRun(c, r) == FALSE

(* An earlier run of the same lane could start now: only such a run blocks *)
(* a later one (work-conserving FIFO).                                     *)
EarlierEligible(c, r) ==
  \E q \in Queued :
    /\ Lane[WorkflowOf[q]] = Lane[WorkflowOf[r]]
    /\ Precedes(q, r)
    /\ HasCapacity(c, WorkflowOf[q])
    /\ RateEligible(WorkflowOf[q])

(* A started attempt or lifecycle action whose outcome is not durable. *)
AmbiguousWork(r) == steps[r].status = "started" \/ hooks[r].status = "started"

FirstStart(r) == startedAt[r] = NoInstant /\ Status(r) = "Queued"

(* Only an executable run may acquire a claim. *)
Claimable(r) ==
  Status(r) \notin TerminalStatuses \cup {"NotStarted", "Waiting"}

Owns(d, c) == c[drivers[d].run].owner = d

-----------------------------------------------------------------------------
(* The drivers. *)

Move(d, pc) == drivers' = [drivers EXCEPT ![d].pc = pc]

(* The invocation ends, or its process dies: nothing local remains. *)
Retired(d) ==
  [pc |-> "done", run |-> drivers[d].run, held |-> FALSE, suspended |-> FALSE,
   lost |-> FALSE, leaseNow |-> 0]

Retire(d) == drivers' = [drivers EXCEPT ![d] = Retired(d)]

SetRun(r, p) == runs' = [runs EXCEPT ![r] = p]

(* run_admitted, in the transaction that binds the trigger occurrence.  A  *)
(* duplicate occurrence returns the existing run and changes nothing.      *)
AdmitRun(r) ==
  /\ CanRunAdmitted(runs[r])
  /\ Cardinality(Queued) < QueueCeiling
  /\ SetRun(r, RunAdmitted(runs[r]))
  /\ admittedAt' = [admittedAt EXCEPT ![r] = now]
  /\ UNCHANGED <<startedAt, waits, steps, hooks, claims, drivers, now>>

Serving(r) ==
  {d \in Drivers : drivers[d].pc \notin {"idle", "done"} /\ drivers[d].run = r}

(* A trigger, a settled wait, a timed-out run or startup recovery dispatches *)
(* the run; a waiting or terminal run only has its outcome reissued.       *)
DispatchRun(d, r) ==
  /\ drivers[d].pc = "idle"
  /\ Claimable(r)
  /\ DuplicateDispatch \/ Serving(r) = {}
  /\ drivers' = [drivers EXCEPT ![d].pc = "acquiring", ![d].run = r]
  /\ UNCHANGED <<histories, claims, now>>

-----------------------------------------------------------------------------
(* try_claim_policy_run_at and the acquisition loop around it. *)

(* Fault: the start does not look at the status of the run. *)
ClaimStartsAny(d) ==
  LET r == drivers[d].run
      first == startedAt[r] = NoInstant
  IN
  /\ drivers[d].pc = "acquiring"
  /\ Claimable(r)
  /\ Live[r].owner = NoDriver
  /\ ~AmbiguousWork(r)
  /\ first => RateEligible(WorkflowOf[r])
  /\ HasCapacity(Live, WorkflowOf[r])
  /\ Status(r) = "Queued" => ~EarlierEligible(Live, r)
  /\ claims' = [Live EXCEPT ![r] =
       [owner |-> d, suspended |-> FALSE, expires |-> now + ClaimLease]]
  /\ startedAt' = IF first THEN [startedAt EXCEPT ![r] = now] ELSE startedAt
  /\ runs' = IF first THEN [runs EXCEPT ![r] = RunExecutionStarted(@)] ELSE runs
  /\ drivers' = [drivers EXCEPT
       ![d].pc = IF Status(r) = "Finalizing" THEN "closing" ELSE "driving",
       ![d].held = TRUE]
  /\ UNCHANGED <<admittedAt, waits, steps, hooks, now>>

(* The claim is inserted and, on the first claim of a queued run, its      *)
(* run_execution_started event is appended.                                *)
ClaimSlot(d) ==
  LET r == drivers[d].run IN
  /\ drivers[d].pc = "acquiring"
  /\ Claimable(r)
  /\ Live[r].owner = NoDriver
  /\ ~AmbiguousWork(r)
  /\ FirstStart(r) => RateEligible(WorkflowOf[r])
  /\ HasCapacity(Live, WorkflowOf[r])
  /\ Status(r) = "Queued" => ~EarlierEligible(Live, r)
  /\ claims' = [Live EXCEPT ![r] =
       [owner |-> d, suspended |-> FALSE, expires |-> now + ClaimLease]]
  /\ startedAt' =
       IF FirstStart(r) THEN [startedAt EXCEPT ![r] = now] ELSE startedAt
  /\ runs' =
       IF FirstStart(r) THEN [runs EXCEPT ![r] = RunExecutionStarted(@)]
       ELSE runs
  /\ drivers' = [drivers EXCEPT
       ![d].pc = IF Status(r) = "Finalizing" THEN "closing" ELSE "driving",
       ![d].held = TRUE]
  /\ UNCHANGED <<admittedAt, waits, steps, hooks, now>>

(* The run must wait for its rate or for a slot: only the deletion of the  *)
(* expired claims is committed.  When another driver holds the run, not    *)
(* even that is: the transaction is dropped.                               *)
RemainQueued(d) ==
  LET r == drivers[d].run IN
  /\ drivers[d].pc = "acquiring"
  /\ Claimable(r)
  /\ Live[r].owner = NoDriver
  /\ ~AmbiguousWork(r)
  /\ \/ FirstStart(r) /\ ~RateEligible(WorkflowOf[r])
     \/ ~HasCapacity(Live, WorkflowOf[r])
     \/ Status(r) = "Queued" /\ EarlierEligible(Live, r)
  /\ claims' = Live
  /\ UNCHANGED <<histories, drivers, now>>

(* The run is not executable any more: the claim is refused. *)
AbandonAcquisition(d) ==
  /\ drivers[d].pc = "acquiring"
  /\ ~Claimable(drivers[d].run)
  /\ Retire(d)
  /\ UNCHANGED <<histories, claims, now>>

(* SchedulerRecoveryRequired: the last owner left ambiguous work behind. *)
RequireRecovery(d) ==
  LET r == drivers[d].run IN
  /\ drivers[d].pc = "acquiring"
  /\ Claimable(r)
  /\ Live[r].owner = NoDriver
  /\ AmbiguousWork(r)
  /\ drivers' = [drivers EXCEPT ![d].pc = "checking", ![d].leaseNow = now]
  /\ UNCHANGED <<histories, claims, now>>

-----------------------------------------------------------------------------
(* Recovery (recover_run): ambiguous work is closed, never replayed. *)

(* RunSucceeded and RunFailed expand to the outcome and either the request *)
(* of a lifecycle hook or, without a lifecycle, the final event.           *)
Decided(r, o) ==
  IF WorkflowOf[r] \in HookedWorkflows
  THEN RunOutcomeDecided(runs[r], o)
  ELSE RunFinalized(RunOutcomeDecided(runs[r], o))

HookRequested(r) ==
  IF WorkflowOf[r] \in HookedWorkflows
  THEN [hooks EXCEPT ![r].status = "requested"]
  ELSE hooks

(* Fault: an interrupted attempt is replayed. *)
RecoverReplays(r) ==
  /\ steps' = IF steps[r].status = "started"
              THEN [steps EXCEPT ![r].status = "ready", ![r].attempts = 0]
              ELSE steps
  /\ UNCHANGED <<runs, hooks, admittedAt, startedAt, waits>>

(* A started lifecycle action fails as interrupted and completes its hook; *)
(* a started attempt of a running run fails as interrupted and fails the   *)
(* run.  Everything else stays as it is and can be resumed.                *)
RecoverRun(r) ==
  /\ IF hooks[r].status = "started"
     THEN /\ hooks' = [hooks EXCEPT ![r].status = "completed"]
          /\ UNCHANGED <<runs, steps>>
     ELSE IF Status(r) = "Running" /\ steps[r].status = "started"
     THEN /\ steps' = [steps EXCEPT ![r].status = "interrupted"]
          /\ SetRun(r, Decided(r, "Failed"))
          /\ hooks' = HookRequested(r)
     ELSE UNCHANGED <<runs, steps, hooks>>
  /\ UNCHANGED <<admittedAt, startedAt, waits>>

(* recover_policy_run_after_lease_loss deletes the expired claims and      *)
(* looks for a live one: two statements of their own, at the instant of    *)
(* the failed claim.                                                       *)
CheckLeaseLoss(d) ==
  LET live == LiveAt(drivers[d].leaseNow) IN
  /\ drivers[d].pc = "checking"
  /\ claims' = live
  /\ IF live[drivers[d].run].owner = NoDriver
     THEN drivers' = [drivers EXCEPT ![d].pc = "recovering", ![d].leaseNow = 0]
     ELSE Retire(d)
  /\ UNCHANGED <<histories, now>>

(* recover_run is the next transaction and does not look at the claims     *)
(* again.  The driver then continues the run without a claim: its options  *)
(* carry no policy coordinator.                                            *)
RecoverAfterLeaseLoss(d) ==
  /\ drivers[d].pc = "recovering"
  /\ RecoverRun(drivers[d].run)
  /\ Move(d, "driving")
  /\ UNCHANGED <<claims, now>>

(* recover_interrupted_runs: a process that executes a workflow without a  *)
(* runtime policy recovers every run of the store before it starts.        *)
RecoverInterruptedRun(r) ==
  /\ GeneralRecovery
  /\ AmbiguousWork(r)
  /\ RecoverRun(r)
  /\ UNCHANGED <<claims, drivers, now>>

-----------------------------------------------------------------------------
(* The run loop.  ensure_policy_execution_slot lets a driver pass unless   *)
(* its own lease is suspended; it never looks at the claim row.            *)

HasSlot(d) == ~drivers[d].suspended

(* step_attempt_started: the node is ready or its retry is due. *)
StartAttempt(d) ==
  LET r == drivers[d].run IN
  /\ drivers[d].pc = "driving"
  /\ HasSlot(d)
  /\ Status(r) = "Running"
  /\ WorkflowOf[r] \in WaitingWorkflows => waits[r] = "resolved"
  /\ steps[r].status \in {"ready", "due"}
  /\ steps' = [steps EXCEPT ![r] =
       [status |-> "started", attempts |-> @.attempts + 1, by |-> d]]
  /\ Move(d, "working")
  /\ UNCHANGED <<runs, admittedAt, startedAt, waits, hooks, claims, now>>

WorksOn(d, r) == steps[r].status = "started" /\ steps[r].by = d

(* The script returned: the attempt and the run succeed in one append. *)
AttemptSucceeds(d) ==
  LET r == drivers[d].run IN
  /\ drivers[d].pc = "working"
  /\ WorksOn(d, r)
  /\ Status(r) = "Running"
  /\ steps' = [steps EXCEPT ![r].status = "succeeded"]
  /\ SetRun(r, Decided(r, "Succeeded"))
  /\ hooks' = HookRequested(r)
  /\ Move(d, "closing")
  /\ UNCHANGED <<admittedAt, startedAt, waits, claims, now>>

(* Fault: one retry too many. *)
AttemptFailsOnceMore(d) ==
  LET r == drivers[d].run IN
  /\ drivers[d].pc = "working"
  /\ WorksOn(d, r)
  /\ Status(r) = "Running"
  /\ steps[r].attempts <= MaxAttempts
  /\ steps' = [steps EXCEPT ![r].status = "backoff"]
  /\ Move(d, "driving")
  /\ UNCHANGED <<runs, admittedAt, startedAt, waits, hooks, claims, now>>

(* The script failed: a retry is scheduled while attempts are left. *)
AttemptFails(d) ==
  LET r == drivers[d].run IN
  /\ drivers[d].pc = "working"
  /\ WorksOn(d, r)
  /\ Status(r) = "Running"
  /\ IF steps[r].attempts < MaxAttempts
     THEN /\ steps' = [steps EXCEPT ![r].status = "backoff"]
          /\ Move(d, "driving")
          /\ UNCHANGED <<runs, hooks>>
     ELSE /\ steps' = [steps EXCEPT ![r].status = "failed"]
          /\ SetRun(r, Decided(r, "Failed"))
          /\ hooks' = HookRequested(r)
          /\ Move(d, "closing")
  /\ UNCHANGED <<admittedAt, startedAt, waits, claims, now>>

(* The run was cancelled under the script, which is stopped. *)
AttemptCancelled(d) ==
  LET r == drivers[d].run IN
  /\ drivers[d].pc = "working"
  /\ WorksOn(d, r)
  /\ Status(r) = "Cancelling"
  /\ steps' = [steps EXCEPT ![r].status = "cancelled"]
  /\ Move(d, "driving")
  /\ UNCHANGED <<runs, admittedAt, startedAt, waits, hooks, claims, now>>

(* The attempt was closed by somebody else: its result is refused. *)
AttemptRefused(d) ==
  LET r == drivers[d].run IN
  /\ drivers[d].pc = "working"
  /\ ~WorksOn(d, r)
  /\ Move(d, "closing")
  /\ UNCHANGED <<histories, claims, now>>

(* The instant of a scheduled retry passes. *)
RetryDue(r) ==
  /\ Status(r) = "Running"
  /\ steps[r].status = "backoff"
  /\ steps' = [steps EXCEPT ![r].status = "due"]
  /\ UNCHANGED <<runs, admittedAt, startedAt, waits, hooks, claims, drivers, now>>

(* While only a scheduled retry is left the driver suspends its claim; a   *)
(* claim row that is gone is an error that ends the loop.                  *)
SuspendForRetry(d) ==
  LET r == drivers[d].run IN
  /\ drivers[d].pc = "driving"
  /\ Status(r) = "Running"
  /\ steps[r].status = "backoff"
  /\ drivers[d].held /\ ~drivers[d].suspended
  /\ IF Owns(d, claims)
     THEN /\ claims' = [claims EXCEPT ![r].suspended = TRUE]
          /\ drivers' = [drivers EXCEPT ![d].suspended = TRUE]
     ELSE Move(d, "closing") /\ UNCHANGED claims
  /\ UNCHANGED <<histories, now>>

(* Fault: the capacity is not checked again. *)
ResumeUnchecked(d) ==
  LET r == drivers[d].run IN
  /\ drivers[d].pc = "driving"
  /\ drivers[d].suspended
  /\ Live[r].owner = d
  /\ claims' = [Live EXCEPT ![r].suspended = FALSE]
  /\ drivers' = [drivers EXCEPT ![d].suspended = FALSE]
  /\ UNCHANGED <<histories, now>>

(* resume_policy_claim, before the next attempt or to settle cancellation: *)
(* lost ownership ends the loop, missing capacity keeps the driver waiting. *)
ResumeSlot(d) ==
  LET r == drivers[d].run IN
  /\ drivers[d].pc = "driving"
  /\ drivers[d].suspended
  /\ \/ Status(r) = "Running" /\ steps[r].status = "due"
     \/ Status(r) = "Cancelling"
  /\ IF drivers[d].lost \/ Live[r].owner # d
     THEN Move(d, "closing") /\ UNCHANGED claims
     ELSE IF HasCapacity(Live, WorkflowOf[r])
     THEN /\ claims' = [Live EXCEPT ![r].suspended = FALSE]
          /\ drivers' = [drivers EXCEPT ![d].suspended = FALSE]
     ELSE claims' = Live /\ UNCHANGED drivers
  /\ UNCHANGED <<histories, now>>

(* wait_registered: the run waits and the driver hands its slot back. *)
RegisterWait(d) ==
  LET r == drivers[d].run IN
  /\ drivers[d].pc = "driving"
  /\ HasSlot(d)
  /\ Status(r) = "Running"
  /\ WorkflowOf[r] \in WaitingWorkflows /\ waits[r] = "none"
  /\ SetRun(r, [runs[r] EXCEPT !.status = "Waiting"])
  /\ waits' = [waits EXCEPT ![r] = "registered"]
  /\ Move(d, "parking")
  /\ UNCHANGED <<admittedAt, startedAt, steps, hooks, claims, now>>

SuspendForWait(d) ==
  LET r == drivers[d].run IN
  /\ drivers[d].pc = "parking"
  /\ IF drivers[d].held /\ Owns(d, claims)
     THEN claims' = [claims EXCEPT ![r].suspended = TRUE]
     ELSE UNCHANGED claims
  /\ Move(d, "releasing")
  /\ UNCHANGED <<histories, now>>

(* The timer or the signal of the wait; the caller then dispatches the run. *)
ResolveWait(r) ==
  /\ Status(r) = "Waiting" /\ waits[r] = "registered"
  /\ SetRun(r, [runs[r] EXCEPT !.status = "Running"])
  /\ waits' = [waits EXCEPT ![r] = "resolved"]
  /\ UNCHANGED <<admittedAt, startedAt, steps, hooks, claims, drivers, now>>

RequestCancellation(r) ==
  /\ r \in CancellableRuns
  /\ CanRunCancellationRequested(runs[r])
  /\ SetRun(r, RunCancellationRequested(runs[r]))
  /\ UNCHANGED <<admittedAt, startedAt, waits, steps, hooks, claims, drivers, now>>

(* settle_cancelling_run: attempts that are still open are closed and the  *)
(* outcome is decided.  The loop first makes sure of its slot; after an    *)
(* error the epilogue settles without one.                                 *)
SettleCancelling(d) ==
  LET r == drivers[d].run IN
  /\ \/ drivers[d].pc = "driving" /\ HasSlot(d)
     \/ drivers[d].pc = "closing"
  /\ Status(r) = "Cancelling"
  /\ steps' = IF steps[r].status = "started"
              THEN [steps EXCEPT ![r].status = "cancelled"] ELSE steps
  /\ SetRun(r, RunOutcomeDecided(runs[r], "Cancelled"))
  /\ hooks' = HookRequested(r)
  /\ Move(d, "closing")
  /\ UNCHANGED <<admittedAt, startedAt, waits, claims, now>>

(* The loop finds nothing it may run: the run was decided, parked or is    *)
(* being worked on by another driver.                                      *)
LeaveLoop(d) ==
  LET r == drivers[d].run IN
  /\ drivers[d].pc = "driving"
  /\ \/ Status(r) \notin {"Running", "Cancelling"}
     \/ Status(r) = "Running" /\ steps[r].status = "started"
  /\ Move(d, "closing")
  /\ UNCHANGED <<histories, claims, now>>

-----------------------------------------------------------------------------
(* drive_workflow_lifecycle, the epilogue of every driver. *)

(* No slot is asked for before a lifecycle action starts. *)
StartHook(d) ==
  LET r == drivers[d].run IN
  /\ drivers[d].pc = "closing"
  /\ Status(r) = "Finalizing"
  /\ hooks[r].status = "requested"
  /\ hooks' = [hooks EXCEPT ![r] = [status |-> "started", by |-> d]]
  /\ Move(d, "hooking")
  /\ UNCHANGED <<runs, admittedAt, startedAt, waits, steps, claims, now>>

(* The action settles, successfully or with a warning; if recovery closed  *)
(* it meanwhile the result is refused and the driver gives up.             *)
FinishHook(d) ==
  LET r == drivers[d].run IN
  /\ drivers[d].pc = "hooking"
  /\ IF hooks[r].status = "started" /\ hooks[r].by = d
     THEN /\ hooks' = [hooks EXCEPT ![r].status = "completed"]
          /\ Move(d, "closing")
     ELSE Move(d, "releasing") /\ UNCHANGED hooks
  /\ UNCHANGED <<runs, admittedAt, startedAt, waits, steps, claims, now>>

FinalizeRun(d) ==
  LET r == drivers[d].run IN
  /\ drivers[d].pc = "closing"
  /\ CanRunFinalized(runs[r])
  /\ hooks[r].status \in {"none", "completed"}
  /\ SetRun(r, RunFinalized(runs[r]))
  /\ Move(d, "releasing")
  /\ UNCHANGED <<admittedAt, startedAt, waits, steps, hooks, claims, now>>

LeaveEpilogue(d) ==
  LET r == drivers[d].run IN
  /\ drivers[d].pc = "closing"
  /\ \/ Status(r) \notin {"Cancelling", "Finalizing"}
     \/ Status(r) = "Finalizing" /\ hooks[r].status = "started"
  /\ Move(d, "releasing")
  /\ UNCHANGED <<histories, claims, now>>

(* The heartbeat is stopped first; the row is deleted if it is still ours. *)
ReleaseSlot(d) ==
  /\ drivers[d].pc = "releasing"
  /\ claims' = IF Owns(d, claims)
               THEN [claims EXCEPT ![drivers[d].run] = NoClaim] ELSE claims
  /\ Retire(d)
  /\ UNCHANGED <<histories, now>>

-----------------------------------------------------------------------------
(* Heartbeats, process death and the clock. *)

HeartbeatRuns(d) ==
  /\ drivers[d].held /\ ~drivers[d].lost
  /\ drivers[d].pc \notin {"idle", "releasing", "done"}

(* renew_policy_claim: an expired or deleted row is lost for good. *)
Heartbeat(d) ==
  LET r == drivers[d].run IN
  /\ HeartbeatRuns(d)
  /\ IF Owns(d, claims) /\ claims[r].expires > now
     THEN /\ claims' = [claims EXCEPT ![r].expires = now + ClaimLease]
          /\ UNCHANGED drivers
     ELSE /\ drivers' = [drivers EXCEPT ![d].lost = TRUE]
          /\ UNCHANGED claims
  /\ UNCHANGED <<histories, now>>

(* The heartbeat cannot open the store: it gives up at once. *)
HeartbeatFails(d) ==
  /\ StalledHeartbeats
  /\ HeartbeatRuns(d)
  /\ drivers' = [drivers EXCEPT ![d].lost = TRUE]
  /\ UNCHANGED <<histories, claims, now>>

(* The bound on the clock leaves room for the claim to expire. *)
Crash(d) ==
  /\ d \in CrashableDrivers
  /\ drivers[d].pc \notin {"idle", "done"}
  /\ now + ClaimLease <= MaxTime
  /\ Retire(d)
  /\ UNCHANGED <<histories, claims, now>>

(* Every process that opens the store deletes the expired claims. *)
OpenStore ==
  /\ claims # Live
  /\ claims' = Live
  /\ UNCHANGED <<histories, drivers, now>>

(* A heartbeat renews every third of a lease, so a lease only expires      *)
(* under a living driver if the heartbeat is stalled or has failed.        *)
Tick ==
  /\ now < MaxTime
  /\ \/ StalledHeartbeats
     \/ \A d \in Drivers :
          HeartbeatRuns(d) /\ Owns(d, claims)
            => claims[drivers[d].run].expires > now + 1
  /\ now' = now + 1
  /\ UNCHANGED <<histories, claims, drivers>>

ClockStepsBack ==
  /\ \E t \in 0..(now - 1) : now - t <= MaxRollback /\ now' = t
  /\ UNCHANGED <<histories, claims, drivers>>

-----------------------------------------------------------------------------
(* The specification. *)

DriverStep(d) ==
  \/ ClaimSlot(d) \/ RemainQueued(d) \/ AbandonAcquisition(d)
  \/ RequireRecovery(d) \/ CheckLeaseLoss(d) \/ RecoverAfterLeaseLoss(d)
  \/ StartAttempt(d) \/ AttemptSucceeds(d) \/ AttemptFails(d)
  \/ AttemptCancelled(d) \/ AttemptRefused(d)
  \/ SuspendForRetry(d) \/ ResumeSlot(d)
  \/ RegisterWait(d) \/ SuspendForWait(d)
  \/ SettleCancelling(d) \/ LeaveLoop(d)
  \/ StartHook(d) \/ FinishHook(d) \/ FinalizeRun(d)
  \/ LeaveEpilogue(d) \/ ReleaseSlot(d)

RunStep(r) ==
  \/ AdmitRun(r) \/ ResolveWait(r) \/ RetryDue(r) \/ RequestCancellation(r)
  \/ RecoverInterruptedRun(r)

Next ==
  \/ \E r \in Runs : RunStep(r) \/ \E d \in Drivers : DispatchRun(d, r)
  \/ \E d \in Drivers :
       DriverStep(d) \/ Heartbeat(d) \/ HeartbeatFails(d) \/ Crash(d)
  \/ OpenStore \/ Tick \/ ClockStepsBack

Spec == Init /\ [][Next]_vars

(* A driver that is not dead polls the store (every 250 ms while queued),  *)
(* a run without a driver is dispatched by its ingress or by startup       *)
(* recovery, its heartbeat runs, retries come due and time passes.         *)
FairSpec ==
  /\ Spec
  /\ \A d \in Drivers : WF_vars(DriverStep(d)) /\ WF_vars(Heartbeat(d))
  /\ \A r \in Runs :
       WF_vars(RetryDue(r)) /\ WF_vars(\E d \in Drivers : DispatchRun(d, r))
  /\ WF_vars(Tick)

-----------------------------------------------------------------------------
(* Properties. *)

(* However claims are taken, suspended, resumed, renewed, expired and      *)
(* released, the unsuspended claims of a workflow never exceed its         *)
(* concurrency limit (workflow_has_policy_capacity).                       *)
SlotsWithinConcurrency ==
  \A w \in Workflows :
    Concurrency[w] # 0 => Cardinality(Active(claims, w)) <= Concurrency[w]

(* Every window of the length of the rate limit holds at most as many      *)
(* first starts as the limit allows, wherever the window lies and although *)
(* the wall clock may step back (workflow_rate_eligibility).               *)
StartsWithinRate ==
  \A w \in Workflows : RateCount[w] # 0 =>
    \A t \in (-RateWindow[w])..MaxTime :
      Cardinality({r \in Runs :
        /\ WorkflowOf[r] = w
        /\ startedAt[r] # NoInstant
        /\ startedAt[r] > t /\ startedAt[r] <= t + RateWindow[w]})
      <= RateCount[w]

(* Runs of one workflow first start in the order of their admission:       *)
(* capacity that frees up, a rate window that opens or a driver that polls *)
(* first never lets a later run overtake (earlier_eligible_policy_run_     *)
(* exists).                                                                *)
StartOrder ==
  [][\A q, r \in Runs :
       /\ WorkflowOf[q] = WorkflowOf[r]
       /\ Status(q) = "Queued" /\ Precedes(q, r)
       => startedAt'[r] = startedAt[r]]_vars

(* Work is closed as interrupted only when the driver that executes it has *)
(* no live claim on the run: "A live owner can never be recovered by       *)
(* another process." (recover_policy_run_after_lease_loss)                 *)
LiveOwnersNotInterrupted ==
  [][\A r \in Runs :
       /\ steps[r].status = "started" /\ steps'[r].status = "interrupted"
            => Live[r].owner # steps[r].by
       /\ hooks[r].status = "started" /\ hooks'[r].status = "completed"
            => \/ Live[r].owner # hooks[r].by
               \/ drivers[hooks[r].by] # drivers'[hooks[r].by]]_vars

(* A script is never entered twice at once: although a lease may expire    *)
(* under a driver that still works, and other drivers then claim or        *)
(* recover the run, no second driver is inside the step's script, or       *)
(* inside the hook's, of the same run.                                     *)
ScriptsNeverOverlap ==
  \A d, e \in Drivers :
    /\ drivers[d].run = drivers[e].run
    /\ drivers[d].pc = drivers[e].pc
    /\ drivers[d].pc \in {"working", "hooking"}
    => d = e

(* Once a cancellation is durable no driver, whether it was queued before  *)
(* or dispatched after the request, starts the run, charges its rate       *)
(* window or begins another attempt of its step.                           *)
CancellationStopsStarts ==
  [][\A r \in Runs :
       runs[r].cancelRequested =>
         /\ runs'[r].started = runs[r].started
         /\ startedAt'[r] = startedAt[r]
         /\ steps'[r].attempts = steps[r].attempts]_vars

(* The number of runs of a workflow that execute a script, business or     *)
(* lifecycle, never exceeds its concurrency: "concurrency limits actively  *)
(* executing runs of this workflow ID across all WOML processes".          *)
ExecutingWithinConcurrency ==
  \A w \in Workflows : Concurrency[w] # 0 =>
    Cardinality({d \in Drivers : /\ WorkflowOf[drivers[d].run] = w
                                 /\ drivers[d].pc \in {"working", "hooking"}})
    <= Concurrency[w]

(* Every queued run eventually leaves the queue, although a driver may die *)
(* with the claim that blocks it.                                          *)
QueuedRunsStart ==
  \A r \in Runs : Status(r) = "Queued" ~> Status(r) # "Queued"

=============================================================================
