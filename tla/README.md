# WOML durable runtime: verification project

WOML is a workflow markup language with a durable runtime. A TypeScript
compiler (`woml/`) turns markup into a compiled model; a Rust engine
(`core/woml-engine/`) executes it. Every run is an append-only event history in
one SQLite database that several processes may share. Before an append commits,
the engine folds the candidate history into a projection and refuses an event
the projection does not accept. Work of different runs and processes is
coordinated through relational tables next to the histories: locks, scheduler
claims, waits, approvals, workflow calls, notifications, triggers, artifacts
and remote work.

This directory models that coordination, which is where a unit test reaches
least, and the path of a workflow from its source to the end of a run. Paths
below are relative to `src/core/woml-engine/src/` unless they start with
`docs/` (that is `src/docs/`). `PROJECT.json` maps every definition to the lines
it stands for and lists, under `hazards`, each place where the code can go wrong
in a way tests hardly reach, with the properties that watch it.

## 1. Inventory

| Component | State | Operations | What is hard | What makes it correct | Module |
| --- | --- | --- | --- | --- | --- |
| event store (`durable/events`) | event rows, run cursors | append, read, fold | an append is atomic and refused by the fold | a history is a fold of accepted events | partly: every action is one append transaction |
| run projection (`projection/`) | status, outcome, attempts, locks, waits, ... | one fold per event | an event folded after a cancellation or a decision | a decided run ends with its outcome | `RunFold` for the shared part; the other folds are conjuncts of the actions of their modules |
| durable locks and leases (`durable/transactions/locks`, `locks.rs`) | `woml_lock_resources`, `woml_lock_waiters` | register, grant, release, renew, time out, cancel, expire, fence | one run's transaction rewrites rows and history of another; clock rollback; restore | one owner per key, unique rising tokens, order, no idle key | `LockLeases`, `FencedLock` |
| runtime policies (`durable/transactions/policy.rs`, `runtime/scheduling/policy.rs`) | `woml_scheduler_claims`, `woml_runtime_policy_starts` | admit, claim, renew, suspend, resume, release, recover | leases expire under slow drivers; crashes; duplicate dispatch | slots, rate and order respected; scripts never overlap; the queue moves | `PolicyScheduler` |
| durable waits and signals (`durable/transactions/waits.rs`, `signals.rs`, `webhook/waits.rs`) | wait rows, signal receipts | register, admit a signal, scan, settle | a signal before, while or after the wait is registered; deadlines | each receipt applied once and none passed over | `DurableWaits` |
| workflow calls (`workflow_calls.rs`) | call rows, child runs | admit, claim, wake, scan, answer, reconcile | lost wake-ups, retries, crashes between parent and child, a process that starts beside live ones | no cycle, one executor unless a process that starts reopens its row, committed answers | `WorkflowCalls` |
| approvals and notification delivery (`durable/transactions/approvals.rs`, `notifications/`, `notification_runtime/`) | request, deliveries, updates, credentials | request, send, retry, decide, time out, recover | ambiguous sends; a decision that races the deadline | nobody is asked twice unless a custom provider hid that it had sent, one decision, no hopeless wait | `ApprovalNotifications` |
| plan reviews (`durable/transactions/rich_approvals.rs`) | review row, votes, pins, directory versions | create, vote, expire, cancel, reload | the directory changes under a review | quorum of the pinned version, settled once | `RichApprovals` |
| infrastructure policy (`infrastructure_policy*.rs`, `capability/`) | pinned bundle, decisions, evidence | bind, evaluate, dispatch | evidence between evaluation and dispatch; restarts with other bundles | no effect the pinned bundle did not allow | `InfrastructurePolicy` |
| remote dispatch and worker journal (`remote_*`) | dispatch rows, queue, sessions, journal | enqueue, offer, accept, start, report, reconcile | requests outlive their sender; restarts of both sides | a script runs once | `RemoteDispatch` |
| durable state (`durable_state.rs`) | entries, versions, receipts, quota | get, set, increment, claim, delete | a call that times out while its task commits; retries; a crash in between | a write is applied once and reported as it happened | `DurableState` |
| saga correction (`runtime/correction`) | phases, actions, manual recovery | register, commit, compensate, clean up, resolve | one append per stage, an operator beside the driver | nothing repeated blindly, nothing committed undone | `SagaCorrection` |
| loops (`runtime/control_flow/for_each`) | iterations, steps, operations | admit, attempt, settle, recover | futures dropped while scripts run | a step runs once | `ForEachLoops` |
| forks (`runtime/control_flow/forks.rs`) | branches, join, main route | open, settle, join, cancel, recover | the driver acts on what it read before other appends | success is whole, a script runs once | `ForkJoin` |
| parallel groups (`runtime/control_flow/parallel.rs`) | children, outcome | start, settle, cancel, recover | fail-fast with children under way | the outcome is that of the children | `ParallelGroup` |
| lifecycle hooks (`runtime/lifecycle`) | hooks, actions, operations | request, run, notify, finalize | crashes in the middle, cancellation between read and append | an action runs once, an end is observed | `Lifecycle` |
| schedules and intervals (`webhook/schedules.rs`, `intervals.rs`) | cursor, occurrences, route lease | register, catch up, claim | two hosts, redeployment, a clock set back | the cursor moves with the run of its instant, once | `TimedTriggers` |
| event, webhook and chat admission (`webhook/`, `events_service.rs`, `durable/transactions/admission.rs`) | occurrences, publications, tasks | admit, answer, dispatch, emit, recover | redelivery, a crash between commit and dispatch | honest answers, one run and one driver each, no cycle | `EventAdmission` |
| artifacts (`artifacts/`) | rows, blobs, transfers, pins, copies | put, stream, read, pin, retain, collect, scrub | bytes and rows are not one transaction | an answered reference stands | `Artifacts` |
| operational output (`operational_output.rs`, the server's hub, the CLI's follower) | records, budgets, cursors | append, prune, flush, follow, reconnect | budgets, pruning and cut connections under a reader | a reader misses nothing without a gap, but for what a cut stream had announced | `OperationalOutput` |
| compiler (`woml/src/compiler.ts`) and model validation (`model/validation.rs`) | none | accept, lower, inspect | constructs inside constructs | what is accepted loads | `WorkflowCompiler`, `ModelValidation` |
| readiness and run loop (`engine/readiness.rs`, `runtime/scheduling/run_loop.rs`) | projection, ready set | schedule, suspend, resume | joins, selections and suspensions together | a run ends as its source says | `GraphRun` |
| run control (`durable/transactions/run_control`) and recovery (`durable/recovery*`) | cancellation, timeout, outcome | request, settle, decide, interrupt | races with everything above | nothing starts afterwards; one outcome | in the module of each node kind |
| backup and restore (`backup.rs`) | an earlier copy of the store | back up, restore, new epoch | grants after the backup are lost | only the tokens of lost grants repeat | `LockLeases` |
| run-scoped cache, retention of runs, target registry | | | | | not modelled (section 5) |
| script hosts, HTTP, databases, providers, telemetry, native bindings, command line, editor | | | | | not modelled: I/O or glue |

## 2. Modules

`RunFold` is the part of `projection/` that guards run control and locks: for
each event, whether a projection accepts it (`Can...`) and what it becomes. The
modules that share a run's status extend it. Every other component module is
self-contained: its variables carry a prefix, its actions are store
transactions, clock reads that a later transaction relies on, or steps of the
world (a crash, a lost message, a tick).

| Module | Variables (prefix) | Actions and the code they stand for |
| --- | --- | --- |
| `LockLeases` | `resources`, `waiters`, `locks`, `runs`, `admitted`, `now`, `backup`, and observers | below |
| `FencedLock` | holder and token of each key | the abstract promise: one holder per key, an acquisition is served once, a hand-over raises the token by one |
| `PolicyScheduler` | `runs`, `admittedAt`, `startedAt`, `waits`, `steps`, `hooks`, `claims`, `drivers`, `now` | below |
| `DurableWaits` | `wait...`: runs, rows, signals, drivers, scans, clock | `ReadRegistrationClock` / `RegisterDurableWait` are apart because the driver reads `registered_at` before its transaction; `AdmitExternalSignal`; `ScanDueWaits` reads a batch and an instant that `SettleNext` uses later; cancellation, run timeout, restart |
| `WorkflowCalls` | `callRuns`, `callRows`, `callers`, `executors`, `reopened` (observer) | a run is identified with its lineage, because the child identity is derived from the call key. `AdmitWorkflowCall` / `RefuseWorkflowCall`, `DispatchWorkflowCall`, `LoseWakeup`, `ScanAdmittedCalls`, `ObserveChild`, `CrashAndRecover`; `StartBeside` is the reconciliation of a process that starts while others execute, and admits their running children again |
| `ApprovalNotifications` | `apRun`, `apRequest`, `deliveries`, `updates`, `credentials`, `invocations`, `sent` (what the provider put before a person), `journeys` | `JourneyStep` is the loop of `notification_runtime/journey.rs`, `HostAnswers` the built-in transports and the host of custom providers, which answers a timeout after a send as retryable (`hidden` counts such answers), `HumanDecision` the link or button, `RestartAndRecover` closes attempts in flight |
| `RichApprovals` | `rv...`, `votes`, `snapshots`, `active` | `CreateRichApproval`, `RecordDecision`, `ExpireReview`, cancellation, run timeout, `ReloadDirectory`, `RestartDirectory` |
| `InfrastructurePolicy` | `ip...` | `BindRun`, `EvaluateCall`, `DispatchCall`, `NativeFetch`, `CancelCall`; votes, lost artifacts, leases and restarts with other options come between |
| `RemoteDispatch` | `rd...` | the coordinator's maintenance and its answers (`Serve`), the worker's loop and journal; `rdWire` holds requests that outlive their sender; `rdExecuted` observes executions |
| `DurableState` | `st...` | `BeginOperation`, `EnterTask`, `ExecuteTask`, `RecordOperation` are the four separate steps of one call; attempts, timeouts, cancellation, recovery; `stLog` observes commits |
| `SagaCorrection` | `sg...` | forward steps, `BeginCorrection` to `CorrectionReturns` one append each, the operator, recovery; `sgEffects`, `sgOrders` observe |
| `ForEachLoops` | `fe...` | the coordinator, its futures and the managed operation of an iteration, settlement event by event (v16) or in one transaction, recovery |
| `ForkJoin` | `fj...` | the run loop around the fork and the stages of `execute_fork` (`ForkPass`, `SettleBranch`, `SettleJoin`, `FinishFork`, `StartForkScripts`, `ForkScriptEnds`), cancellation, timeout, recovery |
| `ParallelGroup` | `pg...` | `execute_parallel_group` and the validation of its appends, cancellation, timeout, recovery |
| `Lifecycle` | `lc...` | hook requests in the append that makes them due, script and notification actions, reusable definitions, a wait, cancellation, timeout, recovery |
| `TimedTriggers` | `tt...` | activation of a host, catch-up, timer loops (`TimerReads`, `TimerWakes`, `TimerClaims`), route leases, the clock |
| `EventAdmission` | `ea...` | one transaction per subscriber (`AdmitDelivery`), answers, dispatch, `EmitEvent` with its lineage, crash, `PrepareEventHost` / `ActivateEventHost` |
| `Artifacts` | `ar...` | puts as stage, publish and commit; streamed output; `AuthorizeUse` / `Materialize`; pins; `OpenStore`, retention, orphan collection and scrubbing in the order of the code; damage, crashes |
| `OperationalOutput` | `ooStore`, `ooHistory`, `ooHost`, `ooHub`, `ooReader` | appends within three budgets, remote pages, pruning, recovery of streams; the hub's pages and queue; the follower with its cursor, gaps and reconnection; `ahead` holds what a gap event announced and is still to come, `passed` what the end of the stream cut off |
| `WorkflowCompiler`, `ModelValidation` | none | operators: which flows are accepted, the graph they are lowered to, what the loader demands of it |
| `GraphRun` | `program`, `model`, `phase`, `driver`, `context`, `done`, `chosen`, `started`, `awaiting`, `ran` | `Compile`, `Load`, then the run loop by what is ready |

`MC...` modules give small values to the constants. `MCSuspension`, `MCEffects`
and `MCOrchestration` put several components side by side: a variable `focus`,
chosen initially, says which one moves. The components share no state in these
suites, so every behaviour of a component is there and the state spaces add up
instead of multiplying. `...Proofs` modules hold the TLAPS proofs (section 4).
Operators whose comment starts with "Fault:" are plausible bugs of the
definition behind them; they are used in no specification and only serve to
show that a property notices them.

### LockLeases

| Variable | Code |
| --- | --- |
| `resources[k]` | row of `woml_lock_resources`: fencing high water, owner, the owner's token, expiry |
| `waiters[e]` | row of `woml_lock_waiters`: status, key, sequence, deadline, token |
| `locks[e]` | `LockStatus` that the fold projects for a markup lock |
| `runs[r]` | the projection of a run (`RunFold`) |
| `admitted[k]` | the greatest token under which this store admitted a managed effect (an observer, which the code does not keep) |
| `now` | the wall clock every transaction reads |
| `backup`, `restores` | the store as it was when the last backup was taken; how often one was restored |
| `told`, `forgotten` | observers: the grants acquisitions were ever told of; the tokens of each key whose grants a restore lost |

A transaction is a function from a database value `d` to a database value.
`Expire` (`expire_lock_owner`) and `Grant` (`grant_next_lock_waiter`) work inside
their caller's transaction and may append to *another* run's history. `ExpireOK`
and `GrantOK` say when they raise no error; an error rolls the caller back, so
the caller is then not enabled.

| Action | Code |
| --- | --- |
| `RegisterLockWaiter`, `AcquireProgrammaticLock` | `register_lock_waiter_v1`, the script session's acquire: expire, enqueue within the waiter limits, grant |
| `ReattachSession` | a second acquire with the identity of a row that exists |
| `ReleaseLock`, `ReleaseProgrammaticLock` | release, then grant; after expiry the release loses |
| `RenewLockLease`, `RenewProgrammaticLock` | heartbeat: extend to the larger of the old expiry and now + lease |
| `AdmitManagedEffect`, `AdmitSessionEffect` | fencing check before a managed effect |
| `TimeoutLockWaiter`, `PollProgrammaticLock` | the waiting loops |
| `CancelLockWaiter`, `CancelProgrammaticWaiter` | a cancelling run, a session that is torn down |
| `RequestRunCancellation`, `SettleRunTimeout`, `DecideRun...`, `FinalizeRun` | run control as far as locks meet it |
| `TakeBackup`, `RestoreBackup` | a copy of the store is put aside; later `prepare_restored_store` takes the leases from the owners of that copy, which replaces the store |
| `Tick`, `ClockRollback` | the wall clock |

### PolicyScheduler

| Variable | Code |
| --- | --- |
| `runs[r]` | the projection of a run |
| `admittedAt`, `startedAt` | `admitted_at`; `woml_runtime_policy_starts` |
| `waits[r]`, `steps[r]`, `hooks[r]` | the run's durable wait, the latest attempt of its step with the driver that started it, its lifecycle hook |
| `claims[r]` | row of `woml_scheduler_claims`: owner, suspended (the reserved workflow id), expiry |
| `drivers[d]` | local state of one invocation of `execute_policy_run_durable`: where it is, whether it holds a lease, whether its heartbeat gave up |
| `now` | the wall clock, which is the policy clock |

| Action | Code |
| --- | --- |
| `AdmitRun`, `DispatchRun` | admission under the queue ceiling; ingress or startup recovery starts a driver |
| `ClaimSlot`, `RemainQueued`, `AbandonAcquisition`, `RequireRecovery` | the outcomes of `try_claim_policy_run_at` in the acquisition loop |
| `CheckLeaseLoss`, `RecoverAfterLeaseLoss` | the two halves of `recover_policy_run_after_lease_loss`: look for a live claim, then recover, each its own transaction |
| `RecoverInterruptedRun` | `recover_interrupted_runs` of another process |
| `StartAttempt`, `AttemptSucceeds`, `AttemptFails`, `AttemptCancelled`, `AttemptRefused` | one script attempt; its result is refused when the history moved on |
| `RetryDue`, `SuspendForRetry`, `ResumeSlot` | retry backoff without a slot |
| `RegisterWait`, `SuspendForWait`, `ResolveWait` | a durable wait ends the driver's claim |
| `RequestCancellation`, `SettleCancelling`, `LeaveLoop` | cancellation and the end of the run loop |
| `StartHook`, `FinishHook`, `FinalizeRun`, `LeaveEpilogue`, `ReleaseSlot` | the lifecycle epilogue and the release of the lease |
| `Heartbeat`, `HeartbeatFails`, `Crash`, `OpenStore`, `Tick`, `ClockStepsBack` | the environment |

## 3. Runs

| Run | Instance | Checks |
| --- | --- | --- |
| `lock_queue` | 2 runs, 2 markup locks and a session on one key; owners may vanish without releasing | `NoLostWakeup`: no committed state has a grantable waiter behind a free key. `GrantOrder`: tokens follow registration order. `ImplementsFencedLock`: refinement. `AcquisitionSettles`: every waiter is granted or settles |
| `lock_failures` | the same, with cancellation, total timeout, a failing body, an earlier backup that is restored, one waiter per key and a clock that steps back | `TypeOK`, `OwnerMatchesQueue`: tables and histories agree. `UniqueTokens`: no token of a key is told to two acquisitions, unless a restore lost the first grant. `EffectTokensMonotone`: in one store a former owner admits nothing after its successor. `RecordsStand`: a settled acquisition never changes and a lease that stays with its owner is never shortened |
| `policy_leases` | 1 run with a wait, a retried step and a hook; 4 drivers; crashes, stalled heartbeats, duplicate dispatch, cancellation, general recovery | `TypeOK`, `ScriptsNeverOverlap`: never two drivers inside the step's script, or the hook's, of one run |
| `policy_slots` | 2 runs, 2 drivers, 1 slot, 1 start in a window of 2 ticks; crashes, stalled heartbeats, cancellation, clock rollback | `SlotsWithinConcurrency`; `StartsWithinRate` for every window; `CancellationStopsStarts`: after a durable cancellation the run is not started, its rate window not charged and no attempt begun; `StartOrder` of the runs of a workflow |
| `policy_liveness` | 2 runs, 1 slot, a driver that may die anywhere | `QueuedRunsStart` |
| `suspension` | `MCSuspension`: what a run waits for and asks permission for | `SignalsAccounted`: a wait that a signal resolved has exactly one consumed receipt, a registered wait passes no receipt over, early receipts are bounded. `CallsConsistent`: no call cycle, no executor beyond the first that a starting process does not explain, committed answers. `NoUnexplainedRepeat`: a message is repeated only after a custom provider sent it and answered retryable, within the attempts of its delivery. `UnreachableApprovalEnds`: no run waits for an approval nobody heard of. `ReviewConsistent`: quorum of the pinned directory, settled once. `EffectsWereAllowed`: by the pinned bundle, its evidence and, within the remainder it asks for, its lock. `SettlementsStand`: the first outcome of a wait or an approval stands |
| `effects` | `MCEffects`: effects that must be neither repeated nor lost | `RemoteRunsOnce`. `StateEffectsHonest`: a mutation is applied once and reported as it happened. `CorrectionsSound`: no correction is repeated blindly, nothing committed is undone. `LoopStepRunsOnce`. `ActionsRunOnce` (a custom provider may post once per attempt of its one execution) and `EndsObserved` of hooks. `ReadersMissNothing` without being told of a gap, but for `passed` |
| `orchestration` | `MCOrchestration`: what starts runs and what splits them | `SuccessIsWhole` and `ForkRunsOnce` of forks. `GroupOutcomeHonest`. `CursorMovesWithRun`: a run of a timer is admitted by the step that moves the cursor over its instant, and by no claim that lost it. `AdmissionsHonest`: an accepted answer names the run of that delivery, lineages never repeat a subscriber. `QueuedRunsDrivenOnce`. `ReferencesStand`: an answered artifact reference is unique and stands |
| `graph` | `MCGraphRun`: every construct around every construct, three levels deep, every pair in sequence, and readers of every output | `AcceptedSourcesLoad`: what the compiler accepts the engine loads. `RunsEndAsWritten`: a run reaches its end, and success ran what the source says. `PromisedOutputsPublished`: what a script may read is published before it starts |

Three runs show places where the code does not do what a document or a comment of
the repository says. Each checks one property and TLC finds a counterexample.

| Run | Property | What happens |
| --- | --- | --- |
| `redelivery` | `AcknowledgedRunsDriven` | A WhatsApp callback fails after it admitted its first subscriber and returns 503 without dispatching it; the redelivery finds a duplicate, is acknowledged, and the run is never driven until the host restarts (`webhook/whatsapp.rs:448`; `docs/protocols/production-triggers-v1.md:60-62`). |
| `second_process` | `SingleExecutor` | A second process starts beside the first; its reconciliation puts the row of a child that the first executes back to admitted, and the child is executed a second time (`durable/recovery.rs:158-169`; `durable/transactions/workflow_calls.rs:483`, `docs/protocols/workflow-calls-v1.md:91`). |
| `artifact_loss` | `BytesRemain` | A cleanup removes a blob between its publication and the commit that makes it reachable, as a maintenance opens the store anew (`artifacts/backend/local.rs:224`). |

Defined, true on these instances, and left out of the configurations because
another property says more: `SuspensionTypeOK`, `EffectsTypeOK`,
`OrchestrationTypeOK`, `StartsAreSafe` (`ParallelGroup`, which is proved),
`InstantRunsOnce` (`TimedTriggers`, proved), `SettledDispatchesStand`
(`RemoteDispatch`) and `AdmissionBounded` (`ForEachLoops`).

### Bounds

- Locks and policies: time is a tick counter up to `MaxTime` (2 or 3). One tick
  is one lease, so two ticks are enough for a lease to be granted, expire, be
  granted on and expire again, and for a deadline to fall before, at and after
  an expiry. Actions that would wait past the bound (`Crash`, registration in
  `lock_queue`) require that the lease or deadline still fits, so no liveness
  result depends on a clock that stops. One contended key: keys share only the
  store-wide waiter limit. Three acquisitions: an owner, the next one and one
  that is refused, expires or overtakes. `MaxRollback = 1` is one lease,
  `MaxRestores = 1` one restore of a backup taken at any earlier point.
- Four drivers in `policy_leases`: an owner whose lease expired, a driver that
  recovers, one that claims meanwhile and one more. Drivers are one-shot: a
  second invocation is another driver. They are interchangeable, hence the
  symmetry set where no liveness is checked.
- The suites: two actors of each kind that can race (schedulers, workers, hosts,
  runs of the state store), two attempts, one crash or restart per behaviour
  (two for hooks, because some defects need a second one), limits small enough
  that they bind (`EarlyLimit = 2` with three signals, `CallQueueCeiling = 1`,
  `MaxStateKeys = 1`, `EventQueueCeiling = 2`, `ArtifactStoreBytes = 2`, output
  budgets of 2 and 3 records). Some are larger in the code: `SendAttempts` 3,
  `HubPageSize` 250, `HubPages` 4, `QueueSize` 256, `ReplayPageSize` 1000,
  `MaxEvidence` 128; the smaller values reach every branch that compares with
  them.
- In `suspension` the clock of an approval starts with its request, only the
  step of the root workflow calls with a second payload, and the run that makes
  no capability call is voted on at the first instant only.
- Groups have three children of which two run at once, loops three iterations of
  which two run at once, forks two branches that are joined all, one or none.
- `graph`: constructs interact with what is directly around, inside, before and
  after them; three levels put every construct between two others.

Deadlock checking is off in every run: a store in which all runs ended, or
whose clock reached the bound, has nothing left to do.

`GrantOrder` is checked, and proved, without clock rollback. With one it does
not hold, and need not: a waiter that was skipped as overdue becomes eligible
again when the clock steps back behind its deadline.

### Fairness

Liveness is checked in `lock_queue` and `policy_liveness`.

- `WF(Tick)`: time passes.
- `WF(TimeoutLockWaiter)`, `WF(PollProgrammaticLock)`: the run loop and the
  `withLease` loop poll every 25 ms as long as they wait. No fairness is
  assumed of releases and renewals, so owners may vanish.
- `WF(DriverStep)`: a driver that lives goes on; the acquisition loop polls
  every 250 ms. `Crash` retires a driver, so nothing is assumed of a dead one.
- `WF(Heartbeat)`: a thread of the driver that renews every 5 s of a 15 s lease.
- `WF(DispatchRun)`: a run without a driver is dispatched by its ingress or by
  the next startup recovery. This is an assumption on operation: the engine
  alone does not restart a dead process.
- `WF(RetryDue)`: the backoff of a retry ends.

Weak fairness is enough: the queue order keeps later runs from taking a free
slot before the first eligible one, so a driver cannot lose that race for ever.

## 4. Proofs

TLC checks the instances above; TLAPS proves the following for every value of
the constants that satisfies the named assumptions of their modules (types of
the limits, finiteness of the sets that are counted, disjoint or injective
identities).

| Theorem | States |
| --- | --- |
| `LockLeasesProofs`: `Invariance`, `TypeCorrectness`, `OwnershipSafety`, `FencingUniqueness`, `EffectFencing` | `TypeOK`, `OwnerMatchesQueue`, `UniqueTokens`, `EffectTokensMonotone` |
| `LockLeasesProofs`, second part: `HandoverInvariance`, `RecordsAreFinal`, `GrantsInOrder`, `NoKeyIdles`, `Refinement` | `RecordsStand`; `GrantOrder` if `MaxRollback = 0`; `NoLostWakeup` if also `MaxRestores = 0`; `ImplementsFencedLock` |
| `PolicySchedulerProofs`: `SchedulerInvariance`, `SchedulerTypes`, `SlotSafety` | `TypeOK`, `SlotsWithinConcurrency` |
| `PolicySchedulerProofs`, second part: `StartInvariance`, `ScriptExclusion`, `RateSafety`, `CancellationIsFinal`, `StartsInOrder` | `ScriptsNeverOverlap`, `StartsWithinRate`, `CancellationStopsStarts`, `StartOrder` |
| `SuspensionProofs`: `ReviewSoundness`, `WaitInvariance`, `SignalAccounting`, `WaitOutcomesStand` | `ReviewConsistent`, `SignalsAccounted` |
| `ApprovalProofs`: `ApprovalInvariance`, `RepeatsExplained`, `NoHopelessWait`, `FirstDecisionStands`, `SettlementsFinal`, `CallConsistency`, `EffectsAuthorised` | `NoUnexplainedRepeat`, `UnreachableApprovalEnds`, `SettlementsStand`, `CallsConsistent`, `EffectsWereAllowed` |
| `OrchestrationProofs`: `InstantsRunOnce`, `CursorAndRunsMoveTogether`, `GroupOutcomesHonest`, `GroupStartsAreSafe`, `ForkSuccessWhole`, `ForkScriptsRunOnce`, `AnsweredReferencesStand`, `AdmissionsAreHonest`, `QueuedRunsAreDriven` | `InstantRunsOnce`, `CursorMovesWithRun`, `GroupOutcomeHonest`, `StartsAreSafe`, `SuccessIsWhole`, `ForkRunsOnce`, `ReferencesStand`, `AdmissionsHonest`, `QueuedRunsDrivenOnce` |
| `EffectsProofs`: `LoopTyped`, `LoopRunsOnce`, `SagaSound`, `RemoteTyped`, `RemoteOnce`, `SettledStand`, `StateHonest` | `LoopStepRunsOnce`, `CorrectionsSound`, `RemoteRunsOnce`, `SettledDispatchesStand`, `StateEffectsHonest` |
| `LifecycleProofs`: `LifecycleInvariant`, `LifecycleTypeCorrect`, `HooksActOnce`, `EndsAreObserved` | `LifecycleTypeOK`, `ActionsRunOnce`, `EndsObserved` |
| `OperationalOutputProofs`: `OutputInvariant`, `ReadersAreTold` | `OutputInv` (which has the types), `ReadersMissNothing` |

**Locks.** `IInv` is `DbInv(Db)` together with "no admitted token exceeds the
high water of its key". `DbInv` has the types; `OwnersConsistent` (an owner is
the one held row of its key, has its newest token and is projected held; a
waiting row is projected waiting); `TokensConsistent` (tokens of a key are
distinct and at most its high water, an acquisition that was not granted has
none); `SequencesBounded`. `HistoryInv` says the same of the backup, so that a
restored store satisfies `DbInv` as well. `UniqueTokens` speaks of every grant
that was ever told, also by a store that a restore replaced: `ToldInv` says that
the present store continues its last backup, and that each grant told is one of
its rows or has a token in `forgotten`. The strengthening is needed because
uniqueness alone does not say that the next token, high water + 1, is unused,
and because a fencing check compares against the owner's token, which must be
the newest of its key to exclude all former owners. `DbInv` speaks about a
database *value*, so that a lemma about a helper composes as the code composes
the calls.

The second part says on two database values what a transaction may do: it
*prepares* (registers, settles, releases or expires) and then *transacts*
(grants). `StepShape` shows that every action is of that shape, or a step of the
clock, or leaves the queues alone. `RecordsAreFinal` needs nothing of the clock.
For `GrantsInOrder` the invariant adds why an order, once broken by a skipped
waiter, stays harmless: whoever was overtaken is past its deadline, which only
lasts if the clock does not go back. For `NoKeyIdles` a free key has no waiter
that is still in time; a restored backup clears owners without granting, and a
clock that steps back revives overdue waiters, so both really break it and are
excluded by hypothesis. `Refinement` maps a key to its
owner and high water; it holds without those hypotheses.

**Scheduler.** `SchedulerInvariance` is `TypeOK`, `AttemptsLeft` (a step that may
still start has an attempt left, without which `TypeOK` is not inductive) and
the slot limit: capacity is counted and the claim inserted in one transaction,
so the count is still true. The second part adds that a driver inside a
script has entered the latest attempt of its run and nobody reopens an entered
attempt or hook; that hooks follow the outcome; and that a cancelled run has
left every status from which it could start. The rate limit rests on one fact:
a window that contains the present is part of what `RecentStarts` counts, and
other windows do not change.

**Suspensions.** `ReviewInv`: a vote carries the roles of its voter in the pinned
version, no rejection stands in a pending or approved review, a pending review
parks its run, and row, request and pins agree. `WaitInv`: types, a driver
that registers or settles is at a wait, and `Accounts` (an open wait is
unresolved, a resolved one has its one receipt, an open one has seen every
receipt that is there, and the limit). `ApprovalInv`
follows a message: what was sent is bounded by the answers that hid a send and,
for an attempt that can be repeated or is under way, by the attempts before it,
and a built-in transport hides nothing, so that such an attempt of it has reached
nobody; credentials never outlive the deadline
of the request; there is nothing before the request. `CallInv`: a child exists
only with its row at the depth of its lineage, the executors of a child are at
most the claim its row stands for and one for each time a starting process put
the row back, the callers of a call under way know an existing child, and the root has
no row.
`PolicyInv` carries the reasons of a decision (`Justified`) from evaluation to
dispatch under the pinned bundle and votes that only grow, and the lease that the
evaluation saw up to the instant it looked ahead to.

**Starting and splitting runs.** `TimedInv`: an occurrence is admitted only under
an identity no run has; that it is admitted together with the cursor is read off
the claim, which ends without a run when the cursor is not the one the host
read. `GroupInv`: what the driver has under way is exactly what
the history says started, what may start had no effect, and a final failure of a
fail-fast group is always about to end it. `ForkInv`: what the driver holds
across its appends is still true when it is used, a settled branch tells what
its script did or was closed by a run that was ending, and the main route has
attempts only behind a succeeded join. `ArtifactInv`: identities are never
reused, a transfer under way has its row, a key is settled once while its run
lives, all answers of a key agree, and pins are on rows that stand. `EventInv`:
a fresh outcome has one holder (a handler, the channel or a task), a host at rest
holds nothing and a prepared one lists exactly the queued runs, a subscriber has
one run per source identity; and the lineage of a run, defined as a least set
closed under "parent", is not changed by later admissions and is that of its
emitter with the emitter itself, which replaces an induction over the chain.

**Effects that must not be repeated.** `LoopInv`: at most the latest attempt of
a step may have had an effect, and none that threw; a step begins only behind
steps that succeeded; and between the two appends of a failed attempt the step
has thrown. `SagaInv`: every effect of a correction but one is answered for by
an order of the operator, and all of them are when it may start without one;
compensations exist only for steps that succeeded; the action the driver is at
is as the driver left it. `RemoteInv`: a journal that knows of a start belongs to
the worker of a row that is taken for good; a queued dispatch is requested;
a request in flight is what its worker waits for, if that worker is still in
the session; and a dispatch that was executed has a journal that says so, whose
worker is not about to execute it. `SettledStand` is an action property that no
run lists (the runs check states of that suite): an ended row never changes, an
ambiguous one is never offered again. `RemoteAssumption` says that NULL is no
dispatch and no worker.
`StateInv`: an operation key that is in the log has a receipt with the version
of its write, and the receipts of a key bound its version, so the next one is
new; a write or a task belongs to a call that its attempt has made, so that a
call which has not begun has neither; a call has one task, which has not
committed; and an answer that is not recorded yet is already true of the store.
That last part is what `HonestOutcomes` lacks by itself: a refusal is recorded
in a later transaction than the one it speaks of, and in between no task of the
same call may be left to write.

**Hooks.** `LifecycleInv` reads the hooks as the append-only record they are: a
hook is requested once (`RequestedOnce`), its actions are recorded in source
order and only the last may be without an outcome (`HookSound`), and a hook that
is done has requested the one that completes it (`FollowedUp`). Requests and
facts agree in both directions: `RequestsSound` (a hook is requested only for
what happened to the step or the run) and `RequestsComplete` (what happened has
its request, the first of its candidates that is declared). `ActionsCounted` is
the strengthening of `ActionsRunOnce`: an action which no record reaches has not
been executed or sent, and the posts of a custom provider are fewer than the
attempt it is in, so that the append of its start, which comes first, is
what forbids a second execution; `ActionUnderWay` says the same of the delivery
the driver is in, through its retries. `EndsObserved` also needs that a run that
ended has no hook open (`DriverShape`). `RequestsComplete` has the exception that
section 5 names: a run cancelled in a durable wait with only `<on-complete>`.

**Output.** `OutputInv` is in four parts. `StoreSound`: a sequence names one
record, and a record ever appended is retained or lies behind what pruning
reports for its run. `ProgressSound`: a closing record with a value comes behind
a progress record of that value, and between flush and close the store has the
script's newest report. `ReaderSound`: what was shown is in order, in scope and at
most at the cursor, and all up to the cursor was shown, told as a gap, announced
by a gap event on the open stream (`ahead`) or announced and cut off (`passed`).
`QueueSound` and `HubSound` say the same of the future: once the reader has
received the first k events of the hub's queue it will know of everything up to
the cursor of the k-th, and while the stream is open everything up to the hub's
cursor is on its way. Without them nothing follows about the reader's next
event; and they last because no cursor passes the store's next sequence
(`CursorsBehind`), so an append is never behind a reader. That a page is an
initial part of what lies ahead (`PagedFacts`) is a counting argument: the page is
defined by ranks, and the ranks of a finite set of n distinct sequences are
exactly 1 to n. A stream that a full queue ends keeps only what is in the
queue; `StreamGrows` shows that any initial part of a page's events is sound.

Only model-checked, and why:

- `AcquisitionSettles` and `QueuedRunsStart` are liveness under fairness, which
  this prover does not reach.
- `AcceptedSourcesLoad`, `RunsEndAsWritten` and `PromisedOutputsPublished`:
  `WorkflowCompiler`, `ModelValidation` and `GraphRun` recurse over sources, with
  RECURSIVE operators, and their claims would need induction over data.
- `OutputRowsOK` (a part of `EffectsTypeOK`, section 3), the byte sums of the
  output store: `MapThenSumSet` folds over a set, and what a fold computes needs
  induction. The theorems about the reader do not depend on what the budgets
  count.

## 5. Abstractions, limits and disagreements

### What the models leave out

- A script is a step that succeeds, fails or is stopped; its effects outside the
  store are the history variables that observe an execution or a send. The
  projection cache and the prepared-runtime shortcut are assumed to agree with
  the stored history. One run that holds several suspended things at once when
  it is cancelled is not composed: each module cancels its own node kind.
- `RunFold` keeps status, outcome, start, cancellation and timeout of a
  projection.
- `LockLeases`: a run is in at most one lock scope at a time; locks of fork
  branches and loop iterations (`locks/scope.rs`) are left out. The lease id is
  represented by the fencing token, which is drawn with it. The total timeout
  fires at a nondeterministic moment. A restore replaces rows and histories;
  what happened outside the store after the backup stays in the observers.
  `lock_recovery_batch_v1` has no caller and
  is left out, and so is the deletion of settled rows.
- `PolicyScheduler`: the business work of a run is an optional wait, one step
  with retries and one hook. A retry comes due at a nondeterministic moment.
  Runs admitted at the same instant are ordered by their identity, as in the
  code, where the occurrence sequence is 0 for every run. Total timeouts, forks
  and calls inside a policy run are not modelled.
- `ForkJoin`, `ParallelGroup`, `ForEachLoops`, `SagaCorrection`: one construct of
  a run with scripts as its parts; control flow inside a branch is in `GraphRun`,
  where scripts succeed and locks are free.
- `Lifecycle`: one step, one delivery per notification action, one action per
  reusable hook; a wait is resumed once its driver is away.
- `TimedTriggers`: cron expressions and time zones are a fixed period.
  A full queue and a changed definition of an occurrence refuse a claim alike and
  are one answer. `EventAdmission`: authentication, parsing and schemas are left
  out, and so is a request whose future is dropped while its transaction commits
  (`webhook/admission.rs:229-234`): its run stays queued until the host restarts.
- `RichApprovals`: a directory version names one content, also across a restart.
  `ModelValidation`: references in items, conditions and results of a loop.
- `Artifacts`: failed, cancelled and interrupted settlements of a transfer are
  one; a look at a digest and the answer to it are one step where nothing comes
  between them that a property could tell (`InspectBlob`, `ScrubBlob`); SQLite's
  busy timeout and the batch limits (250, 64, 1000) are left out;
  one host process, one maintenance at a time; the local backend only.
- `OperationalOutput`: one lane per run, wake-ups of the hub coalesced, no
  filters and no `--tail`.
- `InfrastructurePolicy`: a rule matches a set of operations; signatures are
  valid or absent.
- Not modelled: the run-scoped cache (planned), retention of runs (planned: it
  touches the rows of every other component), the target registry's files,
  script hosts, HTTP, databases, providers, telemetry, native bindings, command
  line, editor extension.

### Disagreements without a run

While modelling, these were met as well. Those with a property name are defined
in their module and TLC refutes them; the others are read off the source.

Locks and policies. `ExpiryDecides`: a lease of an ended run cannot be expired,
because `lock_lease_lost` is refused by the terminal history, and every
transaction on the key rolls back (`docs/protocols/locks-and-leases-v1.md`).
`CancellationStopsAdmission`: the folds of `lock_released`,
`lock_acquire_timed_out` and `lock_lease_lost` set a cancelling run back to
running. `DecidedRunsFinalize`: a lease lost while its run is finalizing sets it
to running. `ExpiryPassesOn`: a markup waiter behind an owner that vanished times
out unless another transaction touches the key (`docs/woml-locks-and-leases.md`).
`LiveOwnersNotInterrupted`: `recover_policy_run_after_lease_loss` looks for a
live claim and recovers in two transactions; `execute_workflow_durable`
(`runtime.rs:308`) and `resume` (`runtime.rs:425`) run general recovery for
models below version 12 without looking at claims
(`docs/runtime-startup-separation.md:60`). `ExecutingWithinConcurrency`: after a
recovery the driver goes on without a claim. After a restore tokens repeat:
`prepare_restored_store` keeps the high water of the copy (`backup.rs:361-367`),
so a key grants again the tokens it granted after the backup (`queue.rs:113`),
although `docs/woml-lock-fencing.md:7-9` promises a token greater than every
earlier one through backup and restore (`TokensNeverRepeat`; `UniqueTokens`
excepts just these tokens).

Suspensions. `DueWaitsSettle`: one due wait that the fold refuses ends the
scheduler's batch, and the next scan begins with it (`runtime.rs:598`). A
registration is refused when an early signal is younger than `registered_at`;
leftover receipts count against the limit for ever; nothing drives a run that is
cancelled while it waits (`bridge.rs:2537`). `AdmittedChildrenEnd`: a child row
is orphaned (`durable/recovery.rs:158-169`).
A custom provider that posts and then exceeds 30 s, or fails, is answered
retryable (`woml-cli/src/custom-notification-provider-host.ts:119-131`) and asked
again (`notifications/delivery.rs:264-266`, `lifecycle/notifications.rs:621-643`),
although `docs/protocols/notification-contracts-v1.md:82-85` ends an ambiguous
send without a retry; `NoUnexplainedRepeat` and `ActionsRunOnce` count these posts
and bound them by the attempts.
`DecidedApprovalStands` (`notifications/delivery.rs:290`): a late failure of a
delivery meets a decided approval; a delivery that succeeds after the decision
gets no message update. A directory version that was evicted or lost at a restart
leaves nobody who can vote; the reuse of a version for another content is refused
only in memory (`rich_approval.rs:258-261`), and the row keeps only the version
(`rich_approvals.rs:258-276`), so after a restart a pinned version may name other
roles; after a run timeout the review row stays pending with
its pins.

Infrastructure policy. A run is pinned at its first drive, not in the admission
transaction (`runtime.rs:304`, `docs/infrastructure-policies-v1.md:212`); a
bundle that is stored unsigned and signed later makes the binding refuse
(`durable/transactions/infrastructure_policy.rs:69-81`); two approved reviews
leave no unambiguous digest (`capability/policy.rs:118-125`); evidence is not
checked again when the effect starts, so that a required lease may have ended and
been granted on by then; lifecycle notifications look only at host
options (`lifecycle/notifications.rs:414`).

Remote work. An attempt longer than the 60 s session can never report its
terminal (`remote_coordinator.rs:465`); a slot is leaked when an offer expires or
a terminal is refused; terminal facts are only in memory; heartbeat, cancel,
recover and drain have no production caller.

Durable state. An operation of a run that is cancelled stays started until a
restart; a retry whose guarded input differs from its receipt, followed by a
crash, makes the recovery of all runs fail.

Sagas. `EndsOnlyCorrected` (`docs/woml-compensation-and-cleanup.md`): the stages
are separate appends, and a crash between a failed attempt and its retry, between
an ambiguous attempt and the manual recovery, between a forward success and its
registration, or before the outcome leaves the saga stuck or the run stalled; a
crash during a forward step ends the run without compensation; an action in
manual recovery makes another action's retry refused; a cancelling run whose
correction stopped for manual recovery is settled as cancelled when the loop
returns (`run_loop.rs:76-79`).

Loops. `LoopEndsFirst`: the recovery of histories before v17 ends a run and
leaves its loop open (`durable/recovery/for_each.rs:60-66`,
`docs/protocols/for-each-v1.md`). An operation that outlives the settlement grace
makes recovery fail; a cancellation that races an admission drops futures while
their scripts run.

Forks and groups. `OutcomeAfterBranches`: recovery commits `run_failed` with a
fork half open (`durable/recovery.rs:1046-1095`), which later validation rejects.
`DriverLeavesEndedRuns` (`docs/language-reference.md:1874-1878`): a cancellation
or a timeout blames the first joined branch even if it had ended, `ready_fork`
only finds pending joins after a restart, and a failed main route with open
branches ends in no outcome (`forks.rs:331-356`). `GroupDriverEndsRun`: the
cancellation of a wait-all group with children that were not started is refused
(`runtime/cancellation.rs:128-172`), and a crash between
`parallel_group_completed` and `run_failed` (`parallel.rs:614-631`) stalls the run.

Lifecycle. A cancellation between the status read (`script_execution.rs:270`) and
the failure append, or during reusable on-error hooks, requests on-complete twice
and the run finalizes for ever; a run cancelled in a durable wait with only
`<on-complete>` never requests it (`cancellation.rs`); a run timeout fails a step
without its hook (`timeouts.rs`); a crash during a notification of an on-start
hook leaves its operation started (`guards.rs:50`); the success notification of a
step before a wait is refused (`guards.rs:137`).

Triggers. A timer admits before it moves its cursor and its payload contains
`triggeredAt`, so a second process meets an idempotency conflict and its timer
loop ends (`intervals.rs:353-375`); a full queue or any store error ends the
loop; a host that lost its route lease keeps its timers; the list of recovered
runs is taken before the routes are registered (`preparation.rs:250`); a
lineage follows events only (`admission.rs:482-531`), so that a cycle through a
workflow call is not refused; an emission that is cancelled between
subscribers answers cancelled although earlier ones were admitted.

Artifacts. `CopiesLastTheAttempt`: every maintenance, a dry run too, empties
materializations and staging under running scripts (`store.rs:203-205`,
`docs/protocols/durable-artifacts-v1.md:180-183`). Two streamed processes of one
attempt share a key (`output.rs:115`); a put that timed out keeps its permit and
may commit after its run ended.

Operational output. A streamed process fails when a budget is reached, although
`docs/woml-process.md:213-216` says output is dropped; a gap event carries the
cursor of the page before the page's records (`operational-output.ts:731-738`),
the follower moves to it and reports only what was pruned
(`log-follower.ts:733-748`), so that a connection cut behind the event loses the
records of that page untold
(`docs/protocols/streaming-output-and-progress-v1.md:88-91`; these are the records
in `passed`);
the close of one node ends the following of a run (`log-follower.ts:600-608`); a
flush stops after four pages until the next wake-up; a crash before
`settle_operational_run` (`runtime.rs:945`) leaves output active for ever.

Graphs. `RunsEndAsWritten` excepts three shapes: `SilentEnd` (a fork followed by
a trailing control-only choice stalls, `docs/language-reference.md:1871-1872`),
`BusyBranch` (a wait, a loop or a saga inside a fork branch, an approval in a
fork with unjoined branches, or a group in a branch that another item precedes:
when it becomes ready while the script of a sibling is active, its children are
launched as single scripts, nothing completes the group and the run stalls
(`forks.rs:641`), although `docs/language-reference.md:1833-1836` and
`1871-1878` allow groups in branches) and `WaitingGroup` (a parallel group with
waits). The compiler accepts forks in two arms of one result choice, and locks,
sagas, waits and result choices in a loop body, which the engine refuses to load
or run; `findFirstWait` does not look into `<parallel>`
(`docs/protocols/durable-waits-v1.md:168`).

## 6. Plan

Done: the modules of section 2, the runs of section 3 and the proofs of section
4.

Next, in this order:

1. `Retention` over the rows of the modules above, and the run-scoped cache.
2. Compositions: a run that is cancelled while it holds a lock inside a fork
   branch, and a policy run that waits, calls and takes locks.
3. A form of `WorkflowCompiler` and `ModelValidation` without RECURSIVE operators,
   so that facts about single flow elements could be proved.
