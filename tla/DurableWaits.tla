----------------------------- MODULE DurableWaits -----------------------------
(***************************************************************************)
(* Durable waits and external signals: the registration of a wait, the     *)
(* admission of signals that arrive before, while or after it is           *)
(* registered, timers, signal timeouts and the scheduler that scans for    *)
(* due waits (durable/transactions/waits.rs, durable/transactions/         *)
(* signals.rs, runtime/control_flow/waits.rs and webhook/waits.rs of       *)
(* core/woml-engine/src).                                                  *)
(*                                                                         *)
(* Every run executes the waits of WaitOrder one after the other.  Each    *)
(* action is one store transaction, or one clock read that a later         *)
(* transaction relies on: the driver reads registered_at, and a scheduler  *)
(* reads its batch and its instant, before the transaction that uses them. *)
(***************************************************************************)
EXTENDS Integers, FiniteSets, Sequences, RunFold

CONSTANTS
  WaitRuns,         \* run identities
  WaitOrder,        \* the wait identities of a run, in program order
  WaitKind,         \* "timer" (duration and until) or "signal"
  WaitLength,       \* ticks from registered_at to the deadline; NoDeadline
  OnTimeout,        \* "continue" or "fail", for a signal wait
  SignalKeys,       \* idempotency keys of signal requests
  SignalRequests,   \* request contents: run, wait and payload
  SignalRank,       \* the order of the signal identities (digests of the keys)
  EarlyLimit,       \* EXTERNAL_SIGNAL_MAX_EARLY_PER_RUN
  SignalDelay,      \* how long a received request may take to be admitted
  V16Runs,          \* runs whose history has event schema version 16
  WaitHookedRuns,   \* runs with a lifecycle hook after the outcome
  CancellableWaits, \* runs an operator may cancel
  TimedRuns,        \* runs with a total timeout
  RunDeadline,      \* when that timeout is due
  WaitSchedulers,   \* processes that run the durable wait scheduler
  WaitRank,         \* the order of the run and wait identities in a scan
  MaxWaitTime,      \* bound on the clock
  MaxWaitRestarts   \* bound on the restarts of the process

NoDeadline == -1

WaitIds == {WaitOrder[i] : i \in DOMAIN WaitOrder}

ASSUME WaitAssumption ==
  /\ IsFiniteSet(WaitRuns) /\ IsFiniteSet(SignalKeys)
  /\ WaitOrder \in Seq(WaitIds)
  /\ WaitKind \in [WaitIds -> {"timer", "signal"}]
  /\ WaitLength \in [WaitIds -> Nat \cup {NoDeadline}]
  /\ \A w \in WaitIds : WaitKind[w] = "timer" => WaitLength[w] # NoDeadline
  /\ OnTimeout \in [WaitIds -> {"continue", "fail"}]
  /\ \A q \in SignalRequests : q.run \in WaitRuns /\ q.wait \in WaitIds
  /\ SignalRank \in [SignalKeys -> Nat]
  /\ EarlyLimit \in Nat /\ SignalDelay \in Nat
  /\ WaitRank \in [WaitRuns \X WaitIds -> Nat]
  /\ \A d, e \in WaitRuns \X WaitIds : WaitRank[d] = WaitRank[e] => d = e
  /\ "timer" \notin SignalKeys /\ "none" \notin SignalKeys
  /\ RunDeadline \in Nat /\ MaxWaitTime \in Nat /\ MaxWaitRestarts \in Nat

VARIABLES
  waitRuns,      \* the projection of every run, and its next wait
  waitRows,      \* woml_durable_waits: state, deadline and the winning key
  waitSignals,   \* woml_external_signals and woml_signal_idempotency, per key
  waitDrivers,   \* the registered_at a run's driver has read, or what it does
  waitScans,     \* the batch a scheduler works on, and its instant
  waitClock,     \* the wall clock
  waitRestarts   \* how often the process has restarted

waitVars == <<waitRuns, waitRows, waitSignals, waitDrivers, waitScans,
              waitClock, waitRestarts>>

-----------------------------------------------------------------------------
(* State. *)

WaitStates == {"absent", "registered", "satisfied", "timed_out", "cancelled"}

NoKey == "none"

(* by: the key of the signal that satisfied the wait, or "timer". *)
AbsentWait == [state |-> "absent", deadline |-> NoDeadline, by |-> NoKey]

NoSignal == [present |-> FALSE]

(* A signal that was consumed carries consumed = TRUE. *)
SignalRow(q, received) ==
  [present |-> TRUE, request |-> q, received |-> received, consumed |-> FALSE]

IdleDriver == [pc |-> "idle", at |-> 0]

IdleScan == [batch |-> <<>>, at |-> 0]

WaitsTypeOK ==
  /\ \A r \in WaitRuns :
       /\ waitRuns[r].projection \in RunProjections
       /\ waitRuns[r].hook \in {"none", "requested", "completed"}
       /\ waitRuns[r].next \in 1..(Len(WaitOrder) + 1)
  /\ waitRows \in [WaitRuns -> [WaitIds ->
       [state : WaitStates, deadline : Nat \cup {NoDeadline},
        by : SignalKeys \cup {"timer", NoKey}]]]
  /\ \A k \in SignalKeys : waitSignals[k].present =>
       /\ waitSignals[k].request \in SignalRequests
       /\ waitSignals[k].received \in Nat
  /\ waitDrivers \in [WaitRuns ->
       [pc : {"idle", "registering", "settling"}, at : Nat]]
  /\ \A s \in WaitSchedulers :
       waitScans[s].batch \in Seq(WaitRuns \X WaitIds)
  /\ waitClock \in 0..MaxWaitTime
  /\ waitRestarts \in 0..MaxWaitRestarts

WaitsInit ==
  /\ waitRuns = [r \in WaitRuns |->
       [projection |->
          RunExecutionStarted(RunAdmitted(EmptyProjection)),
        hook |-> "none", next |-> 1]]
  /\ waitRows = [r \in WaitRuns |-> [w \in WaitIds |-> AbsentWait]]
  /\ waitSignals = [k \in SignalKeys |-> NoSignal]
  /\ waitDrivers = [r \in WaitRuns |-> IdleDriver]
  /\ waitScans = [s \in WaitSchedulers |-> IdleScan]
  /\ waitClock = 0
  /\ waitRestarts = 0

WaitStatus(r) == waitRuns[r].projection.status

(* The wait node the run loop has reached. *)
CurrentWait(r) == WaitOrder[waitRuns[r].next]

AtWait(r) == waitRuns[r].next <= Len(WaitOrder)

(* lifecycle_hook_requested, in the transaction that decides the outcome. *)
WithHook(r, run) ==
  IF r \in WaitHookedRuns THEN [run EXCEPT !.hook = "requested"] ELSE run

DecideWaitRun(r, run, outcome) ==
  WithHook(r, [run EXCEPT !.projection = RunOutcomeDecided(@, outcome)])

SetWaitStatus(run, status) == [run EXCEPT !.projection.status = status]

-----------------------------------------------------------------------------
(* The fold of the wait events (fold_waits.rs).                            *)

CanWaitRegistered(r, w) ==
  WaitStatus(r) = "Running" /\ waitRows[r][w].state = "absent"

CanWaitResolved(r, w) ==
  WaitStatus(r) = "Waiting" /\ waitRows[r][w].state = "registered"

-----------------------------------------------------------------------------
(* Registration. *)

(* Unconsumed receipts of a run, whatever wait they are for. *)
PendingSignals(r) ==
  {k \in SignalKeys : /\ waitSignals[k].present
                      /\ ~waitSignals[k].consumed
                      /\ waitSignals[k].request.run = r}

EarlyFor(r, w) ==
  {k \in PendingSignals(r) : waitSignals[k].request.wait = w}

(* ORDER BY received_at, signal_id *)
EarlierSignal(k, l) ==
  \/ waitSignals[k].received < waitSignals[l].received
  \/ /\ waitSignals[k].received = waitSignals[l].received
     /\ SignalRank[k] <= SignalRank[l]

(* Fault: the registration looks for no early signal. *)
NoEarlySignal(r, w) == {}

(* The early signal that a registration consumes, if there is one. *)
EarliestSignal(r, w) ==
  {k \in EarlyFor(r, w) : \A l \in EarlyFor(r, w) : EarlierSignal(k, l)}

(* The driver reads registered_at, from which the deadline is computed. *)
ReadRegistrationClock(r) ==
  /\ waitDrivers[r].pc = "idle"
  /\ AtWait(r)
  /\ CanWaitRegistered(r, CurrentWait(r))
  /\ waitDrivers' = [waitDrivers EXCEPT ![r] =
       [pc |-> "registering", at |-> waitClock]]
  /\ UNCHANGED <<waitRuns, waitRows, waitSignals, waitScans, waitClock,
                 waitRestarts>>

WaitDeadline(w, registered) ==
  IF WaitLength[w] = NoDeadline THEN NoDeadline ELSE registered + WaitLength[w]

(* Fault: the early signal that resolves the wait is not marked consumed. *)
ConsumeNothing(k) == waitSignals

ConsumeSignal(k) == [waitSignals EXCEPT ![k].consumed = TRUE]

(* wait_registered and, when an early signal is there, its resolution with *)
(* resolved_at = registered_at in the same transaction.  A timer that is   *)
(* due at its registration is settled at once by the driver.               *)
RegisterDurableWait(r) ==
  LET w == CurrentWait(r)
      at == waitDrivers[r].at
      row == [AbsentWait EXCEPT !.state = "registered",
                                !.deadline = WaitDeadline(w, at)]
      early == IF WaitKind[w] = "signal" THEN EarliestSignal(r, w) ELSE {}
  IN /\ waitDrivers[r].pc = "registering"
     /\ CanWaitRegistered(r, w)
     /\ \/ /\ early = {}
           /\ waitRows' = [waitRows EXCEPT ![r][w] = row]
           /\ waitRuns' = [waitRuns EXCEPT ![r] = SetWaitStatus(@, "Waiting")]
           /\ waitDrivers' = [waitDrivers EXCEPT ![r] =
                IF WaitKind[w] = "timer" /\ row.deadline <= at
                THEN [@ EXCEPT !.pc = "settling"] ELSE IdleDriver]
           /\ UNCHANGED waitSignals
        \/ \E k \in early :
             /\ waitSignals[k].received <= at
             /\ waitRows' = [waitRows EXCEPT ![r][w] =
                  [row EXCEPT !.state = "satisfied", !.by = k]]
             /\ waitSignals' = ConsumeSignal(k)
             /\ waitDrivers' = [waitDrivers EXCEPT ![r] = IdleDriver]
             /\ UNCHANGED waitRuns
     /\ UNCHANGED <<waitScans, waitClock, waitRestarts>>

(* The registration is refused: the run was cancelled, timed out or        *)
(* decided meanwhile, or the early signal was received after registered_at *)
(* was read.  The execution ends with an error and the run is driven again *)
(* later, with a later clock.                                              *)
RegistrationRefused(r) ==
  LET w == CurrentWait(r) IN
  /\ waitDrivers[r].pc = "registering"
  /\ \/ ~CanWaitRegistered(r, w)
     \/ /\ WaitKind[w] = "signal"
        /\ \E k \in EarliestSignal(r, w) :
             waitSignals[k].received > waitDrivers[r].at
  /\ waitDrivers' = [waitDrivers EXCEPT ![r] = IdleDriver]
  /\ UNCHANGED <<waitRuns, waitRows, waitSignals, waitScans, waitClock,
                 waitRestarts>>

-----------------------------------------------------------------------------
(* Signals. *)

(* The idempotency row: a known key is a duplicate or an identity conflict. *)
FreshKey(k) == ~waitSignals[k].present

TargetOpen(q) ==
  /\ WaitStatus(q.run) \notin TerminalStatuses \cup {"Finalizing"}
  /\ waitRuns[q.run].projection.outcome = NoOutcome
  /\ WaitKind[q.wait] = "signal"
  /\ waitRows[q.run][q.wait].state \in {"absent", "registered"}

(* Fault: the limit admits one receipt too many. *)
EarlyCapacityOffByOne(r) == Cardinality(PendingSignals(r)) <= EarlyLimit

EarlyCapacity(r) == Cardinality(PendingSignals(r)) < EarlyLimit

(* No row yet: the receipt is held for the wait. *)
HoldEarlySignal(k, q, received) ==
  /\ waitRows[q.run][q.wait].state = "absent"
  /\ EarlyCapacity(q.run)
  /\ waitSignals' = [waitSignals EXCEPT ![k] = SignalRow(q, received)]
  /\ UNCHANGED <<waitRuns, waitRows>>

(* The signal resolves the registered wait, also after its deadline.  The  *)
(* fold requires a waiting run, so the transaction of a cancelling run     *)
(* rolls back and records nothing.                                         *)
ResolveBySignal(k, q, received) ==
  /\ CanWaitResolved(q.run, q.wait)
  /\ waitSignals' = [waitSignals EXCEPT ![k] =
       [SignalRow(q, received) EXCEPT !.consumed = TRUE]]
  /\ waitRows' = [waitRows EXCEPT ![q.run][q.wait] =
       [@ EXCEPT !.state = "satisfied", !.by = k]]
  /\ waitRuns' = [waitRuns EXCEPT ![q.run] = SetWaitStatus(@, "Running")]

(* A rejected, duplicate or conflicting request changes nothing. *)
AdmitExternalSignal(k, q) ==
  /\ FreshKey(k)
  /\ TargetOpen(q)
  /\ \E delay \in 0..SignalDelay :
       /\ delay <= waitClock
       /\ \/ HoldEarlySignal(k, q, waitClock - delay)
          \/ ResolveBySignal(k, q, waitClock - delay)
  /\ UNCHANGED <<waitDrivers, waitScans, waitClock,
                 waitRestarts>>

-----------------------------------------------------------------------------
(* Timers and timeouts. *)

(* A settlement with the caller's instant: nothing happens before the      *)
(* deadline or when the wait is settled already.                           *)
SettlementDue(r, w, at) ==
  /\ waitRows[r][w].state = "registered"
  /\ waitRows[r][w].deadline # NoDeadline
  /\ at >= waitRows[r][w].deadline

SettleTimerWait(r, w, at) ==
  /\ CanWaitResolved(r, w)
  /\ waitRows' = [waitRows EXCEPT ![r][w] =
       [@ EXCEPT !.state = "satisfied", !.by = "timer"]]
  /\ waitRuns' = [waitRuns EXCEPT ![r] = SetWaitStatus(@, "Running")]

SettleSignalWaitTimeout(r, w, at) ==
  /\ CanWaitResolved(r, w)
  /\ waitRows' = [waitRows EXCEPT ![r][w].state = "timed_out"]
  /\ waitRuns' = [waitRuns EXCEPT ![r] =
       IF OnTimeout[w] = "continue" THEN SetWaitStatus(@, "Running")
       ELSE DecideWaitRun(r, SetWaitStatus(@, "Running"), "Failed")]

SettleDueWait(r, w, at) ==
  \/ WaitKind[w] = "timer" /\ SettleTimerWait(r, w, at)
  \/ WaitKind[w] = "signal" /\ SettleSignalWaitTimeout(r, w, at)

(* The driver settles the timer it has just registered; when another       *)
(* process won, it finds the wait resolved.                                *)
SettleAtRegistration(r) ==
  LET w == CurrentWait(r) IN
  /\ waitDrivers[r].pc = "settling"
  /\ \/ SettlementDue(r, w, waitDrivers[r].at)
        /\ SettleTimerWait(r, w, waitDrivers[r].at)
     \/ /\ ~SettlementDue(r, w, waitDrivers[r].at) \/ ~CanWaitResolved(r, w)
        /\ UNCHANGED <<waitRuns, waitRows>>
  /\ waitDrivers' = [waitDrivers EXCEPT ![r] = IdleDriver]
  /\ UNCHANGED <<waitSignals, waitScans, waitClock,
                 waitRestarts>>

(* Due rows of one kind, whatever the status of their run. *)
DueWaits(kind) ==
  {d \in WaitRuns \X WaitIds :
     WaitKind[d[2]] = kind /\ SettlementDue(d[1], d[2], waitClock)}

DueBefore(d, e) ==
  LET dd == waitRows[d[1]][d[2]].deadline
      ee == waitRows[e[1]][e[2]].deadline
  IN dd < ee \/ (dd = ee /\ WaitRank[d] < WaitRank[e])

(* ORDER BY deadline, run_id, wait_id: the order leaves one sequence. *)
DueBatch(kind) ==
  LET due == DueWaits(kind) IN
  {batch \in [1..Cardinality(due) -> due] :
     \A i, j \in DOMAIN batch : i < j => DueBefore(batch[i], batch[j])}

ScanDueWaits(s, kind) ==
  /\ waitScans[s].batch = <<>>
  /\ DueWaits(kind) # {}
  /\ \E batch \in DueBatch(kind) :
       waitScans' = [waitScans EXCEPT ![s] = [batch |-> batch, at |-> waitClock]]
  /\ UNCHANGED <<waitRuns, waitRows, waitSignals, waitDrivers, waitClock,
                 waitRestarts>>

(* Fault: a due record is settled without a look at its current state. *)
SettleNextUnchecked(s) ==
  LET d == Head(waitScans[s].batch) IN
  /\ waitScans[s].batch # <<>>
  /\ WaitStatus(d[1]) = "Waiting"
  /\ waitRows' = [waitRows EXCEPT ![d[1]][d[2]].state = "timed_out"]
  /\ waitRuns' = [waitRuns EXCEPT ![d[1]] = SetWaitStatus(@, "Running")]
  /\ waitScans' = [waitScans EXCEPT ![s].batch = Tail(@)]
  /\ UNCHANGED <<waitSignals, waitDrivers, waitClock,
                 waitRestarts>>

(* The first record of the batch: settled, skipped because it is resolved, *)
(* or refused by the fold, and the error ends the whole batch.             *)
SettleNext(s) ==
  LET d == Head(waitScans[s].batch)
      at == waitScans[s].at
  IN /\ waitScans[s].batch # <<>>
     /\ \/ /\ SettlementDue(d[1], d[2], at)
           /\ SettleDueWait(d[1], d[2], at)
           /\ waitScans' = [waitScans EXCEPT ![s].batch = Tail(@)]
        \/ /\ ~SettlementDue(d[1], d[2], at)
           /\ waitScans' = [waitScans EXCEPT ![s].batch = Tail(@)]
           /\ UNCHANGED <<waitRuns, waitRows>>
        \/ /\ SettlementDue(d[1], d[2], at)
           /\ ~CanWaitResolved(d[1], d[2])
           /\ waitScans' = [waitScans EXCEPT ![s] = IdleScan]
           /\ UNCHANGED <<waitRuns, waitRows>>
     /\ UNCHANGED <<waitSignals, waitDrivers, waitClock,
                 waitRestarts>>

-----------------------------------------------------------------------------
(* The run loop and run control. *)

(* The run loop finds the result of its wait in the context and goes on;   *)
(* after the last wait the run succeeds.                                   *)
ContinueWaitRun(r) ==
  /\ waitDrivers[r].pc = "idle"
  /\ WaitStatus(r) = "Running"
  /\ AtWait(r) => waitRows[r][CurrentWait(r)].state
                    \in {"satisfied", "timed_out"}
  /\ waitRuns' = [waitRuns EXCEPT ![r] =
       IF AtWait(r) THEN [waitRuns[r] EXCEPT !.next = @ + 1]
       ELSE DecideWaitRun(r, @, "Succeeded")]
  /\ UNCHANGED <<waitRows, waitSignals, waitDrivers, waitScans, waitClock,
                 waitRestarts>>

(* request_run_cancellation closes the registered waits of a waiting run   *)
(* whose history has event schema version 16, and decides its outcome.     *)
ClosedWaits(r) ==
  [waitRows EXCEPT ![r] = [w \in WaitIds |->
     IF @[w].state = "registered" THEN [@[w] EXCEPT !.state = "cancelled"]
     ELSE @[w]]]

RequestWaitCancellation(r) ==
  LET closes == r \in V16Runs /\ WaitStatus(r) = "Waiting"
      cancelling == [waitRuns[r] EXCEPT
                       !.projection = RunCancellationRequested(@)]
  IN /\ r \in CancellableWaits
     /\ waitRuns[r].projection.outcome = NoOutcome
     /\ CanRunCancellationRequested(waitRuns[r].projection)
     /\ waitRows' = IF closes THEN ClosedWaits(r) ELSE waitRows
     /\ waitRuns' = [waitRuns EXCEPT ![r] =
          IF closes THEN DecideWaitRun(r, cancelling, "Cancelled")
          ELSE WithHook(r, cancelling)]
     /\ UNCHANGED <<waitSignals, waitDrivers, waitScans, waitClock,
                 waitRestarts>>

(* settle_cancelling_run, when the run is next driven: it closes attempts, *)
(* operations, forks, loops and locks, but no durable wait.                *)
SettleCancellingWaitRun(r) ==
  /\ waitDrivers[r].pc = "idle"
  /\ WaitStatus(r) = "Cancelling"
  /\ waitRuns' = [waitRuns EXCEPT ![r] =
       [waitRuns[r] EXCEPT !.projection = RunOutcomeDecided(@, "Cancelled")]]
  /\ UNCHANGED <<waitRows, waitSignals, waitDrivers, waitScans, waitClock,
                 waitRestarts>>

(* settle_run_timeout of a running or waiting run: no wait is closed.      *)
SettleWaitRunTimeout(r) ==
  /\ r \in TimedRuns
  /\ waitClock >= RunDeadline
  /\ waitRuns[r].projection.outcome = NoOutcome
  /\ ~waitRuns[r].projection.cancelRequested
  /\ CanRunTimeoutReached(waitRuns[r].projection)
  /\ waitRuns' = [waitRuns EXCEPT ![r] = DecideWaitRun(r,
       [waitRuns[r] EXCEPT !.projection = RunTimeoutReached(@)], "Failed")]
  /\ UNCHANGED <<waitRows, waitSignals, waitDrivers, waitScans, waitClock,
                 waitRestarts>>

(* The lifecycle epilogue of a decided run, and its end. *)
FinalizeWaitRun(r) ==
  /\ WaitStatus(r) = "Finalizing"
  /\ waitRuns' = [waitRuns EXCEPT ![r] =
       IF @.hook = "requested" THEN [@ EXCEPT !.hook = "completed"]
       ELSE [waitRuns[r] EXCEPT !.projection = RunFinalized(@)]]
  /\ UNCHANGED <<waitRows, waitSignals, waitDrivers, waitScans, waitClock,
                 waitRestarts>>

(* The process restarts: what its drivers and its schedulers had read is   *)
(* gone, the store is not.                                                 *)
RestartWaitProcess ==
  /\ waitRestarts < MaxWaitRestarts
  /\ waitRestarts' = waitRestarts + 1
  /\ waitDrivers' = [r \in WaitRuns |-> IdleDriver]
  /\ waitScans' = [s \in WaitSchedulers |-> IdleScan]
  /\ UNCHANGED <<waitRuns, waitRows, waitSignals, waitClock>>

WaitTick ==
  /\ waitClock < MaxWaitTime
  /\ waitClock' = waitClock + 1
  /\ UNCHANGED <<waitRuns, waitRows, waitSignals, waitDrivers, waitScans,
                 waitRestarts>>

WaitsNext ==
  \/ \E r \in WaitRuns :
       \/ ReadRegistrationClock(r) \/ RegisterDurableWait(r)
       \/ RegistrationRefused(r) \/ SettleAtRegistration(r)
       \/ ContinueWaitRun(r) \/ RequestWaitCancellation(r)
       \/ SettleCancellingWaitRun(r) \/ SettleWaitRunTimeout(r)
       \/ FinalizeWaitRun(r)
  \/ \E k \in SignalKeys, q \in SignalRequests : AdmitExternalSignal(k, q)
  \/ \E s \in WaitSchedulers :
       \/ SettleNext(s)
       \/ \E kind \in {"timer", "signal"} : ScanDueWaits(s, kind)
  \/ RestartWaitProcess
  \/ WaitTick

(* The scheduler scans every 250 ms and works its batch off, the clock     *)
(* advances, and a running run is driven; nothing is assumed of signals,   *)
(* operators or restarts.                                                  *)
WaitsFairness ==
  /\ WF_waitVars(WaitTick)
  /\ \A s \in WaitSchedulers :
       /\ WF_waitVars(SettleNext(s))
       /\ \A kind \in {"timer", "signal"} : WF_waitVars(ScanDueWaits(s, kind))
  /\ \A r \in WaitRuns :
       /\ WF_waitVars(ReadRegistrationClock(r))
       /\ WF_waitVars(RegisterDurableWait(r))
       /\ WF_waitVars(RegistrationRefused(r))
       /\ WF_waitVars(SettleAtRegistration(r))
       /\ WF_waitVars(ContinueWaitRun(r))

WaitsSpec == WaitsInit /\ [][WaitsNext]_waitVars /\ WaitsFairness

-----------------------------------------------------------------------------
(* Properties. *)

(* A receipt is applied exactly once: the consumed receipts of a wait are  *)
(* exactly the one that satisfied it, so a duplicate, an early receipt     *)
(* that raced the registration, or a signal that lost to a timeout never   *)
(* resolves anything (append_signal_resolution and its two callers).       *)
SignalAppliedOnce ==
  \A r \in WaitRuns, w \in WaitIds :
    {k \in SignalKeys : /\ waitSignals[k].present
                        /\ waitSignals[k].consumed
                        /\ waitSignals[k].request.run = r
                        /\ waitSignals[k].request.wait = w}
      = {waitRows[r][w].by} \cap SignalKeys

(* No run goes on waiting for a signal that the store has accepted: once a *)
(* wait is registered, no receipt for it is left unconsumed, whichever of  *)
(* admission and registration came first (register_durable_wait_atomically *)
(* against admit_external_signal_atomically).                              *)
NoSignalIgnored ==
  \A r \in WaitRuns, w \in WaitIds :
    waitRows[r][w].state = "registered" => EarlyFor(r, w) = {}

(* The receipts a run holds never exceed the limit, left-over receipts of  *)
(* resolved waits included.                                                *)
EarlyReceiptsBounded ==
  \A r \in WaitRuns : Cardinality(PendingSignals(r)) <= EarlyLimit

(***************************************************************************)
(* The receipts of signals are accounted for, whatever order admission,    *)
(* registration, settlement, timeouts and restarts come in: one consumed   *)
(* receipt for each wait that a signal resolved, no receipt passed over by *)
(* a registered wait, and never more receipts held than the limit.         *)
(***************************************************************************)
SignalsAccounted == SignalAppliedOnce /\ NoSignalIgnored /\ EarlyReceiptsBounded

(* The outcome of a wait is final: signal, timer, timeout and cancellation *)
(* compete, and the transactions of the losers change neither the row nor  *)
(* the run's position.                                                     *)
WaitOutcomeKept ==
  \A r \in WaitRuns, w \in WaitIds :
    waitRows[r][w].state \notin {"absent", "registered"} =>
      waitRows'[r][w] = waitRows[r][w]

(* A wait that is due is settled, or its run is decided: "Startup          *)
(* discovers overdue waits in (deadline, run_id, wait_id) order with       *)
(* bounded batches".                                                       *)
DueWaitsSettle ==
  \A r \in WaitRuns, w \in WaitIds :
    (WaitStatus(r) = "Waiting" /\ SettlementDue(r, w, waitClock))
      ~> (WaitStatus(r) # "Waiting" \/ waitRows[r][w].state # "registered")

=============================================================================
