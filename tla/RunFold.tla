------------------------------- MODULE RunFold -------------------------------
(***************************************************************************)
(* The part of the run projection (core/woml-engine/src/projection) that   *)
(* decides whether the store may append an event to a run's history.       *)
(* Every append folds the candidate history first and a fold error aborts  *)
(* the whole SQLite transaction, so an event is modelled by two operators  *)
(* on the projection p of one run: CanX(p), the conditions under which the *)
(* fold accepts X, and X(p), the projection it yields.                     *)
(***************************************************************************)

(* RunStatus.  NotStarted is the empty history. *)
RunStatuses == {"NotStarted", "Queued", "Running", "Waiting", "Cancelling",
                "Finalizing", "Succeeded", "Failed", "Cancelled"}

TerminalStatuses == {"Succeeded", "Failed", "Cancelled"}

BusinessOutcomes == {"Succeeded", "Failed", "Cancelled"}

NoOutcome == "Undecided"

(* The fields of RunProjection that run control reads and writes.  The     *)
(* cancellation request identity is abstracted to whether one is durable:  *)
(* a run carries at most one.                                              *)
RunProjections ==
  [status : RunStatuses,
   outcome : BusinessOutcomes \cup {NoOutcome},
   cancelRequested : BOOLEAN,
   started : BOOLEAN,
   timeoutReached : BOOLEAN]

(* The default projection, before run_admitted. *)
EmptyProjection ==
  [status |-> "NotStarted", outcome |-> NoOutcome, cancelRequested |-> FALSE,
   started |-> FALSE, timeoutReached |-> FALSE]

(* "A terminal run event must be the final event." *)
AcceptsEvents(p) == p.status \notin TerminalStatuses

-----------------------------------------------------------------------------
(* Admission, execution start and the business outcome. *)

CanRunAdmitted(p) == p.status = "NotStarted"
RunAdmitted(p) == [p EXCEPT !.status = "Queued"]

CanRunExecutionStarted(p) == p.status = "Queued" /\ ~p.started
RunExecutionStarted(p) == [p EXCEPT !.status = "Running", !.started = TRUE]

CanRunCancellationRequested(p) ==
  p.status \in {"Queued", "Running", "Waiting"} /\ ~p.cancelRequested
RunCancellationRequested(p) ==
  [p EXCEPT !.status = "Cancelling", !.cancelRequested = TRUE]

CanRunTimeoutReached(p) ==
  p.status \in {"Running", "Waiting"} /\ ~p.timeoutReached
RunTimeoutReached(p) == [p EXCEPT !.timeoutReached = TRUE]

CanRunOutcomeDecided(p, o) ==
  /\ p.outcome = NoOutcome
  /\ p.status \in {"Running", "Waiting", "Cancelling"}
  /\ o = "Succeeded" => p.status = "Running"
  /\ o = "Cancelled" => p.cancelRequested
RunOutcomeDecided(p, o) == [p EXCEPT !.outcome = o, !.status = "Finalizing"]

CanRunFinalized(p) == p.status = "Finalizing" /\ p.outcome \in BusinessOutcomes
RunFinalized(p) == [p EXCEPT !.status = p.outcome]

-----------------------------------------------------------------------------
(* The run-status effect of the root-level lock events (fold_locks.rs).    *)
(* The condition on the lock itself is the caller's.                       *)

CanLockWaitRegistered(p) == p.status = "Running"
LockWaitRegistered(p) == [p EXCEPT !.status = "Waiting"]

CanLockAcquired(p) == p.status = "Waiting"
LockAcquired(p) == [p EXCEPT !.status = "Running"]

CanLockReleased(p) == p.status \in {"Running", "Cancelling"}
LockReleased(p) == [p EXCEPT !.status = "Running"]

CanLockAcquireTimedOut(p) == AcceptsEvents(p)
LockAcquireTimedOut(p) == [p EXCEPT !.status = "Running"]

CanLockAcquisitionCancelled(p) == AcceptsEvents(p)
LockAcquisitionCancelled(p) == p

CanLockLeaseLost(p) == AcceptsEvents(p)
LockLeaseLost(p) == [p EXCEPT !.status = "Running"]

=============================================================================
