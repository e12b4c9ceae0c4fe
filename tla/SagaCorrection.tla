---------------------------- MODULE SagaCorrection ----------------------------
(***************************************************************************)
(* One saga of a run: its forward steps register compensations, and its    *)
(* failure, its cancellation or its success starts a correction that runs  *)
(* the compensations and the cleanup steps                                 *)
(* (runtime/correction, projection/fold_correction.rs).  The driver        *)
(* records every stage of a correction with an append of its own, so the   *)
(* process may stop between any two of them; recovery hands unfinished     *)
(* attempts to an operator, who retries or resolves them while the driver  *)
(* may still be at work on the other actions.                              *)
(* Policy claims (see PolicyScheduler) allow one driver at a time.         *)
(***************************************************************************)
EXTENDS Integers, Sequences, FiniteSets, FiniteSetsExt, SequencesExt

CONSTANTS
  SagaLength,          \* forward steps, each with a compensation
  CleanupLength,       \* cleanup steps
  CorrectionAttempts,  \* attempts of the retry policy of every action
  OperatorAttempts,    \* attempts after which no operator retry is accepted
  MaxSagaCrashes       \* bound on crashes of the process

ASSUME SagaAssumption ==
  /\ SagaLength \in Nat \ {0} /\ CleanupLength \in Nat /\ MaxSagaCrashes \in Nat
  /\ CorrectionAttempts \in Nat \ {0} /\ OperatorAttempts \in Nat \ {0}

VARIABLES
  sgRun,       \* status of the run
  sgSteps,     \* forward steps
  sgSaga,      \* the projected saga: phase, reason and forward success
  sgActions,   \* its corrective actions
  sgManual,    \* woml_correction_manual_recovery
  sgDriver,    \* the driver inside execute_saga_correction
  sgEffects,   \* attempts whose effect may have happened (history variable)
  sgOrders,    \* retries that an operator decided (history variable)
  sgCrashes

sgVars == <<sgRun, sgSteps, sgSaga, sgActions, sgManual, sgDriver, sgEffects,
            sgOrders, sgCrashes>>

Compensations == {"compensation"} \X (1..SagaLength)
Cleanups == {"cleanup"} \X (1..CleanupLength)
SagaActions == Compensations \cup Cleanups

ActionStatuses == {"absent", "registered", "started", "retry", "succeeded",
                   "failed", "interrupted", "manual"}

NoAction == [status |-> "absent", attempts |-> 0, ambiguous |-> FALSE]
NoDriving == [at |-> "none", goal |-> "none", todo |-> <<>>, max |-> 0,
              manual |-> FALSE, ok |-> TRUE]
Driving == [NoDriving EXCEPT !.at = "loop"]

SagaTypeOK ==
  /\ sgRun \in {"running", "cancelling", "cancelled", "failed", "succeeded"}
  /\ sgSteps \in [1..SagaLength -> {"pending", "started", "succeeded", "failed"}]
  /\ sgSaga \in [phase : {"none", "forward", "forward_succeeded", "correcting",
                          "manual", "completed"},
                 reason : {"none", "success", "failure", "cancel"},
                 succeeded : BOOLEAN]
  /\ sgActions \in [SagaActions -> [status : ActionStatuses, attempts : Nat,
                                    ambiguous : BOOLEAN]]
  /\ sgManual \in [SagaActions -> {"none", "required", "resolved"}]
  /\ sgDriver.at \in {"none", "gone", "loop", "step", "step_failed", "committed",
                      "correcting", "attempt", "retryable", "ambiguous", "returned"}
  /\ sgDriver.goal \in {"none", "fail", "commit", "cancel", "continue"}
  /\ sgDriver.todo \in Seq(SagaActions)
  /\ \A a \in SagaActions : sgEffects[a] \subseteq 1..sgActions[a].attempts
  /\ sgOrders \in [SagaActions -> Nat]
  /\ sgCrashes \in 0..MaxSagaCrashes

SagaInit ==
  /\ sgRun = "running"
  /\ sgSteps = [i \in 1..SagaLength |-> "pending"]
  /\ sgSaga = [phase |-> "none", reason |-> "none", succeeded |-> FALSE]
  /\ sgActions = [a \in SagaActions |-> NoAction]
  /\ sgManual = [a \in SagaActions |-> "none"]
  /\ sgDriver = Driving
  /\ sgEffects = [a \in SagaActions |-> {}]
  /\ sgOrders = [a \in SagaActions |-> 0]
  /\ sgCrashes = 0

-----------------------------------------------------------------------------
(* What the fold and the definition rules of a history admit. *)

Open == sgRun \in {"running", "cancelling"}

\* Fault: a correction is opened whatever the forward work came to.
ReasonForAnyPhase(reason) == sgSaga.phase \in {"forward", "forward_succeeded"}

(* apply_saga_correction_started. *)
ReasonMatchesPhase(reason) ==
  sgSaga.phase = IF reason = "success" THEN "forward_succeeded" ELSE "forward"

Pending(a) == sgActions[a].status \in {"registered", "retry"}

(* Definition rules: compensations in reverse order of completion, which   *)
(* is the order of the steps, and never after a success; cleanup once no   *)
(* compensation is open, in source order.                                  *)
CompensationDue(a) ==
  /\ sgSaga.reason # "success"
  /\ \A b \in Compensations : Pending(b) => b[2] <= a[2]

CleanupDue(a) ==
  /\ \/ sgSaga.reason = "success"
     \/ \A b \in Compensations : ~Pending(b) /\ sgActions[b].status # "started"
  /\ \A b \in Cleanups :
       b[2] < a[2] => sgActions[b].status \in {"succeeded", "failed", "manual"}

(* apply_correction_attempt_started; a cleanup has no row before its first *)
(* attempt.                                                                *)
CanStartCorrection(a) ==
  /\ Open /\ sgSaga.phase \in {"correcting", "manual"}
  /\ \A b \in SagaActions : sgActions[b].status # "started"
  /\ IF a \in Compensations
       THEN Pending(a) /\ CompensationDue(a)
       ELSE (Pending(a) \/ sgActions[a].status = "absent") /\ CleanupDue(a)

(* apply_saga_correction_completed and its definition rule. *)
CanCompleteCorrection ==
  /\ sgSaga.phase \in {"correcting", "manual"}
  /\ \A a \in Compensations :
       /\ sgActions[a].status \notin {"started", "retry"}
       /\ sgActions[a].status = "registered" => sgSaga.reason = "success"
  /\ \A a \in Cleanups : sgActions[a].status \in {"succeeded", "failed"}

-----------------------------------------------------------------------------
(* Forward work (run_loop.rs, registration.rs). *)

\* The run loop returns with an error: a cancelling run is settled all the
\* same (settle_cancelling_run), the claim is released, nobody drives.
DriverFails ==
  /\ sgDriver' = NoDriving
  /\ sgRun' = IF sgRun = "cancelling" THEN "cancelled" ELSE sgRun

ForwardVars == <<sgActions, sgManual, sgEffects, sgOrders, sgCrashes>>

SagaOpens ==
  /\ sgDriver.at = "loop" /\ sgRun = "running" /\ sgSaga.phase = "none"
  /\ sgSaga' = [sgSaga EXCEPT !.phase = "forward"]
  /\ UNCHANGED <<sgRun, sgSteps, sgDriver, ForwardVars>>

ForwardStepStarts(i) ==
  /\ sgDriver.at = "loop" /\ sgRun = "running" /\ sgSaga.phase = "forward"
  /\ sgSteps[i] = "pending" /\ \A j \in 1..(i - 1) : sgSteps[j] = "succeeded"
  /\ sgSteps' = [sgSteps EXCEPT ![i] = "started"]
  /\ sgDriver' = [sgDriver EXCEPT !.at = "step"]
  /\ UNCHANGED <<sgRun, sgSaga, ForwardVars>>

(* Success and registration are one append.  A script that finishes under  *)
(* a cancellation is recorded as cancelled, whatever it did.               *)
ForwardStepEnds(i) ==
  /\ sgDriver.at = "step" /\ sgSteps[i] = "started"
  /\ \/ /\ sgRun = "running"
        /\ sgSteps' = [sgSteps EXCEPT ![i] = "succeeded"]
        /\ sgActions' = [sgActions EXCEPT ![<<"compensation", i>>].status = "registered"]
        /\ sgDriver' = [sgDriver EXCEPT !.at = "loop"]
     \/ /\ sgSteps' = [sgSteps EXCEPT ![i] = "failed"]
        /\ sgDriver' = [sgDriver EXCEPT !.at = IF sgRun = "running" THEN "step_failed" ELSE "loop"]
        /\ UNCHANGED sgActions
  /\ UNCHANGED <<sgRun, sgSaga, sgManual, sgEffects, sgOrders, sgCrashes>>

(* engine.saga-commit stays ready until the correction is completed.       *)
SagaCommits ==
  /\ sgDriver.at = "loop" /\ sgRun = "running"
  /\ sgSaga.phase \in {"forward", "forward_succeeded"}
  /\ \A i \in 1..SagaLength : sgSteps[i] = "succeeded"
  /\ IF sgSaga.phase = "forward"
       THEN /\ sgSaga' = [sgSaga EXCEPT !.phase = "forward_succeeded", !.succeeded = TRUE]
            /\ sgDriver' = [sgDriver EXCEPT !.at = "committed"]
            /\ UNCHANGED sgRun
       ELSE DriverFails /\ UNCHANGED sgSaga
  /\ UNCHANGED <<sgSteps, ForwardVars>>

(* Nothing is ready: a step failed and its correction never began, or the  *)
(* correction is complete and the failure of the run was not recorded.     *)
RunStalls ==
  /\ sgDriver.at = "loop" /\ sgRun = "running"
  /\ \/ sgSaga.phase = "forward" /\ \E i \in 1..SagaLength : sgSteps[i] = "failed"
     \/ sgSaga.phase = "completed" /\ ~sgSaga.succeeded
  /\ DriverFails
  /\ UNCHANGED <<sgSteps, sgSaga, ForwardVars>>

\* The work behind the saga ends well, or the cancellation is settled.
RunEnds ==
  /\ sgDriver.at = "loop"
  /\ \/ sgRun = "running" /\ sgSaga.phase = "completed" /\ sgSaga.succeeded
        /\ sgRun' = "succeeded"
     \/ sgRun = "cancelling" /\ sgSaga.phase \in {"none", "completed"}
        /\ sgRun' = "cancelled"
  /\ sgDriver' = NoDriving
  /\ UNCHANGED <<sgSteps, sgSaga, ForwardVars>>

RequestSagaCancellation ==
  /\ sgRun = "running"
  /\ sgRun' = "cancelling"
  /\ UNCHANGED <<sgSteps, sgSaga, sgDriver, ForwardVars>>

-----------------------------------------------------------------------------
(* execute_saga_correction. *)

\* The calls of the run loop: the reason and what it does afterwards.
CorrectionCall ==
  CASE sgDriver.at = "step_failed" -> [reason |-> "failure", goal |-> "fail"]
    [] sgDriver.at = "committed" -> [reason |-> "success", goal |-> "commit"]
    [] sgDriver.at \notin {"step_failed", "committed"} /\ sgRun = "cancelling" ->
         [reason |-> IF sgSaga.reason = "none" THEN "cancel" ELSE sgSaga.reason,
          goal |-> "cancel"]
    [] OTHER -> [reason |-> sgSaga.reason,
                 goal |-> IF sgSaga.reason = "failure" THEN "fail" ELSE "continue"]

ShouldCorrect ==
  \/ sgDriver.at \in {"step_failed", "committed"}
  \/ sgDriver.at = "loop" /\ sgRun = "cancelling" /\ sgSaga.phase \notin {"none", "completed"}
  \/ sgDriver.at = "loop" /\ sgRun = "running" /\ sgSaga.phase \in {"correcting", "manual"}

(* The registered compensations, last completed first, then the cleanup.   *)
CorrectionPlan(reason) ==
  LET registered == {a \in Compensations : sgActions[a].status # "absent"}
      later(a, b) == a[2] > b[2]
      earlier(a, b) == a[2] < b[2]
  IN (IF reason = "success" THEN <<>> ELSE SetToSortSeq(registered, later))
       \o SetToSortSeq(Cleanups, earlier)

BeginCorrection ==
  LET call == CorrectionCall
      resumed == sgSaga.phase \in {"correcting", "manual"}
  IN
  /\ ShouldCorrect
  /\ IF resumed \/ (Open /\ ReasonMatchesPhase(call.reason))
       THEN /\ sgSaga' = IF resumed THEN sgSaga
                         ELSE [sgSaga EXCEPT !.phase = "correcting", !.reason = call.reason]
            /\ sgDriver' = [NoDriving EXCEPT !.at = "correcting", !.goal = call.goal,
                                             !.todo = CorrectionPlan(call.reason)]
            /\ UNCHANGED sgRun
       ELSE DriverFails /\ UNCHANGED sgSaga
  /\ UNCHANGED <<sgSteps, ForwardVars>>

Settle(ok, manual) ==
  sgDriver' = [sgDriver EXCEPT !.at = "correcting", !.todo = Tail(@),
                               !.ok = @ /\ ok, !.manual = @ \/ manual]

(* max_attempts: a scheduled retry has always one attempt left, up to the  *)
(* limit of the operator.                                                  *)
AttemptsAllowed(a) ==
  IF sgActions[a].status = "retry"
    THEN Max({CorrectionAttempts, Min({sgActions[a].attempts + 1, OperatorAttempts})})
    ELSE CorrectionAttempts

(* execute_corrective_action up to the start of an attempt. *)
ConsiderAction ==
  LET a == Head(sgDriver.todo) s == sgActions[a] IN
  /\ sgDriver.at = "correcting" /\ sgDriver.todo # <<>>
  /\ CASE s.status = "succeeded" \/ sgManual[a] = "resolved" ->
            Settle(TRUE, FALSE) /\ UNCHANGED <<sgRun, sgActions, sgEffects>>
       [] s.status = "manual" /\ sgManual[a] # "resolved" ->
            Settle(FALSE, TRUE) /\ UNCHANGED <<sgRun, sgActions, sgEffects>>
       [] /\ s.status \notin {"succeeded", "manual"} /\ sgManual[a] # "resolved"
          /\ s.attempts + 1 > AttemptsAllowed(a) ->
            Settle(FALSE, FALSE) /\ UNCHANGED <<sgRun, sgActions, sgEffects>>
       [] OTHER ->
            IF CanStartCorrection(a)
              THEN /\ sgActions' = [sgActions EXCEPT ![a].status = "started",
                                                     ![a].attempts = @ + 1]
                   /\ sgEffects' = [sgEffects EXCEPT ![a] = @ \cup {s.attempts + 1}]
                   /\ sgDriver' = [sgDriver EXCEPT !.at = "attempt",
                                                   !.max = AttemptsAllowed(a)]
                   /\ UNCHANGED sgRun
              ELSE DriverFails /\ UNCHANGED <<sgActions, sgEffects>>
  /\ UNCHANGED <<sgSteps, sgSaga, sgManual, sgOrders, sgCrashes>>

\* manual_recovery_required, which follows an ambiguous end of an attempt.
ToOperator(a) ==
  /\ sgActions' = [sgActions EXCEPT ![a].status = "manual", ![a].ambiguous = TRUE]
  /\ sgManual' = [sgManual EXCEPT ![a] = "required"]
  /\ sgSaga' = [sgSaga EXCEPT !.phase = "manual"]

(* The script of the attempt ends: it succeeds, fails for certain (with or *)
(* without another try), fails ambiguously, or its host disappears.        *)
AttemptEnds ==
  LET a == Head(sgDriver.todo) IN
  /\ sgDriver.at = "attempt"
  /\ \/ /\ sgActions' = [sgActions EXCEPT ![a].status = "succeeded"]
        /\ Settle(TRUE, FALSE)
        /\ UNCHANGED <<sgSaga, sgManual, sgEffects>>
     \/ \E retryable \in BOOLEAN :
          /\ sgActions' = [sgActions EXCEPT ![a].status = "failed", ![a].ambiguous = FALSE]
          /\ sgEffects' = [sgEffects EXCEPT ![a] = @ \ {sgActions[a].attempts}]
          /\ IF retryable /\ sgActions[a].attempts < sgDriver.max
               THEN sgDriver' = [sgDriver EXCEPT !.at = "retryable"]
               ELSE Settle(FALSE, FALSE)
          /\ UNCHANGED <<sgSaga, sgManual>>
     \/ /\ sgActions' = [sgActions EXCEPT ![a].status = "failed", ![a].ambiguous = TRUE]
        /\ sgDriver' = [sgDriver EXCEPT !.at = "ambiguous"]
        /\ UNCHANGED <<sgSaga, sgManual, sgEffects>>
     \/ ToOperator(a) /\ Settle(FALSE, TRUE) /\ UNCHANGED sgEffects
  /\ UNCHANGED <<sgRun, sgSteps, sgOrders, sgCrashes>>

(* The second append after a failed attempt. *)
EscalateAmbiguity ==
  /\ sgDriver.at = "ambiguous"
  /\ ToOperator(Head(sgDriver.todo)) /\ Settle(FALSE, TRUE)
  /\ UNCHANGED <<sgRun, sgSteps, sgEffects, sgOrders, sgCrashes>>

\* Automatic retries are refused once an action of the saga awaits an operator.
ScheduleRetry ==
  LET a == Head(sgDriver.todo) IN
  /\ sgDriver.at = "retryable"
  /\ IF sgSaga.phase = "correcting"
       THEN /\ sgActions' = [sgActions EXCEPT ![a].status = "retry"]
            /\ sgDriver' = [sgDriver EXCEPT !.at = "correcting"]
            /\ UNCHANGED sgRun
       ELSE DriverFails /\ UNCHANGED sgActions
  /\ UNCHANGED <<sgSteps, sgSaga, sgManual, sgEffects, sgOrders, sgCrashes>>

CorrectionEnds ==
  /\ sgDriver.at = "correcting" /\ sgDriver.todo = <<>>
  /\ CASE sgDriver.manual ->
            sgDriver' = [sgDriver EXCEPT !.at = "returned"] /\ UNCHANGED <<sgRun, sgSaga>>
       [] ~sgDriver.manual /\ CanCompleteCorrection ->
            /\ sgSaga' = [sgSaga EXCEPT !.phase = "completed"]
            /\ sgDriver' = [sgDriver EXCEPT !.at = "returned"]
            /\ UNCHANGED sgRun
       [] OTHER -> DriverFails /\ UNCHANGED sgSaga
  /\ UNCHANGED <<sgSteps, ForwardVars>>

(* Back in the run loop, which stops only if the phase still says that an  *)
(* operator is needed; run_failed needs a running run.                     *)
CorrectionReturns ==
  LET failed == sgDriver.manual \/ ~sgDriver.ok IN
  /\ sgDriver.at = "returned"
  /\ CASE failed /\ sgSaga.phase = "manual" -> DriverFails
       [] sgDriver.goal = "cancel" /\ ~(failed /\ sgSaga.phase = "manual") ->
            sgDriver' = NoDriving /\ sgRun' = "cancelled"
       [] \/ sgDriver.goal = "fail" /\ ~(failed /\ sgSaga.phase = "manual")
          \/ sgDriver.goal = "commit" /\ failed /\ sgSaga.phase # "manual" ->
            IF sgRun = "running" THEN sgDriver' = NoDriving /\ sgRun' = "failed"
            ELSE DriverFails
       [] OTHER -> sgDriver' = Driving /\ UNCHANGED sgRun
  /\ UNCHANGED <<sgSteps, sgSaga, ForwardVars>>

-----------------------------------------------------------------------------
(* The operator (recover_correction_v1). *)

OperatorRetries(a) ==
  /\ sgActions[a].status = "manual" /\ sgActions[a].ambiguous
  /\ sgActions[a].attempts < OperatorAttempts /\ sgSaga.phase = "manual"
  /\ sgSaga' = [sgSaga EXCEPT !.phase = "correcting"]
  /\ sgActions' = [sgActions EXCEPT ![a].status = "retry", ![a].ambiguous = FALSE]
  /\ sgManual' = [sgManual EXCEPT ![a] = "none"]
  /\ sgOrders' = [sgOrders EXCEPT ![a] = @ + 1]
  /\ UNCHANGED <<sgRun, sgSteps, sgDriver, sgEffects, sgCrashes>>

OperatorResolves(a) ==
  /\ sgActions[a].status = "manual" /\ sgActions[a].ambiguous /\ sgManual[a] = "required"
  /\ sgManual' = [sgManual EXCEPT ![a] = "resolved"]
  /\ UNCHANGED <<sgRun, sgSteps, sgSaga, sgActions, sgDriver, sgEffects, sgOrders, sgCrashes>>

-----------------------------------------------------------------------------
(* Crashes, recovery and the scan that resumes corrections. *)

CrashSagaProcess ==
  /\ sgDriver.at \notin {"none", "gone"} /\ sgCrashes < MaxSagaCrashes
  /\ sgDriver' = [NoDriving EXCEPT !.at = "gone"]
  /\ sgCrashes' = sgCrashes + 1
  /\ UNCHANGED <<sgRun, sgSteps, sgSaga, sgActions, sgManual, sgEffects, sgOrders>>

\* Fault: an interrupted attempt is tried again.
ReplayInterrupted(a) ==
  /\ sgActions' = [sgActions EXCEPT ![a].status = "retry"]
  /\ UNCHANGED <<sgManual, sgSaga>>

\* correction_interrupted and manual_recovery_required.
InterruptCorrection(a) == ToOperator(a)

(* recover_run: started corrections go to the operator; a started forward  *)
(* step fails the run, whatever the saga has registered.                   *)
RecoverSagaRun ==
  LET active == {a \in SagaActions : sgActions[a].status = "started"}
      interrupted == {i \in 1..SagaLength : sgSteps[i] = "started"}
  IN
  /\ sgDriver.at = "gone"
  /\ sgDriver' = NoDriving
  /\ CASE active # {} ->
            InterruptCorrection(CHOOSE a \in active : TRUE) /\ UNCHANGED <<sgRun, sgSteps>>
       [] active = {} /\ sgRun = "running" /\ interrupted # {} ->
            /\ sgRun' = "failed"
            /\ sgSteps' = [i \in 1..SagaLength |->
                             IF i \in interrupted THEN "failed" ELSE sgSteps[i]]
            /\ UNCHANGED <<sgActions, sgManual, sgSaga>>
       [] OTHER -> UNCHANGED <<sgRun, sgSteps, sgActions, sgManual, sgSaga>>
  /\ UNCHANGED <<sgEffects, sgOrders, sgCrashes>>

(* resume_corrections_for_workflows_durable finds a run by its actions.    *)
ResumeCorrection ==
  /\ sgDriver.at = "none" /\ Open
  /\ \/ sgSaga.phase = "correcting" /\ \E a \in SagaActions : Pending(a)
     \/ sgSaga.phase = "manual" /\ \E a \in SagaActions :
          sgActions[a].status = "manual" /\ sgManual[a] = "resolved"
  /\ sgDriver' = Driving
  /\ UNCHANGED <<sgRun, sgSteps, sgSaga, ForwardVars>>

(* woml run --resume: a user resumes the run, whatever its state. *)
ResumeSagaRun ==
  /\ sgDriver.at = "none" /\ Open
  /\ sgDriver' = Driving
  /\ UNCHANGED <<sgRun, sgSteps, sgSaga, ForwardVars>>

SagaNext ==
  \/ SagaOpens \/ SagaCommits \/ RunStalls \/ RunEnds \/ RequestSagaCancellation
  \/ \E i \in 1..SagaLength : ForwardStepStarts(i) \/ ForwardStepEnds(i)
  \/ BeginCorrection \/ ConsiderAction \/ AttemptEnds \/ EscalateAmbiguity
  \/ ScheduleRetry \/ CorrectionEnds \/ CorrectionReturns
  \/ \E a \in SagaActions : OperatorRetries(a) \/ OperatorResolves(a)
  \/ CrashSagaProcess \/ RecoverSagaRun \/ ResumeCorrection \/ ResumeSagaRun

SagaSpec == SagaInit /\ [][SagaNext]_sgVars

-----------------------------------------------------------------------------
(* Properties. *)

(***************************************************************************)
(* A corrective action whose effect may already have happened (it          *)
(* succeeded, ended ambiguously, or its process or host disappeared) is    *)
(* executed again only on the decision of an operator, one execution for   *)
(* each decision, whatever crashes, retries and scans come between         *)
(* (execute_corrective_action, recover_run, recover_correction_v1).        *)
(***************************************************************************)
NoBlindRepeat ==
  \A a \in SagaActions : Cardinality(sgEffects[a]) <= 1 + sgOrders[a]

(***************************************************************************)
(* A saga whose forward work was committed is never undone: no             *)
(* compensation runs after saga_forward_succeeded, although the run may be *)
(* cancelled, or its process stop, before the correction that follows the  *)
(* commit has begun (apply_saga_correction_started).                       *)
(***************************************************************************)
CommittedNeverUndone ==
  sgSaga.succeeded => \A a \in Compensations : sgActions[a].attempts = 0

(***************************************************************************)
(* Corrections do no harm: none is repeated blindly, and none undoes       *)
(* committed work.                                                         *)
(***************************************************************************)
CorrectionsSound == NoBlindRepeat /\ CommittedNeverUndone

(***************************************************************************)
(* A run whose correction has begun ends only when the correction is       *)
(* complete (docs/woml-compensation-and-cleanup.md: "the run finalizes     *)
(* only after correction is complete or explicitly requires manual         *)
(* recovery").  The code does not guarantee it: see the README.            *)
(***************************************************************************)
EndsOnlyCorrected ==
  (~Open /\ sgSaga.reason # "none") => sgSaga.phase \in {"completed", "manual"}
===============================================================================
