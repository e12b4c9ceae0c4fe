------------------------------- MODULE Lifecycle -------------------------------
(***************************************************************************)
(* The lifecycle hooks of a run (runtime/lifecycle).  A hook is requested  *)
(* in the append of the event that makes it due, its actions are scripts   *)
(* or notifications that run in source order, one at a time, and a run     *)
(* that has decided its outcome is finalized when no requested hook is     *)
(* open.  The step of the run may be a reusable definition with hooks of   *)
(* its own.  An operator may cancel the run and the process may stop       *)
(* between any two appends.                                                *)
(***************************************************************************)
EXTENDS Integers, Sequences, FiniteSets, FiniteSetsExt, SequencesExt, RunFold

CONSTANTS
  HookDefinitions,   \* the workflow definitions that are tried
  SendAttempts,      \* provider attempts of one delivery (3 in the code)
  MaxHookCrashes     \* bound on restarts of the process

StepEvents == {"StepStart", "StepSuccess", "StepFailure", "StepComplete"}
RunEvents == {"RunStart", "RunSuccess", "RunFailure", "RunCancel", "RunComplete"}
HookEvents == StepEvents \cup RunEvents
ReusableHooks == {"OnSuccess", "OnError", "OnComplete"}

(* A script, a notification of a built-in provider, and one that a script  *)
(* of the project's own provider delivers.                                 *)
ActionKinds == {"script", "notify", "custom"}

(* hooks: the action kinds of each declared hook; reusable: the hooks of   *)
(* the step's reusable definition, of one action each; wait: a durable     *)
(* wait follows the step; attempts: of the step's retry policy.            *)
ASSUME HookAssumption ==
  /\ SendAttempts \in Nat \ {0} /\ MaxHookCrashes \in Nat
  /\ \A d \in HookDefinitions :
       /\ DOMAIN d.hooks \subseteq HookEvents
       /\ \A e \in DOMAIN d.hooks : d.hooks[e] \in Seq(ActionKinds) \ {<<>>}
       /\ d.reusable \subseteq ReusableHooks
       /\ d.wait \in BOOLEAN /\ d.attempts \in Nat \ {0}

VARIABLES
  lcDef,       \* the definition of the run
  lcRun,       \* the projection of the run
  lcStep,      \* the attempts of its step
  lcWait,      \* the durable wait behind the step
  lcHooks,     \* lifecycle_hooks, in request order
  lcOps,       \* notification operations that are recorded as started
  lcReusable,  \* reusable_lifecycle_hooks of the step
  lcDriver,    \* where the run's driver is
  lcRan,       \* executions of each action (history variable)
  lcSent,      \* deliveries of each action that the provider accepted (history)
  lcCrashes

lcVars == <<lcDef, lcRun, lcStep, lcWait, lcHooks, lcOps, lcReusable, lcDriver,
            lcRan, lcSent, lcCrashes>>

-----------------------------------------------------------------------------
(* State. *)

Declared(e) == e \in DOMAIN lcDef.hooks
ActionsOf(e) == lcDef.hooks[e]
ActionKeys == (UNION {{<<e, i>> : i \in DOMAIN ActionsOf(e)} : e \in DOMAIN lcDef.hooks})
              \cup {<<h, 1>> : h \in lcDef.reusable}

NewHook(e) == [event |-> e, actions |-> <<>>, done |-> FALSE]

(* at: what the driver does next; then: what follows the hooks it drives;  *)
(* try: the provider attempt; answer: a result that is not recorded yet.   *)
Driver(at, then) == [at |-> at, then |-> then, try |-> 0, answer |-> "none"]
NoDriver == Driver("absent", "end")
DriverSteps == {"absent", "stopped", "hooks", "acting", "delivering", "sent", "received",
                "loop", "step", "recording", "reusable", "executing"}

StepStatuses == {"ready", "started", "retry", "succeeded", "failed", "cancelled", "timedout"}

LifecycleTypeOK ==
  /\ lcDef \in HookDefinitions
  /\ lcRun \in RunProjections
  /\ lcStep \in [attempt : 0..lcDef.attempts, status : StepStatuses]
  /\ lcWait \in {"none", "registered", "over", "cancelled"}
  /\ \A i \in DOMAIN lcHooks :
       /\ lcHooks[i].event \in HookEvents /\ lcHooks[i].done \in BOOLEAN
       /\ lcHooks[i].actions \in Seq({"started", "succeeded", "failed"})
  /\ lcOps \subseteq ActionKeys
  /\ lcReusable \in [ReusableHooks -> {"none", "requested", "active", "finished", "done"}]
  /\ lcDriver \in [at : DriverSteps, then : {"loop", "fail", "end"},
                   try : 0..SendAttempts,
                   answer : {"none", "succeeded", "failed", "cancelled", "retryable"}]
  /\ lcRan \in [ActionKeys -> Nat] /\ lcSent \in [ActionKeys -> Nat]
  /\ lcCrashes \in 0..MaxHookCrashes

-----------------------------------------------------------------------------
(* Requests: at most one hook is requested with an event, the first of the *)
(* candidates that the workflow declares (expand_model_v11_payload).       *)

Requested(e) == \E i \in DOMAIN lcHooks : lcHooks[i].event = e

OutcomeEvent(o) == CASE o = "Succeeded" -> "RunSuccess"
                     [] o = "Failed" -> "RunFailure"
                     [] o = "Cancelled" -> "RunCancel"

ForOutcome(o) == <<OutcomeEvent(o), "RunComplete">>
ForStep(s) == CASE s = "succeeded" -> <<"StepSuccess", "StepComplete">>
                [] s = "failed" -> <<"StepFailure", "StepComplete">>
                [] s = "cancelled" -> <<"StepComplete">>

\* Fault: only a successful end is followed by the completion hooks.
FollowSuccessOnly(e) ==
  CASE e = "RunSuccess" -> <<"RunComplete">>
    [] e = "StepSuccess" -> <<"StepComplete">>
    [] OTHER -> <<>>

(* The hook that the completion of a hook makes due. *)
FollowUp(e) ==
  CASE e \in {"RunSuccess", "RunFailure", "RunCancel"} -> <<"RunComplete">>
    [] e \in {"StepSuccess", "StepFailure"} -> <<"StepComplete">>
    [] OTHER -> <<>>

Due(candidates) ==
  LET declared == {i \in DOMAIN candidates : Declared(candidates[i])}
  IN IF declared = {} THEN <<>> ELSE <<NewHook(candidates[Min(declared)])>>

(* The fold refuses a hook that was requested before. *)
RequestsAccepted(hooks) == \A i \in DOMAIN hooks : ~Requested(hooks[i].event)

(* The outcome of RunSucceeded and RunFailed; a workflow without hooks is  *)
(* finalized in the same append.                                           *)
Decided(p, o) ==
  IF DOMAIN lcDef.hooks = {} THEN RunFinalized(RunOutcomeDecided(p, o))
  ELSE RunOutcomeDecided(p, o)

-----------------------------------------------------------------------------
HookInit ==
  /\ lcDef \in HookDefinitions
  /\ lcRun = RunExecutionStarted(RunAdmitted(EmptyProjection))
  /\ lcStep = [attempt |-> 0, status |-> "ready"]
  /\ lcWait = "none"
  /\ lcHooks = Due(<<"RunStart">>)
  /\ lcOps = {}
  /\ lcReusable = [h \in ReusableHooks |-> "none"]
  /\ lcDriver = Driver("hooks", "loop")
  /\ lcRan = [k \in ActionKeys |-> 0] /\ lcSent = [k \in ActionKeys |-> 0]
  /\ lcCrashes = 0

-----------------------------------------------------------------------------
(* drive_workflow_lifecycle. *)

OpenHooks == {i \in DOMAIN lcHooks : ~lcHooks[i].done}
OpenStepHooks == {i \in OpenHooks : lcHooks[i].event \in StepEvents}

(* pending_lifecycle_hook: hooks of steps before those of the workflow,    *)
(* each in request order.                                                  *)
PendingHook == IF OpenStepHooks # {} THEN Min(OpenStepHooks) ELSE Min(OpenHooks)

PendingEvent == lcHooks[PendingHook].event
NextAction == Len(lcHooks[PendingHook].actions) + 1
Exhausted == NextAction > Len(ActionsOf(PendingEvent))
Interrupted(h) == \E i \in DOMAIN h.actions : h.actions[i] = "started"

(* on-cancel waits until cancellation is the durable outcome. *)
Waits == OpenHooks # {} /\ PendingEvent = "RunCancel" /\ lcRun.outcome = NoOutcome

DrivesHook == lcDriver.at = "hooks" /\ OpenHooks # {} /\ ~Waits /\ ~Interrupted(lcHooks[PendingHook])

\* The driver when the hooks leave it to the loop or the drive is over.
AfterHooks == IF lcDriver.then = "loop" THEN Driver("loop", "end") ELSE NoDriver

FinalizeRun ==
  /\ lcDriver.at = "hooks" /\ OpenHooks = {} /\ CanRunFinalized(lcRun)
  /\ lcRun' = RunFinalized(lcRun)
  /\ lcDriver' = NoDriver
  /\ UNCHANGED <<lcDef, lcStep, lcWait, lcHooks, lcOps, lcReusable, lcRan, lcSent, lcCrashes>>

LeaveHooks ==
  /\ lcDriver.at = "hooks"
  /\ Waits \/ (OpenHooks = {} /\ lcRun.status # "Finalizing")
  /\ lcDriver' = AfterHooks
  /\ UNCHANGED <<lcDef, lcRun, lcStep, lcWait, lcHooks, lcOps, lcReusable, lcRan, lcSent, lcCrashes>>

CompleteHook ==
  LET next == Due(FollowUp(PendingEvent)) IN
  /\ DrivesHook /\ Exhausted
  /\ IF RequestsAccepted(next)
     THEN /\ lcHooks' = [lcHooks EXCEPT ![PendingHook].done = TRUE] \o next
          /\ lcDriver' = lcDriver
     ELSE lcDriver' = Driver("stopped", "end") /\ lcHooks' = lcHooks
  /\ UNCHANGED <<lcDef, lcRun, lcStep, lcWait, lcOps, lcReusable, lcRan, lcSent, lcCrashes>>

(* A start hook of a run with a cancellation request is not executed. *)
SkipAction ==
  /\ DrivesHook /\ ~Exhausted
  /\ lcRun.cancelRequested /\ PendingEvent \in {"RunStart", "StepStart"}
  /\ lcHooks' = [lcHooks EXCEPT ![PendingHook].actions = Append(@, "failed")]
  /\ UNCHANGED <<lcDef, lcRun, lcStep, lcWait, lcOps, lcReusable, lcDriver, lcRan, lcSent, lcCrashes>>

StartAction ==
  LET kind == ActionsOf(PendingEvent)[NextAction] IN
  /\ DrivesHook /\ ~Exhausted
  /\ ~(lcRun.cancelRequested /\ PendingEvent \in {"RunStart", "StepStart"})
  /\ lcHooks' = [lcHooks EXCEPT ![PendingHook].actions = Append(@, "started")]
  /\ lcRan' = [lcRan EXCEPT ![<<PendingEvent, NextAction>>] = @ + 1]
  /\ lcDriver' = [lcDriver EXCEPT !.at = IF kind = "script" THEN "acting" ELSE "delivering",
                                  !.try = 0]
  /\ UNCHANGED <<lcDef, lcRun, lcStep, lcWait, lcOps, lcReusable, lcSent, lcCrashes>>

(* The action that runs is the last of the pending hook. *)
Running == Len(lcHooks[PendingHook].actions)
RunningKey == <<PendingEvent, Running>>
ActionEnded(status) ==
  /\ lcHooks' = [lcHooks EXCEPT ![PendingHook].actions[Running] = status]
  /\ lcDriver' = Driver("hooks", lcDriver.then)

(* The script succeeds, fails, its host crashes or, before the outcome, it *)
(* is cancelled with its run.                                              *)
ScriptActionEnds ==
  /\ lcDriver.at = "acting"
  /\ \E status \in {"succeeded", "failed"} : ActionEnded(status)
  /\ UNCHANGED <<lcDef, lcRun, lcStep, lcWait, lcOps, lcReusable, lcRan, lcSent, lcCrashes>>

-----------------------------------------------------------------------------
(* execute_lifecycle_notification, for one delivery. *)

CanOperate == lcRun.status \in {"Running", "Finalizing"}
CanFailOperation == lcRun.status \in {"Running", "Cancelling", "Finalizing"}

(* operation_started is recorded before the provider is called. *)
StartDelivery ==
  /\ lcDriver.at = "delivering"
  /\ IF CanOperate
     THEN /\ lcOps' = lcOps \cup {RunningKey}
          /\ lcDriver' = [lcDriver EXCEPT !.at = "sent", !.try = @ + 1]
          /\ lcHooks' = lcHooks
     ELSE ActionEnded("failed") /\ lcOps' = lcOps
  /\ UNCHANGED <<lcDef, lcRun, lcStep, lcWait, lcReusable, lcRan, lcSent, lcCrashes>>

(* What an answer says of the message.  A built-in provider answers as     *)
(* retryable only what it refused for now; the script of a custom provider *)
(* may have posted before its deadline or before a request of it failed,   *)
(* and its host answers both as retryable.                                 *)
AnswerTells(kind, accepted, answer) ==
  kind # "custom" =>
    /\ answer = "succeeded" => accepted
    /\ answer = "retryable" => ~accepted

(* The provider accepts and answers, refuses for good or for now, or its   *)
(* answer is lost, whether it accepted or not.                             *)
ProviderAnswers ==
  /\ lcDriver.at = "sent"
  /\ \E accepted \in BOOLEAN, answer \in {"succeeded", "failed", "retryable"} :
       /\ AnswerTells(ActionsOf(PendingEvent)[Running], accepted, answer)
       /\ lcSent' = [lcSent EXCEPT ![RunningKey] = @ + IF accepted THEN 1 ELSE 0]
       /\ lcDriver' = [lcDriver EXCEPT !.at = "received", !.answer = answer]
  /\ UNCHANGED <<lcDef, lcRun, lcStep, lcWait, lcHooks, lcOps, lcReusable, lcRan, lcCrashes>>

(* A delivery is sent again only when it was answered as retryable. *)
SendsAgain(answer, try) == answer = "retryable" /\ try < SendAttempts

(* operation_succeeded or operation_failed; when the append is refused the *)
(* action fails and the operation stays open.                              *)
RecordDelivery ==
  LET recorded == IF lcDriver.answer = "succeeded" THEN CanOperate ELSE CanFailOperation IN
  /\ lcDriver.at = "received"
  /\ lcOps' = IF recorded THEN lcOps \ {RunningKey} ELSE lcOps
  /\ IF recorded /\ SendsAgain(lcDriver.answer, lcDriver.try)
     THEN /\ lcDriver' = [lcDriver EXCEPT !.at = "delivering", !.answer = "none"]
          /\ lcHooks' = lcHooks
     ELSE ActionEnded(IF recorded /\ lcDriver.answer = "succeeded" THEN "succeeded" ELSE "failed")
  /\ UNCHANGED <<lcDef, lcRun, lcStep, lcWait, lcReusable, lcRan, lcSent, lcCrashes>>

-----------------------------------------------------------------------------
(* The run loop around the step. *)

(* An open operation is only closed with an active step or action: one     *)
(* that outlived its action is refused.                                    *)
OperationsClosable ==
  \A k \in lcOps : \E i \in DOMAIN lcHooks :
    /\ lcHooks[i].event = k[1] /\ k[2] <= Len(lcHooks[i].actions)
    /\ lcHooks[i].actions[k[2]] = "started"

(* The hooks of a reusable definition, in order, for the way the step ended. *)
ReusableOrder(status) ==
  CASE status = "succeeded" -> <<"OnSuccess", "OnComplete">>
    [] status \in {"failed", "timedout"} -> <<"OnError", "OnComplete">>
    [] status = "cancelled" -> <<"OnComplete">>
    [] OTHER -> <<>>

(* Which of them, by their place in that order, are declared and not done. *)
ReusableDue ==
  LET order == ReusableOrder(lcStep.status)
  IN {i \in DOMAIN order : order[i] \in lcDef.reusable /\ lcReusable[order[i]] # "done"}

(* The loop drives them before anything else. *)
EnterReusable ==
  /\ lcDriver.at = "loop" /\ ReusableDue # {}
  /\ lcDriver' = Driver("reusable", "loop")
  /\ UNCHANGED <<lcDef, lcRun, lcStep, lcWait, lcHooks, lcOps, lcReusable, lcRan, lcSent, lcCrashes>>

AtLoop == lcDriver.at = "loop" /\ ReusableDue = {}

(* The step settles as s with its hook, and the run with outcome o if any. *)
StepSettles(s, o) ==
  LET hooks == Due(ForStep(s)) \o (IF o = NoOutcome THEN <<>> ELSE Due(ForOutcome(o))) IN
  /\ RequestsAccepted(hooks)
  /\ lcHooks' = lcHooks \o hooks
  /\ lcStep' = [lcStep EXCEPT !.status = s]
  /\ lcRun' = IF o = NoOutcome THEN lcRun ELSE Decided(lcRun, o)

StartStep ==
  /\ AtLoop /\ lcRun.status = "Running" /\ lcStep.status \in {"ready", "retry"}
  /\ lcStep' = [attempt |-> lcStep.attempt + 1, status |-> "started"]
  /\ lcHooks' = lcHooks \o (IF lcStep.attempt = 0 THEN Due(<<"StepStart">>) ELSE <<>>)
  /\ lcDriver' = Driver("step", "end")
  /\ UNCHANGED <<lcDef, lcRun, lcWait, lcOps, lcReusable, lcRan, lcSent, lcCrashes>>

(* The script ends or is interrupted; the driver reads the run's status. *)
StepEnds ==
  /\ lcDriver.at = "step"
  /\ \E answer \in {"succeeded", "failed"} :
       lcDriver' = [lcDriver EXCEPT !.at = "recording",
         !.answer = IF lcRun.status = "Cancelling" THEN "cancelled" ELSE answer]
  /\ UNCHANGED <<lcDef, lcRun, lcStep, lcWait, lcHooks, lcOps, lcReusable, lcRan, lcSent, lcCrashes>>

LastNode == ~lcDef.wait /\ lcDef.reusable = {}

RecordSuccess ==
  /\ lcDriver.at = "recording" /\ lcDriver.answer = "succeeded"
  /\ lcRun.status = "Running"
  /\ StepSettles("succeeded", IF LastNode THEN "Succeeded" ELSE NoOutcome)
  /\ lcDriver' = IF LastNode THEN Driver("hooks", "end") ELSE Driver("reusable", "loop")
  /\ UNCHANGED <<lcDef, lcWait, lcOps, lcReusable, lcRan, lcSent, lcCrashes>>

(* record_step_attempt_failure: a retry, a failure whose outcome follows   *)
(* the hooks of the reusable definition, or failure of step and run.       *)
RecordFailure ==
  /\ lcDriver.at = "recording" /\ lcDriver.answer = "failed"
  /\ IF lcStep.attempt < lcDef.attempts
     THEN /\ lcRun.status = "Running"
          /\ lcStep' = [lcStep EXCEPT !.status = "retry"]
          /\ lcDriver' = Driver("loop", "end")
          /\ UNCHANGED <<lcRun, lcHooks>>
     ELSE /\ StepSettles("failed", IF lcDef.reusable = {} THEN "Failed" ELSE NoOutcome)
          /\ lcDriver' = IF lcDef.reusable = {} THEN Driver("hooks", "end")
                         ELSE Driver("reusable", "fail")
  /\ UNCHANGED <<lcDef, lcWait, lcOps, lcReusable, lcRan, lcSent, lcCrashes>>

RecordCancelled ==
  /\ lcDriver.at = "recording" /\ lcDriver.answer = "cancelled"
  /\ StepSettles("cancelled", NoOutcome)
  /\ lcDriver' = Driver("loop", "end")
  /\ UNCHANGED <<lcDef, lcWait, lcOps, lcReusable, lcRan, lcSent, lcCrashes>>

(* settle_cancelling_run: from the loop, or after an append that the       *)
(* cancellation request made the store refuse.                             *)
RefusedByCancellation ==
  /\ lcDriver.at = "recording" /\ lcRun.status = "Cancelling"
  /\ lcDriver.answer = "succeeded" \/ (lcDriver.answer = "failed" /\ lcStep.attempt < lcDef.attempts)

SettleCancellingRun ==
  /\ (AtLoop /\ lcRun.status = "Cancelling") \/ RefusedByCancellation
  /\ LET stepHooks == IF lcStep.status = "started" THEN Due(ForStep("cancelled")) ELSE <<>>
         due == Due(ForOutcome("Cancelled"))
         runHooks == IF RequestsAccepted(due) THEN due ELSE <<>>
     IN IF OperationsClosable
        THEN /\ lcHooks' = lcHooks \o stepHooks \o runHooks
             /\ lcStep' = [lcStep EXCEPT !.status = IF @ = "started" THEN "cancelled" ELSE @]
             /\ lcRun' = RunOutcomeDecided(lcRun, "Cancelled")
             /\ lcDriver' = Driver("hooks", "end")
        ELSE /\ lcDriver' = Driver("stopped", "end")
             /\ UNCHANGED <<lcHooks, lcStep, lcRun>>
  /\ UNCHANGED <<lcDef, lcWait, lcOps, lcReusable, lcRan, lcSent, lcCrashes>>

(* settle_run_timeout: the attempt fails without a hook of its step.  When *)
(* the append is refused the driver leaves the loop.                       *)
ReachTimeout ==
  /\ lcDriver.at \in {"loop", "step"} /\ CanRunTimeoutReached(lcRun)
  /\ IF OperationsClosable
     THEN /\ lcStep' = [lcStep EXCEPT !.status = IF @ = "started" THEN "timedout" ELSE @]
          /\ lcHooks' = lcHooks \o Due(ForOutcome("Failed"))
          /\ lcRun' = RunOutcomeDecided(RunTimeoutReached(lcRun), "Failed")
          /\ lcDriver' = Driver(IF lcDriver.at = "loop" THEN "reusable" ELSE "hooks", "end")
     ELSE /\ lcDriver' = Driver("hooks", "end")
          /\ UNCHANGED <<lcStep, lcHooks, lcRun>>
  /\ UNCHANGED <<lcDef, lcWait, lcOps, lcReusable, lcRan, lcSent, lcCrashes>>

RegisterWait ==
  /\ AtLoop /\ lcRun.status = "Running" /\ lcStep.status = "succeeded"
  /\ lcDef.wait /\ lcWait = "none"
  /\ lcWait' = "registered"
  /\ lcRun' = [lcRun EXCEPT !.status = "Waiting"]
  /\ lcDriver' = Driver("hooks", "end")
  /\ UNCHANGED <<lcDef, lcStep, lcHooks, lcOps, lcReusable, lcRan, lcSent, lcCrashes>>

(* The wait is resolved and the run resumed. *)
ResumeAfterWait ==
  /\ lcDriver.at = "absent" /\ lcRun.status = "Waiting" /\ lcWait = "registered"
  /\ lcWait' = "over"
  /\ lcRun' = [lcRun EXCEPT !.status = "Running"]
  /\ lcDriver' = Driver("hooks", "loop")
  /\ UNCHANGED <<lcDef, lcStep, lcHooks, lcOps, lcReusable, lcRan, lcSent, lcCrashes>>

PublishResult ==
  /\ AtLoop /\ lcRun.status = "Running" /\ lcStep.status = "succeeded"
  /\ lcDef.wait => lcWait = "over"
  /\ lcRun' = Decided(lcRun, "Succeeded")
  /\ lcHooks' = lcHooks \o Due(ForOutcome("Succeeded"))
  /\ lcDriver' = Driver("hooks", "end")
  /\ UNCHANGED <<lcDef, lcStep, lcWait, lcOps, lcReusable, lcRan, lcSent, lcCrashes>>

(* No node is ready: a step that failed before its run did. *)
Stall ==
  /\ AtLoop /\ lcRun.status = "Running" /\ lcStep.status = "failed"
  /\ lcDriver' = Driver("hooks", "end")
  /\ UNCHANGED <<lcDef, lcRun, lcStep, lcWait, lcHooks, lcOps, lcReusable, lcRan, lcSent, lcCrashes>>

-----------------------------------------------------------------------------
(* drive_reusable_lifecycle. *)

InReusable == lcDriver.at = "reusable" /\ ReusableDue # {}
NextReusable == ReusableOrder(lcStep.status)[Min(ReusableDue)]

RequestReusable ==
  /\ InReusable /\ lcReusable[NextReusable] = "none"
  /\ lcReusable' = [lcReusable EXCEPT ![NextReusable] = "requested"]
  /\ UNCHANGED <<lcDef, lcRun, lcStep, lcWait, lcHooks, lcOps, lcDriver, lcRan, lcSent, lcCrashes>>

StartReusable ==
  /\ InReusable /\ lcReusable[NextReusable] = "requested"
  /\ lcReusable' = [lcReusable EXCEPT ![NextReusable] = "active"]
  /\ lcRan' = [lcRan EXCEPT ![<<NextReusable, 1>>] = @ + 1]
  /\ lcDriver' = [lcDriver EXCEPT !.at = "executing"]
  /\ UNCHANGED <<lcDef, lcRun, lcStep, lcWait, lcHooks, lcOps, lcSent, lcCrashes>>

(* The action ends, well or not; or it is found active after a restart and *)
(* recorded as interrupted.                                                *)
EndReusable ==
  /\ lcDriver.at \in {"executing", "reusable"} /\ ReusableDue # {}
  /\ lcReusable[NextReusable] = "active"
  /\ lcReusable' = [lcReusable EXCEPT ![NextReusable] = "finished"]
  /\ lcDriver' = [lcDriver EXCEPT !.at = "reusable"]
  /\ UNCHANGED <<lcDef, lcRun, lcStep, lcWait, lcHooks, lcOps, lcRan, lcSent, lcCrashes>>

CompleteReusable ==
  /\ InReusable /\ lcReusable[NextReusable] = "finished"
  /\ lcReusable' = [lcReusable EXCEPT ![NextReusable] = "done"]
  /\ UNCHANGED <<lcDef, lcRun, lcStep, lcWait, lcHooks, lcOps, lcDriver, lcRan, lcSent, lcCrashes>>

(* Back to the loop, to the hooks of a finalizing run, or to the failure   *)
(* of the run that waited for the reusable hooks.                          *)
LeaveReusable ==
  /\ lcDriver.at = "reusable" /\ ReusableDue = {}
  /\ IF lcDriver.then = "fail"
     THEN /\ RequestsAccepted(Due(ForOutcome("Failed")))
          /\ lcRun' = Decided(lcRun, "Failed")
          /\ lcHooks' = lcHooks \o Due(ForOutcome("Failed"))
     ELSE UNCHANGED <<lcRun, lcHooks>>
  /\ lcDriver' = IF lcDriver.then = "loop" THEN Driver("loop", "end") ELSE Driver("hooks", "end")
  /\ UNCHANGED <<lcDef, lcStep, lcWait, lcOps, lcReusable, lcRan, lcSent, lcCrashes>>

-----------------------------------------------------------------------------
(* Cancellation by an operator: a run in a durable wait decides at once,   *)
(* and on-cancel is requested either way.                                  *)
RequestCancellation ==
  LET requested == RunCancellationRequested(lcRun)
      hook == Due(<<"RunCancel">>)
  IN /\ CanRunCancellationRequested(lcRun) /\ lcRun.outcome = NoOutcome
     /\ lcRun' = IF lcRun.status = "Waiting" THEN RunOutcomeDecided(requested, "Cancelled")
                 ELSE requested
     /\ lcWait' = IF lcRun.status = "Waiting" THEN "cancelled" ELSE lcWait
     /\ lcHooks' = lcHooks \o hook
     /\ UNCHANGED <<lcDef, lcStep, lcOps, lcReusable, lcDriver, lcRan, lcSent, lcCrashes>>

AfterCrash == lcDriver.at = "stopped" /\ lcDriver.then = "loop"

Crash ==
  /\ lcRun.status \notin TerminalStatuses /\ ~AfterCrash
  /\ lcCrashes < MaxHookCrashes
  /\ lcCrashes' = lcCrashes + 1
  /\ lcDriver' = Driver("stopped", "loop")
  /\ UNCHANGED <<lcDef, lcRun, lcStep, lcWait, lcHooks, lcOps, lcReusable, lcRan, lcSent>>

\* Fault: an interrupted action is forgotten, so that it starts again.
ForgetInterrupted(h) == [h EXCEPT !.actions = Front(@)]

(* Recovery fails an interrupted action; it is never replayed. *)
FailInterrupted(h) == [h EXCEPT !.actions = Append(Front(@), "failed")]

(* After a restart, resume_with_engine: the driver of a recovered run. *)
Resumed(status) ==
  CASE status = "Finalizing" -> Driver("reusable", "end")
    [] status \in {"Running", "Cancelling"} -> Driver("hooks", "loop")
    [] OTHER -> NoDriver

InterruptedHooks == {i \in DOMAIN lcHooks : Interrupted(lcHooks[i])}

(* A hook all of whose actions have an outcome is completed on the spot. *)
RecoverActions ==
  LET i == CHOOSE x \in InterruptedHooks : TRUE
      failed == FailInterrupted(lcHooks[i])
      full == Len(failed.actions) = Len(ActionsOf(failed.event))
      next == IF full THEN Due(FollowUp(failed.event)) ELSE <<>>
  IN /\ AfterCrash /\ InterruptedHooks # {}
     /\ RequestsAccepted(next)
     /\ lcHooks' = [lcHooks EXCEPT ![i] = [failed EXCEPT !.done = full]] \o next
     /\ lcDriver' = Resumed(lcRun.status)
     /\ UNCHANGED <<lcDef, lcRun, lcStep, lcWait, lcOps, lcReusable, lcRan, lcSent, lcCrashes>>

HooksResumable ==
  \/ OpenHooks # {} /\ lcStep.status # "started" /\ lcOps = {}
  \/ lcRun.status \in {"Cancelling", "Finalizing"}

(* Otherwise an interrupted step, or a step that failed before its run     *)
(* did, fails the run.                                                     *)
RecoverStep ==
  /\ AfterCrash /\ InterruptedHooks = {} /\ ~HooksResumable /\ lcRun.status = "Running"
  /\ lcOps = {} /\ lcStep.status \in {"started", "failed"}
  /\ LET stepHooks == IF lcStep.status = "started" THEN Due(ForStep("failed")) ELSE <<>>
     IN lcHooks' = lcHooks \o stepHooks \o Due(ForOutcome("Failed"))
  /\ lcStep' = [lcStep EXCEPT !.status = "failed"]
  /\ lcRun' = Decided(lcRun, "Failed")
  /\ lcDriver' = Resumed(lcRun'.status)
  /\ UNCHANGED <<lcDef, lcWait, lcOps, lcReusable, lcRan, lcSent, lcCrashes>>

(* Nothing to recover: the run is resumed as it is. *)
Resume ==
  /\ AfterCrash /\ InterruptedHooks = {}
  /\ \/ HooksResumable
     \/ lcRun.status = "Waiting"
     \/ lcRun.status = "Running" /\ lcOps = {} /\ lcStep.status \in {"ready", "retry", "succeeded"}
  /\ lcDriver' = Resumed(lcRun.status)
  /\ UNCHANGED <<lcDef, lcRun, lcStep, lcWait, lcHooks, lcOps, lcReusable, lcRan, lcSent, lcCrashes>>

-----------------------------------------------------------------------------
HookNext ==
  \/ FinalizeRun \/ LeaveHooks \/ CompleteHook \/ SkipAction \/ StartAction
  \/ ScriptActionEnds \/ StartDelivery \/ ProviderAnswers \/ RecordDelivery
  \/ EnterReusable \/ StartStep \/ StepEnds \/ RecordSuccess \/ RecordFailure
  \/ RecordCancelled \/ SettleCancellingRun \/ ReachTimeout \/ RegisterWait
  \/ ResumeAfterWait \/ PublishResult \/ Stall
  \/ RequestReusable \/ StartReusable \/ EndReusable \/ CompleteReusable \/ LeaveReusable
  \/ RequestCancellation \/ Crash \/ RecoverActions \/ RecoverStep \/ Resume

HookSpec == HookInit /\ [][HookNext]_lcVars

-----------------------------------------------------------------------------
(* Properties. *)

(* How often the notification of an action may be accepted. *)
SendLimit(d, e, k) ==
  IF e \in DOMAIN d.hooks /\ d.hooks[e][k] = "custom" THEN SendAttempts ELSE 1

(* No action of a hook is executed twice and no built-in notification      *)
(* reaches its provider twice, whatever crashes, retries of a delivery,    *)
(* retries of the step and recoveries happen; the message of a custom      *)
(* provider is repeated only by the attempts of its one execution          *)
(* (drive_workflow_lifecycle, recover_run,                                 *)
(* execute_lifecycle_notification).                                        *)
ActionsRunOnce ==
  \A k \in ActionKeys : lcRan[k] <= 1 /\ lcSent[k] <= SendLimit(lcDef, k[1], k[2])

Completed(e) == \E i \in DOMAIN lcHooks :
  /\ lcHooks[i].event = e /\ lcHooks[i].done
  /\ Len(lcHooks[i].actions) = Len(ActionsOf(e))

(* The hooks that the history of an ended run calls for.  A run that is    *)
(* cancelled in a durable wait gets on-complete only behind an on-cancel.  *)
CalledFor ==
  {"RunStart", OutcomeEvent(lcRun.outcome)}
  \cup (IF lcStep.attempt > 0 THEN {"StepStart"} ELSE {})
  \cup (CASE lcStep.status = "succeeded" -> {"StepSuccess", "StepComplete"}
          [] lcStep.status = "failed" -> {"StepFailure", "StepComplete"}
          [] lcStep.status = "cancelled" -> {"StepComplete"}
          [] OTHER -> {})
  \cup (IF lcWait = "cancelled" /\ ~Declared("RunCancel")
        THEN {} ELSE {"RunComplete"})

(* A run ends only after every declared hook that its outcome and the end  *)
(* of its step call for was requested and each of its actions settled,     *)
(* also when recovery or a cancellation closed them; and no success or     *)
(* failure hook was requested for an outcome that the run did not have.    *)
EndsObserved ==
  lcRun.status \in TerminalStatuses =>
    /\ \A e \in CalledFor : Declared(e) => Completed(e)
    /\ \A o \in {"Succeeded", "Failed"} : Requested(OutcomeEvent(o)) => lcRun.outcome = o
===============================================================================
