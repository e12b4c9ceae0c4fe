---------------------------- MODULE WorkflowCalls ----------------------------
(***************************************************************************)
(* Workflow calls: a step of a parent run calls or starts a child workflow *)
(* (core/woml-engine/src/workflow_calls.rs), the store binds the call to   *)
(* one child run (durable/transactions/workflow_calls.rs), an executor     *)
(* claims it, and the target process scans for admitted children that      *)
(* nobody claimed (webhook/routing.rs).  Every process that starts on the  *)
(* store, after a crash or beside the live ones, recovers runs and         *)
(* reconciles the whole call index (durable/recovery.rs).                  *)
(*                                                                         *)
(* The call key is derived from the parent run, the step and the target,   *)
(* and the child run identity from the call key.  A run is therefore       *)
(* identified with its lineage: the sequence of workflows from the root.   *)
(* Every run executes one step with retries; a step of a workflow with     *)
(* call targets makes one call per attempt, the others just end.           *)
(***************************************************************************)
EXTENDS Integers, FiniteSets, Sequences

CONSTANTS
  CallWorkflows,    \* workflow identities
  RootWorkflow,     \* the workflow of the run that a trigger admitted
  CallTargets,      \* the workflows a workflow's step may call
  StartTargets,     \* targets that are started, not called
  RemoteTargets,    \* targets that another process of the project owns
  PolicyTargets,    \* workflows of model 12 and later: admitted as queued
  SuspendTargets,   \* workflows that may suspend in a durable wait
  CallPayloads,     \* payloads of a call
  PayloadsOf,       \* those a workflow's step may call with
  MaxCallDepth,     \* MAX_WORKFLOW_CALL_DEPTH
  MaxCallAttempts,  \* max_attempts of the step's retry policy
  CallQueueCeiling, \* RUNTIME_POLICY_QUEUE_CEILING
  ProcessTargets,   \* the sets of targets that the other processes serve
  MaxCallCrashes,   \* bound on the crashes of all processes at once
  MaxCallStarts     \* bound on the processes that start beside live ones

(* Lineages one longer than the depth limit allows. *)
CallRuns ==
  {p \in UNION {[1..n -> CallWorkflows] : n \in 1..(MaxCallDepth + 2)} :
     /\ p[1] = RootWorkflow
     /\ \A i \in 2..Len(p) : p[i] \in CallTargets[p[i - 1]]}

ASSUME CallAssumption ==
  /\ IsFiniteSet(CallWorkflows)
  /\ RootWorkflow \in CallWorkflows
  /\ CallTargets \in [CallWorkflows -> SUBSET CallWorkflows]
  /\ StartTargets \cup RemoteTargets \cup PolicyTargets \cup SuspendTargets
       \subseteq CallWorkflows
  /\ PayloadsOf \in [CallWorkflows -> SUBSET CallPayloads]
  /\ MaxCallDepth \in Nat \ {0} /\ MaxCallAttempts \in Nat \ {0}
  /\ ProcessTargets \subseteq SUBSET CallWorkflows
  /\ CallQueueCeiling \in Nat /\ MaxCallCrashes \in Nat
  /\ MaxCallStarts \in Nat

VARIABLES
  callRuns,   \* the projection of every run: status and step attempts
  callRows,   \* woml_workflow_calls, by child run
  callers,    \* the call that the current attempt of a run is making
  executors,  \* tasks that execute a run in the live processes
  reconciling,\* the state a starting process is about to write to a row
  reopened,   \* observer: how often a child was admitted again while a
              \* task executed it
  callCrashes,\* how often all processes died
  callStarts  \* how often a process started beside live ones

startVars == <<reconciling, reopened, callCrashes, callStarts>>

callVars == <<callRuns, callRows, callers, executors, startVars>>

-----------------------------------------------------------------------------
(* State. *)

Root == <<RootWorkflow>>

WorkflowOfRun(p) == p[Len(p)]

Child(p, t) == Append(p, t)

AbsentRun == [status |-> "absent", step |-> "ready", attempts |-> 0]

AbsentCall == [state |-> "none", payload |-> "none", depth |-> 0]

NoCall == [pc |-> "none", target |-> RootWorkflow, answer |-> "none"]

EndedStatuses == {"Succeeded", "Failed"}

CallsTypeOK ==
  /\ callRuns \in [CallRuns ->
       [status : {"absent", "Queued", "Running", "Waiting"} \cup EndedStatuses,
        step : {"ready", "started", "backoff", "succeeded", "failed"},
        attempts : 0..MaxCallAttempts]]
  /\ callRows \in [CallRuns ->
       [state : {"none", "admitted", "running", "succeeded", "failed"},
        payload : CallPayloads \cup {"none"}, depth : 0..MaxCallDepth]]
  /\ callers \in [CallRuns ->
       [pc : {"none", "dispatching", "observing", "answered"},
        target : CallWorkflows,
        answer : {"none", "result", "started", "failure"}]]
  /\ executors \in [CallRuns -> 0..(1 + MaxCallStarts)]
  /\ reconciling \in [CallRuns -> {"none", "admitted", "succeeded", "failed"}]
  /\ reopened \in [CallRuns -> 0..MaxCallStarts]
  /\ callCrashes \in 0..MaxCallCrashes
  /\ callStarts \in 0..MaxCallStarts

(* The root run was admitted by a trigger and is being executed. *)
CallsInit ==
  /\ callRuns = [p \in CallRuns |->
       IF p = Root THEN [AbsentRun EXCEPT !.status = "Running"] ELSE AbsentRun]
  /\ callRows = [p \in CallRuns |-> AbsentCall]
  /\ callers = [p \in CallRuns |-> NoCall]
  /\ executors = [p \in CallRuns |-> IF p = Root THEN 1 ELSE 0]
  /\ reconciling = [p \in CallRuns |-> "none"]
  /\ reopened = [p \in CallRuns |-> 0]
  /\ callCrashes = 0 /\ callStarts = 0

-----------------------------------------------------------------------------
(* The step of a run. *)

StartCallAttempt(p) ==
  /\ executors[p] > 0
  /\ callRuns[p].status = "Running"
  /\ callRuns[p].step \in {"ready", "backoff"}
  /\ callRuns' = [callRuns EXCEPT ![p] =
       [callRuns[p] EXCEPT !.step = "started", !.attempts = @ + 1]]
  /\ UNCHANGED <<callRows, callers, executors, startVars>>

AttemptRunning(p) ==
  executors[p] > 0 /\ callRuns[p].step = "started"
    /\ callRuns[p].status = "Running"

(* A failed attempt is retried while attempts are left. *)
FailedStep(p) ==
  [callRuns[p] EXCEPT !.step =
     IF callRuns[p].attempts < MaxCallAttempts THEN "backoff" ELSE "failed"]

(* The script of a run without calls succeeds, fails or suspends the run;  *)
(* one with a call succeeds only on the call's answer.                     *)
EndCallAttempt(p) ==
  LET calls == CallTargets[WorkflowOfRun(p)] # {} IN
  /\ AttemptRunning(p)
  /\ calls => callers[p].pc = "answered"
  /\ \/ /\ calls => callers[p].answer # "failure"
        /\ callRuns' = [callRuns EXCEPT ![p].step = "succeeded"]
     \/ /\ calls => callers[p].answer = "failure"
        /\ callRuns' = [callRuns EXCEPT ![p] = FailedStep(p)]
  /\ callers' = [callers EXCEPT ![p] =
       IF callRuns'[p].step = "succeeded" THEN @ ELSE NoCall]
  /\ UNCHANGED <<callRows, executors, startVars>>

(* A run of a workflow with a durable wait suspends before its step ends.  *)
SuspendChild(p) ==
  /\ executors[p] > 0
  /\ WorkflowOfRun(p) \in SuspendTargets
  /\ callRuns[p].status = "Running" /\ callRuns[p].step = "ready"
  /\ callRuns' = [callRuns EXCEPT ![p].status = "Waiting"]
  /\ UNCHANGED <<callRows, callers, executors, startVars>>

EndCallRun(p) ==
  /\ executors[p] > 0
  /\ callRuns[p].status = "Running"
  /\ \/ /\ callRuns[p].step = "succeeded"
        /\ callRuns' = [callRuns EXCEPT ![p].status = "Succeeded"]
     \/ /\ callRuns[p].step = "failed"
        /\ callRuns' = [callRuns EXCEPT ![p].status = "Failed"]
  /\ UNCHANGED <<callRows, callers, executors, startVars>>

-----------------------------------------------------------------------------
(* Admission. *)

(* The lineage query follows the stored calls up to the root. *)
Lineage(p) == {p[i] : i \in DOMAIN p}

(* Fault: only the direct parent is compared with the target. *)
CallsItself(p, t) == WorkflowOfRun(p) = t

WorkflowCallWouldCycle(p, t) == t \in Lineage(p)

CallDepth(p) == callRows[p].depth + 1

QueuedChildren ==
  Cardinality({c \in CallRuns : callRuns[c].status = "Queued"})

(* Everything that admit_workflow_call refuses a new child for. *)
AdmissionRefused(p, t) ==
  \/ WorkflowCallWouldCycle(p, t)
  \/ CallDepth(p) > MaxCallDepth
  \/ /\ callRuns[Child(p, t)].status = "absent"
     /\ t \in PolicyTargets
     /\ QueuedChildren >= CallQueueCeiling

(* The stored call differs from the request: idempotency conflict. *)
CallConflicts(p, t, payload) ==
  LET row == callRows[Child(p, t)] IN
  /\ row.state # "none"
  /\ row.payload # payload \/ row.depth # CallDepth(p)

(* A duplicate with the same inputs reattaches to the existing child. *)
AdmitWorkflowCall(p, t, payload) ==
  LET c == Child(p, t) IN
  /\ AttemptRunning(p)
  /\ callers[p].pc = "none"
  /\ t \in CallTargets[WorkflowOfRun(p)]
  /\ ~AdmissionRefused(p, t)
  /\ ~CallConflicts(p, t, payload)
  /\ callers' = [callers EXCEPT ![p] =
       [NoCall EXCEPT !.pc = "dispatching", !.target = t]]
  /\ \/ /\ callRows[c].state # "none"
        /\ UNCHANGED <<callRuns, callRows>>
     \/ /\ callRows[c].state = "none"
        /\ callRuns[c].status = "absent"
        /\ callRuns' = [callRuns EXCEPT ![c].status =
             IF t \in PolicyTargets THEN "Queued" ELSE "Running"]
        /\ callRows' = [callRows EXCEPT ![c] =
             [state |-> "admitted", payload |-> payload,
              depth |-> CallDepth(p)]]
  /\ UNCHANGED <<executors, startVars>>

CallAnswered(p, answer) ==
  [callers EXCEPT ![p] = [@ EXCEPT !.pc = "answered", !.answer = answer]]

(* The call fails with WOML_WORKFLOW_CALL_CYCLE, _DEPTH_EXCEEDED, ... *)
RefuseWorkflowCall(p, t, payload) ==
  /\ AttemptRunning(p)
  /\ callers[p].pc = "none"
  /\ t \in CallTargets[WorkflowOfRun(p)]
  /\ AdmissionRefused(p, t) \/ CallConflicts(p, t, payload)
  /\ callers' = CallAnswered(p, "failure")
  /\ UNCHANGED <<callRuns, callRows, executors, startVars>>

-----------------------------------------------------------------------------
(* Dispatch and execution of the child. *)

(* Fault: the claim does not look at the state of the call. *)
ClaimAnyCall(c) ==
  /\ callRows' = [callRows EXCEPT ![c].state = "running"]
  /\ executors' = [executors EXCEPT ![c] = @ + 1]

(* claim_workflow_call_execution: the loser of the conditional update      *)
(* observes the same child.                                                *)
ClaimWorkflowCall(c) ==
  IF callRows[c].state = "admitted"
  THEN /\ callRows' = [callRows EXCEPT ![c].state = "running"]
       /\ executors' = [executors EXCEPT ![c] = @ + 1]
  ELSE UNCHANGED <<callRows, executors>>

AfterDispatch(p) ==
  IF callers[p].target \in StartTargets
  THEN CallAnswered(p, "started")
  ELSE [callers EXCEPT ![p].pc = "observing"]

DispatchWorkflowCall(p) ==
  /\ AttemptRunning(p)
  /\ callers[p].pc = "dispatching"
  /\ ClaimWorkflowCall(Child(p, callers[p].target))
  /\ callers' = AfterDispatch(p)
  /\ UNCHANGED <<callRuns, startVars>>

(* The wake-up message to the process that owns the target is lost. *)
LoseWakeup(p) ==
  /\ AttemptRunning(p)
  /\ callers[p].pc = "dispatching"
  /\ callers[p].target \in RemoteTargets
  /\ callers' = AfterDispatch(p)
  /\ UNCHANGED <<callRuns, callRows, executors, startVars>>

(* run_workflow_routing_maintenance, every 250 ms. *)
ScanAdmittedCalls(c) ==
  /\ callRows[c].state = "admitted"
  /\ ClaimWorkflowCall(c)
  /\ UNCHANGED <<callRuns, callers, startVars>>

(* execute_admitted_trigger_run_durable starts a queued child when the     *)
(* policies of its workflow let it.                                        *)
StartChildExecution(c) ==
  /\ executors[c] > 0
  /\ callRuns[c].status = "Queued"
  /\ callRuns' = [callRuns EXCEPT ![c].status = "Running"]
  /\ UNCHANGED <<callRows, callers, executors, startVars>>

(* The executor returns and the index follows; a conditional update that   *)
(* finds another state is ignored.                                         *)
SettleCallState(c) ==
  /\ executors[c] > 0
  /\ callRuns[c].status \in EndedStatuses \cup {"Waiting"}
  /\ executors' = [executors EXCEPT ![c] = @ - 1]
  /\ callRows' = [callRows EXCEPT ![c].state =
       IF @ # "running" THEN @
       ELSE IF callRuns[c].status = "Succeeded" THEN "succeeded" ELSE "failed"]
  /\ UNCHANGED <<callRuns, callers, startVars>>

(* A second executor of a child whose attempt is in flight finds no node   *)
(* that is ready: the run loop gives up with Stalled and the index fails,  *)
(* although the first executor goes on.  A child of model 12 and later     *)
(* lets it wait for the execution lease instead.                           *)
ExecutorStalls(c) ==
  /\ executors[c] > 1
  /\ AttemptRunning(c)
  /\ WorkflowOfRun(c) \notin PolicyTargets
  /\ executors' = [executors EXCEPT ![c] = @ - 1]
  /\ callRows' = [callRows EXCEPT ![c].state =
       IF @ = "running" THEN "failed" ELSE @]
  /\ UNCHANGED <<callRuns, callers, startVars>>

(* Fault: an answer is taken from the index instead of the child's history. *)
ObserveCallIndex(p) ==
  /\ AttemptRunning(p)
  /\ callers[p].pc = "observing"
  /\ callRows[Child(p, callers[p].target)].state # "admitted"
  /\ callers' = CallAnswered(p, "result")
  /\ UNCHANGED <<callRuns, callRows, executors, startVars>>

(* observe_existing_child: the child's history decides; a suspended child  *)
(* and the deadline of the call fail it.                                   *)
ObserveChild(p) ==
  LET status == callRuns[Child(p, callers[p].target)].status IN
  /\ AttemptRunning(p)
  /\ callers[p].pc = "observing"
  /\ \/ status = "Succeeded" /\ callers' = CallAnswered(p, "result")
     \/ status \in {"Failed", "Waiting"} /\ callers' = CallAnswered(p, "failure")
  /\ UNCHANGED <<callRuns, callRows, executors, startVars>>

CallTimesOut(p) ==
  /\ AttemptRunning(p)
  /\ callers[p].pc = "observing"
  /\ callRuns[Child(p, callers[p].target)].status \notin EndedStatuses
  /\ callers' = CallAnswered(p, "failure")
  /\ UNCHANGED <<callRuns, callRows, executors, startVars>>

-----------------------------------------------------------------------------
(* Crash and recovery. *)

(* recover_run: an interrupted attempt fails its run, whatever its retry   *)
(* policy; a run without one is left as it is.                             *)
RecoveredRun(run) ==
  IF run.status = "Running" /\ run.step = "started"
  THEN [run EXCEPT !.step = "failed", !.status = "Failed"]
  ELSE run

(* reconcile_workflow_call_states: a child that is still queued keeps its  *)
(* row, also when the row says that somebody executes it.                  *)
ReconciledRow(row, run) ==
  IF row.state \notin {"admitted", "running"} THEN row
  ELSE [row EXCEPT !.state =
    CASE run.status = "Succeeded" -> "succeeded"
      [] run.status \in {"Failed", "Waiting"} -> "failed"
      [] run.status = "Running" /\ row.state = "running" -> "admitted"
      [] OTHER -> @]

(* All processes die with their executors and their callers; the next one  *)
(* recovers every run, reconciles the index and drives the root run again, *)
(* which fails when its attempt was interrupted.                           *)
CrashAndRecover ==
  /\ callCrashes < MaxCallCrashes
  /\ callCrashes' = callCrashes + 1
  /\ callRuns' = [p \in CallRuns |-> RecoveredRun(callRuns[p])]
  /\ callRows' = [p \in CallRuns |-> ReconciledRow(callRows[p], callRuns'[p])]
  /\ callers' = [p \in CallRuns |->
       IF callers[p].pc = "answered" THEN callers[p] ELSE NoCall]
  /\ executors' = [p \in CallRuns |->
       IF p = Root /\ callRuns'[p].status \notin EndedStatuses THEN 1 ELSE 0]
  /\ reconciling' = [p \in CallRuns |-> "none"]
  /\ UNCHANGED <<reopened, callStarts>>

(* A process starts beside the one that drives the root: it recovers the   *)
(* runs R and looks at every row of the index, whose new states it writes  *)
(* one by one afterwards; the executors of the runs D had died before.     *)
StartBeside(R, D) ==
  /\ callStarts < MaxCallStarts
  /\ callStarts' = callStarts + 1
  /\ callRuns' = [p \in CallRuns |->
       IF p \in R THEN RecoveredRun(callRuns[p]) ELSE callRuns[p]]
  /\ reconciling' = [p \in CallRuns |->
       LET row == ReconciledRow(callRows[p], callRuns'[p]) IN
       IF row = callRows[p] THEN "none" ELSE row.state]
  /\ callers' = [p \in CallRuns |->
       IF p \in D /\ callers[p].pc # "answered" THEN NoCall ELSE callers[p]]
  /\ executors' = [p \in CallRuns |-> IF p \in D THEN 0 ELSE executors[p]]
  /\ UNCHANGED <<callRows, reopened, callCrashes>>

ChildrenOf(T) == {c \in CallRuns \ {Root} : WorkflowOfRun(c) \in T}

(* A server that finds live routes of other processes recovers only the    *)
(* open children of its own targets (prepare_webhook_server); it is a new  *)
(* process, or the next one after the server of these targets died.        *)
ServerStarts(T, restarted) ==
  StartBeside({c \in ChildrenOf(T) :
                 callRows[c].state \in {"admitted", "running"}},
              IF restarted THEN ChildrenOf(T) ELSE {})

(* A workflow of a model before 12 that is run from the command line       *)
(* recovers every run of the store first.                                  *)
LegacyRunStarts == StartBeside(CallRuns, {})

(* reconcile_workflow_call_states, one row: the UPDATE does not ask        *)
(* whether the row or the child moved on since they were read.             *)
ReconcileCall(c) ==
  /\ reconciling[c] # "none"
  /\ callRows' = [callRows EXCEPT ![c].state = reconciling[c]]
  /\ reconciling' = [reconciling EXCEPT ![c] = "none"]
  /\ reopened' = [reopened EXCEPT ![c] =
       IF reconciling[c] = "admitted" /\ executors[c] > 0 THEN @ + 1 ELSE @]
  /\ UNCHANGED <<callRuns, callers, executors, callCrashes, callStarts>>

CallsNext ==
  \/ \E p \in CallRuns :
       \/ StartCallAttempt(p) \/ EndCallAttempt(p) \/ SuspendChild(p)
       \/ EndCallRun(p) \/ DispatchWorkflowCall(p) \/ LoseWakeup(p)
       \/ ObserveChild(p) \/ CallTimesOut(p)
       \/ ScanAdmittedCalls(p) \/ StartChildExecution(p) \/ SettleCallState(p)
       \/ ExecutorStalls(p) \/ ReconcileCall(p)
       \/ \E t \in CallTargets[WorkflowOfRun(p)], payload \in PayloadsOf[WorkflowOfRun(p)] :
            AdmitWorkflowCall(p, t, payload) \/ RefuseWorkflowCall(p, t, payload)
  \/ CrashAndRecover
  \/ \E T \in ProcessTargets, restarted \in BOOLEAN : ServerStarts(T, restarted)
  \/ LegacyRunStarts

(* Executors run, the scanner scans and callers look at their child.       *)
CallsFairness ==
  \A p \in CallRuns :
    /\ WF_callVars(StartCallAttempt(p)) /\ WF_callVars(EndCallAttempt(p))
    /\ WF_callVars(EndCallRun(p)) /\ WF_callVars(ScanAdmittedCalls(p))
    /\ WF_callVars(StartChildExecution(p)) /\ WF_callVars(SettleCallState(p))

CallsSpec == CallsInit /\ [][CallsNext]_callVars /\ CallsFairness

-----------------------------------------------------------------------------
(* Properties. *)

(* No workflow appears twice in a lineage and no lineage is deeper than    *)
(* the limit, however calls, retries and recoveries interleave             *)
(* (workflow_call_would_cycle and the depth of admit_workflow_call).       *)
NoCallCycle ==
  \A c \in CallRuns : callRuns[c].status # "absent" =>
    /\ Cardinality(Lineage(c)) = Len(c)
    /\ callRows[c].depth = Len(c) - 1

(* The caller, the retry of its step, a wake-up and the scanner may all    *)
(* dispatch a child, and one executor results (claim_workflow_call_        *)
(* execution): a further executor is always the doing of a process that    *)
(* started meanwhile and admitted the running child again.                 *)
ExecutorsExplained ==
  \A c \in CallRuns : executors[c] <= 1 + reopened[c]

(* durable/transactions/workflow_calls.rs:483: "exactly one caller becomes *)
(* the executor and every other caller observes the same child run".       *)
SingleExecutor == \A c \in CallRuns : executors[c] <= 1

(* A parent's step is given a result only if the child committed success,  *)
(* and the child's success is not lost when the index or the parent's      *)
(* attempt is recovered (observe_existing_child, reconciliation).          *)
AnswersAreCommitted ==
  /\ \A p \in CallRuns : callers[p].answer = "result" =>
       callRuns[Child(p, callers[p].target)].status = "Succeeded"
  /\ \A c \in CallRuns : callRows[c].state = "succeeded" =>
       callRuns[c].status = "Succeeded"

(***************************************************************************)
(* Nested calls stay consistent through retries, lost wake-ups, scans,     *)
(* crashes and processes that start beside live ones: no workflow waits    *)
(* for itself, a child is executed twice only after a starting process put *)
(* its row back, and an answer comes only from what the child committed.   *)
(***************************************************************************)
CallsConsistent == NoCallCycle /\ ExecutorsExplained /\ AnswersAreCommitted

(* Every admitted child comes to an end or suspends: "committed calls and  *)
(* runs recoverable".                                                      *)
AdmittedChildrenEnd ==
  \A c \in CallRuns :
    (callRows[c].state # "none") ~>
      (callRuns[c].status \in EndedStatuses \cup {"Waiting"})

=============================================================================
