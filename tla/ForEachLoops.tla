----------------------------- MODULE ForEachLoops -----------------------------
(***************************************************************************)
(* One for-each loop of a run (runtime/control_flow/for_each,              *)
(* projection/iteration_fold.rs).  The coordinator admits iterations up to *)
(* the concurrency of the loop and polls them in one task: between two     *)
(* awaits only other writers of the history intervene, namely the calls of *)
(* the scripts and a request to cancel the run.  Each event is an append   *)
(* of its own, so the process may stop between any two of them.            *)
(* The body is a sequence of steps; scheduled instants and results are     *)
(* left out.                                                               *)
(***************************************************************************)
EXTENDS Integers, Sequences, FiniteSets, FiniteSetsExt, SequencesExt

CONSTANTS
  LoopTotal,        \* items of the captured array
  LoopConcurrency,  \* concurrency of the descriptor
  BodyLength,       \* steps of the body
  LoopAttempts,     \* attempts of the retry policy of every step
  MaxLoopCrashes    \* bound on crashes of the process

ASSUME LoopAssumption ==
  /\ LoopTotal \in Nat /\ LoopConcurrency \in Nat \ {0} /\ BodyLength \in Nat \ {0}
  /\ LoopAttempts \in Nat \ {0} /\ MaxLoopCrashes \in Nat

VARIABLES
  feSchema,    \* event schema of the run: "v16", or "later" (v17 and up)
  feRun,       \* status of the run
  feLoop,      \* status of the loop
  feIters,     \* status of each iteration
  feSteps,     \* latest attempt of each step of each iteration
  feOps,       \* managed operation of each iteration
  feLast,      \* iteration whose step_attempt_failed is the last event, or 0
  feDriver,    \* the driver of the run
  feTasks,     \* the futures of the coordinator
  feEffects,   \* attempts that may have had an effect (history variable)
  feCrashes

feVars == <<feSchema, feRun, feLoop, feIters, feSteps, feOps, feLast, feDriver,
            feTasks, feEffects, feCrashes>>

Items == 1..LoopTotal
Body == 1..BodyLength

NoStep == [attempt |-> 0, status |-> "none", retry |-> FALSE]
NoLoopDriver == [at |-> "none", queue |-> <<>>, stop |-> FALSE, item |-> 0,
                 goal |-> "none", last |-> FALSE]
NoTasks == [i \in Items |-> "none"]

LoopTypeOK ==
  /\ feSchema \in {"v16", "later"}
  /\ feRun \in {"running", "cancelling", "cancelled", "failed", "succeeded"}
  /\ feLoop \in {"none", "open", "succeeded", "failed", "cancelled"}
  /\ feIters \in [Items -> {"pending", "started", "succeeded", "failed", "skipped"}]
  /\ feSteps \in [Items -> [Body ->
       [attempt : 0..LoopAttempts,
        status : {"none", "started", "succeeded", "threw", "failed"},
        retry : BOOLEAN]]]
  /\ feOps \in [Items -> {"none", "live", "orphan"}]
  /\ feLast \in 0..LoopTotal
  /\ feDriver.at \in {"none", "gone", "node", "loop", "retry", "settling",
                      "settled", "returned"}
  /\ feTasks \in [Items -> {"none", "step", "script", "sleep", "ok", "error",
                           "lost"}]
  /\ feCrashes \in 0..MaxLoopCrashes

LoopInit ==
  /\ feSchema \in {"v16", "later"}
  /\ feRun = "running"
  /\ feLoop = "none"
  /\ feIters = [i \in Items |-> "pending"]
  /\ feSteps = [i \in Items |-> [n \in Body |-> NoStep]]
  /\ feOps = [i \in Items |-> "none"]
  /\ feLast = 0
  /\ feDriver = [NoLoopDriver EXCEPT !.at = "node"]
  /\ feTasks = NoTasks
  /\ feEffects = [i \in Items |-> [n \in Body |-> {}]]
  /\ feCrashes = 0

-----------------------------------------------------------------------------
(* What the fold admits. *)

LoopRunOpen == feRun \in {"running", "cancelling"}

(* apply_iteration_scoped_event. *)
ScopeOpen(i) == LoopRunOpen /\ feLoop = "open" /\ feIters[i] = "started"

HasStarted(i) == \E n \in Body : feSteps[i][n].status = "started"
CurrentStep(i) == Min({n \in Body : feSteps[i][n].status # "succeeded"} \cup {BodyLength + 1})

(* apply_for_each_settled: owns_active_work. *)
LoopOwnsWork ==
  \E i \in Items :
    HasStarted(i) \/ feOps[i] # "none" \/ \E n \in Body : feSteps[i][n].retry

ClearRetries(steps) == [n \in Body |-> [steps[n] EXCEPT !.retry = FALSE]]

\* for_each_iteration_failed.
FailIteration(i) ==
  /\ feIters' = [feIters EXCEPT ![i] = "failed"]
  /\ feSteps' = [feSteps EXCEPT ![i] = ClearRetries(@)]

-----------------------------------------------------------------------------
(* The driver: the run loop around the coordinator. *)

(* The coordinator or the run loop returns an error and drops the futures; *)
(* a script that was executing goes on without them.                       *)
LoopDriverFails ==
  /\ feDriver' = [NoLoopDriver EXCEPT !.at = "returned"]
  /\ feTasks' = [i \in Items |-> IF feTasks[i] \in {"script", "lost"} THEN "lost" ELSE "none"]

(* settle_open_for_each; last: on behalf of settle_cancelling_run. *)
BeginSettling(goal, last) ==
  feDriver' = [NoLoopDriver EXCEPT !.at = "settling", !.goal = goal, !.last = last]

(* resumed_indexes before pending_indexes. *)
AdmissionQueue ==
  SetToSortSeq({i \in Items : feIters[i] = "started"}, <)
    \o SetToSortSeq({i \in Items : feIters[i] = "pending"}, <)

(* execute_bounded_for_each up to its main loop. *)
EnterLoop ==
  /\ feDriver.at = "node" /\ LoopRunOpen /\ feLoop \in {"none", "open"}
  /\ IF feLoop = "open" \/ feRun = "running"
       THEN /\ feLoop' = "open"
            /\ feLast' = IF feLoop = "open" THEN feLast ELSE 0
            /\ feDriver' = [NoLoopDriver EXCEPT
                 !.at = "loop", !.queue = AdmissionQueue,
                 !.stop = feRun = "cancelling" \/ \E i \in Items : feIters[i] = "failed"]
            /\ UNCHANGED feTasks
       ELSE LoopDriverFails /\ UNCHANGED <<feLoop, feLast>>
  /\ UNCHANGED <<feSchema, feRun, feIters, feSteps, feOps, feEffects, feCrashes>>

(* The node of a settled loop is complete: the run goes on to its end, or  *)
(* nothing is ready because a failed loop has no result.                   *)
PassLoop ==
  /\ feDriver.at = "node" /\ feRun = "running" /\ feLoop \notin {"none", "open"}
  /\ LoopDriverFails
  /\ feRun' = IF feLoop = "succeeded" THEN "succeeded" ELSE feRun
  /\ UNCHANGED <<feSchema, feLoop, feIters, feSteps, feOps, feLast, feEffects, feCrashes>>

\* The run loop finds the run cancelling.
NoticeCancelling ==
  /\ feDriver.at = "node" /\ feRun = "cancelling"
  /\ BeginSettling("cancelled", TRUE)
  /\ UNCHANGED <<feSchema, feRun, feLoop, feIters, feSteps, feOps, feLast, feTasks,
                 feEffects, feCrashes>>

ActiveTasks == {i \in Items : feTasks[i] \notin {"none", "lost"}}

CanAdmit ==
  /\ feDriver.at = "loop" /\ ~feDriver.stop /\ feDriver.queue # <<>>
  /\ Cardinality(ActiveTasks) < LoopConcurrency

\* The coordinator polls once it has admitted what it can.
Polls == feDriver.at = "loop" /\ ~CanAdmit

AdmitIteration ==
  LET i == Head(feDriver.queue) IN
  /\ CanAdmit
  /\ IF feIters[i] = "started" \/ feRun = "running"
       THEN /\ feDriver' = [feDriver EXCEPT !.queue = Tail(@)]
            /\ feTasks' = [feTasks EXCEPT ![i] = "step"]
            /\ feIters' = [feIters EXCEPT ![i] = "started"]
            /\ feLast' = IF feIters[i] = "started" THEN feLast ELSE 0
       ELSE LoopDriverFails /\ UNCHANGED <<feIters, feLast>>
  /\ UNCHANGED <<feSchema, feRun, feLoop, feSteps, feOps, feEffects, feCrashes>>

-----------------------------------------------------------------------------
(* The futures of the iterations. *)

IterationVars == <<feSchema, feRun, feLoop, feCrashes>>

(* execute_for_each_script up to the start of an attempt: it goes by the   *)
(* latest durable attempt, and a retry needs a durable schedule.  A resumed *)
(* wait for a retry gives up when the run is no longer running.            *)
MayStart(i, n) ==
  LET s == feSteps[i][n] IN
  /\ ScopeOpen(i)
  /\ s.status = "none" \/ (s.retry /\ s.attempt < LoopAttempts)

StartIterationAttempt(i) ==
  LET n == CurrentStep(i) IN
  /\ Polls /\ feTasks[i] \in {"step", "sleep"} /\ n \in Body
  /\ \/ /\ MayStart(i, n)
        /\ feSteps' = [feSteps EXCEPT ![i][n] =
                         [attempt |-> @.attempt + 1, status |-> "started", retry |-> FALSE]]
        /\ feEffects' = [feEffects EXCEPT ![i][n] = @ \cup {feSteps[i][n].attempt + 1}]
        /\ feTasks' = [feTasks EXCEPT ![i] = "script"]
        /\ feLast' = 0
     \/ /\ \/ ~MayStart(i, n)
           \/ feTasks[i] = "step" /\ feSteps[i][n].retry /\ feRun # "running"
        /\ feTasks' = [feTasks EXCEPT ![i] = "error"]
        /\ UNCHANGED <<feSteps, feEffects, feLast>>
  /\ UNCHANGED <<IterationVars, feIters, feOps, feDriver>>

(* for_each_iteration_succeeded needs a running run. *)
IterationCompletes(i) ==
  /\ Polls /\ feTasks[i] = "step" /\ CurrentStep(i) = BodyLength + 1
  /\ IF feRun = "running" /\ feIters[i] = "started"
       THEN /\ feIters' = [feIters EXCEPT ![i] = "succeeded"]
            /\ feTasks' = [feTasks EXCEPT ![i] = "ok"]
            /\ feLast' = 0
       ELSE feTasks' = [feTasks EXCEPT ![i] = "error"] /\ UNCHANGED <<feIters, feLast>>
  /\ UNCHANGED <<IterationVars, feSteps, feOps, feDriver, feEffects>>

(* The host answers.  A script whose operation did not settle within the   *)
(* grace period counts as crashed, and no outcome of its attempt is        *)
(* recorded while the operation is active.                                 *)
ScriptEnds(i) ==
  LET n == CurrentStep(i) recorded == ScopeOpen(i) /\ feOps[i] = "none" IN
  /\ Polls /\ feTasks[i] = "script"
  /\ \E outcome \in IF feOps[i] = "none" THEN {"succeeded", "threw", "failed"}
                                         ELSE {"failed"} :
       /\ feSteps' = IF recorded THEN [feSteps EXCEPT ![i][n].status = outcome]
                                 ELSE feSteps
       /\ feEffects' = IF recorded /\ outcome = "threw"
                         THEN [feEffects EXCEPT ![i][n] = @ \ {feSteps[i][n].attempt}]
                         ELSE feEffects
       /\ feLast' = IF ~recorded THEN feLast ELSE IF outcome = "succeeded" THEN 0 ELSE i
       /\ CASE recorded /\ outcome = "succeeded" ->
                 feTasks' = [feTasks EXCEPT ![i] = "step"] /\ UNCHANGED feDriver
            [] recorded /\ outcome = "threw" /\ feSteps[i][n].attempt < LoopAttempts ->
                 feDriver' = [feDriver EXCEPT !.at = "retry", !.item = i] /\ UNCHANGED feTasks
            [] OTHER -> feTasks' = [feTasks EXCEPT ![i] = "error"] /\ UNCHANGED feDriver
  /\ UNCHANGED <<IterationVars, feIters, feOps>>

(* The second append after a failed attempt: step_retry_scheduled must be  *)
(* adjacent to the failure in the history.                                 *)
ScheduleIterationRetry ==
  LET i == feDriver.item n == CurrentStep(i) IN
  /\ feDriver.at = "retry"
  /\ feDriver' = [feDriver EXCEPT !.at = "loop", !.item = 0]
  /\ IF feLast = i /\ ScopeOpen(i)
       THEN /\ feSteps' = [feSteps EXCEPT ![i][n].retry = TRUE]
            /\ feTasks' = [feTasks EXCEPT ![i] = "sleep"]
            /\ feLast' = 0
       ELSE feTasks' = [feTasks EXCEPT ![i] = "error"] /\ UNCHANGED <<feSteps, feLast>>
  /\ UNCHANGED <<IterationVars, feIters, feOps, feEffects>>

(* The coordinator takes a finished future; the first error stops          *)
(* admission and cancels the active invocations.                           *)
IterationReturns(i) ==
  /\ Polls /\ feTasks[i] \in {"ok", "error"}
  /\ IF feTasks[i] = "error" /\ feIters[i] = "started" /\ ~LoopRunOpen
       THEN LoopDriverFails
       ELSE /\ feTasks' = [feTasks EXCEPT ![i] = "none"]
            /\ feDriver' = [feDriver EXCEPT !.stop = @ \/ feTasks[i] = "error"]
  /\ IF feTasks[i] = "error" /\ feIters[i] = "started" /\ LoopRunOpen
       THEN FailIteration(i) /\ feLast' = 0
       ELSE UNCHANGED <<feIters, feSteps, feLast>>
  /\ UNCHANGED <<IterationVars, feOps, feEffects>>

\* The poll interval of the coordinator.
PollCancellation ==
  /\ Polls /\ ActiveTasks # {} /\ ~feDriver.stop /\ feRun = "cancelling"
  /\ feDriver' = [feDriver EXCEPT !.stop = TRUE]
  /\ UNCHANGED <<IterationVars, feIters, feSteps, feOps, feLast, feTasks, feEffects>>

(* The end of execute_bounded_for_each. *)
FinishLoop ==
  /\ Polls /\ ActiveTasks = {}
  /\ \/ /\ feRun = "cancelling"
        /\ BeginSettling("cancelled", FALSE)
        /\ UNCHANGED <<feLoop, feTasks, feLast>>
     \/ feRun = "failed" /\ LoopDriverFails /\ UNCHANGED <<feLoop, feLast>>
     \/ /\ feRun = "running" /\ feDriver.stop
        /\ BeginSettling("failed", FALSE)
        /\ UNCHANGED <<feLoop, feTasks, feLast>>
     \/ /\ feRun = "running" /\ ~feDriver.stop
        /\ feLoop' = "succeeded"
        /\ feLast' = 0
        /\ feDriver' = [NoLoopDriver EXCEPT !.at = "node"]
        /\ UNCHANGED feTasks
  /\ UNCHANGED <<feSchema, feRun, feIters, feSteps, feOps, feEffects, feCrashes>>

-----------------------------------------------------------------------------
(* Settlement, event by event. *)

SettleIteration(i) ==
  LET n == CurrentStep(i) IN
  CASE feOps[i] # "none" ->
         feOps' = [feOps EXCEPT ![i] = "none"] /\ UNCHANGED <<feSteps, feIters>>
    [] feOps[i] = "none" /\ HasStarted(i) ->
         feSteps' = [feSteps EXCEPT ![i][n].status = "failed"] /\ UNCHANGED <<feOps, feIters>>
    [] OTHER -> FailIteration(i) /\ UNCHANGED feOps

SettleOpenForEach ==
  LET started == {i \in Items : feIters[i] = "started"}
      pending == {i \in Items : feIters[i] = "pending"}
      settled == [feDriver EXCEPT !.at = "settled"]
  IN
  /\ feDriver.at = "settling"
  /\ CASE feLoop # "open" ->
            feDriver' = settled /\ UNCHANGED <<feLoop, feIters, feSteps, feOps, feTasks, feLast>>
       [] feLoop = "open" /\ started # {} ->
            SettleIteration(Min(started)) /\ feLast' = 0 /\ UNCHANGED <<feLoop, feDriver, feTasks>>
       [] feLoop = "open" /\ started = {} /\ pending # {} ->
            /\ feIters' = [feIters EXCEPT ![Min(pending)] = "skipped"]
            /\ feLast' = 0
            /\ UNCHANGED <<feLoop, feSteps, feOps, feDriver, feTasks>>
       [] feLoop = "open" /\ started \cup pending = {} /\ ~LoopOwnsWork ->
            /\ feLoop' = feDriver.goal
            /\ feLast' = 0
            /\ feDriver' = settled
            /\ UNCHANGED <<feIters, feSteps, feOps, feTasks>>
       [] OTHER ->
            /\ IF feDriver.last THEN feDriver' = NoLoopDriver /\ UNCHANGED feTasks
                                ELSE LoopDriverFails
            /\ UNCHANGED <<feLoop, feIters, feSteps, feOps, feLast>>
  /\ UNCHANGED <<feSchema, feRun, feEffects, feCrashes>>

(* decide_run_failed, or the end of settle_cancelling_run; after the       *)
(* settlement of a cancelled loop the run is still to be settled.          *)
DecideRun ==
  /\ feDriver.at = "settled"
  /\ feRun' = IF feDriver.goal = "failed" THEN "failed"
              ELSE IF feDriver.last THEN "cancelled" ELSE feRun
  /\ LoopDriverFails
  /\ UNCHANGED <<feSchema, feLoop, feIters, feSteps, feOps, feLast, feEffects, feCrashes>>

\* An error of a cancelling run ends in settle_cancelling_run.
DriverReturns ==
  /\ feDriver.at = "returned"
  /\ IF feRun = "cancelling" THEN BeginSettling("cancelled", TRUE)
                             ELSE feDriver' = NoLoopDriver
  /\ UNCHANGED <<feSchema, feRun, feLoop, feIters, feSteps, feOps, feLast, feTasks,
                 feEffects, feCrashes>>

(* recover_open_for_each_failure, one transaction: it covers two schema    *)
(* versions, and the fold refuses its events for work that belongs to an   *)
(* iteration that has already failed.                                      *)
CoversLoop == feSchema = "v16" /\ feLoop = "open"

SettlementAccepted ==
  \A i \in Items : HasStarted(i) \/ feOps[i] # "none" => feIters[i] = "started"

SettleInTransaction ==
  /\ feLoop' = "failed"
  /\ feIters' = [i \in Items |->
       CASE feIters[i] = "started" -> "failed"
         [] feIters[i] = "pending" -> "skipped"
         [] OTHER -> feIters[i]]
  /\ feSteps' = [i \in Items |-> [n \in Body |->
       [feSteps[i][n] EXCEPT !.retry = FALSE, !.status = IF @ = "started" THEN "failed" ELSE @]]]
  /\ feOps' = [i \in Items |-> "none"]

(* settle_run_timeout, called between two nodes and by the coordinator. *)
LoopRunTimeout ==
  /\ feDriver.at = "node" \/ (Polls /\ ActiveTasks # {} /\ ~feDriver.stop)
  /\ feRun = "running"
  /\ IF CoversLoop /\ ~SettlementAccepted
       THEN LoopDriverFails /\ UNCHANGED <<feRun, feLoop, feIters, feSteps, feOps, feLast>>
       ELSE /\ feRun' = "failed"
            /\ feLast' = 0
            /\ IF feDriver.at = "node" THEN LoopDriverFails
               ELSE feDriver' = [feDriver EXCEPT !.stop = TRUE] /\ UNCHANGED feTasks
            /\ IF CoversLoop THEN SettleInTransaction
                             ELSE UNCHANGED <<feLoop, feIters, feSteps, feOps>>
  /\ UNCHANGED <<feSchema, feEffects, feCrashes>>

-----------------------------------------------------------------------------
(* Other writers, crashes and recovery. *)

(* The authority records an operation of a running script.                 *)
OperationStarts(i) ==
  /\ feTasks[i] \in {"script", "lost"} /\ feOps[i] = "none" /\ ScopeOpen(i) /\ HasStarted(i)
  /\ feOps' = [feOps EXCEPT ![i] = "live"]
  /\ feLast' = 0
  /\ UNCHANGED <<feSchema, feRun, feLoop, feIters, feSteps, feDriver, feTasks, feEffects,
                 feCrashes>>

OperationEnds(i) ==
  /\ feOps[i] = "live" /\ ScopeOpen(i)
  /\ feOps' = [feOps EXCEPT ![i] = "none"]
  /\ feLast' = 0
  /\ UNCHANGED <<feSchema, feRun, feLoop, feIters, feSteps, feDriver, feTasks, feEffects,
                 feCrashes>>

RequestLoopCancellation ==
  /\ feRun = "running"
  /\ feRun' = "cancelling"
  /\ feLast' = 0
  /\ UNCHANGED <<feSchema, feLoop, feIters, feSteps, feOps, feDriver, feTasks, feEffects,
                 feCrashes>>

CrashLoopProcess ==
  /\ feDriver.at \notin {"none", "gone"} /\ feCrashes < MaxLoopCrashes
  /\ feDriver' = [NoLoopDriver EXCEPT !.at = "gone"]
  /\ feTasks' = NoTasks
  /\ feOps' = [i \in Items |-> IF feOps[i] = "live" THEN "orphan" ELSE feOps[i]]
  /\ feCrashes' = feCrashes + 1
  /\ UNCHANGED <<feSchema, feRun, feLoop, feIters, feSteps, feLast, feEffects>>

\* Fault: an attempt without an outcome is scheduled again.
RetryInterrupted ==
  /\ feSteps' = [i \in Items |-> [n \in Body |->
       [feSteps[i][n] EXCEPT !.retry = @ \/ feSteps[i][n].status = "started"]]]
  /\ UNCHANGED <<feRun, feLoop, feIters, feOps>>

(* A loop with a failed iteration or unfinished work fails, and the run    *)
(* with it.                                                                *)
FailInterruptedLoop == feRun' = "failed" /\ SettleInTransaction

(* recover_run.  When the fold refuses the settlement, startup fails and   *)
(* the run stays as it is.                                                 *)
RecoverLoopRun ==
  LET interrupted == \E i \in Items :
        feIters[i] = "failed" \/ HasStarted(i) \/ feOps[i] # "none"
  IN
  /\ feDriver.at = "gone"
  /\ IF feRun = "running" /\ CoversLoop /\ interrupted
       THEN SettlementAccepted /\ FailInterruptedLoop
       ELSE UNCHANGED <<feRun, feLoop, feIters, feSteps, feOps>>
  /\ feDriver' = NoLoopDriver
  /\ feLast' = 0
  /\ UNCHANGED <<feSchema, feTasks, feEffects, feCrashes>>

\* The scheduler or a user resumes the run.
ResumeLoopRun ==
  /\ feDriver.at = "none" /\ LoopRunOpen
  /\ feDriver' = [NoLoopDriver EXCEPT !.at = "node"]
  /\ UNCHANGED <<feSchema, feRun, feLoop, feIters, feSteps, feOps, feLast, feTasks,
                 feEffects, feCrashes>>

LoopNext ==
  \/ EnterLoop \/ PassLoop \/ NoticeCancelling \/ AdmitIteration
  \/ \E i \in Items : StartIterationAttempt(i) \/ IterationCompletes(i) \/ ScriptEnds(i)
       \/ IterationReturns(i) \/ OperationStarts(i) \/ OperationEnds(i)
  \/ ScheduleIterationRetry \/ PollCancellation \/ FinishLoop \/ SettleOpenForEach
  \/ DecideRun \/ DriverReturns \/ LoopRunTimeout \/ RequestLoopCancellation
  \/ CrashLoopProcess \/ RecoverLoopRun \/ ResumeLoopRun

LoopSpec == LoopInit /\ [][LoopNext]_feVars

-----------------------------------------------------------------------------
(* Properties. *)

(***************************************************************************)
(* A step of an iteration is executed again only when its earlier attempts *)
(* are known to have thrown: an attempt that succeeded, was cancelled or   *)
(* crashed, or whose outcome was never recorded, is the last one, across   *)
(* crashes, recoveries and resumed drivers of every schema version         *)
(* (execute_for_each_script, apply_iteration_scoped_event).                *)
(***************************************************************************)
LoopStepRunsOnce ==
  \A i \in Items, n \in Body : Cardinality(feEffects[i][n]) <= 1

(***************************************************************************)
(* An iteration is admitted only while the run is running, no iteration    *)
(* has failed, and the iterations that have started and not ended stay     *)
(* within the concurrency of the loop, those that an earlier process       *)
(* started included (execute_bounded_for_each).                            *)
(***************************************************************************)
AdmissionBounded ==
  [][\A i \in Items :
       feIters[i] = "pending" /\ feIters'[i] = "started" =>
         /\ feRun = "running"
         /\ \A j \in Items : feIters[j] # "failed"
         /\ Cardinality({j \in Items : feIters'[j] = "started"}) <= LoopConcurrency]_feVars

(***************************************************************************)
(* A run ends only after its loop (docs/protocols/for-each-v1.md:          *)
(* "emits one terminal loop event before workflow settlement").  The code  *)
(* guarantees it for the two event schemas that                            *)
(* recover_open_for_each_failure covers, and not for later ones: see the   *)
(* README.                                                                 *)
(***************************************************************************)
LoopEndsFirst == ~LoopRunOpen => feLoop # "open"
===============================================================================
