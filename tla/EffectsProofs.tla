----------------------------- MODULE EffectsProofs -----------------------------
(***************************************************************************)
(* Proofs about the components that execute effects which must not be      *)
(* repeated, for any body, saga, retry policy, worker, dispatch and number *)
(* of crashes.                                                             *)
(***************************************************************************)
EXTENDS RemoteDispatch, DurableState, SagaCorrection, ForEachLoops,
        FiniteSetTheorems, WellFoundedInduction, TLAPS

-----------------------------------------------------------------------------
(* ForEachLoops: a step of an iteration is repeated only behind a throw. *)

(* The latest attempt of a step and the attempts that may have had an      *)
(* effect: none but the latest, and none of a step that never began or     *)
(* whose latest attempt threw; a retry is scheduled only behind a throw.   *)
StepSound(step, effects) ==
  /\ effects \subseteq {step.attempt}
  /\ step.status \in {"none", "threw"} => effects = {}
  /\ step.retry => step.status = "threw"
  /\ step.status = "none" => step.attempt = 0

LoopStepsSound ==
  \A i \in Items, n \in Body : StepSound(feSteps[i][n], feEffects[i][n])

(* A step begins only behind steps that succeeded. *)
BodyInOrder ==
  \A i \in Items, n, m \in Body :
    feSteps[i][n].status # "none" /\ m < n => feSteps[i][m].status = "succeeded"

IsCurrent(i, n) ==
  /\ n \in Body /\ feSteps[i][n].status # "succeeded"
  /\ \A m \in Body : m < n => feSteps[i][m].status = "succeeded"

(* While a script executes, its step has no retry to come. *)
ExecutingNotScheduled ==
  \A i \in Items, n \in Body :
    feTasks[i] = "script" /\ IsCurrent(i, n) => ~feSteps[i][n].retry

(* Between the two appends of a failed attempt, its step has thrown. *)
SchedulingThrew ==
  feDriver.at = "retry" => \A n \in Body :
    IsCurrent(feDriver.item, n) => feSteps[feDriver.item][n].status = "threw"

LoopDrivers(queue) ==
  [at : {"none", "gone", "node", "loop", "retry", "settling", "settled", "returned"},
   queue : {queue}, stop : BOOLEAN, item : 0..LoopTotal,
   goal : {"none", "failed", "cancelled"}, last : BOOLEAN]

(* The types, of the history variable and the whole driver too. *)
LoopTypes ==
  /\ LoopTypeOK
  /\ feEffects \in [Items -> [Body -> SUBSET (0..LoopAttempts)]]
  /\ feDriver \in LoopDrivers(feDriver.queue)
  /\ feDriver.at = "settling" => feDriver.goal # "none"
  /\ feDriver.at = "retry" => feDriver.item \in Items

LoopInv ==
  LoopTypes /\ LoopStepsSound /\ BodyInOrder /\ ExecutingNotScheduled /\ SchedulingThrew

(* The least member of a set of naturals. *)
LEMMA LeastMember ==
  ASSUME NEW S \in SUBSET Nat, S # {}
  PROVE  /\ Min(S) \in S
         /\ \A k \in S : Min(S) <= k
<1>1. PICK m \in S : \A k \in S : ~(<<k, m>> \in OpToRel(<, Nat))
  BY WFMin, NatLessThanWellFounded, Zenon
<1>2. \A k \in S : m <= k
  <2> SUFFICES ASSUME NEW k \in S PROVE m <= k
    OBVIOUS
  <2>1. ~(k < m)
    BY <1>1 DEF OpToRel
  <2> QED BY <2>1
<1> QED BY <1>2 DEF Min

(* CurrentStep is the one step that IsCurrent describes. *)
LEMMA CurrentStepIsCurrent ==
  ASSUME LoopTypes, NEW i \in Items
  PROVE  /\ CurrentStep(i) \in 1..(BodyLength + 1)
         /\ CurrentStep(i) \in Body => IsCurrent(i, CurrentStep(i))
         /\ \A n \in Body : IsCurrent(i, n) => n = CurrentStep(i)
<1> DEFINE S == {n \in Body : feSteps[i][n].status # "succeeded"} \cup {BodyLength + 1}
<1>1. BodyLength \in Nat /\ S \in SUBSET Nat /\ S # {} /\ S \subseteq 1..(BodyLength + 1)
  BY LoopAssumption DEF Body
<1>2. /\ Min(S) \in S
      /\ \A k \in S : Min(S) <= k
  BY <1>1, LeastMember
<1>3. CurrentStep(i) = Min(S)
  BY DEF CurrentStep
<1>4. PICK c : c = Min(S)
  OBVIOUS
<1>5. /\ c \in 1..(BodyLength + 1) /\ c \in S
      /\ \A k \in S : c <= k
  BY <1>1, <1>2, <1>4
<1>6. c \in Body => IsCurrent(i, c)
  BY <1>1, <1>5 DEF IsCurrent, Body
<1>7. \A n \in Body : IsCurrent(i, n) => n = c
  BY <1>1, <1>5 DEF IsCurrent, Body
<1> QED BY <1>3, <1>4, <1>5, <1>6, <1>7

(* What a step does that neither begins an attempt, records an outcome nor *)
(* schedules a retry: it may close open attempts and clear retries.        *)
LoopClosingStep ==
  /\ feEffects' = feEffects
  /\ \A i \in Items, n \in Body :
       /\ feSteps'[i][n].attempt = feSteps[i][n].attempt
       /\ feSteps'[i][n].retry => feSteps[i][n].retry
       /\ \/ feSteps'[i][n].status = feSteps[i][n].status
          \/ feSteps[i][n].status = "started" /\ feSteps'[i][n].status = "failed"
  /\ \A i \in Items : feTasks'[i] = "script" => feTasks[i] = "script"
  /\ feDriver'.at = "retry" =>
       feDriver.at = "retry" /\ feDriver'.item = feDriver.item /\ feSteps' = feSteps

LEMMA ClosingKeepsSteps ==
  ASSUME LoopInv, LoopTypes', LoopClosingStep
  PROVE  LoopInv'
<1> USE DEF LoopInv
<1>1. LoopStepsSound'
  <2> SUFFICES ASSUME NEW i \in Items, NEW n \in Body
               PROVE  StepSound(feSteps'[i][n], feEffects'[i][n])
    BY DEF LoopStepsSound
  <2>1. StepSound(feSteps[i][n], feEffects[i][n])
    BY DEF LoopStepsSound
  <2>2. /\ feSteps'[i][n].attempt = feSteps[i][n].attempt
        /\ feSteps'[i][n].retry => feSteps[i][n].retry
        /\ \/ feSteps'[i][n].status = feSteps[i][n].status
           \/ feSteps[i][n].status = "started" /\ feSteps'[i][n].status = "failed"
        /\ feEffects'[i][n] = feEffects[i][n]
    BY DEF LoopClosingStep
  <2> QED BY <2>1, <2>2 DEF StepSound
<1>2. BodyInOrder'
  BY DEF BodyInOrder, LoopClosingStep
<1>3. \A i \in Items, n \in Body : IsCurrent(i, n)' => IsCurrent(i, n)
  BY DEF IsCurrent, LoopClosingStep
<1>4. ExecutingNotScheduled'
  BY <1>3 DEF ExecutingNotScheduled, LoopClosingStep
<1>5. SchedulingThrew'
  <2> SUFFICES ASSUME feDriver'.at = "retry", NEW n \in Body, IsCurrent(feDriver.item, n)'
               PROVE  feSteps'[feDriver'.item][n].status = "threw"
    BY DEF SchedulingThrew, LoopClosingStep
  <2>1. feDriver.at = "retry" /\ feDriver'.item = feDriver.item /\ feSteps' = feSteps
    BY DEF LoopClosingStep
  <2> QED BY <2>1 DEF SchedulingThrew, IsCurrent
<1> QED BY <1>1, <1>2, <1>4, <1>5

(* A driver as the steps of the run loop make it. *)
LEMMA PlainLoopDriver ==
  ASSUME NEW at \in {"none", "gone", "node", "settled", "returned"}
  PROVE  \A d : d = [NoLoopDriver EXCEPT !.at = at] => d \in LoopDrivers(d.queue) /\ d.at = at
<1>1. ASSUME NEW d, d = [NoLoopDriver EXCEPT !.at = at]
      PROVE  d = [at |-> at, queue |-> <<>>, stop |-> FALSE, item |-> 0, goal |-> "none",
                  last |-> FALSE]
  BY <1>1 DEF NoLoopDriver
<1>2. 0 \in 0..LoopTotal
  BY LoopAssumption
<1> SUFFICES ASSUME NEW d, d = [at |-> at, queue |-> <<>>, stop |-> FALSE, item |-> 0,
                                goal |-> "none", last |-> FALSE]
             PROVE  d \in LoopDrivers(d.queue) /\ d.at = at
  BY <1>1, Zenon
<1> QED BY <1>2 DEF LoopDrivers

LEMMA SettlingLoopDriver ==
  ASSUME NEW goal \in {"failed", "cancelled"}, NEW last \in BOOLEAN, BeginSettling(goal, last)
  PROVE  /\ feDriver' \in LoopDrivers(feDriver'.queue)
         /\ feDriver'.at = "settling" /\ feDriver'.goal = goal
<1>1. feDriver' = [at |-> "settling", queue |-> <<>>, stop |-> FALSE, item |-> 0,
                   goal |-> goal, last |-> last]
  BY DEF NoLoopDriver, BeginSettling
<1>2. 0 \in 0..LoopTotal
  BY LoopAssumption
<1> QED BY <1>1, <1>2 DEF LoopDrivers

LEMMA NoLoopDriverFits == NoLoopDriver \in LoopDrivers(NoLoopDriver.queue) /\ NoLoopDriver.at = "none"
<1>1. NoLoopDriver = [at |-> "none", queue |-> <<>>, stop |-> FALSE, item |-> 0,
                      goal |-> "none", last |-> FALSE]
  BY DEF NoLoopDriver
<1>2. 0 \in 0..LoopTotal
  BY LoopAssumption
<1> QED BY <1>1, <1>2 DEF LoopDrivers


(* The driver drops its futures: a script that was executing goes on. *)
LEMMA DroppingKeepsTasks ==
  ASSUME LoopTypes, LoopDriverFails
  PROVE  /\ feDriver' \in LoopDrivers(feDriver'.queue) /\ feDriver'.at = "returned"
         /\ feTasks' \in [Items -> {"none", "step", "script", "sleep", "ok", "error", "lost"}]
         /\ \A i \in Items : feTasks'[i] # "script"
<1>1. feDriver' \in LoopDrivers(feDriver'.queue) /\ feDriver'.at = "returned"
  BY PlainLoopDriver DEF LoopDriverFails
<1> QED BY <1>1 DEF LoopDriverFails, LoopTypes, LoopTypeOK

(* The steps of the run loop and of the coordinator that touch no step. *)
LEMMA CoordinationCloses ==
  ASSUME LoopInv,
         \/ EnterLoop \/ PassLoop \/ NoticeCancelling \/ AdmitIteration
         \/ PollCancellation \/ FinishLoop \/ DecideRun \/ DriverReturns
         \/ RequestLoopCancellation \/ CrashLoopProcess \/ ResumeLoopRun
  PROVE  LoopTypes' /\ LoopClosingStep
<1> USE LoopAssumption DEF LoopInv
<1>1. CASE EnterLoop
  <2> USE <1>1 DEF EnterLoop
  <2>1. CASE feLoop = "open" \/ feRun = "running"
    <3>1. PICK s \in BOOLEAN : s = (feRun = "cancelling" \/ \E i \in Items : feIters[i] = "failed")
      OBVIOUS
    <3>2. feDriver' = [at |-> "loop", queue |-> AdmissionQueue, stop |-> s, item |-> 0,
                       goal |-> "none", last |-> FALSE]
      BY <2>1, <3>1 DEF NoLoopDriver
    <3>3. feDriver' \in LoopDrivers(feDriver'.queue) /\ feDriver'.at = "loop"
      BY <3>2 DEF LoopDrivers
    <3> QED BY <2>1, <3>3 DEF LoopTypes, LoopTypeOK, LoopClosingStep
  <2>2. CASE ~(feLoop = "open" \/ feRun = "running")
    BY <2>2, DroppingKeepsTasks DEF LoopTypes, LoopTypeOK, LoopClosingStep
  <2> QED BY <2>1, <2>2
<1>2. CASE PassLoop
  BY <1>2, DroppingKeepsTasks DEF PassLoop, LoopTypes, LoopTypeOK, LoopClosingStep
<1>3. CASE NoticeCancelling
  BY <1>3, SettlingLoopDriver DEF NoticeCancelling, LoopTypes, LoopTypeOK, LoopClosingStep
<1>4. CASE AdmitIteration
  <2> DEFINE i == Head(feDriver.queue)
  <2>1. CASE feIters[i] = "started" \/ feRun = "running"
    <3>1. /\ feDriver' = [feDriver EXCEPT !.queue = Tail(@)]
          /\ feTasks' = [feTasks EXCEPT ![i] = "step"]
          /\ feIters' = [feIters EXCEPT ![i] = "started"]
          /\ feLast' \in {feLast, 0} /\ feDriver.at = "loop"
          /\ UNCHANGED <<feSchema, feRun, feLoop, feSteps, feOps, feEffects, feCrashes>>
      BY <1>4, <2>1 DEF AdmitIteration, CanAdmit
    <3> HIDE DEF i
    <3>2. PICK q : feDriver' = [feDriver EXCEPT !.queue = q]
      BY <3>1
    <3>3. /\ feDriver' \in LoopDrivers(feDriver'.queue) /\ feDriver'.at = "loop"
      BY <3>1, <3>2 DEF LoopTypes, LoopDrivers
    <3>4. LoopTypes'
      <4>1. feTasks' \in [Items -> {"none", "step", "script", "sleep", "ok", "error", "lost"}]
        BY <3>1 DEF LoopTypes, LoopTypeOK
      <4>2. feIters' \in [Items -> {"pending", "started", "succeeded", "failed", "skipped"}]
        BY <3>1 DEF LoopTypes, LoopTypeOK
      <4>3. feLast' \in 0..LoopTotal
        BY <3>1 DEF LoopTypes, LoopTypeOK
      <4>4. /\ feDriver'.at = "settling" => feDriver'.goal # "none"
            /\ feDriver'.at = "retry" => feDriver'.item \in Items
        BY <3>3
      <4> QED BY <3>1, <3>3, <4>1, <4>2, <4>3, <4>4 DEF LoopTypes, LoopTypeOK
    <3>5. LoopClosingStep
      BY <3>1, <3>3 DEF LoopTypes, LoopTypeOK, LoopClosingStep
    <3> QED BY <3>4, <3>5
  <2>2. CASE ~(feIters[i] = "started" \/ feRun = "running")
    BY <1>4, <2>2, DroppingKeepsTasks DEF AdmitIteration, LoopTypes, LoopTypeOK, LoopClosingStep
  <2> QED BY <2>1, <2>2
<1>5. CASE PollCancellation
  BY <1>5 DEF PollCancellation, Polls, IterationVars, LoopTypes, LoopTypeOK, LoopDrivers,
              LoopClosingStep
<1>6. CASE FinishLoop
  <2>1. /\ feLoop' \in {feLoop, "succeeded"} /\ feLast' \in {feLast, 0}
        /\ UNCHANGED <<feSchema, feRun, feIters, feSteps, feOps, feEffects, feCrashes>>
    BY <1>6 DEF FinishLoop
  <2>2. \/ LoopDriverFails
        \/ (BeginSettling("cancelled", FALSE) \/ BeginSettling("failed", FALSE)) /\ feTasks' = feTasks
        \/ feDriver' = [NoLoopDriver EXCEPT !.at = "node"] /\ feTasks' = feTasks
    BY <1>6 DEF FinishLoop
  <2>3. /\ feDriver' \in LoopDrivers(feDriver'.queue)
        /\ feDriver'.at \in {"returned", "settling", "node"}
        /\ feDriver'.at = "settling" => feDriver'.goal # "none"
    BY <2>2, DroppingKeepsTasks, SettlingLoopDriver, PlainLoopDriver
  <2>4. /\ feTasks' \in [Items -> {"none", "step", "script", "sleep", "ok", "error", "lost"}]
        /\ \A i \in Items : feTasks'[i] = "script" => feTasks[i] = "script"
    BY <2>2, DroppingKeepsTasks DEF LoopTypes, LoopTypeOK
  <2>5. LoopTypes'
    BY <2>1, <2>3, <2>4 DEF LoopTypes, LoopTypeOK
  <2> QED BY <2>1, <2>3, <2>4, <2>5 DEF LoopClosingStep
<1>7. CASE DecideRun
  BY <1>7, DroppingKeepsTasks DEF DecideRun, LoopTypes, LoopTypeOK, LoopClosingStep
<1>8. CASE DriverReturns
  <2>1. /\ feDriver' \in LoopDrivers(feDriver'.queue) /\ feDriver'.at \in {"settling", "none"}
        /\ feDriver'.at = "settling" => feDriver'.goal # "none"
    BY <1>8, SettlingLoopDriver, NoLoopDriverFits DEF DriverReturns
  <2> QED BY <1>8, <2>1 DEF DriverReturns, LoopTypes, LoopTypeOK, LoopClosingStep
<1>9. CASE RequestLoopCancellation
  BY <1>9 DEF RequestLoopCancellation, LoopTypes, LoopTypeOK, LoopClosingStep
<1>10. CASE CrashLoopProcess
  <2>1. feDriver' \in LoopDrivers(feDriver'.queue) /\ feDriver'.at = "gone"
    BY <1>10, PlainLoopDriver DEF CrashLoopProcess
  <2> QED BY <1>10, <2>1 DEF CrashLoopProcess, NoTasks, LoopTypes, LoopTypeOK, LoopClosingStep
<1>11. CASE ResumeLoopRun
  <2>1. feDriver' \in LoopDrivers(feDriver'.queue) /\ feDriver'.at = "node"
    BY <1>11, PlainLoopDriver DEF ResumeLoopRun
  <2> QED BY <1>11, <2>1 DEF ResumeLoopRun, LoopTypes, LoopTypeOK, LoopClosingStep
<1> QED BY <1>1, <1>2, <1>3, <1>4, <1>5, <1>6, <1>7, <1>8, <1>9, <1>10, <1>11

LoopSteps ==
  [attempt : 0..LoopAttempts, status : {"none", "started", "succeeded", "threw", "failed"},
   retry : BOOLEAN]

(* What a closing step may do to the steps, and that it keeps their type. *)
StepsClosed ==
  /\ feSteps' \in [Items -> [Body -> LoopSteps]]
  /\ \A i \in Items, n \in Body :
       /\ feSteps'[i][n].attempt = feSteps[i][n].attempt
       /\ feSteps'[i][n].retry => feSteps[i][n].retry
       /\ \/ feSteps'[i][n].status = feSteps[i][n].status
          \/ feSteps[i][n].status = "started" /\ feSteps'[i][n].status = "failed"

LEMMA FailedIterationCloses ==
  ASSUME LoopTypes, NEW i \in Items, FailIteration(i)
  PROVE  /\ StepsClosed
         /\ feIters' \in [Items -> {"pending", "started", "succeeded", "failed", "skipped"}]
<1>1. feSteps \in [Items -> [Body -> LoopSteps]]
  BY DEF LoopTypes, LoopTypeOK, LoopSteps
<1>2. /\ ClearRetries(feSteps[i]) \in [Body -> LoopSteps]
      /\ \A n \in Body : /\ ClearRetries(feSteps[i])[n].attempt = feSteps[i][n].attempt
                         /\ ClearRetries(feSteps[i])[n].status = feSteps[i][n].status
                         /\ ~ClearRetries(feSteps[i])[n].retry
  <2>1. ASSUME NEW n \in Body
        PROVE  /\ [feSteps[i][n] EXCEPT !.retry = FALSE] \in LoopSteps
               /\ [feSteps[i][n] EXCEPT !.retry = FALSE].attempt = feSteps[i][n].attempt
               /\ [feSteps[i][n] EXCEPT !.retry = FALSE].status = feSteps[i][n].status
               /\ ~[feSteps[i][n] EXCEPT !.retry = FALSE].retry
    <3>1. PICK s \in LoopSteps : s = feSteps[i][n]
      BY <1>1
    <3> QED BY <3>1 DEF LoopSteps
  <2> QED BY <2>1 DEF ClearRetries
<1>3. feSteps' = [feSteps EXCEPT ![i] = ClearRetries(feSteps[i])]
  BY DEF FailIteration
<1>4. StepsClosed
  BY <1>1, <1>2, <1>3 DEF StepsClosed
<1> QED BY <1>4 DEF FailIteration, LoopTypes, LoopTypeOK

LEMMA TransactionCloses ==
  ASSUME LoopTypes, SettleInTransaction
  PROVE  /\ StepsClosed /\ feLoop' = "failed"
         /\ feIters' \in [Items -> {"pending", "started", "succeeded", "failed", "skipped"}]
         /\ feOps' \in [Items -> {"none", "live", "orphan"}]
<1>1. feSteps \in [Items -> [Body -> LoopSteps]]
  BY DEF LoopTypes, LoopTypeOK, LoopSteps
<1>2. ASSUME NEW i \in Items, NEW n \in Body
      PROVE  /\ feSteps'[i][n] \in LoopSteps
             /\ feSteps'[i][n].attempt = feSteps[i][n].attempt
             /\ ~feSteps'[i][n].retry
             /\ \/ feSteps'[i][n].status = feSteps[i][n].status
                \/ feSteps[i][n].status = "started" /\ feSteps'[i][n].status = "failed"
  <2>1. feSteps[i][n] \in LoopSteps
    BY <1>1
  <2>2. feSteps'[i][n] = [feSteps[i][n] EXCEPT
                             !.retry = FALSE, !.status = IF @ = "started" THEN "failed" ELSE @]
    BY DEF SettleInTransaction
  <2> QED BY <2>1, <2>2 DEF LoopSteps
<1>3. feSteps' = [i \in Items |-> [n \in Body |-> feSteps'[i][n]]]
  BY DEF SettleInTransaction
<1>4. StepsClosed
  BY <1>2, <1>3 DEF StepsClosed
<1>5. \A i \in Items : feIters'[i] \in {feIters[i], "failed", "skipped"}
  BY DEF SettleInTransaction
<1>6. feIters' \in [Items -> {"pending", "started", "succeeded", "failed", "skipped"}]
  BY <1>5 DEF SettleInTransaction, LoopTypes, LoopTypeOK
<1> QED BY <1>4, <1>6 DEF SettleInTransaction

LEMMA UnchangedStepsClosed ==
  ASSUME LoopTypes, feSteps' = feSteps
  PROVE  StepsClosed
  BY DEF StepsClosed, LoopTypes, LoopTypeOK, LoopSteps

(* The steps of the iterations' futures that close work. *)
LEMMA IterationsClose ==
  ASSUME LoopInv, NEW i \in Items,
         IterationCompletes(i) \/ IterationReturns(i) \/ OperationStarts(i) \/ OperationEnds(i)
  PROVE  LoopTypes' /\ LoopClosingStep
<1> USE LoopAssumption DEF LoopInv
<1>1. CASE IterationCompletes(i)
  <2>1. /\ feIters' \in [Items -> {"pending", "started", "succeeded", "failed", "skipped"}]
        /\ feLast' \in 0..LoopTotal
    <3>1. \/ feIters' = [feIters EXCEPT ![i] = "succeeded"] /\ feLast' = 0
          \/ feIters' = feIters /\ feLast' = feLast
      BY <1>1 DEF IterationCompletes
    <3>2. feIters' \in [Items -> {"pending", "started", "succeeded", "failed", "skipped"}]
      BY <3>1 DEF LoopTypes, LoopTypeOK
    <3>3. feLast' \in 0..LoopTotal
      BY <3>1 DEF LoopTypes, LoopTypeOK
    <3> QED BY <3>2, <3>3
  <2>3. /\ feTasks' \in [Items -> {"none", "step", "script", "sleep", "ok", "error", "lost"}]
        /\ \A j \in Items : feTasks'[j] = "script" => feTasks[j] = "script"
    <3>1. PICK t \in {"ok", "error"} : feTasks' = [feTasks EXCEPT ![i] = t]
      BY <1>1 DEF IterationCompletes
    <3> QED BY <3>1 DEF LoopTypes, LoopTypeOK
  <2>2. UNCHANGED <<feSchema, feRun, feLoop, feCrashes, feSteps, feOps, feDriver, feEffects>>
    BY <1>1 DEF IterationCompletes, IterationVars
  <2> QED BY <2>1, <2>2, <2>3 DEF LoopTypes, LoopTypeOK, LoopClosingStep
<1>2. CASE IterationReturns(i)
  <2>1. /\ StepsClosed
        /\ feIters' \in [Items -> {"pending", "started", "succeeded", "failed", "skipped"}]
        /\ feLast' \in 0..LoopTotal
    BY <1>2, FailedIterationCloses, UnchangedStepsClosed
       DEF IterationReturns, LoopTypes, LoopTypeOK
  <2>2. /\ feTasks' \in [Items -> {"none", "step", "script", "sleep", "ok", "error", "lost"}]
        /\ \A j \in Items : feTasks'[j] = "script" => feTasks[j] = "script"
    BY <1>2, DroppingKeepsTasks DEF IterationReturns, LoopTypes, LoopTypeOK
  <2>3. /\ feDriver' \in LoopDrivers(feDriver'.queue)
        /\ feDriver'.at \in {"returned", "loop"}
    <3>1. CASE LoopDriverFails
      BY <3>1, DroppingKeepsTasks
    <3>2. CASE ~LoopDriverFails
      <4>1. PICK b \in BOOLEAN : feDriver' = [feDriver EXCEPT !.stop = b]
        BY <1>2, <3>2 DEF IterationReturns, LoopTypes, LoopDrivers
      <4> QED BY <1>2, <4>1 DEF IterationReturns, Polls, LoopTypes, LoopDrivers
    <3> QED BY <3>1, <3>2
  <2>4. UNCHANGED <<feSchema, feRun, feLoop, feCrashes, feOps, feEffects>>
    BY <1>2 DEF IterationReturns, IterationVars
  <2>5. LoopTypes'
    BY <2>1, <2>2, <2>3, <2>4 DEF LoopTypes, LoopTypeOK, StepsClosed, LoopSteps
  <2> QED BY <2>1, <2>2, <2>3, <2>4, <2>5 DEF LoopClosingStep, StepsClosed
<1>3. CASE OperationStarts(i) \/ OperationEnds(i)
  <2>1. /\ feOps' \in [Items -> {"none", "live", "orphan"}] /\ feLast' = 0
        /\ UNCHANGED <<feSchema, feRun, feLoop, feIters, feSteps, feDriver, feTasks, feEffects,
                       feCrashes>>
    BY <1>3 DEF OperationStarts, OperationEnds, LoopTypes, LoopTypeOK
  <2> QED BY <2>1 DEF LoopTypes, LoopTypeOK, LoopClosingStep
<1> QED BY <1>1, <1>2, <1>3

LEMMA SettledIterationCloses ==
  ASSUME LoopInv, NEW i \in Items, SettleIteration(i)
  PROVE  /\ StepsClosed
         /\ feIters' \in [Items -> {"pending", "started", "succeeded", "failed", "skipped"}]
         /\ feOps' \in [Items -> {"none", "live", "orphan"}]
<1> USE DEF LoopInv
<1>1. CASE feOps[i] # "none"
  BY <1>1, UnchangedStepsClosed DEF SettleIteration, LoopTypes, LoopTypeOK
<1>2. CASE feOps[i] = "none" /\ HasStarted(i)
  <2>1. PICK n \in Body : feSteps[i][n].status = "started"
    BY <1>2 DEF HasStarted
  <2>2. IsCurrent(i, n)
    BY <2>1 DEF IsCurrent, BodyInOrder
  <2>3. n = CurrentStep(i)
    BY <2>2, CurrentStepIsCurrent
  <2>4. feSteps' = [feSteps EXCEPT ![i][n].status = "failed"]
    BY <1>2, <2>3 DEF SettleIteration
  <2>5. feSteps \in [Items -> [Body -> LoopSteps]]
    BY DEF LoopTypes, LoopTypeOK, LoopSteps
  <2>6. StepsClosed
    BY <2>1, <2>4, <2>5 DEF StepsClosed, LoopSteps
  <2> QED BY <1>2, <2>6 DEF SettleIteration, LoopTypes, LoopTypeOK
<1>3. CASE ~(feOps[i] # "none") /\ ~(feOps[i] = "none" /\ HasStarted(i))
  <2>1. FailIteration(i) /\ feOps' = feOps
    BY <1>3 DEF SettleIteration
  <2> QED BY <2>1, FailedIterationCloses DEF LoopTypes, LoopTypeOK
<1> QED BY <1>1, <1>2, <1>3

LEMMA SettlementCloses ==
  ASSUME LoopInv, SettleOpenForEach
  PROVE  LoopTypes' /\ LoopClosingStep
<1> USE LoopAssumption DEF LoopInv
<1> DEFINE started == {i \in Items : feIters[i] = "started"}
           pending == {i \in Items : feIters[i] = "pending"}
           settled == [feDriver EXCEPT !.at = "settled"]
<1>1. /\ feDriver.at = "settling" /\ feDriver.goal \in {"failed", "cancelled"}
      /\ UNCHANGED <<feSchema, feRun, feEffects, feCrashes>>
  BY DEF SettleOpenForEach, LoopTypes, LoopDrivers
<1>2. started \in SUBSET Nat /\ pending \in SUBSET Nat /\ started \subseteq Items
  BY DEF Items
<1>3. settled \in LoopDrivers(settled.queue) /\ settled.at = "settled"
  BY DEF LoopTypes, LoopDrivers
<1>4. CASE feLoop = "open" /\ started # {}
  <2>1. SettleIteration(Min(started)) /\ feLast' = 0 /\ UNCHANGED <<feLoop, feDriver, feTasks>>
    BY <1>4 DEF SettleOpenForEach
  <2>2. Min(started) \in Items
    BY <1>2, <1>4, LeastMember
  <2>3. /\ StepsClosed
        /\ feIters' \in [Items -> {"pending", "started", "succeeded", "failed", "skipped"}]
        /\ feOps' \in [Items -> {"none", "live", "orphan"}]
    BY <2>1, <2>2, SettledIterationCloses
  <2>4. LoopTypes'
    BY <1>1, <2>1, <2>3 DEF LoopTypes, LoopTypeOK, StepsClosed, LoopSteps
  <2> QED BY <1>1, <2>1, <2>3, <2>4 DEF LoopClosingStep, StepsClosed
<1>5. CASE ~(feLoop = "open" /\ started # {})
  <2>1. feSteps' = feSteps /\ feOps' = feOps
    BY <1>5 DEF SettleOpenForEach
  <2>2. feIters' \in [Items -> {"pending", "started", "succeeded", "failed", "skipped"}]
    <3>1. feIters' = feIters \/ feIters' = [feIters EXCEPT ![Min(pending)] = "skipped"]
      BY <1>5 DEF SettleOpenForEach
    <3>2. PICK m : m = Min(pending)
      OBVIOUS
    <3> QED BY <3>1, <3>2 DEF LoopTypes, LoopTypeOK
  <2>3. feLast' \in 0..LoopTotal /\ feLoop' \in {feLoop, feDriver.goal}
    BY <1>5 DEF SettleOpenForEach, LoopTypes, LoopTypeOK
  <2>4. \/ feDriver' \in {settled, feDriver, NoLoopDriver} /\ feTasks' = feTasks
        \/ LoopDriverFails
    BY <1>5 DEF SettleOpenForEach
  <2>5. /\ feDriver' \in LoopDrivers(feDriver'.queue)
        /\ feDriver'.at \in {"settled", "settling", "none", "returned"}
        /\ feDriver'.at = "settling" => feDriver'.goal # "none"
    BY <1>1, <1>3, <2>4, NoLoopDriverFits, DroppingKeepsTasks DEF LoopTypes
  <2>6. /\ feTasks' \in [Items -> {"none", "step", "script", "sleep", "ok", "error", "lost"}]
        /\ \A j \in Items : feTasks'[j] = "script" => feTasks[j] = "script"
    BY <2>4, DroppingKeepsTasks DEF LoopTypes, LoopTypeOK
  <2> HIDE DEF started, pending, settled
  <2>7. LoopTypes'
    BY <1>1, <2>1, <2>2, <2>3, <2>5, <2>6 DEF LoopTypes, LoopTypeOK
  <2> QED BY <1>1, <2>1, <2>5, <2>6, <2>7 DEF LoopClosingStep
<1> QED BY <1>4, <1>5

(* The two transactions that may settle a whole loop. *)
LEMMA TransactionsClose ==
  ASSUME LoopInv, LoopRunTimeout \/ RecoverLoopRun
  PROVE  LoopTypes' /\ LoopClosingStep
<1> USE LoopAssumption DEF LoopInv
<1>1. /\ StepsClosed
      /\ feIters' \in [Items -> {"pending", "started", "succeeded", "failed", "skipped"}]
      /\ feOps' \in [Items -> {"none", "live", "orphan"}]
      /\ feLoop' \in {feLoop, "failed"} /\ feRun' \in {feRun, "failed"}
      /\ feLast' \in 0..LoopTotal
  <2>1. CASE SettleInTransaction
    <3>1. feRun' \in {feRun, "failed"} /\ feLast' \in 0..LoopTotal
      BY DEF LoopRunTimeout, RecoverLoopRun, FailInterruptedLoop, LoopTypes, LoopTypeOK
    <3> QED BY <2>1, <3>1, TransactionCloses
  <2>2. CASE ~SettleInTransaction
    <3>1. UNCHANGED <<feSteps, feIters, feOps, feLoop>> /\ feRun' \in {feRun, "failed"}
          /\ feLast' \in 0..LoopTotal
      BY <2>2 DEF LoopRunTimeout, RecoverLoopRun, FailInterruptedLoop, LoopTypes, LoopTypeOK
    <3> QED BY <3>1, UnchangedStepsClosed DEF LoopTypes, LoopTypeOK
  <2> QED BY <2>1, <2>2
<1>2. UNCHANGED <<feSchema, feEffects, feCrashes>>
  BY DEF LoopRunTimeout, RecoverLoopRun
<1>3. /\ feDriver' \in LoopDrivers(feDriver'.queue)
      /\ feDriver'.at \in {"loop", "none", "returned"}
      /\ feTasks' \in [Items -> {"none", "step", "script", "sleep", "ok", "error", "lost"}]
      /\ \A j \in Items : feTasks'[j] = "script" => feTasks[j] = "script"
  <2>1. CASE LoopDriverFails
    BY <2>1, DroppingKeepsTasks
  <2>2. CASE ~LoopDriverFails /\ LoopRunTimeout
    <3>1. feDriver' = [feDriver EXCEPT !.stop = TRUE] /\ feTasks' = feTasks /\ feDriver.at = "loop"
      BY <2>2 DEF LoopRunTimeout, Polls
    <3> QED BY <3>1 DEF LoopTypes, LoopTypeOK, LoopDrivers
  <2>3. CASE RecoverLoopRun
    BY <2>3, NoLoopDriverFits DEF RecoverLoopRun, LoopTypes, LoopTypeOK
  <2> QED BY <2>1, <2>2, <2>3
<1>4. LoopTypes'
  BY <1>1, <1>2, <1>3 DEF LoopTypes, LoopTypeOK, StepsClosed, LoopSteps
<1> QED BY <1>1, <1>2, <1>3, <1>4 DEF LoopClosingStep, StepsClosed

(* The attempt of a step begins. *)
LEMMA StartKeepsLoop ==
  ASSUME LoopInv, NEW i \in Items, StartIterationAttempt(i)
  PROVE  LoopInv'
<1> USE LoopAssumption DEF LoopInv
<1>1. PICK n : n = CurrentStep(i)
  OBVIOUS
<1>2. /\ Polls /\ feTasks[i] \in {"step", "sleep"} /\ n \in Body
      /\ UNCHANGED <<feSchema, feRun, feLoop, feCrashes, feIters, feOps, feDriver>>
  BY <1>1 DEF StartIterationAttempt, IterationVars
<1>3. CASE /\ feTasks' = [feTasks EXCEPT ![i] = "error"]
           /\ UNCHANGED <<feSteps, feEffects, feLast>>
  <2>1. LoopTypes' /\ LoopClosingStep
    BY <1>2, <1>3 DEF LoopTypes, LoopTypeOK, LoopClosingStep
  <2> QED BY <2>1, ClosingKeepsSteps
<1>4. CASE ~(/\ feTasks' = [feTasks EXCEPT ![i] = "error"]
             /\ UNCHANGED <<feSteps, feEffects, feLast>>)
  <2>1. PICK a : a = feSteps[i][n].attempt + 1
    OBVIOUS
  <2>2. /\ MayStart(i, n)
        /\ feSteps' = [feSteps EXCEPT ![i][n] =
                         [attempt |-> a, status |-> "started", retry |-> FALSE]]
        /\ feEffects' = [feEffects EXCEPT ![i][n] = @ \cup {a}]
        /\ feTasks' = [feTasks EXCEPT ![i] = "script"]
        /\ feLast' = 0
    BY <1>1, <1>4, <2>1 DEF StartIterationAttempt
  <2>3. /\ feSteps \in [Items -> [Body -> LoopSteps]] /\ feSteps[i][n] \in LoopSteps
        /\ feEffects \in [Items -> [Body -> SUBSET (0..LoopAttempts)]]
    BY <1>2 DEF LoopTypes, LoopTypeOK, LoopSteps
  <2>4. /\ feEffects[i][n] = {} /\ a \in 1..LoopAttempts
    <3>1. StepSound(feSteps[i][n], feEffects[i][n])
      BY <1>2 DEF LoopStepsSound
    <3>2. feSteps[i][n].status = "none" \/ (feSteps[i][n].retry /\ feSteps[i][n].attempt < LoopAttempts)
      BY <2>2 DEF MayStart
    <3> QED BY <2>1, <2>3, <3>1, <3>2 DEF StepSound, LoopSteps
  <2>5. PICK s : s = [attempt |-> a, status |-> "started", retry |-> FALSE]
    OBVIOUS
  <2>6. /\ s \in LoopSteps /\ s.attempt = a /\ s.status = "started" /\ ~s.retry
    BY <2>4, <2>5 DEF LoopSteps
  <2>7. /\ feSteps' = [feSteps EXCEPT ![i][n] = s]
        /\ feEffects' = [feEffects EXCEPT ![i][n] = {a}]
    BY <2>2, <2>4, <2>5
  <2>8. /\ feSteps' \in [Items -> [Body -> LoopSteps]]
        /\ feSteps'[i][n] = s
        /\ \A j \in Items, m \in Body : j # i \/ m # n => feSteps'[j][m] = feSteps[j][m]
    BY <1>2, <2>3, <2>6, <2>7
  <2>9. /\ feEffects' \in [Items -> [Body -> SUBSET (0..LoopAttempts)]]
        /\ feEffects'[i][n] = {a}
        /\ \A j \in Items, m \in Body : j # i \/ m # n => feEffects'[j][m] = feEffects[j][m]
    BY <1>2, <2>3, <2>4, <2>7
  <2>10. LoopTypes'
    <3>1. feTasks' \in [Items -> {"none", "step", "script", "sleep", "ok", "error", "lost"}]
      BY <2>2 DEF LoopTypes, LoopTypeOK
    <3> QED BY <1>2, <2>2, <2>8, <2>9, <3>1 DEF LoopTypes, LoopTypeOK, LoopSteps
  <2>11. LoopStepsSound'
    <3> SUFFICES ASSUME NEW j \in Items, NEW m \in Body
                 PROVE  StepSound(feSteps'[j][m], feEffects'[j][m])
      BY DEF LoopStepsSound
    <3>1. CASE j # i \/ m # n
      BY <2>8, <2>9, <3>1 DEF LoopStepsSound
    <3>2. CASE j = i /\ m = n
      BY <2>6, <2>8, <2>9, <3>2 DEF StepSound
    <3> QED BY <3>1, <3>2
  <2>12. IsCurrent(i, n)
    BY <1>1, <1>2, CurrentStepIsCurrent
  <2>13. BodyInOrder'
    <3> SUFFICES ASSUME NEW j \in Items, NEW k \in Body, NEW m \in Body,
                        feSteps'[j][k].status # "none", m < k
                 PROVE  feSteps'[j][m].status = "succeeded"
      BY DEF BodyInOrder
    <3>1. CASE j = i /\ k = n
      BY <2>8, <2>12, <3>1 DEF IsCurrent, Body
    <3>2. CASE j # i \/ k # n
      <4>1. feSteps[j][m].status = "succeeded"
        BY <2>8, <3>2 DEF BodyInOrder
      <4> QED BY <2>8, <2>12, <4>1 DEF IsCurrent
    <3> QED BY <3>1, <3>2
  <2>14. \A j \in Items, m \in Body : IsCurrent(j, m)' => IsCurrent(j, m)
    BY <2>6, <2>8, <2>12 DEF IsCurrent
  <2>15. ExecutingNotScheduled'
    <3> SUFFICES ASSUME NEW j \in Items, NEW m \in Body, feTasks'[j] = "script", IsCurrent(j, m)'
                 PROVE  ~feSteps'[j][m].retry
      BY DEF ExecutingNotScheduled
    <3>1. CASE j = i
      <4>1. m = n
        BY <2>12, <2>14, <3>1, <1>2, CurrentStepIsCurrent
      <4> QED BY <2>6, <2>8, <3>1, <4>1
    <3>2. CASE j # i
      <4>1. feTasks[j] = "script"
        BY <2>2, <3>2 DEF LoopTypes, LoopTypeOK
      <4> QED BY <2>8, <2>14, <3>2, <4>1 DEF ExecutingNotScheduled
    <3> QED BY <3>1, <3>2
  <2>16. SchedulingThrew'
    BY <1>2 DEF SchedulingThrew, Polls
  <2> QED BY <2>10, <2>11, <2>13, <2>15, <2>16
<1> QED BY <1>3, <1>4

(* The host answers. *)
LEMMA ScriptEndsKeepsLoop ==
  ASSUME LoopInv, NEW i \in Items, ScriptEnds(i)
  PROVE  LoopInv'
<1> USE LoopAssumption DEF LoopInv
<1>1. PICK n : n = CurrentStep(i)
  OBVIOUS
<1>2. /\ Polls /\ feDriver.at = "loop" /\ feTasks[i] = "script"
      /\ UNCHANGED <<feSchema, feRun, feLoop, feCrashes, feIters, feOps>>
  BY DEF ScriptEnds, IterationVars, Polls
<1>3. CASE ~(ScopeOpen(i) /\ feOps[i] = "none")
  <2>1. /\ feSteps' = feSteps /\ feEffects' = feEffects /\ feLast' = feLast
        /\ feTasks' = [feTasks EXCEPT ![i] = "error"] /\ feDriver' = feDriver
    BY <1>3 DEF ScriptEnds
  <2>2. LoopTypes' /\ LoopClosingStep
    BY <1>2, <2>1 DEF LoopTypes, LoopTypeOK, LoopClosingStep
  <2> QED BY <2>2, ClosingKeepsSteps
<1>4. CASE ScopeOpen(i) /\ feOps[i] = "none"
  <2>1. PICK outcome \in {"succeeded", "threw", "failed"} :
          /\ feSteps' = [feSteps EXCEPT ![i][n].status = outcome]
          /\ feEffects' = IF outcome = "threw"
                            THEN [feEffects EXCEPT ![i][n] = @ \ {feSteps[i][n].attempt}]
                            ELSE feEffects
          /\ feLast' = IF outcome = "succeeded" THEN 0 ELSE i
          /\ \/ outcome = "succeeded" /\ feTasks' = [feTasks EXCEPT ![i] = "step"]
                  /\ feDriver' = feDriver
             \/ outcome = "threw" /\ feTasks' = feTasks
                  /\ feDriver' = [feDriver EXCEPT !.at = "retry", !.item = i]
             \/ feTasks' = [feTasks EXCEPT ![i] = "error"] /\ feDriver' = feDriver
    BY <1>1, <1>4 DEF ScriptEnds
  <2>2. /\ feSteps \in [Items -> [Body -> LoopSteps]]
        /\ feEffects \in [Items -> [Body -> SUBSET (0..LoopAttempts)]]
    BY DEF LoopTypes, LoopTypeOK, LoopSteps
  <2>3. n \in Body => IsCurrent(i, n) /\ ~feSteps[i][n].retry
    BY <1>1, <1>2, CurrentStepIsCurrent DEF ExecutingNotScheduled
  <2>4. /\ feSteps' \in [Items -> [Body -> LoopSteps]]
        /\ \A j \in Items, m \in Body : j # i \/ m # n => feSteps'[j][m] = feSteps[j][m]
        /\ n \in Body => /\ feSteps'[i][n].attempt = feSteps[i][n].attempt
                         /\ feSteps'[i][n].retry = feSteps[i][n].retry
                         /\ feSteps'[i][n].status = outcome
    <3>1. CASE n \in Body
      <4>1. PICK s : s = [feSteps[i][n] EXCEPT !.status = outcome]
        OBVIOUS
      <4>2. feSteps[i][n] \in LoopSteps
        BY <2>2, <3>1
      <4>3. /\ s \in LoopSteps /\ s.attempt = feSteps[i][n].attempt
            /\ s.retry = feSteps[i][n].retry /\ s.status = outcome
        BY <4>1, <4>2 DEF LoopSteps
      <4>4. feSteps' = [feSteps EXCEPT ![i][n] = s]
        BY <2>1, <4>1
      <4> QED BY <2>2, <3>1, <4>3, <4>4
    <3>2. CASE n \notin Body
      BY <2>1, <2>2, <3>2
    <3> QED BY <3>1, <3>2
  <2>5. /\ feEffects' \in [Items -> [Body -> SUBSET (0..LoopAttempts)]]
        /\ \A j \in Items, m \in Body : j # i \/ m # n => feEffects'[j][m] = feEffects[j][m]
        /\ n \in Body => feEffects'[i][n] = IF outcome = "threw"
                           THEN feEffects[i][n] \ {feSteps[i][n].attempt} ELSE feEffects[i][n]
    <3>1. PICK a : a = feSteps[i][n].attempt
      OBVIOUS
    <3>2. CASE outcome = "threw"
      <4>1. feEffects' = [feEffects EXCEPT ![i][n] = @ \ {a}]
        BY <2>1, <3>1, <3>2
      <4> QED BY <2>2, <3>1, <3>2, <4>1
    <3>3. CASE outcome # "threw"
      BY <2>1, <2>2, <3>3
    <3> QED BY <3>2, <3>3
  <2>6. /\ feTasks' \in [Items -> {"none", "step", "script", "sleep", "ok", "error", "lost"}]
        /\ \A j \in Items : j # i => feTasks'[j] = feTasks[j]
        /\ feTasks'[i] = "script" => outcome = "threw"
    BY <2>1 DEF LoopTypes, LoopTypeOK
  <2>7. /\ feDriver' \in LoopDrivers(feDriver'.queue)
        /\ \/ feDriver'.at = "loop"
           \/ feDriver'.at = "retry" /\ feDriver'.item = i /\ outcome = "threw"
    <3>1. i \in 0..LoopTotal
      BY DEF Items
    <3> QED BY <1>2, <2>1, <3>1 DEF LoopTypes, LoopDrivers
  <2>8. LoopTypes'
    <3>1. feLast' \in 0..LoopTotal
      BY <2>1 DEF Items
    <3> QED BY <1>2, <2>4, <2>5, <2>6, <2>7, <3>1 DEF LoopTypes, LoopTypeOK, LoopSteps
  <2>9. LoopStepsSound'
    <3> SUFFICES ASSUME NEW j \in Items, NEW m \in Body
                 PROVE  StepSound(feSteps'[j][m], feEffects'[j][m])
      BY DEF LoopStepsSound
    <3>1. StepSound(feSteps[j][m], feEffects[j][m])
      BY DEF LoopStepsSound
    <3>2. CASE j # i \/ m # n
      BY <2>4, <2>5, <3>1, <3>2
    <3>3. CASE j = i /\ m = n
      <4>1. /\ feSteps'[i][n].attempt = feSteps[i][n].attempt
            /\ ~feSteps'[i][n].retry /\ feSteps'[i][n].status = outcome
            /\ feEffects'[i][n] = IF outcome = "threw"
                 THEN feEffects[i][n] \ {feSteps[i][n].attempt} ELSE feEffects[i][n]
        BY <2>3, <2>4, <2>5, <3>3
      <4> QED BY <3>1, <3>3, <4>1 DEF StepSound
    <3> QED BY <3>2, <3>3
  <2>10. BodyInOrder'
    <3> SUFFICES ASSUME NEW j \in Items, NEW k \in Body, NEW m \in Body,
                        feSteps'[j][k].status # "none", m < k
                 PROVE  feSteps'[j][m].status = "succeeded"
      BY DEF BodyInOrder
    <3>1. CASE j # i \/ n \notin Body
      BY <2>4, <3>1 DEF BodyInOrder
    <3>2. CASE j = i /\ n \in Body /\ k = n
      BY <2>3, <2>4, <3>2 DEF IsCurrent, Body
    <3>3. CASE j = i /\ n \in Body /\ k # n
      <4>1. feSteps[i][k].status # "none"
        BY <2>4, <3>3
      <4>2. feSteps[i][m].status = "succeeded"
        BY <3>3, <4>1 DEF BodyInOrder
      <4>3. m # n
        BY <2>3, <3>3, <4>2 DEF IsCurrent
      <4> QED BY <2>4, <3>3, <4>2, <4>3
    <3> QED BY <3>1, <3>2, <3>3
  <2>11. \A j \in Items, m \in Body :
           IsCurrent(j, m)' => (j = i => outcome = "succeeded" \/ (m = n)) /\ (j # i => IsCurrent(j, m))
    <3> SUFFICES ASSUME NEW j \in Items, NEW m \in Body, IsCurrent(j, m)'
                 PROVE  (j = i => outcome = "succeeded" \/ (m = n)) /\ (j # i => IsCurrent(j, m))
      OBVIOUS
    <3>1. CASE j # i
      BY <2>4, <3>1 DEF IsCurrent
    <3>2. CASE j = i /\ n \notin Body
      <4>1. IsCurrent(i, m)
        BY <2>4, <3>2 DEF IsCurrent
      <4> QED BY <1>1, <3>2, <4>1, CurrentStepIsCurrent
    <3>3. CASE j = i /\ n \in Body /\ outcome # "succeeded"
      <4>1. IsCurrent(i, m)
        BY <2>3, <2>4, <3>3 DEF IsCurrent
      <4> QED BY <1>1, <3>3, <4>1, CurrentStepIsCurrent
    <3> QED BY <3>1, <3>2, <3>3
  <2>12. ExecutingNotScheduled'
    <3> SUFFICES ASSUME NEW j \in Items, NEW m \in Body, feTasks'[j] = "script", IsCurrent(j, m)'
                 PROVE  ~feSteps'[j][m].retry
      BY DEF ExecutingNotScheduled
    <3>1. CASE j = i
      <4>1. m = n
        BY <2>6, <2>11, <3>1
      <4> QED BY <2>3, <2>4, <3>1, <4>1
    <3>2. CASE j # i
      BY <2>4, <2>6, <2>11, <3>2 DEF ExecutingNotScheduled
    <3> QED BY <3>1, <3>2
  <2>13. SchedulingThrew'
    <3> SUFFICES ASSUME feDriver'.at = "retry", NEW m \in Body, IsCurrent(feDriver.item, m)'
                 PROVE  feSteps'[feDriver'.item][m].status = "threw"
      BY DEF SchedulingThrew
    <3>1. feDriver'.item = i /\ outcome = "threw"
      BY <2>7
    <3>2. IsCurrent(i, m)'
      BY <3>1 DEF IsCurrent
    <3>3. m = n
      BY <2>11, <3>1, <3>2
    <3> QED BY <2>4, <3>1, <3>3
  <2> QED BY <2>8, <2>9, <2>10, <2>12, <2>13
<1> QED BY <1>3, <1>4

(* The second append after a failed attempt. *)
LEMMA ScheduleKeepsLoop ==
  ASSUME LoopInv, ScheduleIterationRetry
  PROVE  LoopInv'
<1> USE LoopAssumption DEF LoopInv
<1>1. PICK i : i = feDriver.item
  OBVIOUS
<1>2. PICK n : n = CurrentStep(i)
  OBVIOUS
<1>3. /\ i \in Items /\ feDriver.at = "retry"
      /\ feDriver' = [feDriver EXCEPT !.at = "loop", !.item = 0]
      /\ UNCHANGED <<feSchema, feRun, feLoop, feCrashes, feIters, feOps, feEffects>>
  BY <1>1 DEF ScheduleIterationRetry, IterationVars, LoopTypes
<1>4. feDriver' \in LoopDrivers(feDriver'.queue) /\ feDriver'.at = "loop"
  <2>1. 0 \in 0..LoopTotal
    OBVIOUS
  <2> QED BY <1>3, <2>1 DEF LoopTypes, LoopDrivers
<1>5. CASE feSteps' = feSteps
  <2>1. /\ feTasks' \in [Items -> {"none", "step", "script", "sleep", "ok", "error", "lost"}]
        /\ \A j \in Items : feTasks'[j] = "script" => feTasks[j] = "script"
    <3>1. PICK t \in {"sleep", "error"} : feTasks' = [feTasks EXCEPT ![i] = t]
      BY <1>1 DEF ScheduleIterationRetry
    <3> QED BY <3>1 DEF LoopTypes, LoopTypeOK
  <2>2. feLast' \in 0..LoopTotal
    BY DEF ScheduleIterationRetry, LoopTypes, LoopTypeOK
  <2>3. LoopTypes'
    BY <1>3, <1>4, <1>5, <2>1, <2>2 DEF LoopTypes, LoopTypeOK
  <2>4. LoopClosingStep
    BY <1>3, <1>4, <1>5, <2>1 DEF LoopClosingStep
  <2> QED BY <2>3, <2>4, ClosingKeepsSteps
<1>6. CASE feSteps' # feSteps
  <2>1. /\ feSteps' = [feSteps EXCEPT ![i][n].retry = TRUE]
        /\ feTasks' = [feTasks EXCEPT ![i] = "sleep"]
        /\ feLast' = 0
    BY <1>1, <1>2, <1>6 DEF ScheduleIterationRetry
  <2>2. feSteps \in [Items -> [Body -> LoopSteps]]
    BY DEF LoopTypes, LoopTypeOK, LoopSteps
  <2>3. n \in Body
    BY <1>3, <1>6, <2>1, <2>2
  <2>4. IsCurrent(i, n) /\ feSteps[i][n].status = "threw"
    BY <1>1, <1>2, <1>3, <2>3, CurrentStepIsCurrent DEF SchedulingThrew
  <2>5. /\ feSteps' \in [Items -> [Body -> LoopSteps]]
        /\ \A j \in Items, m \in Body :
             /\ feSteps'[j][m].attempt = feSteps[j][m].attempt
             /\ feSteps'[j][m].status = feSteps[j][m].status
             /\ j # i \/ m # n => feSteps'[j][m] = feSteps[j][m]
    <3>1. PICK s : s = [feSteps[i][n] EXCEPT !.retry = TRUE]
      OBVIOUS
    <3>2. feSteps[i][n] \in LoopSteps
      BY <1>3, <2>2, <2>3
    <3>3. /\ s \in LoopSteps /\ s.attempt = feSteps[i][n].attempt
          /\ s.status = feSteps[i][n].status
      BY <3>1, <3>2 DEF LoopSteps
    <3>4. feSteps' = [feSteps EXCEPT ![i][n] = s]
      BY <2>1, <3>1
    <3> QED BY <1>3, <2>2, <2>3, <3>3, <3>4
  <2>6. /\ feTasks' \in [Items -> {"none", "step", "script", "sleep", "ok", "error", "lost"}]
        /\ feTasks'[i] = "sleep"
        /\ \A j \in Items : j # i => feTasks'[j] = feTasks[j]
    BY <1>3, <2>1 DEF LoopTypes, LoopTypeOK
  <2>7. LoopTypes'
    BY <1>3, <1>4, <2>1, <2>5, <2>6 DEF LoopTypes, LoopTypeOK, LoopSteps
  <2>8. LoopStepsSound'
    <3> SUFFICES ASSUME NEW j \in Items, NEW m \in Body
                 PROVE  StepSound(feSteps'[j][m], feEffects'[j][m])
      BY DEF LoopStepsSound
    <3>1. StepSound(feSteps[j][m], feEffects[j][m]) /\ feEffects'[j][m] = feEffects[j][m]
      BY <1>3 DEF LoopStepsSound
    <3>2. CASE j # i \/ m # n
      BY <2>5, <3>1, <3>2
    <3>3. CASE j = i /\ m = n
      BY <2>4, <2>5, <3>1, <3>3 DEF StepSound
    <3> QED BY <3>2, <3>3
  <2>9. BodyInOrder'
    BY <2>5 DEF BodyInOrder
  <2>10. \A j \in Items, m \in Body : IsCurrent(j, m)' => IsCurrent(j, m)
    BY <2>5 DEF IsCurrent
  <2>11. ExecutingNotScheduled'
    BY <2>5, <2>6, <2>10 DEF ExecutingNotScheduled
  <2>12. SchedulingThrew'
    BY <1>4 DEF SchedulingThrew
  <2> QED BY <2>7, <2>8, <2>9, <2>11, <2>12
<1> QED BY <1>5, <1>6

LEMMA LoopInitially == LoopInit => LoopInv
<1> SUFFICES ASSUME LoopInit PROVE LoopInv
  OBVIOUS
<1>1. /\ \A i \in Items, n \in Body :
           /\ feSteps[i][n] = NoStep /\ feEffects[i][n] = {}
      /\ NoStep \in LoopSteps
  BY LoopAssumption DEF LoopInit, NoStep, LoopSteps
<1>2. feDriver \in LoopDrivers(feDriver.queue) /\ feDriver.at = "node"
  BY PlainLoopDriver DEF LoopInit
<1>3. LoopTypes
  BY <1>1, <1>2, LoopAssumption DEF LoopInit, LoopTypes, LoopTypeOK, LoopSteps, NoTasks
<1>4. LoopStepsSound
  BY <1>1 DEF LoopStepsSound, StepSound, NoStep
<1>5. BodyInOrder /\ ExecutingNotScheduled /\ SchedulingThrew
  BY <1>1, <1>2 DEF BodyInOrder, ExecutingNotScheduled, SchedulingThrew, NoStep, LoopInit, NoTasks
<1> QED BY <1>3, <1>4, <1>5 DEF LoopInv

LEMMA LoopStepInductive ==
  ASSUME LoopInv, [LoopNext]_feVars
  PROVE  LoopInv'
<1>1. CASE UNCHANGED feVars
  BY <1>1 DEF feVars, LoopInv, LoopTypes, LoopTypeOK, LoopStepsSound, BodyInOrder,
              ExecutingNotScheduled, SchedulingThrew, IsCurrent
<1>2. CASE LoopNext
  <2>1. CASE \/ EnterLoop \/ PassLoop \/ NoticeCancelling \/ AdmitIteration
             \/ PollCancellation \/ FinishLoop \/ DecideRun \/ DriverReturns
             \/ RequestLoopCancellation \/ CrashLoopProcess \/ ResumeLoopRun
    BY <2>1, CoordinationCloses, ClosingKeepsSteps
  <2>2. CASE \E i \in Items : IterationCompletes(i) \/ IterationReturns(i)
                                \/ OperationStarts(i) \/ OperationEnds(i)
    BY <2>2, IterationsClose, ClosingKeepsSteps
  <2>3. CASE SettleOpenForEach
    BY <2>3, SettlementCloses, ClosingKeepsSteps
  <2>4. CASE LoopRunTimeout \/ RecoverLoopRun
    BY <2>4, TransactionsClose, ClosingKeepsSteps
  <2>5. CASE \E i \in Items : StartIterationAttempt(i)
    BY <2>5, StartKeepsLoop
  <2>6. CASE \E i \in Items : ScriptEnds(i)
    BY <2>6, ScriptEndsKeepsLoop
  <2>7. CASE ScheduleIterationRetry
    BY <2>7, ScheduleKeepsLoop
  <2> QED BY <1>2, <2>1, <2>2, <2>3, <2>4, <2>5, <2>6, <2>7 DEF LoopNext
<1> QED BY <1>1, <1>2

(* The rows of a loop, its steps, operations and futures keep their types  *)
(* for every body, concurrency and retry policy (LoopTypeOK).              *)
THEOREM LoopTyped == LoopSpec => []LoopTypeOK
<1>1. LoopInit => LoopInv
  BY LoopInitially
<1>2. LoopInv /\ [LoopNext]_feVars => LoopInv'
  BY LoopStepInductive
<1>3. LoopInv => LoopTypeOK
  BY DEF LoopInv, LoopTypes
<1> QED BY <1>1, <1>2, <1>3, PTL DEF LoopSpec

(* A step of an iteration is executed again only behind a throw, whatever  *)
(* the number of items, the body, the retry policy and the crashes         *)
(* (execute_for_each_script, apply_iteration_scoped_event).                *)
THEOREM LoopRunsOnce == LoopSpec => []LoopStepRunsOnce
<1>1. LoopInit => LoopInv
  BY LoopInitially
<1>2. LoopInv /\ [LoopNext]_feVars => LoopInv'
  BY LoopStepInductive
<1>3. LoopInv => LoopStepRunsOnce
  <2> SUFFICES ASSUME LoopInv, NEW i \in Items, NEW n \in Body
               PROVE  Cardinality(feEffects[i][n]) <= 1
    BY DEF LoopStepRunsOnce
  <2>1. feEffects[i][n] = {} \/ feEffects[i][n] = {feSteps[i][n].attempt}
    BY DEF LoopInv, LoopStepsSound, StepSound
  <2>2. Cardinality({}) = 0 /\ \A x : Cardinality({x}) = 1
    BY FS_EmptySet, FS_Singleton, Zenon
  <2>3. Cardinality(feEffects[i][n]) \in {0, 1}
    BY <2>1, <2>2, Zenon
  <2> QED BY <2>3
<1> QED BY <1>1, <1>2, <1>3, PTL DEF LoopSpec

-----------------------------------------------------------------------------
(* SagaCorrection: corrections are not repeated blindly and never undo     *)
(* committed work.                                                         *)

(* A corrective action, the attempts of it that may have had an effect and *)
(* the operator's orders: every effect but one is answered for by an       *)
(* order, and all are when the action may be started without one.          *)
ActionSound(action, effects, orders) ==
  /\ effects \subseteq 1..action.attempts
  /\ Cardinality(effects) <= 1 + orders
  /\ action.status \in {"absent", "registered", "retry"}
       \/ (action.status = "failed" /\ ~action.ambiguous) => Cardinality(effects) <= orders
  /\ action.status = "started" => action.attempts \in effects

ActionsSound ==
  \A a \in SagaActions : ActionSound(sgActions[a], sgEffects[a], sgOrders[a])

(* A compensation exists only for a step that succeeded. *)
RegisteredSucceeded ==
  \A i \in 1..SagaLength :
    sgActions[<<"compensation", i>>].status # "absent" => sgSteps[i] = "succeeded"

(* The action that the driver is at work on is where the driver left it:   *)
(* nobody else touches a started or a failed action.                       *)
DrivenActionStands ==
  LET a == Head(sgDriver.todo) IN
  a \in SagaActions =>
    /\ sgDriver.at = "attempt" => sgActions[a].status = "started"
    /\ sgDriver.at = "retryable" => sgActions[a].status = "failed" /\ ~sgActions[a].ambiguous
    /\ sgDriver.at = "ambiguous" => sgActions[a].status = "failed"

(* No correction is attempted before it has begun; after a commit it has   *)
(* the reason success.                                                     *)
PhasesInOrder ==
  /\ sgSaga.phase \in {"none", "forward", "forward_succeeded"} =>
       /\ \A a \in SagaActions : sgActions[a].attempts = 0
       /\ sgDriver.at \notin {"correcting", "attempt", "retryable", "ambiguous", "returned"}
  /\ sgSaga.phase \in {"none", "forward"} => ~sgSaga.succeeded
  /\ sgSaga.succeeded /\ sgSaga.phase # "forward_succeeded" => sgSaga.reason = "success"

CorrectionRows == [status : ActionStatuses, attempts : Nat, ambiguous : BOOLEAN]

SagaTypes ==
  /\ sgSteps \in [1..SagaLength -> {"pending", "started", "succeeded", "failed"}]
  /\ sgSaga \in [phase : {"none", "forward", "forward_succeeded", "correcting", "manual",
                          "completed"},
                 reason : {"none", "success", "failure", "cancel"}, succeeded : BOOLEAN]
  /\ sgActions \in [SagaActions -> CorrectionRows]
  /\ sgEffects \in [SagaActions -> SUBSET Nat]
  /\ sgOrders \in [SagaActions -> Nat]
  /\ sgDriver = [at |-> sgDriver.at, goal |-> sgDriver.goal, todo |-> sgDriver.todo,
                 max |-> sgDriver.max, manual |-> sgDriver.manual, ok |-> sgDriver.ok]

SagaInv ==
  /\ SagaTypes /\ ActionsSound /\ RegisteredSucceeded /\ DrivenActionStands /\ PhasesInOrder
  /\ CommittedNeverUndone

(* Attempts are counted from one, and the next one is new. *)
LEMMA CountedEffects ==
  ASSUME NEW n \in Nat, NEW E, E \subseteq 1..n
  PROVE  /\ IsFiniteSet(E) /\ Cardinality(E) \in Nat
         /\ Cardinality(E \cup {n + 1}) <= Cardinality(E) + 1
         /\ n \in E => Cardinality(E \ {n}) = Cardinality(E) - 1
<1>1. IsFiniteSet(1..n)
  BY FS_Interval
<1>2. IsFiniteSet(E)
  BY <1>1, FS_Subset, Zenon
<1>3. Cardinality(E) \in Nat
  BY <1>2, FS_CardinalityType
<1>4. Cardinality(E \cup {n + 1}) = IF n + 1 \in E THEN Cardinality(E) ELSE Cardinality(E) + 1
  BY <1>2, FS_AddElement
<1>5. n \in E => Cardinality(E \ {n}) = Cardinality(E) - 1
  BY <1>2, FS_RemoveElement
<1> QED BY <1>2, <1>3, <1>4, <1>5

DriverShape(d) ==
  d = [at |-> d.at, goal |-> d.goal, todo |-> d.todo, max |-> d.max, manual |-> d.manual,
       ok |-> d.ok]

LEMMA IdleDriverShape ==
  /\ DriverShape(NoDriving) /\ NoDriving.at = "none"
  /\ DriverShape(Driving) /\ Driving.at = "loop"
<1>1. NoDriving = [at |-> "none", goal |-> "none", todo |-> <<>>, max |-> 0, manual |-> FALSE,
                   ok |-> TRUE]
  BY DEF NoDriving
<1>2. Driving = [at |-> "loop", goal |-> "none", todo |-> <<>>, max |-> 0, manual |-> FALSE,
                 ok |-> TRUE]
  <2>1. PICK d : d = Driving
    OBVIOUS
  <2>2. d = [at |-> "loop", goal |-> "none", todo |-> <<>>, max |-> 0, manual |-> FALSE,
             ok |-> TRUE]
    BY <2>1 DEF NoDriving, Driving
  <2> QED BY <2>1, <2>2
<1> QED BY <1>1, <1>2 DEF DriverShape

(* A step that leaves the actions alone. *)
LEMMA QuietSagaStep ==
  ASSUME SagaInv, SagaTypes', UNCHANGED <<sgActions, sgEffects, sgOrders>>,
         \A i \in 1..SagaLength : sgSteps[i] = "succeeded" => sgSteps'[i] = "succeeded",
         \/ sgDriver' = sgDriver
         \/ sgDriver'.at \notin {"attempt", "retryable", "ambiguous"}
         \/ Head(sgDriver'.todo) \notin SagaActions,
         PhasesInOrder', sgSaga'.succeeded => sgSaga.succeeded \/ sgSaga.phase = "forward"
  PROVE  SagaInv'
<1> USE DEF SagaInv
<1>1. ActionsSound'
  BY DEF ActionsSound
<1>2. RegisteredSucceeded'
  BY DEF RegisteredSucceeded
<1>3. DrivenActionStands'
  BY DEF DrivenActionStands
<1>4. CommittedNeverUndone'
  BY DEF CommittedNeverUndone, PhasesInOrder, SagaActions
<1> QED BY <1>1, <1>2, <1>3, <1>4

(* The steps of the run loop around the correction. *)
LEMMA ForwardWorkQuiet ==
  ASSUME SagaInv,
         \/ SagaOpens \/ SagaCommits \/ RunStalls \/ RunEnds \/ RequestSagaCancellation
         \/ CorrectionReturns \/ CrashSagaProcess \/ ResumeCorrection \/ ResumeSagaRun
         \/ \E i \in 1..SagaLength : ForwardStepStarts(i)
         \/ \E a \in SagaActions : OperatorResolves(a)
  PROVE  SagaInv'
<1> USE DEF SagaInv, ForwardVars
<1>1. CASE SagaOpens
  <2>1. SagaTypes' /\ PhasesInOrder'
    BY <1>1 DEF SagaOpens, SagaTypes, PhasesInOrder
  <2> QED BY <1>1, <2>1, QuietSagaStep DEF SagaOpens, SagaTypes
<1>2. CASE SagaCommits
  <2>1. DriverShape(sgDriver')  /\ sgDriver'.at \in {"none", "committed"}
    BY <1>2, IdleDriverShape DEF SagaCommits, DriverFails, SagaTypes, DriverShape
  <2>2. SagaTypes' /\ PhasesInOrder'
    BY <1>2, <2>1 DEF SagaCommits, SagaTypes, PhasesInOrder, DriverShape
  <2> QED BY <1>2, <2>1, <2>2, QuietSagaStep DEF SagaCommits
<1>3. CASE RunStalls \/ RunEnds
  <2>1. DriverShape(sgDriver') /\ sgDriver'.at = "none"
    BY <1>3, IdleDriverShape DEF RunStalls, RunEnds, DriverFails
  <2>2. SagaTypes' /\ PhasesInOrder'
    BY <1>3, <2>1 DEF RunStalls, RunEnds, SagaTypes, PhasesInOrder, DriverShape
  <2> QED BY <1>3, <2>1, <2>2, QuietSagaStep DEF RunStalls, RunEnds
<1>4. CASE RequestSagaCancellation \/ \E a \in SagaActions : OperatorResolves(a)
  <2>1. SagaTypes' /\ PhasesInOrder'
    BY <1>4 DEF RequestSagaCancellation, OperatorResolves, SagaTypes, PhasesInOrder
  <2> QED BY <1>4, <2>1, QuietSagaStep DEF RequestSagaCancellation, OperatorResolves
<1>5. CASE CorrectionReturns
  <2>1. DriverShape(sgDriver') /\ sgDriver'.at \in {"none", "loop"}
    BY <1>5, IdleDriverShape DEF CorrectionReturns, DriverFails
  <2>2. SagaTypes' /\ PhasesInOrder'
    BY <1>5, <2>1 DEF CorrectionReturns, SagaTypes, PhasesInOrder, DriverShape
  <2> QED BY <1>5, <2>1, <2>2, QuietSagaStep DEF CorrectionReturns
<1>6. CASE CrashSagaProcess
  <2>1. sgDriver' = [at |-> "gone", goal |-> "none", todo |-> <<>>, max |-> 0,
                     manual |-> FALSE, ok |-> TRUE]
    BY <1>6 DEF CrashSagaProcess, NoDriving
  <2>2. SagaTypes' /\ PhasesInOrder'
    BY <1>6, <2>1 DEF CrashSagaProcess, SagaTypes, PhasesInOrder
  <2> QED BY <1>6, <2>1, <2>2, QuietSagaStep DEF CrashSagaProcess
<1>7. CASE ResumeCorrection \/ ResumeSagaRun
  <2>1. DriverShape(sgDriver') /\ sgDriver'.at = "loop"
    BY <1>7, IdleDriverShape DEF ResumeCorrection, ResumeSagaRun
  <2>2. SagaTypes' /\ PhasesInOrder'
    BY <1>7, <2>1 DEF ResumeCorrection, ResumeSagaRun, SagaTypes, PhasesInOrder, DriverShape
  <2> QED BY <1>7, <2>1, <2>2, QuietSagaStep DEF ResumeCorrection, ResumeSagaRun
<1>8. CASE \E i \in 1..SagaLength : ForwardStepStarts(i)
  <2>1. PICK i \in 1..SagaLength : ForwardStepStarts(i)
    BY <1>8
  <2>2. /\ DriverShape(sgDriver') /\ sgDriver'.at = "step" /\ sgSteps[i] = "pending"
        /\ sgSteps' = [sgSteps EXCEPT ![i] = "started"] /\ sgSaga' = sgSaga
        /\ UNCHANGED <<sgActions, sgEffects, sgOrders>>
    BY <2>1 DEF ForwardStepStarts, SagaTypes, DriverShape
  <2>3. SagaTypes' /\ PhasesInOrder'
    BY <2>2 DEF SagaTypes, PhasesInOrder, DriverShape
  <2>4. \A j \in 1..SagaLength : sgSteps[j] = "succeeded" => sgSteps'[j] = "succeeded"
    BY <2>2 DEF SagaTypes
  <2> QED BY <2>2, <2>3, <2>4, QuietSagaStep
<1> QED BY <1>1, <1>2, <1>3, <1>4, <1>5, <1>6, <1>7, <1>8

(* The correction begins, or is taken up again. *)
LEMMA BeginCorrectionQuiet ==
  ASSUME SagaInv, BeginCorrection
  PROVE  SagaInv'
<1> USE DEF SagaInv, ForwardVars
<1>1. PICK reason : reason = CorrectionCall.reason
  OBVIOUS
<1>2. UNCHANGED <<sgSteps, sgActions, sgEffects, sgOrders>>
  BY DEF BeginCorrection
<1>3. CASE sgSaga.phase \in {"correcting", "manual"}
  <2>1. /\ sgSaga' = sgSaga
        /\ DriverShape(sgDriver') /\ sgDriver'.at = "correcting"
    <3>1. PICK g, t : sgDriver' = [NoDriving EXCEPT !.at = "correcting", !.goal = g, !.todo = t]
      BY <1>3 DEF BeginCorrection
    <3>2. sgDriver' = [at |-> "correcting", goal |-> g, todo |-> t, max |-> 0,
                       manual |-> FALSE, ok |-> TRUE]
      BY <3>1 DEF NoDriving
    <3> QED BY <1>3, <3>2 DEF BeginCorrection, DriverShape
  <2>2. SagaTypes' /\ PhasesInOrder'
    BY <1>2, <1>3, <2>1 DEF SagaTypes, PhasesInOrder, DriverShape
  <2> QED BY <1>2, <2>1, <2>2, QuietSagaStep
<1>4. CASE /\ sgSaga.phase \notin {"correcting", "manual"}
           /\ Open /\ ReasonMatchesPhase(reason)
  <2>1. /\ sgSaga' = [sgSaga EXCEPT !.phase = "correcting", !.reason = reason]
        /\ DriverShape(sgDriver') /\ sgDriver'.at = "correcting"
    <3>1. PICK g, t : sgDriver' = [NoDriving EXCEPT !.at = "correcting", !.goal = g, !.todo = t]
      BY <1>1, <1>4 DEF BeginCorrection
    <3>2. sgDriver' = [at |-> "correcting", goal |-> g, todo |-> t, max |-> 0,
                       manual |-> FALSE, ok |-> TRUE]
      BY <3>1 DEF NoDriving
    <3> QED BY <1>1, <1>4, <3>2 DEF BeginCorrection, DriverShape
  <2>2. reason \in {"none", "success", "failure", "cancel"}
    BY <1>1 DEF CorrectionCall, SagaTypes
  <2>3. /\ sgSaga'.phase = "correcting" /\ sgSaga'.reason = reason
        /\ sgSaga'.succeeded = sgSaga.succeeded
    BY <2>1 DEF SagaTypes
  <2>4. SagaTypes'
    BY <1>2, <2>1, <2>2 DEF SagaTypes, DriverShape
  <2>5. PhasesInOrder'
    BY <1>4, <2>1, <2>3 DEF PhasesInOrder, ReasonMatchesPhase
  <2> QED BY <1>2, <2>1, <2>3, <2>4, <2>5, QuietSagaStep
<1>5. CASE ~(/\ sgSaga.phase \notin {"correcting", "manual"}
             /\ Open /\ ReasonMatchesPhase(reason))
           /\ sgSaga.phase \notin {"correcting", "manual"}
  <2>1. sgSaga' = sgSaga /\ DriverShape(sgDriver') /\ sgDriver'.at = "none"
    BY <1>1, <1>5, IdleDriverShape DEF BeginCorrection, DriverFails
  <2>2. SagaTypes' /\ PhasesInOrder'
    BY <1>2, <2>1 DEF SagaTypes, PhasesInOrder, DriverShape
  <2> QED BY <1>2, <2>1, <2>2, QuietSagaStep
<1> QED BY <1>3, <1>4, <1>5

LEMMA CorrectionEndsQuiet ==
  ASSUME SagaInv, CorrectionEnds
  PROVE  SagaInv'
<1> USE DEF SagaInv, ForwardVars
<1>1. UNCHANGED <<sgSteps, sgActions, sgEffects, sgOrders>>
  BY DEF CorrectionEnds
<1>2. DriverShape(sgDriver') /\ sgDriver'.at \in {"returned", "none"}
  BY IdleDriverShape DEF CorrectionEnds, DriverFails, SagaTypes, DriverShape
<1>3. /\ sgSaga' \in {sgSaga, [sgSaga EXCEPT !.phase = "completed"]}
      /\ sgSaga.phase \notin {"none", "forward", "forward_succeeded"}
  BY DEF CorrectionEnds, PhasesInOrder
<1>4. /\ sgSaga'.phase \in {sgSaga.phase, "completed"} /\ sgSaga'.reason = sgSaga.reason
      /\ sgSaga'.succeeded = sgSaga.succeeded
  BY <1>3 DEF SagaTypes
<1>5. SagaTypes'
  BY <1>1, <1>2, <1>3 DEF SagaTypes, DriverShape
<1>6. PhasesInOrder'
  BY <1>1, <1>3, <1>4 DEF PhasesInOrder
<1> QED BY <1>1, <1>2, <1>4, <1>5, <1>6, QuietSagaStep

(* Only the action a changes, and stays sound. *)
ActionBecomes(a, action, effects, orders) ==
  /\ sgActions' = [sgActions EXCEPT ![a] = action]
  /\ sgEffects' = [sgEffects EXCEPT ![a] = effects]
  /\ sgOrders' = [sgOrders EXCEPT ![a] = orders]

LEMMA OneActionChanges ==
  ASSUME SagaInv, NEW a \in SagaActions, NEW action \in CorrectionRows,
         NEW effects \in SUBSET Nat, NEW orders \in Nat,
         ActionBecomes(a, action, effects, orders), ActionSound(action, effects, orders)
  PROVE  /\ ActionsSound'
         /\ sgActions' \in [SagaActions -> CorrectionRows]
         /\ sgEffects' \in [SagaActions -> SUBSET Nat]
         /\ sgOrders' \in [SagaActions -> Nat]
         /\ sgActions'[a] = action
         /\ \A b \in SagaActions : b # a => sgActions'[b] = sgActions[b]
<1>1. /\ sgActions' \in [SagaActions -> CorrectionRows]
      /\ sgEffects' \in [SagaActions -> SUBSET Nat]
      /\ sgOrders' \in [SagaActions -> Nat]
      /\ sgActions'[a] = action /\ sgEffects'[a] = effects /\ sgOrders'[a] = orders
      /\ \A b \in SagaActions : b # a =>
           sgActions'[b] = sgActions[b] /\ sgEffects'[b] = sgEffects[b] /\ sgOrders'[b] = sgOrders[b]
  BY DEF ActionBecomes, SagaInv, SagaTypes
<1>2. ActionsSound'
  <2> SUFFICES ASSUME NEW b \in SagaActions
               PROVE  ActionSound(sgActions'[b], sgEffects'[b], sgOrders'[b])
    BY DEF ActionsSound
  <2>1. CASE b = a
    BY <1>1, <2>1
  <2>2. CASE b # a
    BY <1>1, <2>2 DEF SagaInv, ActionsSound
  <2> QED BY <2>1, <2>2
<1> QED BY <1>1, <1>2

(* Success and registration of a forward step. *)
LEMMA ForwardStepEndsSound ==
  ASSUME SagaInv, NEW i \in 1..SagaLength, ForwardStepEnds(i)
  PROVE  SagaInv'
<1> USE DEF SagaInv
<1>1. /\ sgDriver.at = "step" /\ sgSteps[i] = "started"
      /\ UNCHANGED <<sgSaga, sgEffects, sgOrders>>
      /\ DriverShape(sgDriver') /\ sgDriver'.at \in {"loop", "step_failed"}
  BY DEF ForwardStepEnds, SagaTypes, DriverShape
<1>2. CASE sgActions' = sgActions
  <2>1. /\ sgSteps' \in [1..SagaLength -> {"pending", "started", "succeeded", "failed"}]
        /\ \A j \in 1..SagaLength : sgSteps[j] = "succeeded" => sgSteps'[j] = "succeeded"
    <3>1. PICK s \in {"succeeded", "failed"} : sgSteps' = [sgSteps EXCEPT ![i] = s]
      BY DEF ForwardStepEnds
    <3> QED BY <1>1, <3>1 DEF SagaTypes
  <2>2. SagaTypes' /\ PhasesInOrder'
    BY <1>1, <1>2, <2>1 DEF SagaTypes, PhasesInOrder, DriverShape
  <2> QED BY <1>1, <1>2, <2>1, <2>2, QuietSagaStep
<1>3. CASE sgActions' # sgActions
  <2>1. PICK a : a = <<"compensation", i>>
    OBVIOUS
  <2>2. /\ sgSteps' = [sgSteps EXCEPT ![i] = "succeeded"]
        /\ sgActions' = [sgActions EXCEPT ![a].status = "registered"]
    BY <1>3, <2>1 DEF ForwardStepEnds
  <2>3. a \in SagaActions /\ a \in Compensations
    BY <2>1 DEF SagaActions, Compensations
  <2>4. sgActions[a] \in CorrectionRows /\ sgActions[a].status = "absent"
    BY <1>1, <2>1, <2>3 DEF RegisteredSucceeded, SagaTypes
  <2>5. PICK action : action = [sgActions[a] EXCEPT !.status = "registered"]
    OBVIOUS
  <2>6. /\ action \in CorrectionRows /\ action.status = "registered"
        /\ action.attempts = sgActions[a].attempts
    BY <2>4, <2>5 DEF CorrectionRows, ActionStatuses
  <2>7. ActionSound(action, sgEffects[a], sgOrders[a])
    BY <2>3, <2>4, <2>6 DEF ActionsSound, ActionSound
  <2>8. ActionBecomes(a, action, sgEffects[a], sgOrders[a])
    BY <1>1, <2>2, <2>3, <2>5 DEF ActionBecomes, SagaTypes
  <2>9. /\ ActionsSound'
        /\ sgActions' \in [SagaActions -> CorrectionRows]
        /\ sgEffects' \in [SagaActions -> SUBSET Nat]
        /\ sgOrders' \in [SagaActions -> Nat]
        /\ sgActions'[a] = action
        /\ \A b \in SagaActions : b # a => sgActions'[b] = sgActions[b]
    <3>1. sgEffects[a] \in SUBSET Nat /\ sgOrders[a] \in Nat
      BY <2>3 DEF SagaTypes
    <3> QED BY <2>3, <2>6, <2>7, <2>8, <3>1, OneActionChanges
  <2>10. \A b \in SagaActions : sgActions'[b].attempts = sgActions[b].attempts
    BY <2>6, <2>9
  <2>11. SagaTypes'
    BY <1>1, <2>2, <2>9 DEF SagaTypes, DriverShape
  <2>12. RegisteredSucceeded'
    <3> SUFFICES ASSUME NEW j \in 1..SagaLength, sgActions'[<<"compensation", j>>].status # "absent"
                 PROVE  sgSteps'[j] = "succeeded"
      BY DEF RegisteredSucceeded
    <3>1. CASE j = i
      BY <2>2, <3>1 DEF SagaTypes
    <3>2. CASE j # i
      <4>1. <<"compensation", j>> \in SagaActions /\ <<"compensation", j>> # a
        BY <2>1, <3>2 DEF SagaActions, Compensations
      <4>2. sgSteps[j] = "succeeded"
        BY <2>9, <4>1 DEF RegisteredSucceeded
      <4> QED BY <2>2, <3>2, <4>2 DEF SagaTypes
    <3> QED BY <3>1, <3>2
  <2>13. DrivenActionStands'
    BY <1>1 DEF DrivenActionStands
  <2>14. PhasesInOrder' /\ CommittedNeverUndone'
    BY <1>1, <2>10 DEF PhasesInOrder, CommittedNeverUndone, SagaActions
  <2> QED BY <2>9, <2>11, <2>12, <2>13, <2>14
<1> QED BY <1>2, <1>3

(* A step that changes one action that exists. *)
LEMMA OneActionStep ==
  ASSUME SagaInv, NEW a \in SagaActions, NEW action \in CorrectionRows,
         NEW effects \in SUBSET Nat, NEW orders \in Nat,
         ActionBecomes(a, action, effects, orders), ActionSound(action, effects, orders),
         sgActions[a].status # "absent" \/ a \in Cleanups,
         sgSteps' = sgSteps, DriverShape(sgDriver'),
         sgSaga' \in [phase : {"correcting", "manual", "completed"},
                      reason : {sgSaga.reason}, succeeded : {sgSaga.succeeded}],
         sgSaga.phase \notin {"none", "forward", "forward_succeeded"},
         action.attempts = sgActions[a].attempts \/ a \notin Compensations \/ ~sgSaga.succeeded,
         \/ sgDriver'.at \notin {"attempt", "retryable", "ambiguous"}
         \/ Head(sgDriver'.todo) = a /\ (sgDriver'.at = "attempt" => action.status = "started")
              /\ (sgDriver'.at = "retryable" => action.status = "failed" /\ ~action.ambiguous)
              /\ (sgDriver'.at = "ambiguous" => action.status = "failed")
         \/ sgDriver' = sgDriver /\ sgActions[a].status \notin {"started", "failed"}
  PROVE  SagaInv'
<1> USE DEF SagaInv
<1>1. /\ ActionsSound'
      /\ sgActions' \in [SagaActions -> CorrectionRows]
      /\ sgEffects' \in [SagaActions -> SUBSET Nat]
      /\ sgOrders' \in [SagaActions -> Nat]
      /\ sgActions'[a] = action
      /\ \A b \in SagaActions : b # a => sgActions'[b] = sgActions[b]
  BY OneActionChanges
<1>2. SagaTypes'
  BY <1>1 DEF SagaTypes, DriverShape
<1>3. RegisteredSucceeded'
  <2> SUFFICES ASSUME NEW j \in 1..SagaLength, sgActions'[<<"compensation", j>>].status # "absent"
               PROVE  sgSteps[j] = "succeeded"
    BY DEF RegisteredSucceeded
  <2>1. <<"compensation", j>> \in SagaActions /\ <<"compensation", j>> \notin Cleanups
    BY DEF SagaActions, Compensations, Cleanups
  <2>2. sgActions[<<"compensation", j>>].status # "absent"
    BY <1>1, <2>1
  <2> QED BY <2>2 DEF RegisteredSucceeded
<1>4. DrivenActionStands'
  BY <1>1 DEF DrivenActionStands
<1>5. /\ sgSaga'.phase \in {"correcting", "manual", "completed"}
      /\ sgSaga'.reason = sgSaga.reason /\ sgSaga'.succeeded = sgSaga.succeeded
  OBVIOUS
<1>6. PhasesInOrder'
  BY <1>5 DEF PhasesInOrder
<1>7. CommittedNeverUndone'
  BY <1>1, <1>5 DEF CommittedNeverUndone, SagaActions
<1> QED BY <1>1, <1>2, <1>3, <1>4, <1>6, <1>7

LEMMA SagaPhases ==
  ASSUME SagaTypes, sgSaga.phase \notin {"none", "forward", "forward_succeeded"}
  PROVE  /\ sgSaga \in [phase : {"correcting", "manual", "completed"},
                        reason : {sgSaga.reason}, succeeded : {sgSaga.succeeded}]
         /\ \A p \in {"correcting", "manual"} :
              [sgSaga EXCEPT !.phase = p] \in [phase : {"correcting", "manual", "completed"},
                        reason : {sgSaga.reason}, succeeded : {sgSaga.succeeded}]
  BY DEF SagaTypes

(* An attempt begins, or the action is passed over. *)
LEMMA ConsiderActionSound ==
  ASSUME SagaInv, ConsiderAction
  PROVE  SagaInv'
<1> USE DEF SagaInv
<1>1. PICK a : a = Head(sgDriver.todo)
  OBVIOUS
<1>2. /\ sgDriver.at = "correcting" /\ UNCHANGED <<sgSteps, sgSaga, sgOrders>>
      /\ sgSaga.phase \notin {"none", "forward", "forward_succeeded"}
  BY DEF ConsiderAction, PhasesInOrder
<1>3. CASE UNCHANGED <<sgActions, sgEffects>> /\ sgDriver'.at # "attempt"
  <2>1. DriverShape(sgDriver') /\ sgDriver'.at \in {"correcting", "none"}
    <3>1. DriverFails \/ \E ok, manual \in BOOLEAN : Settle(ok, manual)
      BY <1>3 DEF ConsiderAction, SagaTypes
    <3> QED BY <3>1, IdleDriverShape DEF Settle, DriverFails, SagaTypes, DriverShape
  <2>2. SagaTypes' /\ PhasesInOrder'
    BY <1>2, <1>3, <2>1 DEF SagaTypes, PhasesInOrder, DriverShape
  <2> QED BY <1>2, <1>3, <2>1, <2>2, QuietSagaStep
<1>4. CASE ~(UNCHANGED <<sgActions, sgEffects>> /\ sgDriver'.at # "attempt")
  <2>1. PICK n : n = sgActions[a].attempts + 1
    OBVIOUS
  <2>2. /\ CanStartCorrection(a)
        /\ sgActions' = [sgActions EXCEPT ![a].status = "started", ![a].attempts = @ + 1]
        /\ sgEffects' = [sgEffects EXCEPT ![a] = @ \cup {n}]
        /\ sgDriver' = [sgDriver EXCEPT !.at = "attempt", !.max = AttemptsAllowed(a)]
    <3>1. Settle(TRUE, FALSE) \/ Settle(FALSE, TRUE) \/ Settle(FALSE, FALSE) \/ DriverFails
            => sgDriver'.at # "attempt"
      BY IdleDriverShape DEF Settle, DriverFails, SagaTypes
    <3> QED BY <1>1, <1>4, <2>1, <3>1 DEF ConsiderAction
  <2>3. DriverShape(sgDriver') /\ sgDriver'.at = "attempt" /\ Head(sgDriver'.todo) = a
    <3>1. PICK m : sgDriver' = [sgDriver EXCEPT !.at = "attempt", !.max = m]
      BY <2>2
    <3> QED BY <1>1, <3>1 DEF SagaTypes, DriverShape
  <2>4. CASE a \notin SagaActions
    <3>1. sgActions' = sgActions /\ sgEffects' = sgEffects
      BY <2>2, <2>4 DEF SagaTypes
    <3>2. SagaTypes' /\ PhasesInOrder'
      BY <1>2, <2>3, <3>1 DEF SagaTypes, PhasesInOrder, DriverShape
    <3> QED BY <1>2, <2>3, <2>4, <3>1, <3>2, QuietSagaStep
  <2>5. CASE a \in SagaActions
    <3>1. /\ sgActions[a] \in CorrectionRows /\ sgEffects[a] \in SUBSET Nat /\ sgOrders[a] \in Nat
          /\ ActionSound(sgActions[a], sgEffects[a], sgOrders[a])
      BY <2>5 DEF SagaTypes, ActionsSound
    <3>2. PICK action : action = sgActions'[a]
      OBVIOUS
    <3>3. /\ action \in CorrectionRows /\ action.status = "started" /\ action.attempts = n
          /\ n \in Nat /\ sgActions[a].attempts \in Nat
      <4>1. PICK b \in BOOLEAN, k \in Nat, s \in ActionStatuses :
              sgActions[a] = [status |-> s, attempts |-> k, ambiguous |-> b]
        BY <3>1 DEF CorrectionRows
      <4>2. action = [status |-> "started", attempts |-> n, ambiguous |-> b]
        BY <2>1, <2>2, <2>5, <3>2, <4>1 DEF SagaTypes
      <4> QED BY <2>1, <4>1, <4>2 DEF CorrectionRows, ActionStatuses
    <3>4. sgActions[a].status \in {"registered", "retry", "absent"}
      BY <2>2 DEF CanStartCorrection, Pending
    <3>5. ActionSound(action, sgEffects[a] \cup {n}, sgOrders[a])
      <4>1. /\ Cardinality(sgEffects[a]) <= sgOrders[a] /\ sgEffects[a] \subseteq 1..sgActions[a].attempts
        BY <3>1, <3>4 DEF ActionSound
      <4>2. /\ Cardinality(sgEffects[a]) \in Nat
            /\ Cardinality(sgEffects[a] \cup {n}) <= Cardinality(sgEffects[a]) + 1
            /\ IsFiniteSet(sgEffects[a])
        BY <2>1, <3>3, <4>1, CountedEffects
      <4>3. Cardinality(sgEffects[a] \cup {n}) \in Nat
        BY <4>2, FS_AddElement, FS_CardinalityType
      <4>4. sgEffects[a] \cup {n} \subseteq 1..n
        BY <2>1, <3>3, <4>1
      <4> QED BY <3>1, <3>3, <4>1, <4>2, <4>3, <4>4 DEF ActionSound
    <3>6. ActionBecomes(a, action, sgEffects[a] \cup {n}, sgOrders[a])
      <4>1. sgActions' = [sgActions EXCEPT ![a] = action]
        BY <2>2, <2>5, <3>2 DEF SagaTypes
      <4> QED BY <1>2, <2>2, <2>5, <4>1 DEF ActionBecomes, SagaTypes
    <3>7. sgActions[a].status # "absent" \/ a \in Cleanups
      BY <2>2, <2>5 DEF CanStartCorrection, Pending, SagaActions
    <3>8. a \notin Compensations \/ ~sgSaga.succeeded
      BY <1>2, <2>2 DEF CanStartCorrection, CompensationDue, PhasesInOrder
    <3>9. sgSaga' \in [phase : {"correcting", "manual", "completed"},
                      reason : {sgSaga.reason}, succeeded : {sgSaga.succeeded}]
      BY <1>2, SagaPhases
    <3>10. sgEffects[a] \cup {n} \in SUBSET Nat
      BY <3>1, <3>3
    <3> QED BY <1>2, <2>3, <2>5, <3>1, <3>3, <3>5, <3>6, <3>7, <3>8, <3>9, <3>10, OneActionStep
  <2> QED BY <2>4, <2>5
<1> QED BY <1>3, <1>4

(* The script of the attempt ends. *)
LEMMA AttemptEndsSound ==
  ASSUME SagaInv, AttemptEnds
  PROVE  SagaInv'
<1> USE DEF SagaInv
<1>1. PICK a : a = Head(sgDriver.todo)
  OBVIOUS
<1>2. /\ sgDriver.at = "attempt" /\ UNCHANGED <<sgSteps, sgOrders>>
      /\ sgSaga.phase \notin {"none", "forward", "forward_succeeded"}
  <2>1. sgDriver.at = "attempt"
    BY DEF AttemptEnds
  <2>2. UNCHANGED <<sgSteps, sgOrders>>
    BY DEF AttemptEnds
  <2>3. sgSaga.phase \notin {"none", "forward", "forward_succeeded"}
    BY <2>1 DEF PhasesInOrder
  <2> QED BY <2>1, <2>2, <2>3
<1>3. PICK status \in {"succeeded", "failed", "manual"}, ambiguous \in BOOLEAN, keep \in BOOLEAN :
        /\ sgActions' = [sgActions EXCEPT ![a].status = status, ![a].ambiguous = ambiguous]
             \/ (status = "succeeded" /\ sgActions' = [sgActions EXCEPT ![a].status = status])
        /\ sgEffects' = IF keep THEN sgEffects
                        ELSE [sgEffects EXCEPT ![a] = @ \ {sgActions[a].attempts}]
        /\ status = "failed" /\ ~ambiguous => ~keep
        /\ sgSaga' \in {sgSaga, [sgSaga EXCEPT !.phase = "manual"]}
        /\ \/ \E ok, manual \in BOOLEAN : Settle(ok, manual)
           \/ sgDriver' = [sgDriver EXCEPT !.at = "retryable"] /\ status = "failed" /\ ~ambiguous
           \/ sgDriver' = [sgDriver EXCEPT !.at = "ambiguous"] /\ status = "failed"
  <2>1. CASE /\ sgActions' = [sgActions EXCEPT ![a].status = "succeeded"]
             /\ Settle(TRUE, FALSE)
             /\ UNCHANGED <<sgSaga, sgManual, sgEffects>>
    BY <2>1
  <2>2. CASE \E retryable \in BOOLEAN :
               /\ sgActions' = [sgActions EXCEPT ![a].status = "failed", ![a].ambiguous = FALSE]
               /\ sgEffects' = [sgEffects EXCEPT ![a] = @ \ {sgActions[a].attempts}]
               /\ IF retryable /\ sgActions[a].attempts < sgDriver.max
                    THEN sgDriver' = [sgDriver EXCEPT !.at = "retryable"]
                    ELSE Settle(FALSE, FALSE)
               /\ UNCHANGED <<sgSaga, sgManual>>
    BY <2>2
  <2>3. CASE /\ sgActions' = [sgActions EXCEPT ![a].status = "failed", ![a].ambiguous = TRUE]
             /\ sgDriver' = [sgDriver EXCEPT !.at = "ambiguous"]
             /\ UNCHANGED <<sgSaga, sgManual, sgEffects>>
    BY <2>3
  <2>4. CASE ToOperator(a) /\ Settle(FALSE, TRUE) /\ UNCHANGED sgEffects
    BY <2>4 DEF ToOperator
  <2> QED BY <1>1, <2>1, <2>2, <2>3, <2>4 DEF AttemptEnds
<1>4. /\ DriverShape(sgDriver')
      /\ \/ sgDriver'.at = "correcting"
         \/ sgDriver'.at = "retryable" /\ status = "failed" /\ ~ambiguous /\ Head(sgDriver'.todo) = a
         \/ sgDriver'.at = "ambiguous" /\ status = "failed" /\ Head(sgDriver'.todo) = a
  BY <1>1, <1>3 DEF Settle, SagaTypes, DriverShape
<1>5. sgSaga' \in [phase : {"correcting", "manual", "completed"},
                   reason : {sgSaga.reason}, succeeded : {sgSaga.succeeded}]
  BY <1>2, <1>3, SagaPhases
<1>6. CASE a \notin SagaActions
  <2>1. sgActions' = sgActions /\ sgEffects' = sgEffects
    BY <1>3, <1>6 DEF SagaTypes
  <2>2. /\ sgSaga'.phase \in {"correcting", "manual", "completed"}
        /\ sgSaga'.reason = sgSaga.reason /\ sgSaga'.succeeded = sgSaga.succeeded
    BY <1>5
  <2>3. SagaTypes'
    BY <1>2, <1>4, <1>5, <2>1 DEF SagaTypes, DriverShape
  <2>4. PhasesInOrder'
    BY <1>2, <2>2 DEF PhasesInOrder
  <2> QED BY <1>2, <1>4, <1>6, <2>1, <2>2, <2>3, <2>4, QuietSagaStep
<1>7. CASE a \in SagaActions
  <2>1. /\ sgActions[a] \in CorrectionRows /\ sgEffects[a] \in SUBSET Nat /\ sgOrders[a] \in Nat
        /\ ActionSound(sgActions[a], sgEffects[a], sgOrders[a])
        /\ sgActions[a].status = "started"
    BY <1>1, <1>2, <1>7 DEF SagaTypes, ActionsSound, DrivenActionStands
  <2>2. PICK action : /\ action = sgActions'[a]
    OBVIOUS
  <2>3. /\ action \in CorrectionRows /\ action.status = status
        /\ action.attempts = sgActions[a].attempts
        /\ status # "succeeded" => action.ambiguous = ambiguous
        /\ sgActions' = [sgActions EXCEPT ![a] = action]
    <3>1. PICK b \in BOOLEAN, k \in Nat, s \in ActionStatuses :
            sgActions[a] = [status |-> s, attempts |-> k, ambiguous |-> b]
      BY <2>1 DEF CorrectionRows
    <3>2. \/ action = [status |-> status, attempts |-> k, ambiguous |-> ambiguous]
          \/ action = [status |-> status, attempts |-> k, ambiguous |-> b] /\ status = "succeeded"
      BY <1>3, <1>7, <2>2, <3>1 DEF SagaTypes
    <3>3. sgActions' = [sgActions EXCEPT ![a] = action]
      BY <1>3, <1>7, <2>2 DEF SagaTypes
    <3>4. status \in ActionStatuses
      BY DEF ActionStatuses
    <3> QED BY <3>1, <3>2, <3>3, <3>4 DEF CorrectionRows
  <2>4. PICK effects : effects = IF keep THEN sgEffects[a]
                                 ELSE sgEffects[a] \ {sgActions[a].attempts}
    OBVIOUS
  <2>5. effects \in SUBSET Nat /\ sgEffects' = [sgEffects EXCEPT ![a] = effects]
    BY <1>3, <1>7, <2>1, <2>4 DEF SagaTypes
  <2>6. ActionSound(action, effects, sgOrders[a])
    <3>1. /\ sgEffects[a] \subseteq 1..sgActions[a].attempts
          /\ sgActions[a].attempts \in sgEffects[a] /\ sgActions[a].attempts \in Nat
          /\ Cardinality(sgEffects[a]) <= 1 + sgOrders[a]
      BY <2>1 DEF ActionSound, CorrectionRows
    <3>2. /\ Cardinality(sgEffects[a]) \in Nat
          /\ Cardinality(sgEffects[a] \ {sgActions[a].attempts}) = Cardinality(sgEffects[a]) - 1
      BY <3>1, CountedEffects
    <3>3. CASE keep
      BY <1>3, <2>3, <2>4, <3>1, <3>3 DEF ActionSound
    <3>4. CASE ~keep
      <4>1. Cardinality(effects) <= sgOrders[a] /\ effects \subseteq 1..sgActions[a].attempts
            /\ Cardinality(effects) <= 1 + sgOrders[a]
        BY <2>1, <2>4, <3>1, <3>2, <3>4
      <4> QED BY <2>3, <4>1 DEF ActionSound
    <3> QED BY <3>3, <3>4
  <2>7. ActionBecomes(a, action, effects, sgOrders[a])
    BY <1>2, <1>7, <2>3, <2>5 DEF ActionBecomes, SagaTypes
  <2>8. \/ sgDriver'.at \notin {"attempt", "retryable", "ambiguous"}
        \/ Head(sgDriver'.todo) = a /\ (sgDriver'.at = "attempt" => action.status = "started")
             /\ (sgDriver'.at = "retryable" => action.status = "failed" /\ ~action.ambiguous)
             /\ (sgDriver'.at = "ambiguous" => action.status = "failed")
    BY <1>4, <2>3
  <2> QED BY <1>2, <1>4, <1>5, <1>7, <2>1, <2>3, <2>5, <2>6, <2>7, <2>8, OneActionStep
<1> QED BY <1>6, <1>7

(* The status of an action changes, its attempts and effects stay. *)
LEMMA StatusChanges ==
  ASSUME SagaInv, NEW a \in SagaActions, NEW status \in ActionStatuses, NEW ambiguous \in BOOLEAN,
         sgActions' = [sgActions EXCEPT ![a].status = status, ![a].ambiguous = ambiguous]
  PROVE  \E action \in CorrectionRows :
           /\ sgActions' = [sgActions EXCEPT ![a] = action]
           /\ action.status = status /\ action.ambiguous = ambiguous
           /\ action.attempts = sgActions[a].attempts
<1>1. sgActions \in [SagaActions -> CorrectionRows] /\ sgActions[a] \in CorrectionRows
  BY DEF SagaInv, SagaTypes
<1>2. PICK action : action = [sgActions[a] EXCEPT !.status = status, !.ambiguous = ambiguous]
  OBVIOUS
<1>3. /\ action \in CorrectionRows /\ action.status = status /\ action.ambiguous = ambiguous
      /\ action.attempts = sgActions[a].attempts
  BY <1>1, <1>2 DEF CorrectionRows
<1>4. sgActions' = [sgActions EXCEPT ![a] = action]
  BY <1>2
<1> QED BY <1>3, <1>4

(* An action is handed to the operator. *)
LEMMA ToOperatorSound ==
  ASSUME SagaInv, NEW a \in SagaActions, ToOperator(a), sgActions[a].status \in {"started", "failed"},
         UNCHANGED <<sgSteps, sgEffects, sgOrders>>, DriverShape(sgDriver'),
         sgDriver'.at \notin {"attempt", "retryable", "ambiguous"},
         sgSaga.phase \notin {"none", "forward", "forward_succeeded"}
  PROVE  SagaInv'
<1>1. PICK action \in CorrectionRows :
        /\ sgActions' = [sgActions EXCEPT ![a] = action]
        /\ action.status = "manual" /\ action.attempts = sgActions[a].attempts
  <2>1. "manual" \in ActionStatuses
    BY DEF ActionStatuses
  <2>2. sgActions' = [sgActions EXCEPT ![a].status = "manual", ![a].ambiguous = TRUE]
    BY DEF ToOperator
  <2>3. \E action \in CorrectionRows :
          /\ sgActions' = [sgActions EXCEPT ![a] = action]
          /\ action.status = "manual" /\ action.ambiguous = TRUE
          /\ action.attempts = sgActions[a].attempts
    BY <2>1, <2>2, StatusChanges, Zenon
  <2> QED BY <2>3, Zenon
<1>2. /\ sgEffects[a] \in SUBSET Nat /\ sgOrders[a] \in Nat
      /\ ActionSound(sgActions[a], sgEffects[a], sgOrders[a])
  BY DEF SagaInv, SagaTypes, ActionsSound
<1>3. ActionSound(action, sgEffects[a], sgOrders[a])
  BY <1>1, <1>2 DEF ActionSound
<1>4. ActionBecomes(a, action, sgEffects[a], sgOrders[a])
  BY <1>1 DEF ActionBecomes, SagaInv, SagaTypes
<1>5. sgSaga' \in [phase : {"correcting", "manual", "completed"},
                   reason : {sgSaga.reason}, succeeded : {sgSaga.succeeded}]
  BY SagaPhases DEF ToOperator, SagaInv
<1> QED BY <1>1, <1>2, <1>3, <1>4, <1>5, OneActionStep

(* The second append after an ambiguous end. *)
LEMMA EscalateAmbiguitySound ==
  ASSUME SagaInv, EscalateAmbiguity
  PROVE  SagaInv'
<1> USE DEF SagaInv
<1>1. PICK a : a = Head(sgDriver.todo)
  OBVIOUS
<1>2. /\ sgDriver.at = "ambiguous" /\ ToOperator(a)
      /\ UNCHANGED <<sgSteps, sgEffects, sgOrders>>
      /\ sgSaga.phase \notin {"none", "forward", "forward_succeeded"}
  BY <1>1 DEF EscalateAmbiguity, PhasesInOrder
<1>3. DriverShape(sgDriver') /\ sgDriver'.at = "correcting"
  BY DEF EscalateAmbiguity, Settle, SagaTypes, DriverShape
<1>4. CASE a \in SagaActions
  <2>1. sgActions[a].status = "failed"
    BY <1>1, <1>2, <1>4 DEF DrivenActionStands
  <2> QED BY <1>2, <1>3, <1>4, <2>1, ToOperatorSound
<1>5. CASE a \notin SagaActions
  <2>1. sgActions' = sgActions
    BY <1>2, <1>5 DEF ToOperator, SagaTypes
  <2>2. sgSaga' \in [phase : {"correcting", "manual", "completed"},
                     reason : {sgSaga.reason}, succeeded : {sgSaga.succeeded}]
    BY <1>2, SagaPhases DEF ToOperator
  <2>3. /\ sgSaga'.phase \in {"correcting", "manual", "completed"}
        /\ sgSaga'.reason = sgSaga.reason /\ sgSaga'.succeeded = sgSaga.succeeded
    BY <2>2
  <2>4. SagaTypes'
    BY <1>2, <1>3, <2>1, <2>2 DEF SagaTypes, DriverShape
  <2>5. PhasesInOrder'
    BY <1>2, <2>3 DEF PhasesInOrder
  <2> QED BY <1>2, <1>3, <2>1, <2>3, <2>4, <2>5, QuietSagaStep
<1> QED BY <1>4, <1>5

(* The second append after a certain failure. *)
LEMMA ScheduleRetrySound ==
  ASSUME SagaInv, ScheduleRetry
  PROVE  SagaInv'
<1> USE DEF SagaInv
<1>1. PICK a : a = Head(sgDriver.todo)
  OBVIOUS
<1>2. /\ sgDriver.at = "retryable" /\ UNCHANGED <<sgSteps, sgSaga, sgEffects, sgOrders>>
      /\ sgSaga.phase \notin {"none", "forward", "forward_succeeded"}
  BY DEF ScheduleRetry, PhasesInOrder
<1>3. DriverShape(sgDriver') /\ sgDriver'.at \in {"correcting", "none"}
  BY IdleDriverShape DEF ScheduleRetry, DriverFails, SagaTypes, DriverShape
<1>4. CASE sgActions' = sgActions
  <2>1. SagaTypes' /\ PhasesInOrder'
    BY <1>2, <1>3, <1>4 DEF SagaTypes, PhasesInOrder, DriverShape
  <2> QED BY <1>2, <1>3, <1>4, <2>1, QuietSagaStep
<1>5. CASE sgActions' # sgActions
  <2>1. sgActions' = [sgActions EXCEPT ![a].status = "retry"]
    BY <1>1, <1>5 DEF ScheduleRetry
  <2>2. a \in SagaActions
    BY <1>5, <2>1 DEF SagaTypes
  <2>3. /\ sgActions[a].status = "failed" /\ ~sgActions[a].ambiguous
        /\ sgActions[a].ambiguous \in BOOLEAN
    BY <1>1, <1>2, <2>2 DEF DrivenActionStands, SagaTypes, CorrectionRows
  <2>4. PICK action \in CorrectionRows :
          /\ sgActions' = [sgActions EXCEPT ![a] = action]
          /\ action.status = "retry" /\ action.attempts = sgActions[a].attempts
    <3>1. sgActions[a] \in CorrectionRows /\ "retry" \in ActionStatuses
      BY <2>2 DEF SagaTypes, ActionStatuses
    <3>2. PICK k \in Nat, b \in BOOLEAN, s \in ActionStatuses :
            sgActions[a] = [status |-> s, attempts |-> k, ambiguous |-> b]
      BY <3>1 DEF CorrectionRows
    <3>3. PICK action : action = sgActions'[a]
      OBVIOUS
    <3>4. action = [status |-> "retry", attempts |-> k, ambiguous |-> b]
      BY <2>1, <2>2, <3>2, <3>3 DEF SagaTypes
    <3>5. sgActions' = [sgActions EXCEPT ![a] = action]
      BY <2>1, <2>2, <3>3 DEF SagaTypes
    <3>6. /\ action \in CorrectionRows /\ action.status = "retry"
          /\ action.attempts = sgActions[a].attempts
      BY <3>1, <3>2, <3>4 DEF CorrectionRows
    <3> QED BY <3>5, <3>6
  <2>5. /\ sgEffects[a] \in SUBSET Nat /\ sgOrders[a] \in Nat
        /\ ActionSound(sgActions[a], sgEffects[a], sgOrders[a])
    BY <2>2 DEF SagaTypes, ActionsSound
  <2>6. ActionSound(action, sgEffects[a], sgOrders[a])
    BY <2>3, <2>4, <2>5 DEF ActionSound
  <2>7. ActionBecomes(a, action, sgEffects[a], sgOrders[a])
    BY <1>2, <2>2, <2>4 DEF ActionBecomes, SagaTypes
  <2>8. sgSaga' \in [phase : {"correcting", "manual", "completed"},
                     reason : {sgSaga.reason}, succeeded : {sgSaga.succeeded}]
    BY <1>2, SagaPhases
  <2> QED BY <1>2, <1>3, <2>2, <2>3, <2>4, <2>5, <2>6, <2>7, <2>8, OneActionStep
<1> QED BY <1>4, <1>5

(* The operator orders another attempt: it answers for one more effect. *)
LEMMA OperatorRetriesSound ==
  ASSUME SagaInv, NEW a \in SagaActions, OperatorRetries(a)
  PROVE  SagaInv'
<1> USE DEF SagaInv
<1>1. /\ sgActions[a].status = "manual" /\ sgSaga.phase = "manual" /\ sgDriver' = sgDriver
      /\ UNCHANGED <<sgSteps, sgEffects>>
      /\ sgOrders' = [sgOrders EXCEPT ![a] = @ + 1]
  BY DEF OperatorRetries
<1>2. PICK action \in CorrectionRows :
        /\ sgActions' = [sgActions EXCEPT ![a] = action]
        /\ action.status = "retry" /\ action.attempts = sgActions[a].attempts
  <2>1. "retry" \in ActionStatuses
    BY DEF ActionStatuses
  <2>2. sgActions' = [sgActions EXCEPT ![a].status = "retry", ![a].ambiguous = FALSE]
    BY DEF OperatorRetries
  <2>3. \E action \in CorrectionRows :
          /\ sgActions' = [sgActions EXCEPT ![a] = action]
          /\ action.status = "retry" /\ action.ambiguous = FALSE
          /\ action.attempts = sgActions[a].attempts
    BY <2>1, <2>2, StatusChanges, Zenon
  <2> QED BY <2>3, Zenon
<1>3. /\ sgEffects[a] \in SUBSET Nat /\ sgOrders[a] \in Nat
      /\ ActionSound(sgActions[a], sgEffects[a], sgOrders[a])
  BY DEF SagaTypes, ActionsSound
<1>4. ActionSound(action, sgEffects[a], sgOrders[a] + 1)
  <2>1. sgActions[a].attempts \in Nat /\ sgEffects[a] \subseteq 1..sgActions[a].attempts
    BY <1>3 DEF ActionSound, SagaTypes, CorrectionRows
  <2>2. Cardinality(sgEffects[a]) \in Nat
    BY <2>1, CountedEffects
  <2> QED BY <1>2, <1>3, <2>1, <2>2 DEF ActionSound
<1>5. ActionBecomes(a, action, sgEffects[a], sgOrders[a] + 1)
  BY <1>1, <1>2 DEF ActionBecomes, SagaTypes
<1>6. sgSaga' \in [phase : {"correcting", "manual", "completed"},
                   reason : {sgSaga.reason}, succeeded : {sgSaga.succeeded}]
  BY <1>1, SagaPhases DEF OperatorRetries
<1>7. DriverShape(sgDriver')
  BY <1>1 DEF SagaTypes, DriverShape
<1> QED BY <1>1, <1>2, <1>3, <1>4, <1>5, <1>6, <1>7, OneActionStep

(* A restarted process hands an unfinished attempt to the operator. *)
LEMMA RecoverSagaRunSound ==
  ASSUME SagaInv, RecoverSagaRun
  PROVE  SagaInv'
<1> USE DEF SagaInv
<1>1. /\ UNCHANGED <<sgEffects, sgOrders>> /\ sgDriver' = NoDriving
      /\ DriverShape(sgDriver') /\ sgDriver'.at = "none"
  BY IdleDriverShape DEF RecoverSagaRun
<1>2. CASE {a \in SagaActions : sgActions[a].status = "started"} # {}
  <2>1. PICK a \in SagaActions : /\ sgActions[a].status = "started"
                                 /\ InterruptCorrection(a) /\ sgSteps' = sgSteps
    <3>1. PICK active : active = {a \in SagaActions : sgActions[a].status = "started"}
      OBVIOUS
    <3>2. (CHOOSE a \in active : TRUE) \in active
      BY <1>2, <3>1, Zenon
    <3>3. InterruptCorrection(CHOOSE a \in active : TRUE) /\ sgSteps' = sgSteps
      BY <1>2, <3>1 DEF RecoverSagaRun
    <3> QED BY <3>1, <3>2, <3>3
  <2>2. sgSaga.phase \notin {"none", "forward", "forward_succeeded"}
    <3>1. sgActions[a].attempts # 0
      <4>1. /\ sgActions[a].attempts \in sgEffects[a]
            /\ sgEffects[a] \subseteq 1..sgActions[a].attempts
        BY <2>1 DEF ActionsSound, ActionSound
      <4> QED BY <4>1
    <3> QED BY <3>1 DEF PhasesInOrder
  <2> QED BY <1>1, <2>1, <2>2, ToOperatorSound DEF InterruptCorrection
<1>3. CASE {a \in SagaActions : sgActions[a].status = "started"} = {}
  <2>1. /\ UNCHANGED <<sgActions, sgSaga>>
        /\ \/ sgSteps' = sgSteps
           \/ sgSteps' = [i \in 1..SagaLength |->
                            IF i \in {j \in 1..SagaLength : sgSteps[j] = "started"}
                              THEN "failed" ELSE sgSteps[i]]
    BY <1>3 DEF RecoverSagaRun
  <2>2. SagaTypes' /\ PhasesInOrder'
    BY <1>1, <2>1 DEF SagaTypes, PhasesInOrder, DriverShape
  <2>3. \A i \in 1..SagaLength : sgSteps[i] = "succeeded" => sgSteps'[i] = "succeeded"
    BY <2>1
  <2> QED BY <1>1, <2>1, <2>2, <2>3, QuietSagaStep
<1> QED BY <1>2, <1>3

LEMMA SagaInitially == SagaInit => SagaInv
<1> SUFFICES ASSUME SagaInit PROVE SagaInv
  OBVIOUS
<1>1. /\ \A a \in SagaActions : /\ sgActions[a] = NoAction /\ sgEffects[a] = {}
                                /\ sgOrders[a] = 0
      /\ NoAction \in CorrectionRows
      /\ NoAction.status = "absent" /\ NoAction.attempts = 0
  BY DEF SagaInit, NoAction, CorrectionRows, ActionStatuses
<1>2. DriverShape(sgDriver) /\ sgDriver.at = "loop"
  BY IdleDriverShape DEF SagaInit
<1>3. SagaTypes
  BY <1>1, <1>2 DEF SagaInit, SagaTypes, DriverShape
<1>4. ActionsSound
  <2>1. Cardinality({}) = 0
    BY FS_EmptySet
  <2>2. ActionSound(NoAction, {}, 0)
    BY <1>1, <2>1 DEF ActionSound
  <2> QED BY <1>1, <2>2, Zenon DEF ActionsSound
<1>5. RegisteredSucceeded
  BY <1>1 DEF RegisteredSucceeded, SagaActions, Compensations
<1>6. DrivenActionStands /\ PhasesInOrder /\ CommittedNeverUndone
  BY <1>1, <1>2 DEF DrivenActionStands, PhasesInOrder, CommittedNeverUndone, SagaInit
<1> QED BY <1>3, <1>4, <1>5, <1>6 DEF SagaInv

LEMMA SagaStepInductive ==
  ASSUME SagaInv, [SagaNext]_sgVars
  PROVE  SagaInv'
<1>1. CASE UNCHANGED sgVars
  BY <1>1 DEF sgVars, SagaInv, SagaTypes, ActionsSound, RegisteredSucceeded,
              DrivenActionStands, PhasesInOrder, CommittedNeverUndone
<1>2. CASE SagaNext
  <2>1. CASE \/ SagaOpens \/ SagaCommits \/ RunStalls \/ RunEnds \/ RequestSagaCancellation
             \/ CorrectionReturns \/ CrashSagaProcess \/ ResumeCorrection \/ ResumeSagaRun
    BY <2>1, ForwardWorkQuiet
  <2>2. CASE \E i \in 1..SagaLength : ForwardStepStarts(i) \/ ForwardStepEnds(i)
    BY <2>2, ForwardWorkQuiet, ForwardStepEndsSound
  <2>3. CASE BeginCorrection \/ CorrectionEnds
    BY <2>3, BeginCorrectionQuiet, CorrectionEndsQuiet
  <2>4. CASE ConsiderAction \/ AttemptEnds
    BY <2>4, ConsiderActionSound, AttemptEndsSound
  <2>5. CASE EscalateAmbiguity \/ ScheduleRetry \/ RecoverSagaRun
    BY <2>5, EscalateAmbiguitySound, ScheduleRetrySound, RecoverSagaRunSound
  <2>6. CASE \E a \in SagaActions : OperatorRetries(a) \/ OperatorResolves(a)
    BY <2>6, ForwardWorkQuiet, OperatorRetriesSound
  <2> QED BY <1>2, <2>1, <2>2, <2>3, <2>4, <2>5, <2>6 DEF SagaNext
<1> QED BY <1>1, <1>2

(* Corrections are not repeated without an order of the operator, and none *)
(* undoes committed work, for every saga, retry policy and number of       *)
(* crashes (execute_corrective_action, recover_run,                        *)
(* recover_correction_v1, apply_saga_correction_started).                  *)
THEOREM SagaSound == SagaSpec => []CorrectionsSound
<1>1. SagaInit => SagaInv
  BY SagaInitially
<1>2. SagaInv /\ [SagaNext]_sgVars => SagaInv'
  BY SagaStepInductive
<1>3. SagaInv => CorrectionsSound
  BY DEF SagaInv, CorrectionsSound, NoBlindRepeat, ActionsSound, ActionSound
<1> QED BY <1>1, <1>2, <1>3, PTL DEF SagaSpec

-----------------------------------------------------------------------------
(* RemoteDispatch: the script of a dispatch runs at most once.             *)

(* A dispatch that is taken is bound to one worker session for good: it is *)
(* not offered again.                                                      *)
Taken(d) == rdRow[d].state \notin {"absent", "requested", "offered"}

(* The journal of w knows that the script of d may have run. *)
JournalBegun(w, d) == rdJournal[w][d].state \notin {"absent", "accepted"}

JournalsHeld ==
  \A w \in RemoteWorkers, d \in Dispatches :
    JournalBegun(w, d) => Taken(d) /\ rdRow[d].worker = w

(* The queue holds every dispatch at most once, and none that is offered   *)
(* or further.                                                             *)
QueueSound ==
  \A i \in DOMAIN rdQueue : rdRow[rdQueue[i]].state = "requested"

(* What a worker is at belongs to its session, and from the answer to its  *)
(* acceptance on the dispatch is its own.                                  *)
Committed == {"accepted", "journalled", "starting", "running", "executing"}

WorkerSound(w) ==
  LET u == rdWorker[w] IN
  /\ u.at # "down" => u.session \in 1..Len(rdSessions)
  /\ u.at \notin {"down", "idle", "polling"} => u.dispatch \in Dispatches
  /\ u.at \in {"ended", "reporting"} => rdJournal[w][u.dispatch].state \in WorkerOutcomes
  /\ u.at \in Committed => /\ Taken(u.dispatch) /\ rdRow[u.dispatch].worker = w
                           /\ rdRow[u.dispatch].session = u.session

WorkersSound == \A w \in RemoteWorkers : WorkerSound(w)

(* A request in flight is of a session that began, reports what the        *)
(* journal holds and, in the session that its worker is still in, is what  *)
(* the worker waits for; a session has one request at a time.              *)
RequestSound(q) ==
  /\ q.session <= Len(rdSessions)
  /\ q.kind # "poll" => q.dispatch \in Dispatches
  /\ q.kind = "terminal" => /\ q.detail \in WorkerOutcomes
                            /\ rdJournal[q.worker][q.dispatch].state = q.detail
  /\ rdWorker[q.worker].session = q.session =>
       Waiting(q) /\ rdWorker[q.worker].dispatch = q.dispatch
  /\ \A p \in rdWire : p.worker = q.worker /\ p.session = q.session => p = q

WireSound == \A q \in rdWire : RequestSound(q)

(* A dispatch that was executed is not about to be executed again. *)
Executable(w, d) ==
  rdWorker[w].dispatch = d /\ rdWorker[w].at \in {"journalled", "starting", "running"}

ExecutedOnce ==
  \A d \in Dispatches :
    /\ rdExecuted[d] <= 1
    /\ rdExecuted[d] # 0 => \E w \in RemoteWorkers : /\ JournalBegun(w, d)
                                                      /\ ~Executable(w, d)

DigestsHeld ==
  \A d \in Dispatches : rdRow[d].digest \in WorkerOutcomes =>
    rdRow[d].worker # Nobody /\ rdJournal[rdRow[d].worker][d].state = rdRow[d].digest

RemoteInv ==
  /\ RemoteTypeOK /\ JournalsHeld /\ QueueSound /\ WorkersSound /\ WireSound
  /\ ExecutedOnce /\ DigestsHeld

DispatchRows ==
  [state : RowStates, worker : RemoteWorkers \cup {Nobody}, session : 0..MaxSessions,
   due : BOOLEAN, digest : WorkerOutcomes \cup {"none", "evidence"}]

WorkerPlaces ==
  [at : WorkerSteps, session : 0..MaxSessions, dispatch : Dispatches \cup {Nobody}]

(* What a step may do to the rows: a taken dispatch stays with its worker  *)
(* session.                                                                *)
RowsAdvance ==
  \A d \in Dispatches : Taken(d) =>
    Taken(d)' /\ rdRow'[d].worker = rdRow[d].worker /\ rdRow'[d].session = rdRow[d].session

(* A step of the coordinator that answers nobody. *)
LEMMA CoordinatorStep ==
  ASSUME RemoteInv, RemoteTypeOK', QueueSound', DigestsHeld', RowsAdvance,
         UNCHANGED <<rdJournal, rdWorker, rdExecuted>>, rdWire' \subseteq rdWire,
         Len(rdSessions') = Len(rdSessions)
  PROVE  RemoteInv'
<1> USE DEF RemoteInv
<1>1. JournalsHeld'
  BY DEF JournalsHeld, JournalBegun, RowsAdvance
<1>2. WorkersSound'
  <2> SUFFICES ASSUME NEW w \in RemoteWorkers PROVE WorkerSound(w)'
    BY DEF WorkersSound
  <2>1. WorkerSound(w)
    BY DEF WorkersSound
  <2>2. Committed \cap {"down", "idle", "polling"} = {}
    BY DEF Committed
  <2> QED BY <2>1, <2>2 DEF WorkerSound, RowsAdvance
<1>3. WireSound'
  BY DEF WireSound, RequestSound, Waiting
<1>4. ExecutedOnce'
  BY DEF ExecutedOnce, JournalBegun, Executable
<1> QED BY <1>1, <1>2, <1>3, <1>4

(* A sequence of the members of a finite set. *)
LEMMA SetToSeqMembers ==
  ASSUME NEW S, IsFiniteSet(S)
  PROVE  /\ SetToSeq(S) \in Seq(S) /\ IsInjective(SetToSeq(S))
<1>1. Cardinality(S) \in Nat /\ ExistsBijection(1..Cardinality(S), S)
  BY FS_CardinalityType
<1>2. PICK f : f \in Bijection(1..Cardinality(S), S)
  BY <1>1 DEF ExistsBijection
<1>3. f \in [1..Cardinality(S) -> S] /\ IsInjective(f)
  BY <1>2 DEF Bijection, Injection, IsInjective
<1>4. SetToSeq(S) \in [1..Cardinality(S) -> S] /\ IsInjective(SetToSeq(S))
  BY <1>3, Zenon DEF SetToSeq
<1>5. SetToSeq(S) \in Seq(S)
  BY <1>1, <1>4
<1> QED BY <1>4, <1>5

(* Sequences without repetitions. *)
LEMMA InjectiveAppend ==
  ASSUME NEW S, NEW s \in Seq(S), NEW t \in Seq(S), IsInjective(s), IsInjective(t),
         ToSet(s) \cap ToSet(t) = {}
  PROVE  /\ s \o t \in Seq(S) /\ IsInjective(s \o t)
         /\ \A i \in DOMAIN (s \o t) : (s \o t)[i] \in ToSet(s) \/ (s \o t)[i] \in ToSet(t)
<1>1. /\ s \o t \in Seq(S) /\ DOMAIN (s \o t) = 1..(Len(s) + Len(t))
      /\ DOMAIN s = 1..Len(s) /\ DOMAIN t = 1..Len(t) /\ Len(s) \in Nat /\ Len(t) \in Nat
  OBVIOUS
<1>2. \A i \in DOMAIN (s \o t) :
        \/ i \in DOMAIN s /\ (s \o t)[i] = s[i]
        \/ i - Len(s) \in DOMAIN t /\ (s \o t)[i] = t[i - Len(s)]
  BY <1>1
<1>3. \A i \in DOMAIN s : s[i] \in ToSet(s)
  BY DEF ToSet
<1>4. \A i \in DOMAIN t : t[i] \in ToSet(t)
  BY DEF ToSet
<1>5. IsInjective(s \o t)
  <2> SUFFICES ASSUME NEW i \in DOMAIN (s \o t), NEW j \in DOMAIN (s \o t),
                      (s \o t)[i] = (s \o t)[j]
               PROVE  i = j
    BY DEF IsInjective
  <2>1. CASE /\ i \in DOMAIN s /\ (s \o t)[i] = s[i]
             /\ j \in DOMAIN s /\ (s \o t)[j] = s[j]
    BY <2>1 DEF IsInjective
  <2>2. CASE /\ i - Len(s) \in DOMAIN t /\ (s \o t)[i] = t[i - Len(s)]
             /\ j - Len(s) \in DOMAIN t /\ (s \o t)[j] = t[j - Len(s)]
    <3>1. i - Len(s) = j - Len(s)
      BY <2>2 DEF IsInjective
    <3> QED BY <1>1, <3>1
  <2>3. ~(\E k \in DOMAIN s, l \in DOMAIN t : s[k] = t[l])
    BY <1>3, <1>4
  <2> QED BY <1>2, <2>1, <2>2, <2>3
<1> QED BY <1>1, <1>2, <1>3, <1>4, <1>5

(* Steps that change one row and leave the queue alone. *)
LEMMA RowChangesQuietly ==
  ASSUME RemoteInv, NEW d \in Dispatches, NEW row \in DispatchRows,
         rdRow' = [rdRow EXCEPT ![d] = row],
         UNCHANGED <<rdQueue, rdPackages, rdFacts, rdSessions, rdJournal, rdWorker, rdWire,
                     rdExecuted, rdRestarts>>,
         row.worker = rdRow[d].worker, row.session = rdRow[d].session,
         row.digest \in WorkerOutcomes => row.digest = rdRow[d].digest,
         rdRow[d].state # "requested", Taken(d) => Taken(d)'
  PROVE  RemoteInv'
<1> USE DEF RemoteInv
<1>1. /\ rdRow \in [Dispatches -> DispatchRows] /\ rdRow' \in [Dispatches -> DispatchRows]
      /\ rdRow'[d] = row /\ \A e \in Dispatches : e # d => rdRow'[e] = rdRow[e]
  BY DEF RemoteTypeOK, DispatchRows
<1>2. RemoteTypeOK'
  BY <1>1 DEF RemoteTypeOK, DispatchRows
<1>3. RowsAdvance
  BY <1>1 DEF RowsAdvance, Taken
<1>4. DigestsHeld'
  BY <1>1 DEF DigestsHeld
<1>5. QueueSound'
  <2>1. \A i \in DOMAIN rdQueue : rdQueue[i] \in Dispatches
    BY DEF RemoteTypeOK
  <2> QED BY <1>1, <2>1 DEF QueueSound
<1> QED BY <1>2, <1>3, <1>4, <1>5, CoordinatorStep

LEMMA RowMarks ==
  ASSUME RemoteInv, NEW d \in Dispatches,
         OfferExpires(d) \/ RequestDispatchCancel(d) \/ ReconcileDispatch(d)
  PROVE  RemoteInv'
<1>1. rdRow[d] \in DispatchRows /\ rdRow \in [Dispatches -> DispatchRows]
  BY DEF RemoteInv, RemoteTypeOK, DispatchRows
<1>2. CASE OfferExpires(d)
  <2>1. PICK row : row = [rdRow[d] EXCEPT !.due = TRUE]
    OBVIOUS
  <2>2. /\ row \in DispatchRows /\ row.state = rdRow[d].state /\ row.worker = rdRow[d].worker
        /\ row.session = rdRow[d].session /\ row.digest = rdRow[d].digest
    BY <1>1, <2>1 DEF DispatchRows
  <2>3. /\ rdRow' = [rdRow EXCEPT ![d] = row] /\ rdRow[d].state # "requested"
        /\ UNCHANGED <<rdQueue, rdPackages, rdFacts, rdSessions, rdJournal, rdWorker, rdWire,
                       rdExecuted, rdRestarts>>
    BY <1>2, <2>1 DEF OfferExpires, coordinatorMemory
  <2>4. Taken(d) => Taken(d)'
    BY <1>1, <2>2, <2>3 DEF Taken
  <2> QED BY <2>2, <2>3, <2>4, RowChangesQuietly
<1>3. CASE RequestDispatchCancel(d)
  <2>1. PICK row : row = [rdRow[d] EXCEPT !.state = "cancel_requested"]
    OBVIOUS
  <2>2. /\ row \in DispatchRows /\ row.state = "cancel_requested" /\ row.worker = rdRow[d].worker
        /\ row.session = rdRow[d].session /\ row.digest = rdRow[d].digest
    BY <1>1, <2>1 DEF DispatchRows, RowStates
  <2>3. /\ rdRow' = [rdRow EXCEPT ![d] = row] /\ rdRow[d].state # "requested"
        /\ UNCHANGED <<rdQueue, rdPackages, rdFacts, rdSessions, rdJournal, rdWorker, rdWire,
                       rdExecuted, rdRestarts>>
    BY <1>3, <2>1 DEF RequestDispatchCancel, coordinatorMemory
  <2>4. Taken(d) => Taken(d)'
    BY <1>1, <2>2, <2>3 DEF Taken
  <2> QED BY <2>2, <2>3, <2>4, RowChangesQuietly
<1>4. CASE ReconcileDispatch(d)
  <2>1. PICK row : /\ row \in {[rdRow[d] EXCEPT !.state = "abandoned"],
                               [rdRow[d] EXCEPT !.state = "failed", !.digest = "evidence"]}
                   /\ rdRow' = [rdRow EXCEPT ![d] = row]
    BY <1>4 DEF ReconcileDispatch
  <2>2. /\ row \in DispatchRows /\ row.state \in {"abandoned", "failed"}
        /\ row.worker = rdRow[d].worker /\ row.session = rdRow[d].session
        /\ row.digest = rdRow[d].digest \/ row.digest \notin WorkerOutcomes
    BY <1>1, <2>1 DEF DispatchRows, RowStates, WorkerOutcomes
  <2>3. /\ rdRow[d].state # "requested"
        /\ UNCHANGED <<rdQueue, rdPackages, rdFacts, rdSessions, rdJournal, rdWorker, rdWire,
                       rdExecuted, rdRestarts>>
    BY <1>4 DEF ReconcileDispatch, coordinatorMemory
  <2>4. Taken(d) => Taken(d)'
    BY <1>1, <2>1, <2>2 DEF Taken
  <2> QED BY <2>1, <2>2, <2>3, <2>4, RowChangesQuietly
<1> QED BY <1>2, <1>3, <1>4

(* A restart and an expired session. *)
LEMMA SessionsClose ==
  ASSUME RemoteInv,
         RestartCoordinator \/ \E s \in DOMAIN rdSessions : ExpireSession(s)
  PROVE  RemoteInv'
<1> USE DEF RemoteInv
<1> DEFINE SessionRows == [worker : RemoteWorkers, open : BOOLEAN, active : 0..SlotsPerWorker]
<1>1. rdSessions \in Seq(SessionRows) /\ Len(rdSessions) <= MaxSessions
  BY DEF RemoteTypeOK
<1>2. CASE RestartCoordinator
  <2>1. /\ rdSessions' = [s \in DOMAIN rdSessions |-> [rdSessions[s] EXCEPT !.open = FALSE]]
        /\ DOMAIN rdSessions = 1..Len(rdSessions)
    BY <1>1, <1>2 DEF RestartCoordinator
  <2>2. \A s \in DOMAIN rdSessions : [rdSessions[s] EXCEPT !.open = FALSE] \in SessionRows
    <3> SUFFICES ASSUME NEW s \in DOMAIN rdSessions
                 PROVE  [rdSessions[s] EXCEPT !.open = FALSE] \in SessionRows
      OBVIOUS
    <3>1. rdSessions[s] \in SessionRows
      <4> HIDE DEF SessionRows
      <4> QED BY <1>1
    <3> QED BY <3>1
  <2>3. rdSessions' \in Seq(SessionRows) /\ Len(rdSessions') = Len(rdSessions)
    <3> HIDE DEF SessionRows
    <3>1. rdSessions' \in [1..Len(rdSessions) -> SessionRows]
      BY <2>1, <2>2
    <3> QED BY <1>1, <3>1
  <2>4. /\ rdQueue' = <<>> /\ rdPackages' = {} /\ rdFacts' = {} /\ rdWire' = {}
        /\ UNCHANGED <<rdRow, rdJournal, rdWorker, rdExecuted>>
        /\ rdRestarts' \in 0..MaxCoordinatorRestarts
    BY <1>2, RemoteAssumption DEF RestartCoordinator, RemoteTypeOK
  <2>5. /\ rdQueue' \in Seq(Dispatches) /\ IsInjective(rdQueue') /\ ToSet(rdQueue') = {}
        /\ DOMAIN rdQueue' = {}
    BY <2>4 DEF IsInjective, ToSet
  <2>6. RemoteTypeOK'
    BY <1>1, <2>3, <2>4, <2>5 DEF RemoteTypeOK
  <2>7. QueueSound' /\ DigestsHeld' /\ RowsAdvance
    BY <2>4, <2>5 DEF QueueSound, DigestsHeld, RowsAdvance, Taken
  <2> QED BY <2>3, <2>4, <2>6, <2>7, CoordinatorStep
<1>3. ASSUME NEW s \in DOMAIN rdSessions, ExpireSession(s) PROVE RemoteInv'
  <2>1. /\ rdSessions' = [rdSessions EXCEPT ![s].open = FALSE]
        /\ UNCHANGED <<rdRow, rdQueue, rdPackages, rdFacts, rdJournal, rdWorker, rdWire,
                       rdExecuted, rdRestarts>>
    BY <1>3 DEF ExpireSession, coordinatorMemory
  <2>2. rdSessions' \in Seq(SessionRows) /\ Len(rdSessions') = Len(rdSessions)
    <3>1. PICK row : row = [rdSessions[s] EXCEPT !.open = FALSE]
      OBVIOUS
    <3>2. rdSessions[s] \in SessionRows
      <4> HIDE DEF SessionRows
      <4> QED BY <1>1, <1>3
    <3>3. row \in SessionRows
      BY <3>1, <3>2
    <3>4. rdSessions' = [rdSessions EXCEPT ![s] = row]
      BY <2>1, <3>1
    <3> HIDE DEF SessionRows
    <3> QED BY <1>1, <3>3, <3>4
  <2>3. RemoteTypeOK'
    BY <1>1, <2>1, <2>2 DEF RemoteTypeOK
  <2>4. QueueSound' /\ DigestsHeld' /\ RowsAdvance
    BY <2>1 DEF QueueSound, DigestsHeld, RowsAdvance, Taken
  <2> QED BY <2>1, <2>2, <2>3, <2>4, CoordinatorStep
<1> QED BY <1>2, <1>3

(* A dispatch is requested and queued. *)
LEMMA EnqueueSound ==
  ASSUME RemoteInv, NEW d \in Dispatches, EnqueueDispatch(d)
  PROVE  RemoteInv'
<1> USE DEF RemoteInv
<1>1. PICK row : /\ row = IF rdRow[d].state = "absent"
                            THEN [NoRow EXCEPT !.state = "requested"] ELSE rdRow[d]
                 /\ rdRow' = [rdRow EXCEPT ![d] = row]
                 /\ rdQueue' = IF row.state = "requested" THEN Append(rdQueue, d) ELSE rdQueue
  BY DEF EnqueueDispatch
<1>2. rdRow[d] \in DispatchRows /\ rdRow \in [Dispatches -> DispatchRows]
  BY DEF RemoteTypeOK, DispatchRows
<1>3. /\ row \in DispatchRows
      /\ \/ row = rdRow[d]
         \/ rdRow[d].state = "absent" /\ row.state = "requested" /\ row.digest = "none"
  <2>1. PICK fresh : fresh = [NoRow EXCEPT !.state = "requested"]
    OBVIOUS
  <2>2. fresh \in DispatchRows /\ fresh.state = "requested" /\ fresh.digest = "none"
    <3>1. 0 \in 0..MaxSessions
      BY RemoteAssumption
    <3>2. NoRow \in DispatchRows /\ NoRow.digest = "none"
      BY <3>1 DEF NoRow, DispatchRows, RowStates
    <3>3. "requested" \in RowStates
      BY DEF RowStates
    <3> QED BY <2>1, <3>2, <3>3 DEF DispatchRows
  <2> QED BY <1>1, <1>2, <2>1, <2>2
<1>4. /\ rdRow' \in [Dispatches -> DispatchRows] /\ rdRow'[d] = row
      /\ \A e \in Dispatches : e # d => rdRow'[e] = rdRow[e]
  BY <1>1, <1>2, <1>3
<1>5. /\ d \notin rdPackages /\ rdPackages' = rdPackages \cup {d}
      /\ UNCHANGED <<rdFacts, rdSessions, rdJournal, rdWorker, rdWire, rdExecuted, rdRestarts>>
  BY DEF EnqueueDispatch
<1>6. /\ rdQueue \in Seq(Dispatches) /\ IsInjective(rdQueue) /\ ToSet(rdQueue) \subseteq rdPackages
      /\ d \notin ToSet(rdQueue)
  BY <1>5 DEF RemoteTypeOK
<1>7. /\ rdQueue' \in Seq(Dispatches) /\ IsInjective(rdQueue') /\ ToSet(rdQueue') \subseteq rdPackages'
      /\ QueueSound'
  <2>1. \A i \in DOMAIN rdQueue : rdQueue[i] \in Dispatches /\ rdQueue[i] # d
    BY <1>6 DEF ToSet
  <2>2. CASE row.state = "requested"
    <3>1. /\ rdQueue' \in Seq(Dispatches) /\ DOMAIN rdQueue' = 1..(Len(rdQueue) + 1)
          /\ DOMAIN rdQueue = 1..Len(rdQueue) /\ Len(rdQueue) \in Nat
          /\ rdQueue'[Len(rdQueue) + 1] = d
          /\ \A i \in DOMAIN rdQueue : rdQueue'[i] = rdQueue[i]
      BY <1>1, <1>6, <2>2
    <3>2. IsInjective(rdQueue')
      BY <1>6, <2>1, <3>1 DEF IsInjective
    <3>3. ToSet(rdQueue') \subseteq rdPackages'
      BY <1>5, <1>6, <3>1 DEF ToSet
    <3>4. QueueSound'
      BY <1>4, <2>1, <2>2, <3>1 DEF QueueSound
    <3> QED BY <3>1, <3>2, <3>3, <3>4
  <2>3. CASE row.state # "requested"
    BY <1>1, <1>4, <1>5, <1>6, <2>1, <2>3 DEF QueueSound
  <2> QED BY <2>2, <2>3
<1>8. RemoteTypeOK'
  BY <1>4, <1>5, <1>7 DEF RemoteTypeOK, DispatchRows
<1>9. RowsAdvance
  BY <1>3, <1>4 DEF RowsAdvance, Taken
<1>10. DigestsHeld'
  BY <1>3, <1>4, <1>5 DEF DigestsHeld, WorkerOutcomes
<1> QED BY <1>5, <1>7, <1>8, <1>9, <1>10, CoordinatorStep

(* An offer that expired is requested again, what was accepted is not. *)
LEMMA LostRowSound ==
  ASSUME NEW r \in DispatchRows
  PROVE  /\ LostRow(r) \in DispatchRows
         /\ \/ LostRow(r) = r
            \/ /\ r.state = "offered" /\ LostRow(r).state = "requested"
               /\ LostRow(r).digest = "none"
            \/ /\ r.state \in {"accepted", "started", "cancel_requested"}
               /\ LostRow(r).state = "ambiguous" /\ LostRow(r).worker = r.worker
               /\ LostRow(r).session = r.session /\ LostRow(r).digest = r.digest
<1>1. CASE r.state = "offered" /\ r.due
  <2>1. PICK fresh : fresh = [NoRow EXCEPT !.state = "requested"]
    OBVIOUS
  <2>2. fresh \in DispatchRows /\ fresh.state = "requested" /\ fresh.digest = "none"
    <3>1. 0 \in 0..MaxSessions
      BY RemoteAssumption
    <3>2. NoRow \in DispatchRows /\ NoRow.digest = "none"
      BY <3>1 DEF NoRow, DispatchRows, RowStates
    <3>3. "requested" \in RowStates
      BY DEF RowStates
    <3> QED BY <2>1, <3>2, <3>3 DEF DispatchRows
  <2>3. LostRow(r) = fresh
    BY <1>1, <2>1 DEF LostRow
  <2> QED BY <1>1, <2>2, <2>3
<1>2. CASE r.state \in {"accepted", "started", "cancel_requested"} /\ r.due
  <2>1. PICK lost : lost = [r EXCEPT !.state = "ambiguous"]
    OBVIOUS
  <2>2. /\ lost \in DispatchRows /\ lost.state = "ambiguous" /\ lost.worker = r.worker
        /\ lost.session = r.session /\ lost.digest = r.digest
    BY <2>1 DEF DispatchRows, RowStates
  <2>3. LostRow(r) = lost
    BY <1>2, <2>1 DEF LostRow
  <2> QED BY <1>2, <2>2, <2>3
<1>3. CASE ~(r.state = "offered" /\ r.due)
           /\ ~(r.state \in {"accepted", "started", "cancel_requested"} /\ r.due)
  BY <1>3 DEF LostRow
<1> QED BY <1>1, <1>2, <1>3

LEMMA MaintainSound ==
  ASSUME RemoteInv, MaintainDispatches
  PROVE  RemoteInv'
<1> USE DEF RemoteInv
<1>1. PICK again : /\ again = {d \in rdPackages : rdRow[d].state = "offered"
                                                   /\ rdRow'[d].state = "requested"}
                   /\ rdQueue' = rdQueue \o SetToSeq(again \ ToSet(rdQueue))
  BY DEF MaintainDispatches
<1>2. /\ rdRow' = [d \in Dispatches |-> LostRow(rdRow[d])]
      /\ UNCHANGED <<rdPackages, rdFacts, rdSessions, rdJournal, rdWorker, rdWire,
                     rdExecuted, rdRestarts>>
  BY DEF MaintainDispatches
<1>3. /\ rdRow \in [Dispatches -> DispatchRows] /\ rdPackages \subseteq Dispatches
      /\ rdQueue \in Seq(Dispatches) /\ IsInjective(rdQueue) /\ ToSet(rdQueue) \subseteq rdPackages
  BY DEF RemoteTypeOK, DispatchRows
<1>4. /\ rdRow' \in [Dispatches -> DispatchRows]
      /\ \A d \in Dispatches :
           \/ rdRow'[d] = rdRow[d]
           \/ /\ rdRow[d].state = "offered" /\ rdRow'[d].state = "requested"
              /\ rdRow'[d].digest = "none"
           \/ /\ rdRow[d].state \in {"accepted", "started", "cancel_requested"}
              /\ rdRow'[d].state = "ambiguous" /\ rdRow'[d].worker = rdRow[d].worker
              /\ rdRow'[d].session = rdRow[d].session /\ rdRow'[d].digest = rdRow[d].digest
  <2>1. \A d \in Dispatches : rdRow'[d] = LostRow(rdRow[d]) /\ rdRow[d] \in DispatchRows
    BY <1>2, <1>3
  <2>2. rdRow' \in [Dispatches -> DispatchRows]
    BY <1>2, <2>1, LostRowSound, Zenon
  <2> QED BY <2>1, <2>2, LostRowSound
<1>5. PICK added : added = SetToSeq(again \ ToSet(rdQueue))
  OBVIOUS
<1>6. /\ added \in Seq(again \ ToSet(rdQueue)) /\ IsInjective(added)
  <2>1. IsFiniteSet(again \ ToSet(rdQueue))
    <3>1. again \ ToSet(rdQueue) \subseteq Dispatches
      BY <1>1, <1>3
    <3> QED BY <3>1, FS_Subset, RemoteAssumption, Zenon
  <2> QED BY <1>5, <2>1, SetToSeqMembers
<1>7. ToSet(added) \subseteq again \ ToSet(rdQueue) /\ added \in Seq(Dispatches)
  <2>1. again \ ToSet(rdQueue) \subseteq Dispatches
    BY <1>1, <1>3
  <2>2. \A i \in DOMAIN added : added[i] \in again \ ToSet(rdQueue)
    BY <1>6
  <2>3. added \in Seq(Dispatches)
    BY <1>6, <2>1
  <2> QED BY <2>2, <2>3 DEF ToSet
<1>8. /\ rdQueue' \in Seq(Dispatches) /\ IsInjective(rdQueue')
      /\ \A i \in DOMAIN rdQueue' : rdQueue'[i] \in ToSet(rdQueue) \/ rdQueue'[i] \in ToSet(added)
  <2>1. ToSet(rdQueue) \cap ToSet(added) = {}
    BY <1>7
  <2> QED BY <1>1, <1>3, <1>5, <1>6, <1>7, <2>1, InjectiveAppend
<1>9. ToSet(rdQueue') \subseteq rdPackages'
  <2>1. ToSet(added) \subseteq rdPackages
    BY <1>1, <1>7
  <2> QED BY <1>2, <1>3, <1>8, <2>1 DEF ToSet
<1>10. QueueSound'
  <2> SUFFICES ASSUME NEW i \in DOMAIN rdQueue' PROVE rdRow'[rdQueue'[i]].state = "requested"
    BY DEF QueueSound
  <2>1. CASE rdQueue'[i] \in ToSet(rdQueue)
    <3>1. PICK j \in DOMAIN rdQueue : rdQueue[j] = rdQueue'[i]
      BY <2>1 DEF ToSet
    <3>2. rdRow[rdQueue'[i]].state = "requested" /\ rdQueue'[i] \in Dispatches
      BY <1>3, <2>1, <3>1 DEF QueueSound
    <3> QED BY <1>4, <3>2
  <2>2. CASE rdQueue'[i] \in ToSet(added)
    BY <1>1, <1>7, <2>2
  <2> QED BY <1>8, <2>1, <2>2
<1>11. RemoteTypeOK'
  BY <1>2, <1>4, <1>8, <1>9 DEF RemoteTypeOK, DispatchRows
<1>12. RowsAdvance
  BY <1>4 DEF RowsAdvance, Taken
<1>13. DigestsHeld'
  BY <1>2, <1>4 DEF DigestsHeld, WorkerOutcomes
<1> QED BY <1>2, <1>10, <1>11, <1>12, <1>13, CoordinatorStep

(* A step that answers the request q: the worker that waits for it goes on *)
(* and has no other request under way in its session.                      *)
LEMMA ServedStep ==
  ASSUME RemoteInv, RemoteTypeOK', QueueSound', DigestsHeld', RowsAdvance,
         NEW q \in rdWire, rdWire' = rdWire \ {q}, UNCHANGED <<rdJournal, rdExecuted>>,
         Len(rdSessions') = Len(rdSessions),
         NEW at \in {"offered", "idle", "accepted", "running", "down"},
         NEW d \in Dispatches \cup {Nobody}, Answer(q, at, d),
         at = "offered" => d \in Dispatches,
         at = "accepted" => /\ d \in Dispatches /\ Taken(d)'
                            /\ rdRow'[d].worker = q.worker /\ rdRow'[d].session = q.session,
         at = "running" => q.kind = "started" /\ d = q.dispatch
  PROVE  RemoteInv'
<1> USE DEF RemoteInv
<1>1. PICK w \in RemoteWorkers : w = q.worker
  BY DEF RemoteTypeOK, Requests
<1>2. /\ rdWorker \in [RemoteWorkers -> WorkerPlaces] /\ rdWorker[w] \in WorkerPlaces
      /\ RequestSound(q) /\ \A v \in RemoteWorkers : WorkerSound(v)
  BY DEF RemoteTypeOK, WorkerPlaces, WireSound, WorkersSound
<1>3. JournalsHeld'
  BY DEF JournalsHeld, JournalBegun, RowsAdvance
<1>4. /\ \A v \in RemoteWorkers : v # w => rdWorker'[v] = rdWorker[v]
      /\ \/ rdWorker'[w] = rdWorker[w] /\ ~Waiting(q)
         \/ Waiting(q) /\ at = "down" /\ rdWorker'[w].at = "down" /\ rdWorker'[w].session = 0
         \/ /\ Waiting(q) /\ at # "down" /\ rdWorker'[w].at = at /\ rdWorker'[w].dispatch = d
            /\ rdWorker'[w].session = rdWorker[w].session
  <2>1. CASE ~Waiting(q)
    BY <1>1, <2>1 DEF Answer
  <2>2. CASE Waiting(q) /\ at = "down"
    <3>1. rdWorker' = [rdWorker EXCEPT ![w] = Stopped]
      BY <1>1, <2>2 DEF Answer
    <3> QED BY <1>2, <2>2, <3>1 DEF Stopped
  <2>3. CASE Waiting(q) /\ at # "down"
    <3>1. PICK u : u = [rdWorker[w] EXCEPT !.at = at, !.dispatch = d]
      OBVIOUS
    <3>2. rdWorker' = [rdWorker EXCEPT ![w] = u]
      BY <1>1, <2>3, <3>1 DEF Answer
    <3>3. u.at = at /\ u.dispatch = d /\ u.session = rdWorker[w].session
      BY <1>2, <3>1 DEF WorkerPlaces
    <3> QED BY <1>2, <2>3, <3>2, <3>3
  <2> QED BY <2>1, <2>2, <2>3
<1>5. WorkersSound'
  <2> SUFFICES ASSUME NEW v \in RemoteWorkers PROVE WorkerSound(v)'
    BY DEF WorkersSound
  <2>1. Committed \cap {"down", "idle", "polling"} = {}
    BY DEF Committed
  <2>2. CASE rdWorker'[v] = rdWorker[v]
    BY <1>2, <2>1, <2>2 DEF WorkerSound, RowsAdvance
  <2>3. CASE v = w /\ Waiting(q) /\ at = "down" /\ rdWorker'[w].at = "down"
    BY <2>1, <2>3 DEF WorkerSound
  <2>4. CASE /\ v = w /\ Waiting(q) /\ at # "down" /\ rdWorker'[w].at = at
             /\ rdWorker'[w].dispatch = d /\ rdWorker'[w].session = rdWorker[w].session
    <3>1. rdWorker[w].at # "down" /\ rdWorker[w].session = q.session
      BY <1>1, <2>4 DEF Waiting, RemoteTypeOK, Requests
    <3>2. rdWorker[w].session \in 1..Len(rdSessions')
      BY <1>2, <3>1 DEF WorkerSound
    <3>3. at = "running" => /\ rdWorker[w].at = "starting" /\ rdWorker[w].dispatch = d
      BY <1>1, <1>2, <2>4 DEF Waiting, RequestSound
    <3>4. at = "running" => /\ d \in Dispatches /\ Taken(d)'
                            /\ rdRow'[d].worker = w /\ rdRow'[d].session = rdWorker[w].session
      BY <1>2, <3>3 DEF WorkerSound, Committed, RowsAdvance
    <3> QED BY <1>1, <2>4, <3>1, <3>2, <3>4 DEF WorkerSound, Committed
  <2> QED BY <1>4, <2>2, <2>3, <2>4
<1>6. WireSound'
  <2> SUFFICES ASSUME NEW p \in rdWire, p # q PROVE RequestSound(p)'
    BY DEF WireSound
  <2>1. RequestSound(p) /\ p.worker \in RemoteWorkers /\ p.session \in 1..MaxSessions
    BY DEF WireSound, RemoteTypeOK, Requests
  <2>2. rdWorker'[p.worker].session = p.session => rdWorker'[p.worker] = rdWorker[p.worker]
    <3> SUFFICES ASSUME p.worker = w, rdWorker'[w].session = p.session
                 PROVE  rdWorker'[w] = rdWorker[w]
      BY <1>4, <2>1
    <3>1. CASE rdWorker'[w].session = 0
      BY <2>1, <3>1
    <3>2. CASE Waiting(q) /\ rdWorker'[w].session = rdWorker[w].session
      <4>1. q.session = p.session
        BY <1>1, <3>2 DEF Waiting
      <4> QED BY <1>1, <2>1, <4>1 DEF RequestSound
    <3> QED BY <1>4, <3>1, <3>2
  <2> QED BY <2>1, <2>2 DEF RequestSound, Waiting
<1>7. ExecutedOnce'
  <2> SUFFICES ASSUME NEW e \in Dispatches, rdExecuted[e] # 0
               PROVE  \E v \in RemoteWorkers : JournalBegun(v, e)' /\ ~Executable(v, e)'
    BY DEF ExecutedOnce
  <2>1. PICK v \in RemoteWorkers : JournalBegun(v, e) /\ ~Executable(v, e)
    BY DEF ExecutedOnce
  <2>2. Executable(v, e)' => Executable(v, e)
    <3>1. CASE v = w /\ Waiting(q) /\ at = "running"
      BY <1>1, <1>2, <1>4, <3>1 DEF Executable, Waiting, RequestSound
    <3> QED BY <1>4, <3>1 DEF Executable
  <2> QED BY <2>1, <2>2 DEF JournalBegun
<1> QED BY <1>3, <1>5, <1>6, <1>7

LEMMA AnswerTyped ==
  ASSUME RemoteInv, NEW q \in rdWire, NEW at \in WorkerSteps, NEW d \in Dispatches \cup {Nobody},
         Answer(q, at, d)
  PROVE  rdWorker' \in [RemoteWorkers -> WorkerPlaces]
<1>1. /\ rdWorker \in [RemoteWorkers -> WorkerPlaces] /\ q.worker \in RemoteWorkers
      /\ rdWorker[q.worker] \in WorkerPlaces
  BY DEF RemoteInv, RemoteTypeOK, WorkerPlaces, Requests
<1>2. Stopped \in WorkerPlaces
  BY RemoteAssumption DEF Stopped, WorkerPlaces, WorkerSteps
<1>3. PICK u : u = [rdWorker[q.worker] EXCEPT !.at = at, !.dispatch = d]
  OBVIOUS
<1>4. u \in WorkerPlaces
  BY <1>1, <1>3 DEF WorkerPlaces
<1>5. \/ rdWorker' = rdWorker
      \/ rdWorker' = [rdWorker EXCEPT ![q.worker] = Stopped]
      \/ rdWorker' = [rdWorker EXCEPT ![q.worker] = u]
  BY <1>3 DEF Answer
<1> QED BY <1>1, <1>2, <1>4, <1>5

(* The requests that change nothing but the worker that waits. *)
LEMMA AnswersOnly ==
  ASSUME RemoteInv, NEW q \in rdWire, NothingToOffer(q) \/ Refuse(q), rdWire' = rdWire \ {q},
         UNCHANGED <<rdJournal, rdExecuted, rdRestarts>>
  PROVE  RemoteInv'
<1> USE DEF RemoteInv
<1>1. PICK at \in {"idle", "down"} : Answer(q, at, Nobody)
  BY DEF NothingToOffer, Refuse
<1>2. UNCHANGED <<rdRow, rdQueue, rdPackages, rdFacts, rdSessions>>
  BY DEF NothingToOffer, Refuse, coordinatorMemory
<1>3. rdWorker' \in [RemoteWorkers -> WorkerPlaces]
  <2>1. at \in WorkerSteps
    BY DEF WorkerSteps
  <2> QED BY <1>1, <2>1, AnswerTyped
<1>4. RemoteTypeOK'
  BY <1>2, <1>3 DEF RemoteTypeOK, WorkerPlaces
<1>5. QueueSound' /\ DigestsHeld' /\ RowsAdvance
  BY <1>2 DEF QueueSound, DigestsHeld, RowsAdvance, Taken
<1> QED BY <1>1, <1>2, <1>4, <1>5, ServedStep

LEMMA SessionOfRequest ==
  ASSUME RemoteInv, NEW q \in rdWire
  PROVE  /\ q.session \in DOMAIN rdSessions
         /\ rdSessions[q.session] \in
              [worker : RemoteWorkers, open : BOOLEAN, active : 0..SlotsPerWorker]
         /\ rdSessions[q.session].active \in 0..SlotsPerWorker
<1> DEFINE SessionRows == [worker : RemoteWorkers, open : BOOLEAN, active : 0..SlotsPerWorker]
<1>1. /\ rdSessions \in Seq(SessionRows)
      /\ q.session \in 1..MaxSessions /\ q.session <= Len(rdSessions)
  BY DEF RemoteInv, RemoteTypeOK, WireSound, RequestSound, Requests
<1>2. q.session \in DOMAIN rdSessions /\ rdSessions[q.session] \in SessionRows
  <2> HIDE DEF SessionRows
  <2> QED BY <1>1
<1> QED BY <1>2

LEMMA SessionSlots ==
  ASSUME RemoteInv, NEW q \in rdWire, NEW n \in 0..SlotsPerWorker,
         rdSessions' = [rdSessions EXCEPT ![q.session].active = n]
  PROVE  /\ rdSessions' \in Seq([worker : RemoteWorkers, open : BOOLEAN, active : 0..SlotsPerWorker])
         /\ Len(rdSessions') = Len(rdSessions) /\ Len(rdSessions) <= MaxSessions
<1> DEFINE SessionRows == [worker : RemoteWorkers, open : BOOLEAN, active : 0..SlotsPerWorker]
<1>1. rdSessions \in Seq(SessionRows) /\ Len(rdSessions) <= MaxSessions
  BY DEF RemoteInv, RemoteTypeOK
<1>2. q.session \in DOMAIN rdSessions
  BY SessionOfRequest
<1>3. rdSessions[q.session] \in SessionRows
  BY SessionOfRequest
<1>4. PICK s : s = [rdSessions[q.session] EXCEPT !.active = n]
  OBVIOUS
<1>5. s \in SessionRows
  BY <1>3, <1>4
<1>6. rdSessions' = [rdSessions EXCEPT ![q.session] = s]
  BY <1>4
<1> HIDE DEF SessionRows
<1>7. rdSessions' \in Seq(SessionRows) /\ Len(rdSessions') = Len(rdSessions)
  BY <1>1, <1>2, <1>5, <1>6
<1> QED BY <1>1, <1>7 DEF SessionRows

LEMMA OfferSound ==
  ASSUME RemoteInv, NEW q \in rdWire, OfferNext(q), rdWire' = rdWire \ {q},
         UNCHANGED <<rdJournal, rdExecuted, rdRestarts>>
  PROVE  RemoteInv'
<1> USE DEF RemoteInv
<1>1. PICK d : d = Head(rdQueue)
  OBVIOUS
<1>2. /\ rdQueue \in Seq(Dispatches) /\ rdQueue # <<>> /\ IsInjective(rdQueue)
      /\ rdRow \in [Dispatches -> DispatchRows] /\ ToSet(rdQueue) \subseteq rdPackages
  BY DEF RemoteTypeOK, OfferNext, DispatchRows
<1>3. /\ d \in Dispatches /\ d = rdQueue[1] /\ 1 \in DOMAIN rdQueue /\ rdRow[d].state = "requested"
  <2>1. d \in Dispatches /\ d = rdQueue[1] /\ 1 \in DOMAIN rdQueue
    BY <1>1, <1>2
  <2> QED BY <2>1 DEF QueueSound
<1>4. PICK row : row = [state |-> "offered", worker |-> q.worker, session |-> q.session,
                        due |-> FALSE, digest |-> "none"]
  OBVIOUS
<1>5. row \in DispatchRows /\ row.digest = "none"
  BY <1>4 DEF DispatchRows, RowStates, RemoteTypeOK, Requests
<1>6. /\ rdRow' = [rdRow EXCEPT ![d] = row] /\ rdQueue' = Tail(rdQueue)
      /\ Answer(q, "offered", d) /\ UNCHANGED <<rdPackages, rdFacts>>
  BY <1>1, <1>4 DEF OfferNext
<1>7. /\ rdRow' \in [Dispatches -> DispatchRows] /\ rdRow'[d] = row
      /\ \A e \in Dispatches : e # d => rdRow'[e] = rdRow[e]
  BY <1>2, <1>3, <1>5, <1>6
<1>8. /\ rdQueue' \in Seq(Dispatches) /\ DOMAIN rdQueue = 1..Len(rdQueue) /\ Len(rdQueue) \in Nat
      /\ DOMAIN rdQueue' = 1..(Len(rdQueue) - 1)
      /\ \A i \in DOMAIN rdQueue' : rdQueue'[i] = rdQueue[i + 1] /\ i + 1 \in DOMAIN rdQueue
  BY <1>2, <1>6
<1>9. IsInjective(rdQueue')
  <2> SUFFICES ASSUME NEW i \in DOMAIN rdQueue', NEW j \in DOMAIN rdQueue', rdQueue'[i] = rdQueue'[j]
               PROVE  i = j
    BY DEF IsInjective
  <2>1. i + 1 = j + 1
    BY <1>2, <1>8 DEF IsInjective
  <2> QED BY <1>8, <2>1
<1>10. ToSet(rdQueue') \subseteq rdPackages'
  <2>1. \A i \in DOMAIN rdQueue : rdQueue[i] \in rdPackages
    BY <1>2 DEF ToSet
  <2> QED BY <1>6, <1>8, <2>1 DEF ToSet
<1>11. QueueSound'
  <2> SUFFICES ASSUME NEW i \in DOMAIN rdQueue' PROVE rdRow'[rdQueue'[i]].state = "requested"
    BY DEF QueueSound
  <2>1. rdQueue'[i] = rdQueue[i + 1] /\ i + 1 \in DOMAIN rdQueue /\ i + 1 # 1
    BY <1>8
  <2>2. rdQueue'[i] # d /\ rdQueue'[i] \in Dispatches
    BY <1>2, <1>3, <2>1 DEF IsInjective
  <2> QED BY <1>7, <2>1, <2>2 DEF QueueSound
<1>12. PICK n \in 0..SlotsPerWorker : rdSessions' = [rdSessions EXCEPT ![q.session].active = n]
  <2>1. PICK m : m = rdSessions[q.session].active
    OBVIOUS
  <2>2. m \in 0..SlotsPerWorker
    BY <2>1, SessionOfRequest
  <2>3. m < SlotsPerWorker /\ rdSessions' = [rdSessions EXCEPT ![q.session].active = m + 1]
    BY <2>1 DEF OfferNext, HasSlot, Session
  <2>4. m + 1 \in 0..SlotsPerWorker
    BY <2>2, <2>3, RemoteAssumption
  <2> QED BY <2>3, <2>4
<1>13. /\ rdSessions' \in Seq([worker : RemoteWorkers, open : BOOLEAN, active : 0..SlotsPerWorker])
       /\ Len(rdSessions') = Len(rdSessions) /\ Len(rdSessions) <= MaxSessions
  BY <1>12, SessionSlots
<1>14. rdWorker' \in [RemoteWorkers -> WorkerPlaces]
  <2>1. "offered" \in WorkerSteps
    BY DEF WorkerSteps
  <2> QED BY <1>3, <1>6, <2>1, AnswerTyped
<1>15. RemoteTypeOK'
  BY <1>6, <1>7, <1>8, <1>9, <1>10, <1>13, <1>14 DEF RemoteTypeOK, WorkerPlaces, DispatchRows
<1>16. RowsAdvance
  BY <1>3, <1>7 DEF RowsAdvance, Taken
<1>17. DigestsHeld'
  BY <1>5, <1>7 DEF DigestsHeld, WorkerOutcomes
<1> QED BY <1>3, <1>6, <1>11, <1>13, <1>15, <1>16, <1>17, ServedStep

(* The row of the dispatch that q reports on advances. *)
LEMMA ReportedRow ==
  ASSUME RemoteInv, NEW q \in rdWire, q.kind # "poll", Bound(q), NEW row \in DispatchRows,
         rdRow' = [rdRow EXCEPT ![q.dispatch] = row],
         row.worker = q.worker, row.session = q.session,
         row.state \notin {"absent", "requested", "offered"},
         rdRow[q.dispatch].state # "requested",
         row.digest \in WorkerOutcomes =>
           \/ row.digest = rdRow[q.dispatch].digest
           \/ rdJournal[q.worker][q.dispatch].state = row.digest,
         UNCHANGED <<rdJournal, rdQueue>>
  PROVE  /\ rdRow' \in [Dispatches -> DispatchRows] /\ RowsAdvance /\ QueueSound' /\ DigestsHeld'
         /\ q.dispatch \in Dispatches /\ q.worker \in RemoteWorkers /\ Taken(q.dispatch)'
         /\ rdRow'[q.dispatch] = row
<1> USE DEF RemoteInv
<1>1. PICK d \in Dispatches : d = q.dispatch
  BY DEF WireSound, RequestSound
<1>2. rdRow \in [Dispatches -> DispatchRows] /\ q.worker \in RemoteWorkers
  BY DEF RemoteTypeOK, DispatchRows, Requests
<1>3. /\ rdRow' \in [Dispatches -> DispatchRows] /\ rdRow'[d] = row
      /\ \A e \in Dispatches : e # d => rdRow'[e] = rdRow[e]
  BY <1>1, <1>2
<1>4. RowsAdvance
  BY <1>1, <1>3 DEF RowsAdvance, Taken, Bound
<1>5. QueueSound'
  <2>1. \A i \in DOMAIN rdQueue : rdQueue[i] \in Dispatches
    BY DEF RemoteTypeOK
  <2> QED BY <1>1, <1>3, <2>1 DEF QueueSound
<1>6. DigestsHeld'
  BY <1>1, <1>2, <1>3, RemoteAssumption DEF DigestsHeld, Bound
<1> QED BY <1>1, <1>2, <1>3, <1>4, <1>5, <1>6 DEF Taken

LEMMA RecordFactSound ==
  ASSUME RemoteInv, NEW q \in rdWire, RecordFact(q), rdWire' = rdWire \ {q},
         UNCHANGED <<rdJournal, rdExecuted, rdRestarts>>
  PROVE  RemoteInv'
<1> USE DEF RemoteInv
<1>1. UNCHANGED <<rdQueue, rdPackages, rdFacts, rdSessions>>
  BY DEF RecordFact, coordinatorMemory
<1>2. PICK kind \in {"accepted", "started"} :
        /\ q.kind = kind /\ Bound(q)
        /\ kind = "accepted" => /\ rdRow[q.dispatch].state \in {"accepted", "offered"}
                                /\ rdRow' = [rdRow EXCEPT ![q.dispatch] = Accepted(@)]
                                /\ Answer(q, "accepted", q.dispatch)
        /\ kind = "started" => /\ rdRow[q.dispatch].state \in {"accepted", "started"}
                               /\ rdRow' = [rdRow EXCEPT ![q.dispatch] = Begun(@)]
                               /\ Answer(q, "running", q.dispatch)
  BY DEF RecordFact, CanAccept, CanStart
<1>3. PICK d \in Dispatches : d = q.dispatch
  BY <1>2 DEF WireSound, RequestSound
<1>4. rdRow[d] \in DispatchRows /\ rdRow[d].worker = q.worker /\ rdRow[d].session = q.session
  BY <1>2, <1>3 DEF RemoteTypeOK, DispatchRows, Bound
<1>5. PICK row : row = IF kind = "accepted" THEN Accepted(rdRow[d]) ELSE Begun(rdRow[d])
  OBVIOUS
<1>6. /\ row \in DispatchRows /\ row.worker = q.worker /\ row.session = q.session
      /\ row.state \in {"accepted", "started"} /\ row.digest = rdRow[d].digest
  <2>1. PICK accepted : accepted = [rdRow[d] EXCEPT !.state = "accepted", !.due = TRUE]
    OBVIOUS
  <2>2. PICK begun : begun = [rdRow[d] EXCEPT !.state = "started"]
    OBVIOUS
  <2>3. /\ accepted \in DispatchRows /\ accepted.worker = q.worker /\ accepted.session = q.session
        /\ accepted.state = "accepted" /\ accepted.digest = rdRow[d].digest
    BY <1>4, <2>1 DEF DispatchRows, RowStates
  <2>4. /\ begun \in DispatchRows /\ begun.worker = q.worker /\ begun.session = q.session
        /\ begun.state = "started" /\ begun.digest = rdRow[d].digest
    BY <1>4, <2>2 DEF DispatchRows, RowStates
  <2>5. row = accepted \/ row = begun
    BY <1>5, <2>1, <2>2 DEF Accepted, Begun
  <2> QED BY <2>3, <2>4, <2>5
<1>7. rdRow' = [rdRow EXCEPT ![q.dispatch] = row]
  BY <1>2, <1>3, <1>5
<1>8. /\ rdRow' \in [Dispatches -> DispatchRows] /\ RowsAdvance /\ QueueSound' /\ DigestsHeld'
      /\ Taken(d)' /\ rdRow'[d] = row
  <2>1. /\ q.kind # "poll" /\ Bound(q) /\ rdRow[q.dispatch].state # "requested"
        /\ row.state \notin {"absent", "requested", "offered"}
        /\ row.digest \in WorkerOutcomes =>
             \/ row.digest = rdRow[q.dispatch].digest
             \/ rdJournal[q.worker][q.dispatch].state = row.digest
    BY <1>2, <1>3, <1>6
  <2>2. UNCHANGED <<rdJournal, rdQueue>>
    BY <1>1 DEF RecordFact
  <2>3. /\ rdRow' \in [Dispatches -> DispatchRows] /\ RowsAdvance /\ QueueSound' /\ DigestsHeld'
        /\ Taken(q.dispatch)' /\ rdRow'[q.dispatch] = row
    BY <1>6, <1>7, <2>1, <2>2, ReportedRow
  <2> QED BY <1>3, <2>3
<1>9. PICK at \in {"accepted", "running"} :
        Answer(q, at, d) /\ (at = "running" => q.kind = "started")
  BY <1>2, <1>3
<1>10. rdWorker' \in [RemoteWorkers -> WorkerPlaces]
  <2>1. at \in WorkerSteps
    BY DEF WorkerSteps
  <2> QED BY <1>3, <1>9, <2>1, AnswerTyped
<1>11. RemoteTypeOK'
  BY <1>1, <1>8, <1>10 DEF RemoteTypeOK, WorkerPlaces, DispatchRows
<1>12. /\ d \in Dispatches \cup {Nobody} /\ at \in {"offered", "idle", "accepted", "running", "down"}
       /\ rdRow'[d].worker = q.worker /\ rdRow'[d].session = q.session
       /\ Len(rdSessions') = Len(rdSessions) /\ at # "offered"
  BY <1>1, <1>6, <1>8
<1> QED BY <1>3, <1>8, <1>9, <1>11, <1>12, ServedStep

LEMMA RecordTerminalSound ==
  ASSUME RemoteInv, NEW q \in rdWire, RecordTerminal(q), rdWire' = rdWire \ {q},
         UNCHANGED <<rdJournal, rdExecuted, rdRestarts>>
  PROVE  RemoteInv'
<1> USE DEF RemoteInv
<1>1. /\ q.kind = "terminal" /\ Bound(q) /\ rdQueue' = rdQueue
      /\ rdFacts' = rdFacts \cup {q.dispatch} /\ rdPackages' = rdPackages \ {q.dispatch}
      /\ Answer(q, "idle", Nobody)
  BY DEF RecordTerminal, CanEnd
<1>2. PICK d \in Dispatches : d = q.dispatch
  BY <1>1 DEF WireSound, RequestSound
<1>3. q.detail \in WorkerOutcomes /\ rdJournal[q.worker][d].state = q.detail
  BY <1>1, <1>2 DEF WireSound, RequestSound
<1>4. rdRow[d] \in DispatchRows /\ rdRow[d].worker = q.worker /\ rdRow[d].session = q.session
  BY <1>1, <1>2 DEF RemoteTypeOK, DispatchRows, Bound
<1>5. rdRow[d].state \in {"started", "cancel_requested", "ambiguous"} \cup WorkerOutcomes
  BY <1>2, <1>3 DEF RecordTerminal, CanEnd, SameTerminal
<1>6. PICK row : row = [rdRow[d] EXCEPT !.state = q.detail, !.digest = q.detail]
  OBVIOUS
<1>7. /\ row \in DispatchRows /\ row.worker = q.worker /\ row.session = q.session
      /\ row.state = q.detail /\ row.digest = q.detail
  BY <1>3, <1>4, <1>6 DEF DispatchRows, RowStates
<1>8. rdRow' = [rdRow EXCEPT ![q.dispatch] = row]
  BY <1>2, <1>6 DEF RecordTerminal, Ended
<1>9. /\ rdRow[d].state \notin {"requested"}
      /\ row.state \notin {"absent", "requested", "offered"}
  BY <1>3, <1>5, <1>7 DEF WorkerOutcomes
<1>10. /\ rdRow' \in [Dispatches -> DispatchRows] /\ RowsAdvance /\ QueueSound' /\ DigestsHeld'
       /\ rdRow'[d] = row
  BY <1>1, <1>2, <1>3, <1>7, <1>8, <1>9, ReportedRow
<1>11. ToSet(rdQueue') \subseteq rdPackages'
  <2>1. d \notin ToSet(rdQueue)
    BY <1>9 DEF ToSet, QueueSound
  <2>2. ToSet(rdQueue) \subseteq rdPackages
    BY DEF RemoteTypeOK
  <2> QED BY <1>1, <1>2, <2>1, <2>2
<1>12. PICK n \in 0..SlotsPerWorker : rdSessions' = [rdSessions EXCEPT ![q.session].active = n]
  <2>1. PICK m : m = rdSessions[q.session].active
    OBVIOUS
  <2>2. m \in 0..SlotsPerWorker
    BY <2>1, SessionOfRequest
  <2>3. rdSessions' = [rdSessions EXCEPT ![q.session].active = IF m = 0 THEN 0 ELSE m - 1]
    BY <2>1 DEF RecordTerminal
  <2>4. (IF m = 0 THEN 0 ELSE m - 1) \in 0..SlotsPerWorker
    BY <2>2, RemoteAssumption
  <2> QED BY <2>3, <2>4
<1>13. /\ rdSessions' \in Seq([worker : RemoteWorkers, open : BOOLEAN, active : 0..SlotsPerWorker])
       /\ Len(rdSessions') = Len(rdSessions) /\ Len(rdSessions) <= MaxSessions
  BY <1>12, SessionSlots
<1>14. rdWorker' \in [RemoteWorkers -> WorkerPlaces]
  <2>1. "idle" \in WorkerSteps
    BY DEF WorkerSteps
  <2> QED BY <1>1, <2>1, AnswerTyped
<1>15. RemoteTypeOK'
  BY <1>1, <1>2, <1>10, <1>11, <1>13, <1>14 DEF RemoteTypeOK, WorkerPlaces, DispatchRows
<1> QED BY <1>1, <1>10, <1>13, <1>15, ServedStep

(* Outside a request, a worker has none under way in its session. *)
LEMMA NothingUnderWay ==
  ASSUME RemoteInv, NEW w \in RemoteWorkers,
         rdWorker[w].at \notin {"polling", "accepting", "starting", "reporting"}
  PROVE  \A p \in rdWire : p.worker = w => p.session # rdWorker[w].session
<1> SUFFICES ASSUME NEW p \in rdWire, p.worker = w, p.session = rdWorker[w].session
             PROVE  FALSE
  OBVIOUS
<1>1. Waiting(p) /\ p.kind \in {"poll", "accepted", "started", "terminal"}
  BY DEF RemoteInv, WireSound, RequestSound, RemoteTypeOK, Requests
<1> QED BY <1>1 DEF Waiting

(* What a worker's own step may do to its journal. *)
JournalAdvances(w) ==
  /\ \A v \in RemoteWorkers : v # w => rdJournal'[v] = rdJournal[v]
  /\ \A d \in Dispatches :
       \/ rdJournal'[w][d] = rdJournal[w][d]
       \/ /\ rdJournal[w][d].state \notin WorkerOutcomes
          /\ JournalBegun(w, d) => JournalBegun(w, d)'
          /\ JournalBegun(w, d)' => Taken(d) /\ rdRow[d].worker = w

(* A step of a worker that sends nothing. *)
LEMMA WorkerStep ==
  ASSUME RemoteInv, RemoteTypeOK', UNCHANGED <<rdRow, rdQueue, rdWire>>,
         NEW w \in RemoteWorkers, NEW u \in WorkerPlaces,
         rdWorker' = [rdWorker EXCEPT ![w] = u], JournalAdvances(w),
         Len(rdSessions) <= Len(rdSessions'), WorkerSound(w)', ExecutedOnce',
         \A p \in rdWire : p.worker = w => p.session # u.session
  PROVE  RemoteInv'
<1> USE DEF RemoteInv
<1>1. /\ rdWorker \in [RemoteWorkers -> WorkerPlaces] /\ rdWorker'[w] = u
      /\ \A v \in RemoteWorkers : v # w => rdWorker'[v] = rdWorker[v]
  BY DEF RemoteTypeOK, WorkerPlaces
<1>2. /\ \A v \in RemoteWorkers : v # w => rdJournal'[v] = rdJournal[v]
      /\ \A d \in Dispatches : rdJournal[w][d].state \in WorkerOutcomes =>
           rdJournal'[w][d] = rdJournal[w][d]
  BY DEF JournalAdvances
<1>3. JournalsHeld'
  <2> SUFFICES ASSUME NEW v \in RemoteWorkers, NEW d \in Dispatches, JournalBegun(v, d)'
               PROVE  Taken(d) /\ rdRow[d].worker = v
    BY DEF JournalsHeld, Taken
  <2>1. CASE rdJournal'[v][d] = rdJournal[v][d]
    BY <2>1 DEF JournalsHeld, JournalBegun
  <2>2. CASE v = w /\ rdJournal'[w][d] # rdJournal[w][d]
    BY <2>2 DEF JournalAdvances
  <2> QED BY <1>2, <2>1, <2>2
<1>4. QueueSound'
  BY DEF QueueSound
<1>5. Len(rdSessions) \in Nat /\ Len(rdSessions') \in Nat
  BY DEF RemoteTypeOK
<1>6. WorkersSound'
  <2> SUFFICES ASSUME NEW v \in RemoteWorkers, v # w PROVE WorkerSound(v)'
    BY DEF WorkersSound
  <2>1. WorkerSound(v) /\ rdWorker'[v] = rdWorker[v] /\ rdJournal'[v] = rdJournal[v]
    BY <1>1, <1>2 DEF WorkersSound
  <2> QED BY <1>5, <2>1 DEF WorkerSound, Taken
<1>7. WireSound'
  <2> SUFFICES ASSUME NEW p \in rdWire PROVE RequestSound(p)'
    BY DEF WireSound
  <2>1. RequestSound(p) /\ p.worker \in RemoteWorkers /\ p.session \in 1..MaxSessions
    BY DEF WireSound, RemoteTypeOK, Requests
  <2>2. p.session <= Len(rdSessions')
    BY <1>5, <2>1 DEF RequestSound
  <2>3. p.kind = "terminal" => rdJournal'[p.worker][p.dispatch].state = p.detail
    BY <1>2, <2>1 DEF RequestSound
  <2>4. rdWorker'[p.worker].session = p.session => rdWorker'[p.worker] = rdWorker[p.worker]
    BY <1>1, <2>1
  <2> QED BY <2>1, <2>2, <2>3, <2>4 DEF RequestSound, Waiting
<1>8. DigestsHeld'
  <2> SUFFICES ASSUME NEW d \in Dispatches, rdRow[d].digest \in WorkerOutcomes
               PROVE  /\ rdRow[d].worker # Nobody
                      /\ rdJournal'[rdRow[d].worker][d].state = rdRow[d].digest
    BY DEF DigestsHeld
  <2>1. /\ rdRow[d].worker # Nobody /\ rdRow[d].worker \in RemoteWorkers
        /\ rdJournal[rdRow[d].worker][d].state = rdRow[d].digest
    BY DEF DigestsHeld, RemoteTypeOK
  <2> QED BY <1>2, <2>1
<1> QED BY <1>3, <1>4, <1>6, <1>7, <1>8

(* Executions stay single when nothing new can be executed. *)
LEMMA ExecutionsStand ==
  ASSUME RemoteInv, rdExecuted' = rdExecuted, NEW w \in RemoteWorkers, JournalAdvances(w),
         \A d \in Dispatches : Executable(w, d)' => Executable(w, d),
         \A v \in RemoteWorkers : v # w => rdWorker'[v] = rdWorker[v]
  PROVE  ExecutedOnce'
<1> SUFFICES ASSUME NEW d \in Dispatches, rdExecuted[d] # 0
             PROVE  \E v \in RemoteWorkers : JournalBegun(v, d)' /\ ~Executable(v, d)'
  BY DEF ExecutedOnce, RemoteInv
<1>1. PICK v \in RemoteWorkers : JournalBegun(v, d) /\ ~Executable(v, d)
  BY DEF ExecutedOnce, RemoteInv
<1>2. JournalBegun(v, d)'
  BY <1>1 DEF JournalAdvances, JournalBegun
<1>3. ~Executable(v, d)'
  BY <1>1 DEF Executable
<1> QED BY <1>2, <1>3

(* Sessions begin and end with their worker. *)
LEMMA WorkerSessionsSound ==
  ASSUME RemoteInv, NEW w \in RemoteWorkers,
         EstablishSession(w) \/ WorkerStops(w) \/ ShutdownWorker(w)
  PROVE  RemoteInv'
<1> USE DEF RemoteInv
<1> DEFINE SessionRows == [worker : RemoteWorkers, open : BOOLEAN, active : 0..SlotsPerWorker]
<1>1. /\ rdSessions \in Seq(SessionRows) /\ Len(rdSessions) <= MaxSessions
      /\ Len(rdSessions) \in Nat
  BY DEF RemoteTypeOK
<1>2. UNCHANGED <<rdRow, rdQueue, rdPackages, rdFacts, rdRestarts, rdJournal, rdWire, rdExecuted>>
  BY DEF EstablishSession, WorkerStops, ShutdownWorker, workerOnly, coordinatorMemory
<1>3. /\ rdSessions' \in Seq(SessionRows) /\ Len(rdSessions) <= Len(rdSessions')
      /\ Len(rdSessions') <= MaxSessions
      /\ EstablishSession(w) => Len(rdSessions') = Len(rdSessions) + 1
  <2>1. CASE EstablishSession(w)
    <3>1. PICK s : s = [worker |-> w, open |-> TRUE, active |-> 0]
      OBVIOUS
    <3>2. s \in SessionRows
      BY <3>1, RemoteAssumption
    <3>3. rdSessions' = Append(rdSessions, s) /\ Len(rdSessions) < MaxSessions
      BY <2>1, <3>1 DEF EstablishSession
    <3> HIDE DEF SessionRows
    <3>4. rdSessions' \in Seq(SessionRows) /\ Len(rdSessions') = Len(rdSessions) + 1
      BY <1>1, <3>2, <3>3
    <3> QED BY <1>1, <3>3, <3>4, RemoteAssumption
  <2>2. CASE ~EstablishSession(w) /\ rdSessions' = rdSessions
    BY <1>1, <2>2
  <2>3. CASE ~EstablishSession(w) /\ ShutdownWorker(w)
    <3>1. PICK n : n = rdWorker[w].session
      OBVIOUS
    <3>2. n \in 1..Len(rdSessions)
      BY <2>3, <3>1 DEF ShutdownWorker, WorkersSound, WorkerSound
    <3>3. rdSessions[n] \in SessionRows
      <4> HIDE DEF SessionRows
      <4> QED BY <1>1, <3>2
    <3>4. PICK s : s = [rdSessions[n] EXCEPT !.open = FALSE]
      OBVIOUS
    <3>5. s \in SessionRows
      BY <3>3, <3>4
    <3>6. rdSessions' = [rdSessions EXCEPT ![n] = s]
      BY <2>3, <3>1, <3>4 DEF ShutdownWorker
    <3> HIDE DEF SessionRows
    <3> QED BY <1>1, <2>3, <3>2, <3>5, <3>6
  <2> QED BY <2>1, <2>2, <2>3 DEF WorkerStops
<1>4. PICK u : /\ rdWorker' = [rdWorker EXCEPT ![w] = u]
               /\ \/ u = Stopped
                  \/ /\ u = [at |-> "idle", session |-> Len(rdSessions) + 1, dispatch |-> Nobody]
                     /\ EstablishSession(w)
  BY DEF EstablishSession, WorkerStops, ShutdownWorker
<1>5. /\ u \in WorkerPlaces
      /\ \/ u.at = "down" /\ u.session = 0
         \/ u.at = "idle" /\ u.session = Len(rdSessions) + 1 /\ EstablishSession(w)
  <2>1. Stopped \in WorkerPlaces /\ Stopped.at = "down" /\ Stopped.session = 0
    BY RemoteAssumption DEF Stopped, WorkerPlaces, WorkerSteps
  <2>2. ASSUME EstablishSession(w) PROVE Len(rdSessions) + 1 \in 0..MaxSessions
    BY <1>1, <1>3, <2>2, RemoteAssumption
  <2> QED BY <1>4, <2>1, <2>2 DEF WorkerPlaces, WorkerSteps
<1>6. /\ rdWorker \in [RemoteWorkers -> WorkerPlaces]
      /\ rdWorker' \in [RemoteWorkers -> WorkerPlaces] /\ rdWorker'[w] = u
      /\ \A v \in RemoteWorkers : v # w => rdWorker'[v] = rdWorker[v]
  BY <1>4, <1>5 DEF RemoteTypeOK, WorkerPlaces
<1>7. RemoteTypeOK'
  BY <1>2, <1>3, <1>6 DEF RemoteTypeOK, WorkerPlaces
<1>8. JournalAdvances(w)
  BY <1>2 DEF JournalAdvances
<1>9. WorkerSound(w)'
  BY <1>1, <1>3, <1>5, <1>6 DEF WorkerSound, Committed
<1>10. ExecutedOnce'
  <2>1. \A d \in Dispatches : Executable(w, d)' => Executable(w, d)
    BY <1>5, <1>6 DEF Executable
  <2> QED BY <1>2, <1>6, <1>8, <2>1, ExecutionsStand
<1>11. \A p \in rdWire : p.worker = w => p.session # u.session
  <2>1. \A p \in rdWire : p.session \in 1..MaxSessions /\ p.session <= Len(rdSessions)
    BY DEF RemoteTypeOK, Requests, WireSound, RequestSound
  <2> QED BY <1>1, <1>5, <2>1
<1> QED BY <1>2, <1>3, <1>4, <1>5, <1>7, <1>8, <1>9, <1>10, <1>11, WorkerStep

JournalRows == [state : JournalStates, session : 0..MaxSessions]

(* One entry of a worker's journal is rewritten. *)
LEMMA EntryChanges ==
  ASSUME RemoteInv, NEW w \in RemoteWorkers, NEW d \in Dispatches, NEW entry \in JournalRows,
         rdJournal' = [rdJournal EXCEPT ![w][d] = entry],
         rdJournal[w][d].state \notin WorkerOutcomes,
         JournalBegun(w, d) => entry.state \notin {"absent", "accepted"},
         entry.state \notin {"absent", "accepted"} => Taken(d) /\ rdRow[d].worker = w
  PROVE  /\ rdJournal' \in [RemoteWorkers -> [Dispatches -> JournalRows]]
         /\ JournalAdvances(w) /\ rdJournal'[w][d] = entry
<1>1. rdJournal \in [RemoteWorkers -> [Dispatches -> JournalRows]]
  BY DEF RemoteInv, RemoteTypeOK, JournalRows
<1>2. /\ rdJournal' \in [RemoteWorkers -> [Dispatches -> JournalRows]] /\ rdJournal'[w][d] = entry
      /\ \A v \in RemoteWorkers : v # w => rdJournal'[v] = rdJournal[v]
      /\ \A e \in Dispatches : e # d => rdJournal'[w][e] = rdJournal[w][e]
  BY <1>1
<1>3. JournalAdvances(w)
  BY <1>2 DEF JournalAdvances, JournalBegun
<1> QED BY <1>2, <1>3

(* The worker of an attempt goes on within its session. *)
GoesTo(w, at, u) ==
  /\ rdWorker' = [rdWorker EXCEPT ![w] = u]
  /\ u.at = at /\ u.session = rdWorker[w].session /\ u.dispatch = rdWorker[w].dispatch
  /\ rdWorker' \in [RemoteWorkers -> WorkerPlaces] /\ rdWorker'[w] = u
  /\ \A v \in RemoteWorkers : v # w => rdWorker'[v] = rdWorker[v]

LEMMA WorkerMoves ==
  ASSUME RemoteInv, NEW w \in RemoteWorkers, NEW at \in WorkerSteps,
         rdWorker' = [rdWorker EXCEPT ![w].at = at]
  PROVE  \E u \in WorkerPlaces : GoesTo(w, at, u)
<1>1. rdWorker \in [RemoteWorkers -> WorkerPlaces] /\ rdWorker[w] \in WorkerPlaces
  BY DEF RemoteInv, RemoteTypeOK, WorkerPlaces
<1>2. PICK u : u = [rdWorker[w] EXCEPT !.at = at]
  OBVIOUS
<1>3. /\ u \in WorkerPlaces /\ u.at = at /\ u.session = rdWorker[w].session
      /\ u.dispatch = rdWorker[w].dispatch
  BY <1>1, <1>2 DEF WorkerPlaces
<1>4. rdWorker' = [rdWorker EXCEPT ![w] = u]
  BY <1>2
<1>5. /\ rdWorker' \in [RemoteWorkers -> WorkerPlaces] /\ rdWorker'[w] = u
      /\ \A v \in RemoteWorkers : v # w => rdWorker'[v] = rdWorker[v]
  BY <1>1, <1>3, <1>4
<1> QED BY <1>3, <1>4, <1>5 DEF GoesTo

(* The start is journalled: the dispatch is the worker's, and was never    *)
(* executed.                                                               *)
LEMMA StartAttemptSound ==
  ASSUME RemoteInv, NEW w \in RemoteWorkers, StartAttempt(w)
  PROVE  RemoteInv'
<1> USE DEF RemoteInv
<1>1. PICK d : d = rdWorker[w].dispatch
  OBVIOUS
<1>2. /\ rdWorker[w].at = "accepted" /\ rdJournal[w][d].state = "accepted"
      /\ rdWorker' = [rdWorker EXCEPT ![w].at = "journalled"]
      /\ UNCHANGED <<rdRow, rdQueue, rdPackages, rdFacts, rdRestarts, rdSessions, rdWire, rdExecuted>>
  BY <1>1 DEF StartAttempt, workerOnly, coordinatorMemory
<1>3. /\ d \in Dispatches /\ Taken(d) /\ rdRow[d].worker = w /\ rdRow[d].session = rdWorker[w].session
      /\ rdWorker[w].session \in 1..Len(rdSessions)
  BY <1>1, <1>2 DEF WorkersSound, WorkerSound, Committed
<1>4. PICK entry : entry = [state |-> "started", session |-> rdWorker[w].session]
  OBVIOUS
<1>5. entry \in JournalRows /\ entry.state = "started"
  <2>1. rdWorker[w].session \in 0..MaxSessions
    BY DEF RemoteTypeOK
  <2> QED BY <1>4, <2>1 DEF JournalRows, JournalStates
<1>6. rdJournal' = [rdJournal EXCEPT ![w][d] = entry]
  BY <1>1, <1>4 DEF StartAttempt
<1>7. /\ rdJournal' \in [RemoteWorkers -> [Dispatches -> JournalRows]] /\ JournalAdvances(w)
      /\ rdJournal'[w][d] = entry
  <2>1. rdJournal[w][d].state \notin WorkerOutcomes /\ ~JournalBegun(w, d)
    BY <1>2 DEF WorkerOutcomes, JournalBegun
  <2>2. entry.state \notin {"absent", "accepted"}
    BY <1>5
  <2> QED BY <1>3, <1>5, <1>6, <2>1, <2>2, EntryChanges
<1>8. PICK u \in WorkerPlaces : GoesTo(w, "journalled", u) /\ u.dispatch = d
  <2>1. "journalled" \in WorkerSteps /\ rdWorker' = [rdWorker EXCEPT ![w].at = "journalled"]
    BY <1>2 DEF WorkerSteps
  <2>2. PICK u \in WorkerPlaces : GoesTo(w, "journalled", u)
    BY <2>1, WorkerMoves, Zenon
  <2> QED BY <1>1, <2>2 DEF GoesTo
<1>9. RemoteTypeOK'
  BY <1>2, <1>7, <1>8 DEF RemoteTypeOK, WorkerPlaces, JournalRows, GoesTo
<1>10. WorkerSound(w)'
  <2>1. /\ rdRow' = rdRow /\ rdSessions' = rdSessions /\ rdWorker'[w].at = "journalled"
        /\ rdWorker'[w].dispatch = d /\ rdWorker'[w].session = rdWorker[w].session
    BY <1>2, <1>8 DEF GoesTo
  <2> QED BY <1>3, <2>1 DEF WorkerSound, Committed, Taken
<1>11. ExecutedOnce'
  <2> SUFFICES ASSUME NEW e \in Dispatches, rdExecuted[e] # 0
               PROVE  \E v \in RemoteWorkers : JournalBegun(v, e)' /\ ~Executable(v, e)'
    BY <1>2 DEF ExecutedOnce
  <2>1. PICK v \in RemoteWorkers : JournalBegun(v, e) /\ ~Executable(v, e)
    BY DEF ExecutedOnce
  <2>2. e # d
    <3> SUFFICES ASSUME e = d PROVE FALSE
      OBVIOUS
    <3>1. v = w
      BY <1>3, <2>1 DEF JournalsHeld
    <3> QED BY <1>2, <2>1, <3>1 DEF JournalBegun
  <2>3. JournalBegun(v, e)'
    BY <1>7, <2>1 DEF JournalAdvances, JournalBegun
  <2>4. ~Executable(v, e)'
    BY <1>8, <2>1, <2>2 DEF Executable, GoesTo
  <2> QED BY <2>3, <2>4
<1>12. \A p \in rdWire : p.worker = w => p.session # u.session
  BY <1>2, <1>8, NothingUnderWay DEF GoesTo
<1>13. Len(rdSessions) <= Len(rdSessions')
  BY <1>2 DEF RemoteTypeOK
<1> QED BY <1>2, <1>7, <1>8, <1>9, <1>10, <1>11, <1>12, <1>13, WorkerStep DEF GoesTo

LEMMA ExecuteAttemptSound ==
  ASSUME RemoteInv, NEW w \in RemoteWorkers, ExecuteAttempt(w)
  PROVE  RemoteInv'
<1> USE DEF RemoteInv
<1>1. PICK d : d = rdWorker[w].dispatch
  OBVIOUS
<1>2. /\ rdWorker[w].at = "running"
      /\ rdJournal[w][d] = [state |-> "started", session |-> rdWorker[w].session]
      /\ rdExecuted' = [rdExecuted EXCEPT ![d] = @ + 1]
      /\ rdWorker' = [rdWorker EXCEPT ![w].at = "executing"]
      /\ UNCHANGED <<rdRow, rdQueue, rdPackages, rdFacts, rdRestarts, rdSessions, rdWire, rdJournal>>
  BY <1>1 DEF ExecuteAttempt, workerOnly, coordinatorMemory
<1>3. /\ d \in Dispatches /\ Taken(d) /\ rdRow[d].worker = w /\ rdRow[d].session = rdWorker[w].session
      /\ rdWorker[w].session \in 1..Len(rdSessions)
  BY <1>1, <1>2 DEF WorkersSound, WorkerSound, Committed
<1>4. JournalAdvances(w) /\ JournalBegun(w, d)
  BY <1>2 DEF JournalAdvances, JournalBegun
<1>5. PICK u \in WorkerPlaces : GoesTo(w, "executing", u) /\ u.dispatch = d
  <2>1. "executing" \in WorkerSteps /\ rdWorker' = [rdWorker EXCEPT ![w].at = "executing"]
    BY <1>2 DEF WorkerSteps
  <2>2. PICK u \in WorkerPlaces : GoesTo(w, "executing", u)
    BY <2>1, WorkerMoves, Zenon
  <2> QED BY <1>1, <2>2 DEF GoesTo
<1>6. rdExecuted[d] = 0
  <2> SUFFICES ASSUME rdExecuted[d] # 0 PROVE FALSE
    OBVIOUS
  <2>1. PICK v \in RemoteWorkers : JournalBegun(v, d) /\ ~Executable(v, d)
    BY <1>3 DEF ExecutedOnce
  <2>2. v = w
    BY <1>3, <2>1 DEF JournalsHeld
  <2> QED BY <1>1, <1>2, <2>1, <2>2 DEF Executable
<1>7. /\ rdExecuted' \in [Dispatches -> Nat] /\ rdExecuted'[d] = 1
      /\ \A e \in Dispatches : e # d => rdExecuted'[e] = rdExecuted[e]
  BY <1>2, <1>3, <1>6 DEF RemoteTypeOK
<1>8. RemoteTypeOK'
  BY <1>2, <1>5, <1>7 DEF RemoteTypeOK, WorkerPlaces, GoesTo
<1>9. WorkerSound(w)'
  <2>1. /\ rdRow' = rdRow /\ rdSessions' = rdSessions /\ rdWorker'[w].at = "executing"
        /\ rdWorker'[w].dispatch = d /\ rdWorker'[w].session = rdWorker[w].session
    BY <1>2, <1>5 DEF GoesTo
  <2> QED BY <1>3, <2>1 DEF WorkerSound, Committed, Taken
<1>10. ExecutedOnce'
  <2> SUFFICES ASSUME NEW e \in Dispatches
               PROVE  /\ rdExecuted'[e] <= 1
                      /\ rdExecuted'[e] # 0 =>
                           \E v \in RemoteWorkers : JournalBegun(v, e)' /\ ~Executable(v, e)'
    BY DEF ExecutedOnce
  <2>1. CASE e = d
    <3>1. JournalBegun(w, d)' /\ ~Executable(w, d)'
      BY <1>2, <1>4, <1>5 DEF JournalBegun, Executable, GoesTo
    <3> QED BY <1>7, <2>1, <3>1
  <2>2. CASE e # d
    <3>1. \A v \in RemoteWorkers : Executable(v, e)' => Executable(v, e)
      BY <1>5 DEF Executable, GoesTo
    <3>2. \A v \in RemoteWorkers : JournalBegun(v, e) => JournalBegun(v, e)'
      BY <1>2 DEF JournalBegun
    <3>3. rdExecuted'[e] = rdExecuted[e]
      BY <1>7, <2>2
    <3> QED BY <3>1, <3>2, <3>3 DEF ExecutedOnce
  <2> QED BY <2>1, <2>2
<1>11. \A p \in rdWire : p.worker = w => p.session # u.session
  BY <1>2, <1>5, NothingUnderWay DEF GoesTo
<1>12. Len(rdSessions) <= Len(rdSessions')
  BY <1>2 DEF RemoteTypeOK
<1> QED BY <1>2, <1>4, <1>5, <1>8, <1>9, <1>10, <1>11, <1>12, WorkerStep DEF GoesTo

LEMMA CompleteAttemptSound ==
  ASSUME RemoteInv, NEW w \in RemoteWorkers, NEW outcome \in WorkerOutcomes,
         CompleteAttempt(w, outcome)
  PROVE  RemoteInv'
<1> USE DEF RemoteInv
<1>1. PICK d : d = rdWorker[w].dispatch
  OBVIOUS
<1>2. /\ rdWorker[w].at = "executing" /\ rdJournal[w][d].state = "started"
      /\ rdWorker' = [rdWorker EXCEPT ![w].at = "ended"]
      /\ rdJournal' = [rdJournal EXCEPT ![w][d].state = outcome]
      /\ UNCHANGED <<rdRow, rdQueue, rdPackages, rdFacts, rdRestarts, rdSessions, rdWire, rdExecuted>>
  BY <1>1 DEF CompleteAttempt, workerOnly, coordinatorMemory
<1>3. /\ d \in Dispatches /\ Taken(d) /\ rdRow[d].worker = w
      /\ rdWorker[w].session \in 1..Len(rdSessions)
  BY <1>1, <1>2 DEF WorkersSound, WorkerSound, Committed
<1>4. PICK entry : entry = [rdJournal[w][d] EXCEPT !.state = outcome]
  OBVIOUS
<1>5. entry \in JournalRows /\ entry.state = outcome
  <2>1. rdJournal[w][d] \in JournalRows
    BY <1>3 DEF RemoteTypeOK, JournalRows
  <2> QED BY <1>4, <2>1 DEF JournalRows, JournalStates
<1>6. /\ rdJournal' \in [RemoteWorkers -> [Dispatches -> JournalRows]] /\ JournalAdvances(w)
      /\ rdJournal'[w][d] = entry
  <2>1. rdJournal' = [rdJournal EXCEPT ![w][d] = entry]
    BY <1>2, <1>4
  <2>2. rdJournal[w][d].state \notin WorkerOutcomes /\ entry.state \notin {"absent", "accepted"}
    BY <1>2, <1>5 DEF WorkerOutcomes
  <2> QED BY <1>3, <1>5, <2>1, <2>2, EntryChanges
<1>7. PICK u \in WorkerPlaces : GoesTo(w, "ended", u) /\ u.dispatch = d
  <2>1. "ended" \in WorkerSteps /\ rdWorker' = [rdWorker EXCEPT ![w].at = "ended"]
    BY <1>2 DEF WorkerSteps
  <2>2. PICK u \in WorkerPlaces : GoesTo(w, "ended", u)
    BY <2>1, WorkerMoves, Zenon
  <2> QED BY <1>1, <2>2 DEF GoesTo
<1>8. RemoteTypeOK'
  BY <1>2, <1>6, <1>7 DEF RemoteTypeOK, WorkerPlaces, JournalRows, GoesTo
<1>9. WorkerSound(w)'
  BY <1>2, <1>3, <1>5, <1>6, <1>7 DEF WorkerSound, Committed, GoesTo
<1>10. ExecutedOnce'
  <2>1. \A e \in Dispatches : Executable(w, e)' => Executable(w, e)
    BY <1>7 DEF Executable, GoesTo
  <2> QED BY <1>2, <1>6, <1>7, <2>1, ExecutionsStand DEF GoesTo
<1>11. \A p \in rdWire : p.worker = w => p.session # u.session
  BY <1>2, <1>7, NothingUnderWay DEF GoesTo
<1>12. Len(rdSessions) <= Len(rdSessions')
  BY <1>2 DEF RemoteTypeOK
<1> QED BY <1>2, <1>6, <1>7, <1>8, <1>9, <1>10, <1>11, <1>12, WorkerStep DEF GoesTo

(* An offered attempt is prepared, reported again, or refused. *)
LEMMA PrepareAttemptSound ==
  ASSUME RemoteInv, NEW w \in RemoteWorkers, PrepareAttempt(w)
  PROVE  RemoteInv'
<1> USE DEF RemoteInv
<1>1. PICK d : d = rdWorker[w].dispatch
  OBVIOUS
<1>2. /\ rdWorker[w].at = "offered"
      /\ UNCHANGED <<rdRow, rdQueue, rdPackages, rdFacts, rdRestarts, rdSessions, rdWire, rdExecuted>>
  BY DEF PrepareAttempt, workerOnly, coordinatorMemory
<1>3. d \in Dispatches /\ rdWorker[w].session \in 1..Len(rdSessions)
  BY <1>1, <1>2 DEF WorkersSound, WorkerSound
<1>4. rdJournal \in [RemoteWorkers -> [Dispatches -> JournalRows]] /\ rdJournal[w][d] \in JournalRows
  BY <1>3 DEF RemoteTypeOK, JournalRows
<1>5. /\ rdJournal' \in [RemoteWorkers -> [Dispatches -> JournalRows]] /\ JournalAdvances(w)
      /\ rdJournal[w][d].state # "absent" => rdJournal' = rdJournal
  <2>1. CASE rdJournal[w][d].state = "absent"
    <3>1. PICK entry : entry = [rdJournal[w][d] EXCEPT !.state = "accepted"]
      OBVIOUS
    <3>2. entry \in JournalRows /\ entry.state = "accepted"
      BY <1>4, <3>1 DEF JournalRows, JournalStates
    <3>3. rdJournal' = [rdJournal EXCEPT ![w][d] = entry]
      BY <1>1, <2>1, <3>1 DEF PrepareAttempt
    <3>4. rdJournal[w][d].state \notin WorkerOutcomes /\ ~JournalBegun(w, d)
      BY <2>1 DEF WorkerOutcomes, JournalBegun
    <3> QED BY <1>3, <2>1, <3>2, <3>3, <3>4, EntryChanges
  <2>2. CASE rdJournal[w][d].state # "absent"
    <3>1. rdJournal' = rdJournal
      BY <1>1, <2>2 DEF PrepareAttempt
    <3> QED BY <1>4, <3>1 DEF JournalAdvances
  <2> QED BY <2>1, <2>2
<1>6. PICK u \in WorkerPlaces :
        /\ rdWorker' = [rdWorker EXCEPT ![w] = u]
        /\ \/ u.at = "down" /\ u.session = 0
           \/ /\ u.at \in {"prepared", "ended"} /\ u.dispatch = d
              /\ u.session = rdWorker[w].session
              /\ u.at = "ended" => rdJournal[w][d].state \in WorkerOutcomes
  <2>1. rdWorker[w] \in WorkerPlaces
    BY DEF RemoteTypeOK, WorkerPlaces
  <2>2. PICK prepared : prepared = [rdWorker[w] EXCEPT !.at = "prepared"]
    OBVIOUS
  <2>3. PICK ended : ended = [rdWorker[w] EXCEPT !.at = "ended"]
    OBVIOUS
  <2>4. /\ prepared \in WorkerPlaces /\ prepared.at = "prepared" /\ prepared.dispatch = d
        /\ prepared.session = rdWorker[w].session
    BY <1>1, <2>1, <2>2 DEF WorkerPlaces, WorkerSteps
  <2>5. /\ ended \in WorkerPlaces /\ ended.at = "ended" /\ ended.dispatch = d
        /\ ended.session = rdWorker[w].session
    BY <1>1, <2>1, <2>3 DEF WorkerPlaces, WorkerSteps
  <2>6. Stopped \in WorkerPlaces /\ Stopped.at = "down" /\ Stopped.session = 0
    BY RemoteAssumption DEF Stopped, WorkerPlaces, WorkerSteps
  <2>7. CASE rdJournal[w][d].state \in {"absent", "accepted"}
    <3>1. rdWorker' = [rdWorker EXCEPT ![w] = prepared]
      BY <1>1, <2>2, <2>7 DEF PrepareAttempt, WorkerOutcomes
    <3> QED BY <2>4, <3>1
  <2>8. CASE rdJournal[w][d].state \in WorkerOutcomes
    <3>1. rdWorker' = [rdWorker EXCEPT ![w] = ended]
      BY <1>1, <2>3, <2>8 DEF PrepareAttempt, WorkerOutcomes
    <3> QED BY <2>5, <2>8, <3>1
  <2>9. CASE rdJournal[w][d].state \notin {"absent", "accepted"} \cup WorkerOutcomes
    <3>1. rdWorker' = [rdWorker EXCEPT ![w] = Stopped]
      BY <1>1, <2>9 DEF PrepareAttempt
    <3> QED BY <2>6, <3>1
  <2> QED BY <2>7, <2>8, <2>9
<1>7. /\ rdWorker' \in [RemoteWorkers -> WorkerPlaces] /\ rdWorker'[w] = u
      /\ \A v \in RemoteWorkers : v # w => rdWorker'[v] = rdWorker[v]
  BY <1>6 DEF RemoteTypeOK, WorkerPlaces
<1>8. RemoteTypeOK'
  BY <1>2, <1>5, <1>7 DEF RemoteTypeOK, WorkerPlaces, JournalRows
<1>9. WorkerSound(w)'
  <2>1. u.at = "ended" => rdJournal'[w][d].state \in WorkerOutcomes
    BY <1>5, <1>6 DEF WorkerOutcomes
  <2> QED BY <1>2, <1>3, <1>6, <1>7, <2>1 DEF WorkerSound, Committed
<1>10. ExecutedOnce'
  <2>1. \A e \in Dispatches : Executable(w, e)' => Executable(w, e)
    BY <1>6, <1>7 DEF Executable
  <2> QED BY <1>2, <1>5, <1>7, <2>1, ExecutionsStand
<1>11. \A p \in rdWire : p.worker = w => p.session # u.session
  <2>1. \A p \in rdWire : p.session \in 1..MaxSessions
    BY DEF RemoteTypeOK, Requests
  <2> QED BY <1>2, <1>6, <2>1, NothingUnderWay
<1>12. Len(rdSessions) <= Len(rdSessions')
  BY <1>2 DEF RemoteTypeOK
<1> QED BY <1>2, <1>5, <1>6, <1>8, <1>9, <1>10, <1>11, <1>12, WorkerStep

LEMMA RecoverJournalSound ==
  ASSUME RemoteInv, NEW w \in RemoteWorkers, RecoverJournal(w)
  PROVE  RemoteInv'
<1> USE DEF RemoteInv
<1>1. /\ rdWorker[w].at = "down"
      /\ UNCHANGED <<rdRow, rdQueue, rdPackages, rdFacts, rdRestarts, rdSessions, rdWire, rdExecuted,
                     rdWorker>>
  BY DEF RecoverJournal, workerOnly, coordinatorMemory
<1>2. rdJournal \in [RemoteWorkers -> [Dispatches -> JournalRows]]
  BY DEF RemoteTypeOK, JournalRows
<1>3. PICK recovered : /\ recovered = [d \in Dispatches |->
                            IF rdJournal[w][d].state = "started"
                              THEN [rdJournal[w][d] EXCEPT !.state = "ambiguous"]
                              ELSE rdJournal[w][d]]
                       /\ rdJournal' = [rdJournal EXCEPT ![w] = recovered]
  BY DEF RecoverJournal
<1>4. \A d \in Dispatches :
        /\ recovered[d] \in JournalRows
        /\ \/ recovered[d] = rdJournal[w][d]
           \/ rdJournal[w][d].state = "started" /\ recovered[d].state = "ambiguous"
  <2> SUFFICES ASSUME NEW d \in Dispatches
               PROVE  /\ recovered[d] \in JournalRows
                      /\ \/ recovered[d] = rdJournal[w][d]
                         \/ rdJournal[w][d].state = "started" /\ recovered[d].state = "ambiguous"
    OBVIOUS
  <2>1. rdJournal[w][d] \in JournalRows
    BY <1>2
  <2>2. PICK lost : lost = [rdJournal[w][d] EXCEPT !.state = "ambiguous"]
    OBVIOUS
  <2>3. lost \in JournalRows /\ lost.state = "ambiguous"
    BY <2>1, <2>2 DEF JournalRows, JournalStates
  <2>4. recovered[d] = IF rdJournal[w][d].state = "started" THEN lost ELSE rdJournal[w][d]
    BY <1>3, <2>2
  <2> QED BY <2>1, <2>3, <2>4
<1>5. recovered \in [Dispatches -> JournalRows]
  BY <1>3, <1>4
<1>6. /\ rdJournal' \in [RemoteWorkers -> [Dispatches -> JournalRows]] /\ rdJournal'[w] = recovered
      /\ \A v \in RemoteWorkers : v # w => rdJournal'[v] = rdJournal[v]
  BY <1>2, <1>3, <1>5
<1>7. JournalAdvances(w)
  BY <1>4, <1>6 DEF JournalAdvances, JournalBegun, JournalsHeld, WorkerOutcomes
<1>8. RemoteTypeOK'
  BY <1>1, <1>6 DEF RemoteTypeOK, JournalRows
<1>9. rdWorker[w] \in WorkerPlaces /\ rdWorker' = [rdWorker EXCEPT ![w] = rdWorker[w]]
  BY <1>1 DEF RemoteTypeOK, WorkerPlaces
<1>10. WorkerSound(w)'
  BY <1>1 DEF WorkerSound, Committed
<1>11. ExecutedOnce'
  <2>1. \A e \in Dispatches : Executable(w, e)' => Executable(w, e)
    BY <1>1 DEF Executable
  <2> QED BY <1>1, <1>7, <2>1, ExecutionsStand
<1>12. \A p \in rdWire : p.worker = w => p.session # rdWorker[w].session
  BY <1>1, NothingUnderWay
<1>13. Len(rdSessions) <= Len(rdSessions')
  BY <1>1 DEF RemoteTypeOK
<1> QED BY <1>1, <1>7, <1>8, <1>9, <1>10, <1>11, <1>12, <1>13, WorkerStep

(* The request of a step is sent. *)
LEMMA SendRequestSound ==
  ASSUME RemoteInv, NEW w \in RemoteWorkers, SendRequest(w)
  PROVE  RemoteInv'
<1> USE DEF RemoteInv
<1>1. UNCHANGED <<rdRow, rdQueue, rdPackages, rdFacts, rdRestarts, rdSessions, rdJournal, rdExecuted>>
  BY DEF SendRequest, workerOnly, coordinatorMemory
<1>2. PICK d, n, kind, next, detail :
        /\ d = rdWorker[w].dispatch /\ n = rdWorker[w].session
        /\ rdWire' = rdWire \cup {[kind |-> kind, worker |-> w, session |-> n,
                                   dispatch |-> d, detail |-> detail]}
        /\ rdWorker' = [rdWorker EXCEPT ![w].at = next]
        /\ \/ rdWorker[w].at = "idle" /\ kind = "poll" /\ next = "polling" /\ detail = "in_time"
           \/ /\ rdWorker[w].at = "prepared" /\ kind = "accepted" /\ next = "accepting"
              /\ detail \in {"late", "in_time"}
           \/ /\ rdWorker[w].at = "journalled" /\ kind = "started" /\ next = "starting"
              /\ detail = "in_time"
           \/ /\ rdWorker[w].at = "ended" /\ kind = "terminal" /\ next = "reporting"
              /\ detail = rdJournal[w][d].state
  BY DEF SendRequest
<1>3. /\ WorkerSound(w) /\ n \in 1..Len(rdSessions) /\ n \in 1..MaxSessions
      /\ d \in Dispatches \cup {Nobody}
      /\ kind # "poll" => d \in Dispatches
      /\ kind = "terminal" => detail \in WorkerOutcomes
  <2>1. WorkerSound(w)
    BY DEF WorkersSound
  <2>2. /\ rdWorker[w].session \in 0..MaxSessions
        /\ rdWorker[w].dispatch \in Dispatches \cup {Nobody}
        /\ Len(rdSessions) \in Nat /\ Len(rdSessions) <= MaxSessions
    BY DEF RemoteTypeOK
  <2>3. n \in 1..Len(rdSessions) /\ (kind # "poll" => d \in Dispatches)
        /\ (kind = "terminal" => detail \in WorkerOutcomes)
    BY <1>2, <2>1 DEF WorkerSound
  <2> QED BY <1>2, <2>1, <2>2, <2>3, RemoteAssumption
<1>4. PICK q : q = [kind |-> kind, worker |-> w, session |-> n, dispatch |-> d, detail |-> detail]
  OBVIOUS
<1>5. /\ q \in Requests /\ rdWire' = rdWire \cup {q}
      /\ q.kind = kind /\ q.worker = w /\ q.session = n /\ q.dispatch = d /\ q.detail = detail
  BY <1>2, <1>3, <1>4 DEF Requests
<1>6. PICK u \in WorkerPlaces : GoesTo(w, next, u)
  <2>1. next \in WorkerSteps
    BY <1>2 DEF WorkerSteps
  <2>2. rdWorker' = [rdWorker EXCEPT ![w].at = next]
    BY <1>2
  <2> QED BY <2>1, <2>2, WorkerMoves, Zenon
<1>7. /\ rdWorker'[w].at = next /\ rdWorker'[w].session = n /\ rdWorker'[w].dispatch = d
      /\ rdWorker' \in [RemoteWorkers -> WorkerPlaces]
      /\ \A v \in RemoteWorkers : v # w => rdWorker'[v] = rdWorker[v]
  BY <1>2, <1>6 DEF GoesTo
<1>8. RemoteTypeOK'
  BY <1>1, <1>5, <1>7 DEF RemoteTypeOK, WorkerPlaces
<1>9. \A p \in rdWire : p.worker = w => p.session # n
  BY <1>2, NothingUnderWay
<1>10. JournalsHeld' /\ QueueSound' /\ DigestsHeld'
  BY <1>1 DEF JournalsHeld, JournalBegun, Taken, QueueSound, DigestsHeld
<1>11. WorkersSound'
  <2> SUFFICES ASSUME NEW v \in RemoteWorkers PROVE WorkerSound(v)'
    BY DEF WorkersSound
  <2>1. CASE v # w
    BY <1>1, <1>7, <2>1 DEF WorkersSound, WorkerSound, Taken
  <2>2. CASE v = w
    BY <1>1, <1>2, <1>3, <1>7, <2>2 DEF WorkerSound, Taken, Committed
  <2> QED BY <2>1, <2>2
<1>12. WireSound'
  <2>1. ASSUME NEW p \in rdWire PROVE RequestSound(p)'
    <3>1. RequestSound(p) /\ p.worker \in RemoteWorkers
      BY <2>1 DEF WireSound, RemoteTypeOK, Requests
    <3>2. rdWorker'[p.worker].session = p.session => rdWorker'[p.worker] = rdWorker[p.worker]
      BY <1>7, <1>9, <3>1
    <3>3. ~(q.worker = p.worker /\ q.session = p.session)
      BY <1>5, <1>9
    <3> QED BY <1>1, <1>5, <3>1, <3>2, <3>3 DEF RequestSound, Waiting
  <2>2. RequestSound(q)'
    <3>1. Waiting(q)'
      BY <1>2, <1>5, <1>7 DEF Waiting
    <3>2. \A p \in rdWire' : p.worker = q.worker /\ p.session = q.session => p = q
      BY <1>5, <1>9
    <3> QED BY <1>1, <1>2, <1>3, <1>5, <1>7, <3>1, <3>2 DEF RequestSound
  <2> QED BY <1>5, <2>1, <2>2 DEF WireSound
<1>13. ExecutedOnce'
  <2>1. JournalAdvances(w)
    BY <1>1 DEF JournalAdvances
  <2>2. \A e \in Dispatches : Executable(w, e)' => Executable(w, e)
    BY <1>2, <1>7 DEF Executable
  <2> QED BY <1>1, <1>7, <2>1, <2>2, ExecutionsStand
<1> QED BY <1>8, <1>10, <1>11, <1>12, <1>13

LEMMA RemoteInitially ==
  ASSUME RemoteInit
  PROVE  RemoteInv
<1>1. NoRow \in DispatchRows /\ NoRow.state = "absent" /\ NoRow.digest = "none"
  BY RemoteAssumption DEF NoRow, DispatchRows, RowStates
<1>2. NoEntry \in JournalRows /\ NoEntry.state = "absent"
  BY RemoteAssumption DEF NoEntry, JournalRows, JournalStates
<1>3. Stopped \in WorkerPlaces /\ Stopped.at = "down" /\ Stopped.session = 0
  BY RemoteAssumption DEF Stopped, WorkerPlaces, WorkerSteps
<1>4. RemoteTypeOK
  <2>1. /\ rdRow \in [Dispatches -> DispatchRows]
        /\ rdJournal \in [RemoteWorkers -> [Dispatches -> JournalRows]]
        /\ rdWorker \in [RemoteWorkers -> WorkerPlaces]
    BY <1>1, <1>2, <1>3 DEF RemoteInit
  <2>2. /\ rdQueue \in Seq(Dispatches) /\ IsInjective(rdQueue) /\ ToSet(rdQueue) \subseteq rdPackages
    BY DEF RemoteInit, IsInjective, ToSet
  <2>3. rdSessions \in Seq([worker : RemoteWorkers, open : BOOLEAN, active : 0..SlotsPerWorker])
    BY DEF RemoteInit
  <2>4. Len(rdSessions) <= MaxSessions
    BY RemoteAssumption DEF RemoteInit
  <2>5. /\ rdPackages \subseteq Dispatches /\ rdFacts \subseteq Dispatches /\ rdWire \subseteq Requests
        /\ rdExecuted \in [Dispatches -> Nat] /\ rdRestarts \in 0..MaxCoordinatorRestarts
    BY RemoteAssumption DEF RemoteInit
  <2> QED BY <2>1, <2>2, <2>3, <2>4, <2>5 DEF RemoteTypeOK, DispatchRows, JournalRows, WorkerPlaces
<1>5. JournalsHeld
  BY <1>2 DEF RemoteInit, JournalsHeld, JournalBegun
<1>6. QueueSound
  BY DEF RemoteInit, QueueSound
<1>7. WorkersSound
  BY <1>3 DEF RemoteInit, WorkersSound, WorkerSound, Committed
<1>8. WireSound
  BY DEF RemoteInit, WireSound
<1>9. ExecutedOnce
  BY DEF RemoteInit, ExecutedOnce
<1>10. DigestsHeld
  BY <1>1 DEF RemoteInit, DigestsHeld, WorkerOutcomes
<1> QED BY <1>4, <1>5, <1>6, <1>7, <1>8, <1>9, <1>10 DEF RemoteInv

LEMMA ServeSound ==
  ASSUME RemoteInv, NEW q \in rdWire, Serve(q)
  PROVE  RemoteInv'
<1>1. rdWire' = rdWire \ {q} /\ UNCHANGED <<rdJournal, rdExecuted, rdRestarts>>
  BY DEF Serve
<1>2. CASE OfferNext(q)
  BY <1>1, <1>2, OfferSound
<1>3. CASE NothingToOffer(q) \/ Refuse(q)
  BY <1>1, <1>3, AnswersOnly
<1>4. CASE RecordFact(q)
  BY <1>1, <1>4, RecordFactSound
<1>5. CASE RecordTerminal(q)
  BY <1>1, <1>5, RecordTerminalSound
<1> QED BY <1>2, <1>3, <1>4, <1>5 DEF Serve

LEMMA RemoteStepInductive ==
  ASSUME RemoteInv, [RemoteNext]_rdVars
  PROVE  RemoteInv'
<1>1. CASE MaintainDispatches
  BY <1>1, MaintainSound
<1>2. CASE RestartCoordinator \/ \E s \in DOMAIN rdSessions : ExpireSession(s)
  BY <1>2, SessionsClose
<1>3. ASSUME NEW d \in Dispatches,
             \/ EnqueueDispatch(d) \/ OfferExpires(d)
             \/ RequestDispatchCancel(d) \/ ReconcileDispatch(d)
      PROVE  RemoteInv'
  BY <1>3, EnqueueSound, RowMarks
<1>4. ASSUME NEW q \in rdWire, Serve(q)
      PROVE  RemoteInv'
  BY <1>4, ServeSound
<1>5. ASSUME NEW w \in RemoteWorkers,
             \/ EstablishSession(w) \/ SendRequest(w) \/ PrepareAttempt(w) \/ StartAttempt(w)
             \/ ExecuteAttempt(w) \/ WorkerStops(w) \/ ShutdownWorker(w) \/ RecoverJournal(w)
             \/ \E outcome \in WorkerOutcomes : CompleteAttempt(w, outcome)
      PROVE  RemoteInv'
  <2>1. CASE EstablishSession(w) \/ WorkerStops(w) \/ ShutdownWorker(w)
    BY <2>1, WorkerSessionsSound
  <2>2. CASE SendRequest(w)
    BY <2>2, SendRequestSound
  <2>3. CASE PrepareAttempt(w)
    BY <2>3, PrepareAttemptSound
  <2>4. CASE StartAttempt(w)
    BY <2>4, StartAttemptSound
  <2>5. CASE ExecuteAttempt(w)
    BY <2>5, ExecuteAttemptSound
  <2>6. CASE RecoverJournal(w)
    BY <2>6, RecoverJournalSound
  <2>7. CASE \E outcome \in WorkerOutcomes : CompleteAttempt(w, outcome)
    BY <2>7, CompleteAttemptSound
  <2> QED BY <1>5, <2>1, <2>2, <2>3, <2>4, <2>5, <2>6, <2>7
<1>6. CASE UNCHANGED rdVars
  <2>1. UNCHANGED <<rdRow, rdQueue, rdPackages, rdFacts, rdSessions, rdJournal, rdWorker, rdWire,
                    rdExecuted, rdRestarts>>
    BY <1>6 DEF rdVars
  <2>2. RemoteTypeOK' /\ QueueSound' /\ DigestsHeld'
    BY <2>1 DEF RemoteInv, RemoteTypeOK, QueueSound, DigestsHeld
  <2>3. RowsAdvance
    BY <2>1 DEF RowsAdvance, Taken
  <2>4. rdWire' \subseteq rdWire /\ Len(rdSessions') = Len(rdSessions)
    BY <2>1
  <2> QED BY <2>1, <2>2, <2>3, <2>4, CoordinatorStep
<1> QED BY <1>1, <1>2, <1>3, <1>4, <1>5, <1>6 DEF RemoteNext

LEMMA RemoteInductive == RemoteSpec => []RemoteInv
<1> QED BY RemoteInitially, RemoteStepInductive, PTL DEF RemoteSpec

(* Rows, queue, sessions, journals, workers and requests keep their types   *)
(* for any dispatches, workers and slots, whatever crashes: in particular   *)
(* no dispatch is queued twice and no session holds more than its slots     *)
(* (remote_transport.rs, remote_coordinator.rs).                            *)
THEOREM RemoteTyped == RemoteSpec => []RemoteTypeOK
<1> QED BY RemoteInductive, PTL DEF RemoteInv

(* For any dispatches and workers, over expired offers, late requests and   *)
(* crashes of either side, the script of a dispatch runs at most once, and  *)
(* a recorded outcome is the one that the journal of its worker holds       *)
(* (mark_lost_remote_dispatches, prepare_woml_remote_attempt,               *)
(* terminal_remote_dispatch).                                               *)
THEOREM RemoteOnce == RemoteSpec => []RemoteRunsOnce
<1>1. ASSUME RemoteInv PROVE RemoteRunsOnce
  BY <1>1 DEF RemoteInv, ExecutedOnce, DigestsHeld, RemoteRunsOnce
<1> QED BY <1>1, RemoteInductive, PTL

(* What a step may do to a settled row. *)
RowStands(d) ==
  /\ rdRow[d].state \in WorkerOutcomes \cup {"abandoned"} => rdRow'[d] = rdRow[d]
  /\ rdRow[d].state = "ambiguous" =>
       rdRow'[d].state \in {"ambiguous", "abandoned"} \cup WorkerOutcomes

LEMMA UntouchedRowStands ==
  ASSUME NEW d \in Dispatches, rdRow'[d] = rdRow[d]
  PROVE  RowStands(d)
  BY DEF RowStands, WorkerOutcomes

(* A request of a worker changes no settled row, and ends an ambiguous one *)
(* at most.                                                                *)
LEMMA ServedRowsStand ==
  ASSUME RemoteInv, NEW q \in rdWire, Serve(q), NEW d \in Dispatches
  PROVE  RowStands(d)
<1> USE DEF RemoteInv
<1>1. rdRow \in [Dispatches -> DispatchRows] /\ rdRow[d] \in DispatchRows
  BY DEF RemoteTypeOK, DispatchRows
<1>2. CASE NothingToOffer(q) \/ Refuse(q)
  BY <1>2, UntouchedRowStands DEF NothingToOffer, Refuse
<1>3. CASE OfferNext(q)
  <2>1. PICK h : h = Head(rdQueue)
    OBVIOUS
  <2>2. rdQueue \in Seq(Dispatches) /\ rdQueue # <<>>
    BY <1>3 DEF RemoteTypeOK, OfferNext
  <2>3. h = rdQueue[1] /\ 1 \in DOMAIN rdQueue
    BY <2>1, <2>2
  <2>4. rdRow[h].state = "requested"
    BY <2>3 DEF QueueSound
  <2>5. d # h => rdRow'[d] = rdRow[d]
    BY <1>1, <1>3, <2>1 DEF OfferNext
  <2>6. CASE d = h
    BY <2>4, <2>6 DEF RowStands, WorkerOutcomes
  <2>7. CASE d # h
    BY <2>5, <2>7, UntouchedRowStands
  <2> QED BY <2>6, <2>7
<1>4. CASE RecordFact(q)
  <2>1. \/ d # q.dispatch /\ rdRow'[d] = rdRow[d]
        \/ d = q.dispatch /\ rdRow[d].state \in {"accepted", "offered", "started"}
    BY <1>1, <1>4 DEF RecordFact, CanAccept, CanStart
  <2>2. CASE rdRow'[d] = rdRow[d]
    BY <2>2, UntouchedRowStands
  <2>3. CASE rdRow[d].state \in {"accepted", "offered", "started"}
    BY <2>3 DEF RowStands, WorkerOutcomes
  <2> QED BY <2>1, <2>2, <2>3
<1>5. CASE RecordTerminal(q)
  <2>1. CASE d # q.dispatch
    <3>1. rdRow'[d] = rdRow[d]
      BY <1>1, <1>5, <2>1 DEF RecordTerminal
    <3> QED BY <3>1, UntouchedRowStands
  <2>2. CASE d = q.dispatch
    <3>1. PICK row : row = [rdRow[d] EXCEPT !.state = q.detail, !.digest = q.detail]
      OBVIOUS
    <3>2. rdRow' = [rdRow EXCEPT ![d] = row]
      BY <1>5, <2>2, <3>1 DEF RecordTerminal, Ended
    <3>3. rdRow'[d] = row
      BY <1>1, <3>2
    <3>4. q.detail \in WorkerOutcomes
      BY <1>5 DEF RecordTerminal, WireSound, RequestSound
    <3>5. row.state = q.detail
      BY <1>1, <3>1 DEF DispatchRows
    <3>6. CASE SameTerminal(q)
      <4>1. row = rdRow[d]
        BY <1>1, <2>2, <3>1, <3>6 DEF SameTerminal, DispatchRows
      <4> QED BY <3>3, <4>1, UntouchedRowStands
    <3>7. CASE rdRow[d].state \in {"started", "cancel_requested", "ambiguous"}
      BY <3>3, <3>4, <3>5, <3>7 DEF RowStands, WorkerOutcomes
    <3> QED BY <1>5, <2>2, <3>6, <3>7 DEF RecordTerminal, CanEnd
  <2> QED BY <2>1, <2>2
<1> QED BY <1>2, <1>3, <1>4, <1>5 DEF Serve

LEMMA RowsStand ==
  ASSUME RemoteInv, [RemoteNext]_rdVars, NEW d \in Dispatches
  PROVE  RowStands(d)
<1>1. rdRow \in [Dispatches -> DispatchRows] /\ rdRow[d] \in DispatchRows
  BY DEF RemoteInv, RemoteTypeOK, DispatchRows
<1>2. CASE MaintainDispatches
  <2>1. rdRow'[d] = LostRow(rdRow[d])
    BY <1>2 DEF MaintainDispatches
  <2>2. \/ rdRow'[d] = rdRow[d]
        \/ rdRow[d].state \in {"offered", "accepted", "started", "cancel_requested"}
    BY <1>1, <2>1, LostRowSound
  <2>3. CASE rdRow[d].state \in {"offered", "accepted", "started", "cancel_requested"}
    BY <2>3 DEF RowStands, WorkerOutcomes
  <2> QED BY <2>2, <2>3, UntouchedRowStands
<1>3. CASE UNCHANGED rdRow
  BY <1>3, UntouchedRowStands
<1>4. ASSUME NEW e \in Dispatches, EnqueueDispatch(e)
      PROVE  RowStands(d)
  <2>1. rdRow'[d] = rdRow[d] \/ rdRow[d].state = "absent"
    BY <1>1, <1>4 DEF EnqueueDispatch
  <2>2. CASE rdRow[d].state = "absent"
    BY <2>2 DEF RowStands, WorkerOutcomes
  <2> QED BY <2>1, <2>2, UntouchedRowStands
<1>5. ASSUME NEW e \in Dispatches, OfferExpires(e) \/ RequestDispatchCancel(e)
      PROVE  RowStands(d)
  <2>1. \/ rdRow'[d] = rdRow[d]
        \/ rdRow[d].state \in {"offered", "accepted", "started", "cancel_requested"}
    BY <1>1, <1>5 DEF OfferExpires, RequestDispatchCancel
  <2>2. CASE rdRow[d].state \in {"offered", "accepted", "started", "cancel_requested"}
    BY <2>2 DEF RowStands, WorkerOutcomes
  <2> QED BY <2>1, <2>2, UntouchedRowStands
<1>6. ASSUME NEW e \in Dispatches, ReconcileDispatch(e)
      PROVE  RowStands(d)
  <2>1. CASE d # e
    <3>1. rdRow'[d] = rdRow[d]
      BY <1>1, <1>6, <2>1 DEF ReconcileDispatch
    <3> QED BY <3>1, UntouchedRowStands
  <2>2. CASE d = e
    <3>1. rdRow[d].state = "ambiguous" /\ rdRow'[d].state \in {"abandoned", "failed"}
      BY <1>1, <1>6, <2>2 DEF ReconcileDispatch, DispatchRows
    <3> QED BY <3>1 DEF RowStands, WorkerOutcomes
  <2> QED BY <2>1, <2>2
<1>7. ASSUME NEW q \in rdWire, Serve(q)
      PROVE  RowStands(d)
  BY <1>7, ServedRowsStand
<1>8. CASE \/ RestartCoordinator \/ \E s \in DOMAIN rdSessions : ExpireSession(s)
           \/ UNCHANGED rdVars
  <2>1. UNCHANGED rdRow
    BY <1>8 DEF RestartCoordinator, ExpireSession, rdVars
  <2> QED BY <1>3, <2>1
<1>9. ASSUME NEW w \in RemoteWorkers,
             \/ EstablishSession(w) \/ SendRequest(w) \/ PrepareAttempt(w) \/ StartAttempt(w)
             \/ ExecuteAttempt(w) \/ WorkerStops(w) \/ ShutdownWorker(w) \/ RecoverJournal(w)
             \/ \E outcome \in WorkerOutcomes : CompleteAttempt(w, outcome)
      PROVE  RowStands(d)
  <2>1. UNCHANGED workerOnly
    BY <1>9 DEF EstablishSession, SendRequest, PrepareAttempt, StartAttempt, ExecuteAttempt,
       WorkerStops, ShutdownWorker, RecoverJournal, CompleteAttempt
  <2>2. UNCHANGED rdRow
    BY <2>1 DEF workerOnly
  <2> QED BY <2>2, UntouchedRowStands, Zenon
<1> QED BY <1>2, <1>4, <1>5, <1>6, <1>7, <1>8, <1>9 DEF RemoteNext

(* What the coordinator has settled stays settled: no late fact of a worker, *)
(* lost row or operator changes an ended dispatch, and an ambiguous one is   *)
(* never offered again (terminal_remote_dispatch,                            *)
(* reconcile_remote_dispatch).                                               *)
THEOREM SettledStand == RemoteSpec => SettledDispatchesStand
<1>1. ASSUME RemoteInv, [RemoteNext]_rdVars
      PROVE  [\A d \in Dispatches :
                /\ rdRow[d].state \in WorkerOutcomes \cup {"abandoned"} => rdRow'[d] = rdRow[d]
                /\ rdRow[d].state = "ambiguous" =>
                     rdRow'[d].state \in {"ambiguous", "abandoned"} \cup WorkerOutcomes]_rdVars
  BY <1>1, RowsStand DEF RowStands
<1> QED BY <1>1, RemoteInductive, PTL DEF RemoteSpec, SettledDispatchesStand

-----------------------------------------------------------------------------
(* DurableState: a mutation is applied once and reported as it happened.   *)

StateResults == [stored : BOOLEAN, value : Int, version : Nat]
StateReceipts == [present : BOOLEAN, input : Int, result : StateResults, version : Nat]
StateRows == [present : BOOLEAN, value : Int, version : Nat]
StateRunRows == [status : {"running", "cancelling", "succeeded", "failed", "cancelled"},
                 attempt : Nat, active : BOOLEAN, retry : BOOLEAN]
StateOperationRows ==
  [status : {"none", "started", "succeeded", "refused", "ambiguous"}, input : Int,
   result : StateResults]
StateScriptRows ==
  [at : ScriptSteps, pc : Nat, seen : Nat, answer : Answers, result : StateResults]
StateTaskRows ==
  [key : OperationKeys, attempt : Nat, input : Int, entered : BOOLEAN, cancelled : BOOLEAN]
StateWrites == [key : OperationKeys, attempt : Nat, version : Nat]

(* The operations of a history: by run, attempt and call. *)
OperationsTyped ==
  /\ DOMAIN stOps = StateRuns
  /\ \A r \in StateRuns :
       /\ DOMAIN stOps[r] = 1..StateAttempts[r]
       /\ \A a \in 1..StateAttempts[r] :
            /\ DOMAIN stOps[r][a] = DOMAIN stCalls[r]
            /\ \A i \in DOMAIN stCalls[r] : stOps[r][a][i] \in StateOperationRows

StoreTyped ==
  /\ stEntries \in [StateKeys -> StateRows]
  /\ stReceipts \in [OperationKeys -> StateReceipts]
  /\ stLog \in Seq(StateWrites)

StateTypes ==
  /\ stCalls \in StateScripts
  /\ stRuns \in [StateRuns -> StateRunRows]
  /\ stScripts \in [StateRuns -> StateScriptRows]
  /\ stTasks \subseteq StateTaskRows
  /\ OperationsTyped

(* A receipt that is not there has no version, and there is a greatest one. *)
ReceiptsSound ==
  /\ \A k \in OperationKeys : ~stReceipts[k].present => stReceipts[k].version = 0
  /\ \E n \in Nat : \A k \in OperationKeys : stReceipts[k].version <= n

(* A write has the receipt that was committed with it. *)
WritesReceipted ==
  \A n \in DOMAIN stLog :
    /\ stReceipts[stLog[n].key].present
    /\ stReceipts[stLog[n].key].version = stLog[n].version

StoreInv == StoreTyped /\ ReceiptsSound /\ WritesReceipted /\ StateAppliedOnce

(* The i-th call of attempt a of run r was made. *)
CallMade(r, a, i) ==
  /\ a <= Attempt(r)
  /\ a = Attempt(r) /\ stScripts[r].at = "ready" => i < stScripts[r].pc
  /\ a = Attempt(r) /\ stScripts[r].at \in {"calling", "stopping", "answered"} =>
       i <= stScripts[r].pc

(* The write of call k in attempt a is in the store, or its task may still *)
(* make it.                                                                *)
Written(k, a) == \E n \in DOMAIN stLog : stLog[n].key = k /\ stLog[n].attempt = a
Tasked(k, a) == \E t \in stTasks : t.key = k /\ t.attempt = a

WritesMade == \A n \in DOMAIN stLog : CallMade(stLog[n].key[1], stLog[n].attempt, stLog[n].key[2])

(* A call has one task, which has not committed yet. *)
TasksSound ==
  \A t \in stTasks :
    /\ CallMade(t.key[1], t.attempt, t.key[2]) /\ ~Written(t.key, t.attempt)
    /\ \A u \in stTasks : u.key = t.key /\ u.attempt = t.attempt => u = t

(* An answer that is not recorded yet is as true as it will be then. *)
AnswerSound(r) ==
  LET s == stScripts[r] k == <<r, stScripts[r].pc>> IN
  /\ s.at \in {"calling", "stopping", "answered"} => s.pc \in DOMAIN stCalls[r]
  /\ s.at = "answered" /\ IsMutation(k) =>
       /\ s.answer = "ok" => stReceipts[k].present /\ stReceipts[k].result = s.result
       /\ s.answer = "refused" => ~Written(k, Attempt(r)) /\ ~Tasked(k, Attempt(r))

AnswersSound == \A r \in StateRuns : AnswerSound(r)

StateInv ==
  StateTypes /\ StoreInv /\ WritesMade /\ TasksSound /\ AnswersSound /\ HonestOutcomes

(* The greatest member of a set of naturals, if there is one. *)
LEMMA GreatestMember ==
  ASSUME NEW S \in SUBSET Nat, NEW m \in S, \A x \in S : x <= m
  PROVE  Max(S) = m
<1>1. Max(S) \in S /\ \A y \in S : Max(S) >= y
  BY DEF Max
<1>2. PICK x : x = Max(S)
  OBVIOUS
<1>3. x \in Nat /\ x <= m /\ m <= x
  BY <1>1, <1>2
<1>4. x = m
  BY <1>3
<1> QED BY <1>2, <1>4

LEMMA GreatestExists ==
  ASSUME NEW S \in SUBSET Nat, S # {}, NEW n \in Nat, \A x \in S : x <= n
  PROVE  /\ Max(S) \in S
         /\ \A x \in S : x <= Max(S)
<1> DEFINE R == {n - x : x \in S}
<1>1. R \in SUBSET Nat /\ R # {}
  <2>1. \A x \in S : n - x \in Nat
    OBVIOUS
  <2>2. PICK x \in S : TRUE
    OBVIOUS
  <2>3. n - x \in R
    BY <2>2
  <2> QED BY <2>1, <2>3
<1>2. Min(R) \in R /\ \A k \in R : Min(R) <= k
  BY <1>1, LeastMember
<1>3. PICK m \in S : Min(R) = n - m
  BY <1>2
<1>4. \A x \in S : n - m <= n - x
  BY <1>2, <1>3
<1>5. \A x \in S : x <= m
  BY <1>4
<1> QED BY <1>5, GreatestMember

(* Operation keys name a run and a call of its script. *)
LEMMA KeyParts ==
  ASSUME stCalls \in StateScripts
  PROVE  /\ \A r \in StateRuns : DOMAIN stCalls[r] \subseteq Nat
         /\ \A r \in StateRuns : \A i \in DOMAIN stCalls[r] :
              /\ <<r, i>> \in OperationKeys /\ CallOf(<<r, i>>) = stCalls[r][i]
              /\ stCalls[r][i].key \in StateKeys /\ stCalls[r][i].amount \in Int
              /\ stCalls[r][i].op \in StateOperations
         /\ \A k \in OperationKeys :
              /\ k = <<k[1], k[2]>> /\ k[1] \in StateRuns /\ k[2] \in DOMAIN stCalls[k[1]]
              /\ k[2] \in Nat /\ CallOf(k).key \in StateKeys /\ CallOf(k).amount \in Int
              /\ CallOf(k).op \in StateOperations
<1> DEFINE Calls == [op : StateOperations, key : StateKeys,
                     amount : -MaxStateInteger..MaxStateInteger, guard : StateGuards]
<1>1. \A r \in StateRuns : stCalls[r] \in Seq(Calls)
  BY StateAssumption
<1>2. \A r \in StateRuns : \A i \in DOMAIN stCalls[r] : i \in Nat /\ stCalls[r][i] \in Calls
  <2> HIDE DEF Calls
  <2> QED BY <1>1
<1>3. \A c \in Calls : c.key \in StateKeys /\ c.amount \in Int /\ c.op \in StateOperations
  BY StateAssumption
<1>4. \A r \in StateRuns : \A i \in DOMAIN stCalls[r] :
        /\ i \in Nat /\ stCalls[r][i].key \in StateKeys /\ stCalls[r][i].amount \in Int
        /\ stCalls[r][i].op \in StateOperations
  <2> HIDE DEF Calls
  <2> QED BY <1>2, <1>3
<1>5. \A k \in OperationKeys : \E r \in StateRuns : \E i \in DOMAIN stCalls[r] : k = <<r, i>>
  BY DEF OperationKeys
<1>6. \A r \in StateRuns : \A i \in DOMAIN stCalls[r] : <<r, i>> \in OperationKeys
  BY DEF OperationKeys
<1>7. \A r, i : CallOf(<<r, i>>) = stCalls[r][i]
  BY DEF CallOf
<1>8. ASSUME NEW k \in OperationKeys
      PROVE  /\ k = <<k[1], k[2]>> /\ k[1] \in StateRuns /\ k[2] \in DOMAIN stCalls[k[1]]
             /\ k[2] \in Nat /\ CallOf(k).key \in StateKeys /\ CallOf(k).amount \in Int
             /\ CallOf(k).op \in StateOperations
  <2>1. PICK r \in StateRuns : \E i \in DOMAIN stCalls[r] : k = <<r, i>>
    BY <1>5
  <2>2. PICK i \in DOMAIN stCalls[r] : k = <<r, i>>
    BY <2>1
  <2> QED BY <1>4, <1>7, <2>1, <2>2
<1> QED BY <1>4, <1>6, <1>7, <1>8

LEMMA CallsFixed ==
  ASSUME UNCHANGED stCalls
  PROVE  /\ OperationKeys' = OperationKeys
         /\ \A k : CallOf(k)' = CallOf(k) /\ (IsMutation(k)' <=> IsMutation(k))
<1>1. OperationKeys' = OperationKeys
  BY DEF OperationKeys
<1>2. \A k : CallOf(k)' = CallOf(k)
  BY DEF CallOf
<1> QED BY <1>1, <1>2 DEF IsMutation

(* The versions that the receipts of a key have. *)
VersionsOf(receipts, key) ==
  {0} \cup {receipts[k].version : k \in {x \in OperationKeys : CallOf(x).key = key}}

LEMMA MaxVersionFacts ==
  ASSUME stReceipts \in [OperationKeys -> StateReceipts], ReceiptsSound, NEW key
  PROVE  /\ MaxVersionOf(key) \in Nat /\ MaxVersionOf(key) \in VersionsOf(stReceipts, key)
         /\ MaxVersionOf(key) = Max(VersionsOf(stReceipts, key))
         /\ \A v \in VersionsOf(stReceipts, key) : v <= MaxVersionOf(key)
<1> DEFINE S == VersionsOf(stReceipts, key)
<1>1. \A k \in OperationKeys : stReceipts[k].version \in Nat
  BY DEF StateReceipts
<1>2. S \in SUBSET Nat /\ S # {}
  BY <1>1 DEF VersionsOf
<1>3. PICK n \in Nat : \A k \in OperationKeys : stReceipts[k].version <= n
  BY DEF ReceiptsSound
<1>4. \A x \in S : x <= n
  BY <1>3 DEF VersionsOf
<1>5. MaxVersionOf(key) = Max(S)
  BY DEF MaxVersionOf, VersionsOf
<1>6. Max(S) \in S /\ \A x \in S : x <= Max(S)
  <2> HIDE DEF S
  <2> QED BY <1>2, <1>4, GreatestExists
<1> QED BY <1>2, <1>5, <1>6

(* What a committed receipt does to the versions of the keys. *)
Receives(k, receipt, key0, m) ==
  /\ UNCHANGED stCalls /\ stReceipts \in [OperationKeys -> StateReceipts] /\ ReceiptsSound
  /\ k \in OperationKeys /\ ~stReceipts[k].present
  /\ receipt \in StateReceipts /\ receipt.present
  /\ stReceipts' = [stReceipts EXCEPT ![k] = receipt]
  /\ key0 = CallOf(k).key /\ m = MaxVersionOf(key0) /\ receipt.version <= m + 1

LEMMA MaxVersionMoves ==
  ASSUME NEW k, NEW receipt, NEW key0, NEW m, Receives(k, receipt, key0, m)
  PROVE  /\ ReceiptsSound'
         /\ \A key : key # key0 => MaxVersionOf(key)' = MaxVersionOf(key)
         /\ receipt.version <= m => MaxVersionOf(key0)' = m
         /\ receipt.version = m + 1 => MaxVersionOf(key0)' = receipt.version
<1> USE DEF Receives
<1>1. /\ OperationKeys' = OperationKeys /\ \A x : CallOf(x)' = CallOf(x)
  BY CallsFixed
<1>2. /\ stReceipts'[k] = receipt /\ \A x \in OperationKeys : x # k => stReceipts'[x] = stReceipts[x]
      /\ \A x \in OperationKeys : stReceipts[x].version \in Nat
      /\ stReceipts[k].version = 0 /\ receipt.version \in Nat
      /\ stReceipts' \in [OperationKeys -> StateReceipts]
  BY DEF StateReceipts, ReceiptsSound
<1>3. ReceiptsSound'
  <2>1. \A x \in OperationKeys : ~stReceipts'[x].present => stReceipts'[x].version = 0
    BY <1>2 DEF ReceiptsSound
  <2>2. PICK n \in Nat : \A x \in OperationKeys : stReceipts[x].version <= n
    BY DEF ReceiptsSound
  <2>3. n + receipt.version \in Nat
        /\ \A x \in OperationKeys : stReceipts'[x].version <= n + receipt.version
    BY <1>2, <2>2
  <2> QED BY <1>1, <2>1, <2>3 DEF ReceiptsSound
<1>4. \A key : MaxVersionOf(key)' = Max(VersionsOf(stReceipts', key))
  BY <1>1 DEF MaxVersionOf, VersionsOf
<1>5. \A key : MaxVersionOf(key) = Max(VersionsOf(stReceipts, key))
  BY DEF MaxVersionOf, VersionsOf
<1>6. ASSUME NEW key, key # key0
      PROVE  MaxVersionOf(key)' = MaxVersionOf(key)
  <2>1. VersionsOf(stReceipts', key) = VersionsOf(stReceipts, key)
    BY <1>2, <1>6 DEF VersionsOf
  <2> QED BY <1>4, <1>5, <2>1
<1>7. /\ m \in Nat /\ m \in VersionsOf(stReceipts, key0)
      /\ \A v \in VersionsOf(stReceipts, key0) : v <= m
  BY MaxVersionFacts
<1>8. /\ VersionsOf(stReceipts', key0) \subseteq VersionsOf(stReceipts, key0) \cup {receipt.version}
      /\ receipt.version \in VersionsOf(stReceipts', key0)
      /\ \A v \in VersionsOf(stReceipts, key0) : v \in VersionsOf(stReceipts', key0)
  <2>1. receipt.version \in VersionsOf(stReceipts', key0)
    BY <1>2 DEF VersionsOf
  <2>2. ASSUME NEW v \in VersionsOf(stReceipts', key0)
        PROVE  v \in VersionsOf(stReceipts, key0) \cup {receipt.version}
    BY <1>2, <2>2 DEF VersionsOf
  <2>3. ASSUME NEW v \in VersionsOf(stReceipts, key0)
        PROVE  v \in VersionsOf(stReceipts', key0)
    <3>1. CASE v = 0
      BY <3>1 DEF VersionsOf
    <3>2. CASE v # 0
      <4>1. PICK x \in OperationKeys : CallOf(x).key = key0 /\ v = stReceipts[x].version
        BY <2>3, <3>2 DEF VersionsOf
      <4>2. x # k
        BY <1>2, <3>2, <4>1
      <4> QED BY <1>2, <4>1, <4>2 DEF VersionsOf
    <3> QED BY <3>1, <3>2
  <2> QED BY <2>1, <2>2, <2>3
<1>9. VersionsOf(stReceipts', key0) \in SUBSET Nat
  BY <1>2 DEF VersionsOf
<1>10. ASSUME receipt.version <= m
       PROVE  MaxVersionOf(key0)' = m
  <2>1. m \in VersionsOf(stReceipts', key0) /\ \A v \in VersionsOf(stReceipts', key0) : v <= m
    BY <1>7, <1>8, <1>10
  <2>2. Max(VersionsOf(stReceipts', key0)) = m
    BY <1>9, <2>1, GreatestMember
  <2> QED BY <1>4, <2>2
<1>11. ASSUME receipt.version = m + 1
       PROVE  MaxVersionOf(key0)' = receipt.version
  <2>1. \A v \in VersionsOf(stReceipts', key0) : v <= receipt.version
    BY <1>2, <1>7, <1>8, <1>9, <1>11
  <2>2. Max(VersionsOf(stReceipts', key0)) = receipt.version
    BY <1>8, <1>9, <2>1, GreatestMember
  <2> QED BY <1>4, <2>2
<1> QED BY <1>3, <1>6, <1>10, <1>11

(* What an operation answers has the type of a result. *)
LEMMA ResultTyped ==
  ASSUME StateTypes, StoreInv, NEW t \in StateTaskRows
  PROVE  ResultOf(t) \in StateResults /\ NewValue(t) \in Int /\ CommittedVersion(t) \in Nat
<1>1. PICK c, entry, m : c = CallOf(t.key) /\ entry = stEntries[c.key] /\ m = MaxVersionOf(c.key)
  OBVIOUS
<1>2. t.key \in OperationKeys
  BY DEF StateTaskRows
<1>3. c.key \in StateKeys /\ c.amount \in Int
  BY <1>1, <1>2, KeyParts DEF StateTypes
<1>4. entry \in StateRows /\ entry.present \in BOOLEAN /\ entry.value \in Int /\ entry.version \in Nat
  BY <1>1, <1>3 DEF StoreInv, StoreTyped, StateRows
<1>5. m \in Nat
  BY <1>1, MaxVersionFacts DEF StoreInv, StoreTyped
<1>6. NewValue(t) \in Int
  BY <1>1, <1>3, <1>4 DEF NewValue
<1>7. CommittedVersion(t) \in Nat
  BY <1>1, <1>4, <1>5 DEF CommittedVersion, NextVersion
<1>8. Writes(t) \in BOOLEAN
  BY <1>1, <1>4 DEF Writes
<1> QED BY <1>1, <1>4, <1>6, <1>7, <1>8 DEF ResultOf, StateResults

(* The version with which a permitted mutation is committed. *)
LEMMA CommittedVersionFacts ==
  ASSUME StateTypes, StoreInv, NEW t \in StateTaskRows, IsMutation(t.key),
         NEW key, key = CallOf(t.key).key, NEW m, m = MaxVersionOf(key)
  PROVE  /\ Writes(t) => CommittedVersion(t) = m + 1
         /\ ~Writes(t) => CommittedVersion(t) <= m
         /\ m \in Nat /\ key \in StateKeys
<1>1. t.key \in OperationKeys /\ CallOf(t.key).op \in StateOperations /\ key \in StateKeys
  BY KeyParts DEF StateTaskRows, StateTypes
<1>2. m \in Nat
  BY MaxVersionFacts DEF StoreInv, StoreTyped
<1>3. stEntries[key].present => stEntries[key].version = m
  BY <1>1 DEF StoreInv, StateAppliedOnce, StoreIntact, LiveKeys
<1>4. Writes(t) => CommittedVersion(t) = m + 1
  BY DEF CommittedVersion, NextVersion
<1>5. ASSUME ~Writes(t) PROVE CommittedVersion(t) <= m
  <2>1. CASE CallOf(t.key).op = "set_if_absent"
    <3>1. stEntries[key].present
      BY <1>1, <1>5, <2>1 DEF Writes, StoreInv, StoreTyped, StateRows
    <3>2. CommittedVersion(t) = stEntries[key].version
      BY <1>5, <2>1 DEF CommittedVersion
    <3> QED BY <1>2, <1>3, <3>1, <3>2
  <2>2. CASE CallOf(t.key).op # "set_if_absent"
    <3>1. CommittedVersion(t) = 0
      BY <1>5, <2>2 DEF CommittedVersion
    <3> QED BY <1>2, <3>1
  <2> QED BY <2>1, <2>2
<1> QED BY <1>1, <1>2, <1>4, <1>5

(* The receipt of a mutation, as the transaction commits it. *)
Committing(t) == ~(Duplicate(t) \/ ~Permitted(t) \/ ~IsMutation(t.key))
ReceiptFor(t) ==
  [present |-> TRUE, input |-> t.input, result |-> ResultOf(t), version |-> CommittedVersion(t)]

(* The keys that are live, and their number, after a committed mutation. *)
LEMMA CommitCounts ==
  ASSUME StateTypes, StoreInv, UNCHANGED stCalls, NEW t \in StateTaskRows, Committing(t),
         ApplyToStore(t)
  PROVE  /\ stEntries' \in [StateKeys -> StateRows]
         /\ stQuota' = Cardinality(LiveKeys')
<1>1. PICK c, key, m : c = CallOf(t.key) /\ key = c.key /\ m = MaxVersionOf(key)
  OBVIOUS
<1>2. m \in Nat /\ key \in StateKeys
  BY <1>1, CommittedVersionFacts DEF Committing
<1>3. /\ stEntries \in [StateKeys -> StateRows] /\ stQuota = Cardinality(LiveKeys)
      /\ stEntries[key].present \in BOOLEAN
  BY <1>2 DEF StoreInv, StoreTyped, StateAppliedOnce, StoreIntact, StateRows
<1>4. IsFiniteSet(LiveKeys)
  <2>1. LiveKeys \subseteq StateKeys /\ IsFiniteSet(StateKeys)
    BY StateAssumption DEF LiveKeys
  <2> QED BY <2>1, FS_Subset, Zenon
<1>5. Cardinality(LiveKeys) \in Nat
  BY <1>4, FS_CardinalityType
<1>6. NewValue(t) \in Int
  BY ResultTyped
<1>7. CASE ~Writes(t)
  <2>1. UNCHANGED <<stEntries, stQuota>>
    BY <1>7 DEF ApplyToStore, Committing
  <2>2. LiveKeys' = LiveKeys
    BY <2>1 DEF LiveKeys
  <2> QED BY <1>3, <2>1, <2>2
<1>8. CASE Writes(t) /\ c.op = "delete"
  <2>1. stEntries' = [stEntries EXCEPT ![key] = NoEntryYet] /\ stQuota' = NewKeys(t)
    BY <1>1, <1>8 DEF ApplyToStore, Committing
  <2>2. NewKeys(t) = stQuota - 1
    BY <1>1, <1>8 DEF NewKeys
  <2>3. NoEntryYet \in StateRows /\ ~NoEntryYet.present
    BY DEF NoEntryYet, StateRows
  <2>4. key \in LiveKeys
    BY <1>1, <1>2, <1>8 DEF Writes, LiveKeys
  <2>5. LiveKeys' = LiveKeys \ {key}
    BY <1>2, <1>3, <2>1, <2>3 DEF LiveKeys
  <2>6. Cardinality(LiveKeys \ {key}) = Cardinality(LiveKeys) - 1
    BY <1>4, <2>4, FS_RemoveElement
  <2> QED BY <1>2, <1>3, <2>1, <2>2, <2>3, <2>5, <2>6
<1>9. CASE Writes(t) /\ c.op # "delete"
  <2>1. PICK row : row = [present |-> TRUE, value |-> NewValue(t), version |-> m + 1]
    OBVIOUS
  <2>2. stEntries' = [stEntries EXCEPT ![key] = row] /\ stQuota' = NewKeys(t)
    BY <1>1, <1>9, <2>1 DEF ApplyToStore, Committing, NextVersion
  <2>3. NewKeys(t) = IF stEntries[key].present THEN stQuota ELSE stQuota + 1
    BY <1>1, <1>9 DEF NewKeys
  <2>4. row \in StateRows /\ row.present
    BY <1>2, <1>6, <2>1 DEF StateRows
  <2>5. LiveKeys' = LiveKeys \cup {key} /\ (key \in LiveKeys <=> stEntries[key].present)
    BY <1>2, <1>3, <2>2, <2>4 DEF LiveKeys
  <2>6. Cardinality(LiveKeys \cup {key}) =
          IF key \in LiveKeys THEN Cardinality(LiveKeys) ELSE Cardinality(LiveKeys) + 1
    BY <1>4, FS_AddElement
  <2> QED BY <1>2, <1>3, <2>2, <2>3, <2>4, <2>5, <2>6
<1> QED BY <1>7, <1>8, <1>9

LEMMA CommitSound ==
  ASSUME StateTypes, StoreInv, UNCHANGED stCalls, NEW t \in StateTaskRows, Committing(t),
         ApplyToStore(t)
  PROVE  /\ StoreInv'
         /\ stReceipts' = [stReceipts EXCEPT ![t.key] = ReceiptFor(t)]
         /\ \/ stLog' = stLog
            \/ \E v \in Nat : stLog' = Append(stLog, [key |-> t.key, attempt |-> t.attempt,
                                                      version |-> v])
<1>1. PICK k, key, m, v : /\ k = t.key /\ key = CallOf(k).key /\ m = MaxVersionOf(key)
                          /\ v = CommittedVersion(t)
  OBVIOUS
<1>2. /\ m \in Nat /\ key \in StateKeys /\ v \in Nat /\ k \in OperationKeys
      /\ Writes(t) => v = m + 1
      /\ ~Writes(t) => v <= m
  BY <1>1, CommittedVersionFacts, ResultTyped DEF Committing, StateTaskRows
<1>3. PICK receipt : receipt = ReceiptFor(t)
  OBVIOUS
<1>4. receipt \in StateReceipts /\ receipt.present /\ receipt.version = v
  BY <1>1, <1>2, <1>3, ResultTyped DEF ReceiptFor, StateReceipts, StateTaskRows
<1>5. stReceipts' = [stReceipts EXCEPT ![k] = receipt]
  BY <1>1, <1>3 DEF ApplyToStore, Committing, ReceiptFor
<1>6. /\ stReceipts \in [OperationKeys -> StateReceipts] /\ ReceiptsSound /\ ~stReceipts[k].present
      /\ stLog \in Seq(StateWrites)
  BY <1>1, <1>2 DEF StoreInv, StoreTyped, Committing, Duplicate
<1>7. /\ ReceiptsSound'
      /\ \A x : x # key => MaxVersionOf(x)' = MaxVersionOf(x)
      /\ v <= m => MaxVersionOf(key)' = m
      /\ v = m + 1 => MaxVersionOf(key)' = v
  <2>1. receipt.version <= m + 1
    BY <1>2, <1>4
  <2>2. /\ ReceiptsSound'
        /\ \A x : x # key => MaxVersionOf(x)' = MaxVersionOf(x)
        /\ receipt.version <= m => MaxVersionOf(key)' = m
        /\ receipt.version = m + 1 => MaxVersionOf(key)' = receipt.version
    <3>1. Receives(k, receipt, key, m)
      BY <1>1, <1>2, <1>4, <1>5, <1>6, <2>1 DEF Receives
    <3> QED BY <3>1, MaxVersionMoves, Zenon
  <2> QED BY <1>4, <2>2
<1>8. stEntries' \in [StateKeys -> StateRows] /\ stQuota' = Cardinality(LiveKeys')
  BY CommitCounts
<1>9. OperationKeys' = OperationKeys /\ \A x : CallOf(x)' = CallOf(x)
  BY CallsFixed
<1>10. /\ stReceipts' \in [OperationKeys -> StateReceipts] /\ stReceipts'[k] = receipt
       /\ \A x \in OperationKeys : x # k => stReceipts'[x] = stReceipts[x]
  BY <1>2, <1>4, <1>5, <1>6
<1>11. \A x \in LiveKeys' : stEntries'[x].version = MaxVersionOf(x)'
  <2> SUFFICES ASSUME NEW x \in StateKeys, stEntries'[x].present
               PROVE  stEntries'[x].version = MaxVersionOf(x)'
    BY DEF LiveKeys
  <2>1. \A y \in StateKeys : stEntries[y].present => stEntries[y].version = MaxVersionOf(y)
    BY DEF StoreInv, StateAppliedOnce, StoreIntact, LiveKeys
  <2>2. stEntries \in [StateKeys -> StateRows]
    BY DEF StoreInv, StoreTyped
  <2>3. CASE ~Writes(t)
    <3>1. stEntries' = stEntries
      BY <2>3 DEF ApplyToStore, Committing
    <3>2. v <= m
      BY <1>2, <2>3
    <3> QED BY <1>1, <1>7, <2>1, <3>1, <3>2
  <2>4. CASE Writes(t) /\ x # key
    <3>1. stEntries'[x] = stEntries[x]
      BY <1>1, <1>2, <2>2, <2>4 DEF ApplyToStore, Committing
    <3> QED BY <1>7, <2>1, <2>4, <3>1
  <2>5. CASE Writes(t) /\ x = key
    <3>1. stEntries'[x] = IF CallOf(k).op = "delete" THEN NoEntryYet
                          ELSE [present |-> TRUE, value |-> NewValue(t), version |-> m + 1]
      BY <1>1, <1>2, <2>2, <2>5 DEF ApplyToStore, Committing, NextVersion
    <3>2. stEntries'[x] = [present |-> TRUE, value |-> NewValue(t), version |-> m + 1]
      BY <3>1 DEF NoEntryYet
    <3> QED BY <1>2, <1>7, <2>5, <3>2
  <2> QED BY <2>3, <2>4, <2>5
<1>12. PICK w : w = [key |-> k, attempt |-> t.attempt, version |-> v]
  OBVIOUS
<1>13. w \in StateWrites /\ w.key = k /\ w.version = v
  BY <1>2, <1>12 DEF StateWrites, StateTaskRows
<1>14. \/ stLog' = stLog
       \/ stLog' = Append(stLog, w) /\ v = m + 1
  <2>1. CASE ~Writes(t)
    BY <2>1 DEF ApplyToStore, Committing
  <2>2. CASE Writes(t)
    BY <1>1, <1>2, <1>12, <2>2 DEF ApplyToStore, Committing, NextVersion
  <2> QED BY <2>1, <2>2
<1>15. StateWrites' = StateWrites
  BY <1>9 DEF StateWrites
<1>16. /\ \A n \in DOMAIN stLog : /\ stLog[n].key \in OperationKeys /\ stLog[n].key # k
                                  /\ stLog[n].version = stReceipts[stLog[n].key].version
                                  /\ stReceipts[stLog[n].key].present
  <2>1. \A n \in DOMAIN stLog : stLog[n] \in StateWrites
    BY <1>6
  <2> QED BY <1>6, <2>1 DEF StateWrites, StoreInv, WritesReceipted
<1>17. /\ stLog' \in Seq(StateWrites)
       /\ \A n \in DOMAIN stLog' : \/ n \in DOMAIN stLog /\ stLog'[n] = stLog[n]
                                   \/ n = Len(stLog) + 1 /\ stLog'[n] = w /\ v = m + 1
       /\ DOMAIN stLog = 1..Len(stLog) /\ Len(stLog) \in Nat
  <2>1. CASE stLog' = stLog
    BY <1>6, <2>1
  <2>2. CASE stLog' = Append(stLog, w) /\ v = m + 1
    BY <1>6, <1>13, <2>2
  <2> QED BY <1>14, <2>1, <2>2
<1>18. WritesReceipted'
  BY <1>10, <1>13, <1>16, <1>17, <1>4 DEF WritesReceipted
<1>19. \A i, j \in DOMAIN stLog' : i < j =>
         /\ stLog'[i].key # stLog'[j].key
         /\ CallOf(stLog'[i].key).key = CallOf(stLog'[j].key).key => stLog'[i].version < stLog'[j].version
  <2> SUFFICES ASSUME NEW i \in DOMAIN stLog', NEW j \in DOMAIN stLog', i < j
               PROVE  /\ stLog'[i].key # stLog'[j].key
                      /\ CallOf(stLog'[i].key).key = CallOf(stLog'[j].key).key =>
                           stLog'[i].version < stLog'[j].version
    OBVIOUS
  <2>1. i \in DOMAIN stLog /\ stLog'[i] = stLog[i]
    BY <1>17
  <2>2. CASE j \in DOMAIN stLog /\ stLog'[j] = stLog[j]
    BY <2>1, <2>2 DEF StoreInv, StateAppliedOnce
  <2>3. CASE stLog'[j] = w /\ v = m + 1
    <3>1. stLog[i].key # k /\ stLog[i].key \in OperationKeys
      BY <1>16, <2>1
    <3>2. ASSUME CallOf(stLog[i].key).key = key PROVE stLog[i].version <= m
      <4>1. stReceipts[stLog[i].key].version \in VersionsOf(stReceipts, key)
        BY <3>1, <3>2 DEF VersionsOf
      <4>2. \A x \in VersionsOf(stReceipts, key) : x <= m
        BY <1>1, <1>6, MaxVersionFacts
      <4> QED BY <1>16, <2>1, <4>1, <4>2
    <3>3. stLog[i].version \in Nat
      <4>1. stLog[i] \in StateWrites
        BY <1>6, <2>1
      <4> QED BY <4>1 DEF StateWrites
    <3> QED BY <1>1, <1>2, <1>13, <2>1, <2>3, <3>1, <3>2, <3>3
  <2> QED BY <1>17, <2>2, <2>3
<1>20. StateAppliedOnce'
  BY <1>8, <1>9, <1>11, <1>19 DEF StateAppliedOnce, StoreIntact
<1>21. StoreTyped'
  BY <1>8, <1>9, <1>10, <1>15, <1>17 DEF StoreTyped
<1> QED BY <1>1, <1>2, <1>3, <1>5, <1>7, <1>12, <1>14, <1>18, <1>20, <1>21 DEF StoreInv

(* What HonestOutcomes says of one operation. *)
OpHonest(r, a, i) ==
  LET o == stOps[r][a][i] k == <<r, i>> IN
  /\ o.status = "succeeded" /\ IsMutation(k) =>
       stReceipts[k].present /\ stReceipts[k].result = o.result
  /\ o.status = "refused" /\ IsMutation(k) => ~Written(k, a) /\ ~Tasked(k, a)

LEMMA HonestNow ==
  ASSUME HonestOutcomes, NEW r \in StateRuns, NEW a \in 1..StateAttempts[r],
         NEW i \in DOMAIN stCalls[r]
  PROVE  OpHonest(r, a, i)
<1>1. \A n \in DOMAIN stLog : stLog[n] \in ToSet(stLog)
  BY DEF ToSet
<1> QED BY <1>1 DEF HonestOutcomes, OpHonest, Written, Tasked

LEMMA HonestNext ==
  ASSUME \A r \in StateRuns : \A a \in 1..StateAttempts[r] : \A i \in DOMAIN stCalls'[r] :
           OpHonest(r, a, i)'
  PROVE  HonestOutcomes'
<1>1. \A e \in ToSet(stLog') : \E n \in DOMAIN stLog' : e = stLog'[n]
  BY DEF ToSet
<1>2. ASSUME NEW r \in StateRuns, NEW a \in 1..StateAttempts[r], NEW i \in DOMAIN stCalls'[r]
      PROVE  /\ stOps'[r][a][i].status = "succeeded" /\ IsMutation(<<r, i>>)' =>
                  /\ stReceipts'[<<r, i>>].present
                  /\ stReceipts'[<<r, i>>].result = stOps'[r][a][i].result
             /\ stOps'[r][a][i].status = "refused" /\ IsMutation(<<r, i>>)' =>
                  /\ \A e \in ToSet(stLog') : <<e.key, e.attempt>> # <<<<r, i>>, a>>
                  /\ \A t \in stTasks' : <<t.key, t.attempt>> # <<<<r, i>>, a>>
  <2>1. PICK k : k = <<r, i>>
    OBVIOUS
  <2>2. OpHonest(r, a, i)'
    BY <1>2
  <2>3. (Written(<<r, i>>, a)' <=> Written(k, a)') /\ (Tasked(<<r, i>>, a)' <=> Tasked(k, a)')
    BY <2>1 DEF Written, Tasked
  <2>4. ~Written(k, a)' => \A e \in ToSet(stLog') : <<e.key, e.attempt>> # <<k, a>>
    BY <1>1 DEF Written
  <2>5. ~Tasked(k, a)' => \A t \in stTasks' : <<t.key, t.attempt>> # <<k, a>>
    BY DEF Tasked
  <2> QED BY <2>1, <2>2, <2>3, <2>4, <2>5 DEF OpHonest
<1> QED BY <1>2 DEF HonestOutcomes

(* Every task has the place of one that was there. *)
TasksStand == \A t \in stTasks' : \E u \in stTasks : u.key = t.key /\ u.attempt = t.attempt
TasksSingle == \A t, u \in stTasks : u.key = t.key /\ u.attempt = t.attempt => u = t
CallsStand == \A r \in StateRuns, a \in Nat, i \in Nat : CallMade(r, a, i) => CallMade(r, a, i)'

LEMMA StoreStands ==
  ASSUME UNCHANGED <<stCalls, stStore>>
  PROVE  /\ UNCHANGED <<stEntries, stQuota, stReceipts, stLog>>
         /\ StoreInv => StoreInv'
         /\ \A k, a : Written(k, a)' <=> Written(k, a)
<1>1. UNCHANGED <<stEntries, stQuota, stReceipts, stLog>>
  BY DEF stStore
<1>2. OperationKeys' = OperationKeys /\ \A x : CallOf(x)' = CallOf(x)
  BY CallsFixed
<1>3. \A k, a : Written(k, a)' <=> Written(k, a)
  BY <1>1 DEF Written
<1>4. StoreTyped => StoreTyped'
  BY <1>1, <1>2 DEF StoreTyped, StateWrites
<1>5. ReceiptsSound => ReceiptsSound'
  BY <1>1, <1>2 DEF ReceiptsSound
<1>6. WritesReceipted => WritesReceipted'
  BY <1>1 DEF WritesReceipted
<1>7. \A k : MaxVersionOf(k)' = MaxVersionOf(k)
  BY <1>1, <1>2 DEF MaxVersionOf
<1>8. LiveKeys' = LiveKeys
  BY <1>1 DEF LiveKeys
<1>9. StateAppliedOnce => StateAppliedOnce'
  BY <1>1, <1>2, <1>7, <1>8 DEF StateAppliedOnce, StoreIntact
<1> QED BY <1>1, <1>3, <1>4, <1>5, <1>6, <1>9 DEF StoreInv

LEMMA AnswerStands ==
  ASSUME UNCHANGED <<stCalls, stStore>>, TasksStand, NEW r \in StateRuns, AnswerSound(r),
         stScripts'[r] = stScripts[r], Attempt(r)' = Attempt(r)
  PROVE  AnswerSound(r)'
<1>1. \A k, a : /\ Written(k, a)' <=> Written(k, a)
                /\ Tasked(k, a)' => Tasked(k, a)
                /\ IsMutation(k)' <=> IsMutation(k)
  BY StoreStands, CallsFixed DEF TasksStand, Tasked
<1>2. UNCHANGED stReceipts
  BY StoreStands
<1> QED BY <1>1, <1>2 DEF AnswerSound

LEMMA OpStands ==
  ASSUME UNCHANGED <<stCalls, stStore>>, TasksStand, NEW r, NEW a, NEW i, OpHonest(r, a, i),
         \/ stOps'[r][a][i] = stOps[r][a][i]
         \/ stOps'[r][a][i].status \in {"none", "started", "ambiguous"}
  PROVE  OpHonest(r, a, i)'
<1>1. \A k, b : /\ Written(k, b)' <=> Written(k, b)
                /\ Tasked(k, b)' => Tasked(k, b)
                /\ IsMutation(k)' <=> IsMutation(k)
  BY StoreStands, CallsFixed DEF TasksStand, Tasked
<1>2. UNCHANGED stReceipts
  BY StoreStands
<1> QED BY <1>1, <1>2 DEF OpHonest

(* A write and a task belong to a call. *)
LEMMA PlacesTyped ==
  ASSUME StateTypes, StoreTyped
  PROVE  /\ \A n \in DOMAIN stLog : /\ stLog[n].key \in OperationKeys /\ stLog[n].attempt \in Nat
                                    /\ stLog[n].key[1] \in StateRuns /\ stLog[n].key[2] \in Nat
         /\ \A t \in stTasks : /\ t.key \in OperationKeys /\ t.attempt \in Nat
                               /\ t.key[1] \in StateRuns /\ t.key[2] \in Nat
<1>1. \A k \in OperationKeys : k[1] \in StateRuns /\ k[2] \in Nat
  BY KeyParts DEF StateTypes
<1>2. \A n \in DOMAIN stLog : stLog[n] \in StateWrites
  BY DEF StoreTyped
<1>3. \A n \in DOMAIN stLog : stLog[n].key \in OperationKeys /\ stLog[n].attempt \in Nat
  BY <1>2 DEF StateWrites
<1>4. \A t \in stTasks : t.key \in OperationKeys /\ t.attempt \in Nat
  BY DEF StateTypes, StateTaskRows
<1> QED BY <1>1, <1>3, <1>4

(* A step that leaves the store alone and starts no task. *)
LEMMA QuietStateStep ==
  ASSUME StateInv, StateTypes', UNCHANGED <<stCalls, stStore>>, TasksStand, TasksSingle',
         CallsStand, AnswersSound', HonestOutcomes'
  PROVE  StateInv'
<1>1. StoreInv' /\ UNCHANGED stLog /\ \A k, a : Written(k, a)' <=> Written(k, a)
  BY StoreStands DEF StateInv
<1>2. /\ \A n \in DOMAIN stLog : /\ stLog[n].attempt \in Nat
                                 /\ stLog[n].key[1] \in StateRuns /\ stLog[n].key[2] \in Nat
      /\ \A t \in stTasks : /\ t.attempt \in Nat
                            /\ t.key[1] \in StateRuns /\ t.key[2] \in Nat
  BY PlacesTyped DEF StateInv, StoreInv
<1>3. WritesMade'
  <2> SUFFICES ASSUME NEW n \in DOMAIN stLog
               PROVE  CallMade(stLog[n].key[1], stLog[n].attempt, stLog[n].key[2])'
    BY <1>1 DEF WritesMade
  <2>1. CallMade(stLog[n].key[1], stLog[n].attempt, stLog[n].key[2])
    BY DEF StateInv, WritesMade
  <2>2. PICK r, a, i : r = stLog[n].key[1] /\ a = stLog[n].attempt /\ i = stLog[n].key[2]
    OBVIOUS
  <2>3. CallMade(r, a, i)'
    BY <1>2, <2>1, <2>2 DEF CallsStand
  <2>4. r = stLog'[n].key[1] /\ a = stLog'[n].attempt /\ i = stLog'[n].key[2]
    BY <1>1, <2>2
  <2> QED BY <2>3, <2>4 DEF CallMade, Attempt
<1>4. TasksSound'
  <2> SUFFICES ASSUME NEW t \in stTasks'
               PROVE  CallMade(t.key[1], t.attempt, t.key[2])' /\ ~Written(t.key, t.attempt)'
    BY DEF TasksSound, TasksSingle
  <2>1. PICK u \in stTasks : u.key = t.key /\ u.attempt = t.attempt
    BY DEF TasksStand
  <2>2. CallMade(u.key[1], u.attempt, u.key[2]) /\ ~Written(u.key, u.attempt)
    BY <2>1 DEF StateInv, TasksSound
  <2> QED BY <1>1, <1>2, <2>1, <2>2 DEF CallsStand
<1> QED BY <1>1, <1>3, <1>4 DEF StateInv

LEMMA OperationsStand ==
  ASSUME StateInv, UNCHANGED <<stCalls, stStore, stOps>>, TasksStand
  PROVE  HonestOutcomes' /\ OperationsTyped'
<1>1. OperationsTyped'
  BY DEF StateInv, StateTypes, OperationsTyped
<1>2. ASSUME NEW r \in StateRuns, NEW a \in 1..StateAttempts[r], NEW i \in DOMAIN stCalls'[r]
      PROVE  OpHonest(r, a, i)'
  <2>1. OpHonest(r, a, i) /\ stOps'[r][a][i] = stOps[r][a][i]
    BY HonestNow DEF StateInv
  <2> QED BY <2>1, OpStands
<1>3. HonestOutcomes'
  BY <1>2, HonestNext
<1> QED BY <1>1, <1>3

(* The operations of the latest attempt are settled all at once. *)
LEMMA OperationsSettle ==
  ASSUME StateInv, UNCHANGED <<stCalls, stStore>>, TasksStand, NEW r \in StateRuns, NEW ops,
         stOps' = [stOps EXCEPT ![r][Attempt(r)] = ops], DOMAIN ops = DOMAIN stCalls[r],
         Attempt(r) \in 1..StateAttempts[r] => \A i \in DOMAIN stCalls[r] :
           /\ ops[i] \in StateOperationRows
           /\ \/ ops[i] = stOps[r][Attempt(r)][i]
              \/ ops[i].status = "ambiguous"
              \/ /\ ops[i].status = "succeeded"
                 /\ stReceipts[<<r, i>>].present /\ ops[i].result = stReceipts[<<r, i>>].result
  PROVE  HonestOutcomes' /\ OperationsTyped'
<1>1. PICK b : b = Attempt(r)
  OBVIOUS
<1>2. OperationsTyped /\ UNCHANGED stCalls
  BY DEF StateInv, StateTypes
<1>3. /\ DOMAIN stOps' = StateRuns
      /\ \A q \in StateRuns : q # r => stOps'[q] = stOps[q]
      /\ stOps'[r] = [stOps[r] EXCEPT ![b] = ops]
  BY <1>1, <1>2 DEF OperationsTyped
<1>4. /\ DOMAIN stOps'[r] = 1..StateAttempts[r]
      /\ \A a \in 1..StateAttempts[r] : stOps'[r][a] = IF a = b THEN ops ELSE stOps[r][a]
  BY <1>2, <1>3 DEF OperationsTyped
<1>5. OperationsTyped'
  <2> SUFFICES ASSUME NEW q \in StateRuns
               PROVE  /\ DOMAIN stOps'[q] = 1..StateAttempts[q]
                      /\ \A a \in 1..StateAttempts[q] :
                           /\ DOMAIN stOps'[q][a] = DOMAIN stCalls[q]
                           /\ \A i \in DOMAIN stCalls[q] : stOps'[q][a][i] \in StateOperationRows
    BY <1>2, <1>3 DEF OperationsTyped
  <2>1. CASE q # r
    BY <1>2, <1>3, <2>1 DEF OperationsTyped
  <2>2. CASE q = r
    <3>1. ASSUME NEW a \in 1..StateAttempts[r]
          PROVE  /\ DOMAIN stOps'[r][a] = DOMAIN stCalls[r]
                 /\ \A i \in DOMAIN stCalls[r] : stOps'[r][a][i] \in StateOperationRows
      <4>1. CASE a = b
        BY <1>1, <1>4, <4>1
      <4>2. CASE a # b
        BY <1>2, <1>4, <4>2 DEF OperationsTyped
      <4> QED BY <4>1, <4>2
    <3> QED BY <1>4, <2>2, <3>1
  <2> QED BY <2>1, <2>2
<1>6. ASSUME NEW q \in StateRuns, NEW a \in 1..StateAttempts[q], NEW i \in DOMAIN stCalls'[q]
      PROVE  OpHonest(q, a, i)'
  <2>1. OpHonest(q, a, i)
    BY <1>2, HonestNow DEF StateInv
  <2>2. \/ stOps'[q][a][i] = stOps[q][a][i]
        \/ stOps'[q][a][i].status = "ambiguous"
        \/ /\ stOps'[q][a][i].status = "succeeded" /\ stReceipts[<<q, i>>].present
           /\ stOps'[q][a][i].result = stReceipts[<<q, i>>].result
    <3>1. CASE q # r \/ a # b
      BY <1>3, <1>4, <3>1
    <3>2. CASE q = r /\ a = b
      BY <1>1, <1>2, <1>4, <3>2
    <3> QED BY <3>1, <3>2
  <2>3. CASE \/ stOps'[q][a][i] = stOps[q][a][i]
             \/ stOps'[q][a][i].status = "ambiguous"
    BY <2>1, <2>3, OpStands
  <2>4. CASE /\ stOps'[q][a][i].status = "succeeded" /\ stReceipts[<<q, i>>].present
             /\ stOps'[q][a][i].result = stReceipts[<<q, i>>].result
    <3>1. UNCHANGED stReceipts
      BY StoreStands
    <3> QED BY <2>4, <3>1 DEF OpHonest
  <2> QED BY <2>2, <2>3, <2>4
<1> QED BY <1>5, <1>6, HonestNext

LEMMA TasksUntouched ==
  ASSUME StateInv, UNCHANGED stTasks
  PROVE  TasksStand /\ TasksSingle'
BY DEF StateInv, TasksSound, TasksStand, TasksSingle

(* A step of one run and its script that makes no call and answers none. *)
LEMMA RunStep ==
  ASSUME StateInv, UNCHANGED <<stCalls, stStore, stTasks>>, OperationsTyped', HonestOutcomes',
         NEW r \in StateRuns, NEW row \in StateRunRows, NEW script \in StateScriptRows,
         stRuns' = [stRuns EXCEPT ![r] = row], stScripts' = [stScripts EXCEPT ![r] = script],
         \/ /\ row.attempt = Attempt(r)
            /\ script = stScripts[r] \/ script.at \in {"idle", "threw", "lost"}
         \/ row.attempt = Attempt(r) + 1 /\ script.at = "ready"
  PROVE  StateInv'
<1>1. /\ stRuns \in [StateRuns -> StateRunRows] /\ stScripts \in [StateRuns -> StateScriptRows]
      /\ stRuns' \in [StateRuns -> StateRunRows] /\ stScripts' \in [StateRuns -> StateScriptRows]
      /\ stRuns'[r] = row /\ stScripts'[r] = script
      /\ \A q \in StateRuns : q # r => stRuns'[q] = stRuns[q] /\ stScripts'[q] = stScripts[q]
  BY DEF StateInv, StateTypes
<1>2. StateTypes'
  <2>1. StateTaskRows' = StateTaskRows
    BY CallsFixed DEF StateTaskRows
  <2> QED BY <1>1, <2>1 DEF StateInv, StateTypes
<1>3. TasksStand /\ TasksSingle'
  BY TasksUntouched
<1>4. \A q \in StateRuns : Attempt(q) \in Nat
  BY <1>1 DEF Attempt, StateRunRows
<1>5. CallsStand
  <2> SUFFICES ASSUME NEW q \in StateRuns, NEW a \in Nat, NEW i \in Nat, CallMade(q, a, i)
               PROVE  CallMade(q, a, i)'
    BY DEF CallsStand
  <2>1. CASE q # r
    BY <1>1, <2>1 DEF CallMade, Attempt
  <2>2. CASE q = r
    BY <1>1, <1>4, <2>2 DEF CallMade, Attempt
  <2> QED BY <2>1, <2>2
<1>6. AnswersSound'
  <2> SUFFICES ASSUME NEW q \in StateRuns PROVE AnswerSound(q)'
    BY DEF AnswersSound
  <2>1. AnswerSound(q)
    BY DEF StateInv, AnswersSound
  <2>2. CASE stScripts'[q] = stScripts[q] /\ Attempt(q)' = Attempt(q)
    BY <1>3, <2>1, <2>2, AnswerStands
  <2>3. CASE q = r /\ script.at \in {"idle", "threw", "lost", "ready"}
    BY <1>1, <2>3 DEF AnswerSound
  <2> QED BY <1>1, <2>2, <2>3 DEF Attempt
<1> QED BY <1>2, <1>3, <1>5, <1>6, QuietStateStep

(* The driver starts and ends attempts; an operator cancels. *)
LEMMA AttemptsSound ==
  ASSUME StateInv, UNCHANGED stCalls, NEW r \in StateRuns,
         \/ StartStateAttempt(r) \/ AttemptSucceeds(r) \/ AttemptThrows(r) \/ AttemptCancelled(r)
         \/ DetachScript(r) \/ RequestStateCancellation(r)
  PROVE  StateInv'
<1>1. UNCHANGED <<stStore, stOps, stTasks>>
  BY DEF StartStateAttempt, AttemptSucceeds, AttemptThrows, AttemptCancelled, DetachScript,
     RequestStateCancellation
<1>2. HonestOutcomes' /\ OperationsTyped'
  BY <1>1, TasksUntouched, OperationsStand
<1>3. /\ stRuns \in [StateRuns -> StateRunRows] /\ stRuns[r] \in StateRunRows
      /\ stScripts \in [StateRuns -> StateScriptRows] /\ stScripts[r] \in StateScriptRows
      /\ Attempt(r) = stRuns[r].attempt /\ Attempt(r) \in Nat
  BY DEF StateInv, StateTypes, Attempt, StateRunRows
<1>4. NoScript \in StateScriptRows /\ NoScript.at = "idle"
  BY DEF NoScript, StateScriptRows, ScriptSteps, Answers, NoResult, StateResults
<1>5. /\ stRuns = [stRuns EXCEPT ![r] = stRuns[r]]
      /\ stScripts = [stScripts EXCEPT ![r] = stScripts[r]]
  BY <1>3
<1>6. CASE StartStateAttempt(r)
  <2>1. PICK n \in Nat : n = Attempt(r) + 1
    BY <1>3
  <2>2. PICK row, script :
          /\ row = [stRuns[r] EXCEPT !.attempt = n, !.active = TRUE, !.retry = FALSE]
          /\ script = [NoScript EXCEPT !.at = "ready"]
    OBVIOUS
  <2>3. row \in StateRunRows /\ row.attempt = Attempt(r) + 1
    BY <1>3, <2>1, <2>2 DEF StateRunRows
  <2>4. script \in StateScriptRows /\ script.at = "ready"
    BY <1>4, <2>2 DEF StateScriptRows, ScriptSteps
  <2>5. stRuns' = [stRuns EXCEPT ![r] = row] /\ stScripts' = [stScripts EXCEPT ![r] = script]
    BY <1>3, <1>6, <2>1, <2>2 DEF StartStateAttempt, StateRunRows
  <2> QED BY <1>1, <1>2, <2>3, <2>4, <2>5, RunStep
<1>7. CASE AttemptSucceeds(r)
  <2>1. PICK row : row = [stRuns[r] EXCEPT !.status = "succeeded", !.active = FALSE]
    OBVIOUS
  <2>2. row \in StateRunRows /\ row.attempt = Attempt(r)
    BY <1>3, <2>1 DEF StateRunRows
  <2>3. stRuns' = [stRuns EXCEPT ![r] = row] /\ stScripts' = [stScripts EXCEPT ![r] = NoScript]
    BY <1>3, <1>7, <2>1 DEF AttemptSucceeds
  <2> QED BY <1>1, <1>2, <1>4, <2>2, <2>3, RunStep
<1>8. CASE AttemptThrows(r)
  <2>1. PICK status, retry :
          /\ status = IF Attempt(r) < StateAttempts[r] THEN stRuns[r].status ELSE "failed"
          /\ retry = (Attempt(r) < StateAttempts[r])
    OBVIOUS
  <2>2. PICK row : row = [stRuns[r] EXCEPT !.active = FALSE, !.retry = retry, !.status = status]
    OBVIOUS
  <2>3. retry \in BOOLEAN
    BY <2>1
  <2>4. row \in StateRunRows /\ row.attempt = Attempt(r)
    BY <1>3, <2>1, <2>2, <2>3 DEF StateRunRows
  <2>5. stRuns' = [stRuns EXCEPT ![r] = row] /\ stScripts' = [stScripts EXCEPT ![r] = NoScript]
    BY <1>3, <1>8, <2>1, <2>2 DEF AttemptThrows, StateRunRows
  <2> QED BY <1>1, <1>2, <1>4, <2>4, <2>5, RunStep
<1>9. PICK lost : lost = [stScripts[r] EXCEPT !.at = "lost"]
  OBVIOUS
<1>10. lost \in StateScriptRows /\ lost.at = "lost"
  BY <1>3, <1>9 DEF StateScriptRows, ScriptSteps
<1>11. CASE AttemptCancelled(r)
  <2>1. PICK row : row = [stRuns[r] EXCEPT !.active = FALSE]
    OBVIOUS
  <2>2. row \in StateRunRows /\ row.attempt = Attempt(r)
    BY <1>3, <2>1 DEF StateRunRows
  <2>3. \/ /\ stRuns' = [stRuns EXCEPT ![r] = row]
           /\ stScripts' = [stScripts EXCEPT ![r] = NoScript]
        \/ /\ stRuns' = [stRuns EXCEPT ![r] = stRuns[r]]
           /\ stScripts' = [stScripts EXCEPT ![r] = lost]
    BY <1>5, <1>9, <1>11, <2>1 DEF AttemptCancelled
  <2>4. CASE /\ stRuns' = [stRuns EXCEPT ![r] = row]
             /\ stScripts' = [stScripts EXCEPT ![r] = NoScript]
    BY <1>1, <1>2, <1>4, <2>2, <2>4, RunStep
  <2>5. CASE /\ stRuns' = [stRuns EXCEPT ![r] = stRuns[r]]
             /\ stScripts' = [stScripts EXCEPT ![r] = lost]
    BY <1>1, <1>2, <1>3, <1>10, <2>5, RunStep
  <2> QED BY <2>3, <2>4, <2>5
<1>12. CASE DetachScript(r)
  <2>1. /\ stRuns' = [stRuns EXCEPT ![r] = stRuns[r]]
        /\ stScripts' = [stScripts EXCEPT ![r] = lost]
    BY <1>5, <1>9, <1>12 DEF DetachScript
  <2> QED BY <1>1, <1>2, <1>3, <1>10, <2>1, RunStep
<1>13. CASE RequestStateCancellation(r)
  <2>1. PICK row : row = [stRuns[r] EXCEPT !.status = "cancelling", !.retry = FALSE]
    OBVIOUS
  <2>2. row \in StateRunRows /\ row.attempt = Attempt(r)
    BY <1>3, <2>1 DEF StateRunRows
  <2>3. /\ stRuns' = [stRuns EXCEPT ![r] = row]
        /\ stScripts' = [stScripts EXCEPT ![r] = stScripts[r]]
    BY <1>3, <1>5, <1>13, <2>1 DEF RequestStateCancellation
  <2> QED BY <1>1, <1>2, <1>3, <2>2, <2>3, RunStep
<1> QED BY <1>6, <1>7, <1>8, <1>11, <1>12, <1>13

LEMMA CrashSound ==
  ASSUME StateInv, UNCHANGED stCalls, CrashStateProcess
  PROVE  StateInv'
<1>1. /\ UNCHANGED <<stStore, stRuns, stOps>> /\ stTasks' = {}
      /\ stScripts' = [r \in StateRuns |-> NoScript]
  BY DEF CrashStateProcess
<1>2. TasksStand /\ TasksSingle'
  BY <1>1 DEF TasksStand, TasksSingle
<1>3. HonestOutcomes' /\ OperationsTyped'
  BY <1>1, <1>2, OperationsStand
<1>4. NoScript \in StateScriptRows /\ NoScript.at = "idle"
  BY DEF NoScript, StateScriptRows, ScriptSteps, Answers, NoResult, StateResults
<1>5. StateTypes'
  BY <1>1, <1>3, <1>4 DEF StateInv, StateTypes
<1>6. CallsStand
  BY <1>1, <1>4 DEF CallsStand, CallMade, Attempt
<1>7. AnswersSound'
  BY <1>1, <1>4 DEF AnswersSound, AnswerSound
<1> QED BY <1>1, <1>2, <1>3, <1>5, <1>6, <1>7, QuietStateStep

(* The operations of a run are settled without their driver. *)
LEMMA SettlementsSound ==
  ASSUME StateInv, UNCHANGED stCalls, NEW r \in StateRuns,
         SettleCancelling(r) \/ StateRunTimeout(r) \/ RecoverStateRun(r)
  PROVE  StateInv'
<1>1. UNCHANGED <<stStore, stTasks, stScripts>>
  BY DEF SettleCancelling, StateRunTimeout, RecoverStateRun
<1>2. /\ stRuns \in [StateRuns -> StateRunRows] /\ stRuns[r] \in StateRunRows
      /\ stScripts \in [StateRuns -> StateScriptRows] /\ stScripts[r] \in StateScriptRows
      /\ Attempt(r) = stRuns[r].attempt /\ OperationsTyped
      /\ stScripts' = [stScripts EXCEPT ![r] = stScripts[r]]
  BY <1>1 DEF StateInv, StateTypes, Attempt
<1>3. PICK b : b = Attempt(r)
  OBVIOUS
<1>4. \A i \in DOMAIN stCalls[r] : b \in 1..StateAttempts[r] => stOps[r][b][i] \in StateOperationRows
  BY <1>2 DEF OperationsTyped
<1>5. ASSUME SettleAmbiguous(r)
      PROVE  HonestOutcomes' /\ OperationsTyped'
  <2>1. CASE b = 0
    <3>1. UNCHANGED stOps
      BY <1>3, <1>5, <2>1 DEF SettleAmbiguous
    <3> QED BY <1>1, <3>1, TasksUntouched, OperationsStand
  <2>2. CASE b # 0
    <3>1. PICK ops : /\ ops = [i \in DOMAIN stCalls[r] |->
                                 IF i \in ActiveOperations(r)
                                   THEN [stOps[r][b][i] EXCEPT !.status = "ambiguous"]
                                   ELSE stOps[r][b][i]]
                     /\ stOps' = [stOps EXCEPT ![r][Attempt(r)] = ops]
      BY <1>3, <1>5, <2>2 DEF SettleAmbiguous
    <3>2. ASSUME NEW i \in DOMAIN stCalls[r], b \in 1..StateAttempts[r]
          PROVE  /\ ops[i] \in StateOperationRows
                 /\ ops[i] = stOps[r][b][i] \/ ops[i].status = "ambiguous"
      <4>1. PICK settled : settled = [stOps[r][b][i] EXCEPT !.status = "ambiguous"]
        OBVIOUS
      <4>2. settled \in StateOperationRows /\ settled.status = "ambiguous"
        BY <1>4, <3>2, <4>1 DEF StateOperationRows
      <4>3. ops[i] = settled \/ ops[i] = stOps[r][b][i]
        BY <3>1, <4>1
      <4> QED BY <1>4, <3>2, <4>2, <4>3
    <3>3. DOMAIN ops = DOMAIN stCalls[r]
      BY <3>1
    <3> QED BY <1>1, <1>3, <3>1, <3>2, <3>3, TasksUntouched, OperationsSettle
  <2> QED BY <2>1, <2>2
<1>6. CASE SettleCancelling(r)
  <2>1. PICK row : row = [stRuns[r] EXCEPT !.status = "cancelled", !.active = FALSE]
    OBVIOUS
  <2>2. row \in StateRunRows /\ row.attempt = Attempt(r)
    BY <1>2, <2>1 DEF StateRunRows
  <2>3. stRuns' = [stRuns EXCEPT ![r] = row] /\ SettleAmbiguous(r)
    BY <1>2, <1>6, <2>1 DEF SettleCancelling
  <2> QED BY <1>1, <1>2, <1>5, <2>2, <2>3, RunStep
<1>7. CASE StateRunTimeout(r)
  <2>1. PICK row : row = [stRuns[r] EXCEPT !.status = "failed", !.active = FALSE, !.retry = FALSE]
    OBVIOUS
  <2>2. row \in StateRunRows /\ row.attempt = Attempt(r)
    BY <1>2, <2>1 DEF StateRunRows
  <2>3. stRuns' = [stRuns EXCEPT ![r] = row] /\ SettleAmbiguous(r)
    BY <1>2, <1>7, <2>1 DEF StateRunTimeout
  <2> QED BY <1>1, <1>2, <1>5, <2>2, <2>3, RunStep
<1>8. CASE RecoverStateRun(r)
  <2>1. PICK row : row = [stRuns[r] EXCEPT !.status = "failed", !.active = FALSE]
    OBVIOUS
  <2>2. row \in StateRunRows /\ row.attempt = Attempt(r)
    BY <1>2, <2>1 DEF StateRunRows
  <2>3. stRuns' = [stRuns EXCEPT ![r] = row]
    BY <1>2, <1>8, <2>1 DEF RecoverStateRun
  <2>4. PICK ops : /\ ops = [i \in DOMAIN stCalls[r] |->
                               IF i \in ActiveOperations(r) THEN RecoveredOperation(r, i)
                                                            ELSE stOps[r][b][i]]
                   /\ stOps' = [stOps EXCEPT ![r][Attempt(r)] = ops]
    BY <1>3, <1>8 DEF RecoverStateRun
  <2>5. ASSUME NEW i \in DOMAIN stCalls[r], b \in 1..StateAttempts[r]
        PROVE  /\ ops[i] \in StateOperationRows
               /\ \/ ops[i] = stOps[r][b][i]
                  \/ ops[i].status = "ambiguous"
                  \/ /\ ops[i].status = "succeeded"
                     /\ stReceipts[<<r, i>>].present /\ ops[i].result = stReceipts[<<r, i>>].result
    <3>1. PICK settled : settled = [stOps[r][b][i] EXCEPT !.status = "ambiguous"]
      OBVIOUS
    <3>2. settled \in StateOperationRows /\ settled.status = "ambiguous"
      BY <1>4, <2>5, <3>1 DEF StateOperationRows
    <3>3. PICK result : result = stReceipts[<<r, i>>].result
      OBVIOUS
    <3>4. result \in StateResults
      <4>1. <<r, i>> \in OperationKeys
        BY KeyParts DEF StateInv, StateTypes
      <4>2. stReceipts[<<r, i>>] \in StateReceipts
        BY <4>1 DEF StateInv, StoreInv, StoreTyped
      <4> QED BY <3>3, <4>2 DEF StateReceipts
    <3>5. PICK proven : proven = [stOps[r][b][i] EXCEPT !.status = "succeeded", !.result = result]
      OBVIOUS
    <3>6. proven \in StateOperationRows /\ proven.status = "succeeded" /\ proven.result = result
      BY <1>4, <2>5, <3>4, <3>5 DEF StateOperationRows
    <3>7. \/ ops[i] = stOps[r][b][i]
          \/ ops[i] = settled
          \/ ops[i] = proven /\ stReceipts[<<r, i>>].present
      <4>1. ops[i] = IF i \in ActiveOperations(r) THEN RecoveredOperation(r, i) ELSE stOps[r][b][i]
        BY <2>4
      <4>2. RecoveredOperation(r, i) = IF Proven(r, i) THEN proven ELSE settled
        BY <1>3, <3>1, <3>3, <3>5 DEF RecoveredOperation
      <4>3. Proven(r, i) => stReceipts[<<r, i>>].present
        BY DEF Proven
      <4> QED BY <4>1, <4>2, <4>3
    <3> QED BY <1>4, <2>5, <3>2, <3>3, <3>6, <3>7
  <2>6. DOMAIN ops = DOMAIN stCalls[r]
    BY <2>4
  <2>7. HonestOutcomes' /\ OperationsTyped'
    BY <1>1, <1>3, <2>4, <2>5, <2>6, TasksUntouched, OperationsSettle
  <2> QED BY <1>1, <1>2, <2>2, <2>3, <2>7, RunStep
<1> QED BY <1>6, <1>7, <1>8

(* One operation of a history changes. *)
OperationBecomes(r, b, j, o) == stOps' = [stOps EXCEPT ![r][b][j] = o]
OperationFits(r, b, j, o) ==
  b \in 1..StateAttempts[r] /\ j \in DOMAIN stCalls[r] => o \in StateOperationRows
OperationIs(r, b, j, o) ==
  \A q \in StateRuns : \A a \in 1..StateAttempts[q] : \A i \in DOMAIN stCalls[q] :
    /\ q = r /\ a = b /\ i = j => stOps'[q][a][i] = o
    /\ ~(q = r /\ a = b /\ i = j) => stOps'[q][a][i] = stOps[q][a][i]

LEMMA OperationChanges ==
  ASSUME OperationsTyped, UNCHANGED stCalls, NEW r \in StateRuns, NEW b, NEW j, NEW o,
         OperationBecomes(r, b, j, o), OperationFits(r, b, j, o)
  PROVE  OperationsTyped' /\ OperationIs(r, b, j, o)
<1> USE DEF OperationBecomes, OperationFits
<1>1. /\ DOMAIN stOps' = StateRuns
      /\ \A q \in StateRuns : q # r => stOps'[q] = stOps[q]
      /\ stOps'[r] = [stOps[r] EXCEPT ![b][j] = o]
  BY DEF OperationsTyped
<1>2. /\ DOMAIN stOps'[r] = 1..StateAttempts[r]
      /\ \A a \in 1..StateAttempts[r] :
           stOps'[r][a] = IF a = b THEN [stOps[r][a] EXCEPT ![j] = o] ELSE stOps[r][a]
  BY <1>1 DEF OperationsTyped
<1>3. \A a \in 1..StateAttempts[r] :
        /\ DOMAIN stOps'[r][a] = DOMAIN stCalls[r]
        /\ \A i \in DOMAIN stCalls[r] :
             stOps'[r][a][i] = IF a = b /\ i = j THEN o ELSE stOps[r][a][i]
  BY <1>2 DEF OperationsTyped
<1>4. OperationIs(r, b, j, o)
  BY <1>1, <1>3 DEF OperationIs
<1>5. OperationsTyped'
  <2> SUFFICES ASSUME NEW q \in StateRuns
               PROVE  /\ DOMAIN stOps'[q] = 1..StateAttempts[q]
                      /\ \A a \in 1..StateAttempts[q] :
                           /\ DOMAIN stOps'[q][a] = DOMAIN stCalls[q]
                           /\ \A i \in DOMAIN stCalls[q] : stOps'[q][a][i] \in StateOperationRows
    BY <1>1 DEF OperationsTyped
  <2>1. CASE q # r
    BY <1>1, <2>1 DEF OperationsTyped
  <2>2. CASE q = r
    <3>1. ASSUME NEW a \in 1..StateAttempts[r], NEW i \in DOMAIN stCalls[r]
          PROVE  stOps'[r][a][i] \in StateOperationRows
      <4>1. stOps[r][a][i] \in StateOperationRows
        BY DEF OperationsTyped
      <4>2. stOps'[r][a][i] = IF a = b /\ i = j THEN o ELSE stOps[r][a][i]
        BY <1>3
      <4> QED BY <4>1, <4>2
    <3> QED BY <1>2, <1>3, <2>2, <3>1
  <2> QED BY <2>1, <2>2
<1> QED BY <1>4, <1>5

(* The script of one run moves on; no task is started. *)
LEMMA ScriptStep ==
  ASSUME StateInv, UNCHANGED <<stCalls, stStore, stRuns>>, OperationsTyped', HonestOutcomes',
         stTasks' \subseteq StateTaskRows, TasksStand, TasksSingle',
         NEW r \in StateRuns, NEW script \in StateScriptRows,
         stScripts' = [stScripts EXCEPT ![r] = script],
         stScripts[r].at \in {"calling", "stopping", "answered"},
         \/ script.at \in {"calling", "stopping", "answered"} /\ script.pc = stScripts[r].pc
         \/ script.at = "ready" /\ script.pc = stScripts[r].pc + 1
         \/ script.at = "threw",
         AnswerSound(r)'
  PROVE  StateInv'
<1>1. /\ stRuns \in [StateRuns -> StateRunRows] /\ stScripts \in [StateRuns -> StateScriptRows]
      /\ stScripts' \in [StateRuns -> StateScriptRows] /\ stScripts'[r] = script
      /\ \A q \in StateRuns : q # r => stScripts'[q] = stScripts[q]
      /\ \A q \in StateRuns : Attempt(q)' = Attempt(q)
  BY DEF StateInv, StateTypes, Attempt
<1>2. StateTypes'
  <2>1. StateTaskRows' = StateTaskRows
    BY CallsFixed DEF StateTaskRows
  <2> QED BY <1>1, <2>1 DEF StateInv, StateTypes
<1>3. stScripts[r].pc \in Nat
  <2>1. stScripts[r] \in StateScriptRows
    BY <1>1
  <2> QED BY <2>1 DEF StateScriptRows
<1>4. CallsStand
  <2> SUFFICES ASSUME NEW q \in StateRuns, NEW a \in Nat, NEW i \in Nat, CallMade(q, a, i)
               PROVE  CallMade(q, a, i)'
    BY DEF CallsStand
  <2>1. CASE q # r
    BY <1>1, <2>1 DEF CallMade
  <2>2. CASE q = r
    BY <1>1, <1>3, <2>2 DEF CallMade
  <2> QED BY <2>1, <2>2
<1>5. AnswersSound'
  <2> SUFFICES ASSUME NEW q \in StateRuns PROVE AnswerSound(q)'
    BY DEF AnswersSound
  <2>1. CASE q # r
    BY <1>1, <2>1, AnswerStands DEF StateInv, AnswersSound
  <2>2. CASE q = r
    BY <2>2
  <2> QED BY <2>1, <2>2
<1> QED BY <1>2, <1>4, <1>5, QuietStateStep

(* A call stops waiting for its task, which may still commit. *)
LEMMA InterruptionsSound ==
  ASSUME StateInv, UNCHANGED stCalls, NEW r \in StateRuns, CallTimesOut(r) \/ InterruptCall(r)
  PROVE  StateInv'
<1>1. UNCHANGED <<stStore, stRuns, stOps>> /\ CancelToken(r)
  BY DEF CallTimesOut, InterruptCall
<1>2. /\ stScripts \in [StateRuns -> StateScriptRows] /\ stScripts[r] \in StateScriptRows
      /\ stTasks \subseteq StateTaskRows
  BY DEF StateInv, StateTypes
<1>3. \A t \in stTasks : [t EXCEPT !.cancelled = TRUE] \in StateTaskRows
                         /\ [t EXCEPT !.cancelled = TRUE].key = t.key
                         /\ [t EXCEPT !.cancelled = TRUE].attempt = t.attempt
  <2> SUFFICES ASSUME NEW t \in stTasks
               PROVE  [t EXCEPT !.cancelled = TRUE] \in StateTaskRows
                         /\ [t EXCEPT !.cancelled = TRUE].key = t.key
                         /\ [t EXCEPT !.cancelled = TRUE].attempt = t.attempt
    OBVIOUS
  <2>1. t \in StateTaskRows
    BY <1>2
  <2> QED BY <2>1 DEF StateTaskRows
<1>4. /\ stTasks' \subseteq StateTaskRows
      /\ \A u \in stTasks' : \E t \in stTasks :
           /\ u = IF Awaited(r, t) THEN [t EXCEPT !.cancelled = TRUE] ELSE t
           /\ u.key = t.key /\ u.attempt = t.attempt
  <2>1. \A u \in stTasks' : \E t \in stTasks :
          u = IF Awaited(r, t) THEN [t EXCEPT !.cancelled = TRUE] ELSE t
    BY <1>1 DEF CancelToken
  <2> QED BY <1>2, <1>3, <2>1
<1>5. TasksStand
  BY <1>4 DEF TasksStand
<1>6. TasksSingle'
  <2> SUFFICES ASSUME NEW t \in stTasks', NEW u \in stTasks', u.key = t.key, u.attempt = t.attempt
               PROVE  u = t
    BY DEF TasksSingle
  <2>1. PICK t0 \in stTasks :
          /\ t = IF Awaited(r, t0) THEN [t0 EXCEPT !.cancelled = TRUE] ELSE t0
          /\ t.key = t0.key /\ t.attempt = t0.attempt
    BY <1>4
  <2>2. PICK u0 \in stTasks :
          /\ u = IF Awaited(r, u0) THEN [u0 EXCEPT !.cancelled = TRUE] ELSE u0
          /\ u.key = u0.key /\ u.attempt = u0.attempt
    BY <1>4
  <2>3. u0 = t0
    BY <2>1, <2>2 DEF StateInv, TasksSound
  <2> QED BY <2>1, <2>2, <2>3
<1>7. HonestOutcomes' /\ OperationsTyped'
  BY <1>1, <1>5, OperationsStand
<1>8. stScripts[r].at \in {"calling", "stopping"} /\ stScripts[r].pc \in DOMAIN stCalls[r]
  BY DEF CallTimesOut, InterruptCall, StateInv, AnswersSound, AnswerSound
<1>9. CASE CallTimesOut(r)
  <2>1. PICK answer, k : k = <<r, stScripts[r].pc>> /\ answer = Fallback(k)
    OBVIOUS
  <2>2. PICK script : script = [stScripts[r] EXCEPT !.at = "answered", !.answer = answer,
                                                    !.result = NoResult]
    OBVIOUS
  <2>3. NoResult \in StateResults /\ answer \in Answers
    BY <2>1 DEF NoResult, StateResults, Fallback, Answers
  <2>4. script \in StateScriptRows /\ script.at = "answered" /\ script.pc = stScripts[r].pc
        /\ script.answer = answer
    BY <1>2, <2>2, <2>3 DEF StateScriptRows, ScriptSteps
  <2>5. stScripts' = [stScripts EXCEPT ![r] = script]
    BY <1>2, <1>9, <2>1, <2>2 DEF CallTimesOut, Reply
  <2>6. stScripts'[r] = script
    BY <1>2, <2>5
  <2>7. IsMutation(k)' => answer = "ambiguous"
    BY <2>1, CallsFixed DEF Fallback
  <2>8. AnswerSound(r)'
    BY <1>8, <2>1, <2>4, <2>6, <2>7 DEF AnswerSound
  <2> QED BY <1>1, <1>4, <1>5, <1>6, <1>7, <1>8, <2>4, <2>5, <2>8, ScriptStep
<1>10. CASE InterruptCall(r)
  <2>1. PICK script : script = [stScripts[r] EXCEPT !.at = "stopping"]
    OBVIOUS
  <2>2. script \in StateScriptRows /\ script.at = "stopping" /\ script.pc = stScripts[r].pc
    BY <1>2, <2>1 DEF StateScriptRows, ScriptSteps
  <2>3. stScripts' = [stScripts EXCEPT ![r] = script]
    BY <1>2, <1>10, <2>1 DEF InterruptCall
  <2>4. stScripts'[r] = script
    BY <1>2, <2>3
  <2>5. AnswerSound(r)'
    BY <1>8, <2>2, <2>4 DEF AnswerSound
  <2> QED BY <1>1, <1>4, <1>5, <1>6, <1>7, <1>8, <2>2, <2>3, <2>5, ScriptStep
<1> QED BY <1>9, <1>10

(* The result of a call is recorded and the script goes on. *)
LEMMA RecordsSound ==
  ASSUME StateInv, UNCHANGED stCalls, NEW r \in StateRuns, RecordOperation(r)
  PROVE  StateInv'
<1>1. UNCHANGED <<stStore, stRuns, stTasks>>
  BY DEF RecordOperation
<1>2. PICK s, b : s = stScripts[r] /\ b = Attempt(r)
  OBVIOUS
<1>3. /\ stScripts \in [StateRuns -> StateScriptRows] /\ s \in StateScriptRows
      /\ s.at = "answered" /\ s.pc \in DOMAIN stCalls[r] /\ s.pc \in Nat /\ s.answer \in Answers
      /\ s.result \in StateResults /\ s.seen \in Nat /\ s.result.version \in Nat
      /\ AnswerSound(r) /\ OperationsTyped
  <2>1. /\ stScripts \in [StateRuns -> StateScriptRows] /\ s \in StateScriptRows
        /\ s.at = "answered" /\ AnswerSound(r) /\ OperationsTyped
    BY <1>2 DEF StateInv, StateTypes, AnswersSound, RecordOperation
  <2>2. s.pc \in Nat /\ s.answer \in Answers /\ s.result \in StateResults /\ s.seen \in Nat
    BY <2>1 DEF StateScriptRows
  <2>3. s.result.version \in Nat
    BY <2>2 DEF StateResults
  <2>4. s.pc \in DOMAIN stCalls[r]
    BY <1>2, <2>1 DEF AnswerSound
  <2> QED BY <2>1, <2>2, <2>3, <2>4
<1>4. TasksStand /\ TasksSingle' /\ stTasks' \subseteq StateTaskRows
  BY <1>1, TasksUntouched DEF StateInv, StateTypes
<1>5. HonestOutcomes' /\ OperationsTyped'
  <2>1. CASE ~CanOperationSettled(r, s.answer)
    <3>1. UNCHANGED stOps
      BY <1>2, <2>1 DEF RecordOperation
    <3> QED BY <1>1, <1>4, <3>1, OperationsStand
  <2>2. CASE CanOperationSettled(r, s.answer)
    <3>1. PICK status, o : /\ status = IF s.answer = "ok" THEN "succeeded" ELSE s.answer
                           /\ o = [stOps[r][b][s.pc] EXCEPT !.status = status, !.result = s.result]
      OBVIOUS
    <3>2. OperationBecomes(r, b, s.pc, o)
      BY <1>2, <2>2, <3>1 DEF RecordOperation, OperationBecomes
    <3>3. ASSUME b \in 1..StateAttempts[r]
          PROVE  o \in StateOperationRows /\ o.status = status /\ o.result = s.result
      <4>1. stOps[r][b][s.pc] \in StateOperationRows
        BY <1>3, <3>3 DEF OperationsTyped
      <4>2. status \in {"none", "started", "succeeded", "refused", "ambiguous"}
        BY <1>3, <3>1 DEF Answers
      <4> QED BY <1>3, <3>1, <4>1, <4>2 DEF StateOperationRows
    <3>4. OperationsTyped' /\ OperationIs(r, b, s.pc, o)
      <4>1. OperationFits(r, b, s.pc, o)
        BY <3>3 DEF OperationFits
      <4> QED BY <1>3, <3>2, <4>1, OperationChanges, Zenon
    <3>5. ASSUME NEW q \in StateRuns, NEW a \in 1..StateAttempts[q], NEW i \in DOMAIN stCalls'[q]
          PROVE  OpHonest(q, a, i)'
      <4>1. CASE ~(q = r /\ a = b /\ i = s.pc)
        <5>1. OpHonest(q, a, i) /\ stOps'[q][a][i] = stOps[q][a][i]
          BY <3>4, <4>1, HonestNow DEF StateInv, OperationIs
        <5> QED BY <1>1, <1>4, <5>1, OpStands
      <4>2. CASE q = r /\ a = b /\ i = s.pc
        <5>1. stOps'[q][a][i] = o /\ o.status = status /\ o.result = s.result
          BY <3>3, <3>4, <4>2 DEF OperationIs
        <5>2. PICK k : k = <<r, s.pc>>
          OBVIOUS
        <5>3. \A x, y : /\ Written(x, y)' <=> Written(x, y)
                        /\ Tasked(x, y)' => Tasked(x, y)
                        /\ IsMutation(x)' <=> IsMutation(x)
          BY <1>1, <1>4, StoreStands, CallsFixed DEF TasksStand, Tasked
        <5>4. UNCHANGED stReceipts
          BY <1>1, StoreStands
        <5>5. IsMutation(k) =>
                /\ status = "succeeded" => stReceipts[k].present /\ stReceipts[k].result = s.result
                /\ status = "refused" => ~Written(k, b) /\ ~Tasked(k, b)
          BY <1>2, <1>3, <3>1, <5>2 DEF AnswerSound, Answers
        <5> QED BY <4>2, <5>1, <5>2, <5>3, <5>4, <5>5 DEF OpHonest
      <4> QED BY <4>1, <4>2
    <3> QED BY <3>4, <3>5, HonestNext
  <2> QED BY <2>1, <2>2
<1>6. NoResult \in StateResults
  BY DEF NoResult, StateResults
<1>7. PICK seen, n : /\ seen = IF stCalls[r][s.pc].op = "get" THEN s.result.version ELSE s.seen
                     /\ n = s.pc + 1
  OBVIOUS
<1>8. PICK ahead, threw :
        /\ ahead = [s EXCEPT !.at = "ready", !.pc = n, !.answer = "none",
                             !.result = NoResult, !.seen = seen]
        /\ threw = [s EXCEPT !.at = "threw", !.answer = "none", !.result = NoResult]
  OBVIOUS
<1>9. seen \in Nat /\ n \in Nat
  BY <1>3, <1>7
<1>10. /\ ahead \in StateScriptRows /\ ahead.at = "ready" /\ ahead.pc = stScripts[r].pc + 1
       /\ threw \in StateScriptRows /\ threw.at = "threw"
  BY <1>2, <1>3, <1>6, <1>7, <1>8, <1>9 DEF StateScriptRows, ScriptSteps, Answers
<1>11. \/ stScripts' = [stScripts EXCEPT ![r] = ahead]
       \/ stScripts' = [stScripts EXCEPT ![r] = threw]
  <2>1. CASE r \in StateCatching \/ (s.answer = "ok" /\ CanOperationSettled(r, "ok"))
    BY <1>2, <1>3, <1>7, <1>8, <2>1 DEF RecordOperation, StateScriptRows
  <2>2. CASE ~(r \in StateCatching \/ (s.answer = "ok" /\ CanOperationSettled(r, "ok")))
    BY <1>2, <1>3, <1>8, <2>2 DEF RecordOperation, StateScriptRows
  <2> QED BY <2>1, <2>2
<1>12. ASSUME NEW script \in {ahead, threw}, stScripts' = [stScripts EXCEPT ![r] = script]
       PROVE  StateInv'
  <2>1. AnswerSound(r)'
    BY <1>3, <1>10, <1>12 DEF AnswerSound
  <2> QED BY <1>1, <1>2, <1>3, <1>4, <1>5, <1>10, <1>12, <2>1, ScriptStep
<1> QED BY <1>11, <1>12

(* A call is started and handed to its task. *)
LEMMA BeginSound ==
  ASSUME StateInv, UNCHANGED stCalls, NEW r \in StateRuns, BeginOperation(r)
  PROVE  StateInv'
<1>1. UNCHANGED <<stStore, stRuns>>
  BY DEF BeginOperation
<1>2. PICK s, b, k : s = stScripts[r] /\ b = Attempt(r) /\ k = <<r, s.pc>>
  OBVIOUS
<1>3. /\ stScripts \in [StateRuns -> StateScriptRows] /\ s \in StateScriptRows
      /\ s.at = "ready" /\ s.pc \in DOMAIN stCalls[r] /\ s.pc \in Nat /\ s.seen \in Nat
      /\ stRuns \in [StateRuns -> StateRunRows] /\ stRuns[r] \in StateRunRows
      /\ b \in Nat /\ b = stRuns[r].attempt
      /\ OperationsTyped /\ stTasks \subseteq StateTaskRows
  <2>1. /\ stScripts \in [StateRuns -> StateScriptRows] /\ s \in StateScriptRows
        /\ stRuns \in [StateRuns -> StateRunRows] /\ stRuns[r] \in StateRunRows
        /\ OperationsTyped /\ stTasks \subseteq StateTaskRows
        /\ s.at = "ready" /\ s.pc \in DOMAIN stCalls[r]
    BY <1>2 DEF StateInv, StateTypes, BeginOperation
  <2> QED BY <1>2, <2>1 DEF StateScriptRows, StateRunRows, Attempt
<1>4. k \in OperationKeys
  BY <1>2, <1>3, KeyParts DEF StateInv, StateTypes
<1>5. CASE ~CanOperationStarted(r)
  <2>1. PICK script : script = [s EXCEPT !.at = "threw"]
    OBVIOUS
  <2>2. script \in StateScriptRows /\ script.at = "threw"
    BY <1>3, <2>1 DEF StateScriptRows, ScriptSteps
  <2>3. /\ UNCHANGED <<stOps, stTasks>> /\ stScripts' = [stScripts EXCEPT ![r] = script]
        /\ stRuns' = [stRuns EXCEPT ![r] = stRuns[r]]
    BY <1>1, <1>2, <1>3, <1>5, <2>1 DEF BeginOperation
  <2>4. HonestOutcomes' /\ OperationsTyped'
    BY <1>1, <2>3, TasksUntouched, OperationsStand
  <2>5. stRuns[r].attempt = Attempt(r)
    BY <1>2, <1>3
  <2> QED BY <1>1, <1>3, <2>2, <2>3, <2>4, <2>5, RunStep
<1>6. CASE CanOperationStarted(r)
  <2>1. PICK input : input = IF stCalls[r][s.pc].guard = "seen" THEN s.seen ELSE Unguarded
    OBVIOUS
  <2>2. PICK o, task, script :
          /\ o = [status |-> "started", input |-> input, result |-> NoResult]
          /\ task = [key |-> k, attempt |-> b, input |-> input, entered |-> FALSE,
                     cancelled |-> FALSE]
          /\ script = [s EXCEPT !.at = "calling"]
    OBVIOUS
  <2>3. input \in Int
    BY <1>3, <2>1 DEF Unguarded
  <2>4. /\ o \in StateOperationRows /\ o.status = "started"
        /\ task \in StateTaskRows /\ task.key = k /\ task.attempt = b
        /\ script \in StateScriptRows /\ script.at = "calling" /\ script.pc = s.pc
    <3>1. NoResult \in StateResults
      BY DEF NoResult, StateResults
    <3>2. o \in StateOperationRows /\ o.status = "started"
      BY <2>2, <2>3, <3>1 DEF StateOperationRows
    <3>3. task \in StateTaskRows /\ task.key = k /\ task.attempt = b
      BY <1>3, <1>4, <2>2, <2>3 DEF StateTaskRows
    <3>4. script \in StateScriptRows /\ script.at = "calling" /\ script.pc = s.pc
      BY <1>3, <2>2 DEF StateScriptRows, ScriptSteps
    <3> QED BY <3>2, <3>3, <3>4
  <2>5. /\ OperationBecomes(r, b, s.pc, o) /\ stTasks' = stTasks \cup {task}
        /\ stScripts' = [stScripts EXCEPT ![r] = script]
    BY <1>2, <1>3, <1>6, <2>1, <2>2 DEF BeginOperation, OperationBecomes
  <2>6. OperationsTyped' /\ OperationIs(r, b, s.pc, o)
    <3>1. OperationFits(r, b, s.pc, o)
      BY <2>4 DEF OperationFits
    <3> QED BY <1>3, <2>5, <3>1, OperationChanges, Zenon
  <2>7. /\ stScripts' \in [StateRuns -> StateScriptRows] /\ stScripts'[r] = script
        /\ \A q \in StateRuns : q # r => stScripts'[q] = stScripts[q]
        /\ \A q \in StateRuns : Attempt(q)' = Attempt(q)
    BY <1>1, <1>3, <2>4, <2>5 DEF Attempt
  <2>8. StateTypes'
    <3>1. StateTaskRows' = StateTaskRows
      BY CallsFixed DEF StateTaskRows
    <3> QED BY <1>1, <1>3, <2>4, <2>5, <2>6, <2>7, <3>1 DEF StateInv, StateTypes
  <2>9. ~CallMade(r, b, s.pc)
    BY <1>2, <1>3 DEF CallMade
  <2>10. CallsStand
    <3> SUFFICES ASSUME NEW q \in StateRuns, NEW a \in Nat, NEW i \in Nat, CallMade(q, a, i)
                 PROVE  CallMade(q, a, i)'
      BY DEF CallsStand
    <3>1. CASE q # r
      BY <2>7, <3>1 DEF CallMade
    <3>2. CASE q = r
      BY <1>2, <1>3, <2>4, <2>7, <3>2 DEF CallMade
    <3> QED BY <3>1, <3>2
  <2>11. /\ StoreInv' /\ UNCHANGED <<stLog, stReceipts>>
         /\ \A x, y : Written(x, y)' <=> Written(x, y)
    BY <1>1, StoreStands DEF StateInv
  <2>12. /\ \A n \in DOMAIN stLog : /\ stLog[n].attempt \in Nat
                                    /\ stLog[n].key[1] \in StateRuns /\ stLog[n].key[2] \in Nat
         /\ \A t \in stTasks : /\ t.attempt \in Nat
                               /\ t.key[1] \in StateRuns /\ t.key[2] \in Nat
    BY PlacesTyped DEF StateInv, StoreInv
  <2>13. k[1] = r /\ k[2] = s.pc
    BY <1>2
  <2>14. ~Written(k, b)
    BY <2>9, <2>13 DEF Written, StateInv, WritesMade
  <2>15. \A t \in stTasks : ~(t.key = k /\ t.attempt = b)
    BY <2>9, <2>13 DEF StateInv, TasksSound
  <2>16. \A x, y : Tasked(x, y)' => Tasked(x, y) \/ (x = k /\ y = b)
    BY <2>4, <2>5 DEF Tasked
  <2>17. WritesMade'
    <3> SUFFICES ASSUME NEW n \in DOMAIN stLog
                 PROVE  CallMade(stLog[n].key[1], stLog[n].attempt, stLog[n].key[2])'
      BY <2>11 DEF WritesMade
    <3>1. CallMade(stLog[n].key[1], stLog[n].attempt, stLog[n].key[2])
      BY DEF StateInv, WritesMade
    <3>2. PICK q, a, i : q = stLog[n].key[1] /\ a = stLog[n].attempt /\ i = stLog[n].key[2]
      OBVIOUS
    <3>3. CallMade(q, a, i)'
      BY <2>10, <2>12, <3>1, <3>2 DEF CallsStand
    <3>4. q = stLog'[n].key[1] /\ a = stLog'[n].attempt /\ i = stLog'[n].key[2]
      BY <2>11, <3>2
    <3> QED BY <3>3, <3>4 DEF CallMade, Attempt
  <2>18. TasksSound'
    <3>1. ASSUME NEW t \in stTasks'
          PROVE  CallMade(t.key[1], t.attempt, t.key[2])' /\ ~Written(t.key, t.attempt)'
      <4>1. CASE t \in stTasks
        <5>1. CallMade(t.key[1], t.attempt, t.key[2]) /\ ~Written(t.key, t.attempt)
          BY <4>1 DEF StateInv, TasksSound
        <5> QED BY <2>10, <2>11, <2>12, <4>1, <5>1 DEF CallsStand
      <4>2. CASE t = task
        <5>1. CallMade(r, b, s.pc)'
          <6>1. Attempt(r)' = b /\ stScripts'[r].at = "calling" /\ stScripts'[r].pc = s.pc
            BY <1>2, <2>4, <2>7
          <6>2. b <= b /\ s.pc <= s.pc
            BY <1>3
          <6> QED BY <6>1, <6>2 DEF CallMade
        <5>2. ~Written(k, b)'
          BY <2>11, <2>14
        <5> QED BY <2>4, <2>13, <4>2, <5>1, <5>2
      <4> QED BY <2>5, <3>1, <4>1, <4>2
    <3>2. ASSUME NEW t \in stTasks', NEW u \in stTasks', u.key = t.key, u.attempt = t.attempt
          PROVE  u = t
      BY <2>4, <2>5, <2>15, <3>2 DEF StateInv, TasksSound
    <3> QED BY <3>1, <3>2 DEF TasksSound
  <2>19. AnswersSound'
    <3> SUFFICES ASSUME NEW q \in StateRuns PROVE AnswerSound(q)'
      BY DEF AnswersSound
    <3>1. CASE q # r
      <4>1. AnswerSound(q)
        BY DEF StateInv, AnswersSound
      <4>2. PICK x, y : x = <<q, stScripts[q].pc>> /\ y = Attempt(q)
        OBVIOUS
      <4>3. x # k
        BY <1>2, <3>1, <4>2
      <4>4. (Tasked(x, y)' => Tasked(x, y)) /\ (Written(x, y)' <=> Written(x, y))
        BY <2>11, <2>16, <4>3
      <4>5. IsMutation(x)' <=> IsMutation(x)
        BY CallsFixed
      <4> QED BY <2>7, <2>11, <3>1, <4>1, <4>2, <4>4, <4>5 DEF AnswerSound
    <3>2. CASE q = r
      BY <1>3, <2>4, <2>7, <3>2 DEF AnswerSound
    <3> QED BY <3>1, <3>2
  <2>20. HonestOutcomes'
    <3>1. ASSUME NEW q \in StateRuns, NEW a \in 1..StateAttempts[q], NEW i \in DOMAIN stCalls'[q]
          PROVE  OpHonest(q, a, i)'
      <4>1. CASE q = r /\ a = b /\ i = s.pc
        <5>1. stOps'[q][a][i].status = "started"
          BY <2>4, <2>6, <4>1 DEF OperationIs
        <5> QED BY <5>1 DEF OpHonest
      <4>2. CASE ~(q = r /\ a = b /\ i = s.pc)
        <5>1. OpHonest(q, a, i) /\ stOps'[q][a][i] = stOps[q][a][i]
          BY <2>6, <4>2, HonestNow DEF StateInv, OperationIs
        <5>2. PICK x : x = <<q, i>>
          OBVIOUS
        <5>3. ~(x = k /\ a = b)
          BY <1>2, <4>2, <5>2
        <5>4. (Tasked(x, a)' => Tasked(x, a)) /\ (Written(x, a)' <=> Written(x, a))
          BY <2>11, <2>16, <5>3
        <5>5. IsMutation(x)' <=> IsMutation(x)
          BY CallsFixed
        <5> QED BY <2>11, <5>1, <5>2, <5>4, <5>5 DEF OpHonest
      <4> QED BY <4>1, <4>2
    <3> QED BY <3>1, HonestNext
  <2> QED BY <2>8, <2>11, <2>17, <2>18, <2>19, <2>20 DEF StateInv
<1> QED BY <1>5, <1>6

(* A task that finds its token cancelled ends without a write. *)
LEMMA EntersSound ==
  ASSUME StateInv, UNCHANGED stCalls, NEW t \in stTasks, EnterTask(t)
  PROVE  StateInv'
<1>1. UNCHANGED <<stStore, stRuns, stOps>>
  BY DEF EnterTask
<1>2. PICK r, s : r = t.key[1] /\ s = stScripts[r]
  OBVIOUS
<1>3. /\ r \in StateRuns /\ t \in StateTaskRows /\ t.key \in OperationKeys
      /\ stTasks \subseteq StateTaskRows
      /\ stScripts \in [StateRuns -> StateScriptRows] /\ s \in StateScriptRows
  <2>1. r \in StateRuns /\ t.key \in OperationKeys
    BY <1>2, PlacesTyped DEF StateInv, StoreInv
  <2> QED BY <1>2, <2>1 DEF StateInv, StateTypes
<1>4. PICK entered : entered = [t EXCEPT !.entered = TRUE]
  OBVIOUS
<1>5. entered \in StateTaskRows /\ entered.key = t.key /\ entered.attempt = t.attempt
  BY <1>3, <1>4 DEF StateTaskRows
<1>6. \/ stTasks' = stTasks \ {t} /\ stScripts' = stScripts
      \/ stTasks' = stTasks \ {t} /\ Awaited(r, t) /\ Reply(r, "refused", NoResult)
      \/ stTasks' = (stTasks \ {t}) \cup {entered} /\ stScripts' = stScripts
  BY <1>2, <1>4 DEF EnterTask
<1>7. TasksStand /\ stTasks' \subseteq StateTaskRows
  BY <1>3, <1>5, <1>6 DEF TasksStand
<1>8. TasksSingle'
  BY <1>5, <1>6 DEF TasksSingle, StateInv, TasksSound
<1>9. HonestOutcomes' /\ OperationsTyped'
  BY <1>1, <1>7, OperationsStand
<1>10. CASE stScripts' = stScripts
  <2>1. StateTypes'
    <3>1. StateTaskRows' = StateTaskRows
      BY CallsFixed DEF StateTaskRows
    <3> QED BY <1>1, <1>7, <1>9, <1>10, <3>1 DEF StateInv, StateTypes
  <2>2. CallsStand
    BY <1>1, <1>10 DEF CallsStand, CallMade, Attempt
  <2>3. AnswersSound'
    BY <1>1, <1>7, <1>10, AnswerStands DEF StateInv, AnswersSound, Attempt
  <2> QED BY <1>1, <1>7, <1>8, <1>9, <2>1, <2>2, <2>3, QuietStateStep
<1>11. CASE stTasks' = stTasks \ {t} /\ Awaited(r, t) /\ Reply(r, "refused", NoResult)
  <2>1. /\ t.key = <<r, s.pc>> /\ t.attempt = Attempt(r) /\ s.at \in {"calling", "stopping"}
        /\ s.pc \in DOMAIN stCalls[r]
    BY <1>2, <1>3, <1>11 DEF Awaited, StateInv, AnswersSound, AnswerSound
  <2>2. PICK script : script = [s EXCEPT !.at = "answered", !.answer = "refused",
                                         !.result = NoResult]
    OBVIOUS
  <2>3. NoResult \in StateResults
    BY DEF NoResult, StateResults
  <2>4. script \in StateScriptRows /\ script.at = "answered" /\ script.pc = s.pc
        /\ script.answer = "refused"
    BY <1>3, <2>2, <2>3 DEF StateScriptRows, ScriptSteps, Answers
  <2>5. stScripts' = [stScripts EXCEPT ![r] = script]
    BY <1>2, <1>3, <1>11, <2>2 DEF Reply
  <2>6. stScripts'[r] = script
    BY <1>3, <2>5
  <2>7. PICK k, b : k = <<r, s.pc>> /\ b = Attempt(r)
    OBVIOUS
  <2>8. ~Written(k, b)'
    BY <1>1, <2>1, <2>7, StoreStands DEF StateInv, TasksSound
  <2>9. ~Tasked(k, b)'
    BY <1>11, <2>1, <2>7 DEF Tasked, StateInv, TasksSound
  <2>10. Attempt(r)' = b
    BY <1>1, <2>7 DEF Attempt
  <2>11. AnswerSound(r)'
    BY <2>1, <2>4, <2>6, <2>7, <2>8, <2>9, <2>10 DEF AnswerSound
  <2> QED BY <1>1, <1>2, <1>3, <1>7, <1>8, <1>9, <2>1, <2>4, <2>5, <2>11, ScriptStep
<1> QED BY <1>6, <1>10, <1>11

(* What the transaction of a task does to the store, and what it answers. *)
LEMMA ExecutionFacts ==
  ASSUME StateInv, UNCHANGED stCalls, NEW t \in stTasks, ApplyToStore(t),
         NEW e, e = Execution(t)
  PROVE  /\ StoreInv'
         /\ \A k \in OperationKeys : stReceipts[k].present => stReceipts'[k] = stReceipts[k]
         /\ \A k, a : Written(k, a)' => Written(k, a) \/ (k = t.key /\ a = t.attempt)
         /\ \A n \in DOMAIN stLog' : \/ n \in DOMAIN stLog /\ stLog'[n] = stLog[n]
                                     \/ stLog'[n].key = t.key /\ stLog'[n].attempt = t.attempt
         /\ e.answer \in {"ok", "refused"} /\ e.result \in StateResults
         /\ e.answer = "ok" /\ IsMutation(t.key) =>
              stReceipts'[t.key].present /\ stReceipts'[t.key].result = e.result
         /\ e.answer = "refused" => UNCHANGED stLog
<1>1. StateTypes /\ StoreInv /\ t \in StateTaskRows
  BY DEF StateInv, StateTypes
<1>2. t.key \in OperationKeys
  BY <1>1 DEF StateTaskRows
<1>3. /\ stReceipts \in [OperationKeys -> StateReceipts] /\ stReceipts[t.key] \in StateReceipts
      /\ stLog \in Seq(StateWrites)
  BY <1>1, <1>2 DEF StoreInv, StoreTyped
<1>4. NoResult \in StateResults
  BY DEF NoResult, StateResults
<1>5. stReceipts[t.key].result \in StateResults
  BY <1>3 DEF StateReceipts
<1>6. ResultOf(t) \in StateResults
  BY <1>1, ResultTyped
<1>7. \/ e = [answer |-> "ok", result |-> stReceipts[t.key].result] /\ Duplicate(t)
      \/ e = [answer |-> "refused", result |-> NoResult] /\ ~Committing(t)
      \/ e = [answer |-> "ok", result |-> ResultOf(t)] /\ ~Duplicate(t) /\ Permitted(t)
  BY DEF Execution, Committing
<1>8. e.answer \in {"ok", "refused"} /\ e.result \in StateResults
  BY <1>4, <1>5, <1>6, <1>7
<1>9. CASE ~Committing(t)
  <2>1. UNCHANGED stStore
    BY <1>9 DEF ApplyToStore, Committing
  <2>2. /\ StoreInv' /\ UNCHANGED <<stReceipts, stLog>>
        /\ \A k, a : Written(k, a)' <=> Written(k, a)
    BY <1>1, <2>1, StoreStands
  <2>3. ASSUME e.answer = "ok", IsMutation(t.key)
        PROVE  stReceipts[t.key].present /\ stReceipts[t.key].result = e.result
    <3>1. Duplicate(t)
      BY <1>7, <1>9, <2>3 DEF Committing
    <3> QED BY <1>7, <2>3, <3>1 DEF Duplicate
  <2> QED BY <1>8, <2>2, <2>3
<1>10. CASE Committing(t)
  <2>1. /\ StoreInv'
        /\ stReceipts' = [stReceipts EXCEPT ![t.key] = ReceiptFor(t)]
        /\ \/ stLog' = stLog
           \/ \E v \in Nat : stLog' = Append(stLog, [key |-> t.key, attempt |-> t.attempt,
                                                     version |-> v])
    BY <1>1, <1>10, CommitSound
  <2>2. ~stReceipts[t.key].present
    BY <1>10 DEF Committing, Duplicate
  <2>3. PICK receipt : receipt = ReceiptFor(t)
    OBVIOUS
  <2>4. receipt.present /\ receipt.result = ResultOf(t)
    BY <2>3 DEF ReceiptFor
  <2>5. /\ stReceipts'[t.key] = receipt
        /\ \A k \in OperationKeys : k # t.key => stReceipts'[k] = stReceipts[k]
    BY <1>2, <1>3, <2>1, <2>3
  <2>6. e.answer = "ok" /\ e.result = ResultOf(t)
    BY <1>7, <1>10 DEF Committing
  <2>7. \A n \in DOMAIN stLog' : \/ n \in DOMAIN stLog /\ stLog'[n] = stLog[n]
                                 \/ stLog'[n].key = t.key /\ stLog'[n].attempt = t.attempt
    <3>1. CASE stLog' = stLog
      BY <3>1
    <3>2. CASE \E v \in Nat : stLog' = Append(stLog, [key |-> t.key, attempt |-> t.attempt,
                                                      version |-> v])
      <4>1. PICK v \in Nat : stLog' = Append(stLog, [key |-> t.key, attempt |-> t.attempt,
                                                     version |-> v])
        BY <3>2
      <4>2. PICK w : w = [key |-> t.key, attempt |-> t.attempt, version |-> v]
        OBVIOUS
      <4>3. w.key = t.key /\ w.attempt = t.attempt
        BY <4>2
      <4>4. \A n \in DOMAIN stLog' : \/ n \in DOMAIN stLog /\ stLog'[n] = stLog[n]
                                     \/ stLog'[n] = w
        BY <1>3, <4>1, <4>2
      <4> QED BY <4>3, <4>4
    <3> QED BY <2>1, <3>1, <3>2
  <2>8. \A k, a : Written(k, a)' => Written(k, a) \/ (k = t.key /\ a = t.attempt)
    BY <2>7 DEF Written
  <2> QED BY <1>8, <2>1, <2>2, <2>4, <2>5, <2>6, <2>7, <2>8
<1> QED BY <1>9, <1>10

(* The transaction of a task, whether or not its call still waits. *)
LEMMA ExecutesSound ==
  ASSUME StateInv, UNCHANGED stCalls, NEW t \in stTasks, ExecuteTask(t)
  PROVE  StateInv'
<1>1. UNCHANGED <<stRuns, stOps>> /\ stTasks' = stTasks \ {t} /\ ApplyToStore(t)
  BY DEF ExecuteTask
<1>2. PICK r, s, e : r = t.key[1] /\ s = stScripts[r] /\ e = Execution(t)
  OBVIOUS
<1>3. /\ StoreInv'
      /\ \A k \in OperationKeys : stReceipts[k].present => stReceipts'[k] = stReceipts[k]
      /\ \A k, a : Written(k, a)' => Written(k, a) \/ (k = t.key /\ a = t.attempt)
      /\ \A n \in DOMAIN stLog' : \/ n \in DOMAIN stLog /\ stLog'[n] = stLog[n]
                                  \/ stLog'[n].key = t.key /\ stLog'[n].attempt = t.attempt
      /\ e.answer \in {"ok", "refused"} /\ e.result \in StateResults
      /\ e.answer = "ok" /\ IsMutation(t.key) =>
           stReceipts'[t.key].present /\ stReceipts'[t.key].result = e.result
      /\ e.answer = "refused" => UNCHANGED stLog
  BY <1>1, <1>2, ExecutionFacts
<1>4. /\ r \in StateRuns /\ t \in StateTaskRows /\ t.key \in OperationKeys /\ t.attempt \in Nat
      /\ t.key[2] \in Nat
      /\ stTasks \subseteq StateTaskRows
      /\ stScripts \in [StateRuns -> StateScriptRows] /\ s \in StateScriptRows
  <2>1. r \in StateRuns /\ t.key \in OperationKeys /\ t.attempt \in Nat /\ t.key[2] \in Nat
    BY <1>2, PlacesTyped DEF StateInv, StoreInv
  <2> QED BY <1>2, <2>1 DEF StateInv, StateTypes
<1>5. /\ CallMade(t.key[1], t.attempt, t.key[2]) /\ ~Written(t.key, t.attempt)
      /\ \A u \in stTasks : u.key = t.key /\ u.attempt = t.attempt => u = t
  BY DEF StateInv, TasksSound
<1>6. /\ \A k, a : Tasked(k, a)' => Tasked(k, a)
      /\ ~Tasked(t.key, t.attempt)' /\ Tasked(t.key, t.attempt)
  BY <1>1, <1>5 DEF Tasked
<1>7. NoResult \in StateResults /\ Fallback(t.key) \in Answers
  BY DEF NoResult, StateResults, Fallback, Answers
<1>8. \/ stScripts' = stScripts
      \/ /\ Awaited(r, t)
         /\ \/ Reply(r, e.answer, e.result)
            \/ Reply(r, Fallback(t.key), NoResult)
  BY <1>2 DEF ExecuteTask
<1>9. \/ stScripts' = stScripts
       \/ /\ t.key = <<r, s.pc>> /\ t.attempt = Attempt(r) /\ s.at \in {"calling", "stopping"}
          /\ s.pc \in DOMAIN stCalls[r]
          /\ \E script \in StateScriptRows :
               /\ stScripts' = [stScripts EXCEPT ![r] = script]
               /\ script.at = "answered" /\ script.pc = s.pc
               /\ \/ script.answer = e.answer /\ script.result = e.result
                  \/ script.answer = Fallback(t.key)
  <2>1. ASSUME NEW a \in Answers, NEW x \in StateResults, Reply(r, a, x)
        PROVE  \E script \in StateScriptRows :
                 /\ stScripts' = [stScripts EXCEPT ![r] = script]
                 /\ script.at = "answered" /\ script.pc = s.pc
                 /\ script.answer = a /\ script.result = x
    <3>1. PICK script : script = [s EXCEPT !.at = "answered", !.answer = a, !.result = x]
      OBVIOUS
    <3>2. script \in StateScriptRows /\ script.at = "answered" /\ script.pc = s.pc
          /\ script.answer = a /\ script.result = x
      BY <1>4, <3>1 DEF StateScriptRows, ScriptSteps
    <3>3. stScripts' = [stScripts EXCEPT ![r] = script]
      BY <1>2, <1>4, <2>1, <3>1 DEF Reply
    <3> QED BY <3>2, <3>3
  <2>2. e.answer \in Answers
    BY <1>3 DEF Answers
  <2>3. CASE Awaited(r, t)
    <3>1. /\ t.key = <<r, s.pc>> /\ t.attempt = Attempt(r) /\ s.at \in {"calling", "stopping"}
          /\ s.pc \in DOMAIN stCalls[r]
      BY <1>2, <1>4, <2>3 DEF Awaited, StateInv, AnswersSound, AnswerSound
    <3> QED BY <1>3, <1>7, <1>8, <2>1, <2>2, <3>1
  <2> QED BY <1>8, <2>3
<1>10. \A q \in StateRuns : Attempt(q)' = Attempt(q)
  BY <1>1 DEF Attempt
<1>11. StateTypes' /\ CallsStand
  <2>1. StateTaskRows' = StateTaskRows /\ OperationsTyped'
    BY <1>1, CallsFixed DEF StateTaskRows, StateInv, StateTypes, OperationsTyped
  <2>2. CASE stScripts' = stScripts
    <3>1. StateTypes'
      BY <1>1, <1>4, <2>1, <2>2 DEF StateInv, StateTypes
    <3>2. CallsStand
      BY <1>10, <2>2 DEF CallsStand, CallMade
    <3> QED BY <3>1, <3>2
  <2>3. CASE /\ s.at \in {"calling", "stopping"}
             /\ \E script \in StateScriptRows :
                  /\ stScripts' = [stScripts EXCEPT ![r] = script]
                  /\ script.at = "answered" /\ script.pc = s.pc
    <3>1. PICK script \in StateScriptRows :
            /\ stScripts' = [stScripts EXCEPT ![r] = script]
            /\ script.at = "answered" /\ script.pc = s.pc
      BY <2>3
    <3>2. StateTypes'
      BY <1>1, <1>4, <2>1, <3>1 DEF StateInv, StateTypes
    <3>3. stScripts'[r] = script /\ \A q \in StateRuns : q # r => stScripts'[q] = stScripts[q]
      BY <1>4, <3>1
    <3>4. CallsStand
      <4> SUFFICES ASSUME NEW q \in StateRuns, NEW a \in Nat, NEW i \in Nat, CallMade(q, a, i)
                   PROVE  CallMade(q, a, i)'
        BY DEF CallsStand
      <4>1. CASE q # r
        BY <1>10, <3>3, <4>1 DEF CallMade
      <4>2. CASE q = r
        BY <1>2, <1>10, <2>3, <3>1, <3>3, <4>2 DEF CallMade
      <4> QED BY <4>1, <4>2
    <3> QED BY <3>2, <3>4
  <2> QED BY <1>9, <2>2, <2>3
<1>12. /\ \A n \in DOMAIN stLog : /\ stLog[n].attempt \in Nat
                                  /\ stLog[n].key[1] \in StateRuns /\ stLog[n].key[2] \in Nat
       /\ \A u \in stTasks : /\ u.attempt \in Nat
                             /\ u.key[1] \in StateRuns /\ u.key[2] \in Nat
  BY PlacesTyped DEF StateInv, StoreInv
<1>13. WritesMade'
  <2> SUFFICES ASSUME NEW n \in DOMAIN stLog'
               PROVE  CallMade(stLog[n].key[1], stLog[n].attempt, stLog[n].key[2])'
    BY DEF WritesMade
  <2>1. PICK q, a, i : q = stLog'[n].key[1] /\ a = stLog'[n].attempt /\ i = stLog'[n].key[2]
    OBVIOUS
  <2>2. q \in StateRuns /\ a \in Nat /\ i \in Nat /\ CallMade(q, a, i)
    <3>1. CASE n \in DOMAIN stLog /\ stLog'[n] = stLog[n]
      BY <1>12, <2>1, <3>1 DEF StateInv, WritesMade
    <3>2. CASE stLog'[n].key = t.key /\ stLog'[n].attempt = t.attempt
      BY <1>2, <1>4, <1>5, <2>1, <3>2
    <3> QED BY <1>3, <3>1, <3>2
  <2>3. CallMade(q, a, i)'
    BY <1>11, <2>2 DEF CallsStand
  <2> QED BY <2>1, <2>3 DEF CallMade, Attempt
<1>14. TasksSound'
  <2> SUFFICES ASSUME NEW u \in stTasks'
               PROVE  /\ CallMade(u.key[1], u.attempt, u.key[2])' /\ ~Written(u.key, u.attempt)'
                      /\ \A w \in stTasks' : w.key = u.key /\ w.attempt = u.attempt => w = u
    BY DEF TasksSound
  <2>1. u \in stTasks /\ u # t
    BY <1>1
  <2>2. /\ CallMade(u.key[1], u.attempt, u.key[2]) /\ ~Written(u.key, u.attempt)
        /\ \A w \in stTasks : w.key = u.key /\ w.attempt = u.attempt => w = u
    BY <2>1 DEF StateInv, TasksSound
  <2>3. ~Written(u.key, u.attempt)'
    BY <1>3, <1>5, <2>1, <2>2
  <2>4. CallMade(u.key[1], u.attempt, u.key[2])'
    BY <1>11, <1>12, <2>1, <2>2 DEF CallsStand
  <2> QED BY <1>1, <2>2, <2>3, <2>4
<1>15. \A k, a : ~Written(k, a) /\ ~Tasked(k, a) => ~Written(k, a)' /\ ~Tasked(k, a)'
  BY <1>3, <1>6
<1>16. \A k : IsMutation(k)' <=> IsMutation(k)
  BY CallsFixed
<1>17. \A q \in StateRuns : \A i \in DOMAIN stCalls[q] : <<q, i>> \in OperationKeys
  BY KeyParts DEF StateInv, StateTypes
<1>18. AnswersSound'
  <2> SUFFICES ASSUME NEW q \in StateRuns PROVE AnswerSound(q)'
    BY DEF AnswersSound
  <2>1. CASE stScripts'[q] = stScripts[q]
    <3>1. PICK k, b : k = <<q, stScripts[q].pc>> /\ b = Attempt(q)
      OBVIOUS
    <3>2. AnswerSound(q)
      BY DEF StateInv, AnswersSound
    <3>3. CASE stScripts[q].at = "answered"
      <4>1. k \in OperationKeys
        BY <1>17, <3>1, <3>2, <3>3 DEF AnswerSound
      <4>2. stReceipts[k].present => stReceipts'[k] = stReceipts[k]
        BY <1>3, <4>1
      <4>3. ~Written(k, b) /\ ~Tasked(k, b) => ~Written(k, b)' /\ ~Tasked(k, b)'
        BY <1>15
      <4> QED BY <1>10, <1>16, <2>1, <3>1, <3>2, <4>2, <4>3 DEF AnswerSound
    <3>4. CASE stScripts[q].at # "answered"
      BY <2>1, <3>2, <3>4 DEF AnswerSound
    <3> QED BY <3>3, <3>4
  <2>2. CASE stScripts'[q] # stScripts[q]
    <3>1. /\ t.key = <<r, s.pc>> /\ t.attempt = Attempt(r) /\ s.pc \in DOMAIN stCalls[r]
          /\ \E script \in StateScriptRows :
               /\ stScripts' = [stScripts EXCEPT ![r] = script]
               /\ script.at = "answered" /\ script.pc = s.pc
               /\ \/ script.answer = e.answer /\ script.result = e.result
                  \/ script.answer = Fallback(t.key)
      BY <1>9, <2>2
    <3>2. PICK script \in StateScriptRows :
            /\ stScripts' = [stScripts EXCEPT ![r] = script]
            /\ script.at = "answered" /\ script.pc = s.pc
            /\ \/ script.answer = e.answer /\ script.result = e.result
               \/ script.answer = Fallback(t.key)
      BY <3>1
    <3>3. q = r /\ stScripts'[r] = script
      BY <1>4, <2>2, <3>2
    <3>4. PICK k, b : k = t.key /\ b = t.attempt
      OBVIOUS
    <3>5. IsMutation(k) => Fallback(k) = "ambiguous"
      BY DEF Fallback
    <3>6. e.answer = "refused" => ~Written(k, b)'
      BY <1>3, <1>5, <3>4 DEF Written
    <3>7. ASSUME IsMutation(k)
          PROVE  /\ script.answer = "ok" =>
                      stReceipts'[k].present /\ stReceipts'[k].result = script.result
                 /\ script.answer = "refused" => ~Written(k, b)' /\ ~Tasked(k, b)'
      BY <1>3, <1>6, <3>2, <3>4, <3>5, <3>6, <3>7
    <3>8. k = <<r, script.pc>> /\ Attempt(r)' = b
      BY <1>4, <1>10, <3>1, <3>2, <3>4
    <3> QED BY <1>16, <3>1, <3>2, <3>3, <3>7, <3>8 DEF AnswerSound
  <2> QED BY <2>1, <2>2
<1>19. HonestOutcomes'
  <2>1. ASSUME NEW q \in StateRuns, NEW a \in 1..StateAttempts[q], NEW i \in DOMAIN stCalls'[q]
        PROVE  OpHonest(q, a, i)'
    <3>1. OpHonest(q, a, i) /\ stOps'[q][a][i] = stOps[q][a][i]
      BY <1>1, HonestNow DEF StateInv
    <3>2. PICK k : k = <<q, i>>
      OBVIOUS
    <3>3. stReceipts[k].present => stReceipts'[k] = stReceipts[k]
      BY <1>3, <1>17, <3>2
    <3>4. ~Written(k, a) /\ ~Tasked(k, a) => ~Written(k, a)' /\ ~Tasked(k, a)'
      BY <1>15
    <3> QED BY <1>16, <3>1, <3>2, <3>3, <3>4 DEF OpHonest
  <2> QED BY <2>1, HonestNext
<1> QED BY <1>3, <1>11, <1>13, <1>14, <1>18, <1>19 DEF StateInv

LEMMA StateInitially == StateInit => StateInv
<1> SUFFICES ASSUME StateInit PROVE StateInv
  OBVIOUS
<1> USE DEF StateInit
<1>1. NoResult \in StateResults
  BY DEF NoResult, StateResults
<1>2. /\ NoEntryYet \in StateRows /\ ~NoEntryYet.present
      /\ NoReceipt \in StateReceipts /\ ~NoReceipt.present /\ NoReceipt.version = 0
      /\ NoOperation \in StateOperationRows /\ NoOperation.status = "none"
      /\ NoScript \in StateScriptRows /\ NoScript.at = "idle"
  <2>1. NoEntryYet \in StateRows /\ ~NoEntryYet.present
    BY DEF NoEntryYet, StateRows
  <2>2. NoReceipt \in StateReceipts /\ ~NoReceipt.present /\ NoReceipt.version = 0
    BY <1>1 DEF NoReceipt, StateReceipts, Unguarded
  <2>3. NoOperation \in StateOperationRows /\ NoOperation.status = "none"
    BY <1>1 DEF NoOperation, StateOperationRows, Unguarded
  <2>4. NoScript \in StateScriptRows /\ NoScript.at = "idle"
    BY <1>1 DEF NoScript, StateScriptRows, ScriptSteps, Answers
  <2> QED BY <2>1, <2>2, <2>3, <2>4
<1>3. stRuns \in [StateRuns -> StateRunRows]
  BY DEF StateRunRows
<1>4. OperationsTyped
  BY <1>2 DEF OperationsTyped
<1>5. StateTypes
  BY <1>2, <1>3, <1>4 DEF StateTypes
<1>6. StoreTyped
  BY <1>2 DEF StoreTyped
<1>7. ReceiptsSound
  BY <1>2 DEF ReceiptsSound
<1>8. StateAppliedOnce
  <2>1. LiveKeys = {}
    BY <1>2 DEF LiveKeys
  <2>2. Cardinality({}) = 0
    BY FS_EmptySet
  <2>3. DOMAIN stLog = {}
    OBVIOUS
  <2> QED BY <2>1, <2>2, <2>3 DEF StateAppliedOnce, StoreIntact
<1>9. StoreInv
  BY <1>6, <1>7, <1>8 DEF StoreInv, WritesReceipted
<1>10. WritesMade /\ TasksSound
  BY DEF WritesMade, TasksSound
<1>11. AnswersSound
  BY <1>2 DEF AnswersSound, AnswerSound
<1>12. HonestOutcomes
  BY <1>2 DEF HonestOutcomes
<1> QED BY <1>5, <1>9, <1>10, <1>11, <1>12 DEF StateInv

LEMMA StateInductive == StateInv /\ [StateNext]_stVars => StateInv'
<1> SUFFICES ASSUME StateInv, [StateNext]_stVars PROVE StateInv'
  OBVIOUS
<1>1. CASE UNCHANGED stVars
  <2>1. UNCHANGED <<stCalls, stStore, stRuns, stOps, stScripts, stTasks>>
    BY <1>1 DEF stVars, stStore
  <2>2. TasksStand /\ TasksSingle'
    BY <2>1, TasksUntouched
  <2>3. HonestOutcomes' /\ OperationsTyped'
    BY <2>1, <2>2, OperationsStand
  <2>4. StateTypes'
    <3>1. StateTaskRows' = StateTaskRows
      BY <2>1, CallsFixed DEF StateTaskRows
    <3> QED BY <2>1, <2>3, <3>1 DEF StateInv, StateTypes
  <2>5. CallsStand
    BY <2>1 DEF CallsStand, CallMade, Attempt
  <2>6. AnswersSound'
    BY <2>1, <2>2, AnswerStands DEF StateInv, AnswersSound, Attempt
  <2> QED BY <2>1, <2>2, <2>3, <2>4, <2>5, <2>6, QuietStateStep
<1>2. CASE StateNext
  <2>1. UNCHANGED stCalls
    BY <1>2 DEF StateNext
  <2>2. CASE CrashStateProcess
    BY <2>1, <2>2, CrashSound
  <2>3. CASE \E t \in stTasks : EnterTask(t) \/ ExecuteTask(t)
    BY <2>1, <2>3, EntersSound, ExecutesSound
  <2>4. ASSUME NEW r \in StateRuns,
               \/ StartStateAttempt(r) \/ AttemptSucceeds(r) \/ AttemptThrows(r)
               \/ AttemptCancelled(r) \/ DetachScript(r) \/ RequestStateCancellation(r)
        PROVE  StateInv'
    BY <2>1, <2>4, AttemptsSound
  <2>5. ASSUME NEW r \in StateRuns, SettleCancelling(r) \/ StateRunTimeout(r) \/ RecoverStateRun(r)
        PROVE  StateInv'
    BY <2>1, <2>5, SettlementsSound
  <2>6. ASSUME NEW r \in StateRuns, CallTimesOut(r) \/ InterruptCall(r)
        PROVE  StateInv'
    BY <2>1, <2>6, InterruptionsSound
  <2>7. ASSUME NEW r \in StateRuns, RecordOperation(r) \/ BeginOperation(r)
        PROVE  StateInv'
    BY <2>1, <2>7, RecordsSound, BeginSound
  <2> QED BY <1>2, <2>2, <2>3, <2>4, <2>5, <2>6, <2>7 DEF StateNext
<1> QED BY <1>1, <1>2

(* A mutation of the state store is applied once per operation key, every  *)
(* version names one write, and what the histories say of an operation is  *)
(* what the store holds: over retries with the same key, calls that timed  *)
(* out or were cancelled while their task went on, crashes between the     *)
(* mutation and its event, and recovery, for any scripts, runs, keys and   *)
(* limits (execute, execute_scoped, recover_run).                          *)
THEOREM StateHonest == StateSpec => []StateEffectsHonest
<1>1. StateInv => StateEffectsHonest
  BY DEF StateInv, StoreInv, StateEffectsHonest
<1> QED BY <1>1, StateInitially, StateInductive, PTL DEF StateSpec
===============================================================================
