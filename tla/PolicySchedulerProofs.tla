----------------------- MODULE PolicySchedulerProofs -----------------------
(***************************************************************************)
(* Proofs about PolicyScheduler, for any runs, workflows, drivers, limits  *)
(* and lease length: the state keeps its type, and the unsuspended claims  *)
(* of a workflow never exceed its concurrency limit, whatever drivers      *)
(* compete, stall, die or recover.                                         *)
(***************************************************************************)
EXTENDS PolicyScheduler, FiniteSetTheorems, TLAPS

(* SlotsWithinConcurrency of an arbitrary claims table. *)
WithinSlots(c) ==
  \A w \in Workflows :
    Concurrency[w] # 0 => Cardinality(Active(c, w)) <= Concurrency[w]

(* A step that may be attempted has an attempt left. *)
AttemptsLeft ==
  \A r \in Runs :
    /\ steps[r].status = "ready" => steps[r].attempts = 0
    /\ steps[r].status \in {"backoff", "due"} => steps[r].attempts < MaxAttempts

IInv ==
  /\ TypeOK
  /\ AttemptsLeft
  /\ WithinSlots(claims)

-----------------------------------------------------------------------------
(* The claims table. *)

(* Deleting the expired claims keeps the type of the table. *)
LEMMA LiveType ==
  ASSUME claims \in [Runs -> Claims], NEW t
  PROVE  LiveAt(t) \in [Runs -> Claims]
BY DEF LiveAt, Claims, NoClaim

(* Every set of active claims is a finite set of runs. *)
LEMMA ActiveFinite ==
  ASSUME NEW c, NEW w
  PROVE  /\ IsFiniteSet(Active(c, w))
         /\ Cardinality(Active(c, w)) \in Nat
<1>1. Active(c, w) \subseteq Runs
  BY DEF Active
<1>2. IsFiniteSet(Active(c, w))
  BY <1>1, PolicyAssumption, FS_Subset
<1> QED BY <1>2, FS_CardinalityType

(* A table with fewer active claims stays within the slots. *)
LEMMA FewerActive ==
  ASSUME NEW c, NEW x, WithinSlots(c),
         \A w \in Workflows : Active(x, w) \subseteq Active(c, w)
  PROVE  WithinSlots(x)
<1> SUFFICES ASSUME NEW w \in Workflows, Concurrency[w] # 0
             PROVE  Cardinality(Active(x, w)) <= Concurrency[w]
  BY DEF WithinSlots
<1>1. Cardinality(Active(x, w)) <= Cardinality(Active(c, w))
  BY ActiveFinite, FS_Subset
<1>2. Cardinality(Active(c, w)) <= Concurrency[w]
  BY DEF WithinSlots
<1>3. Concurrency[w] \in Nat
  BY PolicyAssumption
<1> QED BY <1>1, <1>2, <1>3, ActiveFinite

(* Deleting the expired claims stays within the slots. *)
LEMMA LiveWithinSlots ==
  ASSUME WithinSlots(claims), NEW t
  PROVE  WithinSlots(LiveAt(t))
<1>1. \A w \in Workflows : Active(LiveAt(t), w) \subseteq Active(claims, w)
  BY DEF Active, LiveAt, NoClaim
<1> QED BY <1>1, FewerActive

(* A claim that is taken or resumed after the capacity check stays within  *)
(* the slots.                                                              *)
LEMMA OneMoreActive ==
  ASSUME NEW c \in [Runs -> Claims], NEW r \in Runs, NEW k,
         WithinSlots(c), HasCapacity(c, WorkflowOf[r])
  PROVE  WithinSlots([c EXCEPT ![r] = k])
<1> DEFINE x == [c EXCEPT ![r] = k]
<1> SUFFICES ASSUME NEW w \in Workflows, Concurrency[w] # 0
             PROVE  Cardinality(Active(x, w)) <= Concurrency[w]
  BY DEF WithinSlots
<1>0. Concurrency[w] \in Nat
  BY PolicyAssumption
<1>1. CASE WorkflowOf[r] = w
  <2>1. Active(x, w) \subseteq Active(c, w) \cup {r}
    BY DEF Active
  <2>2. /\ IsFiniteSet(Active(c, w) \cup {r})
        /\ Cardinality(Active(c, w) \cup {r}) <= Cardinality(Active(c, w)) + 1
    <3> DEFINE A == Active(c, w)
    <3>1. IsFiniteSet(A) /\ Cardinality(A) \in Nat
      BY ActiveFinite
    <3> HIDE DEF A
    <3>2. /\ IsFiniteSet(A \cup {r})
          /\ \/ Cardinality(A \cup {r}) = Cardinality(A)
             \/ Cardinality(A \cup {r}) = Cardinality(A) + 1
      BY <3>1, FS_AddElement, Zenon
    <3>3. Cardinality(A \cup {r}) <= Cardinality(A) + 1
      BY <3>1, <3>2
    <3> QED BY <3>2, <3>3 DEF A
  <2>3. Cardinality(Active(x, w)) <= Cardinality(Active(c, w) \cup {r})
    BY <2>1, <2>2, FS_Subset
  <2>4. Cardinality(Active(c, w)) < Concurrency[w]
    BY <1>1 DEF HasCapacity
  <2>5. Cardinality(Active(c, w) \cup {r}) \in Nat
    BY <2>2, FS_CardinalityType
  <2> QED BY <2>2, <2>3, <2>4, <2>5, <1>0, ActiveFinite
<1>2. CASE WorkflowOf[r] # w
  <2>1. Active(x, w) = Active(c, w)
    BY <1>2 DEF Active
  <2> QED BY <2>1 DEF WithinSlots
<1> QED BY <1>1, <1>2


-----------------------------------------------------------------------------
(* The types of what the actions assign. *)

(* Moving or retiring a driver keeps the type of the drivers. *)
LEMMA DriverType ==
  ASSUME TypeOK, NEW d \in Drivers
  PROVE  /\ drivers[d].run \in Runs
         /\ \A pc \in DriverStates :
              Move(d, pc) => drivers' \in [Drivers -> DriverRecords]
         /\ Retire(d) => drivers' \in [Drivers -> DriverRecords]
<1> drivers \in [Drivers -> DriverRecords]
  BY DEF TypeOK
<1>1. drivers[d].run \in Runs
  BY DEF DriverRecords
<1>2. \A pc \in DriverStates :
        Move(d, pc) => drivers' \in [Drivers -> DriverRecords]
  BY DEF Move, DriverRecords
<1>3. Retired(d) \in DriverRecords
  BY <1>1 DEF Retired, DriverRecords, DriverStates
<1>4. Retire(d) => drivers' \in [Drivers -> DriverRecords]
  BY <1>3 DEF Retire
<1> QED BY <1>1, <1>2, <1>4

(* The folded events keep the type of a projection. *)
LEMMA FoldTypes ==
  ASSUME NEW p \in RunProjections
  PROVE  /\ RunAdmitted(p) \in RunProjections
         /\ RunExecutionStarted(p) \in RunProjections
         /\ RunCancellationRequested(p) \in RunProjections
         /\ \A o \in BusinessOutcomes : RunOutcomeDecided(p, o) \in RunProjections
         /\ p.outcome \in BusinessOutcomes => RunFinalized(p) \in RunProjections
         /\ \A st \in RunStatuses : [p EXCEPT !.status = st] \in RunProjections
<1> USE DEF RunProjections, RunStatuses, BusinessOutcomes
<1>1. RunAdmitted(p) \in RunProjections
  BY DEF RunAdmitted
<1>2. RunExecutionStarted(p) \in RunProjections
  BY DEF RunExecutionStarted
<1>3. RunCancellationRequested(p) \in RunProjections
  BY DEF RunCancellationRequested
<1>4. \A o \in BusinessOutcomes : RunOutcomeDecided(p, o) \in RunProjections
  BY DEF RunOutcomeDecided
<1>5. p.outcome \in BusinessOutcomes => RunFinalized(p) \in RunProjections
  BY DEF RunFinalized
<1>6. \A st \in RunStatuses : [p EXCEPT !.status = st] \in RunProjections
  OBVIOUS
<1> QED BY <1>1, <1>2, <1>3, <1>4, <1>5, <1>6

(* Deciding a run keeps its type, whether or not a hook follows. *)
LEMMA DecidedType ==
  ASSUME TypeOK, NEW r \in Runs, NEW o \in BusinessOutcomes
  PROVE  Decided(r, o) \in RunProjections
<1>1. runs[r] \in RunProjections
  BY DEF TypeOK
<1>2. RunOutcomeDecided(runs[r], o) \in RunProjections
  BY <1>1, FoldTypes
<1>3. RunOutcomeDecided(runs[r], o).outcome = o
  BY <1>1 DEF RunOutcomeDecided, RunProjections
<1>4. RunFinalized(RunOutcomeDecided(runs[r], o)) \in RunProjections
  BY <1>2, <1>3, FoldTypes
<1> QED BY <1>2, <1>4 DEF Decided

(* Requesting the hook keeps the type of the hooks. *)
LEMMA HookType ==
  ASSUME TypeOK, NEW r \in Runs
  PROVE  HookRequested(r) \in [Runs -> [status : HookStatuses,
                                        by : Drivers \cup {NoDriver}]]
BY DEF TypeOK, HookRequested, HookStatuses

-----------------------------------------------------------------------------
(* Two frames: steps that leave the histories alone, and steps that leave  *)
(* the claims alone.                                                       *)

(* A step of the claims, the drivers and the clock. *)
LEMMA ClaimFrame ==
  ASSUME IInv, UNCHANGED histories,
         claims' \in [Runs -> Claims], WithinSlots(claims'),
         drivers' \in [Drivers -> DriverRecords], now' \in 0..MaxTime
  PROVE  IInv'
BY DEF IInv, TypeOK, AttemptsLeft, WithinSlots, Active, histories

(* A step of the histories and the drivers. *)
LEMMA HistoryFrame ==
  ASSUME IInv, UNCHANGED <<claims, now>>,
         drivers' \in [Drivers -> DriverRecords],
         runs' \in [Runs -> RunProjections],
         admittedAt' \in [Runs -> Nat],
         startedAt' \in [Runs -> Nat \cup {NoInstant}],
         waits' \in [Runs -> {"none", "registered", "resolved"}],
         steps' \in [Runs -> [status : StepStatuses, attempts : 0..MaxAttempts,
                              by : Drivers \cup {NoDriver}]],
         hooks' \in [Runs -> [status : HookStatuses,
                              by : Drivers \cup {NoDriver}]],
         AttemptsLeft'
  PROVE  IInv'
BY DEF IInv, TypeOK, WithinSlots, Active

(* A step that closes or keeps the attempt of one run. *)
LEMMA StepFrame ==
  ASSUME IInv, NEW r \in Runs, NEW st \in StepStatuses,
         steps' = [steps EXCEPT ![r].status = st],
         st \notin {"ready", "backoff", "due"}
  PROVE  /\ steps' \in [Runs -> [status : StepStatuses,
                                 attempts : 0..MaxAttempts,
                                 by : Drivers \cup {NoDriver}]]
         /\ AttemptsLeft'
BY DEF IInv, TypeOK, AttemptsLeft

-----------------------------------------------------------------------------
(* Every step preserves the invariant. *)

(* Steps of the driver that leave the histories alone. *)
LEMMA ClaimSteps ==
  ASSUME IInv, NEW d \in Drivers,
         \/ RemainQueued(d) \/ AbandonAcquisition(d) \/ RequireRecovery(d)
         \/ CheckLeaseLoss(d) \/ AttemptRefused(d) \/ SuspendForRetry(d)
         \/ ResumeSlot(d) \/ SuspendForWait(d) \/ LeaveLoop(d)
         \/ LeaveEpilogue(d) \/ ReleaseSlot(d) \/ Heartbeat(d)
         \/ HeartbeatFails(d) \/ Crash(d)
  PROVE  IInv'
<1> DEFINE r == drivers[d].run
<1>a. /\ TypeOK /\ r \in Runs /\ claims \in [Runs -> Claims]
      /\ drivers \in [Drivers -> DriverRecords] /\ now \in 0..MaxTime
      /\ WithinSlots(claims) /\ MaxTime \in Nat /\ ClaimLease \in Nat
  BY DriverType, PolicyAssumption DEF IInv, TypeOK
<1>b. /\ Live \in [Runs -> Claims] /\ WithinSlots(Live)
  BY <1>a, LiveType, LiveWithinSlots DEF Live
<1>s. /\ [claims EXCEPT ![r].suspended = TRUE] \in [Runs -> Claims]
      /\ WithinSlots([claims EXCEPT ![r].suspended = TRUE])
  <2> DEFINE x == [claims EXCEPT ![r].suspended = TRUE]
  <2>1. x \in [Runs -> Claims]
    BY <1>a DEF Claims
  <2>2. \A w \in Workflows : Active(x, w) \subseteq Active(claims, w)
    BY <1>a DEF Active, Claims
  <2> QED BY <2>1, <2>2, <1>a, FewerActive
<1>1. CASE RemainQueued(d)
  BY <1>1, <1>a, <1>b, ClaimFrame DEF RemainQueued
<1>2. CASE AbandonAcquisition(d)
  BY <1>2, <1>a, DriverType, ClaimFrame DEF AbandonAcquisition
<1>3. CASE RequireRecovery(d)
  <2>1. drivers' \in [Drivers -> DriverRecords]
    <3>1. now \in Nat
      BY <1>a
    <3> DEFINE D == [drivers[d] EXCEPT !.pc = "checking", !.leaseNow = now]
    <3>2. D \in DriverRecords
      BY <3>1, <1>a DEF DriverRecords, DriverStates
    <3>3. drivers' = [drivers EXCEPT ![d] = D]
      BY <1>3, <1>a DEF RequireRecovery
    <3> QED BY <3>2, <3>3, <1>a
  <2> QED BY <2>1, <1>3, <1>a, ClaimFrame DEF RequireRecovery
<1>4. CASE CheckLeaseLoss(d)
  <2>1. /\ claims' \in [Runs -> Claims] /\ WithinSlots(claims')
    BY <1>4, <1>a, LiveType, LiveWithinSlots DEF CheckLeaseLoss
  <2>2. drivers' \in [Drivers -> DriverRecords]
    <3>1. CASE Retire(d)
      BY <3>1, <1>a, DriverType
    <3>2. CASE drivers' = [drivers EXCEPT ![d].pc = "recovering",
                                          ![d].leaseNow = 0]
      BY <3>2, <1>a DEF DriverRecords, DriverStates
    <3> QED BY <3>1, <3>2, <1>4 DEF CheckLeaseLoss
  <2> QED BY <2>1, <2>2, <1>4, <1>a, ClaimFrame DEF CheckLeaseLoss
<1>5. CASE AttemptRefused(d)
  <2>1. drivers' \in [Drivers -> DriverRecords]
    BY <1>5, <1>a, DriverType DEF AttemptRefused, DriverStates
  <2> QED BY <2>1, <1>5, <1>a, ClaimFrame DEF AttemptRefused
<1>6. CASE SuspendForRetry(d)
  <2>1. CASE /\ claims' = [claims EXCEPT ![r].suspended = TRUE]
             /\ drivers' = [drivers EXCEPT ![d].suspended = TRUE]
    <3>1. drivers' \in [Drivers -> DriverRecords]
      BY <2>1, <1>a DEF DriverRecords
    <3> QED BY <3>1, <2>1, <1>6, <1>a, <1>s, ClaimFrame DEF SuspendForRetry
  <2>2. CASE Move(d, "closing") /\ UNCHANGED claims
    <3>1. drivers' \in [Drivers -> DriverRecords]
      BY <2>2, <1>a, DriverType DEF DriverStates
    <3> QED BY <3>1, <2>2, <1>6, <1>a, ClaimFrame DEF SuspendForRetry
  <2> QED BY <2>1, <2>2, <1>6 DEF SuspendForRetry
<1>7. CASE ResumeSlot(d)
  <2>1. CASE Move(d, "closing") /\ UNCHANGED claims
    <3>1. drivers' \in [Drivers -> DriverRecords]
      BY <2>1, <1>a, DriverType DEF DriverStates
    <3> QED BY <3>1, <2>1, <1>7, <1>a, ClaimFrame DEF ResumeSlot
  <2>2. CASE /\ HasCapacity(Live, WorkflowOf[r])
             /\ claims' = [Live EXCEPT ![r].suspended = FALSE]
             /\ drivers' = [drivers EXCEPT ![d].suspended = FALSE]
    <3>1. drivers' \in [Drivers -> DriverRecords]
      BY <2>2, <1>a DEF DriverRecords
    <3>2. claims' \in [Runs -> Claims]
      BY <2>2, <1>a, <1>b DEF Claims
    <3>3. claims' = [Live EXCEPT ![r] = [Live[r] EXCEPT !.suspended = FALSE]]
      BY <2>2
    <3>4. WithinSlots(claims')
      <4> DEFINE k == [Live[r] EXCEPT !.suspended = FALSE]
      <4>1. WithinSlots([Live EXCEPT ![r] = k])
        <5> HIDE DEF k
        <5> QED BY <2>2, <1>a, <1>b, OneMoreActive
      <4> QED BY <4>1, <3>3
    <3> QED BY <3>1, <3>2, <3>4, <1>7, <1>a, ClaimFrame DEF ResumeSlot
  <2>3. CASE claims' = Live /\ UNCHANGED drivers
    BY <2>3, <1>7, <1>a, <1>b, ClaimFrame DEF ResumeSlot
  <2> QED BY <2>1, <2>2, <2>3, <1>7 DEF ResumeSlot
<1>8. CASE SuspendForWait(d)
  <2>1. /\ claims' \in [Runs -> Claims] /\ WithinSlots(claims')
    BY <1>8, <1>a, <1>s DEF SuspendForWait
  <2>2. drivers' \in [Drivers -> DriverRecords]
    BY <1>8, <1>a, DriverType DEF SuspendForWait, DriverStates
  <2> QED BY <2>1, <2>2, <1>8, <1>a, ClaimFrame DEF SuspendForWait
<1>9. CASE LeaveLoop(d)
  <2>1. drivers' \in [Drivers -> DriverRecords]
    BY <1>9, <1>a, DriverType DEF LeaveLoop, DriverStates
  <2> QED BY <2>1, <1>9, <1>a, ClaimFrame DEF LeaveLoop
<1>10. CASE LeaveEpilogue(d)
  <2>1. drivers' \in [Drivers -> DriverRecords]
    BY <1>10, <1>a, DriverType DEF LeaveEpilogue, DriverStates
  <2> QED BY <2>1, <1>10, <1>a, ClaimFrame DEF LeaveEpilogue
<1>11. CASE ReleaseSlot(d)
  <2> DEFINE x == [claims EXCEPT ![r] = NoClaim]
  <2>1. x \in [Runs -> Claims]
    BY <1>a DEF Claims, NoClaim
  <2>2. \A w \in Workflows : Active(x, w) \subseteq Active(claims, w)
    BY <1>a DEF Active, NoClaim
  <2>3. WithinSlots(x)
    BY <2>2, <1>a, FewerActive
  <2>4. /\ claims' \in [Runs -> Claims] /\ WithinSlots(claims')
    BY <2>1, <2>3, <1>11, <1>a DEF ReleaseSlot
  <2>5. drivers' \in [Drivers -> DriverRecords]
    BY <1>11, <1>a, DriverType DEF ReleaseSlot
  <2> QED BY <2>4, <2>5, <1>11, <1>a, ClaimFrame DEF ReleaseSlot
<1>12. CASE Heartbeat(d)
  <2>1. CASE /\ claims' = [claims EXCEPT ![r].expires = now + ClaimLease]
             /\ UNCHANGED drivers
    <3>1. claims' \in [Runs -> Claims]
      BY <2>1, <1>a DEF Claims
    <3>2. \A w \in Workflows : Active(claims', w) \subseteq Active(claims, w)
      BY <2>1, <1>a DEF Active, Claims
    <3>3. WithinSlots(claims')
      BY <3>2, <1>a, FewerActive
    <3> QED BY <3>1, <3>3, <2>1, <1>12, <1>a, ClaimFrame DEF Heartbeat
  <2>2. CASE /\ drivers' = [drivers EXCEPT ![d].lost = TRUE]
             /\ UNCHANGED claims
    <3>1. drivers' \in [Drivers -> DriverRecords]
      BY <2>2, <1>a DEF DriverRecords
    <3> QED BY <3>1, <2>2, <1>12, <1>a, ClaimFrame DEF Heartbeat
  <2> QED BY <2>1, <2>2, <1>12 DEF Heartbeat
<1>13. CASE HeartbeatFails(d)
  <2>1. drivers' \in [Drivers -> DriverRecords]
    BY <1>13, <1>a DEF HeartbeatFails, DriverRecords
  <2> QED BY <2>1, <1>13, <1>a, ClaimFrame DEF HeartbeatFails
<1>14. CASE Crash(d)
  BY <1>14, <1>a, DriverType, ClaimFrame DEF Crash
<1> QED BY <1>1, <1>2, <1>3, <1>4, <1>5, <1>6, <1>7, <1>8, <1>9, <1>10,
           <1>11, <1>12, <1>13, <1>14

(* The first claim also starts the run. *)
LEMMA ClaimStep ==
  ASSUME IInv, NEW d \in Drivers, ClaimSlot(d)
  PROVE  IInv'
<1> DEFINE r == drivers[d].run
           k == [owner |-> d, suspended |-> FALSE, expires |-> now + ClaimLease]
<1>a. /\ TypeOK /\ r \in Runs /\ claims \in [Runs -> Claims]
      /\ drivers \in [Drivers -> DriverRecords] /\ now \in Nat
      /\ WithinSlots(claims) /\ MaxTime \in Nat /\ ClaimLease \in Nat
  BY DriverType, PolicyAssumption DEF IInv, TypeOK
<1>b. /\ Live \in [Runs -> Claims] /\ WithinSlots(Live)
  BY <1>a, LiveType, LiveWithinSlots DEF Live
<1>1. k \in Claims
  BY <1>a DEF Claims
<1>2. claims' = [Live EXCEPT ![r] = k]
  BY DEF ClaimSlot
<1>3. claims' \in [Runs -> Claims]
  BY <1>1, <1>2, <1>b, <1>a
<1>4. WithinSlots(claims')
  <2>1. HasCapacity(Live, WorkflowOf[r])
    BY DEF ClaimSlot
  <2>2. WithinSlots([Live EXCEPT ![r] = k])
    <3> HIDE DEF k
    <3> QED BY <2>1, <1>a, <1>b, OneMoreActive
  <2> QED BY <2>2, <1>2
<1>5. runs' \in [Runs -> RunProjections]
  <2>1. RunExecutionStarted(runs[r]) \in RunProjections
    BY <1>a, FoldTypes DEF TypeOK
  <2> QED BY <2>1, <1>a DEF ClaimSlot, TypeOK
<1>6. startedAt' \in [Runs -> Nat \cup {NoInstant}]
  BY <1>a DEF ClaimSlot, TypeOK
<1>7. drivers' \in [Drivers -> DriverRecords]
  <2> DEFINE pc == IF Status(r) = "Finalizing" THEN "closing" ELSE "driving"
             D  == [drivers[d] EXCEPT !.pc = pc, !.held = TRUE]
  <2>1. pc \in DriverStates
    BY DEF DriverStates
  <2>2. drivers' = [drivers EXCEPT ![d] = D]
    BY <1>a DEF ClaimSlot
  <2>3. D \in DriverRecords
    <3> HIDE DEF pc
    <3> QED BY <2>1, <1>a DEF DriverRecords
  <2> QED BY <2>2, <2>3, <1>a
<1>8. UNCHANGED <<admittedAt, waits, steps, hooks, now>>
  BY DEF ClaimSlot
<1> QED
  BY <1>3, <1>4, <1>5, <1>6, <1>7, <1>8
     DEF IInv, TypeOK, AttemptsLeft, WithinSlots, Active

(* Recovery closes attempts and hooks and fails the run. *)
LEMMA RecoverTypes ==
  ASSUME IInv, NEW r \in Runs, RecoverRun(r)
  PROVE  /\ runs' \in [Runs -> RunProjections]
         /\ steps' \in [Runs -> [status : StepStatuses,
                                 attempts : 0..MaxAttempts,
                                 by : Drivers \cup {NoDriver}]]
         /\ hooks' \in [Runs -> [status : HookStatuses,
                                 by : Drivers \cup {NoDriver}]]
         /\ AttemptsLeft'
         /\ UNCHANGED <<admittedAt, startedAt, waits>>
<1>a. TypeOK /\ AttemptsLeft
  BY DEF IInv
<1>1. CASE /\ hooks' = [hooks EXCEPT ![r].status = "completed"]
           /\ UNCHANGED <<runs, steps>>
  <2>1. hooks' \in [Runs -> [status : HookStatuses, by : Drivers \cup {NoDriver}]]
    BY <1>1, <1>a DEF TypeOK, HookStatuses
  <2> QED BY <2>1, <1>1, <1>a DEF TypeOK, AttemptsLeft, RecoverRun
<1>2. CASE /\ steps' = [steps EXCEPT ![r].status = "interrupted"]
           /\ SetRun(r, Decided(r, "Failed"))
           /\ hooks' = HookRequested(r)
  <2>1. Decided(r, "Failed") \in RunProjections
    BY <1>a, DecidedType DEF BusinessOutcomes
  <2>2. runs' \in [Runs -> RunProjections]
    BY <2>1, <1>2, <1>a DEF SetRun, TypeOK
  <2>3. "interrupted" \in StepStatuses
    BY DEF StepStatuses
  <2>4. /\ steps' \in [Runs -> [status : StepStatuses,
                                attempts : 0..MaxAttempts,
                                by : Drivers \cup {NoDriver}]]
        /\ AttemptsLeft'
    BY <1>2, <2>3, StepFrame
  <2> QED BY <2>2, <2>4, <1>2, <1>a, HookType DEF RecoverRun
<1>3. CASE UNCHANGED <<runs, steps, hooks>>
  BY <1>3, <1>a DEF TypeOK, AttemptsLeft, RecoverRun
<1> QED BY <1>1, <1>2, <1>3 DEF RecoverRun

(* Steps of a driver that append to the history of its run. *)
LEMMA HistorySteps ==
  ASSUME IInv, NEW d \in Drivers,
         \/ RecoverAfterLeaseLoss(d) \/ StartAttempt(d) \/ AttemptSucceeds(d)
         \/ AttemptFails(d) \/ AttemptCancelled(d) \/ RegisterWait(d)
         \/ SettleCancelling(d) \/ StartHook(d) \/ FinishHook(d)
         \/ FinalizeRun(d)
  PROVE  IInv'
<1> DEFINE r == drivers[d].run
           StepTable == [Runs -> [status : StepStatuses,
                                  attempts : 0..MaxAttempts,
                                  by : Drivers \cup {NoDriver}]]
           HookTable == [Runs -> [status : HookStatuses,
                                  by : Drivers \cup {NoDriver}]]
<1>a. /\ TypeOK /\ AttemptsLeft /\ r \in Runs
      /\ runs \in [Runs -> RunProjections]
      /\ steps \in StepTable /\ hooks \in HookTable
      /\ waits \in [Runs -> {"none", "registered", "resolved"}]
      /\ admittedAt \in [Runs -> Nat]
      /\ startedAt \in [Runs -> Nat \cup {NoInstant}]
  BY DriverType DEF IInv, TypeOK
<1>m. \A pc \in DriverStates :
        Move(d, pc) => drivers' \in [Drivers -> DriverRecords]
  BY <1>a, DriverType
<1>o. /\ \A o \in BusinessOutcomes :
           /\ Decided(r, o) \in RunProjections
           /\ RunOutcomeDecided(runs[r], o) \in RunProjections
      /\ HookRequested(r) \in HookTable
  BY <1>a, DecidedType, HookType, FoldTypes
<1>1. CASE RecoverAfterLeaseLoss(d)
  <2>1. RecoverRun(r) /\ Move(d, "driving") /\ UNCHANGED <<claims, now>>
    BY <1>1 DEF RecoverAfterLeaseLoss
  <2>2. drivers' \in [Drivers -> DriverRecords]
    BY <2>1, <1>m DEF DriverStates
  <2> QED BY <2>1, <2>2, <1>a, RecoverTypes, HistoryFrame
<1>2. CASE StartAttempt(d)
  <2> DEFINE x == [status |-> "started", attempts |-> steps[r].attempts + 1,
                   by |-> d]
  <2>1. steps' = [steps EXCEPT ![r] = x]
    BY <1>2, <1>a DEF StartAttempt
  <2>2. steps[r].attempts \in Nat /\ steps[r].attempts < MaxAttempts
    BY <1>2, <1>a, PolicyAssumption DEF StartAttempt, AttemptsLeft
  <2>3. x \in [status : StepStatuses, attempts : 0..MaxAttempts,
               by : Drivers \cup {NoDriver}]
    BY <2>2, PolicyAssumption DEF StepStatuses
  <2>4. steps' \in StepTable
    BY <2>1, <2>3, <1>a
  <2>5. AttemptsLeft'
    BY <2>1, <1>a DEF AttemptsLeft
  <2>6. drivers' \in [Drivers -> DriverRecords]
    BY <1>2, <1>m DEF StartAttempt, DriverStates
  <2> QED BY <2>4, <2>5, <2>6, <1>2, <1>a, HistoryFrame DEF StartAttempt
<1>3. CASE AttemptSucceeds(d)
  <2>1. steps' \in StepTable /\ AttemptsLeft'
    BY <1>3, <1>a, StepFrame DEF AttemptSucceeds, StepStatuses
  <2>2. runs' \in [Runs -> RunProjections] /\ hooks' \in HookTable
    BY <1>3, <1>a, <1>o DEF AttemptSucceeds, SetRun, BusinessOutcomes
  <2>3. drivers' \in [Drivers -> DriverRecords]
    BY <1>3, <1>m DEF AttemptSucceeds, DriverStates
  <2> QED BY <2>1, <2>2, <2>3, <1>3, <1>a, HistoryFrame DEF AttemptSucceeds
<1>4. CASE AttemptFails(d)
  <2>1. CASE /\ steps[r].attempts < MaxAttempts
             /\ steps' = [steps EXCEPT ![r].status = "backoff"]
             /\ Move(d, "driving") /\ UNCHANGED <<runs, hooks>>
    <3>1. steps' \in StepTable
      BY <2>1, <1>a DEF StepStatuses
    <3>2. AttemptsLeft'
      BY <2>1, <1>a DEF AttemptsLeft
    <3>3. drivers' \in [Drivers -> DriverRecords]
      BY <2>1, <1>m DEF DriverStates
    <3> QED BY <3>1, <3>2, <3>3, <2>1, <1>4, <1>a, HistoryFrame DEF AttemptFails
  <2>2. CASE /\ steps' = [steps EXCEPT ![r].status = "failed"]
             /\ SetRun(r, Decided(r, "Failed"))
             /\ hooks' = HookRequested(r) /\ Move(d, "closing")
    <3>1. steps' \in StepTable /\ AttemptsLeft'
      BY <2>2, <1>a, StepFrame DEF StepStatuses
    <3>2. runs' \in [Runs -> RunProjections] /\ hooks' \in HookTable
      BY <2>2, <1>a, <1>o DEF SetRun, BusinessOutcomes
    <3>3. drivers' \in [Drivers -> DriverRecords]
      BY <2>2, <1>m DEF DriverStates
    <3> QED BY <3>1, <3>2, <3>3, <1>4, <1>a, HistoryFrame DEF AttemptFails
  <2> QED BY <2>1, <2>2, <1>4 DEF AttemptFails
<1>5. CASE AttemptCancelled(d)
  <2>1. steps' \in StepTable /\ AttemptsLeft'
    BY <1>5, <1>a, StepFrame DEF AttemptCancelled, StepStatuses
  <2>2. drivers' \in [Drivers -> DriverRecords]
    BY <1>5, <1>m DEF AttemptCancelled, DriverStates
  <2> QED BY <2>1, <2>2, <1>5, <1>a, HistoryFrame DEF AttemptCancelled
<1>6. CASE RegisterWait(d)
  <2>1. [runs[r] EXCEPT !.status = "Waiting"] \in RunProjections
    BY <1>a, FoldTypes DEF RunStatuses
  <2>2. runs' \in [Runs -> RunProjections]
    BY <2>1, <1>6, <1>a DEF RegisterWait, SetRun
  <2>3. waits' \in [Runs -> {"none", "registered", "resolved"}]
    BY <1>6, <1>a DEF RegisterWait
  <2>4. drivers' \in [Drivers -> DriverRecords]
    BY <1>6, <1>m DEF RegisterWait, DriverStates
  <2>5. AttemptsLeft'
    BY <1>6, <1>a DEF RegisterWait, AttemptsLeft
  <2> QED BY <2>2, <2>3, <2>4, <2>5, <1>6, <1>a, HistoryFrame DEF RegisterWait
<1>7. CASE SettleCancelling(d)
  <2>1. steps' \in StepTable /\ AttemptsLeft'
    <3>1. CASE steps' = [steps EXCEPT ![r].status = "cancelled"]
      BY <3>1, <1>a, StepFrame DEF StepStatuses
    <3>2. CASE steps' = steps
      BY <3>2, <1>a DEF AttemptsLeft
    <3> QED BY <3>1, <3>2, <1>7 DEF SettleCancelling
  <2>2. runs' \in [Runs -> RunProjections] /\ hooks' \in HookTable
    BY <1>7, <1>a, <1>o DEF SettleCancelling, SetRun, BusinessOutcomes
  <2>3. drivers' \in [Drivers -> DriverRecords]
    BY <1>7, <1>m DEF SettleCancelling, DriverStates
  <2> QED BY <2>1, <2>2, <2>3, <1>7, <1>a, HistoryFrame DEF SettleCancelling
<1>8. CASE StartHook(d)
  <2>1. hooks' \in HookTable
    BY <1>8, <1>a DEF StartHook, HookStatuses
  <2>2. drivers' \in [Drivers -> DriverRecords]
    BY <1>8, <1>m DEF StartHook, DriverStates
  <2>3. AttemptsLeft'
    BY <1>8, <1>a DEF StartHook, AttemptsLeft
  <2> QED BY <2>1, <2>2, <2>3, <1>8, <1>a, HistoryFrame DEF StartHook
<1>9. CASE FinishHook(d)
  <2>1. hooks' \in HookTable
    <3>1. CASE hooks' = [hooks EXCEPT ![r].status = "completed"]
      BY <3>1, <1>a DEF HookStatuses
    <3>2. CASE hooks' = hooks
      BY <3>2, <1>a
    <3> QED BY <3>1, <3>2, <1>9 DEF FinishHook
  <2>2. drivers' \in [Drivers -> DriverRecords]
    BY <1>9, <1>m DEF FinishHook, DriverStates
  <2>3. AttemptsLeft'
    BY <1>9, <1>a DEF FinishHook, AttemptsLeft
  <2> QED BY <2>1, <2>2, <2>3, <1>9, <1>a, HistoryFrame DEF FinishHook
<1>10. CASE FinalizeRun(d)
  <2>1. RunFinalized(runs[r]) \in RunProjections
    BY <1>10, <1>a, FoldTypes DEF FinalizeRun, CanRunFinalized
  <2>2. runs' \in [Runs -> RunProjections]
    BY <2>1, <1>10, <1>a DEF FinalizeRun, SetRun
  <2>3. drivers' \in [Drivers -> DriverRecords]
    BY <1>10, <1>m DEF FinalizeRun, DriverStates
  <2>4. AttemptsLeft'
    BY <1>10, <1>a DEF FinalizeRun, AttemptsLeft
  <2> QED BY <2>2, <2>3, <2>4, <1>10, <1>a, HistoryFrame DEF FinalizeRun
<1> QED BY <1>1, <1>2, <1>3, <1>4, <1>5, <1>6, <1>7, <1>8, <1>9, <1>10

(* Steps of the environment of a run: admission, dispatch, waits, retries, *)
(* cancellation and general recovery.                                      *)
LEMMA RunSteps ==
  ASSUME IInv, NEW r \in Runs,
         RunStep(r) \/ \E d \in Drivers : DispatchRun(d, r)
  PROVE  IInv'
<1> DEFINE StepTable == [Runs -> [status : StepStatuses,
                                  attempts : 0..MaxAttempts,
                                  by : Drivers \cup {NoDriver}]]
<1>a. /\ TypeOK /\ AttemptsLeft
      /\ runs \in [Runs -> RunProjections] /\ runs[r] \in RunProjections
      /\ steps \in StepTable
      /\ hooks \in [Runs -> [status : HookStatuses,
                             by : Drivers \cup {NoDriver}]]
      /\ waits \in [Runs -> {"none", "registered", "resolved"}]
      /\ admittedAt \in [Runs -> Nat]
      /\ startedAt \in [Runs -> Nat \cup {NoInstant}]
      /\ claims \in [Runs -> Claims] /\ WithinSlots(claims)
      /\ drivers \in [Drivers -> DriverRecords] /\ now \in Nat
      /\ now \in 0..MaxTime
  BY PolicyAssumption DEF IInv, TypeOK
<1>1. CASE AdmitRun(r)
  <2>1. runs' \in [Runs -> RunProjections]
    BY <1>1, <1>a, FoldTypes DEF AdmitRun, SetRun
  <2>2. admittedAt' \in [Runs -> Nat]
    BY <1>1, <1>a DEF AdmitRun
  <2>3. AttemptsLeft'
    BY <1>1, <1>a DEF AdmitRun, AttemptsLeft
  <2> QED BY <2>1, <2>2, <2>3, <1>1, <1>a, HistoryFrame DEF AdmitRun
<1>2. CASE ResolveWait(r)
  <2>1. runs' \in [Runs -> RunProjections]
    BY <1>2, <1>a, FoldTypes DEF ResolveWait, SetRun, RunStatuses
  <2>2. waits' \in [Runs -> {"none", "registered", "resolved"}]
    BY <1>2, <1>a DEF ResolveWait
  <2>3. AttemptsLeft'
    BY <1>2, <1>a DEF ResolveWait, AttemptsLeft
  <2> QED BY <2>1, <2>2, <2>3, <1>2, <1>a, HistoryFrame DEF ResolveWait
<1>3. CASE RetryDue(r)
  <2>1. steps' \in StepTable
    BY <1>3, <1>a DEF RetryDue, StepStatuses
  <2>2. AttemptsLeft'
    BY <1>3, <1>a DEF RetryDue, AttemptsLeft
  <2> QED BY <2>1, <2>2, <1>3, <1>a, HistoryFrame DEF RetryDue
<1>4. CASE RequestCancellation(r)
  <2>1. runs' \in [Runs -> RunProjections]
    BY <1>4, <1>a, FoldTypes DEF RequestCancellation, SetRun
  <2>2. AttemptsLeft'
    BY <1>4, <1>a DEF RequestCancellation, AttemptsLeft
  <2> QED BY <2>1, <2>2, <1>4, <1>a, HistoryFrame DEF RequestCancellation
<1>5. CASE RecoverInterruptedRun(r)
  BY <1>5, <1>a, RecoverTypes, HistoryFrame DEF RecoverInterruptedRun
<1>6. CASE \E d \in Drivers : DispatchRun(d, r)
  <2>1. PICK d \in Drivers : DispatchRun(d, r)
    BY <1>6
  <2>2. drivers' \in [Drivers -> DriverRecords]
    <3> DEFINE D == [drivers[d] EXCEPT !.pc = "acquiring", !.run = r]
    <3>1. drivers' = [drivers EXCEPT ![d] = D]
      BY <2>1, <1>a DEF DispatchRun
    <3>2. D \in DriverRecords
      BY <1>a DEF DriverRecords, DriverStates
    <3> QED BY <3>1, <3>2, <1>a
  <2> QED BY <2>1, <2>2, <1>a, ClaimFrame DEF DispatchRun
<1> QED BY <1>1, <1>2, <1>3, <1>4, <1>5, <1>6 DEF RunStep

(* Opening the store and the passing of time, in either direction. *)
LEMMA ClockSteps ==
  ASSUME IInv, OpenStore \/ Tick \/ ClockStepsBack
  PROVE  IInv'
<1>a. /\ claims \in [Runs -> Claims] /\ WithinSlots(claims)
      /\ drivers \in [Drivers -> DriverRecords] /\ now \in 0..MaxTime
      /\ MaxTime \in Nat
  BY PolicyAssumption DEF IInv, TypeOK
<1>1. CASE OpenStore
  <2>1. claims' \in [Runs -> Claims] /\ WithinSlots(claims')
    BY <1>1, <1>a, LiveType, LiveWithinSlots DEF OpenStore, Live
  <2> QED BY <2>1, <1>1, <1>a, ClaimFrame DEF OpenStore
<1>2. CASE Tick
  <2>1. now' \in 0..MaxTime
    BY <1>2, <1>a DEF Tick
  <2> QED BY <2>1, <1>2, <1>a, ClaimFrame DEF Tick
<1>3. CASE ClockStepsBack
  <2>1. now' \in 0..MaxTime
    BY <1>3, <1>a DEF ClockStepsBack
  <2> QED BY <2>1, <1>3, <1>a, ClaimFrame DEF ClockStepsBack
<1> QED BY <1>1, <1>2, <1>3

-----------------------------------------------------------------------------
(* The theorems. *)

(* The invariant holds initially: no claim is held and nothing was         *)
(* attempted.                                                              *)
LEMMA InitInvariant ==
  ASSUME Init
  PROVE  IInv
<1>0. MaxTime \in Nat /\ MaxAttempts \in Nat
  BY PolicyAssumption
<1>1. EmptyProjection \in RunProjections
  BY DEF EmptyProjection, RunProjections, RunStatuses
<1>2. claims \in [Runs -> Claims]
  BY DEF Init, Claims, NoClaim
<1>3. drivers \in [Drivers -> DriverRecords]
  BY DEF Init, DriverRecords, DriverStates
<1>4. TypeOK
  <2>1. steps \in [Runs -> [status : StepStatuses, attempts : 0..MaxAttempts,
                            by : Drivers \cup {NoDriver}]]
    BY <1>0 DEF Init, StepStatuses
  <2>2. hooks \in [Runs -> [status : HookStatuses,
                            by : Drivers \cup {NoDriver}]]
    BY DEF Init, HookStatuses
  <2>3. /\ runs \in [Runs -> RunProjections]
        /\ admittedAt \in [Runs -> Nat]
        /\ startedAt \in [Runs -> Nat \cup {NoInstant}]
        /\ waits \in [Runs -> {"none", "registered", "resolved"}]
    BY <1>1 DEF Init
  <2>4. now \in 0..MaxTime
    BY <1>0 DEF Init
  <2> QED BY <2>1, <2>2, <2>3, <2>4, <1>2, <1>3 DEF TypeOK
<1>5. AttemptsLeft
  BY DEF Init, AttemptsLeft
<1>6. WithinSlots(claims)
  <2>1. \A w \in Workflows : Active(claims, w) = {}
    BY DEF Init, Active, NoClaim
  <2>2. Cardinality({}) = 0
    BY FS_EmptySet
  <2> QED BY <2>1, <2>2, PolicyAssumption DEF WithinSlots
<1> QED BY <1>4, <1>5, <1>6 DEF IInv

(* Every step of any driver, run or clock preserves the invariant. *)
LEMMA NextInvariant ==
  ASSUME IInv, [Next]_vars
  PROVE  IInv'
<1>1. CASE UNCHANGED vars
  BY <1>1 DEF vars, histories, IInv, TypeOK, AttemptsLeft, WithinSlots, Active
<1>2. CASE Next
  <2>1. ASSUME NEW r \in Runs,
               RunStep(r) \/ \E d \in Drivers : DispatchRun(d, r)
        PROVE  IInv'
    BY <2>1, RunSteps
  <2>2. ASSUME NEW d \in Drivers,
               DriverStep(d) \/ Heartbeat(d) \/ HeartbeatFails(d) \/ Crash(d)
        PROVE  IInv'
    BY <2>2, ClaimStep, ClaimSteps, HistorySteps DEF DriverStep
  <2>3. CASE OpenStore \/ Tick \/ ClockStepsBack
    BY <2>3, ClockSteps
  <2> QED BY <2>1, <2>2, <2>3, <1>2 DEF Next
<1> QED BY <1>1, <1>2

(* The invariant holds in every reachable state of the scheduler. *)
THEOREM SchedulerInvariance == Spec => []IInv
<1>1. Init => IInv
  BY InitInvariant
<1>2. IInv /\ [Next]_vars => IInv'
  BY NextInvariant
<1> QED BY <1>1, <1>2, PTL DEF Spec

(* Every row, projection and driver keeps its type, and no step is         *)
(* attempted more often than its retry policy allows.                      *)
THEOREM SchedulerTypes == Spec => []TypeOK
<1>1. IInv => TypeOK
  BY DEF IInv
<1> QED BY <1>1, SchedulerInvariance, PTL

(* However many drivers of however many processes compete, stall, die or   *)
(* recover, the unsuspended claims of a workflow (try_claim_policy_run_at, *)
(* resume_policy_claim) never exceed its concurrency limit.                *)
THEOREM SlotSafety == Spec => []SlotsWithinConcurrency
<1>1. IInv => SlotsWithinConcurrency
  BY DEF IInv, WithinSlots, SlotsWithinConcurrency
<1> QED BY <1>1, SchedulerInvariance, PTL

-----------------------------------------------------------------------------
(* What PolicyScheduler starts: no two drivers are ever inside the same    *)
(* script, a durable cancellation stops every later start, runs of one     *)
(* workflow first start in the order of their admission and never more     *)
(* often than the rate limit allows, although the wall clock may step back *)
(* and leases expire under living drivers.                                 *)

(* A run whose business outcome is decided. *)
DecidedStatuses == {"Finalizing"} \cup TerminalStatuses

(* The statuses of an attempt that was entered and that no driver may      *)
(* enter again: only a failure with attempts left schedules another one.   *)
EnteredStatuses == {"started", "succeeded", "failed", "interrupted", "cancelled"}

(* A durable cancellation has moved its run out of every status from which *)
(* the run could start or attempt its step.                                *)
CancelledRunsLeave ==
  \A r \in Runs : runs[r].cancelRequested
    => Status(r) \in DecidedStatuses \cup {"Cancelling"}

(* A lifecycle hook is requested only by the event that decides its run. *)
HooksFollowOutcome ==
  \A r \in Runs : hooks[r].status # "none" => Status(r) \in DecidedStatuses

(* A driver inside the step's script entered the latest attempt of its     *)
(* run, and whoever closed that attempt meanwhile closed it for good.      *)
WorkersEntered ==
  \A d \in Drivers : drivers[d].pc = "working"
    => /\ steps[drivers[d].run].by = d
       /\ steps[drivers[d].run].status \in EnteredStatuses

(* The same for a driver inside the hook's script. *)
HookersEntered ==
  \A d \in Drivers : drivers[d].pc = "hooking"
    => /\ hooks[drivers[d].run].by = d
       /\ hooks[drivers[d].run].status \in {"started", "completed"}

Scripts ==
  /\ CancelledRunsLeave
  /\ HooksFollowOutcome
  /\ WorkersEntered
  /\ HookersEntered

(* No driver enters a script or changes its run inside one. *)
NobodyEnters ==
  \A d \in Drivers : drivers'[d].pc \in {"working", "hooking"}
    => drivers'[d].pc = drivers[d].pc /\ drivers'[d].run = drivers[d].run

-----------------------------------------------------------------------------
(* Steps of the drivers that enter no script. *)

(* Moving outside the scripts, retiring and updating the lease. *)
LEMMA QuietDriver ==
  ASSUME TypeOK, NEW d \in Drivers
  PROVE  /\ \A pc \in DriverStates \ {"working", "hooking"} :
              Move(d, pc) => NobodyEnters
         /\ Retire(d) => NobodyEnters
         /\ UNCHANGED drivers => NobodyEnters
         /\ drivers' = [drivers EXCEPT ![d].lost = TRUE] => NobodyEnters
         /\ \A b \in BOOLEAN :
              drivers' = [drivers EXCEPT ![d].suspended = b] => NobodyEnters
<1> drivers \in [Drivers -> DriverRecords]
  BY DEF TypeOK
<1> USE DEF NobodyEnters, DriverRecords
<1>1. \A pc \in DriverStates \ {"working", "hooking"} :
        Move(d, pc) => NobodyEnters
  BY DEF Move
<1>2. Retire(d) => NobodyEnters
  BY DEF Retire, Retired
<1>3. UNCHANGED drivers => NobodyEnters
  OBVIOUS
<1>4. drivers' = [drivers EXCEPT ![d].lost = TRUE] => NobodyEnters
  OBVIOUS
<1>5. \A b \in BOOLEAN :
        drivers' = [drivers EXCEPT ![d].suspended = b] => NobodyEnters
  OBVIOUS
<1> QED BY <1>1, <1>2, <1>3, <1>4, <1>5

(* A step that appends to no history and enters no script. *)
LEMMA QuietStep ==
  ASSUME Scripts, TypeOK, TypeOK', UNCHANGED histories, NobodyEnters
  PROVE  Scripts'
BY DEF Scripts, CancelledRunsLeave, HooksFollowOutcome, WorkersEntered,
       HookersEntered, NobodyEnters, Status, histories

(* The steps of a driver that leave the histories alone enter no script. *)
LEMMA ClaimStepsQuiet ==
  ASSUME TypeOK, NEW d \in Drivers,
         \/ RemainQueued(d) \/ AbandonAcquisition(d) \/ RequireRecovery(d)
         \/ CheckLeaseLoss(d) \/ AttemptRefused(d) \/ SuspendForRetry(d)
         \/ ResumeSlot(d) \/ SuspendForWait(d) \/ LeaveLoop(d)
         \/ LeaveEpilogue(d) \/ ReleaseSlot(d) \/ Heartbeat(d)
         \/ HeartbeatFails(d) \/ Crash(d)
  PROVE  UNCHANGED histories /\ NobodyEnters
<1> drivers \in [Drivers -> DriverRecords]
  BY DEF TypeOK
<1>1. CASE RemainQueued(d)
  BY <1>1, QuietDriver DEF RemainQueued
<1>2. CASE AbandonAcquisition(d)
  BY <1>2, QuietDriver DEF AbandonAcquisition
<1>3. CASE RequireRecovery(d)
  BY <1>3 DEF RequireRecovery, NobodyEnters, DriverRecords
<1>4. CASE CheckLeaseLoss(d)
  <2>1. CASE Retire(d)
    BY <2>1, <1>4, QuietDriver DEF CheckLeaseLoss
  <2>2. CASE drivers' = [drivers EXCEPT ![d].pc = "recovering",
                                        ![d].leaseNow = 0]
    BY <2>2, <1>4 DEF CheckLeaseLoss, NobodyEnters, DriverRecords
  <2> QED BY <2>1, <2>2, <1>4 DEF CheckLeaseLoss
<1>5. CASE AttemptRefused(d)
  BY <1>5, QuietDriver DEF AttemptRefused, DriverStates
<1>6. CASE SuspendForRetry(d)
  BY <1>6, QuietDriver DEF SuspendForRetry, DriverStates
<1>7. CASE ResumeSlot(d)
  BY <1>7, QuietDriver DEF ResumeSlot, DriverStates
<1>8. CASE SuspendForWait(d)
  BY <1>8, QuietDriver DEF SuspendForWait, DriverStates
<1>9. CASE LeaveLoop(d)
  BY <1>9, QuietDriver DEF LeaveLoop, DriverStates
<1>10. CASE LeaveEpilogue(d)
  BY <1>10, QuietDriver DEF LeaveEpilogue, DriverStates
<1>11. CASE ReleaseSlot(d)
  BY <1>11, QuietDriver DEF ReleaseSlot
<1>12. CASE Heartbeat(d)
  BY <1>12, QuietDriver DEF Heartbeat
<1>13. CASE HeartbeatFails(d)
  BY <1>13, QuietDriver DEF HeartbeatFails
<1>14. CASE Crash(d)
  BY <1>14, QuietDriver DEF Crash
<1> QED BY <1>1, <1>2, <1>3, <1>4, <1>5, <1>6, <1>7, <1>8, <1>9, <1>10,
           <1>11, <1>12, <1>13, <1>14

-----------------------------------------------------------------------------
(* Steps that append to the history of one run. *)

(* Deciding a run decides it, with or without a hook, and keeps its        *)
(* cancellation request and its start.                                     *)
LEMMA DecidedFields ==
  ASSUME TypeOK, NEW r \in Runs, NEW o \in BusinessOutcomes
  PROVE  /\ Decided(r, o).status \in DecidedStatuses
         /\ Decided(r, o).started = runs[r].started
         /\ RunOutcomeDecided(runs[r], o).status \in DecidedStatuses
         /\ RunOutcomeDecided(runs[r], o).started = runs[r].started
<1>1. runs[r] \in RunProjections
  BY DEF TypeOK
<1> QED BY <1>1 DEF Decided, RunOutcomeDecided, RunFinalized, RunProjections,
                    DecidedStatuses, TerminalStatuses, BusinessOutcomes

(* Only the projection of one run changes: a decided run stays decided and *)
(* a cancelled run does not come back.                                     *)
LEMMA ProjectionStep ==
  ASSUME Scripts, TypeOK, TypeOK', NEW r \in Runs, NEW p,
         runs' = [runs EXCEPT ![r] = p],
         UNCHANGED <<steps, hooks>>, NobodyEnters,
         Status(r) \in DecidedStatuses => p.status \in DecidedStatuses,
         p.cancelRequested => p.status \in DecidedStatuses \cup {"Cancelling"}
  PROVE  Scripts'
<1>1. CancelledRunsLeave'
  BY DEF Scripts, CancelledRunsLeave, TypeOK, Status
<1>2. HooksFollowOutcome'
  BY DEF Scripts, HooksFollowOutcome, TypeOK, Status
<1>3. WorkersEntered' /\ HookersEntered'
  BY DEF Scripts, WorkersEntered, HookersEntered, NobodyEnters, TypeOK
<1> QED BY <1>1, <1>2, <1>3 DEF Scripts

(* No run changes its projection, and no entered attempt or started hook   *)
(* is reopened.                                                            *)
LEMMA ClosingStep ==
  ASSUME Scripts, TypeOK, UNCHANGED runs, NobodyEnters,
         \A q \in Runs :
           /\ steps'[q].by = steps[q].by
           /\ steps[q].status \in EnteredStatuses
                => steps'[q].status \in EnteredStatuses
           /\ hooks'[q].by = hooks[q].by
           /\ hooks'[q].status # "none" => hooks[q].status # "none"
           /\ hooks[q].status \in {"started", "completed"}
                => hooks'[q].status \in {"started", "completed"}
  PROVE  Scripts'
<1> \A d \in Drivers : drivers[d].run \in Runs
  BY DEF TypeOK, DriverRecords
<1>1. CancelledRunsLeave'
  BY DEF Scripts, CancelledRunsLeave, Status
<1>2. HooksFollowOutcome'
  BY DEF Scripts, HooksFollowOutcome, Status
<1>3. WorkersEntered'
  BY DEF Scripts, WorkersEntered, NobodyEnters
<1>4. HookersEntered'
  BY DEF Scripts, HookersEntered, NobodyEnters
<1> QED BY <1>1, <1>2, <1>3, <1>4 DEF Scripts

(* A run is decided: its open attempt may be closed and its hook may be    *)
(* requested.  Nobody is inside its hook yet.                              *)
LEMMA DecidingStep ==
  ASSUME Scripts, TypeOK, TypeOK', NEW r \in Runs, NEW p,
         Status(r) \notin DecidedStatuses,
         runs' = [runs EXCEPT ![r] = p], p.status \in DecidedStatuses,
         NEW st \in EnteredStatuses,
         steps' = steps \/ steps' = [steps EXCEPT ![r].status = st],
         hooks' = HookRequested(r), NobodyEnters
  PROVE  Scripts'
<1> USE DEF Scripts
<1>0. /\ \A q \in Runs : q # r => hooks'[q] = hooks[q] /\ runs'[q] = runs[q]
      /\ runs'[r] = p
      /\ hooks[r].status = "none"
      /\ \A q \in Runs : steps'[q].by = steps[q].by
                         /\ (steps[q].status \in EnteredStatuses
                               => steps'[q].status \in EnteredStatuses)
  BY DEF TypeOK, HookRequested, HooksFollowOutcome
<1>1. CancelledRunsLeave'
  BY <1>0 DEF CancelledRunsLeave, Status
<1>2. HooksFollowOutcome'
  BY <1>0 DEF HooksFollowOutcome, Status
<1>3. \A d \in Drivers : drivers[d].run \in Runs
  BY DEF TypeOK, DriverRecords
<1>4. WorkersEntered'
  BY <1>0, <1>3 DEF WorkersEntered, NobodyEnters
<1>5. HookersEntered'
  <2>1. \A d \in Drivers : drivers[d].pc = "hooking" => drivers[d].run # r
    BY <1>0 DEF HookersEntered
  <2> QED BY <2>1, <1>0, <1>3 DEF HookersEntered, NobodyEnters
<1> QED BY <1>1, <1>2, <1>4, <1>5

(* Recovery closes a started hook, or a started attempt together with its  *)
(* run.                                                                    *)
LEMMA RecoverScripts ==
  ASSUME Scripts, TypeOK, TypeOK', NEW r \in Runs, RecoverRun(r), NobodyEnters
  PROVE  Scripts'
<1>1. CASE /\ hooks[r].status = "started"
           /\ hooks' = [hooks EXCEPT ![r].status = "completed"]
           /\ UNCHANGED <<runs, steps>>
  BY <1>1, ClosingStep DEF TypeOK
<1>2. CASE /\ Status(r) = "Running"
           /\ steps' = [steps EXCEPT ![r].status = "interrupted"]
           /\ SetRun(r, Decided(r, "Failed"))
           /\ hooks' = HookRequested(r)
  <2>1. Decided(r, "Failed").status \in DecidedStatuses
    BY DecidedFields DEF BusinessOutcomes
  <2> QED BY <2>1, <1>2, DecidingStep DEF SetRun, EnteredStatuses,
             DecidedStatuses, TerminalStatuses
<1>3. CASE UNCHANGED <<runs, steps, hooks>>
  BY <1>3, ClosingStep
<1> QED BY <1>1, <1>2, <1>3 DEF RecoverRun

(* The first claim moves its run from queued to running. *)
LEMMA ClaimScripts ==
  ASSUME Scripts, TypeOK, TypeOK', NEW d \in Drivers, ClaimSlot(d)
  PROVE  Scripts'
<1> DEFINE r == drivers[d].run
           pc == IF Status(r) = "Finalizing" THEN "closing" ELSE "driving"
<1>0. r \in Runs /\ runs[r] \in RunProjections
  BY DriverType DEF TypeOK
<1>1. NobodyEnters
  <2>1. drivers' = [drivers EXCEPT ![d].pc = pc, ![d].held = TRUE]
    BY DEF ClaimSlot
  <2>2. pc \notin {"working", "hooking"}
    OBVIOUS
  <2> HIDE DEF pc
  <2> QED BY <2>1, <2>2 DEF NobodyEnters, TypeOK, DriverRecords
<1>2. CASE FirstStart(r)
  <2>1. runs' = [runs EXCEPT ![r] = RunExecutionStarted(runs[r])]
    BY <1>2, <1>0 DEF ClaimSlot
  <2>2. ~runs[r].cancelRequested /\ Status(r) \notin DecidedStatuses
    BY <1>2, <1>0 DEF FirstStart, Scripts, CancelledRunsLeave, DecidedStatuses,
                      TerminalStatuses
  <2>3. ~RunExecutionStarted(runs[r]).cancelRequested
    BY <2>2, <1>0 DEF RunExecutionStarted, RunProjections
  <2> QED BY <2>1, <2>2, <2>3, <1>0, <1>1, ProjectionStep DEF ClaimSlot
<1>3. CASE ~FirstStart(r)
  <2>1. UNCHANGED <<runs, steps, hooks>>
    BY <1>3 DEF ClaimSlot
  <2> QED BY <2>1, <1>1, ClosingStep
<1> QED BY <1>2, <1>3

(* Steps of a driver that append to the history of its run. *)
LEMMA HistoryScripts ==
  ASSUME Scripts, TypeOK, TypeOK', NEW d \in Drivers,
         \/ RecoverAfterLeaseLoss(d) \/ StartAttempt(d) \/ AttemptSucceeds(d)
         \/ AttemptFails(d) \/ AttemptCancelled(d) \/ RegisterWait(d)
         \/ SettleCancelling(d) \/ StartHook(d) \/ FinishHook(d)
         \/ FinalizeRun(d)
  PROVE  Scripts'
<1> DEFINE r == drivers[d].run
<1>0. /\ r \in Runs /\ runs[r] \in RunProjections
      /\ drivers \in [Drivers -> DriverRecords]
      /\ \A e \in Drivers : drivers[e].run \in Runs
  BY DriverType DEF TypeOK, DriverRecords
<1>q. \A pc \in DriverStates \ {"working", "hooking"} :
        Move(d, pc) => NobodyEnters
  BY QuietDriver
<1>o. \A o \in BusinessOutcomes :
        /\ Decided(r, o).status \in DecidedStatuses
        /\ RunOutcomeDecided(runs[r], o).status \in DecidedStatuses
  BY <1>0, DecidedFields
<1>1. CASE RecoverAfterLeaseLoss(d)
  <2>1. NobodyEnters
    BY <1>1, <1>q DEF RecoverAfterLeaseLoss, DriverStates
  <2> QED BY <2>1, <1>1, <1>0, RecoverScripts DEF RecoverAfterLeaseLoss
<1>2. CASE StartAttempt(d)
  <2>1. \A e \in Drivers : drivers[e].pc = "working" => drivers[e].run # r
    BY <1>2 DEF StartAttempt, Scripts, WorkersEntered, EnteredStatuses
  <2>2. /\ UNCHANGED <<runs, hooks>>
        /\ \A q \in Runs : q # r => steps'[q] = steps[q]
        /\ steps'[r].by = d /\ steps'[r].status = "started"
    BY <1>2, <1>0 DEF StartAttempt, TypeOK
  <2>3. /\ \A e \in Drivers : e # d => drivers'[e] = drivers[e]
        /\ drivers'[d].pc = "working" /\ drivers'[d].run = r
    BY <1>2, <1>0 DEF StartAttempt, Move, DriverRecords
  <2>4. WorkersEntered'
    BY <2>1, <2>2, <2>3, <1>0 DEF Scripts, WorkersEntered, EnteredStatuses
  <2>5. HookersEntered'
    BY <2>2, <2>3, <1>0 DEF Scripts, HookersEntered
  <2>6. CancelledRunsLeave' /\ HooksFollowOutcome'
    BY <2>2 DEF Scripts, CancelledRunsLeave, HooksFollowOutcome, Status
  <2> QED BY <2>4, <2>5, <2>6 DEF Scripts
<1>3. CASE AttemptSucceeds(d)
  <2>1. NobodyEnters
    BY <1>3, <1>q DEF AttemptSucceeds, DriverStates
  <2>2. Decided(r, "Succeeded").status \in DecidedStatuses
    BY <1>o DEF BusinessOutcomes
  <2> QED BY <2>1, <2>2, <1>3, <1>0, DecidingStep DEF AttemptSucceeds, SetRun,
             EnteredStatuses, DecidedStatuses, TerminalStatuses
<1>4. CASE AttemptFails(d)
  <2>1. CASE steps[r].attempts < MaxAttempts
    <3>1. /\ UNCHANGED <<runs, hooks>> /\ Move(d, "driving")
          /\ steps' = [steps EXCEPT ![r].status = "backoff"]
          /\ steps[r].by = d
      BY <2>1, <1>4 DEF AttemptFails, WorksOn
    <3>2. /\ \A e \in Drivers : e # d => drivers'[e] = drivers[e]
          /\ drivers'[d].pc = "driving"
      BY <3>1, <1>0 DEF Move, DriverRecords
    <3>3. \A e \in Drivers : e # d /\ drivers[e].pc = "working"
            => drivers[e].run # r
      BY <3>1 DEF Scripts, WorkersEntered
    <3>4. WorkersEntered'
      BY <3>1, <3>2, <3>3, <1>0 DEF Scripts, WorkersEntered, TypeOK
    <3>5. HookersEntered'
      BY <3>1, <3>2, <1>0 DEF Scripts, HookersEntered
    <3>6. CancelledRunsLeave' /\ HooksFollowOutcome'
      BY <3>1 DEF Scripts, CancelledRunsLeave, HooksFollowOutcome, Status
    <3> QED BY <3>4, <3>5, <3>6 DEF Scripts
  <2>2. CASE ~(steps[r].attempts < MaxAttempts)
    <3>1. NobodyEnters
      BY <2>2, <1>4, <1>q DEF AttemptFails, DriverStates
    <3>2. Decided(r, "Failed").status \in DecidedStatuses
      BY <1>o DEF BusinessOutcomes
    <3> QED BY <3>1, <3>2, <2>2, <1>4, <1>0, DecidingStep DEF AttemptFails,
               SetRun, EnteredStatuses, DecidedStatuses, TerminalStatuses
  <2> QED BY <2>1, <2>2
<1>5. CASE AttemptCancelled(d)
  <2>1. NobodyEnters
    BY <1>5, <1>q DEF AttemptCancelled, DriverStates
  <2>2. /\ UNCHANGED <<runs, hooks>>
        /\ steps' = [steps EXCEPT ![r].status = "cancelled"]
    BY <1>5 DEF AttemptCancelled
  <2> QED BY <2>1, <2>2, <1>0, ClosingStep DEF TypeOK, EnteredStatuses
<1>6. CASE RegisterWait(d)
  <2>1. NobodyEnters
    BY <1>6, <1>q DEF RegisterWait, DriverStates
  <2> DEFINE p == [runs[r] EXCEPT !.status = "Waiting"]
  <2>2. Status(r) \notin DecidedStatuses /\ ~p.cancelRequested
    BY <1>6, <1>0 DEF RegisterWait, Scripts, CancelledRunsLeave,
       DecidedStatuses, TerminalStatuses, RunProjections
  <2>3. runs' = [runs EXCEPT ![r] = p] /\ UNCHANGED <<steps, hooks>>
    BY <1>6 DEF RegisterWait, SetRun
  <2> HIDE DEF p
  <2> QED BY <2>1, <2>2, <2>3, <1>0, ProjectionStep
<1>7. CASE SettleCancelling(d)
  <2>1. NobodyEnters
    BY <1>7, <1>q DEF SettleCancelling, DriverStates
  <2>2. RunOutcomeDecided(runs[r], "Cancelled").status \in DecidedStatuses
    BY <1>o DEF BusinessOutcomes
  <2>3. Status(r) \notin DecidedStatuses
    BY <1>7 DEF SettleCancelling, DecidedStatuses, TerminalStatuses
  <2>4. /\ runs' = [runs EXCEPT ![r] = RunOutcomeDecided(runs[r], "Cancelled")]
        /\ steps' = steps \/ steps' = [steps EXCEPT ![r].status = "cancelled"]
        /\ hooks' = HookRequested(r)
    BY <1>7 DEF SettleCancelling, SetRun
  <2>5. "cancelled" \in EnteredStatuses
    BY DEF EnteredStatuses
  <2> QED BY <2>1, <2>2, <2>3, <2>4, <2>5, <1>0, DecidingStep
<1>8. CASE StartHook(d)
  <2>1. \A e \in Drivers : drivers[e].pc = "hooking" => drivers[e].run # r
    BY <1>8 DEF StartHook, Scripts, HookersEntered
  <2>2. /\ UNCHANGED <<runs, steps>>
        /\ \A q \in Runs : q # r => hooks'[q] = hooks[q]
        /\ hooks'[r].by = d /\ hooks'[r].status = "started"
        /\ Status(r) = "Finalizing"
    BY <1>8, <1>0 DEF StartHook, TypeOK
  <2>3. /\ \A e \in Drivers : e # d => drivers'[e] = drivers[e]
        /\ drivers'[d].pc = "hooking" /\ drivers'[d].run = r
    BY <1>8, <1>0 DEF StartHook, Move, DriverRecords
  <2>4. HookersEntered'
    BY <2>1, <2>2, <2>3, <1>0 DEF Scripts, HookersEntered
  <2>5. WorkersEntered'
    BY <2>2, <2>3, <1>0 DEF Scripts, WorkersEntered
  <2>6. CancelledRunsLeave' /\ HooksFollowOutcome'
    BY <2>2 DEF Scripts, CancelledRunsLeave, HooksFollowOutcome, Status,
                DecidedStatuses
  <2> QED BY <2>4, <2>5, <2>6 DEF Scripts
<1>9. CASE FinishHook(d)
  <2>1. NobodyEnters
    BY <1>9, <1>q DEF FinishHook, DriverStates
  <2>2. /\ UNCHANGED <<runs, steps>>
        /\ \/ hooks' = hooks
           \/ /\ hooks[r].status = "started"
              /\ hooks' = [hooks EXCEPT ![r].status = "completed"]
    BY <1>9 DEF FinishHook
  <2>3. \A q \in Runs :
          /\ hooks'[q].by = hooks[q].by
          /\ hooks'[q].status # "none" => hooks[q].status # "none"
          /\ hooks[q].status \in {"started", "completed"}
               => hooks'[q].status \in {"started", "completed"}
    BY <2>2, <1>0 DEF TypeOK
  <2> QED BY <2>1, <2>2, <2>3, ClosingStep
<1>10. CASE FinalizeRun(d)
  <2>1. NobodyEnters
    BY <1>10, <1>q DEF FinalizeRun, DriverStates
  <2>2. RunFinalized(runs[r]).status \in DecidedStatuses
    BY <1>10, <1>0 DEF FinalizeRun, CanRunFinalized, RunFinalized,
       RunProjections, DecidedStatuses, TerminalStatuses, BusinessOutcomes
  <2> QED BY <2>1, <2>2, <1>10, <1>0, ProjectionStep DEF FinalizeRun, SetRun
<1> QED BY <1>1, <1>2, <1>3, <1>4, <1>5, <1>6, <1>7, <1>8, <1>9, <1>10

(* Steps of the environment of a run. *)
LEMMA RunScripts ==
  ASSUME Scripts, TypeOK, TypeOK', NEW r \in Runs,
         RunStep(r) \/ \E d \in Drivers : DispatchRun(d, r)
  PROVE  Scripts'
<1>0. /\ runs[r] \in RunProjections
      /\ drivers \in [Drivers -> DriverRecords]
  BY DEF TypeOK
<1>q. UNCHANGED drivers => NobodyEnters
  BY DEF NobodyEnters
<1>1. CASE AdmitRun(r)
  <2>1. /\ runs' = [runs EXCEPT ![r] = RunAdmitted(runs[r])]
        /\ UNCHANGED <<steps, hooks, drivers>>
    BY <1>1 DEF AdmitRun, SetRun
  <2>2. Status(r) \notin DecidedStatuses /\ ~RunAdmitted(runs[r]).cancelRequested
    BY <1>1, <1>0 DEF AdmitRun, CanRunAdmitted, RunAdmitted, RunProjections,
       Status, DecidedStatuses, TerminalStatuses, Scripts, CancelledRunsLeave
  <2> QED BY <2>1, <2>2, <1>q, ProjectionStep
<1>2. CASE ResolveWait(r)
  <2> DEFINE p == [runs[r] EXCEPT !.status = "Running"]
  <2>1. runs' = [runs EXCEPT ![r] = p] /\ UNCHANGED <<steps, hooks, drivers>>
    BY <1>2 DEF ResolveWait, SetRun
  <2>2. Status(r) \notin DecidedStatuses /\ ~p.cancelRequested
    BY <1>2, <1>0 DEF ResolveWait, RunProjections, Status, DecidedStatuses,
       TerminalStatuses, Scripts, CancelledRunsLeave
  <2> HIDE DEF p
  <2> QED BY <2>1, <2>2, <1>q, ProjectionStep
<1>3. CASE RetryDue(r)
  <2>1. /\ UNCHANGED <<runs, hooks, drivers>> /\ steps[r].status = "backoff"
        /\ steps' = [steps EXCEPT ![r].status = "due"]
    BY <1>3 DEF RetryDue
  <2>2. \A q \in Runs :
          /\ steps'[q].by = steps[q].by
          /\ steps[q].status \in EnteredStatuses
               => steps'[q].status \in EnteredStatuses
    BY <2>1 DEF TypeOK, EnteredStatuses
  <2> QED BY <2>1, <2>2, <1>q, ClosingStep
<1>4. CASE RequestCancellation(r)
  <2> DEFINE p == RunCancellationRequested(runs[r])
  <2>1. runs' = [runs EXCEPT ![r] = p] /\ UNCHANGED <<steps, hooks, drivers>>
    BY <1>4 DEF RequestCancellation, SetRun
  <2>2. Status(r) \notin DecidedStatuses /\ p.status = "Cancelling"
    BY <1>4, <1>0 DEF RequestCancellation, CanRunCancellationRequested,
       RunCancellationRequested, RunProjections, Status, DecidedStatuses,
       TerminalStatuses
  <2> HIDE DEF p
  <2> QED BY <2>1, <2>2, <1>q, ProjectionStep
<1>5. CASE RecoverInterruptedRun(r)
  BY <1>5, <1>q, RecoverScripts DEF RecoverInterruptedRun
<1>6. CASE \E d \in Drivers : DispatchRun(d, r)
  <2>1. PICK d \in Drivers : DispatchRun(d, r)
    BY <1>6
  <2>2. UNCHANGED histories
    BY <2>1 DEF DispatchRun
  <2>3. NobodyEnters
    BY <2>1, <1>0 DEF DispatchRun, NobodyEnters, DriverRecords
  <2> QED BY <2>2, <2>3, QuietStep
<1> QED BY <1>1, <1>2, <1>3, <1>4, <1>5, <1>6 DEF RunStep

(* Every step keeps what is known about the drivers inside scripts. *)
LEMMA NextScripts ==
  ASSUME Scripts, TypeOK, TypeOK', [Next]_vars
  PROVE  Scripts'
<1>q. UNCHANGED drivers => NobodyEnters
  BY DEF NobodyEnters
<1>1. CASE UNCHANGED vars
  BY <1>1, <1>q, QuietStep DEF vars
<1>2. CASE Next
  <2>1. ASSUME NEW r \in Runs,
               RunStep(r) \/ \E d \in Drivers : DispatchRun(d, r)
        PROVE  Scripts'
    BY <2>1, RunScripts
  <2>2. ASSUME NEW d \in Drivers,
               DriverStep(d) \/ Heartbeat(d) \/ HeartbeatFails(d) \/ Crash(d)
        PROVE  Scripts'
    BY <2>2, ClaimScripts, ClaimStepsQuiet, QuietStep, HistoryScripts
       DEF DriverStep
  <2>3. CASE OpenStore \/ Tick \/ ClockStepsBack
    <3>1. UNCHANGED <<histories, drivers>>
      BY <2>3 DEF OpenStore, Tick, ClockStepsBack
    <3> QED BY <3>1, <1>q, QuietStep
  <2> QED BY <2>1, <2>2, <2>3, <1>2 DEF Next
<1> QED BY <1>1, <1>2

-----------------------------------------------------------------------------
(* What a step may start. *)

(* The instants of the first starts change only in a first claim. *)
LEMMA StartsOnlyByClaim ==
  ASSUME [Next]_vars
  PROVE  \/ UNCHANGED startedAt
         \/ \E d \in Drivers : ClaimSlot(d) /\ FirstStart(drivers[d].run)
<1>1. CASE UNCHANGED vars
  BY <1>1 DEF vars, histories
<1>2. CASE Next
  <2>1. ASSUME NEW r \in Runs,
               RunStep(r) \/ \E d \in Drivers : DispatchRun(d, r)
        PROVE  UNCHANGED startedAt
    BY <2>1 DEF RunStep, DispatchRun, AdmitRun, ResolveWait, RetryDue,
       RequestCancellation, RecoverInterruptedRun, RecoverRun, histories
  <2>2. ASSUME NEW d \in Drivers,
               DriverStep(d) \/ Heartbeat(d) \/ HeartbeatFails(d) \/ Crash(d)
        PROVE  \/ UNCHANGED startedAt
               \/ ClaimSlot(d) /\ FirstStart(drivers[d].run)
    <3>1. CASE ClaimSlot(d)
      BY <3>1 DEF ClaimSlot
    <3>2. CASE \/ RemainQueued(d) \/ AbandonAcquisition(d) \/ RequireRecovery(d)
               \/ CheckLeaseLoss(d) \/ AttemptRefused(d) \/ SuspendForRetry(d)
               \/ ResumeSlot(d) \/ SuspendForWait(d) \/ LeaveLoop(d)
               \/ LeaveEpilogue(d) \/ ReleaseSlot(d) \/ Heartbeat(d)
               \/ HeartbeatFails(d) \/ Crash(d)
      BY <3>2 DEF RemainQueued, AbandonAcquisition, RequireRecovery,
         CheckLeaseLoss, AttemptRefused, SuspendForRetry, ResumeSlot,
         SuspendForWait, LeaveLoop, LeaveEpilogue, ReleaseSlot, Heartbeat,
         HeartbeatFails, Crash, histories
    <3>3. CASE \/ RecoverAfterLeaseLoss(d) \/ StartAttempt(d)
               \/ AttemptSucceeds(d) \/ AttemptFails(d) \/ AttemptCancelled(d)
               \/ RegisterWait(d) \/ SettleCancelling(d) \/ StartHook(d)
               \/ FinishHook(d) \/ FinalizeRun(d)
      BY <3>3 DEF RecoverAfterLeaseLoss, RecoverRun, StartAttempt,
         AttemptSucceeds, AttemptFails, AttemptCancelled, RegisterWait,
         SettleCancelling, StartHook, FinishHook, FinalizeRun
    <3> QED BY <3>1, <3>2, <3>3, <2>2 DEF DriverStep
  <2>3. CASE OpenStore \/ Tick \/ ClockStepsBack
    BY <2>3 DEF OpenStore, Tick, ClockStepsBack, histories
  <2> QED BY <2>1, <2>2, <2>3, <1>2 DEF Next
<1> QED BY <1>1, <1>2

(* The first starts of w in the window (t, t + RateWindow[w]]. *)
Window(w, t) ==
  {r \in Runs : /\ WorkflowOf[r] = w
                /\ startedAt[r] # NoInstant
                /\ startedAt[r] > t /\ startedAt[r] <= t + RateWindow[w]}

(* A first claim adds one start to a window that was not full: a start     *)
(* that shares a window with now is more recent than now - RateWindow[w].  *)
LEMMA RateStep ==
  ASSUME TypeOK, StartsWithinRate, [Next]_vars
  PROVE  StartsWithinRate'
<1>1. CASE UNCHANGED startedAt
  BY <1>1 DEF StartsWithinRate
<1>2. CASE \E d \in Drivers : ClaimSlot(d) /\ FirstStart(drivers[d].run)
  <2>1. PICK d \in Drivers : ClaimSlot(d) /\ FirstStart(drivers[d].run)
    BY <1>2
  <2> DEFINE r == drivers[d].run
  <2>2. r \in Runs /\ startedAt \in [Runs -> Nat \cup {NoInstant}] /\ now \in Nat
    BY DriverType, PolicyAssumption DEF TypeOK
  <2>3. /\ startedAt' = [startedAt EXCEPT ![r] = now]
        /\ RateEligible(WorkflowOf[r])
    BY <2>1 DEF ClaimSlot
  <2> HIDE DEF r
  <2> SUFFICES ASSUME NEW w \in Workflows, RateCount[w] # 0,
                      NEW t \in (-RateWindow[w])..MaxTime
               PROVE  Cardinality(Window(w, t)') <= RateCount[w]
    BY DEF StartsWithinRate, Window
  <2>4. /\ RateCount[w] \in Nat /\ RateWindow[w] \in Nat /\ MaxTime \in Nat
        /\ t \in Int
    BY PolicyAssumption
  <2>5. /\ IsFiniteSet(Window(w, t)) /\ Cardinality(Window(w, t)) \in Nat
        /\ Cardinality(Window(w, t)) <= RateCount[w]
    <3>1. Window(w, t) \subseteq Runs
      BY DEF Window
    <3>2. Cardinality(Window(w, t)) <= RateCount[w]
      BY DEF StartsWithinRate, Window
    <3> QED BY <3>1, <3>2, PolicyAssumption, FS_Subset, FS_CardinalityType
  <2>6. CASE WorkflowOf[r] = w /\ now > t /\ now <= t + RateWindow[w]
    <3> DEFINE A == RecentStarts(w)
    <3>1. A \subseteq Runs
      BY DEF RecentStarts
    <3>2. IsFiniteSet(A) /\ Cardinality(A) \in Nat
      BY <3>1, PolicyAssumption, FS_Subset, FS_CardinalityType
    <3>3. Cardinality(A) < RateCount[w]
      BY <2>3, <2>6 DEF RateEligible
    <3>4. Window(w, t)' \subseteq A \cup {r}
      BY <2>2, <2>3, <2>4, <2>6 DEF Window, RecentStarts, NoInstant
    <3> HIDE DEF A
    <3>5. /\ IsFiniteSet(A \cup {r})
          /\ \/ Cardinality(A \cup {r}) = Cardinality(A)
             \/ Cardinality(A \cup {r}) = Cardinality(A) + 1
      BY <3>2, FS_AddElement, Zenon
    <3>6. /\ Cardinality(Window(w, t)') <= Cardinality(A \cup {r})
          /\ IsFiniteSet(Window(w, t)')
      BY <3>4, <3>5, FS_Subset
    <3>7. Cardinality(Window(w, t)') \in Nat
      BY <3>6, FS_CardinalityType
    <3> QED BY <3>2, <3>3, <3>5, <3>6, <3>7, <2>4
  <2>7. CASE ~(WorkflowOf[r] = w /\ now > t /\ now <= t + RateWindow[w])
    <3>1. Window(w, t)' \subseteq Window(w, t)
      BY <2>2, <2>3, <2>7 DEF Window
    <3>2. /\ Cardinality(Window(w, t)') <= Cardinality(Window(w, t))
          /\ IsFiniteSet(Window(w, t)')
      BY <3>1, <2>5, FS_Subset
    <3>3. Cardinality(Window(w, t)') \in Nat
      BY <3>2, FS_CardinalityType
    <3> QED BY <3>2, <3>3, <2>5, <2>4
  <2> QED BY <2>6, <2>7
<1> QED BY <1>1, <1>2, StartsOnlyByClaim

(* A step that starts a run or an attempt finds its run queued or running. *)
LEMMA StartsNeedStatus ==
  ASSUME TypeOK, [Next]_vars, NEW r \in Runs,
         Status(r) \notin {"Queued", "Running"}
  PROVE  /\ runs'[r].started = runs[r].started
         /\ steps'[r].attempts = steps[r].attempts
<1> USE DEF Status
<1>0. /\ runs \in [Runs -> RunProjections] /\ runs[r] \in RunProjections
      /\ steps \in [Runs -> [status : StepStatuses, attempts : 0..MaxAttempts,
                             by : Drivers \cup {NoDriver}]]
      /\ \A d \in Drivers : drivers[d].run \in Runs
  BY DEF TypeOK, DriverRecords
<1>1. CASE UNCHANGED histories
  BY <1>1 DEF histories
<1>d. \A q \in Runs, o \in BusinessOutcomes :
        /\ Decided(q, o).started = runs[q].started
        /\ RunOutcomeDecided(runs[q], o).started = runs[q].started
  BY DecidedFields
<1>r. ASSUME NEW q \in Runs, RecoverRun(q)
      PROVE  /\ runs'[r].started = runs[r].started
             /\ steps'[r].attempts = steps[r].attempts
  BY <1>r, <1>0 DEF RecoverRun, SetRun
<1>2. ASSUME NEW q \in Runs, RunStep(q)
      PROVE  /\ runs'[r].started = runs[r].started
             /\ steps'[r].attempts = steps[r].attempts
  <2>1. CASE AdmitRun(q)
    BY <2>1, <1>0 DEF AdmitRun, SetRun, RunAdmitted, RunProjections
  <2>2. CASE ResolveWait(q)
    BY <2>2, <1>0 DEF ResolveWait, SetRun, RunProjections
  <2>3. CASE RetryDue(q)
    BY <2>3, <1>0 DEF RetryDue
  <2>4. CASE RequestCancellation(q)
    BY <2>4, <1>0 DEF RequestCancellation, SetRun, RunCancellationRequested,
                      RunProjections
  <2>5. CASE RecoverInterruptedRun(q)
    BY <2>5, <1>r DEF RecoverInterruptedRun
  <2> QED BY <2>1, <2>2, <2>3, <2>4, <2>5, <1>2 DEF RunStep
<1>3. ASSUME NEW d \in Drivers, DriverStep(d) \/ Heartbeat(d)
                                \/ HeartbeatFails(d) \/ Crash(d)
      PROVE  /\ runs'[r].started = runs[r].started
             /\ steps'[r].attempts = steps[r].attempts
  <2>0. drivers[d].run \in Runs
    BY <1>0
  <2>1. CASE ClaimSlot(d)
    BY <2>1, <2>0, <1>0 DEF ClaimSlot, FirstStart
  <2>2. CASE \/ RemainQueued(d) \/ AbandonAcquisition(d) \/ RequireRecovery(d)
             \/ CheckLeaseLoss(d) \/ AttemptRefused(d) \/ SuspendForRetry(d)
             \/ ResumeSlot(d) \/ SuspendForWait(d) \/ LeaveLoop(d)
             \/ LeaveEpilogue(d) \/ ReleaseSlot(d) \/ Heartbeat(d)
             \/ HeartbeatFails(d) \/ Crash(d)
    BY <2>2, <1>1, ClaimStepsQuiet
  <2>3. CASE RecoverAfterLeaseLoss(d)
    BY <2>3, <2>0, <1>r DEF RecoverAfterLeaseLoss
  <2>4. CASE StartAttempt(d)
    BY <2>4, <2>0, <1>0 DEF StartAttempt
  <2>5. CASE AttemptSucceeds(d)
    BY <2>5, <2>0, <1>0 DEF AttemptSucceeds, SetRun
  <2>6. CASE AttemptFails(d)
    BY <2>6, <2>0, <1>0 DEF AttemptFails, SetRun
  <2>7. CASE AttemptCancelled(d)
    BY <2>7, <2>0, <1>0 DEF AttemptCancelled
  <2>8. CASE RegisterWait(d)
    BY <2>8, <2>0, <1>0 DEF RegisterWait, SetRun, RunProjections
  <2>9. CASE SettleCancelling(d)
    <3>1. RunOutcomeDecided(runs[drivers[d].run], "Cancelled").started
            = runs[drivers[d].run].started
      BY <1>d, <2>0 DEF BusinessOutcomes
    <3> QED BY <3>1, <2>9, <2>0, <1>0 DEF SettleCancelling, SetRun
  <2>10. CASE StartHook(d) \/ FinishHook(d)
    BY <2>10 DEF StartHook, FinishHook
  <2>11. CASE FinalizeRun(d)
    BY <2>11, <2>0, <1>0 DEF FinalizeRun, SetRun, RunFinalized, RunProjections
  <2> QED BY <2>1, <2>2, <2>3, <2>4, <2>5, <2>6, <2>7, <2>8, <2>9, <2>10,
             <2>11, <1>3 DEF DriverStep
<1>4. CASE \/ UNCHANGED vars \/ OpenStore \/ Tick \/ ClockStepsBack
           \/ \E q \in Runs, d \in Drivers : DispatchRun(d, q)
  BY <1>4, <1>1 DEF vars, OpenStore, Tick, ClockStepsBack, DispatchRun
<1> QED BY <1>2, <1>3, <1>4 DEF Next

-----------------------------------------------------------------------------
(* The theorems. *)

SInv ==
  /\ IInv
  /\ Scripts
  /\ StartsWithinRate

(* The invariant holds initially: nothing was started or entered. *)
LEMMA InitStarts ==
  ASSUME Init
  PROVE  SInv
<1>1. IInv
  BY InitInvariant
<1>2. Scripts
  BY DEF Init, Scripts, CancelledRunsLeave, HooksFollowOutcome, WorkersEntered,
         HookersEntered, EmptyProjection
<1>3. StartsWithinRate
  <2> SUFFICES ASSUME NEW w \in Workflows, RateCount[w] # 0,
                      NEW t \in (-RateWindow[w])..MaxTime
               PROVE  Cardinality(Window(w, t)) <= RateCount[w]
    BY DEF StartsWithinRate, Window
  <2>1. Window(w, t) = {}
    BY DEF Init, Window
  <2> QED BY <2>1, FS_EmptySet, PolicyAssumption
<1> QED BY <1>1, <1>2, <1>3 DEF SInv

(* In every reachable state the drivers inside scripts own what they       *)
(* entered, cancelled runs have left the queue and no window of the rate   *)
(* limit is overfull.                                                      *)
THEOREM StartInvariance == Spec => []SInv
<1>1. Init => SInv
  BY InitStarts
<1>2. SInv /\ [Next]_vars => SInv'
  <2> SUFFICES ASSUME SInv, [Next]_vars
               PROVE  SInv'
    OBVIOUS
  <2>1. IInv'
    BY NextInvariant DEF SInv
  <2>2. TypeOK /\ TypeOK'
    BY <2>1 DEF SInv, IInv
  <2>3. Scripts'
    BY <2>2, NextScripts DEF SInv
  <2>4. StartsWithinRate'
    BY <2>2, RateStep DEF SInv
  <2> QED BY <2>1, <2>3, <2>4 DEF SInv
<1> QED BY <1>1, <1>2, PTL DEF Spec

(* Although a lease may expire under a driver that still works, and other  *)
(* drivers then claim or recover its run (try_claim_policy_run_at,         *)
(* recover_policy_run_after_lease_loss), no second driver is ever inside   *)
(* the step's script, or the hook's, of one run.                           *)
THEOREM ScriptExclusion == Spec => []ScriptsNeverOverlap
<1>1. SInv => ScriptsNeverOverlap
  BY DEF SInv, Scripts, WorkersEntered, HookersEntered, ScriptsNeverOverlap
<1> QED BY <1>1, StartInvariance, PTL

(* Every window of the length of the rate limit holds at most as many      *)
(* first starts as the limit allows, wherever it lies and however often    *)
(* and far the wall clock steps back (workflow_rate_eligibility).          *)
THEOREM RateSafety == Spec => []StartsWithinRate
<1>1. SInv => StartsWithinRate
  BY DEF SInv
<1> QED BY <1>1, StartInvariance, PTL

(* Once a cancellation is durable, no driver starts the run, charges its   *)
(* rate window or begins another attempt of its step.                      *)
THEOREM CancellationIsFinal == Spec => CancellationStopsStarts
<1> DEFINE A == \A r \in Runs :
                  runs[r].cancelRequested =>
                    /\ runs'[r].started = runs[r].started
                    /\ startedAt'[r] = startedAt[r]
                    /\ steps'[r].attempts = steps[r].attempts
<1>1. SInv /\ [Next]_vars => A
  <2> SUFFICES ASSUME SInv, [Next]_vars, NEW r \in Runs,
                      runs[r].cancelRequested
               PROVE  /\ runs'[r].started = runs[r].started
                      /\ startedAt'[r] = startedAt[r]
                      /\ steps'[r].attempts = steps[r].attempts
    OBVIOUS
  <2>1. TypeOK
    BY DEF SInv, IInv
  <2>2. Status(r) \notin {"Queued", "Running"}
    BY DEF SInv, Scripts, CancelledRunsLeave, DecidedStatuses, TerminalStatuses
  <2>3. startedAt'[r] = startedAt[r]
    <3>1. CASE \E d \in Drivers : ClaimSlot(d) /\ FirstStart(drivers[d].run)
      <4>1. PICK d \in Drivers : ClaimSlot(d) /\ FirstStart(drivers[d].run)
        BY <3>1
      <4>2. r # drivers[d].run
        BY <4>1, <2>2 DEF FirstStart
      <4> QED BY <4>1, <4>2, <2>1 DEF ClaimSlot, TypeOK
    <3> QED BY <3>1, StartsOnlyByClaim
  <2> QED BY <2>1, <2>2, <2>3, StartsNeedStatus
<1>2. SInv /\ [Next]_vars => [A]_vars
  BY <1>1
<1>3. Spec => [][A]_vars
  BY <1>2, StartInvariance, PTL DEF Spec
<1> QED BY <1>3 DEF CancellationStopsStarts

(* Capacity that frees up, a rate window that opens or a driver that polls *)
(* first never lets a run overtake an earlier queued run of its workflow   *)
(* (earlier_eligible_policy_run_exists).                                   *)
THEOREM StartsInOrder == Spec => StartOrder
<1> DEFINE A == \A q, r \in Runs :
                  /\ WorkflowOf[q] = WorkflowOf[r]
                  /\ Status(q) = "Queued" /\ Precedes(q, r)
                  => startedAt'[r] = startedAt[r]
<1>1. SInv /\ [Next]_vars => A
  <2> SUFFICES ASSUME SInv, [Next]_vars, NEW q \in Runs, NEW r \in Runs,
                      WorkflowOf[q] = WorkflowOf[r],
                      Status(q) = "Queued", Precedes(q, r)
               PROVE  startedAt'[r] = startedAt[r]
    OBVIOUS
  <2>1. TypeOK
    BY DEF SInv, IInv
  <2>2. CASE \E d \in Drivers : ClaimSlot(d) /\ FirstStart(drivers[d].run)
    <3>1. PICK d \in Drivers : ClaimSlot(d) /\ FirstStart(drivers[d].run)
      BY <2>2
    <3>2. CASE r = drivers[d].run
      <4>1. /\ ~EarlierEligible(Live, r)
            /\ HasCapacity(Live, WorkflowOf[r]) /\ RateEligible(WorkflowOf[r])
        BY <3>1, <3>2 DEF ClaimSlot, FirstStart
      <4>2. EarlierEligible(Live, r)
        BY <4>1 DEF EarlierEligible, Queued
      <4> QED BY <4>1, <4>2
    <3>3. CASE r # drivers[d].run
      BY <3>1, <3>3, <2>1 DEF ClaimSlot, TypeOK
    <3> QED BY <3>2, <3>3
  <2> QED BY <2>2, StartsOnlyByClaim
<1>2. SInv /\ [Next]_vars => [A]_vars
  BY <1>1
<1>3. Spec => [][A]_vars
  BY <1>2, StartInvariance, PTL DEF Spec
<1> QED BY <1>3 DEF StartOrder

=============================================================================
