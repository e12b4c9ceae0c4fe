----------------------------- MODULE DurableState -----------------------------
(***************************************************************************)
(* Durable user state (durable_state.rs) behind the capability authority   *)
(* (capability/authority.rs, registry.rs).  A script attempt calls         *)
(* operations one after the other.  Each is recorded as started, handed to *)
(* a blocking task that commits the mutation with its receipt in one       *)
(* transaction, and recorded as succeeded or failed in another.  The call  *)
(* may time out or be cancelled while its task still runs, the attempt may *)
(* be retried with the same operation keys, and the process may stop       *)
(* anywhere between the two transactions.                                  *)
(***************************************************************************)
EXTENDS Integers, Sequences, FiniteSets, FiniteSetsExt, SequencesExt

CONSTANTS
  StateRuns,        \* runs of one workflow, which share the state scope
  StateKeys,        \* keys of the scope
  StateScripts,     \* assignments of scripts (sequences of calls) to the runs
  MaxStateKeys,     \* limits.max_keys
  MaxStateInteger,  \* MAX_STATE_SAFE_INTEGER
  StateAttempts,    \* attempts that the retry policy of a run's step allows
  StateCatching,    \* runs whose script goes on after a failed call
  StateStoppable,   \* runs that may be cancelled or reach their total timeout
  MaxStateCrashes   \* bound on crashes of the process

StateOperations == {"get", "set", "delete", "increment", "set_if_absent"}
StateGuards == {"none", "seen"}   \* no ifVersion, or the version read before

ASSUME StateAssumption ==
  /\ IsFiniteSet(StateRuns) /\ IsFiniteSet(StateKeys) 
  /\ StateCatching \subseteq StateRuns /\ StateStoppable \subseteq StateRuns
  /\ MaxStateKeys \in Nat \ {0} /\ MaxStateInteger \in Nat \ {0}
  /\ StateAttempts \in [StateRuns -> Nat \ {0}] /\ MaxStateCrashes \in Nat
  /\ \A scripts \in StateScripts : \A r \in StateRuns :
       scripts[r] \in Seq([op : StateOperations, key : StateKeys,
                           amount : -MaxStateInteger..MaxStateInteger,
                           guard : StateGuards])

VARIABLES
  stCalls,     \* the calls of the script of each run, in order
  stEntries,   \* woml_state_entries of the scope
  stQuota,     \* live_keys of woml_state_quotas
  stReceipts,  \* woml_state_mutations, by operation key
  stRuns,      \* status, attempts and pending retry of each history
  stOps,       \* operations of each history, by attempt and call
  stScripts,   \* the driver, the script and the call that it awaits
  stTasks,     \* blocking tasks of the state handler
  stLog,       \* the writes that were committed, in order (history variable)
  stCrashes

stVars == <<stCalls, stEntries, stQuota, stReceipts, stRuns, stOps, stScripts,
            stTasks, stLog, stCrashes>>

stStore == <<stEntries, stQuota, stReceipts, stLog>>

-----------------------------------------------------------------------------
(* State. *)

\* derive_operation_key: the run, the step and the name of the call; the
\* attempt has no part in it.
OperationKeys == UNION {{<<r, i>> : i \in DOMAIN stCalls[r]} : r \in StateRuns}
CallOf(k) == stCalls[k[1]][k[2]]
IsMutation(k) == CallOf(k).op # "get"

StateVersions == 0..Cardinality(OperationKeys)
StateValues == -MaxStateInteger..MaxStateInteger
Results == [stored : BOOLEAN, value : StateValues, version : StateVersions]
Unguarded == -1                  \* no ifVersion in the input
Inputs == StateVersions \cup {Unguarded}

NoEntryYet == [present |-> FALSE, value |-> 0, version |-> 0]
NoResult == [stored |-> FALSE, value |-> 0, version |-> 0]
NoReceipt == [present |-> FALSE, input |-> Unguarded, result |-> NoResult, version |-> 0]
NoOperation == [status |-> "none", input |-> Unguarded, result |-> NoResult]
NoScript == [at |-> "idle", pc |-> 1, seen |-> 0, answer |-> "none", result |-> NoResult]

ScriptSteps == {"idle", "ready", "calling", "stopping", "answered", "threw", "lost"}

(* How a call ends for its caller: "refused" is a failure that is recorded *)
(* as not ambiguous.                                                       *)
Answers == {"none", "ok", "refused", "ambiguous"}

Attempt(r) == stRuns[r].attempt

StateTypeOK ==
  /\ stCalls \in StateScripts
  /\ stEntries \in [StateKeys -> [present : BOOLEAN, value : StateValues,
                                  version : StateVersions]]
  /\ stQuota \in 0..MaxStateKeys
  /\ stReceipts \in [OperationKeys -> [present : BOOLEAN, input : Inputs,
                                       result : Results, version : StateVersions]]
  /\ stRuns \in [StateRuns -> [status : {"running", "cancelling", "succeeded",
                                         "failed", "cancelled"},
                               attempt : Nat, active : BOOLEAN,
                               retry : BOOLEAN]]
  /\ \A r \in StateRuns :
       /\ Attempt(r) <= StateAttempts[r]
       /\ stOps[r] \in [1..StateAttempts[r] ->
                         [DOMAIN stCalls[r] ->
                           [status : {"none", "started", "succeeded", "refused", "ambiguous"},
                            input : Inputs, result : Results]]]
  /\ stScripts \in [StateRuns -> [at : ScriptSteps, pc : Nat, seen : StateVersions,
                                  answer : Answers, result : Results]]
  /\ stTasks \subseteq [key : OperationKeys, attempt : Nat,
                        input : Inputs, entered : BOOLEAN, cancelled : BOOLEAN]
  /\ stCrashes \in 0..MaxStateCrashes

StateInit ==
  /\ stCalls \in StateScripts
  /\ stEntries = [k \in StateKeys |-> NoEntryYet]
  /\ stQuota = 0
  /\ stReceipts = [k \in OperationKeys |-> NoReceipt]
  /\ stRuns = [r \in StateRuns |-> [status |-> "running", attempt |-> 0,
                                    active |-> FALSE, retry |-> FALSE]]
  /\ stOps = [r \in StateRuns |-> [a \in 1..StateAttempts[r] |->
                                    [i \in DOMAIN stCalls[r] |-> NoOperation]]]
  /\ stScripts = [r \in StateRuns |-> NoScript]
  /\ stTasks = {} /\ stLog = <<>> /\ stCrashes = 0

-----------------------------------------------------------------------------
(* The store: one immediate transaction (execute). *)

MaxVersionOf(key) ==
  Max({0} \cup {stReceipts[k].version : k \in {x \in OperationKeys : CallOf(x).key = key}})

\* Fault: versions start again when a key is deleted.
VersionOfEntry(key) == stEntries[key].version + 1

(* next_version: one more than any version that a receipt of the key has. *)
NextVersion(key) == MaxVersionOf(key) + 1

(* next_version and enforce_quota refuse a store whose tables disagree. *)
LiveKeys == {k \in StateKeys : stEntries[k].present}
StoreIntact ==
  /\ stQuota = Cardinality(LiveKeys)
  /\ \A k \in LiveKeys : stEntries[k].version = MaxVersionOf(k)

(* enforce_version: ifVersion 0 asks for an absent key. *)
VersionMatches(t) ==
  LET entry == stEntries[CallOf(t.key).key] IN
  \/ t.input = Unguarded
  \/ t.input = 0 /\ ~entry.present
  \/ entry.present /\ entry.version = t.input

(* What the operation writes; none for a read, for the deletion of an      *)
(* absent key and for set_if_absent on a present one.                      *)
Writes(t) ==
  LET c == CallOf(t.key) present == stEntries[CallOf(t.key).key].present IN
  CASE c.op = "get" -> FALSE
    [] c.op = "delete" -> present
    [] c.op = "set_if_absent" -> ~present
    [] OTHER -> TRUE

NewValue(t) ==
  LET c == CallOf(t.key) IN
  IF c.op = "increment" THEN stEntries[c.key].value + c.amount ELSE c.amount

NewKeys(t) ==
  LET c == CallOf(t.key) IN
  IF c.op = "delete" THEN stQuota - 1
  ELSE IF stEntries[c.key].present THEN stQuota ELSE stQuota + 1

Permitted(t) ==
  LET c == CallOf(t.key) IN
  /\ c.op = "set_if_absent" \/ VersionMatches(t)
  /\ c.op = "increment" => NewValue(t) \in StateValues
  /\ Writes(t) => StoreIntact /\ NewKeys(t) <= MaxStateKeys

(* The version that the receipt records: the new one, or for set_if_absent *)
(* on a present key the version that it found.                             *)
CommittedVersion(t) ==
  LET c == CallOf(t.key) IN
  IF Writes(t) THEN NextVersion(c.key)
  ELSE IF c.op = "set_if_absent" THEN stEntries[c.key].version ELSE 0

ResultOf(t) ==
  LET c == CallOf(t.key) entry == stEntries[CallOf(t.key).key] IN
  [stored |-> IF c.op = "get" THEN entry.present ELSE Writes(t),
   value |-> IF Writes(t) /\ c.op # "delete" THEN NewValue(t)
             ELSE IF c.op = "delete" THEN 0 ELSE entry.value,
   version |-> IF c.op = "get" THEN entry.version ELSE CommittedVersion(t)]

(* An operation key with a receipt is answered from it. *)
Duplicate(t) == IsMutation(t.key) /\ stReceipts[t.key].present

Execution(t) ==
  CASE Duplicate(t) /\ stReceipts[t.key].input = t.input ->
         [answer |-> "ok", result |-> stReceipts[t.key].result]
    [] Duplicate(t) /\ stReceipts[t.key].input # t.input ->           \* identity conflict
         [answer |-> "refused", result |-> NoResult]
    [] ~Duplicate(t) /\ Permitted(t) -> [answer |-> "ok", result |-> ResultOf(t)]
    [] OTHER -> [answer |-> "refused", result |-> NoResult]

ApplyToStore(t) ==
  LET key == CallOf(t.key).key
      deleted == CallOf(t.key).op = "delete"
  IN
  IF Duplicate(t) \/ ~Permitted(t) \/ ~IsMutation(t.key) THEN UNCHANGED stStore
  ELSE /\ stReceipts' = [stReceipts EXCEPT ![t.key] =
                           [present |-> TRUE, input |-> t.input, result |-> ResultOf(t),
                            version |-> CommittedVersion(t)]]
       /\ IF Writes(t)
            THEN /\ stEntries' = [stEntries EXCEPT ![key] =
                      IF deleted THEN NoEntryYet
                      ELSE [present |-> TRUE, value |-> NewValue(t),
                            version |-> NextVersion(key)]]
                 /\ stQuota' = NewKeys(t)
                 /\ stLog' = Append(stLog, [key |-> t.key, attempt |-> t.attempt,
                                            version |-> NextVersion(key)])
            ELSE UNCHANGED <<stEntries, stQuota, stLog>>

-----------------------------------------------------------------------------
(* The history of a run (fold_operations.rs, fold_attempts.rs). *)

ActiveOperations(r) ==
  {i \in DOMAIN stCalls[r] : Attempt(r) > 0 /\ stOps[r][Attempt(r)][i].status = "started"}

CanOperationStarted(r) == stRuns[r].status = "running" /\ stRuns[r].active

CanOperationSettled(r, answer) ==
  /\ stRuns[r].active
  /\ stScripts[r].pc \in ActiveOperations(r)
  /\ stRuns[r].status \in IF answer = "ok" THEN {"running"} ELSE {"running", "cancelling"}

\* operation_failed as ambiguous for every started operation of r.
SettleAmbiguous(r) ==
  stOps' = IF Attempt(r) = 0 THEN stOps
           ELSE [stOps EXCEPT ![r][Attempt(r)] =
                   [i \in DOMAIN stCalls[r] |->
                      IF i \in ActiveOperations(r) THEN [@[i] EXCEPT !.status = "ambiguous"]
                                                   ELSE @[i]]]

-----------------------------------------------------------------------------
(* The driver and the script. *)

StartStateAttempt(r) ==
  /\ stScripts[r].at = "idle" /\ stRuns[r].status = "running" /\ ~stRuns[r].active
  /\ Attempt(r) = 0 \/ stRuns[r].retry
  /\ stRuns' = [stRuns EXCEPT ![r].attempt = @ + 1, ![r].active = TRUE, ![r].retry = FALSE]
  /\ stScripts' = [stScripts EXCEPT ![r] = [NoScript EXCEPT !.at = "ready"]]
  /\ UNCHANGED <<stStore, stOps, stTasks, stCrashes>>

(* The authority records operation_started and hands the call to the       *)
(* registry; a refused event fails the call.                               *)
BeginOperation(r) ==
  LET s == stScripts[r]
      input == IF stCalls[r][s.pc].guard = "seen" THEN s.seen ELSE Unguarded
  IN
  /\ s.at = "ready" /\ s.pc \in DOMAIN stCalls[r]
  /\ IF CanOperationStarted(r)
       THEN /\ stOps' = [stOps EXCEPT ![r][Attempt(r)][s.pc] =
                           [status |-> "started", input |-> input, result |-> NoResult]]
            /\ stTasks' = stTasks \cup {[key |-> <<r, s.pc>>, attempt |-> Attempt(r),
                                         input |-> input, entered |-> FALSE,
                                         cancelled |-> FALSE]}
            /\ stScripts' = [stScripts EXCEPT ![r].at = "calling"]
       ELSE /\ stScripts' = [stScripts EXCEPT ![r].at = "threw"]
            /\ UNCHANGED <<stOps, stTasks>>
  /\ UNCHANGED <<stStore, stRuns, stCrashes>>

\* The call of the script of r awaits task t.
Awaited(r, t) ==
  /\ t.key = <<r, stScripts[r].pc>> /\ t.attempt = Attempt(r)
  /\ stScripts[r].at \in {"calling", "stopping"}

Reply(r, answer, result) ==
  stScripts' = [stScripts EXCEPT ![r].at = "answered", ![r].answer = answer,
                                 ![r].result = result]

(* The task looks at its cancellation token once, before the transaction. *)
EnterTask(t) ==
  LET r == t.key[1] IN
  /\ ~t.entered
  /\ IF t.cancelled
       THEN /\ stTasks' = stTasks \ {t}
            /\ IF Awaited(r, t) THEN Reply(r, "refused", NoResult) ELSE UNCHANGED stScripts
       ELSE /\ stTasks' = (stTasks \ {t}) \cup {[t EXCEPT !.entered = TRUE]}
            /\ UNCHANGED stScripts
  /\ UNCHANGED <<stStore, stRuns, stOps, stCrashes>>

\* Fault: an interrupted call is recorded as if it had no effect.
FallbackDefinite(k) == "refused"

\* A failure of an interrupted call is ambiguous unless it only reads.
Fallback(k) == IF IsMutation(k) THEN "ambiguous" ELSE "refused"

(* The transaction of the task.  A call that is being cancelled takes no   *)
(* result but a cancellation.                                              *)
ExecuteTask(t) ==
  LET r == t.key[1] e == Execution(t) IN
  /\ t.entered
  /\ ApplyToStore(t)
  /\ stTasks' = stTasks \ {t}
  /\ CASE Awaited(r, t) /\ stScripts[r].at = "calling" -> Reply(r, e.answer, e.result)
       [] Awaited(r, t) /\ stScripts[r].at = "stopping" -> Reply(r, Fallback(t.key), NoResult)
       [] OTHER -> UNCHANGED stScripts
  /\ UNCHANGED <<stRuns, stOps, stCrashes>>

\* The token of the call of r is cancelled.
CancelToken(r) ==
  stTasks' = {IF Awaited(r, t) THEN [t EXCEPT !.cancelled = TRUE] ELSE t : t \in stTasks}

(* execute_scoped at its deadline, and after the cleanup grace of a        *)
(* cancelled call: the task may still commit.                              *)
CallTimesOut(r) ==
  /\ stScripts[r].at \in {"calling", "stopping"}
  /\ Reply(r, Fallback(<<r, stScripts[r].pc>>), NoResult)
  /\ CancelToken(r)
  /\ UNCHANGED <<stStore, stRuns, stOps, stCrashes>>

(* execute_script_node notices that its run was cancelled or has ended and *)
(* cancels the calls of the invocation.                                    *)
InterruptCall(r) ==
  /\ stScripts[r].at = "calling" /\ stRuns[r].status \in {"cancelling", "failed"}
  /\ stScripts' = [stScripts EXCEPT ![r].at = "stopping"]
  /\ CancelToken(r)
  /\ UNCHANGED <<stStore, stRuns, stOps, stCrashes>>

(* The authority records the terminal event of the operation; the script   *)
(* goes on after a success, and after a failure that it catches.           *)
RecordOperation(r) ==
  LET s == stScripts[r] IN
  /\ s.at = "answered"
  /\ IF CanOperationSettled(r, s.answer)
       THEN stOps' = [stOps EXCEPT ![r][Attempt(r)][s.pc] =
                        [@ EXCEPT !.status = IF s.answer = "ok" THEN "succeeded" ELSE s.answer,
                                  !.result = s.result]]
       ELSE UNCHANGED stOps
  /\ stScripts' =
       IF r \in StateCatching \/ (s.answer = "ok" /\ CanOperationSettled(r, "ok"))
         THEN [stScripts EXCEPT ![r].at = "ready", ![r].pc = @ + 1,
                 ![r].answer = "none", ![r].result = NoResult,
                 ![r].seen = IF stCalls[r][s.pc].op = "get" THEN s.result.version ELSE @]
         ELSE [stScripts EXCEPT ![r].at = "threw", ![r].answer = "none",
                                ![r].result = NoResult]
  /\ UNCHANGED <<stStore, stRuns, stTasks, stCrashes>>

AttemptSucceeds(r) ==
  /\ stScripts[r].at = "ready" /\ stScripts[r].pc > Len(stCalls[r])
  /\ stRuns[r].status = "running" /\ stRuns[r].active /\ ActiveOperations(r) = {}
  /\ stRuns' = [stRuns EXCEPT ![r].status = "succeeded", ![r].active = FALSE]
  /\ stScripts' = [stScripts EXCEPT ![r] = NoScript]
  /\ UNCHANGED <<stStore, stOps, stTasks, stCrashes>>

(* record_step_attempt_failure of a script that threw. *)
AttemptThrows(r) ==
  /\ stScripts[r].at = "threw"
  /\ stRuns[r].status = "running" /\ stRuns[r].active /\ ActiveOperations(r) = {}
  /\ stRuns' = [stRuns EXCEPT ![r].active = FALSE,
                  ![r].retry = Attempt(r) < StateAttempts[r],
                  ![r].status = IF Attempt(r) < StateAttempts[r] THEN @ ELSE "failed"]
  /\ stScripts' = [stScripts EXCEPT ![r] = NoScript]
  /\ UNCHANGED <<stStore, stOps, stTasks, stCrashes>>

(* The driver of an interrupted script fails the attempt; the fold refuses *)
(* that while an operation is active, and the driver ends with an error.   *)
AttemptCancelled(r) ==
  /\ stScripts[r].at \in {"ready", "threw"} /\ stRuns[r].status = "cancelling"
  /\ stRuns[r].active
  /\ IF ActiveOperations(r) = {}
       THEN /\ stRuns' = [stRuns EXCEPT ![r].active = FALSE]
            /\ stScripts' = [stScripts EXCEPT ![r] = NoScript]
       ELSE /\ stScripts' = [stScripts EXCEPT ![r].at = "lost"]
            /\ UNCHANGED stRuns
  /\ UNCHANGED <<stStore, stOps, stTasks, stCrashes>>

(* The script ends after its run was settled by somebody else. *)
DetachScript(r) ==
  /\ stScripts[r].at \in {"ready", "threw"} /\ ~stRuns[r].active
  /\ stScripts' = [stScripts EXCEPT ![r].at = "lost"]
  /\ UNCHANGED <<stStore, stRuns, stOps, stTasks, stCrashes>>

-----------------------------------------------------------------------------
(* Cancellation, timeout, crash and recovery. *)

RequestStateCancellation(r) ==
  /\ r \in StateStoppable /\ stRuns[r].status = "running"
  /\ stRuns' = [stRuns EXCEPT ![r].status = "cancelling", ![r].retry = FALSE]
  /\ UNCHANGED <<stStore, stOps, stScripts, stTasks, stCrashes>>

(* settle_cancelling_run, called by the driver between two nodes and when  *)
(* a run is resumed.                                                       *)
SettleCancelling(r) ==
  /\ stRuns[r].status = "cancelling" /\ stScripts[r].at = "idle"
  /\ SettleAmbiguous(r)
  /\ stRuns' = [stRuns EXCEPT ![r].status = "cancelled", ![r].active = FALSE]
  /\ UNCHANGED <<stStore, stScripts, stTasks, stCrashes>>

(* settle_run_timeout: the operations, the attempt and the run end in one  *)
(* transaction, while the task of a call may be running.                   *)
StateRunTimeout(r) ==
  /\ r \in StateStoppable /\ stRuns[r].status = "running"
  /\ SettleAmbiguous(r)
  /\ stRuns' = [stRuns EXCEPT ![r].status = "failed", ![r].active = FALSE, ![r].retry = FALSE]
  /\ UNCHANGED <<stStore, stScripts, stTasks, stCrashes>>

(* recovered_state_mutation_settlement: the receipt proves the mutation,   *)
(* whichever attempt of the step made it.                                  *)
Proven(r, i) == IsMutation(<<r, i>>) /\ stReceipts[<<r, i>>].present

RecoveredOperation(r, i) ==
  IF Proven(r, i)
    THEN [stOps[r][Attempt(r)][i] EXCEPT !.status = "succeeded",
                                         !.result = stReceipts[<<r, i>>].result]
    ELSE [stOps[r][Attempt(r)][i] EXCEPT !.status = "ambiguous"]

(* A receipt of another input is a contract error, and the run stays. *)
CanRecover(r) ==
  \A i \in ActiveOperations(r) :
    Proven(r, i) => stReceipts[<<r, i>>].input = stOps[r][Attempt(r)][i].input

(* recover_run of a run with a started attempt, after a crash or by the    *)
(* general recovery of another process: the attempt is never replayed.     *)
RecoverStateRun(r) ==
  /\ stRuns[r].status = "running" /\ stRuns[r].active /\ CanRecover(r)
  /\ stOps' = [stOps EXCEPT ![r][Attempt(r)] =
                 [i \in DOMAIN stCalls[r] |->
                    IF i \in ActiveOperations(r) THEN RecoveredOperation(r, i) ELSE @[i]]]
  /\ stRuns' = [stRuns EXCEPT ![r].status = "failed", ![r].active = FALSE]
  /\ UNCHANGED <<stStore, stScripts, stTasks, stCrashes>>

(* The process stops: its scripts and tasks are gone. *)
CrashStateProcess ==
  /\ stCrashes < MaxStateCrashes
  /\ stCrashes' = stCrashes + 1
  /\ stScripts' = [r \in StateRuns |-> NoScript]
  /\ stTasks' = {}
  /\ UNCHANGED <<stStore, stRuns, stOps>>

StateNext ==
  /\ UNCHANGED stCalls
  /\ \/ CrashStateProcess
     \/ \E t \in stTasks : EnterTask(t) \/ ExecuteTask(t)
     \/ \E r \in StateRuns :
          \/ StartStateAttempt(r) \/ BeginOperation(r) \/ CallTimesOut(r) \/ InterruptCall(r)
          \/ RecordOperation(r) \/ AttemptSucceeds(r) \/ AttemptThrows(r)
          \/ AttemptCancelled(r) \/ DetachScript(r)
          \/ RequestStateCancellation(r) \/ SettleCancelling(r) \/ StateRunTimeout(r)
          \/ RecoverStateRun(r)

StateSpec == StateInit /\ [][StateNext]_stVars

-----------------------------------------------------------------------------
(* Properties. *)

(* A mutation is applied at most once per operation key, over retries of   *)
(* the step, calls that timed out while their task went on, and crashes    *)
(* between the mutation and its event; every version of a key names one    *)
(* write, also after the key was deleted and created again; and the tables *)
(* never disagree in the way that makes the store refuse all further       *)
(* writes (execute, next_version, enforce_quota).                          *)
StateAppliedOnce ==
  /\ \A i, j \in DOMAIN stLog : i < j =>
       /\ stLog[i].key # stLog[j].key
       /\ CallOf(stLog[i].key).key = CallOf(stLog[j].key).key =>
            stLog[i].version < stLog[j].version
  /\ StoreIntact

(* What a history says of an operation is true of the store: a recorded    *)
(* success has the result of the receipt, in every attempt and after       *)
(* recovery; and a failure that is not marked ambiguous left no write and  *)
(* has no task that could still make one (the authority, execute_scoped,   *)
(* recover_run).                                                           *)
HonestOutcomes ==
  \A r \in StateRuns : \A a \in 1..StateAttempts[r] : \A i \in DOMAIN stCalls[r] :
    LET o == stOps[r][a][i] IN
    /\ o.status = "succeeded" /\ IsMutation(<<r, i>>) =>
         stReceipts[<<r, i>>].present /\ stReceipts[<<r, i>>].result = o.result
    /\ o.status = "refused" /\ IsMutation(<<r, i>>) =>
         /\ \A e \in ToSet(stLog) : <<e.key, e.attempt>> # <<<<r, i>>, a>>
         /\ \A t \in stTasks : <<t.key, t.attempt>> # <<<<r, i>>, a>>

(***************************************************************************)
(* The state store and the histories of its callers agree: a mutation is   *)
(* applied once, and what a history says became of it is what the store    *)
(* holds.                                                                  *)
(***************************************************************************)
StateEffectsHonest == StateAppliedOnce /\ HonestOutcomes

=============================================================================
