------------------------------- MODULE ForkJoin -------------------------------
(***************************************************************************)
(* One fork of a run: its branches, its join and the main route behind it  *)
(* (runtime/control_flow/forks.rs, projection/fold_control_flow.rs).  Each *)
(* branch and the main route hold one script.  The driver of the run works *)
(* in one task; a request to cancel the run and the death of the process   *)
(* come between any two of its appends.                                    *)
(* Left out: scripts' inputs and outputs, and the nodes of a branch other  *)
(* than scripts (waits, approvals, locks, choices, parallel groups).       *)
(***************************************************************************)
EXTENDS Integers, FiniteSets, FiniteSetsExt

CONSTANTS
  ForkWidth,       \* number of branches
  ForkAttempts,    \* attempts of the retry policy of every script
  MaxForkCrashes   \* bound on crashes of the process

ASSUME ForkAssumption ==
  /\ ForkWidth \in Nat \ {0}
  /\ ForkAttempts \in Nat \ {0} /\ MaxForkCrashes \in Nat

\* Branches in document order, and the main route behind the join.
ForkBranches == 1..ForkWidth
Main == 0
ForkScripts == ForkBranches \cup {Main}

VARIABLES
  fjJoined,    \* branches the join names: all, some or none of them
  fjRun,       \* status of the run
  fjJoin,      \* status of the join; "unopened" before fork_opened
  fjBranch,    \* durable outcome of each branch; "open" before it settles
  fjScript,    \* latest attempt of each script
  fjDue,       \* whether the deadline of the workflow has passed
  fjDriver,    \* the driver of the run
  fjEffects,   \* attempts that may have had an effect (history variable)
  fjCrashes

fjVars == <<fjJoined, fjRun, fjJoin, fjBranch, fjScript, fjDue, fjDriver, fjEffects,
            fjCrashes>>

NotAttempted == [attempt |-> 0, status |-> "none", retry |-> "no"]
DriverAt(step) == [at |-> step, active |-> {}, todo |-> {}]

ForkTypeOK ==
  /\ fjJoined \subseteq ForkBranches
  /\ fjRun \in {"running", "cancelling", "cancelled", "failed", "succeeded"}
  /\ fjJoin \in {"unopened", "pending", "succeeded", "failed", "cancelled"}
  /\ fjBranch \in [ForkBranches -> {"open", "succeeded", "failed", "cancelled"}]
  /\ fjScript \in [ForkScripts ->
       [attempt : 0..ForkAttempts,
        status : {"none", "started", "succeeded", "failed", "cancelled"},
        retry : {"no", "later", "due"}]]
  /\ fjDue \in BOOLEAN
  /\ fjDriver \in [at : {"none", "gone", "loop", "script", "fork", "succeeded", "failed",
                         "join", "finish", "start", "await", "settling", "returned"},
                   active : SUBSET ForkScripts, todo : SUBSET ForkScripts]
  /\ fjEffects \in [ForkScripts -> SUBSET (1..ForkAttempts)]
  /\ fjCrashes \in 0..MaxForkCrashes

ForkInit ==
  /\ fjJoined \in {ForkBranches, {Min(ForkBranches)}, {}}
  /\ fjRun = "running"
  /\ fjJoin = "unopened"
  /\ fjBranch = [b \in ForkBranches |-> "open"]
  /\ fjScript = [n \in ForkScripts |-> NotAttempted]
  /\ fjDue = FALSE
  /\ fjDriver = DriverAt("loop")
  /\ fjEffects = [n \in ForkScripts |-> {}]
  /\ fjCrashes = 0

-----------------------------------------------------------------------------
(* Readiness. *)

ForkRunOpen == fjRun \in {"running", "cancelling"}
Unsettled == {b \in ForkBranches : fjBranch[b] = "open"}

\* final_attempt_failure_in_nodes.
FinallyFailed(n) ==
  fjScript[n].status \in {"failed", "cancelled"} /\ fjScript[n].retry = "no"

\* candidate_is_ready, of a script whose predecessors are complete.
Startable(n) == fjScript[n].status = "none" \/ fjScript[n].retry = "due"

ReadyScripts ==
  IF fjRun # "running" \/ fjJoin = "unopened" THEN {}
  ELSE {b \in ForkBranches : Startable(b)}
         \cup {n \in {Main} : fjJoin = "succeeded" /\ Startable(Main)}

ReadyTerminals ==
  {b \in Unsettled : fjRun = "running" /\ fjScript[b].status = "succeeded"}

JoinReady ==
  /\ fjRun = "running" /\ fjJoin \notin {"unopened", "succeeded"}
  /\ fjJoined \cap Unsettled = {}

\* Every incoming edge of the settlement comes from a complete node.
SettlementReady ==
  /\ fjRun = "running" /\ fjScript[Main].status = "succeeded" /\ Unsettled = {}

ReadyCount ==
  Cardinality(ReadyScripts) + Cardinality(ReadyTerminals)
    + (IF JoinReady THEN 1 ELSE 0) + (IF SettlementReady THEN 1 ELSE 0)

(* ready_fork: only a fork whose join is pending. *)
ReadyFork ==
  /\ fjJoin = "pending"
  /\ \/ ReadyScripts \cap ForkBranches # {} \/ ReadyTerminals # {} \/ JoinReady
     \/ \E b \in Unsettled : FinallyFailed(b)
     \/ Unsettled = {}

-----------------------------------------------------------------------------
(* Attempts. *)

(* The driver returns an error and drops its futures; continue_runtime     *)
(* then settles a run that is being cancelled.                             *)
ForkDriverFails ==
  fjDriver' = DriverAt(IF fjRun' = "cancelling" THEN "settling" ELSE "returned")

StartScript(n) ==
  /\ fjScript' = [fjScript EXCEPT ![n] =
       [attempt |-> @.attempt + 1, status |-> "started", retry |-> "no"]]
  /\ fjEffects' = [fjEffects EXCEPT ![n] = @ \cup {fjScript[n].attempt + 1}]

Succeed(n) ==
  /\ fjScript' = [fjScript EXCEPT ![n].status = "succeeded"]
  /\ UNCHANGED <<fjRun, fjEffects>>

\* Owned branches are not all settled, or the join is pending.
ForkCoordinated == fjJoin = "pending" \/ Unsettled # {}

(* record_step_attempt_failure: a script that threw is retried; a failed   *)
(* main route ends the run unless branches are still owned.                *)
FailScript(n, kind) ==
  LET retried == kind = "threw" /\ fjScript[n].attempt < ForkAttempts IN
  /\ fjScript' = [fjScript EXCEPT ![n] =
       [@ EXCEPT !.status = IF kind = "cancelled" THEN kind ELSE "failed",
                 !.retry = IF retried THEN "later" ELSE "no"]]
  /\ fjRun' = IF retried \/ kind = "cancelled" \/ n # Main \/ ForkCoordinated
                THEN fjRun ELSE "failed"
  /\ fjEffects' = IF kind = "threw"
                    THEN [fjEffects EXCEPT ![n] = @ \ {fjScript[n].attempt}] ELSE fjEffects

\* How an invocation ends: the host's answer, unless the run is being cancelled.
ScriptOutcome(n) ==
  IF fjRun = "cancelling" THEN FailScript(n, "cancelled")
  ELSE Succeed(n) \/ \E kind \in {"threw", "crashed"} : FailScript(n, kind)

RetryComesDue(n) ==
  /\ fjScript[n].retry = "later"
  /\ fjScript' = [fjScript EXCEPT ![n].retry = "due"]
  /\ UNCHANGED <<fjJoined, fjRun, fjJoin, fjBranch, fjDue, fjDriver, fjEffects, fjCrashes>>

-----------------------------------------------------------------------------
(* The deadline of the workflow. *)

DeadlinePasses ==
  /\ ~fjDue
  /\ fjDue' = TRUE
  /\ UNCHANGED <<fjJoined, fjRun, fjJoin, fjBranch, fjScript, fjDriver, fjEffects, fjCrashes>>

Overdue == fjDue /\ fjRun = "running"

\* apply_fork_join_settled, of a cancellation that blames the first joined branch.
BlamedBranchCancelled(branches) ==
  fjJoined # {} => branches[Min(fjJoined)] = "cancelled"

ClosedBranches == [b \in ForkBranches |-> IF b \in Unsettled THEN "cancelled" ELSE fjBranch[b]]

(* settle_run_timeout: one transaction, which the fold refuses when the    *)
(* branch it blames has ended otherwise.                                   *)
SettleForkTimeout ==
  LET opened == fjJoin # "unopened"
      accepted == fjJoin = "pending" => BlamedBranchCancelled(ClosedBranches)
  IN
  /\ fjDriver.at \in {"loop", "fork", "await", "script"} /\ Overdue
  /\ IF accepted
       THEN /\ fjRun' = "failed"
            /\ fjBranch' = IF opened THEN ClosedBranches ELSE fjBranch
            /\ fjJoin' = CASE fjJoin # "pending" -> fjJoin
                           [] fjJoin = "pending" /\ fjJoined = {} -> "succeeded"
                           [] OTHER -> "cancelled"
            /\ fjScript' = [n \in ForkScripts |->
                 IF fjScript[n].status = "started"
                   THEN [fjScript[n] EXCEPT !.status = "failed"] ELSE fjScript[n]]
       ELSE UNCHANGED <<fjRun, fjBranch, fjJoin, fjScript>>
  /\ fjDriver' = DriverAt("returned")
  /\ UNCHANGED <<fjJoined, fjDue, fjEffects, fjCrashes>>

-----------------------------------------------------------------------------
(* The run loop around the fork (continue_runtime_loop). *)

OpenFork ==
  /\ fjDriver.at = "loop" /\ ~Overdue /\ fjRun = "running" /\ fjJoin = "unopened"
  /\ fjJoin' = "pending"
  /\ UNCHANGED <<fjJoined, fjRun, fjBranch, fjScript, fjDue, fjDriver, fjEffects, fjCrashes>>

EnterFork ==
  /\ fjDriver.at = "loop" /\ ~Overdue /\ fjRun = "running" /\ ReadyFork
  /\ fjDriver' = DriverAt("fork")
  /\ UNCHANGED <<fjJoined, fjRun, fjJoin, fjBranch, fjScript, fjDue, fjEffects, fjCrashes>>

\* The only ready node is a script: execute_script_node.
RunSingleScript ==
  /\ fjDriver.at = "loop" /\ ~Overdue /\ ~ReadyFork /\ ReadyCount = 1
  /\ \E n \in ReadyScripts :
       /\ StartScript(n)
       /\ fjDriver' = [DriverAt("script") EXCEPT !.active = {n}]
  /\ UNCHANGED <<fjJoined, fjRun, fjJoin, fjBranch, fjDue, fjCrashes>>

(* The handler of a failure that a fork owns is not the run loop: it ends  *)
(* in an error (settle_script_attempt_failure).                            *)
SingleScriptEnds ==
  /\ fjDriver.at = "script" /\ ~Overdue
  /\ \E n \in fjDriver.active :
       /\ ScriptOutcome(n)
       /\ IF fjScript'[n].status = "succeeded" \/ fjScript'[n].retry = "later"
               \/ fjRun = "cancelling"
            THEN fjDriver' = DriverAt("loop")
            ELSE ForkDriverFails
  /\ UNCHANGED <<fjJoined, fjJoin, fjBranch, fjDue, fjCrashes>>

\* engine.workflow-settlement.
SettleWorkflow ==
  /\ fjDriver.at = "loop" /\ ~Overdue /\ ~ReadyFork /\ SettlementReady /\ ReadyCount = 1
  /\ fjRun' = IF \E n \in ForkScripts : FinallyFailed(n) THEN "failed" ELSE "succeeded"
  /\ fjDriver' = DriverAt("returned")
  /\ UNCHANGED <<fjJoined, fjJoin, fjBranch, fjScript, fjDue, fjEffects, fjCrashes>>

(* Nothing the loop can execute: the driver waits for a retry, or leaves   *)
(* the run as it is.                                                       *)
LeaveLoop ==
  /\ fjDriver.at = "loop" /\ ~Overdue
  /\ \/ fjRun = "cancelling" /\ fjDriver' = DriverAt("settling")
     \/ ~ForkRunOpen /\ fjDriver' = DriverAt("returned")
     \/ /\ fjRun = "running" /\ fjJoin # "unopened" /\ ~ReadyFork
        /\ IF ReadyCount = 0
             THEN \A n \in ForkScripts : fjScript[n].retry = "no"
             ELSE ReadyCount > 1 \/ ReadyTerminals # {} \/ JoinReady
        /\ fjDriver' = DriverAt("returned")
  /\ UNCHANGED <<fjJoined, fjRun, fjJoin, fjBranch, fjScript, fjDue, fjEffects, fjCrashes>>

-----------------------------------------------------------------------------
(* execute_fork. *)

\* The top of its loop; todo: the branches whose terminals are ready.
ForkPass ==
  /\ fjDriver.at = "fork" /\ ~Overdue
  /\ fjDriver' = IF fjRun = "cancelling" /\ fjDriver.active = {} THEN DriverAt("settling")
                 ELSE [fjDriver EXCEPT !.at = "succeeded", !.todo = ReadyTerminals]
  /\ UNCHANGED <<fjJoined, fjRun, fjJoin, fjBranch, fjScript, fjDue, fjEffects, fjCrashes>>

\* Branches whose route is complete, and then branches with a final failure.
SettleBranch ==
  /\ \/ /\ fjDriver.at = "succeeded"
        /\ IF fjDriver.todo = {}
             THEN /\ fjDriver' = [fjDriver EXCEPT !.at = "failed",
                       !.todo = {b \in Unsettled : FinallyFailed(b)}]
                  /\ UNCHANGED fjBranch
             ELSE LET b == Min(fjDriver.todo) IN
                  /\ fjBranch' = [fjBranch EXCEPT ![b] = "succeeded"]
                  /\ fjDriver' = [fjDriver EXCEPT !.todo = @ \ {b}]
     \/ /\ fjDriver.at = "failed"
        /\ IF fjDriver.todo = {}
             THEN fjDriver' = [fjDriver EXCEPT !.at = "join"] /\ UNCHANGED fjBranch
             ELSE LET b == Min(fjDriver.todo) IN
                  /\ fjBranch' = [fjBranch EXCEPT ![b] = fjScript[b].status]
                  /\ fjDriver' = [fjDriver EXCEPT !.todo = @ \ {b}]
  /\ UNCHANGED <<fjJoined, fjRun, fjJoin, fjScript, fjDue, fjEffects, fjCrashes>>

(* The first joined branch that did not succeed decides the join, before   *)
(* the others have settled.                                                *)
SettleJoin ==
  LET blockers == {b \in fjJoined : fjBranch[b] \in {"failed", "cancelled"}} IN
  /\ fjDriver.at = "join"
  /\ fjJoin' = CASE fjJoin # "pending" -> fjJoin
                 [] fjJoin = "pending" /\ blockers # {} -> fjBranch[Min(blockers)]
                 [] fjJoin = "pending" /\ blockers = {} /\ fjJoined \cap Unsettled = {} ->
                      "succeeded"
                 [] OTHER -> fjJoin
  /\ fjDriver' = [fjDriver EXCEPT !.at = "finish"]
  /\ UNCHANGED <<fjJoined, fjRun, fjBranch, fjScript, fjDue, fjEffects, fjCrashes>>

\* Fault: the fork ends the run with its main result, whatever branches are still open.
FinishOnMainResult ==
  /\ fjDriver.at = "finish"
  /\ IF fjRun = "running" /\ fjScript[Main].status = "succeeded"
       THEN fjRun' = "succeeded" /\ fjDriver' = DriverAt("returned")
       ELSE /\ UNCHANGED fjRun
            /\ fjDriver' = [fjDriver EXCEPT !.at = "start",
                 !.todo = {n \in ReadyScripts \ fjDriver.active : n = Main \/ n \in Unsettled}]
  /\ UNCHANGED <<fjJoined, fjJoin, fjBranch, fjScript, fjDue, fjEffects, fjCrashes>>

(* Every branch settled and nothing active: a failure ends the run when    *)
(* the join failed or the main result is recorded, and otherwise the fork  *)
(* is left to the run loop.                                                *)
FinishFork ==
  /\ fjDriver.at = "finish"
  /\ IF Unsettled = {} /\ fjDriver.active = {}
       THEN IF fjRun = "running" /\ (\E n \in ForkScripts : FinallyFailed(n))
                 /\ (fjJoin # "succeeded" \/ fjScript[Main].status = "succeeded")
              THEN fjRun' = "failed" /\ fjDriver' = DriverAt("returned")
              ELSE UNCHANGED fjRun /\ fjDriver' = DriverAt("loop")
       ELSE /\ UNCHANGED fjRun
            /\ fjDriver' = [fjDriver EXCEPT !.at = "start",
                 !.todo = {n \in ReadyScripts \ fjDriver.active : n = Main \/ n \in Unsettled}]
  /\ UNCHANGED <<fjJoined, fjJoin, fjBranch, fjScript, fjDue, fjEffects, fjCrashes>>

(* step_attempt_started is refused once the run is being cancelled.  With  *)
(* nothing to await, the driver sleeps until a retry is due or gives up.   *)
StartForkScripts ==
  /\ fjDriver.at = "start"
  /\ IF fjDriver.todo = {}
       THEN /\ fjDriver' = CASE fjDriver.active # {} -> [fjDriver EXCEPT !.at = "await"]
                             [] /\ fjDriver.active = {}
                                /\ \E n \in ForkScripts : fjScript[n].retry # "no" ->
                                  DriverAt("fork")
                             [] OTHER ->
                                  DriverAt(IF fjRun = "cancelling" THEN "settling"
                                                                   ELSE "returned")
            /\ UNCHANGED <<fjScript, fjEffects>>
       ELSE \E n \in fjDriver.todo :
            IF fjRun = "running"
              THEN /\ StartScript(n)
                   /\ fjDriver' = [fjDriver EXCEPT !.todo = @ \ {n}, !.active = @ \cup {n}]
              ELSE /\ fjDriver' = DriverAt("settling")
                   /\ UNCHANGED <<fjScript, fjEffects>>
  /\ UNCHANGED <<fjJoined, fjRun, fjJoin, fjBranch, fjDue, fjCrashes>>

ForkScriptEnds ==
  /\ fjDriver.at = "await"
  /\ \E n \in fjDriver.active :
       /\ ScriptOutcome(n)
       /\ IF fjRun' = "failed" THEN ForkDriverFails
          ELSE fjDriver' = [fjDriver EXCEPT !.at = "fork", !.active = @ \ {n}]
  /\ UNCHANGED <<fjJoined, fjJoin, fjBranch, fjDue, fjCrashes>>

-----------------------------------------------------------------------------
(* settle_cancelling_run and settle_open_fork_cancellation: attempts,      *)
(* branches in document order, the join, and the outcome, each an append.  *)

SettleForkCancellation ==
  LET started == {n \in ForkScripts : fjScript[n].status = "started"} IN
  /\ fjDriver.at = "settling" /\ fjRun = "cancelling"
  /\ CASE started # {} ->
            /\ \E n \in started : FailScript(n, "cancelled")
            /\ UNCHANGED <<fjJoin, fjBranch, fjDriver>>
       [] started = {} /\ fjJoin # "unopened" /\ Unsettled # {} ->
            /\ fjBranch' = [fjBranch EXCEPT ![Min(Unsettled)] = "cancelled"]
            /\ UNCHANGED <<fjRun, fjJoin, fjScript, fjEffects, fjDriver>>
       [] started = {} /\ Unsettled = {} /\ fjJoin = "pending" ->
            /\ IF BlamedBranchCancelled(fjBranch)
                 THEN /\ fjJoin' = IF fjJoined = {} THEN "succeeded" ELSE "cancelled"
                      /\ UNCHANGED fjDriver
                 ELSE fjDriver' = DriverAt("returned") /\ UNCHANGED fjJoin
            /\ UNCHANGED <<fjRun, fjBranch, fjScript, fjEffects>>
       [] OTHER ->
            /\ fjRun' = "cancelled"
            /\ fjDriver' = DriverAt("returned")
            /\ UNCHANGED <<fjJoin, fjBranch, fjScript, fjEffects>>
  /\ UNCHANGED <<fjJoined, fjDue, fjCrashes>>

RequestForkCancellation ==
  /\ fjRun = "running"
  /\ fjRun' = "cancelling"
  /\ UNCHANGED <<fjJoined, fjJoin, fjBranch, fjScript, fjDue, fjDriver, fjEffects, fjCrashes>>

-----------------------------------------------------------------------------
(* Crash and recovery. *)

CrashForkProcess ==
  /\ fjDriver.at \notin {"none", "gone"} /\ fjCrashes < MaxForkCrashes
  /\ fjDriver' = DriverAt("gone")
  /\ fjCrashes' = fjCrashes + 1
  /\ UNCHANGED <<fjJoined, fjRun, fjJoin, fjBranch, fjScript, fjDue, fjEffects>>

\* Fault: an attempt without an outcome is scheduled again.
RescheduleInterrupted ==
  [n \in ForkScripts |->
     IF fjScript[n].status = "started" /\ fjScript[n].attempt < ForkAttempts
       THEN [fjScript[n] EXCEPT !.status = "failed", !.retry = "later"] ELSE fjScript[n]]

\* Attempts without a terminal event fail, and are not repeated.
InterruptedScripts ==
  [n \in ForkScripts |->
     IF fjScript[n].status = "started" THEN [fjScript[n] EXCEPT !.status = "failed"]
                                       ELSE fjScript[n]]

(* recover_run.  An interrupted attempt fails the run unless the join is   *)
(* pending; validation refuses that while a branch is open, and startup    *)
(* then fails.  A failure recorded before the crash ends the run without   *)
(* that validation.                                                        *)
RecoverForkRun ==
  LET interrupted == \E n \in ForkScripts : fjScript[n].status = "started"
      retrying == \E n \in ForkScripts : fjScript[n].retry # "no"
      failed == \E n \in ForkScripts : fjScript[n].status \in {"failed", "cancelled"}
  IN
  /\ fjDriver.at = "gone"
  /\ CASE fjRun = "running" /\ interrupted ->
            /\ fjJoin = "pending" \/ Unsettled = {}
            /\ fjScript' = InterruptedScripts
            /\ fjRun' = IF fjJoin = "pending" THEN fjRun ELSE "failed"
       [] fjRun = "running" /\ ~interrupted /\ ~retrying /\ failed ->
            fjRun' = "failed" /\ UNCHANGED fjScript
       [] OTHER -> UNCHANGED <<fjRun, fjScript>>
  /\ fjDriver' = DriverAt("none")
  /\ UNCHANGED <<fjJoined, fjJoin, fjBranch, fjDue, fjEffects, fjCrashes>>

ResumeForkRun ==
  /\ fjDriver.at = "none" /\ ForkRunOpen
  /\ fjDriver' = DriverAt("loop")
  /\ UNCHANGED <<fjJoined, fjRun, fjJoin, fjBranch, fjScript, fjDue, fjEffects, fjCrashes>>

ForkNext ==
  \/ \E n \in ForkScripts : RetryComesDue(n)
  \/ DeadlinePasses \/ SettleForkTimeout
  \/ OpenFork \/ EnterFork \/ RunSingleScript \/ SingleScriptEnds \/ SettleWorkflow \/ LeaveLoop
  \/ ForkPass \/ SettleBranch \/ SettleJoin \/ FinishFork \/ StartForkScripts \/ ForkScriptEnds
  \/ SettleForkCancellation \/ RequestForkCancellation
  \/ CrashForkProcess \/ RecoverForkRun \/ ResumeForkRun

ForkSpec == ForkInit /\ [][ForkNext]_fjVars

-----------------------------------------------------------------------------
(* Properties. *)

(***************************************************************************)
(* A run succeeds only as a whole: the main route ran behind a successful  *)
(* join, and every owned branch, joined or not, has settled as succeeded   *)
(* ("a partial main-route value is never printed as a successful result",  *)
(* docs/language-reference.md:1876), whatever crashes, retries and         *)
(* cancellations came between (execute_fork, engine.workflow-settlement).  *)
(***************************************************************************)
SuccessIsWhole ==
  fjRun = "succeeded" =>
    /\ fjScript[Main].status = "succeeded" /\ fjJoin = "succeeded"
    /\ \A b \in ForkBranches : fjBranch[b] = "succeeded"

(***************************************************************************)
(* Joined failure keeps the main route from running: its script has an     *)
(* attempt only if every joined branch durably succeeded, and no script is *)
(* executed again after an attempt that is not known to have thrown, in a  *)
(* process that crashed included (execute_fork, recover_run).              *)
(***************************************************************************)
ForkRunsOnce ==
  /\ fjScript[Main].attempt > 0 => \A b \in fjJoined : fjBranch[b] = "succeeded"
  /\ \A n \in ForkScripts : Cardinality(fjEffects[n]) <= 1

(***************************************************************************)
(* A run ends only after every branch of an opened fork ("The run itself   *)
(* becomes terminal only after every opened branch settles",               *)
(* docs/language-reference.md:1874).  recover_run breaks it: see README.   *)
(***************************************************************************)
OutcomeAfterBranches ==
  ~ForkRunOpen /\ fjJoin # "unopened" => Unsettled = {} /\ fjJoin # "pending"

(***************************************************************************)
(* The driver gives a run up only when the run has ended.  A failed main   *)
(* route with unjoined branches, a restart behind a settled join, and a    *)
(* join whose first branch had ended break it: see README.                 *)
(***************************************************************************)
DriverLeavesEndedRuns == fjDriver.at = "returned" => ~ForkRunOpen
===============================================================================
