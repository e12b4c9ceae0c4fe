----------------------------- MODULE ParallelGroup -----------------------------
(***************************************************************************)
(* One parallel group of a run, fail-fast or wait-all, with a concurrency  *)
(* cap and retries of its children (runtime/control_flow/parallel.rs).     *)
(* Every append is validated against the definition before it commits      *)
(* (engine/history.rs); the driver, a request to cancel the run, the       *)
(* deadline of the workflow and the death of the process interleave        *)
(* between appends.                                                        *)
(* Left out: children that are durable waits, sagas around the group and   *)
(* hooks of reusable children.                                             *)
(***************************************************************************)
EXTENDS Integers, FiniteSets, FiniteSetsExt

CONSTANTS
  GroupSize,         \* number of children
  GroupConcurrency,  \* the group's concurrency cap
  GroupAttempts,     \* attempts of the retry policy of every child
  MaxGroupCrashes    \* bound on crashes of the process

ASSUME GroupAssumption ==
  /\ GroupSize \in Nat \ {0} /\ GroupConcurrency \in Nat \ {0}
  /\ GroupAttempts \in Nat \ {0} /\ MaxGroupCrashes \in Nat

\* Children in document order.
Children == 1..GroupSize

VARIABLES
  pgPolicy,    \* failure policy of the group
  pgRun,       \* status of the run
  pgGroup,     \* status of the group
  pgChild,     \* latest attempt of each child
  pgDue,       \* whether the deadline of the workflow has passed
  pgDriver,    \* the driver of the run
  pgEffects,   \* attempts that may have had an effect (history variable)
  pgCrashes

pgVars == <<pgPolicy, pgRun, pgGroup, pgChild, pgDue, pgDriver, pgEffects, pgCrashes>>

ChildNotStarted == [attempt |-> 0, status |-> "none", retry |-> "no"]
GroupDriverAt(step) == [at |-> step, ready |-> {}, active |-> {}, closed |-> FALSE]

GroupTypeOK ==
  /\ pgPolicy \in {"fail-fast", "wait-all"}
  /\ pgRun \in {"running", "cancelling", "cancelled", "failed", "succeeded"}
  /\ pgGroup \in {"unopened", "started", "succeeded", "failed"}
  /\ pgChild \in [Children ->
       [attempt : 0..GroupAttempts,
        status : {"none", "started", "succeeded", "failed", "cancelled"},
        retry : {"no", "later", "due"}]]
  /\ pgDue \in BOOLEAN
  /\ pgDriver \in [at : {"gone", "none", "loop", "group", "failing", "settling", "returned"},
                   ready : SUBSET Children, active : SUBSET Children, closed : BOOLEAN]
  /\ pgEffects \in [Children -> SUBSET (1..GroupAttempts)]
  /\ pgCrashes \in 0..MaxGroupCrashes

GroupInit ==
  /\ pgPolicy \in {"fail-fast", "wait-all"}
  /\ pgRun = "running"
  /\ pgGroup = "unopened"
  /\ pgChild = [c \in Children |-> ChildNotStarted]
  /\ pgDue = FALSE
  /\ pgDriver = GroupDriverAt("loop")
  /\ pgEffects = [c \in Children |-> {}]
  /\ pgCrashes = 0

-----------------------------------------------------------------------------
(* What the durable history says of the children. *)

GroupRunOpen == pgRun \in {"running", "cancelling"}
GroupOverdue == pgDue /\ pgRun = "running"

WithStatus(s) == {c \in Children : pgChild[c].status = s}
Retrying == {c \in Children : pgChild[c].retry # "no"}
FailedChildren == WithStatus("failed") \ Retrying
CancelledChildren == WithStatus("cancelled")
SettledChildren == WithStatus("succeeded") \cup FailedChildren \cup CancelledChildren

\* candidate_is_ready, of the children of a group whose start is complete.
ReadyChildren ==
  IF pgRun = "running" /\ pgGroup = "started"
    THEN {c \in Children : pgChild[c].status = "none" \/ pgChild[c].retry = "due"}
    ELSE {}

\* Fault: the completion of a group is not compared with its children.
AnyCompletion(outcome, failed, cancelled) == TRUE

\* ParallelGroupCompleted, compared with the outcomes of the children.
CompletionValid(outcome, failed, cancelled) ==
  /\ failed = FailedChildren /\ cancelled = CancelledChildren
  /\ CASE outcome = "succeeded" -> WithStatus("succeeded") = Children
       [] outcome = "failed" /\ pgPolicy = "wait-all" -> SettledChildren = Children
       [] outcome = "failed" /\ pgPolicy = "fail-fast" -> WithStatus("started") = {}

(* The driver returns an error and drops its futures; continue_runtime     *)
(* then settles a run that is being cancelled.                             *)
GroupDriverFails ==
  pgDriver' = GroupDriverAt(IF pgRun = "cancelling" THEN "settling" ELSE "returned")

-----------------------------------------------------------------------------
(* The run loop around the group. *)

OpenGroup ==
  /\ pgDriver.at = "loop" /\ ~GroupOverdue /\ pgRun = "running" /\ pgGroup = "unopened"
  /\ pgGroup' = "started"
  /\ UNCHANGED <<pgPolicy, pgRun, pgChild, pgDue, pgDriver, pgEffects, pgCrashes>>

\* The group runs with the children that are ready when it is entered.
EnterGroup ==
  /\ pgDriver.at = "loop" /\ ~GroupOverdue /\ ReadyChildren # {}
  /\ pgDriver' = [GroupDriverAt("group") EXCEPT !.ready = ReadyChildren]
  /\ UNCHANGED <<pgPolicy, pgRun, pgGroup, pgChild, pgDue, pgEffects, pgCrashes>>

\* The node behind the group publishes the result of the run.
PublishResult ==
  /\ pgDriver.at = "loop" /\ ~GroupOverdue /\ pgRun = "running" /\ pgGroup = "succeeded"
  /\ pgRun' = "succeeded"
  /\ pgDriver' = GroupDriverAt("returned")
  /\ UNCHANGED <<pgPolicy, pgGroup, pgChild, pgDue, pgEffects, pgCrashes>>

\* No node is ready and no retry is pending: the loop gives the run up.
LeaveGroupLoop ==
  /\ pgDriver.at = "loop" /\ ~GroupOverdue
  /\ \/ pgRun = "cancelling" /\ pgDriver' = GroupDriverAt("settling")
     \/ ~GroupRunOpen /\ pgDriver' = GroupDriverAt("returned")
     \/ /\ pgRun = "running" /\ pgGroup \in {"started", "failed"}
        /\ ReadyChildren = {} /\ Retrying = {}
        /\ pgDriver' = GroupDriverAt("returned")
  /\ UNCHANGED <<pgPolicy, pgRun, pgGroup, pgChild, pgDue, pgEffects, pgCrashes>>

ChildRetryComesDue(c) ==
  /\ pgChild[c].retry = "later"
  /\ pgChild' = [pgChild EXCEPT ![c].retry = "due"]
  /\ UNCHANGED <<pgPolicy, pgRun, pgGroup, pgDue, pgDriver, pgEffects, pgCrashes>>

GroupDeadlinePasses ==
  /\ ~pgDue
  /\ pgDue' = TRUE
  /\ UNCHANGED <<pgPolicy, pgRun, pgGroup, pgChild, pgDriver, pgEffects, pgCrashes>>

\* settle_run_timeout leaves the group as it is.
SettleGroupTimeout ==
  /\ pgDriver.at \in {"loop", "group"} /\ GroupOverdue
  /\ pgRun' = "failed"
  /\ pgChild' = [c \in Children |->
       IF pgChild[c].status = "started" THEN [pgChild[c] EXCEPT !.status = "failed"]
                                        ELSE pgChild[c]]
  /\ pgDriver' = GroupDriverAt("returned")
  /\ UNCHANGED <<pgPolicy, pgGroup, pgDue, pgEffects, pgCrashes>>

-----------------------------------------------------------------------------
(* execute_parallel_group. *)

\* The condition of the loop that starts children.
MayStartChild ==
  /\ ~pgDriver.closed /\ pgRun = "running"
  /\ Cardinality(pgDriver.active) < GroupConcurrency

StartChild ==
  LET startable == pgDriver.ready \cap ReadyChildren IN
  /\ pgDriver.at = "group" /\ MayStartChild /\ startable # {}
  /\ LET c == Min(startable) IN
     /\ pgChild' = [pgChild EXCEPT ![c] =
          [attempt |-> @.attempt + 1, status |-> "started", retry |-> "no"]]
     /\ pgEffects' = [pgEffects EXCEPT ![c] = @ \cup {pgChild[c].attempt + 1}]
     /\ pgDriver' = [pgDriver EXCEPT !.active = @ \cup {c}]
  /\ UNCHANGED <<pgPolicy, pgRun, pgGroup, pgDue, pgCrashes>>

(* A cancellation that commits after the driver looked at the run: the     *)
(* start of the child is refused, and the group with it.                   *)
StartChildRefused ==
  /\ pgDriver.at = "group" /\ ~pgDriver.closed /\ pgRun = "cancelling"
  /\ Cardinality(pgDriver.active) < GroupConcurrency
  /\ \E c \in pgDriver.ready : pgChild[c].status = "none" \/ pgChild[c].retry = "due"
  /\ GroupDriverFails
  /\ UNCHANGED <<pgPolicy, pgRun, pgGroup, pgChild, pgDue, pgEffects, pgCrashes>>

\* What a child's failure records: only a script that threw is retried.
ChildFails(c, kind) ==
  LET retried == kind = "threw" /\ pgChild[c].attempt < GroupAttempts IN
  /\ pgChild' = [pgChild EXCEPT ![c] =
       [@ EXCEPT !.status = IF kind = "cancelled" THEN kind ELSE "failed",
                 !.retry = IF retried THEN "later" ELSE "no"]]
  /\ pgEffects' = IF kind = "threw"
                    THEN [pgEffects EXCEPT ![c] = @ \ {pgChild[c].attempt}] ELSE pgEffects

(* The next completion.  A cancelled run overrides the host's answer; a    *)
(* final failure closes a fail-fast group and cancels its active siblings, *)
(* which may still answer otherwise.                                       *)
ChildEnds ==
  /\ pgDriver.at = "group" /\ ~GroupOverdue
  /\ \E c \in pgDriver.active :
       \/ /\ pgRun = "cancelling"
          /\ ChildFails(c, "cancelled")
          /\ pgDriver' = [pgDriver EXCEPT !.active = @ \ {c}]
       \/ /\ pgRun = "running"
          /\ pgChild' = [pgChild EXCEPT ![c].status = "succeeded"]
          /\ pgDriver' = [pgDriver EXCEPT !.active = @ \ {c}]
          /\ UNCHANGED pgEffects
       \/ /\ pgRun = "running"
          /\ \E kind \in {"threw", "crashed"} \cup (IF pgDriver.closed THEN {"cancelled"} ELSE {}) :
               /\ ChildFails(c, kind)
               /\ pgDriver' = [pgDriver EXCEPT !.active = @ \ {c},
                    !.closed = @ \/ /\ pgPolicy = "fail-fast" /\ kind # "cancelled"
                                    /\ pgChild'[c].retry = "no"]
  /\ UNCHANGED <<pgPolicy, pgRun, pgGroup, pgDue, pgCrashes>>

GroupMustFail ==
  /\ FailedChildren # {}
  /\ pgPolicy = "wait-all" => SettledChildren = Children

(* Nothing is active and nothing may start: the group settles, or goes     *)
(* back to the loop until a retry is due.                                  *)
SettleGroup ==
  /\ pgDriver.at = "group" /\ ~GroupOverdue /\ pgDriver.active = {}
  /\ ~(MayStartChild /\ pgDriver.ready \cap ReadyChildren # {})
  /\ CASE pgRun = "cancelling" ->
            pgDriver' = GroupDriverAt("loop") /\ UNCHANGED pgGroup
       [] pgRun # "cancelling" /\ WithStatus("succeeded") = Children ->
            /\ CompletionValid("succeeded", {}, {})
            /\ pgGroup' = "succeeded" /\ pgDriver' = GroupDriverAt("loop")
       [] pgRun # "cancelling" /\ GroupMustFail ->
            IF CompletionValid("failed", FailedChildren, CancelledChildren)
              THEN pgGroup' = "failed" /\ pgDriver' = GroupDriverAt("failing")
              ELSE GroupDriverFails /\ UNCHANGED pgGroup
       [] OTHER ->
            /\ pgDriver' = GroupDriverAt(IF Retrying = {} THEN "returned" ELSE "loop")
            /\ UNCHANGED pgGroup
  /\ UNCHANGED <<pgPolicy, pgRun, pgChild, pgDue, pgEffects, pgCrashes>>

\* run_failed, an append of its own, is refused once the run is being cancelled.
FailRun ==
  /\ pgDriver.at = "failing"
  /\ IF pgRun = "running" THEN pgRun' = "failed" /\ pgDriver' = GroupDriverAt("returned")
                          ELSE UNCHANGED pgRun /\ GroupDriverFails
  /\ UNCHANGED <<pgPolicy, pgGroup, pgChild, pgDue, pgEffects, pgCrashes>>

-----------------------------------------------------------------------------
(* Cancellation. *)

RequestGroupCancellation ==
  /\ pgRun = "running"
  /\ pgRun' = "cancelling"
  /\ UNCHANGED <<pgPolicy, pgGroup, pgChild, pgDue, pgDriver, pgEffects, pgCrashes>>

(* settle_cancelling_run: attempts, then the group, then the outcome, each *)
(* an append.  It counts a child with a pending retry as failed, and       *)
(* completes a wait-all group whose children have not all started:         *)
(* validation refuses both.                                                *)
SettleGroupCancellation ==
  LET started == WithStatus("started") IN
  /\ pgDriver.at = "settling" /\ pgRun = "cancelling"
  /\ CASE started # {} ->
            /\ ChildFails(Min(started), "cancelled")
            /\ UNCHANGED <<pgRun, pgGroup, pgDriver>>
       [] started = {} /\ pgGroup = "started"
            /\ WithStatus("failed") \cup CancelledChildren # {} ->
            /\ IF CompletionValid("failed", WithStatus("failed"), CancelledChildren)
                 THEN pgGroup' = "failed" /\ UNCHANGED pgDriver
                 ELSE pgDriver' = GroupDriverAt("returned") /\ UNCHANGED pgGroup
            /\ UNCHANGED <<pgRun, pgChild, pgEffects>>
       [] OTHER ->
            /\ pgRun' = "cancelled"
            /\ pgDriver' = GroupDriverAt("returned")
            /\ UNCHANGED <<pgGroup, pgChild, pgEffects>>
  /\ UNCHANGED <<pgPolicy, pgDue, pgCrashes>>

-----------------------------------------------------------------------------
(* Crash and recovery. *)

CrashGroupProcess ==
  /\ pgDriver.at \notin {"gone", "none"} /\ pgCrashes < MaxGroupCrashes
  /\ pgDriver' = GroupDriverAt("gone")
  /\ pgCrashes' = pgCrashes + 1
  /\ UNCHANGED <<pgPolicy, pgRun, pgGroup, pgChild, pgDue, pgEffects>>

(* recover_run: interrupted attempts fail the run; otherwise a group whose *)
(* children decide it is completed, with the run's failure; otherwise the  *)
(* run is resumed.                                                         *)
RecoverGroupRun ==
  LET interrupted == WithStatus("started") # {} IN
  /\ pgDriver.at = "gone"
  /\ CASE pgRun = "running" /\ interrupted ->
            /\ pgChild' = [c \in Children |->
                 IF pgChild[c].status = "started" THEN [pgChild[c] EXCEPT !.status = "failed"]
                                                  ELSE pgChild[c]]
            /\ pgRun' = "failed" /\ UNCHANGED pgGroup
       [] pgRun = "running" /\ pgGroup = "started" /\ WithStatus("succeeded") = Children ->
            pgGroup' = "succeeded" /\ UNCHANGED <<pgRun, pgChild>>
       [] pgRun = "running" /\ ~interrupted /\ pgGroup = "started" /\ GroupMustFail ->
            pgGroup' = "failed" /\ pgRun' = "failed" /\ UNCHANGED pgChild
       [] OTHER -> UNCHANGED <<pgRun, pgGroup, pgChild>>
  /\ pgDriver' = GroupDriverAt("none")
  /\ UNCHANGED <<pgPolicy, pgDue, pgEffects, pgCrashes>>

ResumeGroupRun ==
  /\ pgDriver.at = "none" /\ GroupRunOpen
  /\ pgDriver' = GroupDriverAt("loop")
  /\ UNCHANGED <<pgPolicy, pgRun, pgGroup, pgChild, pgDue, pgEffects, pgCrashes>>

GroupNext ==
  \/ OpenGroup \/ EnterGroup \/ PublishResult \/ LeaveGroupLoop
  \/ \E c \in Children : ChildRetryComesDue(c)
  \/ GroupDeadlinePasses \/ SettleGroupTimeout
  \/ StartChild \/ StartChildRefused \/ ChildEnds \/ SettleGroup \/ FailRun
  \/ RequestGroupCancellation \/ SettleGroupCancellation
  \/ CrashGroupProcess \/ RecoverGroupRun \/ ResumeGroupRun

GroupSpec == GroupInit /\ [][GroupNext]_pgVars

-----------------------------------------------------------------------------
(* Properties. *)

(***************************************************************************)
(* The durable outcome of a group is that of its children: it succeeded    *)
(* only if every child succeeded, a wait-all group failed only when every  *)
(* child had ended, a fail-fast one when none was active, and only with a  *)
(* child to blame; a run that succeeded has a group that did (validation   *)
(* of parallel_group_completed, execute_parallel_group, recover_run).      *)
(***************************************************************************)
GroupOutcomeHonest ==
  /\ pgGroup = "succeeded" => WithStatus("succeeded") = Children
  /\ pgGroup = "failed" =>
       /\ FailedChildren \cup CancelledChildren # {} /\ WithStatus("started") = {}
       /\ pgPolicy = "wait-all" => SettledChildren = Children
  /\ pgRun = "succeeded" => pgGroup = "succeeded"

(***************************************************************************)
(* Once a child of a fail-fast group has failed for good, in this process  *)
(* or in an earlier one, no child is started or retried; no child starts   *)
(* beyond the cap, in a run that is being cancelled, or again after an     *)
(* attempt that is not known to have thrown (execute_parallel_group and    *)
(* the run loop that re-enters it).                                        *)
(***************************************************************************)
StartsAreSafe ==
  [][\A c \in Children :
       pgChild'[c].attempt > pgChild[c].attempt =>
         /\ pgPolicy = "fail-fast" => FailedChildren = {}
         /\ pgRun = "running" /\ pgEffects[c] = {}
         /\ Cardinality(WithStatus("started")) < GroupConcurrency]_pgVars

(***************************************************************************)
(* The driver gives a run up only when the run has ended.  The completion  *)
(* of a cancelled wait-all group, a pending retry in a cancelled group and *)
(* a crash before run_failed break it: see README.                         *)
(***************************************************************************)
GroupDriverEndsRun == pgDriver.at = "returned" => ~GroupRunOpen
===============================================================================
