---------------------------- MODULE LifecycleProofs ----------------------------
(***************************************************************************)
(* Proofs about the lifecycle hooks of a run, for any workflow definition, *)
(* any number of delivery attempts and any number of crashes: no action of *)
(* a hook runs twice, and a run ends only with every hook it calls for.    *)
(***************************************************************************)
EXTENDS Lifecycle, FiniteSetTheorems, WellFoundedInduction, SequenceTheorems, TLAPS

(* The least member of a set of naturals. *)
LEMMA LeastMember ==
  ASSUME NEW S \in SUBSET Nat, S # {}
  PROVE  /\ Min(S) \in S
         /\ \A k \in S : Min(S) <= k
<1>1. PICK m \in S : \A k \in S : ~(<<k, m>> \in OpToRel(<, Nat))
  BY WFMin, NatLessThanWellFounded, Zenon
<1>2. \A k \in S : m <= k
  <2> SUFFICES ASSUME NEW k \in S PROVE m <= k
    OBVIOUS
  <2>1. ~(k < m)
    BY <1>1 DEF OpToRel
  <2> QED BY <2>1
<1> QED BY <1>2 DEF Min

-----------------------------------------------------------------------------
(* The lifecycle hooks of a run. *)

ActionStatuses == {"started", "succeeded", "failed"}

HookRecords(d) == [event : DOMAIN d.hooks, actions : Seq(ActionStatuses), done : BOOLEAN]

(* The type invariant, with the hooks as a sequence of declared hooks. *)
LifecycleTypes ==
  /\ lcDef \in HookDefinitions
  /\ lcRun \in RunProjections
  /\ lcStep \in [attempt : 0..lcDef.attempts, status : StepStatuses]
  /\ lcWait \in {"none", "registered", "over", "cancelled"}
  /\ lcHooks \in Seq(HookRecords(lcDef))
  /\ lcOps \subseteq ActionKeys
  /\ lcReusable \in [ReusableHooks -> {"none", "requested", "active", "finished", "done"}]
  /\ lcDriver \in [at : DriverSteps, then : {"loop", "fail", "end"},
                   try : 0..SendAttempts,
                   answer : {"none", "succeeded", "failed", "cancelled", "retryable"}]
  /\ lcRan \in [ActionKeys -> Nat] /\ lcSent \in [ActionKeys -> Nat]
  /\ lcCrashes \in 0..MaxHookCrashes

(* The actions of a hook are recorded in source order, only the last can   *)
(* be without an outcome, and a hook that is done has recorded all.        *)
HookSound(d, h) ==
  /\ Len(h.actions) <= Len(d.hooks[h.event])
  /\ \A k \in DOMAIN h.actions : h.actions[k] = "started" => k = Len(h.actions) /\ ~h.done
  /\ h.done => Len(h.actions) = Len(d.hooks[h.event])

Requests(hs, e) == \E i \in DOMAIN hs : hs[i].event = e

(* A hook that is done has requested the one behind it. *)
FollowedUp(d, hs, h) ==
  h.done =>
    /\ h.event \in {"RunSuccess", "RunFailure", "RunCancel"} /\ "RunComplete" \in DOMAIN d.hooks
         => Requests(hs, "RunComplete")
    /\ h.event \in {"StepSuccess", "StepFailure"} /\ "StepComplete" \in DOMAIN d.hooks
         => Requests(hs, "StepComplete")

(* A hook is requested once, whichever append makes it due. *)
RequestedOnce(hs) == \A i, j \in DOMAIN hs : hs[i].event = hs[j].event => i = j

HooksShaped(d, hs) ==
  /\ hs \in Seq(HookRecords(d))
  /\ RequestedOnce(hs)
  /\ \A i \in DOMAIN hs : HookSound(d, hs[i])

HooksSound(d, hs) ==
  HooksShaped(d, hs) /\ \A i \in DOMAIN hs : FollowedUp(d, hs, hs[i])

(* Hooks that may be requested behind hs. *)
Fresh(d, hs, new) ==
  /\ new \in Seq(HookRecords(d))
  /\ RequestedOnce(new)
  /\ \A k \in DOMAIN new : /\ new[k].actions = <<>> /\ ~new[k].done
                           /\ ~Requests(hs, new[k].event)

(* An action that the records of its hook have reached. *)
Reached(hs, e, k) == \E i \in DOMAIN hs : hs[i].event = e /\ k <= Len(hs[i].actions)

(* The hook of a cancellation has no action before the outcome. *)
CancelIdle(hs) == \A i \in DOMAIN hs : hs[i].event = "RunCancel" => hs[i].actions = <<>>

(* What a definition declares. *)
LEMMA DefinitionFacts ==
  ASSUME lcDef \in HookDefinitions
  PROVE  /\ DOMAIN lcDef.hooks \subseteq HookEvents
         /\ \A e \in DOMAIN lcDef.hooks :
              /\ lcDef.hooks[e] \in Seq(ActionKinds)
              /\ Len(lcDef.hooks[e]) \in Nat \ {0}
         /\ lcDef.reusable \subseteq ReusableHooks
         /\ lcDef.attempts \in Nat \ {0}
<1>1. \A e \in DOMAIN lcDef.hooks : lcDef.hooks[e] \in Seq(ActionKinds) \ {<<>>}
  BY HookAssumption
<1>2. ASSUME NEW e \in DOMAIN lcDef.hooks PROVE Len(lcDef.hooks[e]) \in Nat \ {0}
  BY <1>1, EmptySeq
<1> QED BY <1>1, <1>2, HookAssumption

(* Elements of a sequence behind which others are appended. *)
LEMMA AppendedElements ==
  ASSUME NEW R, NEW hs \in Seq(R), NEW new \in Seq(R)
  PROVE  /\ hs \o new \in Seq(R)
         /\ \A i \in DOMAIN hs : i \in DOMAIN (hs \o new) /\ (hs \o new)[i] = hs[i]
         /\ \A i \in DOMAIN new : /\ Len(hs) + i \in DOMAIN (hs \o new)
                                  /\ (hs \o new)[Len(hs) + i] = new[i]
         /\ \A i \in DOMAIN (hs \o new) :
              i \in DOMAIN hs \/ \E k \in DOMAIN new : i = Len(hs) + k
<1>1. /\ hs \o new \in Seq(R) /\ Len(hs \o new) = Len(hs) + Len(new)
      /\ Len(hs) \in Nat /\ Len(new) \in Nat
      /\ DOMAIN hs = 1..Len(hs) /\ DOMAIN new = 1..Len(new)
      /\ DOMAIN (hs \o new) = 1..(Len(hs) + Len(new))
  BY ConcatProperties
<1>2. \A i \in 1..(Len(hs) + Len(new)) :
        (hs \o new)[i] = IF i <= Len(hs) THEN hs[i] ELSE new[i - Len(hs)]
  BY ConcatProperties
<1>3. ASSUME NEW i \in DOMAIN (hs \o new), i \notin DOMAIN hs
      PROVE  \E k \in DOMAIN new : i = Len(hs) + k
  <2>1. i - Len(hs) \in 1..Len(new) /\ i = Len(hs) + (i - Len(hs))
    BY <1>1, <1>3
  <2> QED BY <2>1, <1>1
<1>4. ASSUME NEW i \in DOMAIN new
      PROVE  /\ Len(hs) + i \in DOMAIN (hs \o new)
             /\ (hs \o new)[Len(hs) + i] = new[i]
  <2>1. Len(hs) + i \in 1..(Len(hs) + Len(new)) /\ ~(Len(hs) + i <= Len(hs))
        /\ (Len(hs) + i) - Len(hs) = i
    BY <1>1
  <2> QED BY <2>1, <1>1, <1>2
<1>5. ASSUME NEW i \in DOMAIN hs
      PROVE  i \in DOMAIN (hs \o new) /\ (hs \o new)[i] = hs[i]
  BY <1>1, <1>2
<1> QED BY <1>1, <1>3, <1>4, <1>5

(* Fresh hooks are appended. *)
LEMMA FreshAppended ==
  ASSUME NEW d, NEW hs, NEW new, HooksShaped(d, hs), Fresh(d, hs, new)
  PROVE  /\ HooksShaped(d, hs \o new)
         /\ \A i \in DOMAIN (hs \o new) : \/ i \in DOMAIN hs /\ (hs \o new)[i] = hs[i]
                                         \/ ~(hs \o new)[i].done
         /\ \A e : Requests(hs \o new, e) <=> Requests(hs, e) \/ Requests(new, e)
         /\ \A e : \A k \in Nat \ {0} : Reached(hs \o new, e, k) <=> Reached(hs, e, k)
         /\ CancelIdle(hs) => CancelIdle(hs \o new)
<1>1. hs \in Seq(HookRecords(d)) /\ new \in Seq(HookRecords(d))
  BY DEF HooksShaped, Fresh
<1>2. PICK all : all = hs \o new
  OBVIOUS
<1>3. PICK n : n = Len(hs)
  OBVIOUS
<1>4. n \in Nat /\ DOMAIN hs = 1..n /\ all \in Seq(HookRecords(d)) /\ DOMAIN new \subseteq Nat \ {0}
  <2>1. n \in Nat /\ DOMAIN hs = 1..n /\ DOMAIN new = 1..Len(new) /\ Len(new) \in Nat
    BY <1>1, <1>3
  <2> QED BY <2>1, <1>1, <1>2, AppendedElements
<1>5. \A i \in DOMAIN hs : i \in DOMAIN all /\ all[i] = hs[i]
  BY <1>1, <1>2, AppendedElements
<1>6. \A i \in DOMAIN new : n + i \in DOMAIN all /\ all[n + i] = new[i]
  BY <1>1, <1>2, <1>3, AppendedElements
<1>7. \A i \in DOMAIN all : i \in DOMAIN hs \/ \E k \in DOMAIN new : i = n + k
  BY <1>1, <1>2, <1>3, AppendedElements
<1>8. \A e : Requests(all, e) <=> Requests(hs, e) \/ Requests(new, e)
  BY <1>5, <1>6, <1>7 DEF Requests
<1>9. RequestedOnce(all)
  <2> SUFFICES ASSUME NEW i \in DOMAIN all, NEW j \in DOMAIN all, all[i].event = all[j].event
               PROVE  i = j
    BY DEF RequestedOnce
  <2>1. CASE i \in DOMAIN hs /\ j \in DOMAIN hs
    BY <2>1, <1>5 DEF HooksShaped, RequestedOnce
  <2>2. CASE i \in DOMAIN hs /\ j \notin DOMAIN hs
    BY <2>2, <1>5, <1>6, <1>7 DEF Fresh, Requests
  <2>3. CASE i \notin DOMAIN hs /\ j \in DOMAIN hs
    BY <2>3, <1>5, <1>6, <1>7 DEF Fresh, Requests
  <2>4. CASE i \notin DOMAIN hs /\ j \notin DOMAIN hs
    BY <2>4, <1>6, <1>7 DEF Fresh, RequestedOnce
  <2> QED BY <2>1, <2>2, <2>3, <2>4
<1>10. \A k \in DOMAIN new : HookSound(d, new[k])
  <2> SUFFICES ASSUME NEW k \in DOMAIN new PROVE HookSound(d, new[k])
    OBVIOUS
  <2>1. new[k].actions = <<>> /\ ~new[k].done /\ new[k] \in HookRecords(d)
    BY <1>1 DEF Fresh
  <2> QED BY <2>1 DEF HookSound
<1>11. \A i \in DOMAIN all : HookSound(d, all[i])
  BY <1>5, <1>6, <1>7, <1>10 DEF HooksShaped
<1>12. \A i \in DOMAIN all : (i \in DOMAIN hs /\ all[i] = hs[i]) \/ ~all[i].done
  BY <1>5, <1>6, <1>7 DEF Fresh
<1>13. \A k \in DOMAIN new : Len(new[k].actions) = 0
  BY DEF Fresh
<1>14. \A e : \A k \in Nat \ {0} : Reached(all, e, k) <=> Reached(hs, e, k)
  BY <1>5, <1>6, <1>7, <1>13 DEF Reached
<1>15. CancelIdle(hs) => CancelIdle(all)
  BY <1>5, <1>6, <1>7 DEF CancelIdle, Fresh
<1> QED BY <1>2, <1>4, <1>8, <1>9, <1>11, <1>12, <1>14, <1>15 DEF HooksShaped

(* The same, with what is requested behind a completed hook. *)
LEMMA RequestsAppended ==
  ASSUME NEW d, NEW hs, NEW new, HooksSound(d, hs), Fresh(d, hs, new)
  PROVE  /\ HooksSound(d, hs \o new)
         /\ \A e : Requests(hs \o new, e) <=> Requests(hs, e) \/ Requests(new, e)
         /\ \A e : \A k \in Nat \ {0} : Reached(hs \o new, e, k) <=> Reached(hs, e, k)
         /\ CancelIdle(hs) => CancelIdle(hs \o new)
<1>1. PICK all : all = hs \o new
  OBVIOUS
<1>2. HooksShaped(d, hs)
  BY DEF HooksSound
<1>3. /\ HooksShaped(d, all)
      /\ \A i \in DOMAIN all : (i \in DOMAIN hs /\ all[i] = hs[i]) \/ ~all[i].done
      /\ \A e : Requests(all, e) <=> Requests(hs, e) \/ Requests(new, e)
      /\ \A e : \A k \in Nat \ {0} : Reached(all, e, k) <=> Reached(hs, e, k)
      /\ CancelIdle(hs) => CancelIdle(all)
  BY <1>1, <1>2, FreshAppended
<1>4. \A i \in DOMAIN all : FollowedUp(d, all, all[i])
  BY <1>3 DEF HooksSound, FollowedUp
<1> QED BY <1>1, <1>3, <1>4 DEF HooksSound

(* One hook of hs is replaced by another record x of it. *)
Replaces(d, hs, p, x, new) ==
  /\ p \in DOMAIN hs /\ x \in HookRecords(d)
  /\ HookSound(d, x) /\ x.event = hs[p].event
  /\ new = [hs EXCEPT ![p] = x]

(* What a replaced record leaves as it was. *)
LEMMA HookReplaced ==
  ASSUME NEW d, NEW hs, NEW p, NEW x, NEW new, HooksSound(d, hs), Replaces(d, hs, p, x, new)
  PROVE  /\ new \in Seq(HookRecords(d)) /\ DOMAIN new = DOMAIN hs
         /\ new[p] = x /\ \A i \in DOMAIN hs \ {p} : new[i] = hs[i]
         /\ RequestedOnce(new)
         /\ \A i \in DOMAIN new : HookSound(d, new[i])
         /\ \A e : Requests(new, e) <=> Requests(hs, e)
<1>1. /\ hs \in Seq(HookRecords(d)) /\ p \in DOMAIN hs /\ x \in HookRecords(d)
      /\ HookSound(d, x) /\ x.event = hs[p].event /\ new = [hs EXCEPT ![p] = x]
  BY DEF HooksSound, HooksShaped, Replaces
<1>2. /\ new \in Seq(HookRecords(d)) /\ DOMAIN new = DOMAIN hs
      /\ new[p] = x /\ \A i \in DOMAIN hs \ {p} : new[i] = hs[i]
  BY <1>1
<1>3. \A i \in DOMAIN hs : new[i].event = hs[i].event
  BY <1>1, <1>2
<1>4. RequestedOnce(new) /\ \A e : Requests(new, e) <=> Requests(hs, e)
  BY <1>2, <1>3 DEF HooksSound, HooksShaped, RequestedOnce, Requests
<1>5. \A i \in DOMAIN new : HookSound(d, new[i])
  BY <1>1, <1>2 DEF HooksSound, HooksShaped
<1> QED BY <1>2, <1>4, <1>5

(* The hook stays open. *)
LEMMA OpenHookReplaced ==
  ASSUME NEW d, NEW hs, NEW p, NEW x, NEW new, HooksSound(d, hs), Replaces(d, hs, p, x, new),
         ~x.done
  PROVE  HooksSound(d, new)
<1>1. /\ new \in Seq(HookRecords(d)) /\ DOMAIN new = DOMAIN hs
      /\ new[p] = x /\ \A i \in DOMAIN hs \ {p} : new[i] = hs[i]
      /\ RequestedOnce(new)
      /\ \A i \in DOMAIN new : HookSound(d, new[i])
      /\ \A e : Requests(new, e) <=> Requests(hs, e)
  BY HookReplaced, Zenon
<1>2. ASSUME NEW i \in DOMAIN new PROVE FollowedUp(d, new, new[i])
  BY <1>1, <1>2 DEF HooksSound, FollowedUp
<1> QED BY <1>1, <1>2 DEF HooksSound, HooksShaped

(* The hook is completed and requests the ones behind it. *)
LEMMA HookCompleted ==
  ASSUME NEW d, NEW hs, NEW p, NEW x, NEW mid, NEW new,
         HooksSound(d, hs), Replaces(d, hs, p, x, mid), Fresh(d, hs, new),
         FollowedUp(d, new, x)
  PROVE  /\ HooksSound(d, mid \o new)
         /\ \A e : Requests(mid \o new, e) <=> Requests(hs, e) \/ Requests(new, e)
         /\ \A e : \A k \in Nat \ {0} : Reached(mid \o new, e, k) <=> Reached(mid, e, k)
         /\ CancelIdle(mid) => CancelIdle(mid \o new)
<1>1. PICK all : all = mid \o new
  OBVIOUS
<1>2. /\ mid \in Seq(HookRecords(d)) /\ DOMAIN mid = DOMAIN hs
      /\ mid[p] = x /\ \A i \in DOMAIN hs \ {p} : mid[i] = hs[i]
      /\ RequestedOnce(mid)
      /\ \A i \in DOMAIN mid : HookSound(d, mid[i])
      /\ \A e : Requests(mid, e) <=> Requests(hs, e)
  BY HookReplaced
<1>3. HooksShaped(d, mid) /\ Fresh(d, mid, new)
  BY <1>2 DEF HooksShaped, Fresh
<1>4. /\ HooksShaped(d, all)
      /\ \A i \in DOMAIN all : (i \in DOMAIN mid /\ all[i] = mid[i]) \/ ~all[i].done
      /\ \A e : Requests(all, e) <=> Requests(mid, e) \/ Requests(new, e)
      /\ \A e : \A k \in Nat \ {0} : Reached(all, e, k) <=> Reached(mid, e, k)
      /\ CancelIdle(mid) => CancelIdle(all)
  BY <1>1, <1>3, FreshAppended
<1>5. ASSUME NEW i \in DOMAIN all PROVE FollowedUp(d, all, all[i])
  <2>1. CASE i = p /\ all[i] = x
    BY <1>4, <2>1 DEF FollowedUp
  <2>2. CASE i \in DOMAIN hs /\ all[i] = hs[i]
    <3>1. FollowedUp(d, hs, all[i])
      BY <2>2 DEF HooksSound
    <3> QED BY <3>1, <1>2, <1>4 DEF FollowedUp
  <2>3. CASE ~all[i].done
    BY <2>3 DEF FollowedUp
  <2> QED BY <1>2, <1>4, <2>1, <2>2, <2>3
<1> QED BY <1>1, <1>2, <1>4, <1>5 DEF HooksSound

-----------------------------------------------------------------------------
(* The inductive invariant of the lifecycle. *)

Undecided == {"Running", "Waiting", "Cancelling"}

RunShape ==
  /\ lcRun.status \in Undecided \cup {"Finalizing"} \cup TerminalStatuses
  /\ lcRun.outcome = NoOutcome <=> lcRun.status \in Undecided
  /\ lcRun.status = "Cancelling" => lcRun.cancelRequested

(* A driver that may still decide the outcome of the run. *)
Decides == \/ lcDriver.at # "stopped" /\ lcDriver.then \in {"loop", "fail"}
           \/ lcDriver.at \in {"loop", "step", "recording"}

DriverShape ==
  /\ Decides => lcRun.status \in {"Running", "Cancelling"}
  /\ lcDriver.at \in {"step", "recording"} => lcStep.status = "started"
  /\ lcRun.status \in TerminalStatuses => lcDriver.at \in {"absent", "hooks"} /\ OpenHooks = {}
  /\ lcDriver.at = "delivering" => lcDriver.try < SendAttempts

StepShape ==
  /\ lcStep.status = "ready" <=> lcStep.attempt = 0
  /\ lcStep.status = "retry" => lcStep.attempt < lcDef.attempts

(* What a request says of the step and of the run. *)
RequestsSound(hs, step, run) ==
  /\ Requests(hs, "StepStart") => step.attempt > 0
  /\ Requests(hs, "StepSuccess") => step.status \in {"succeeded", "failed", "cancelled"}
  /\ Requests(hs, "StepFailure") => step.status \in {"succeeded", "failed", "cancelled"}
  /\ Requests(hs, "StepComplete") => step.status \in {"succeeded", "failed", "cancelled"}
  /\ Requests(hs, "RunSuccess") => run.outcome = "Succeeded"
  /\ Requests(hs, "RunFailure") => run.outcome = "Failed"
  /\ Requests(hs, "RunComplete") => run.outcome # NoOutcome
  /\ Requests(hs, "RunCancel") => run.cancelRequested
  /\ run.outcome = NoOutcome => CancelIdle(hs)

(* Of two candidates the first that is declared is requested. *)
OneRequested(d, hs, a, b) ==
  /\ a \in DOMAIN d.hooks => Requests(hs, a)
  /\ a \notin DOMAIN d.hooks /\ b \in DOMAIN d.hooks => Requests(hs, b)

(* What the step and the run say of the requests. *)
RequestsComplete(d, hs, step, run, wait) ==
  /\ "RunStart" \in DOMAIN d.hooks => Requests(hs, "RunStart")
  /\ step.attempt > 0 /\ "StepStart" \in DOMAIN d.hooks => Requests(hs, "StepStart")
  /\ step.status = "succeeded" => OneRequested(d, hs, "StepSuccess", "StepComplete")
  /\ step.status = "failed" => OneRequested(d, hs, "StepFailure", "StepComplete")
  /\ step.status = "cancelled" /\ "StepComplete" \in DOMAIN d.hooks => Requests(hs, "StepComplete")
  /\ run.outcome = "Succeeded" => OneRequested(d, hs, "RunSuccess", "RunComplete")
  /\ run.outcome = "Failed" => OneRequested(d, hs, "RunFailure", "RunComplete")
  /\ run.outcome = "Cancelled" =>
       \/ OneRequested(d, hs, "RunCancel", "RunComplete")
       \/ wait = "cancelled" /\ "RunCancel" \notin DOMAIN d.hooks

(* The driver is in the middle of the last recorded action of the pending hook. *)
Acts == lcDriver.at \in {"acting", "delivering", "sent", "received"}
RunningKind == lcDef.hooks[PendingEvent][Running]

(* The n messages of the action under way: no more than its attempts, and  *)
(* none of a built-in provider that may still be sent.                     *)
SendsTold(kind, driver, n) ==
  /\ driver.at \in {"delivering", "received"} => n <= driver.try
  /\ driver.at = "sent" => n < driver.try
  /\ kind # "custom" /\ (\/ driver.at \in {"delivering", "sent"}
                         \/ driver.at = "received" /\ driver.answer = "retryable") => n = 0

ActionUnderWay ==
  /\ Acts => OpenHooks # {} /\ lcHooks[PendingHook].actions # <<>>
  /\ Acts => SendsTold(RunningKind, lcDriver, lcSent[RunningKey])

(* An action that the records have not reached was not executed. *)
ActionsCounted(d, hs, ran, sent) ==
  \A e \in DOMAIN d.hooks : \A k \in 1..Len(d.hooks[e]) :
    /\ ran[<<e, k>>] <= 1 /\ sent[<<e, k>>] <= SendLimit(d, e, k)
    /\ ~Reached(hs, e, k) => ran[<<e, k>>] = 0 /\ sent[<<e, k>>] = 0

ReusableCounted(d, reusable, ran, sent) ==
  \A h \in d.reusable :
    /\ ran[<<h, 1>>] <= 1 /\ sent[<<h, 1>>] = 0
    /\ reusable[h] \in {"none", "requested"} => ran[<<h, 1>>] = 0

LifecycleInv ==
  /\ LifecycleTypes /\ HooksSound(lcDef, lcHooks)
  /\ RunShape /\ DriverShape /\ StepShape
  /\ RequestsSound(lcHooks, lcStep, lcRun)
  /\ RequestsComplete(lcDef, lcHooks, lcStep, lcRun, lcWait)
  /\ ActionUnderWay
  /\ ActionsCounted(lcDef, lcHooks, lcRan, lcSent)
  /\ ReusableCounted(lcDef, lcReusable, lcRan, lcSent)

(* What is read off the hooks while they stay as they are. *)
LEMMA SameHooks ==
  ASSUME LifecycleInv, UNCHANGED <<lcDef, lcHooks>>
  PROVE  /\ OpenHooks' = OpenHooks /\ PendingHook' = PendingHook /\ RunningKey' = RunningKey
         /\ RunningKind' = RunningKind
         /\ ActionKeys' = ActionKeys /\ HooksSound(lcDef, lcHooks)'
         /\ lcHooks' \in Seq(HookRecords(lcDef'))
<1>1. OpenHooks' = OpenHooks /\ ActionKeys' = ActionKeys
  BY DEF OpenHooks, ActionKeys, ActionsOf
<1>2. OpenStepHooks' = OpenStepHooks
  BY <1>1 DEF OpenStepHooks
<1>3. PendingHook' = PendingHook
  BY <1>1, <1>2 DEF PendingHook
<1>4. RunningKey' = RunningKey /\ RunningKind' = RunningKind
  BY <1>3 DEF RunningKey, RunningKind, PendingEvent, Running
<1> QED BY <1>1, <1>3, <1>4 DEF LifecycleInv, LifecycleTypes

(* A step of the driver alone. *)
LEMMA DriverStepKeeps ==
  ASSUME LifecycleInv,
         UNCHANGED <<lcDef, lcRun, lcStep, lcWait, lcHooks, lcOps, lcReusable, lcRan, lcSent>>,
         lcCrashes' \in 0..MaxHookCrashes,
         lcDriver' \in [at : DriverSteps, then : {"loop", "fail", "end"},
                        try : 0..SendAttempts,
                        answer : {"none", "succeeded", "failed", "cancelled", "retryable"}],
         DriverShape', ~Acts'
  PROVE  LifecycleInv'
<1>1. /\ OpenHooks' = OpenHooks /\ PendingHook' = PendingHook
      /\ ActionKeys' = ActionKeys /\ HooksSound(lcDef, lcHooks)'
  BY SameHooks
<1>2. LifecycleTypes'
  BY <1>1 DEF LifecycleInv, LifecycleTypes
<1>3. RunShape' /\ StepShape'
  BY DEF LifecycleInv, RunShape, StepShape
<1>4. ActionUnderWay'
  BY DEF ActionUnderWay, Acts
<1> QED BY <1>1, <1>2, <1>3, <1>4 DEF LifecycleInv

(* The actions that only move the driver: the hooks are left, the process stops or resumes. *)
LEMMA DriverMovesKeep ==
  ASSUME LifecycleInv
  PROVE  /\ LeaveHooks => LifecycleInv'
         /\ EnterReusable => LifecycleInv'
         /\ StepEnds => LifecycleInv'
         /\ Stall => LifecycleInv'
         /\ Crash => LifecycleInv'
         /\ Resume => LifecycleInv'
<1> USE DEF Driver, DriverSteps
<1>0. /\ LifecycleTypes /\ RunShape /\ DriverShape
      /\ SendAttempts \in Nat \ {0} /\ MaxHookCrashes \in Nat
  BY HookAssumption DEF LifecycleInv
<1>1. ASSUME LeaveHooks PROVE LifecycleInv'
  <2>1. OpenHooks' = OpenHooks
    BY <1>1, SameHooks DEF LeaveHooks
  <2>2. Waits => lcRun.outcome = NoOutcome
    BY DEF Waits
  <2>3. DriverShape' /\ ~Acts'
    BY <1>0, <1>1, <2>1, <2>2 DEF LifecycleTypes, LeaveHooks, AfterHooks, NoDriver, DriverShape, Decides, Acts,
       RunShape, Undecided, TerminalStatuses
  <2> QED BY <1>0, <1>1, <2>3, DriverStepKeeps DEF LeaveHooks, AfterHooks, NoDriver, LifecycleTypes
<1>2. ASSUME EnterReusable PROVE LifecycleInv'
  <2>1. DriverShape' /\ ~Acts'
    BY <1>0, <1>2 DEF LifecycleTypes, EnterReusable, DriverShape, Decides, Acts, RunShape,
       Undecided, TerminalStatuses
  <2> QED BY <1>0, <1>2, <2>1, DriverStepKeeps DEF EnterReusable, LifecycleTypes
<1>3. ASSUME StepEnds PROVE LifecycleInv'
  <2>1. PICK answer \in {"succeeded", "failed"} :
          lcDriver' = [lcDriver EXCEPT !.at = "recording",
            !.answer = IF lcRun.status = "Cancelling" THEN "cancelled" ELSE answer]
    BY <1>3 DEF StepEnds
  <2>2. DriverShape' /\ ~Acts'
    BY <1>0, <1>3, <2>1 DEF LifecycleTypes, StepEnds, DriverShape, Decides, Acts, RunShape,
       Undecided, TerminalStatuses
  <2> QED BY <1>0, <1>3, <2>1, <2>2, DriverStepKeeps DEF StepEnds, LifecycleTypes
<1>4. ASSUME Stall PROVE LifecycleInv'
  <2>1. DriverShape' /\ ~Acts'
    BY <1>0, <1>4 DEF LifecycleTypes, Stall, AtLoop, DriverShape, Decides, Acts, RunShape,
       Undecided, TerminalStatuses
  <2> QED BY <1>0, <1>4, <2>1, DriverStepKeeps DEF Stall, LifecycleTypes
<1>5. ASSUME Crash PROVE LifecycleInv'
  <2>1. DriverShape' /\ ~Acts'
    BY <1>0, <1>5 DEF LifecycleTypes, Crash, DriverShape, Decides, Acts
  <2> QED BY <1>0, <1>5, <2>1, DriverStepKeeps DEF Crash, LifecycleTypes
<1>6. ASSUME Resume PROVE LifecycleInv'
  <2>1. lcRun.status \notin TerminalStatuses
    BY <1>0, <1>6 DEF Resume, AfterCrash, DriverShape
  <2>2. DriverShape' /\ ~Acts'
    BY <1>0, <1>6, <2>1 DEF LifecycleTypes, Resume, Resumed, NoDriver, DriverShape, Decides, Acts
  <2> QED BY <1>0, <1>6, <2>2, DriverStepKeeps DEF Resume, Resumed, NoDriver, LifecycleTypes
<1> QED BY <1>1, <1>2, <1>3, <1>4, <1>5, <1>6

(* The keys of the actions. *)
LEMMA KeyFacts ==
  ASSUME lcDef \in HookDefinitions
  PROVE  /\ \A e \in DOMAIN lcDef.hooks : \A k \in 1..Len(lcDef.hooks[e]) : <<e, k>> \in ActionKeys
         /\ \A h \in lcDef.reusable : <<h, 1>> \in ActionKeys
         /\ \A e \in DOMAIN lcDef.hooks : \A h \in lcDef.reusable : e # h
         /\ \A x \in ActionKeys : \/ \E e \in DOMAIN lcDef.hooks :
                                       \E k \in 1..Len(lcDef.hooks[e]) : x = <<e, k>>
                                  \/ \E h \in lcDef.reusable : x = <<h, 1>>
<1>1. \A e \in DOMAIN lcDef.hooks : DOMAIN ActionsOf(e) = 1..Len(lcDef.hooks[e])
  BY DefinitionFacts DEF ActionsOf
<1>2. \A x : x \in ActionKeys <=>
        \/ \E e \in DOMAIN lcDef.hooks : \E k \in DOMAIN ActionsOf(e) : x = <<e, k>>
        \/ \E h \in lcDef.reusable : x = <<h, 1>>
  <2>1. PICK A : A = {{<<e, i>> : i \in DOMAIN ActionsOf(e)} : e \in DOMAIN lcDef.hooks}
    OBVIOUS
  <2>2. PICK B : B = {<<h, 1>> : h \in lcDef.reusable}
    OBVIOUS
  <2>3. \A x : x \in ActionKeys <=> (\E a \in A : x \in a) \/ x \in B
    <3>1. ActionKeys = (UNION A) \cup B
      BY <2>1, <2>2 DEF ActionKeys
    <3> QED BY <3>1
  <2>4. \A x : x \in B <=> \E h \in lcDef.reusable : x = <<h, 1>>
    BY <2>2
  <2>5. \A x : (\E a \in A : x \in a) <=>
          \E e \in DOMAIN lcDef.hooks : x \in {<<e, i>> : i \in DOMAIN ActionsOf(e)}
    BY <2>1, Zenon
  <2>6. ASSUME NEW e PROVE \A x : x \in {<<e, i>> : i \in DOMAIN ActionsOf(e)} <=>
                                 \E k \in DOMAIN ActionsOf(e) : x = <<e, k>>
    OBVIOUS
  <2> QED BY <2>3, <2>4, <2>5, <2>6
<1>3. \A e \in DOMAIN lcDef.hooks : \A h \in lcDef.reusable : e # h
  BY DefinitionFacts DEF HookEvents, StepEvents, RunEvents, ReusableHooks
<1> QED BY <1>1, <1>2, <1>3

(* The hook that is driven next, and the last of its actions. *)
LEMMA PendingFacts ==
  ASSUME LifecycleInv, OpenHooks # {}
  PROVE  /\ PendingHook \in DOMAIN lcHooks /\ PendingHook \in OpenHooks
         /\ ~lcHooks[PendingHook].done
         /\ lcHooks[PendingHook] \in HookRecords(lcDef)
         /\ HookSound(lcDef, lcHooks[PendingHook])
         /\ PendingEvent \in DOMAIN lcDef.hooks
         /\ PendingEvent = lcHooks[PendingHook].event
<1>1. lcHooks \in Seq(HookRecords(lcDef)) /\ HooksSound(lcDef, lcHooks)
  BY DEF LifecycleInv, LifecycleTypes
<1>2. OpenHooks \in SUBSET Nat /\ OpenStepHooks \in SUBSET Nat /\ OpenStepHooks \subseteq OpenHooks
  BY <1>1 DEF OpenHooks, OpenStepHooks
<1>3. PendingHook \in OpenHooks
  BY <1>2, LeastMember DEF PendingHook
<1>4. PendingHook \in DOMAIN lcHooks /\ ~lcHooks[PendingHook].done
  BY <1>3 DEF OpenHooks
<1>5. lcHooks[PendingHook] \in HookRecords(lcDef)
  BY <1>1, <1>4
<1>6. HookSound(lcDef, lcHooks[PendingHook])
  BY <1>1, <1>4 DEF HooksSound, HooksShaped
<1> QED BY <1>3, <1>4, <1>5, <1>6 DEF PendingEvent, HookRecords

(* The action under way is one that the pending hook declares. *)
LEMMA RunningFacts ==
  ASSUME LifecycleInv, OpenHooks # {}, lcHooks[PendingHook].actions # <<>>
  PROVE  /\ Running \in 1..Len(lcDef.hooks[PendingEvent])
         /\ RunningKey = <<PendingEvent, Running>> /\ RunningKey \in ActionKeys
         /\ Reached(lcHooks, PendingEvent, Running)
<1>1. PICK h : h = lcHooks[PendingHook]
  OBVIOUS
<1>2. /\ PendingHook \in DOMAIN lcHooks /\ h \in HookRecords(lcDef) /\ HookSound(lcDef, h)
      /\ PendingEvent = h.event /\ PendingEvent \in DOMAIN lcDef.hooks /\ h.actions # <<>>
  BY <1>1, PendingFacts
<1>3. Len(h.actions) \in Nat \ {0}
  BY <1>2, EmptySeq DEF HookRecords
<1>4. lcDef \in HookDefinitions
  BY DEF LifecycleInv, LifecycleTypes
<1>5. Len(lcDef.hooks[PendingEvent]) \in Nat
  BY <1>2, <1>4, DefinitionFacts
<1>6. Running = Len(h.actions) /\ Running \in 1..Len(lcDef.hooks[PendingEvent])
  BY <1>1, <1>2, <1>3, <1>5 DEF Running, HookSound
<1>7. Reached(lcHooks, PendingEvent, Running)
  BY <1>1, <1>2, <1>3, <1>6 DEF Reached
<1>8. <<PendingEvent, Running>> \in ActionKeys
  BY <1>2, <1>4, <1>6, KeyFacts
<1> QED BY <1>6, <1>7, <1>8 DEF RunningKey

(* The run, the wait or nothing but the driver changes, with the outcome and the hooks kept. *)
LEMMA RunStepKeeps ==
  ASSUME LifecycleInv,
         UNCHANGED <<lcDef, lcStep, lcHooks, lcOps, lcReusable, lcRan, lcSent, lcCrashes>>,
         lcDriver' \in [at : DriverSteps, then : {"loop", "fail", "end"},
                        try : 0..SendAttempts,
                        answer : {"none", "succeeded", "failed", "cancelled", "retryable"}],
         lcRun' \in RunProjections, lcWait' \in {"none", "registered", "over", "cancelled"},
         lcRun'.outcome = lcRun.outcome, lcRun'.cancelRequested = lcRun.cancelRequested,
         lcWait' = lcWait \/ lcRun.outcome = NoOutcome,
         RunShape', DriverShape', ~Acts'
  PROVE  LifecycleInv'
<1>1. ActionKeys' = ActionKeys /\ HooksSound(lcDef, lcHooks)'
  BY SameHooks
<1>2. LifecycleTypes'
  BY <1>1 DEF LifecycleInv, LifecycleTypes
<1>3. StepShape'
  BY DEF LifecycleInv, StepShape
<1>4. ActionUnderWay'
  BY DEF ActionUnderWay, Acts
<1>5. RequestsSound(lcHooks, lcStep, lcRun)'
  BY DEF LifecycleInv, RequestsSound
<1>6. RequestsComplete(lcDef, lcHooks, lcStep, lcRun, lcWait)'
  BY DEF LifecycleInv, RequestsComplete, NoOutcome
<1> QED BY <1>1, <1>2, <1>3, <1>4, <1>5, <1>6 DEF LifecycleInv

(* The run is finalized, begins its durable wait or leaves it. *)
LEMMA RunMovesKeep ==
  ASSUME LifecycleInv
  PROVE  /\ FinalizeRun => LifecycleInv'
         /\ RegisterWait => LifecycleInv'
         /\ ResumeAfterWait => LifecycleInv'
<1> USE DEF Driver, DriverSteps
<1>0. /\ LifecycleTypes /\ RunShape /\ DriverShape
      /\ SendAttempts \in Nat \ {0}
  BY HookAssumption DEF LifecycleInv
<1>1. ASSUME FinalizeRun PROVE LifecycleInv'
  <2>1. OpenHooks' = OpenHooks /\ OpenHooks = {}
    BY <1>1, SameHooks DEF FinalizeRun
  <2>2. /\ lcRun' \in RunProjections
        /\ lcRun'.status = lcRun.outcome /\ lcRun.outcome \in BusinessOutcomes
        /\ lcRun'.outcome = lcRun.outcome /\ lcRun'.cancelRequested = lcRun.cancelRequested
    BY <1>0, <1>1 DEF LifecycleTypes, FinalizeRun, CanRunFinalized, RunFinalized, RunProjections,
       RunStatuses, BusinessOutcomes
  <2>3. RunShape' /\ DriverShape' /\ ~Acts'
    BY <1>0, <1>1, <2>1, <2>2 DEF FinalizeRun, NoDriver, DriverShape, Decides, Acts,
       RunShape, Undecided, TerminalStatuses, BusinessOutcomes, NoOutcome
  <2> QED BY <1>0, <1>1, <2>2, <2>3, RunStepKeeps DEF FinalizeRun, NoDriver, LifecycleTypes
<1>2. ASSUME RegisterWait PROVE LifecycleInv'
  <2>1. /\ lcRun' \in RunProjections /\ lcRun'.status = "Waiting"
        /\ lcRun'.outcome = lcRun.outcome /\ lcRun'.cancelRequested = lcRun.cancelRequested
    BY <1>0, <1>2 DEF LifecycleTypes, RegisterWait, RunProjections, RunStatuses
  <2>2. lcRun.outcome = NoOutcome
    BY <1>0, <1>2 DEF RegisterWait, RunShape, Undecided
  <2>3. RunShape' /\ DriverShape' /\ ~Acts'
    BY <1>0, <1>2, <2>1, <2>2 DEF RegisterWait, DriverShape, Decides, Acts,
       RunShape, Undecided, TerminalStatuses
  <2> QED BY <1>0, <1>2, <2>1, <2>2, <2>3, RunStepKeeps DEF RegisterWait, LifecycleTypes
<1>3. ASSUME ResumeAfterWait PROVE LifecycleInv'
  <2>1. /\ lcRun' \in RunProjections /\ lcRun'.status = "Running"
        /\ lcRun'.outcome = lcRun.outcome /\ lcRun'.cancelRequested = lcRun.cancelRequested
    BY <1>0, <1>3 DEF LifecycleTypes, ResumeAfterWait, RunProjections, RunStatuses
  <2>2. lcRun.outcome = NoOutcome
    BY <1>0, <1>3 DEF ResumeAfterWait, RunShape, Undecided
  <2>3. RunShape' /\ DriverShape' /\ ~Acts'
    BY <1>0, <1>3, <2>1, <2>2 DEF ResumeAfterWait, DriverShape, Decides, Acts,
       RunShape, Undecided, TerminalStatuses
  <2> QED BY <1>0, <1>3, <2>1, <2>2, <2>3, RunStepKeeps DEF ResumeAfterWait, LifecycleTypes
<1> QED BY <1>1, <1>2, <1>3

(* The reusable hook that is next is one that the definition declares. *)
LEMMA NextReusableFacts ==
  ASSUME LifecycleInv, ReusableDue # {}
  PROVE  NextReusable \in lcDef.reusable /\ NextReusable \in ReusableHooks
<1>1. PICK order : order = ReusableOrder(lcStep.status)
  OBVIOUS
<1>2. order \in Seq(ReusableHooks)
  <2>1. order \in {<<"OnSuccess", "OnComplete">>, <<"OnError", "OnComplete">>, <<"OnComplete">>, <<>>}
    BY <1>1, Zenon DEF ReusableOrder
  <2>2. <<"OnSuccess", "OnComplete">> \in Seq(ReusableHooks)
    BY DEF ReusableHooks
  <2>3. <<"OnError", "OnComplete">> \in Seq(ReusableHooks)
    BY DEF ReusableHooks
  <2>4. <<"OnComplete">> \in Seq(ReusableHooks) /\ <<>> \in Seq(ReusableHooks)
    BY DEF ReusableHooks
  <2> QED BY <2>1, <2>2, <2>3, <2>4
<1>3. ReusableDue = {i \in DOMAIN order : order[i] \in lcDef.reusable /\ lcReusable[order[i]] # "done"}
  BY <1>1 DEF ReusableDue
<1>4. ReusableDue \in SUBSET Nat
  BY <1>2, <1>3
<1>5. Min(ReusableDue) \in ReusableDue
  BY <1>4, LeastMember
<1>6. NextReusable = order[Min(ReusableDue)]
  BY <1>1 DEF NextReusable
<1>7. NextReusable \in lcDef.reusable
  BY <1>3, <1>5, <1>6
<1>8. lcDef.reusable \subseteq ReusableHooks
  BY DefinitionFacts DEF LifecycleInv, LifecycleTypes
<1> QED BY <1>7, <1>8

(* A step of the reusable hook h to status s; it executes the action or not. *)
LEMMA ReusableStepKeeps ==
  ASSUME LifecycleInv, NEW h \in lcDef.reusable,
         NEW s \in {"requested", "active", "finished", "done"},
         lcReusable' = [lcReusable EXCEPT ![h] = s],
         UNCHANGED <<lcDef, lcRun, lcStep, lcWait, lcHooks, lcOps, lcSent, lcCrashes>>,
         lcDriver' \in [at : DriverSteps, then : {"loop", "fail", "end"},
                        try : 0..SendAttempts,
                        answer : {"none", "succeeded", "failed", "cancelled", "retryable"}],
         \/ lcRan' = lcRan /\ (s = "requested" => lcReusable[h] = "none")
         \/ lcRan' = [lcRan EXCEPT ![<<h, 1>>] = @ + 1] /\ lcReusable[h] = "requested" /\ s = "active",
         DriverShape', ~Acts'
  PROVE  LifecycleInv'
<1>1. ActionKeys' = ActionKeys /\ HooksSound(lcDef, lcHooks)'
  BY SameHooks
<1>2. /\ lcDef \in HookDefinitions /\ lcRan \in [ActionKeys -> Nat]
      /\ lcReusable \in [ReusableHooks -> {"none", "requested", "active", "finished", "done"}]
  BY DEF LifecycleInv, LifecycleTypes
<1>3. /\ h \in ReusableHooks /\ <<h, 1>> \in ActionKeys
      /\ \A x \in lcDef.reusable : x \in ReusableHooks /\ <<x, 1>> \in ActionKeys
  BY <1>2, KeyFacts, DefinitionFacts
<1>4. /\ lcReusable' \in [ReusableHooks -> {"none", "requested", "active", "finished", "done"}]
      /\ lcReusable'[h] = s /\ \A x \in ReusableHooks \ {h} : lcReusable'[x] = lcReusable[x]
  BY <1>2, <1>3
<1>5. /\ lcRan' \in [ActionKeys -> Nat]
      /\ \A x \in ActionKeys \ {<<h, 1>>} : lcRan'[x] = lcRan[x]
      /\ \/ lcRan'[<<h, 1>>] = lcRan[<<h, 1>>] /\ (s = "requested" => lcReusable[h] = "none")
         \/ lcRan'[<<h, 1>>] = lcRan[<<h, 1>>] + 1 /\ lcReusable[h] = "requested" /\ s = "active"
  <2>1. CASE lcRan' = lcRan /\ (s = "requested" => lcReusable[h] = "none")
    BY <1>2, <2>1
  <2>2. CASE lcRan' = [lcRan EXCEPT ![<<h, 1>>] = @ + 1] /\ lcReusable[h] = "requested" /\ s = "active"
    <3>1. PICK k : k = <<h, 1>>
      OBVIOUS
    <3>2. k \in ActionKeys /\ lcRan' = [lcRan EXCEPT ![k] = lcRan[k] + 1] /\ lcRan[k] \in Nat
      BY <1>2, <1>3, <2>2, <3>1
    <3>3. /\ lcRan' \in [ActionKeys -> Nat] /\ lcRan'[k] = lcRan[k] + 1
          /\ \A x \in ActionKeys \ {k} : lcRan'[x] = lcRan[x]
      BY <1>2, <3>2
    <3> QED BY <2>2, <3>1, <3>3
  <2> QED BY <2>1, <2>2
<1>6. LifecycleTypes'
  BY <1>1, <1>4, <1>5 DEF LifecycleInv, LifecycleTypes
<1>7. RunShape' /\ StepShape'
  BY DEF LifecycleInv, RunShape, StepShape
<1>8. ActionUnderWay'
  BY DEF ActionUnderWay, Acts
<1>9. ActionsCounted(lcDef, lcHooks, lcRan, lcSent)'
  <2> SUFFICES ASSUME NEW e \in DOMAIN lcDef.hooks, NEW k \in 1..Len(lcDef.hooks[e])
               PROVE  /\ lcRan'[<<e, k>>] <= 1 /\ lcSent[<<e, k>>] <= SendLimit(lcDef, e, k)
                      /\ ~Reached(lcHooks, e, k) => lcRan'[<<e, k>>] = 0 /\ lcSent[<<e, k>>] = 0
    BY DEF ActionsCounted
  <2>1. /\ lcRan[<<e, k>>] <= 1 /\ lcSent[<<e, k>>] <= SendLimit(lcDef, e, k)
        /\ ~Reached(lcHooks, e, k) => lcRan[<<e, k>>] = 0 /\ lcSent[<<e, k>>] = 0
    BY DEF LifecycleInv, ActionsCounted
  <2>2. <<e, k>> \in ActionKeys /\ e # h
    BY <1>2, KeyFacts
  <2>3. <<e, k>> # <<h, 1>>
    BY <2>2
  <2> QED BY <1>5, <2>1, <2>2, <2>3
<1>10. ReusableCounted(lcDef, lcReusable, lcRan, lcSent)'
  <2> SUFFICES ASSUME NEW x \in lcDef.reusable
               PROVE  /\ lcRan'[<<x, 1>>] <= 1 /\ lcSent[<<x, 1>>] = 0
                      /\ lcReusable'[x] \in {"none", "requested"} => lcRan'[<<x, 1>>] = 0
    BY DEF ReusableCounted
  <2>1. /\ lcRan[<<x, 1>>] <= 1 /\ lcSent[<<x, 1>>] = 0
        /\ lcReusable[x] \in {"none", "requested"} => lcRan[<<x, 1>>] = 0
    BY DEF LifecycleInv, ReusableCounted
  <2>2. CASE x = h
    <3>1. lcRan[<<h, 1>>] \in Nat
      BY <1>2, <1>3
    <3> QED BY <2>1, <2>2, <3>1, <1>4, <1>5
  <2>3. CASE x # h
    <3>1. <<x, 1>> # <<h, 1>> /\ <<x, 1>> \in ActionKeys /\ x \in ReusableHooks
      BY <1>3, <2>3
    <3>2. lcRan'[<<x, 1>>] = lcRan[<<x, 1>>] /\ lcReusable'[x] = lcReusable[x]
      BY <1>4, <1>5, <2>3, <3>1
    <3> QED BY <2>1, <3>2
  <2> QED BY <2>2, <2>3
<1> QED BY <1>1, <1>6, <1>7, <1>8, <1>9, <1>10 DEF LifecycleInv

(* A hook of the reusable definition is requested, starts, ends and is done. *)
LEMMA ReusableMovesKeep ==
  ASSUME LifecycleInv
  PROVE  /\ RequestReusable => LifecycleInv'
         /\ StartReusable => LifecycleInv'
         /\ EndReusable => LifecycleInv'
         /\ CompleteReusable => LifecycleInv'
<1>0. LifecycleTypes /\ RunShape /\ DriverShape
  BY DEF LifecycleInv
<1>1. PICK h : h = NextReusable
  OBVIOUS
<1>2. ReusableDue # {} => h \in lcDef.reusable
  BY <1>1, NextReusableFacts
<1>3. ASSUME RequestReusable PROVE LifecycleInv'
  <2>1. OpenHooks' = OpenHooks
    BY <1>3, SameHooks DEF RequestReusable
  <2>2. DriverShape' /\ ~Acts'
    BY <1>0, <1>3, <2>1 DEF RequestReusable, InReusable, DriverShape, Decides, Acts
  <2> QED BY <1>0, <1>1, <1>2, <1>3, <2>2, ReusableStepKeeps DEF RequestReusable, InReusable, LifecycleTypes
<1>4. ASSUME StartReusable PROVE LifecycleInv'
  <2>1. OpenHooks' = OpenHooks
    BY <1>4, SameHooks DEF StartReusable
  <2>2. /\ lcDriver' \in [at : DriverSteps, then : {"loop", "fail", "end"},
                        try : 0..SendAttempts,
                        answer : {"none", "succeeded", "failed", "cancelled", "retryable"}]
        /\ lcDriver'.at = "executing" /\ lcDriver'.then = lcDriver.then
    BY <1>0, <1>4 DEF StartReusable, LifecycleTypes, DriverSteps
  <2>3. DriverShape' /\ ~Acts'
    BY <1>0, <1>4, <2>1, <2>2 DEF StartReusable, InReusable, DriverShape, Decides, Acts
  <2>4. /\ lcReusable' = [lcReusable EXCEPT ![h] = "active"] /\ lcReusable[h] = "requested"
        /\ lcRan' = [lcRan EXCEPT ![<<h, 1>>] = @ + 1] /\ h \in lcDef.reusable
        /\ UNCHANGED <<lcDef, lcRun, lcStep, lcWait, lcHooks, lcOps, lcSent, lcCrashes>>
    BY <1>1, <1>2, <1>4 DEF StartReusable, InReusable
  <2> QED BY <2>2, <2>3, <2>4, ReusableStepKeeps
<1>5. ASSUME EndReusable PROVE LifecycleInv'
  <2>1. OpenHooks' = OpenHooks
    BY <1>5, SameHooks DEF EndReusable
  <2>2. /\ lcDriver' \in [at : DriverSteps, then : {"loop", "fail", "end"},
                        try : 0..SendAttempts,
                        answer : {"none", "succeeded", "failed", "cancelled", "retryable"}]
        /\ lcDriver'.at = "reusable" /\ lcDriver'.then = lcDriver.then
    BY <1>0, <1>5 DEF EndReusable, LifecycleTypes, DriverSteps
  <2>3. DriverShape' /\ ~Acts'
    BY <1>0, <1>5, <2>1, <2>2 DEF EndReusable, DriverShape, Decides, Acts
  <2>4. /\ lcReusable' = [lcReusable EXCEPT ![h] = "finished"] /\ lcRan' = lcRan
        /\ h \in lcDef.reusable
        /\ UNCHANGED <<lcDef, lcRun, lcStep, lcWait, lcHooks, lcOps, lcSent, lcCrashes>>
    BY <1>1, <1>2, <1>5 DEF EndReusable
  <2> QED BY <2>2, <2>3, <2>4, ReusableStepKeeps
<1>6. ASSUME CompleteReusable PROVE LifecycleInv'
  <2>1. OpenHooks' = OpenHooks
    BY <1>6, SameHooks DEF CompleteReusable
  <2>2. DriverShape' /\ ~Acts'
    BY <1>0, <1>6, <2>1 DEF CompleteReusable, InReusable, DriverShape, Decides, Acts
  <2> QED BY <1>0, <1>1, <1>2, <1>6, <2>2, ReusableStepKeeps DEF CompleteReusable, InReusable, LifecycleTypes
<1> QED BY <1>3, <1>4, <1>5, <1>6

(* The event that is requested of the candidates a and b. *)
DueEvents(d, a, b) ==
  IF a \in DOMAIN d.hooks THEN {a} ELSE IF b \in DOMAIN d.hooks THEN {b} ELSE {}

(* Of the candidates, the first that the workflow declares is due. *)
LEMMA DueIsFirstDeclared ==
  ASSUME NEW a, NEW b
  PROVE  /\ Due(<<>>) = <<>>
         /\ Due(<<a>>) = IF Declared(a) THEN <<NewHook(a)>> ELSE <<>>
         /\ Due(<<a, b>>) = IF Declared(a) THEN <<NewHook(a)>>
                            ELSE IF Declared(b) THEN <<NewHook(b)>> ELSE <<>>
<1>1. Due(<<>>) = <<>>
  BY DEF Due
<1>2. Due(<<a>>) = IF Declared(a) THEN <<NewHook(a)>> ELSE <<>>
  <2>1. PICK S : S = {i \in DOMAIN <<a>> : Declared(<<a>>[i])}
    OBVIOUS
  <2>2. S \in SUBSET {1} /\ (1 \in S <=> Declared(a)) /\ <<a>>[1] = a
    BY <2>1
  <2>3. Due(<<a>>) = IF S = {} THEN <<>> ELSE <<NewHook(<<a>>[Min(S)])>>
    BY <2>1 DEF Due
  <2>4. S # {} => Min(S) \in S
    BY <2>2, LeastMember
  <2> QED BY <2>2, <2>3, <2>4
<1>3. Due(<<a, b>>) = IF Declared(a) THEN <<NewHook(a)>>
                      ELSE IF Declared(b) THEN <<NewHook(b)>> ELSE <<>>
  <2>1. PICK c : c = <<a, b>>
    OBVIOUS
  <2>2. PICK S : S = {i \in DOMAIN c : Declared(c[i])}
    OBVIOUS
  <2>3. S \in SUBSET {1, 2} /\ (1 \in S <=> Declared(a)) /\ (2 \in S <=> Declared(b))
        /\ c[1] = a /\ c[2] = b
    BY <2>1, <2>2
  <2>4. Due(c) = IF S = {} THEN <<>> ELSE <<NewHook(c[Min(S)])>>
    BY <2>2 DEF Due
  <2>5. S # {} => Min(S) \in S /\ \A k \in S : Min(S) <= k
    BY <2>3, LeastMember
  <2>6. CASE Declared(a)
    <3>1. PICK m : m = Min(S)
      OBVIOUS
    <3>2. 1 \in S /\ m \in {1, 2} /\ m <= 1
      BY <2>3, <2>5, <2>6, <3>1
    <3>3. Min(S) = 1
      BY <3>1, <3>2
    <3> QED BY <2>1, <2>3, <2>4, <2>6, <3>2, <3>3
  <2>7. CASE ~Declared(a) /\ Declared(b)
    <3>1. Min(S) = 2
      BY <2>3, <2>5, <2>7
    <3> QED BY <2>1, <2>3, <2>4, <2>7, <3>1
  <2>8. CASE ~Declared(a) /\ ~Declared(b)
    BY <2>1, <2>3, <2>4, <2>8
  <2> QED BY <2>6, <2>7, <2>8
<1> QED BY <1>1, <1>2, <1>3

(* A new hook of a declared event has no record. *)
LEMMA FreshHooks ==
  ASSUME NEW d, NEW hs
  PROVE  /\ Fresh(d, hs, <<>>) /\ \A f : ~Requests(<<>>, f)
         /\ \A e \in DOMAIN d.hooks : ~Requests(hs, e) => Fresh(d, hs, <<NewHook(e)>>)
         /\ \A e : \A f : Requests(<<NewHook(e)>>, f) <=> f = e
<1>1. Fresh(d, hs, <<>>) /\ \A f : ~Requests(<<>>, f)
  BY DEF Fresh, Requests, RequestedOnce
<1>2. ASSUME NEW e PROVE \A f : Requests(<<NewHook(e)>>, f) <=> f = e
  BY DEF Requests, NewHook
<1>3. ASSUME NEW e \in DOMAIN d.hooks, ~Requests(hs, e) PROVE Fresh(d, hs, <<NewHook(e)>>)
  <2>1. PICK h : h = NewHook(e)
    OBVIOUS
  <2>2. h \in HookRecords(d) /\ h.event = e /\ h.actions = <<>> /\ ~h.done
    <3>1. <<>> \in Seq(ActionStatuses)
      OBVIOUS
    <3> QED BY <2>1, <3>1 DEF NewHook, HookRecords
  <2>3. <<h>> \in Seq(HookRecords(d)) /\ DOMAIN <<h>> = {1} /\ <<h>>[1] = h
    BY <2>2
  <2>4. Fresh(d, hs, <<h>>)
    BY <1>3, <2>2, <2>3 DEF Fresh, RequestedOnce
  <2> QED BY <2>1, <2>4
<1> QED BY <1>1, <1>2, <1>3

(* What is due of the candidates c, a before b, is a fresh request. *)
Candidates(c, a, b) == c = <<a, b>> \/ (c = <<a>> /\ b = a)

(* When the fold accepts what is due, it is fresh. *)
LEMMA DueRequests ==
  ASSUME NEW c, NEW a, NEW b, Candidates(c, a, b)
  PROVE  /\ \A f : Requests(Due(c), f) <=> f \in DueEvents(lcDef, a, b)
         /\ \A hs : (\A e \in DueEvents(lcDef, a, b) : ~Requests(hs, e)) => Fresh(lcDef, hs, Due(c))
         /\ RequestsAccepted(Due(c)) <=> \A e \in DueEvents(lcDef, a, b) : ~Requests(lcHooks, e)
<1>1. Due(c) = IF a \in DOMAIN lcDef.hooks THEN <<NewHook(a)>>
               ELSE IF b \in DOMAIN lcDef.hooks THEN <<NewHook(b)>> ELSE <<>>
  <2>1. CASE c = <<a, b>>
    BY <2>1, DueIsFirstDeclared DEF Declared
  <2>2. CASE c = <<a>> /\ b = a
    BY <2>2, DueIsFirstDeclared DEF Declared
  <2> QED BY <2>1, <2>2 DEF Candidates
<1>2. ASSUME NEW hs PROVE (\A e \in DueEvents(lcDef, a, b) : ~Requests(hs, e)) => Fresh(lcDef, hs, Due(c))
  <2>1. CASE a \in DOMAIN lcDef.hooks
    <3>1. Due(c) = <<NewHook(a)>> /\ a \in DueEvents(lcDef, a, b)
      BY <1>1, <2>1 DEF DueEvents
    <3>2. ~Requests(hs, a) => Fresh(lcDef, hs, <<NewHook(a)>>)
      BY <2>1, FreshHooks
    <3> QED BY <3>1, <3>2
  <2>2. CASE a \notin DOMAIN lcDef.hooks /\ b \in DOMAIN lcDef.hooks
    <3>1. Due(c) = <<NewHook(b)>> /\ b \in DueEvents(lcDef, a, b)
      BY <1>1, <2>2 DEF DueEvents
    <3>2. ~Requests(hs, b) => Fresh(lcDef, hs, <<NewHook(b)>>)
      BY <2>2, FreshHooks
    <3> QED BY <3>1, <3>2
  <2>3. CASE a \notin DOMAIN lcDef.hooks /\ b \notin DOMAIN lcDef.hooks
    BY <1>1, <2>3, FreshHooks
  <2> QED BY <2>1, <2>2, <2>3
<1>3. \A f : Requests(Due(c), f) <=> f \in DueEvents(lcDef, a, b)
  BY <1>1, FreshHooks DEF DueEvents
<1>4. RequestsAccepted(Due(c)) <=> \A f : Requests(Due(c), f) => ~Requests(lcHooks, f)
  BY DEF RequestsAccepted, Requested, Requests
<1> QED BY <1>2, <1>3, <1>4

DriverRecords == [at : DriverSteps, then : {"loop", "fail", "end"}, try : 0..SendAttempts,
                  answer : {"none", "succeeded", "failed", "cancelled", "retryable"}]

(* The pending hook records more of its actions and stays open. *)
LEMMA PendingRecorded ==
  ASSUME LifecycleInv, OpenHooks # {}, NEW x,
         Replaces(lcDef, lcHooks, PendingHook, x, lcHooks'), ~x.done,
         Len(x.actions) >= Len(lcHooks[PendingHook].actions),
         PendingEvent = "RunCancel" => lcRun.outcome # NoOutcome,
         UNCHANGED <<lcDef, lcRun, lcStep, lcWait>>
  PROVE  /\ HooksSound(lcDef, lcHooks)'
         /\ OpenHooks' = OpenHooks /\ PendingHook' = PendingHook /\ PendingEvent' = PendingEvent
         /\ lcHooks'[PendingHook] = x /\ ActionKeys' = ActionKeys
         /\ RequestsSound(lcHooks, lcStep, lcRun)'
         /\ RequestsComplete(lcDef, lcHooks, lcStep, lcRun, lcWait)'
         /\ \A e : \A k \in Nat : Reached(lcHooks, e, k) => Reached(lcHooks', e, k)
<1>1. PICK p : p = PendingHook
  OBVIOUS
<1>2. /\ p \in DOMAIN lcHooks /\ ~lcHooks[p].done /\ PendingEvent = lcHooks[p].event
      /\ lcHooks[p] \in HookRecords(lcDef)
  BY <1>1, PendingFacts
<1>3. HooksSound(lcDef, lcHooks) /\ Replaces(lcDef, lcHooks, p, x, lcHooks')
  BY <1>1 DEF LifecycleInv
<1>4. /\ lcHooks' \in Seq(HookRecords(lcDef)) /\ DOMAIN lcHooks' = DOMAIN lcHooks
      /\ lcHooks'[p] = x /\ \A i \in DOMAIN lcHooks \ {p} : lcHooks'[i] = lcHooks[i]
      /\ \A e : Requests(lcHooks', e) <=> Requests(lcHooks, e)
  BY <1>3, HookReplaced
<1>5. HooksSound(lcDef, lcHooks')
  BY <1>3, OpenHookReplaced
<1>6. x.event = lcHooks[p].event /\ x \in HookRecords(lcDef)
  BY <1>3 DEF Replaces
<1>7. \A i \in DOMAIN lcHooks : lcHooks'[i].done = lcHooks[i].done /\ lcHooks'[i].event = lcHooks[i].event
  <2>1. x.done = FALSE /\ lcHooks[p].done = FALSE
    BY <1>2, <1>6 DEF HookRecords
  <2> QED BY <1>4, <1>6, <2>1
<1>8. OpenHooks' = OpenHooks
  BY <1>4, <1>7 DEF OpenHooks
<1>9. OpenStepHooks' = OpenStepHooks
  <2>1. OpenHooks \subseteq DOMAIN lcHooks
    BY DEF OpenHooks
  <2> QED BY <1>7, <1>8, <2>1 DEF OpenStepHooks
<1>10. PendingHook' = PendingHook
  BY <1>8, <1>9 DEF PendingHook
<1>11. PendingEvent' = PendingEvent
  <2>1. PendingEvent' = lcHooks'[p].event
    BY <1>1, <1>10 DEF PendingEvent
  <2> QED BY <2>1, <1>2, <1>4, <1>6
<1>12. lcRun.outcome = NoOutcome => CancelIdle(lcHooks')
  <2> SUFFICES ASSUME lcRun.outcome = NoOutcome, NEW i \in DOMAIN lcHooks, lcHooks'[i].event = "RunCancel"
               PROVE  lcHooks'[i].actions = <<>>
    BY <1>4 DEF CancelIdle
  <2>1. i # p
    BY <1>2, <1>4, <1>6
  <2>2. CancelIdle(lcHooks)
    BY DEF LifecycleInv, RequestsSound
  <2> QED BY <1>4, <2>1, <2>2 DEF CancelIdle
<1>13. RequestsSound(lcHooks, lcStep, lcRun)'
  BY <1>4, <1>12 DEF LifecycleInv, RequestsSound
<1>14. RequestsComplete(lcDef, lcHooks, lcStep, lcRun, lcWait)'
  BY <1>4 DEF LifecycleInv, RequestsComplete, OneRequested
<1>15. ASSUME NEW e, NEW k \in Nat, Reached(lcHooks, e, k) PROVE Reached(lcHooks', e, k)
  <2>1. PICK i \in DOMAIN lcHooks : lcHooks[i].event = e /\ k <= Len(lcHooks[i].actions)
    BY <1>15 DEF Reached
  <2>2. Len(x.actions) \in Nat /\ Len(lcHooks[p].actions) \in Nat
    BY <1>2, <1>6 DEF HookRecords
  <2>3. lcHooks'[i].event = e /\ k <= Len(lcHooks'[i].actions)
    BY <1>1, <1>4, <1>6, <2>1, <2>2
  <2> QED BY <1>4, <2>1, <2>3 DEF Reached
<1>16. ActionKeys' = ActionKeys
  BY DEF ActionKeys, ActionsOf
<1> QED BY <1>1, <1>4, <1>5, <1>8, <1>10, <1>11, <1>13, <1>14, <1>15, <1>16

(* The next action of the pending hook gets a record. *)
LEMMA RecordAppended ==
  ASSUME LifecycleInv, OpenHooks # {}, ~Interrupted(lcHooks[PendingHook]), ~Exhausted,
         NEW s \in {"started", "failed"},
         lcHooks' = [lcHooks EXCEPT ![PendingHook].actions = Append(@, s)]
  PROVE  /\ NextAction \in 1..Len(lcDef.hooks[PendingEvent])
         /\ NextAction = Len(lcHooks[PendingHook].actions) + 1
         /\ \E x : /\ Replaces(lcDef, lcHooks, PendingHook, x, lcHooks') /\ ~x.done
                   /\ Len(x.actions) = NextAction
<1>1. PICK p : p = PendingHook
  OBVIOUS
<1>2. PICK h : h = lcHooks[p]
  OBVIOUS
<1>3. /\ p \in DOMAIN lcHooks /\ h \in HookRecords(lcDef) /\ HookSound(lcDef, h)
      /\ PendingEvent = h.event /\ PendingEvent \in DOMAIN lcDef.hooks /\ ~h.done
  BY <1>1, <1>2, PendingFacts
<1>4. PICK acts : acts = h.actions
  OBVIOUS
<1>5. acts \in Seq(ActionStatuses) /\ Len(acts) \in Nat
  BY <1>3, <1>4 DEF HookRecords
<1>6. Len(lcDef.hooks[PendingEvent]) \in Nat
  BY <1>3, DefinitionFacts DEF LifecycleInv, LifecycleTypes
<1>7. NextAction = Len(acts) + 1 /\ NextAction \in 1..Len(lcDef.hooks[PendingEvent])
  BY <1>1, <1>2, <1>4, <1>5, <1>6 DEF NextAction, Exhausted, ActionsOf
<1>8. PICK more : more = Append(acts, s)
  OBVIOUS
<1>9. /\ more \in Seq(ActionStatuses) /\ Len(more) = Len(acts) + 1
      /\ \A k \in 1..Len(acts) : more[k] = acts[k]
  BY <1>5, <1>8 DEF ActionStatuses
<1>10. PICK x : x = [h EXCEPT !.actions = more]
  OBVIOUS
<1>11. /\ x \in HookRecords(lcDef) /\ x.event = h.event /\ x.actions = more /\ x.done = h.done
  BY <1>3, <1>9, <1>10 DEF HookRecords
<1>12. lcHooks' = [lcHooks EXCEPT ![p] = x]
  BY <1>1, <1>2, <1>4, <1>8, <1>10
<1>13. \A k \in 1..Len(acts) : acts[k] # "started"
  BY <1>1, <1>2, <1>4, <1>5 DEF Interrupted
<1>14. \A k \in DOMAIN more : more[k] = "started" => k = Len(more)
  <2> SUFFICES ASSUME NEW k \in DOMAIN more, more[k] = "started" PROVE k = Len(more)
    OBVIOUS
  <2>1. k \in 1..(Len(acts) + 1)
    BY <1>9
  <2> QED BY <1>5, <1>9, <1>13, <2>1
<1>15. HookSound(lcDef, x)
  BY <1>3, <1>7, <1>9, <1>11, <1>14 DEF HookSound
<1>16. Replaces(lcDef, lcHooks, p, x, lcHooks')
  BY <1>2, <1>3, <1>11, <1>12, <1>15 DEF Replaces
<1> QED BY <1>1, <1>2, <1>3, <1>4, <1>7, <1>9, <1>11, <1>16

(* The record of the action under way gets its outcome. *)
LEMMA RecordSettled ==
  ASSUME LifecycleInv, OpenHooks # {}, lcHooks[PendingHook].actions # <<>>,
         NEW s \in {"succeeded", "failed"},
         lcHooks' = [lcHooks EXCEPT ![PendingHook].actions[Running] = s]
  PROVE  \E x : /\ Replaces(lcDef, lcHooks, PendingHook, x, lcHooks') /\ ~x.done
                /\ Len(x.actions) = Len(lcHooks[PendingHook].actions)
<1>1. PICK p : p = PendingHook
  OBVIOUS
<1>2. PICK h : h = lcHooks[p]
  OBVIOUS
<1>3. /\ p \in DOMAIN lcHooks /\ h \in HookRecords(lcDef) /\ HookSound(lcDef, h) /\ ~h.done
  BY <1>1, <1>2, PendingFacts
<1>4. PICK acts : acts = h.actions
  OBVIOUS
<1>5. acts \in Seq(ActionStatuses) /\ Len(acts) \in Nat \ {0}
  <2>1. acts \in Seq(ActionStatuses) /\ acts # <<>>
    BY <1>1, <1>2, <1>3, <1>4 DEF HookRecords
  <2> QED BY <2>1, EmptySeq
<1>6. Running = Len(acts)
  BY <1>1, <1>2, <1>4 DEF Running
<1>7. PICK more : more = [acts EXCEPT ![Len(acts)] = s]
  OBVIOUS
<1>8. /\ more \in Seq(ActionStatuses) /\ Len(more) = Len(acts) /\ DOMAIN more = 1..Len(acts)
      /\ more[Len(acts)] = s /\ \A k \in 1..Len(acts) : k # Len(acts) => more[k] = acts[k]
  BY <1>5, <1>7 DEF ActionStatuses
<1>9. PICK x : x = [h EXCEPT !.actions = more]
  OBVIOUS
<1>10. /\ x \in HookRecords(lcDef) /\ x.event = h.event /\ x.actions = more /\ x.done = h.done
  BY <1>3, <1>8, <1>9 DEF HookRecords
<1>11. lcHooks' = [lcHooks EXCEPT ![p] = x]
  BY <1>1, <1>2, <1>4, <1>6, <1>7, <1>9
<1>12. HookSound(lcDef, x)
  BY <1>3, <1>4, <1>8, <1>10 DEF HookSound
<1>13. Replaces(lcDef, lcHooks, p, x, lcHooks')
  BY <1>2, <1>3, <1>10, <1>11, <1>12 DEF Replaces
<1> QED BY <1>1, <1>2, <1>3, <1>4, <1>8, <1>10, <1>13

(* Counters that stay as they are while the records grow. *)
LEMMA CountersKept ==
  ASSUME LifecycleInv, UNCHANGED <<lcDef, lcRan, lcSent>>,
         \A e : \A k \in Nat : Reached(lcHooks, e, k) => Reached(lcHooks', e, k)
  PROVE  ActionsCounted(lcDef, lcHooks, lcRan, lcSent)'
<1> SUFFICES ASSUME NEW e \in DOMAIN lcDef.hooks, NEW k \in 1..Len(lcDef.hooks[e])
             PROVE  /\ lcRan[<<e, k>>] <= 1 /\ lcSent[<<e, k>>] <= SendLimit(lcDef, e, k)
                    /\ ~Reached(lcHooks', e, k) => lcRan[<<e, k>>] = 0 /\ lcSent[<<e, k>>] = 0
  BY DEF ActionsCounted
<1>1. /\ lcRan[<<e, k>>] <= 1 /\ lcSent[<<e, k>>] <= SendLimit(lcDef, e, k)
      /\ ~Reached(lcHooks, e, k) => lcRan[<<e, k>>] = 0 /\ lcSent[<<e, k>>] = 0
  BY DEF LifecycleInv, ActionsCounted
<1>2. k \in Nat
  OBVIOUS
<1> QED BY <1>1, <1>2

(* The action under way ends. *)
LEMMA ActionEndedKeeps ==
  ASSUME LifecycleInv, Acts, NEW s \in {"succeeded", "failed"}, ActionEnded(s),
         lcOps' \subseteq ActionKeys,
         UNCHANGED <<lcDef, lcRun, lcStep, lcWait, lcReusable, lcRan, lcSent, lcCrashes>>
  PROVE  LifecycleInv'
<1>1. OpenHooks # {} /\ lcHooks[PendingHook].actions # <<>>
  BY DEF LifecycleInv, ActionUnderWay
<1>2. PICK x : /\ Replaces(lcDef, lcHooks, PendingHook, x, lcHooks') /\ ~x.done
               /\ Len(x.actions) = Len(lcHooks[PendingHook].actions)
  BY <1>1, RecordSettled DEF ActionEnded
<1>3. /\ PendingHook \in DOMAIN lcHooks /\ lcHooks[PendingHook] \in HookRecords(lcDef)
      /\ PendingEvent = lcHooks[PendingHook].event
  BY <1>1, PendingFacts
<1>4. Len(lcHooks[PendingHook].actions) \in Nat
  BY <1>3 DEF HookRecords
<1>5. PendingEvent = "RunCancel" => lcRun.outcome # NoOutcome
  BY <1>1, <1>3 DEF LifecycleInv, RequestsSound, CancelIdle
<1>6. Len(x.actions) >= Len(lcHooks[PendingHook].actions)
  BY <1>2, <1>4
<1>7. /\ HooksSound(lcDef, lcHooks)' /\ OpenHooks' = OpenHooks /\ ActionKeys' = ActionKeys
      /\ RequestsSound(lcHooks, lcStep, lcRun)'
      /\ RequestsComplete(lcDef, lcHooks, lcStep, lcRun, lcWait)'
      /\ \A e : \A k \in Nat : Reached(lcHooks, e, k) => Reached(lcHooks', e, k)
  BY <1>1, <1>2, <1>5, <1>6, PendingRecorded
<1>8. ActionsCounted(lcDef, lcHooks, lcRan, lcSent)'
  BY <1>7, CountersKept
<1>9. LifecycleTypes /\ DriverShape /\ SendAttempts \in Nat \ {0}
  BY HookAssumption DEF LifecycleInv
<1>10. lcDriver' \in DriverRecords /\ lcDriver'.at = "hooks" /\ lcDriver'.then = lcDriver.then
  BY <1>9 DEF ActionEnded, Driver, DriverSteps, LifecycleTypes, DriverRecords
<1>11. LifecycleTypes'
  BY <1>7, <1>10 DEF LifecycleInv, LifecycleTypes, DriverRecords, HooksSound, HooksShaped
<1>12. RunShape' /\ StepShape'
  BY DEF LifecycleInv, RunShape, StepShape
<1>13. DriverShape' /\ ~Acts'
  BY <1>9, <1>10 DEF DriverShape, Acts, Decides
<1>14. ActionUnderWay'
  BY <1>13 DEF ActionUnderWay, Acts
<1>15. ReusableCounted(lcDef, lcReusable, lcRan, lcSent)'
  BY DEF LifecycleInv
<1> QED BY <1>7, <1>8, <1>11, <1>12, <1>13, <1>14, <1>15 DEF LifecycleInv

(* A script action ends, a delivery begins, and its answer is recorded. *)
LEMMA ActionEndsKeep ==
  ASSUME LifecycleInv
  PROVE  /\ ScriptActionEnds => LifecycleInv'
         /\ StartDelivery => LifecycleInv'
         /\ RecordDelivery => LifecycleInv'
<1>1. LifecycleTypes /\ RunShape /\ DriverShape /\ StepShape /\ SendAttempts \in Nat \ {0}
  BY HookAssumption DEF LifecycleInv
<1>2. Acts => OpenHooks # {} /\ lcHooks[PendingHook].actions # <<>>
  BY DEF LifecycleInv, ActionUnderWay
<1>3. Acts => RunningKey \in ActionKeys
  BY <1>2, RunningFacts
<1>4. ASSUME ScriptActionEnds PROVE LifecycleInv'
  <2>1. PICK s \in {"succeeded", "failed"} : ActionEnded(s)
    BY <1>4 DEF ScriptActionEnds
  <2>2. Acts /\ lcOps' \subseteq ActionKeys
        /\ UNCHANGED <<lcDef, lcRun, lcStep, lcWait, lcReusable, lcRan, lcSent, lcCrashes>>
    BY <1>1, <1>4 DEF ScriptActionEnds, Acts, LifecycleTypes
  <2> QED BY <2>1, <2>2, ActionEndedKeeps
<1>5. ASSUME UNCHANGED <<lcDef, lcRun, lcStep, lcWait, lcHooks, lcReusable, lcRan, lcSent, lcCrashes>>,
             lcOps' \subseteq ActionKeys, lcDriver' \in DriverRecords, DriverShape',
             \A kind : \A n \in Nat : SendsTold(kind, lcDriver, n) => SendsTold(kind, lcDriver', n), Acts
      PROVE  LifecycleInv'
  <2>1. /\ OpenHooks' = OpenHooks /\ PendingHook' = PendingHook /\ RunningKey' = RunningKey
        /\ RunningKind' = RunningKind
        /\ ActionKeys' = ActionKeys /\ HooksSound(lcDef, lcHooks)'
    BY <1>5, SameHooks
  <2>2. LifecycleTypes'
    BY <1>5, <2>1 DEF LifecycleInv, LifecycleTypes, DriverRecords
  <2>3. RunShape' /\ StepShape'
    BY <1>1, <1>5 DEF RunShape, StepShape
  <2>4. ActionUnderWay'
    <3>1. lcSent[RunningKey] \in Nat /\ SendsTold(RunningKind, lcDriver, lcSent[RunningKey])
      BY <1>1, <1>3, <1>5 DEF LifecycleInv, ActionUnderWay, LifecycleTypes
    <3>2. SendsTold(RunningKind, lcDriver', lcSent[RunningKey])
      BY <1>5, <3>1
    <3> QED BY <1>2, <1>5, <2>1, <3>2 DEF ActionUnderWay
  <2> QED BY <1>5, <2>1, <2>2, <2>3, <2>4 DEF LifecycleInv
<1>6. ASSUME StartDelivery PROVE LifecycleInv'
  <2>1. Acts
    BY <1>6 DEF StartDelivery, Acts
  <2>2. CASE CanOperate
    <3>1. /\ lcDriver' = [lcDriver EXCEPT !.at = "sent", !.try = lcDriver.try + 1]
          /\ lcOps' \subseteq ActionKeys
          /\ UNCHANGED <<lcDef, lcRun, lcStep, lcWait, lcHooks, lcReusable, lcRan, lcSent, lcCrashes>>
      BY <1>1, <1>3, <1>6, <2>1, <2>2 DEF StartDelivery, LifecycleTypes
    <3>2. lcDriver.try + 1 \in 0..SendAttempts
      BY <1>1, <1>6 DEF StartDelivery, DriverShape, LifecycleTypes
    <3>3. PICK n \in 0..SendAttempts : n = lcDriver.try + 1
      BY <3>2
    <3>4. /\ lcDriver' \in DriverRecords /\ lcDriver'.at = "sent" /\ lcDriver'.then = lcDriver.then
          /\ lcDriver'.answer = lcDriver.answer /\ lcDriver'.try = n
      BY <1>1, <3>1, <3>3 DEF LifecycleTypes, DriverRecords, DriverSteps
    <3>5. DriverShape'
      BY <1>1, <1>6, <3>1, <3>4 DEF StartDelivery, DriverShape, Decides
    <3>6. ASSUME NEW kind, NEW m \in Nat, SendsTold(kind, lcDriver, m)
          PROVE  SendsTold(kind, lcDriver', m)
      <4>1. m <= lcDriver.try /\ (kind # "custom" => m = 0) /\ lcDriver.try \in Nat
        BY <1>1, <1>6, <3>6 DEF StartDelivery, SendsTold, LifecycleTypes
      <4>2. m < n
        BY <3>3, <4>1
      <4> QED BY <3>4, <4>1, <4>2 DEF SendsTold
    <3> QED BY <1>5, <2>1, <3>1, <3>4, <3>5, <3>6
  <2>3. CASE ~CanOperate
    <3>1. /\ ActionEnded("failed") /\ lcOps' \subseteq ActionKeys
          /\ UNCHANGED <<lcDef, lcRun, lcStep, lcWait, lcReusable, lcRan, lcSent, lcCrashes>>
      BY <1>1, <1>6, <2>3 DEF StartDelivery, LifecycleTypes
    <3> QED BY <2>1, <3>1, ActionEndedKeeps
  <2> QED BY <2>2, <2>3
<1>7. ASSUME RecordDelivery PROVE LifecycleInv'
  <2>1. Acts
    BY <1>7 DEF RecordDelivery, Acts
  <2>2. PICK recorded : recorded = IF lcDriver.answer = "succeeded" THEN CanOperate ELSE CanFailOperation
    OBVIOUS
  <2>3. /\ lcOps' \subseteq ActionKeys
        /\ UNCHANGED <<lcDef, lcRun, lcStep, lcWait, lcReusable, lcRan, lcSent, lcCrashes>>
        /\ IF recorded /\ SendsAgain(lcDriver.answer, lcDriver.try)
           THEN /\ lcDriver' = [lcDriver EXCEPT !.at = "delivering", !.answer = "none"]
                /\ lcHooks' = lcHooks
           ELSE ActionEnded(IF recorded /\ lcDriver.answer = "succeeded" THEN "succeeded" ELSE "failed")
    BY <1>1, <1>7, <2>2 DEF RecordDelivery, LifecycleTypes
  <2>4. CASE recorded /\ SendsAgain(lcDriver.answer, lcDriver.try)
    <3>1. /\ lcDriver' \in DriverRecords /\ lcDriver'.at = "delivering"
          /\ lcDriver'.then = lcDriver.then /\ lcDriver'.try = lcDriver.try
      BY <1>1, <2>3, <2>4 DEF LifecycleTypes, DriverRecords, DriverSteps
    <3>2. lcDriver.answer = "retryable" /\ lcDriver.try < SendAttempts
      BY <2>4 DEF SendsAgain
    <3>3. DriverShape'
      BY <1>1, <1>7, <2>3, <2>4, <3>1, <3>2 DEF RecordDelivery, DriverShape, Decides
    <3>4. lcDriver.at = "received"
      BY <1>7 DEF RecordDelivery
    <3>5. ASSUME NEW kind, NEW m \in Nat, SendsTold(kind, lcDriver, m)
          PROVE  SendsTold(kind, lcDriver', m)
      BY <3>1, <3>2, <3>4, <3>5 DEF SendsTold
    <3> QED BY <1>5, <2>1, <2>3, <2>4, <3>1, <3>3, <3>5
  <2>5. CASE ~(recorded /\ SendsAgain(lcDriver.answer, lcDriver.try))
    <3>1. PICK s \in {"succeeded", "failed"} : ActionEnded(s)
      BY <2>3, <2>5
    <3> QED BY <2>1, <2>3, <3>1, ActionEndedKeeps
  <2> QED BY <2>4, <2>5
<1> QED BY <1>4, <1>6, <1>7

(* The provider has accepted a delivery, or not. *)
LEMMA ProviderAnswersKeeps ==
  ASSUME LifecycleInv, ProviderAnswers
  PROVE  LifecycleInv'
<1>1. LifecycleTypes /\ RunShape /\ DriverShape /\ StepShape /\ lcDriver.at = "sent"
  BY DEF LifecycleInv, ProviderAnswers
<1>2. PICK accepted \in BOOLEAN, answer \in {"succeeded", "failed", "retryable"} :
        /\ AnswerTells(ActionsOf(PendingEvent)[Running], accepted, answer)
        /\ lcSent' = [lcSent EXCEPT ![RunningKey] = @ + IF accepted THEN 1 ELSE 0]
        /\ lcDriver' = [lcDriver EXCEPT !.at = "received", !.answer = answer]
  BY DEF ProviderAnswers
<1>3. UNCHANGED <<lcDef, lcRun, lcStep, lcWait, lcHooks, lcOps, lcReusable, lcRan, lcCrashes>>
  BY DEF ProviderAnswers
<1>4. /\ Acts /\ OpenHooks # {} /\ lcHooks[PendingHook].actions # <<>>
      /\ SendsTold(RunningKind, lcDriver, lcSent[RunningKey])
  BY <1>1 DEF LifecycleInv, ActionUnderWay, Acts
<1>5. PICK r : r = RunningKey
  OBVIOUS
<1>6. /\ Running \in 1..Len(lcDef.hooks[PendingEvent]) /\ r = <<PendingEvent, Running>>
      /\ r \in ActionKeys /\ Reached(lcHooks, PendingEvent, Running)
      /\ PendingEvent \in DOMAIN lcDef.hooks
  BY <1>4, <1>5, RunningFacts, PendingFacts
<1>7. PICK n \in Nat : n = lcSent[r] + (IF accepted THEN 1 ELSE 0)
  BY <1>1, <1>6 DEF LifecycleTypes
<1>8. lcSent' = [lcSent EXCEPT ![r] = n]
  BY <1>2, <1>5, <1>7
<1>9. /\ lcSent' \in [ActionKeys -> Nat] /\ lcSent'[r] = n
      /\ \A k \in ActionKeys \ {r} : lcSent'[k] = lcSent[k]
  BY <1>1, <1>6, <1>8 DEF LifecycleTypes
<1>10. /\ lcDriver' \in DriverRecords /\ lcDriver'.at = "received" /\ lcDriver'.answer = answer
       /\ lcDriver'.then = lcDriver.then /\ lcDriver'.try = lcDriver.try
       /\ lcDriver.try \in 0..SendAttempts
  BY <1>1, <1>2 DEF LifecycleTypes, DriverRecords, DriverSteps
<1>11. /\ OpenHooks' = OpenHooks /\ PendingHook' = PendingHook /\ RunningKey' = RunningKey
       /\ RunningKind' = RunningKind
       /\ ActionKeys' = ActionKeys /\ HooksSound(lcDef, lcHooks)'
  BY <1>3, SameHooks
<1>12. LifecycleTypes'
  BY <1>3, <1>9, <1>10, <1>11 DEF LifecycleInv, LifecycleTypes, DriverRecords
<1>13. RunShape' /\ StepShape' /\ DriverShape'
  BY <1>1, <1>3, <1>10 DEF RunShape, StepShape, DriverShape, Decides
<1>20. /\ n <= lcDriver.try
       /\ RunningKind # "custom" => n <= 1 /\ (answer = "retryable" => n = 0)
  <2>1. /\ lcSent[r] < lcDriver.try /\ (RunningKind # "custom" => lcSent[r] = 0)
    BY <1>1, <1>4, <1>5 DEF SendsTold
  <2>2. lcSent[r] \in Nat /\ lcDriver.try \in Nat
    BY <1>1, <1>6, <1>10 DEF LifecycleTypes
  <2>3. RunningKind # "custom" /\ answer = "retryable" => ~accepted
    BY <1>2 DEF AnswerTells, RunningKind, ActionsOf
  <2>4. n = lcSent[r] \/ n = lcSent[r] + 1
    BY <1>7, <2>2
  <2>5. ~accepted => n = lcSent[r]
    BY <1>7, <2>2
  <2> QED BY <2>1, <2>2, <2>3, <2>4, <2>5
<1>14. ActionUnderWay'
  <2>1. lcSent'[RunningKey'] = n
    BY <1>5, <1>9, <1>11
  <2>2. SendsTold(RunningKind, lcDriver', n)
    BY <1>10, <1>20 DEF SendsTold
  <2> QED BY <1>3, <1>4, <1>11, <2>1, <2>2 DEF ActionUnderWay
<1>15. lcDef \in HookDefinitions
  BY <1>1 DEF LifecycleTypes
<1>16. ActionsCounted(lcDef, lcHooks, lcRan, lcSent)'
  <2> SUFFICES ASSUME NEW e \in DOMAIN lcDef.hooks, NEW k \in 1..Len(lcDef.hooks[e])
               PROVE  /\ lcRan[<<e, k>>] <= 1 /\ lcSent'[<<e, k>>] <= SendLimit(lcDef, e, k)
                      /\ ~Reached(lcHooks, e, k) => lcRan[<<e, k>>] = 0 /\ lcSent'[<<e, k>>] = 0
    BY <1>3 DEF ActionsCounted
  <2>1. /\ lcRan[<<e, k>>] <= 1 /\ lcSent[<<e, k>>] <= SendLimit(lcDef, e, k)
        /\ ~Reached(lcHooks, e, k) => lcRan[<<e, k>>] = 0 /\ lcSent[<<e, k>>] = 0
    BY DEF LifecycleInv, ActionsCounted
  <2>2. <<e, k>> \in ActionKeys
    BY <1>15, KeyFacts
  <2>3. CASE <<e, k>> = r
    <3>1. Reached(lcHooks, e, k) /\ e = PendingEvent /\ k = Running
      BY <1>6, <2>3
    <3>2. n <= SendLimit(lcDef, e, k)
      <4>1. SendLimit(lcDef, e, k) = IF RunningKind = "custom" THEN SendAttempts ELSE 1
        BY <1>6, <3>1 DEF SendLimit, RunningKind
      <4>2. n <= SendAttempts
        BY <1>10, <1>20, HookAssumption
      <4> QED BY <1>20, <4>1, <4>2
    <3> QED BY <1>9, <2>1, <2>3, <3>1, <3>2
  <2>4. CASE <<e, k>> # r
    BY <1>9, <2>1, <2>2, <2>4
  <2> QED BY <2>3, <2>4
<1>17. ReusableCounted(lcDef, lcReusable, lcRan, lcSent)'
  <2> SUFFICES ASSUME NEW h \in lcDef.reusable
               PROVE  /\ lcRan[<<h, 1>>] <= 1 /\ lcSent'[<<h, 1>>] = 0
                      /\ lcReusable[h] \in {"none", "requested"} => lcRan[<<h, 1>>] = 0
    BY <1>3 DEF ReusableCounted
  <2>1. <<h, 1>> \in ActionKeys /\ h # PendingEvent
    BY <1>6, <1>15, KeyFacts
  <2>2. <<h, 1>> # r
    BY <1>6, <2>1
  <2> QED BY <1>9, <2>1, <2>2 DEF LifecycleInv, ReusableCounted
<1>18. RequestsSound(lcHooks, lcStep, lcRun)' /\ RequestsComplete(lcDef, lcHooks, lcStep, lcRun, lcWait)'
  BY <1>3 DEF LifecycleInv
<1> QED BY <1>11, <1>12, <1>13, <1>14, <1>16, <1>17, <1>18 DEF LifecycleInv

(* The next action of the pending hook has no record yet. *)
LEMMA NextNotReached ==
  ASSUME LifecycleInv, OpenHooks # {}
  PROVE  ~Reached(lcHooks, PendingEvent, NextAction)
<1>1. PICK p : p = PendingHook
  OBVIOUS
<1>2. p \in DOMAIN lcHooks /\ lcHooks[p] \in HookRecords(lcDef) /\ PendingEvent = lcHooks[p].event
  BY <1>1, PendingFacts
<1>3. Len(lcHooks[p].actions) \in Nat
  BY <1>2 DEF HookRecords
<1>4. NextAction = Len(lcHooks[p].actions) + 1
  BY <1>1 DEF NextAction
<1>5. RequestedOnce(lcHooks)
  BY DEF LifecycleInv, HooksSound, HooksShaped
<1> QED BY <1>2, <1>3, <1>4, <1>5 DEF Reached, RequestedOnce

(* The next action is skipped or starts. *)
LEMMA ActionStartsKeep ==
  ASSUME LifecycleInv
  PROVE  /\ SkipAction => LifecycleInv'
         /\ StartAction => LifecycleInv'
<1>1. LifecycleTypes /\ RunShape /\ DriverShape /\ StepShape /\ SendAttempts \in Nat \ {0}
  BY HookAssumption DEF LifecycleInv
<1>2. ASSUME DrivesHook, ~Exhausted, NEW s \in {"started", "failed"},
             lcHooks' = [lcHooks EXCEPT ![PendingHook].actions = Append(@, s)],
             UNCHANGED <<lcDef, lcRun, lcStep, lcWait>>
      PROVE  /\ HooksSound(lcDef, lcHooks)' /\ OpenHooks' = OpenHooks /\ PendingEvent' = PendingEvent
             /\ ActionKeys' = ActionKeys /\ RequestsSound(lcHooks, lcStep, lcRun)'
             /\ RequestsComplete(lcDef, lcHooks, lcStep, lcRun, lcWait)'
             /\ \A e : \A k \in Nat : Reached(lcHooks, e, k) => Reached(lcHooks', e, k)
             /\ NextAction \in 1..Len(lcDef.hooks[PendingEvent]) /\ Running' = NextAction
             /\ Reached(lcHooks', PendingEvent, NextAction)
             /\ PendingHook' \in DOMAIN lcHooks' /\ Len(lcHooks'[PendingHook'].actions) = NextAction
  <2>1. OpenHooks # {} /\ ~Interrupted(lcHooks[PendingHook])
    BY <1>2 DEF DrivesHook
  <2>2. /\ NextAction \in 1..Len(lcDef.hooks[PendingEvent])
        /\ NextAction = Len(lcHooks[PendingHook].actions) + 1
        /\ \E x : /\ Replaces(lcDef, lcHooks, PendingHook, x, lcHooks') /\ ~x.done
                  /\ Len(x.actions) = NextAction
    BY <1>2, <2>1, RecordAppended
  <2>3. PICK x : /\ Replaces(lcDef, lcHooks, PendingHook, x, lcHooks') /\ ~x.done
                 /\ Len(x.actions) = NextAction
    BY <2>2
  <2>4. PendingEvent = "RunCancel" => lcRun.outcome # NoOutcome
    BY <1>2, <2>1 DEF DrivesHook, Waits
  <2>5. /\ PendingHook \in DOMAIN lcHooks /\ PendingEvent = lcHooks[PendingHook].event
        /\ lcHooks[PendingHook] \in HookRecords(lcDef)
    BY <2>1, PendingFacts
  <2>6. Len(x.actions) >= Len(lcHooks[PendingHook].actions)
    <3>1. Len(lcHooks[PendingHook].actions) \in Nat
      BY <2>5 DEF HookRecords
    <3> QED BY <3>1, <2>2, <2>3
  <2>7. /\ HooksSound(lcDef, lcHooks)'
        /\ OpenHooks' = OpenHooks /\ PendingHook' = PendingHook /\ PendingEvent' = PendingEvent
        /\ lcHooks'[PendingHook] = x /\ ActionKeys' = ActionKeys
        /\ RequestsSound(lcHooks, lcStep, lcRun)'
        /\ RequestsComplete(lcDef, lcHooks, lcStep, lcRun, lcWait)'
        /\ \A e : \A k \in Nat : Reached(lcHooks, e, k) => Reached(lcHooks', e, k)
    BY <1>2, <2>1, <2>3, <2>4, <2>6, PendingRecorded
  <2>8. PendingHook \in DOMAIN lcHooks' /\ x.event = PendingEvent
    <3>1. PICK p : p = PendingHook
      OBVIOUS
    <3>2. lcHooks' = [lcHooks EXCEPT ![p] = x] /\ x.event = lcHooks[p].event
      BY <2>3, <3>1 DEF Replaces
    <3> QED BY <2>5, <3>1, <3>2
  <2>9. Running' = NextAction
    BY <2>3, <2>7 DEF Running
  <2>10. Reached(lcHooks', PendingEvent, NextAction)
    <3>1. NextAction <= Len(x.actions)
      BY <2>2, <2>3
    <3> QED BY <2>7, <2>8, <3>1 DEF Reached
  <2> QED BY <2>2, <2>3, <2>7, <2>8, <2>9, <2>10
<1>3. ASSUME SkipAction PROVE LifecycleInv'
  <2>1. /\ HooksSound(lcDef, lcHooks)' /\ OpenHooks' = OpenHooks
        /\ ActionKeys' = ActionKeys /\ RequestsSound(lcHooks, lcStep, lcRun)'
        /\ RequestsComplete(lcDef, lcHooks, lcStep, lcRun, lcWait)'
        /\ \A e : \A k \in Nat : Reached(lcHooks, e, k) => Reached(lcHooks', e, k)
    BY <1>2, <1>3 DEF SkipAction
  <2>2. lcDriver.at = "hooks" /\ UNCHANGED <<lcDef, lcRun, lcStep, lcWait, lcOps, lcReusable, lcDriver, lcRan, lcSent, lcCrashes>>
    BY <1>3 DEF SkipAction, DrivesHook
  <2>3. LifecycleTypes'
    BY <1>1, <2>1, <2>2 DEF LifecycleTypes, HooksSound, HooksShaped
  <2>4. RunShape' /\ StepShape' /\ DriverShape'
    BY <1>1, <2>1, <2>2 DEF RunShape, StepShape, DriverShape, Decides
  <2>5. ActionUnderWay'
    BY <2>2 DEF ActionUnderWay, Acts
  <2>6. ActionsCounted(lcDef, lcHooks, lcRan, lcSent)'
    BY <2>1, <2>2, CountersKept
  <2>7. ReusableCounted(lcDef, lcReusable, lcRan, lcSent)'
    BY <2>2 DEF LifecycleInv
  <2> QED BY <2>1, <2>3, <2>4, <2>5, <2>6, <2>7 DEF LifecycleInv
<1>4. ASSUME StartAction PROVE LifecycleInv'
  <2>1. /\ HooksSound(lcDef, lcHooks)' /\ OpenHooks' = OpenHooks /\ PendingEvent' = PendingEvent
        /\ ActionKeys' = ActionKeys /\ RequestsSound(lcHooks, lcStep, lcRun)'
        /\ RequestsComplete(lcDef, lcHooks, lcStep, lcRun, lcWait)'
        /\ \A e : \A k \in Nat : Reached(lcHooks, e, k) => Reached(lcHooks', e, k)
        /\ NextAction \in 1..Len(lcDef.hooks[PendingEvent]) /\ Running' = NextAction
        /\ Reached(lcHooks', PendingEvent, NextAction)
        /\ PendingHook' \in DOMAIN lcHooks' /\ Len(lcHooks'[PendingHook'].actions) = NextAction
    BY <1>2, <1>4 DEF StartAction
  <2>2. /\ lcDriver.at = "hooks" /\ OpenHooks # {}
        /\ UNCHANGED <<lcDef, lcRun, lcStep, lcWait, lcOps, lcReusable, lcSent, lcCrashes>>
    BY <1>4 DEF StartAction, DrivesHook
  <2>3. PICK r : r = <<PendingEvent, NextAction>>
    OBVIOUS
  <2>4. PendingEvent \in DOMAIN lcDef.hooks /\ ~Reached(lcHooks, PendingEvent, NextAction)
    BY <2>2, PendingFacts, NextNotReached
  <2>5. lcDef \in HookDefinitions /\ lcRan \in [ActionKeys -> Nat]
    BY <1>1 DEF LifecycleTypes
  <2>6. r \in ActionKeys /\ lcRan[r] = 0 /\ lcSent[r] = 0
    BY <2>1, <2>3, <2>4, <2>5, KeyFacts DEF LifecycleInv, ActionsCounted
  <2>7. lcRan' = [lcRan EXCEPT ![r] = 1]
    BY <1>4, <2>3, <2>6 DEF StartAction
  <2>8. /\ lcRan' \in [ActionKeys -> Nat] /\ lcRan'[r] = 1
        /\ \A k \in ActionKeys \ {r} : lcRan'[k] = lcRan[k]
    BY <2>5, <2>6, <2>7
  <2>9. PICK w \in {"acting", "delivering"} : lcDriver' = [lcDriver EXCEPT !.at = w, !.try = 0]
    BY <1>4 DEF StartAction
  <2>10. /\ lcDriver' \in DriverRecords /\ lcDriver'.at = w /\ lcDriver'.then = lcDriver.then
         /\ lcDriver'.try = 0
    <3>1. 0 \in 0..SendAttempts /\ w \in DriverSteps
      BY <1>1 DEF DriverSteps
    <3> QED BY <1>1, <2>9, <3>1 DEF LifecycleTypes, DriverRecords
  <2>11. LifecycleTypes'
    BY <1>1, <2>1, <2>2, <2>8, <2>10 DEF LifecycleTypes, HooksSound, HooksShaped, DriverRecords
  <2>12. RunShape' /\ StepShape' /\ DriverShape'
    BY <1>1, <2>1, <2>2, <2>10 DEF RunShape, StepShape, DriverShape, Decides
  <2>13. lcHooks'[PendingHook'].actions # <<>>
    BY <2>1
  <2>14. RunningKey' = r
    BY <2>1, <2>3 DEF RunningKey
  <2>15. ActionUnderWay'
    <3>1. SendsTold(RunningKind', lcDriver', 0)
      BY <2>9, <2>10 DEF SendsTold
    <3> QED BY <2>1, <2>2, <2>6, <2>13, <2>14, <3>1 DEF ActionUnderWay
  <2>16. ActionsCounted(lcDef, lcHooks, lcRan, lcSent)'
    <3> SUFFICES ASSUME NEW e \in DOMAIN lcDef.hooks, NEW k \in 1..Len(lcDef.hooks[e])
                 PROVE  /\ lcRan'[<<e, k>>] <= 1 /\ lcSent[<<e, k>>] <= SendLimit(lcDef, e, k)
                        /\ ~Reached(lcHooks', e, k) => lcRan'[<<e, k>>] = 0 /\ lcSent[<<e, k>>] = 0
      BY <2>2 DEF ActionsCounted
    <3>1. /\ lcRan[<<e, k>>] <= 1 /\ lcSent[<<e, k>>] <= SendLimit(lcDef, e, k)
          /\ ~Reached(lcHooks, e, k) => lcRan[<<e, k>>] = 0 /\ lcSent[<<e, k>>] = 0
      BY DEF LifecycleInv, ActionsCounted
    <3>2. <<e, k>> \in ActionKeys /\ k \in Nat
      BY <2>5, KeyFacts
    <3>3. CASE <<e, k>> = r
      <4>1. e = PendingEvent /\ k = NextAction
        BY <2>3, <3>3
      <4> QED BY <2>1, <2>8, <3>1, <3>3, <4>1
    <3>4. CASE <<e, k>> # r
      BY <2>1, <2>8, <3>1, <3>2, <3>4
    <3> QED BY <3>3, <3>4
  <2>17. ReusableCounted(lcDef, lcReusable, lcRan, lcSent)'
    <3> SUFFICES ASSUME NEW h \in lcDef.reusable
                 PROVE  /\ lcRan'[<<h, 1>>] <= 1 /\ lcSent[<<h, 1>>] = 0
                        /\ lcReusable[h] \in {"none", "requested"} => lcRan'[<<h, 1>>] = 0
      BY <2>2 DEF ReusableCounted
    <3>1. <<h, 1>> \in ActionKeys /\ h # PendingEvent
      BY <2>4, <2>5, KeyFacts
    <3>2. <<h, 1>> # r
      BY <2>3, <3>1
    <3> QED BY <2>8, <3>1, <3>2 DEF LifecycleInv, ReusableCounted
  <2> QED BY <2>1, <2>11, <2>12, <2>15, <2>16, <2>17 DEF LifecycleInv
<1> QED BY <1>3, <1>4

(* A hook is replaced by x and, if that is done, requests the one behind it. *)
LEMMA HookClosed ==
  ASSUME LifecycleInv, NEW p, NEW x, NEW mid, NEW next,
         Replaces(lcDef, lcHooks, p, x, mid), lcHooks' = mid \o next,
         next = IF x.done THEN Due(FollowUp(x.event)) ELSE <<>>,
         RequestsAccepted(next),
         Len(x.actions) >= Len(lcHooks[p].actions),
         x.event = "RunCancel" => lcRun.outcome # NoOutcome,
         UNCHANGED <<lcDef, lcRun, lcStep, lcWait>>
  PROVE  /\ HooksSound(lcDef, lcHooks)' /\ ActionKeys' = ActionKeys
         /\ RequestsSound(lcHooks, lcStep, lcRun)'
         /\ RequestsComplete(lcDef, lcHooks, lcStep, lcRun, lcWait)'
         /\ \A e : \A k \in Nat \ {0} : Reached(lcHooks, e, k) => Reached(lcHooks', e, k)
<1>1. HooksSound(lcDef, lcHooks) /\ lcDef \in HookDefinitions
  BY DEF LifecycleInv, LifecycleTypes
<1>2. /\ p \in DOMAIN lcHooks /\ x \in HookRecords(lcDef) /\ x.event = lcHooks[p].event
      /\ mid \in Seq(HookRecords(lcDef)) /\ DOMAIN mid = DOMAIN lcHooks
      /\ mid[p] = x /\ \A i \in DOMAIN lcHooks \ {p} : mid[i] = lcHooks[i]
      /\ \A e : Requests(mid, e) <=> Requests(lcHooks, e)
  BY <1>1, HookReplaced DEF Replaces
<1>3. x.event \in HookEvents /\ x.done \in BOOLEAN /\ Requests(lcHooks, x.event)
  BY <1>1, <1>2, DefinitionFacts DEF HookRecords, Requests
<1>4. PICK new : new = (IF x.done /\ x.event \in {"RunSuccess", "RunFailure", "RunCancel"}
                           /\ "RunComplete" \in DOMAIN lcDef.hooks THEN {"RunComplete"}
                        ELSE IF x.done /\ x.event \in {"StepSuccess", "StepFailure"}
                           /\ "StepComplete" \in DOMAIN lcDef.hooks THEN {"StepComplete"}
                        ELSE {})
  OBVIOUS
<1>5. Fresh(lcDef, lcHooks, next) /\ \A f : Requests(next, f) <=> f \in new
  <2>1. CASE x.done /\ x.event \in {"RunSuccess", "RunFailure", "RunCancel"}
    <3>1. next = Due(<<"RunComplete">>)
      BY <2>1 DEF FollowUp
    <3>2. Candidates(<<"RunComplete">>, "RunComplete", "RunComplete")
      BY DEF Candidates
    <3>3. DueEvents(lcDef, "RunComplete", "RunComplete") = new
      BY <1>4, <2>1 DEF DueEvents
    <3> QED BY <3>1, <3>2, <3>3, DueRequests
  <2>2. CASE x.done /\ x.event \in {"StepSuccess", "StepFailure"}
    <3>1. next = Due(<<"StepComplete">>)
      BY <2>2 DEF FollowUp
    <3>2. Candidates(<<"StepComplete">>, "StepComplete", "StepComplete")
      BY DEF Candidates
    <3>3. DueEvents(lcDef, "StepComplete", "StepComplete") = new
      BY <1>4, <2>2 DEF DueEvents
    <3> QED BY <3>1, <3>2, <3>3, DueRequests
  <2>3. CASE ~(x.done /\ x.event \in {"RunSuccess", "RunFailure", "RunCancel", "StepSuccess", "StepFailure"})
    <3>1. next = <<>>
      BY <2>3, DueIsFirstDeclared DEF FollowUp
    <3>2. new = {}
      BY <1>4, <2>3
    <3> QED BY <3>1, <3>2, FreshHooks
  <2> QED BY <2>1, <2>2, <2>3
<1>6. FollowedUp(lcDef, next, x)
  BY <1>4, <1>5 DEF FollowedUp
<1>7. /\ HooksSound(lcDef, lcHooks')
      /\ \A e : Requests(lcHooks', e) <=> Requests(lcHooks, e) \/ e \in new
      /\ \A e : \A k \in Nat \ {0} : Reached(lcHooks', e, k) <=> Reached(mid, e, k)
      /\ CancelIdle(mid) => CancelIdle(lcHooks')
  BY <1>1, <1>5, <1>6, HookCompleted
<1>8. \A e \in new : \/ e = "RunComplete" /\ lcRun.outcome # NoOutcome
                     \/ e = "StepComplete" /\ lcStep.status \in {"succeeded", "failed", "cancelled"}
  BY <1>3, <1>4 DEF LifecycleInv, RequestsSound, NoOutcome
<1>9. lcRun.outcome = NoOutcome => CancelIdle(lcHooks')
  <2>1. lcRun.outcome = NoOutcome => CancelIdle(lcHooks)
    BY DEF LifecycleInv, RequestsSound
  <2>2. lcRun.outcome = NoOutcome => CancelIdle(mid)
    BY <1>2, <2>1 DEF CancelIdle
  <2> QED BY <1>7, <2>2
<1>10. RequestsSound(lcHooks, lcStep, lcRun)'
  BY <1>7, <1>8, <1>9 DEF LifecycleInv, RequestsSound
<1>11. RequestsComplete(lcDef, lcHooks, lcStep, lcRun, lcWait)'
  BY <1>7 DEF LifecycleInv, RequestsComplete, OneRequested
<1>12. ASSUME NEW e, NEW k \in Nat \ {0}, Reached(lcHooks, e, k) PROVE Reached(mid, e, k)
  <2>1. PICK i \in DOMAIN lcHooks : lcHooks[i].event = e /\ k <= Len(lcHooks[i].actions)
    BY <1>12 DEF Reached
  <2>2. Len(x.actions) \in Nat /\ Len(lcHooks[p].actions) \in Nat
    <3>1. lcHooks[p] \in HookRecords(lcDef)
      BY <1>1, <1>2 DEF HooksSound, HooksShaped
    <3> QED BY <1>2, <3>1 DEF HookRecords
  <2>3. mid[i].event = e /\ k <= Len(mid[i].actions)
    <3>1. CASE i = p
      BY <1>2, <2>1, <2>2, <3>1
    <3>2. CASE i # p
      <4>1. mid[i] = lcHooks[i]
        BY <1>2, <2>1, <3>2
      <4> QED BY <2>1, <4>1
    <3> QED BY <3>1, <3>2
  <2> QED BY <1>2, <2>1, <2>3 DEF Reached
<1>13. ActionKeys' = ActionKeys
  BY DEF ActionKeys, ActionsOf
<1> QED BY <1>7, <1>10, <1>11, <1>12, <1>13

(* The driver behind a hook that was closed. *)
LEMMA HookClosedKeeps ==
  ASSUME LifecycleInv, UNCHANGED <<lcDef, lcRun, lcStep, lcWait, lcOps, lcReusable, lcRan, lcSent, lcCrashes>>,
         HooksSound(lcDef, lcHooks)', ActionKeys' = ActionKeys,
         RequestsSound(lcHooks, lcStep, lcRun)',
         RequestsComplete(lcDef, lcHooks, lcStep, lcRun, lcWait)',
         \A e : \A k \in Nat \ {0} : Reached(lcHooks, e, k) => Reached(lcHooks', e, k),
         lcDriver' \in DriverRecords, ~Acts', lcRun.status \notin TerminalStatuses,
         Decides' => lcRun.status \in {"Running", "Cancelling"},
         lcDriver'.at \notin {"step", "recording"}
  PROVE  LifecycleInv'
<1>1. LifecycleTypes'
  BY DEF LifecycleInv, LifecycleTypes, DriverRecords, HooksSound, HooksShaped
<1>2. RunShape' /\ StepShape'
  BY DEF LifecycleInv, RunShape, StepShape
<1>3. DriverShape'
  BY DEF DriverShape, Acts
<1>4. ActionUnderWay'
  BY DEF ActionUnderWay, Acts
<1>5. ActionsCounted(lcDef, lcHooks, lcRan, lcSent)'
  <2> SUFFICES ASSUME NEW e \in DOMAIN lcDef.hooks, NEW k \in 1..Len(lcDef.hooks[e])
               PROVE  /\ lcRan[<<e, k>>] <= 1 /\ lcSent[<<e, k>>] <= SendLimit(lcDef, e, k)
                      /\ ~Reached(lcHooks', e, k) => lcRan[<<e, k>>] = 0 /\ lcSent[<<e, k>>] = 0
    BY DEF ActionsCounted
  <2>1. k \in Nat \ {0}
    OBVIOUS
  <2>2. /\ lcRan[<<e, k>>] <= 1 /\ lcSent[<<e, k>>] <= SendLimit(lcDef, e, k)
        /\ ~Reached(lcHooks, e, k) => lcRan[<<e, k>>] = 0 /\ lcSent[<<e, k>>] = 0
    BY DEF LifecycleInv, ActionsCounted
  <2> QED BY <2>1, <2>2
<1>6. ReusableCounted(lcDef, lcReusable, lcRan, lcSent)'
  BY DEF LifecycleInv
<1> QED BY <1>1, <1>2, <1>3, <1>4, <1>5, <1>6 DEF LifecycleInv

(* A hook whose actions are all recorded is completed. *)
LEMMA CompleteHookKeeps ==
  ASSUME LifecycleInv, CompleteHook
  PROVE  LifecycleInv'
<1>1. LifecycleTypes /\ RunShape /\ DriverShape /\ SendAttempts \in Nat \ {0}
  BY HookAssumption DEF LifecycleInv
<1>2. PICK p : p = PendingHook
  OBVIOUS
<1>3. PICK h : h = lcHooks[p]
  OBVIOUS
<1>4. PICK next : next = Due(FollowUp(PendingEvent))
  OBVIOUS
<1>5. /\ lcDriver.at = "hooks" /\ OpenHooks # {} /\ ~Waits /\ ~Interrupted(h) /\ Exhausted
      /\ IF RequestsAccepted(next)
         THEN /\ lcHooks' = [lcHooks EXCEPT ![p].done = TRUE] \o next
              /\ lcDriver' = lcDriver
         ELSE lcDriver' = Driver("stopped", "end") /\ lcHooks' = lcHooks
      /\ UNCHANGED <<lcDef, lcRun, lcStep, lcWait, lcOps, lcReusable, lcRan, lcSent, lcCrashes>>
  BY <1>2, <1>3, <1>4 DEF CompleteHook, DrivesHook
<1>6. /\ p \in DOMAIN lcHooks /\ h \in HookRecords(lcDef) /\ HookSound(lcDef, h)
      /\ PendingEvent = h.event /\ PendingEvent \in DOMAIN lcDef.hooks
  BY <1>2, <1>3, <1>5, PendingFacts
<1>7. CASE RequestsAccepted(next)
  <2>1. PICK x : x = [h EXCEPT !.done = TRUE]
    OBVIOUS
  <2>2. x \in HookRecords(lcDef) /\ x.event = h.event /\ x.actions = h.actions /\ x.done = TRUE
    BY <1>6, <2>1 DEF HookRecords
  <2>3. PICK mid : mid = [lcHooks EXCEPT ![p] = x]
    OBVIOUS
  <2>4. lcHooks' = mid \o next
    BY <1>3, <1>5, <1>7, <2>1, <2>3
  <2>5. Len(h.actions) \in Nat /\ Len(lcDef.hooks[h.event]) \in Nat
    BY <1>1, <1>6, DefinitionFacts DEF HookRecords, LifecycleTypes
  <2>6. Len(h.actions) = Len(lcDef.hooks[h.event])
    <3>1. Len(h.actions) + 1 > Len(lcDef.hooks[h.event])
      BY <1>2, <1>3, <1>5, <1>6 DEF Exhausted, NextAction, ActionsOf
    <3>2. Len(h.actions) <= Len(lcDef.hooks[h.event])
      BY <1>6 DEF HookSound
    <3> QED BY <2>5, <3>1, <3>2
  <2>7. HookSound(lcDef, x)
    BY <1>5, <2>2, <2>5, <2>6 DEF HookSound, Interrupted
  <2>8. Replaces(lcDef, lcHooks, p, x, mid)
    BY <1>3, <1>6, <2>2, <2>3, <2>7 DEF Replaces
  <2>9. next = IF x.done THEN Due(FollowUp(x.event)) ELSE <<>>
    BY <1>4, <1>6, <2>2
  <2>10. x.event = "RunCancel" => lcRun.outcome # NoOutcome
    BY <1>5, <1>6, <2>2 DEF Waits
  <2>11. Len(x.actions) >= Len(lcHooks[p].actions)
    BY <1>3, <2>2, <2>5
  <2>12. /\ HooksSound(lcDef, lcHooks)' /\ ActionKeys' = ActionKeys
         /\ RequestsSound(lcHooks, lcStep, lcRun)'
         /\ RequestsComplete(lcDef, lcHooks, lcStep, lcRun, lcWait)'
         /\ \A e : \A k \in Nat \ {0} : Reached(lcHooks, e, k) => Reached(lcHooks', e, k)
    BY <1>5, <1>7, <2>4, <2>8, <2>9, <2>10, <2>11, HookClosed
  <2>13. /\ lcDriver' \in DriverRecords /\ ~Acts' /\ lcRun.status \notin TerminalStatuses
         /\ Decides' => lcRun.status \in {"Running", "Cancelling"}
         /\ lcDriver'.at \notin {"step", "recording"}
    BY <1>1, <1>5, <1>7 DEF LifecycleTypes, DriverRecords, DriverShape, Decides, Acts
  <2> QED BY <1>5, <2>12, <2>13, HookClosedKeeps
<1>8. CASE ~RequestsAccepted(next)
  <2>1. OpenHooks' = OpenHooks
    BY <1>5, <1>8, SameHooks
  <2>2. DriverShape' /\ ~Acts'
    BY <1>1, <1>5, <1>8, <2>1 DEF DriverShape, Decides, Acts, Driver
  <2>3. lcDriver' \in DriverRecords /\ lcCrashes' \in 0..MaxHookCrashes
    BY <1>1, <1>5, <1>8 DEF LifecycleTypes, DriverRecords, Driver, DriverSteps
  <2> QED BY <1>5, <1>8, <2>2, <2>3, DriverStepKeeps DEF DriverRecords
<1> QED BY <1>7, <1>8

(* The records of a hook whose last action is failed by recovery. *)
LEMMA InterruptedFailed ==
  ASSUME NEW d, NEW h \in HookRecords(d), HookSound(d, h), Interrupted(h),
         NEW acts, acts = Append(Front(h.actions), "failed")
  PROVE  /\ acts \in Seq(ActionStatuses) /\ Len(acts) = Len(h.actions)
         /\ \A k \in DOMAIN acts : acts[k] # "started"
         /\ ~h.done /\ Len(h.actions) \in Nat \ {0}
<1>1. h.actions \in Seq(ActionStatuses)
  BY DEF HookRecords
<1>2. PICK old : old = h.actions
  OBVIOUS
<1>3. PICK i \in DOMAIN old : old[i] = "started"
  BY <1>2 DEF Interrupted
<1>4. /\ old \in Seq(ActionStatuses) /\ Len(old) \in Nat \ {0} /\ DOMAIN old = 1..Len(old)
      /\ i = Len(old) /\ ~h.done
      /\ \A k \in DOMAIN old : old[k] = "started" => k = Len(old)
  BY <1>1, <1>2, <1>3 DEF HookSound
<1>5. PICK front : front = SubSeq(old, 1, Len(old) - 1)
  OBVIOUS
<1>6. /\ front \in Seq(ActionStatuses) /\ Len(front) = Len(old) - 1
      /\ \A k \in 1..(Len(old) - 1) : front[k] = old[k]
  BY <1>4, <1>5
<1>7. acts = Append(front, "failed")
  BY <1>2, <1>5 DEF Front
<1>8. "failed" \in ActionStatuses
  BY DEF ActionStatuses
<1>9. /\ acts \in Seq(ActionStatuses) /\ Len(acts) = Len(old)
      /\ \A k \in 1..(Len(old) - 1) : acts[k] = front[k]
      /\ acts[Len(old)] = "failed"
  <2>1. PICK n : n = Len(front)
    OBVIOUS
  <2>2. n \in Nat /\ Len(old) = n + 1 /\ Len(old) - 1 = n
    BY <1>4, <1>6, <2>1
  <2>3. /\ acts \in Seq(ActionStatuses) /\ Len(acts) = Len(front) + 1
        /\ \A k \in 1..Len(front) : acts[k] = front[k]
        /\ acts[Len(front) + 1] = "failed"
    <3>1. front \in Seq(ActionStatuses)
      BY <1>6
    <3>2. /\ Append(front, "failed") \in Seq(ActionStatuses)
          /\ Len(Append(front, "failed")) = Len(front) + 1
          /\ \A k \in 1..Len(front) : Append(front, "failed")[k] = front[k]
          /\ Append(front, "failed")[Len(front) + 1] = "failed"
      BY <1>8, <3>1, AppendProperties
    <3> QED BY <1>7, <3>2
  <2> QED BY <2>1, <2>2, <2>3
<1>10. ASSUME NEW k \in DOMAIN acts PROVE acts[k] # "started"
  <2>1. k \in 1..Len(old)
    BY <1>9
  <2>2. CASE k = Len(old)
    BY <1>9, <2>2
  <2>3. CASE k # Len(old)
    <3>1. k \in 1..(Len(old) - 1)
      BY <1>4, <2>1, <2>3
    <3> QED BY <1>4, <1>6, <1>9, <2>1, <2>3, <3>1
  <2> QED BY <2>2, <2>3
<1> QED BY <1>2, <1>4, <1>9, <1>10

(* Recovery fails the interrupted action of a hook. *)
LEMMA RecoverActionsKeeps ==
  ASSUME LifecycleInv, RecoverActions
  PROVE  LifecycleInv'
<1>1. LifecycleTypes /\ RunShape /\ DriverShape /\ SendAttempts \in Nat \ {0}
  BY HookAssumption DEF LifecycleInv
<1>2. PICK p : p = CHOOSE x \in InterruptedHooks : TRUE
  OBVIOUS
<1>3. InterruptedHooks # {} /\ lcDriver.at = "stopped"
  BY DEF RecoverActions, AfterCrash
<1>4. p \in InterruptedHooks
  BY <1>2, <1>3
<1>5. PICK h : h = lcHooks[p]
  OBVIOUS
<1>6. /\ p \in DOMAIN lcHooks /\ Interrupted(h) /\ h \in HookRecords(lcDef) /\ HookSound(lcDef, h)
  BY <1>1, <1>4, <1>5 DEF InterruptedHooks, LifecycleInv, LifecycleTypes, HooksSound, HooksShaped
<1>7. PICK acts : acts = Append(Front(h.actions), "failed")
  OBVIOUS
<1>8. /\ acts \in Seq(ActionStatuses) /\ Len(acts) = Len(h.actions)
      /\ \A k \in DOMAIN acts : acts[k] # "started"
      /\ ~h.done /\ Len(h.actions) \in Nat \ {0}
  BY <1>6, <1>7, InterruptedFailed
<1>9. PICK g : g = [h EXCEPT !.actions = acts]
  OBVIOUS
<1>10. g = FailInterrupted(h) /\ g \in HookRecords(lcDef) /\ g.event = h.event /\ g.actions = acts
  BY <1>6, <1>7, <1>8, <1>9 DEF FailInterrupted, HookRecords
<1>11. PICK full \in BOOLEAN : full <=> Len(g.actions) = Len(ActionsOf(g.event))
  OBVIOUS
<1>12. full = (Len(g.actions) = Len(ActionsOf(g.event)))
  BY <1>11
<1>13. PICK next : next = IF full THEN Due(FollowUp(g.event)) ELSE <<>>
  OBVIOUS
<1>14. PICK x : x = [g EXCEPT !.done = full]
  OBVIOUS
<1>15. x \in HookRecords(lcDef) /\ x.event = h.event /\ x.actions = acts /\ x.done = full
  BY <1>10, <1>11, <1>14 DEF HookRecords
<1>16. PICK mid : mid = [lcHooks EXCEPT ![p] = x]
  OBVIOUS
<1>17. g = FailInterrupted(lcHooks[p])
  BY <1>5, <1>10
<1>18. /\ RequestsAccepted(next) /\ lcHooks' = mid \o next
       /\ lcDriver' = Resumed(lcRun.status)
       /\ UNCHANGED <<lcDef, lcRun, lcStep, lcWait, lcOps, lcReusable, lcRan, lcSent, lcCrashes>>
  BY <1>2, <1>12, <1>13, <1>14, <1>16, <1>17 DEF RecoverActions
<1>19. Len(lcDef.hooks[h.event]) \in Nat
  BY <1>1, <1>6, DefinitionFacts DEF HookRecords, LifecycleTypes
<1>20. HookSound(lcDef, x)
  BY <1>6, <1>8, <1>10, <1>11, <1>15, <1>19 DEF HookSound, ActionsOf
<1>21. Replaces(lcDef, lcHooks, p, x, mid)
  BY <1>5, <1>6, <1>15, <1>16, <1>20 DEF Replaces
<1>22. next = IF x.done THEN Due(FollowUp(x.event)) ELSE <<>>
  BY <1>10, <1>13, <1>15
<1>23. x.event = "RunCancel" => lcRun.outcome # NoOutcome
  <2>1. h.actions # <<>>
    BY <1>8
  <2> QED BY <1>5, <1>6, <1>15, <2>1 DEF LifecycleInv, RequestsSound, CancelIdle
<1>24. Len(x.actions) >= Len(lcHooks[p].actions)
  BY <1>5, <1>8, <1>15
<1>25. /\ HooksSound(lcDef, lcHooks)' /\ ActionKeys' = ActionKeys
       /\ RequestsSound(lcHooks, lcStep, lcRun)'
       /\ RequestsComplete(lcDef, lcHooks, lcStep, lcRun, lcWait)'
       /\ \A e : \A k \in Nat \ {0} : Reached(lcHooks, e, k) => Reached(lcHooks', e, k)
  BY <1>18, <1>21, <1>22, <1>23, <1>24, HookClosed
<1>26. /\ lcDriver' \in DriverRecords /\ ~Acts' /\ lcRun.status \notin TerminalStatuses
       /\ Decides' => lcRun.status \in {"Running", "Cancelling"}
       /\ lcDriver'.at \notin {"step", "recording"}
  BY <1>1, <1>3, <1>18 DEF DriverRecords, DriverShape, Decides, Acts, Resumed, Driver, NoDriver, DriverSteps
<1> QED BY <1>18, <1>25, <1>26, HookClosedKeeps

(* all is hs with requests of the events in new behind it. *)
RequestsMade(d, hs, all, new) ==
  /\ HooksSound(d, all)
  /\ \A e : Requests(all, e) <=> Requests(hs, e) \/ e \in new
  /\ \A e : \A k \in Nat \ {0} : Reached(all, e, k) <=> Reached(hs, e, k)
  /\ CancelIdle(hs) => CancelIdle(all)

(* What is due of two candidates is requested. *)
LEMMA DueMade ==
  ASSUME NEW hs, HooksSound(lcDef, hs), NEW c, NEW a, NEW b, Candidates(c, a, b),
         \A e \in DueEvents(lcDef, a, b) : ~Requests(hs, e)
  PROVE  RequestsMade(lcDef, hs, hs \o Due(c), DueEvents(lcDef, a, b))
<1>1. PICK new : new = Due(c)
  OBVIOUS
<1>2. Fresh(lcDef, hs, new) /\ \A f : Requests(new, f) <=> f \in DueEvents(lcDef, a, b)
  BY <1>1, DueRequests
<1>3. /\ HooksSound(lcDef, hs \o new)
      /\ \A e : Requests(hs \o new, e) <=> Requests(hs, e) \/ Requests(new, e)
      /\ \A e : \A k \in Nat \ {0} : Reached(hs \o new, e, k) <=> Reached(hs, e, k)
      /\ CancelIdle(hs) => CancelIdle(hs \o new)
  BY <1>2, RequestsAppended
<1>4. PICK all : all = hs \o new
  OBVIOUS
<1>5. RequestsMade(lcDef, hs, all, DueEvents(lcDef, a, b))
  BY <1>2, <1>3, <1>4 DEF RequestsMade
<1> QED BY <1>1, <1>4, <1>5

(* Nothing is requested. *)
LEMMA NoneMade ==
  ASSUME NEW hs, HooksSound(lcDef, hs)
  PROVE  RequestsMade(lcDef, hs, hs, {}) /\ hs \o <<>> = hs
<1>1. hs \in Seq(HookRecords(lcDef))
  BY DEF HooksSound, HooksShaped
<1> QED BY <1>1, ConcatEmptySeq DEF RequestsMade

(* Two requests, one behind the other. *)
LEMMA BothMade ==
  ASSUME NEW d, NEW hs, NEW mid, NEW all, NEW A, NEW B,
         RequestsMade(d, hs, mid, A), RequestsMade(d, mid, all, B)
  PROVE  RequestsMade(d, hs, all, A \cup B)
<1>1. \A e : Requests(all, e) <=> Requests(hs, e) \/ e \in A \cup B
  BY DEF RequestsMade
<1>2. \A e : \A k \in Nat \ {0} : Reached(all, e, k) <=> Reached(hs, e, k)
  BY DEF RequestsMade
<1> QED BY <1>1, <1>2 DEF RequestsMade

(* The candidates of an end of the step or of the run. *)
LEMMA CandidateFacts ==
  /\ Candidates(ForOutcome("Succeeded"), "RunSuccess", "RunComplete")
  /\ Candidates(ForOutcome("Failed"), "RunFailure", "RunComplete")
  /\ Candidates(ForOutcome("Cancelled"), "RunCancel", "RunComplete")
  /\ Candidates(ForStep("succeeded"), "StepSuccess", "StepComplete")
  /\ Candidates(ForStep("failed"), "StepFailure", "StepComplete")
  /\ Candidates(ForStep("cancelled"), "StepComplete", "StepComplete")
  /\ Candidates(<<"StepStart">>, "StepStart", "StepStart")
  /\ Candidates(<<"RunStart">>, "RunStart", "RunStart")
  /\ Candidates(<<"RunCancel">>, "RunCancel", "RunCancel")
<1>1. /\ OutcomeEvent("Succeeded") = "RunSuccess" /\ OutcomeEvent("Failed") = "RunFailure"
      /\ OutcomeEvent("Cancelled") = "RunCancel"
  BY DEF OutcomeEvent
<1>2. /\ ForStep("succeeded") = <<"StepSuccess", "StepComplete">>
      /\ ForStep("failed") = <<"StepFailure", "StepComplete">>
      /\ ForStep("cancelled") = <<"StepComplete">>
  BY DEF ForStep
<1> QED BY <1>1, <1>2 DEF Candidates, ForOutcome

(* The run with its outcome. *)
LEMMA DecidedFacts ==
  ASSUME LifecycleTypes, NEW o \in BusinessOutcomes, NEW r,
         r = Decided(lcRun, o) \/ r = RunOutcomeDecided(lcRun, o)
  PROVE  /\ r \in RunProjections /\ r.outcome = o /\ r.cancelRequested = lcRun.cancelRequested
         /\ r.status = "Finalizing" \/ (r.status = o /\ DOMAIN lcDef.hooks = {})
<1>1. PICK q : q = RunOutcomeDecided(lcRun, o)
  OBVIOUS
<1>2. /\ q \in RunProjections /\ q.outcome = o /\ q.cancelRequested = lcRun.cancelRequested
      /\ q.status = "Finalizing"
  BY <1>1 DEF LifecycleTypes, RunOutcomeDecided, RunProjections, RunStatuses, BusinessOutcomes
<1>3. PICK f : f = RunFinalized(q)
  OBVIOUS
<1>4. /\ f \in RunProjections /\ f.outcome = o /\ f.cancelRequested = lcRun.cancelRequested
      /\ f.status = o
  BY <1>2, <1>3 DEF RunFinalized, RunProjections, RunStatuses, BusinessOutcomes
<1>5. CASE r = q
  BY <1>2, <1>5
<1>6. CASE r = f /\ DOMAIN lcDef.hooks = {}
  BY <1>4, <1>6
<1> QED BY <1>1, <1>3, <1>5, <1>6 DEF Decided

(* A workflow without hooks has no open hook. *)
LEMMA NoHooksOpen ==
  ASSUME NEW d, NEW hs, HooksSound(d, hs), DOMAIN d.hooks = {}
  PROVE  {i \in DOMAIN hs : ~hs[i].done} = {}
<1>1. hs \in Seq(HookRecords(d))
  BY DEF HooksSound, HooksShaped
<1>2. \A i \in DOMAIN hs : hs[i] \in HookRecords(d)
  BY <1>1
<1>3. HookRecords(d) = {}
  BY DEF HookRecords
<1> QED BY <1>2, <1>3

(* A step that requests hooks and touches no counter. *)
LEMMA RequestStepKeeps ==
  ASSUME LifecycleInv, NEW new, RequestsMade(lcDef, lcHooks, lcHooks', new),
         UNCHANGED <<lcDef, lcOps, lcReusable, lcRan, lcSent, lcCrashes>>,
         lcRun' \in RunProjections,
         lcStep' \in [attempt : 0..lcDef.attempts, status : StepStatuses],
         lcWait' \in {"none", "registered", "over", "cancelled"},
         lcDriver' \in DriverRecords,
         RunShape', DriverShape', StepShape',
         RequestsSound(lcHooks, lcStep, lcRun)',
         RequestsComplete(lcDef, lcHooks, lcStep, lcRun, lcWait)',
         ActionUnderWay'
  PROVE  LifecycleInv'
<1>1. ActionKeys' = ActionKeys
  BY DEF ActionKeys, ActionsOf
<1>2. HooksSound(lcDef, lcHooks)'
  BY DEF RequestsMade
<1>3. LifecycleTypes'
  BY <1>1, <1>2 DEF LifecycleInv, LifecycleTypes, DriverRecords, HooksSound, HooksShaped
<1>4. ActionsCounted(lcDef, lcHooks, lcRan, lcSent)'
  <2> SUFFICES ASSUME NEW e \in DOMAIN lcDef.hooks, NEW k \in 1..Len(lcDef.hooks[e])
               PROVE  /\ lcRan[<<e, k>>] <= 1 /\ lcSent[<<e, k>>] <= SendLimit(lcDef, e, k)
                      /\ ~Reached(lcHooks', e, k) => lcRan[<<e, k>>] = 0 /\ lcSent[<<e, k>>] = 0
    BY DEF ActionsCounted
  <2>1. k \in Nat \ {0}
    OBVIOUS
  <2>2. /\ lcRan[<<e, k>>] <= 1 /\ lcSent[<<e, k>>] <= SendLimit(lcDef, e, k)
        /\ ~Reached(lcHooks, e, k) => lcRan[<<e, k>>] = 0 /\ lcSent[<<e, k>>] = 0
    BY DEF LifecycleInv, ActionsCounted
  <2> QED BY <2>1, <2>2 DEF RequestsMade
<1>5. ReusableCounted(lcDef, lcReusable, lcRan, lcSent)'
  BY DEF LifecycleInv
<1> QED BY <1>2, <1>3, <1>4, <1>5 DEF LifecycleInv

(* An attempt of the step begins; only the first requests its hook. *)
LEMMA StartStepKeeps ==
  ASSUME LifecycleInv, StartStep
  PROVE  LifecycleInv'
<1>1. /\ LifecycleTypes /\ RunShape /\ DriverShape /\ StepShape /\ HooksSound(lcDef, lcHooks)
      /\ RequestsSound(lcHooks, lcStep, lcRun)
      /\ RequestsComplete(lcDef, lcHooks, lcStep, lcRun, lcWait)
      /\ SendAttempts \in Nat \ {0} /\ lcDef.attempts \in Nat \ {0}
  BY HookAssumption, DefinitionFacts DEF LifecycleInv, LifecycleTypes
<1>2. /\ lcRun.status = "Running" /\ lcStep.status \in {"ready", "retry"}
      /\ lcStep' = [attempt |-> lcStep.attempt + 1, status |-> "started"]
      /\ lcHooks' = lcHooks \o (IF lcStep.attempt = 0 THEN Due(<<"StepStart">>) ELSE <<>>)
      /\ lcDriver' = Driver("step", "end")
      /\ UNCHANGED <<lcDef, lcRun, lcWait, lcOps, lcReusable, lcRan, lcSent, lcCrashes>>
  BY DEF StartStep
<1>3. PICK new : new = IF lcStep.attempt = 0 THEN DueEvents(lcDef, "StepStart", "StepStart") ELSE {}
  OBVIOUS
<1>4. RequestsMade(lcDef, lcHooks, lcHooks', new)
  <2>1. CASE lcStep.attempt = 0
    <3>1. ~Requests(lcHooks, "StepStart")
      BY <1>1, <2>1 DEF RequestsSound
    <3>2. \A e \in DueEvents(lcDef, "StepStart", "StepStart") : ~Requests(lcHooks, e)
      BY <3>1 DEF DueEvents
    <3> QED BY <1>1, <1>2, <1>3, <2>1, <3>2, CandidateFacts, DueMade
  <2>2. CASE lcStep.attempt # 0
    BY <1>1, <1>2, <1>3, <2>2, NoneMade
  <2> QED BY <2>1, <2>2
<1>5. /\ lcStep.attempt \in Nat /\ lcStep.attempt + 1 \in 0..lcDef.attempts
  BY <1>1, <1>2 DEF LifecycleTypes, StepShape
<1>6. PICK n \in 0..lcDef.attempts : n = lcStep.attempt + 1
  BY <1>5
<1>7. /\ lcStep' \in [attempt : 0..lcDef.attempts, status : StepStatuses]
      /\ lcStep'.attempt = n /\ n > 0 /\ lcStep'.status = "started"
  BY <1>2, <1>5, <1>6 DEF StepStatuses
<1>8. lcDriver' \in DriverRecords /\ lcDriver'.at = "step"
  BY <1>1, <1>2 DEF Driver, DriverRecords, DriverSteps
<1>9. RunShape' /\ StepShape'
  BY <1>1, <1>2, <1>7 DEF RunShape, StepShape
<1>10. DriverShape'
  BY <1>2, <1>7, <1>8 DEF DriverShape, TerminalStatuses
<1>11. ActionUnderWay'
  BY <1>8 DEF ActionUnderWay, Acts
<1>12. \A e : Requests(lcHooks', e) <=> Requests(lcHooks, e) \/ e \in new
  BY <1>4 DEF RequestsMade
<1>13. new \subseteq {"StepStart"} /\ ("StepStart" \in DOMAIN lcDef.hooks /\ lcStep.attempt = 0 => "StepStart" \in new)
  BY <1>3 DEF DueEvents
<1>14. RequestsSound(lcHooks, lcStep, lcRun)'
  BY <1>1, <1>2, <1>4, <1>7, <1>12, <1>13 DEF RequestsSound, RequestsMade
<1>15. RequestsComplete(lcDef, lcHooks, lcStep, lcRun, lcWait)'
  BY <1>1, <1>2, <1>5, <1>7, <1>12, <1>13 DEF RequestsComplete, OneRequested
<1> QED BY <1>1, <1>2, <1>4, <1>7, <1>8, <1>9, <1>10, <1>11, <1>14, <1>15, RequestStepKeeps DEF LifecycleTypes

(* The events of the end s of the step, and of the outcome o. *)
StepDue(d, s) == CASE s = "succeeded" -> DueEvents(d, "StepSuccess", "StepComplete")
                   [] s = "failed" -> DueEvents(d, "StepFailure", "StepComplete")
                   [] s = "cancelled" -> DueEvents(d, "StepComplete", "StepComplete")
OutcomeDue(d, o) == CASE o = "Succeeded" -> DueEvents(d, "RunSuccess", "RunComplete")
                      [] o = "Failed" -> DueEvents(d, "RunFailure", "RunComplete")
                      [] o = "Cancelled" -> DueEvents(d, "RunCancel", "RunComplete")
                      [] OTHER -> {}

(* The events of an end of the step. *)
LEMMA StepDueFacts ==
  ASSUME NEW d, NEW s \in {"succeeded", "failed", "cancelled"}
  PROVE  /\ StepDue(d, s) \subseteq {"StepSuccess", "StepFailure", "StepComplete"}
         /\ \E a, b : Candidates(ForStep(s), a, b) /\ StepDue(d, s) = DueEvents(d, a, b)
<1>1. CASE s = "succeeded"
  BY <1>1, CandidateFacts DEF StepDue, DueEvents
<1>2. CASE s = "failed"
  BY <1>2, CandidateFacts DEF StepDue, DueEvents
<1>3. CASE s = "cancelled"
  BY <1>3, CandidateFacts DEF StepDue, DueEvents
<1> QED BY <1>1, <1>2, <1>3

(* The events of an outcome. *)
LEMMA OutcomeDueFacts ==
  ASSUME NEW d, NEW o \in BusinessOutcomes
  PROVE  /\ OutcomeDue(d, o) \subseteq {"RunSuccess", "RunFailure", "RunCancel", "RunComplete"}
         /\ OutcomeDue(d, NoOutcome) = {}
         /\ \E a, b : Candidates(ForOutcome(o), a, b) /\ OutcomeDue(d, o) = DueEvents(d, a, b)
<1>0. OutcomeDue(d, NoOutcome) = {}
  BY DEF OutcomeDue, NoOutcome
<1>1. CASE o = "Succeeded"
  BY <1>0, <1>1, CandidateFacts DEF OutcomeDue, DueEvents
<1>2. CASE o = "Failed"
  BY <1>0, <1>2, CandidateFacts DEF OutcomeDue, DueEvents
<1>3. CASE o = "Cancelled"
  BY <1>0, <1>3, CandidateFacts DEF OutcomeDue, DueEvents
<1> QED BY <1>1, <1>2, <1>3 DEF BusinessOutcomes

(* The hook of an end of the step is requested. *)
LEMMA StepDueMade ==
  ASSUME NEW hs, HooksSound(lcDef, hs), NEW s \in {"succeeded", "failed", "cancelled"},
         \A e \in StepDue(lcDef, s) : ~Requests(hs, e)
  PROVE  RequestsMade(lcDef, hs, hs \o Due(ForStep(s)), StepDue(lcDef, s))
<1>1. PICK a, b : Candidates(ForStep(s), a, b) /\ StepDue(lcDef, s) = DueEvents(lcDef, a, b)
  BY StepDueFacts
<1>2. PICK c : c = ForStep(s)
  OBVIOUS
<1>3. Candidates(c, a, b) /\ \A e \in DueEvents(lcDef, a, b) : ~Requests(hs, e)
  BY <1>1, <1>2
<1>4. RequestsMade(lcDef, hs, hs \o Due(c), DueEvents(lcDef, a, b))
  BY <1>3, DueMade
<1> QED BY <1>1, <1>2, <1>4

(* The hook of an outcome is requested. *)
LEMMA OutcomeDueMade ==
  ASSUME NEW hs, HooksSound(lcDef, hs), NEW o \in BusinessOutcomes,
         \A e \in OutcomeDue(lcDef, o) : ~Requests(hs, e)
  PROVE  RequestsMade(lcDef, hs, hs \o Due(ForOutcome(o)), OutcomeDue(lcDef, o))
<1>1. PICK a, b : Candidates(ForOutcome(o), a, b) /\ OutcomeDue(lcDef, o) = DueEvents(lcDef, a, b)
  BY OutcomeDueFacts
<1>2. PICK c : c = ForOutcome(o)
  OBVIOUS
<1>3. Candidates(c, a, b) /\ \A e \in DueEvents(lcDef, a, b) : ~Requests(hs, e)
  BY <1>1, <1>2
<1>4. RequestsMade(lcDef, hs, hs \o Due(c), DueEvents(lcDef, a, b))
  BY <1>3, DueMade
<1> QED BY <1>1, <1>2, <1>4

(* The step gets the end s with the events A, the run the outcome o with the events B. *)
LEMMA EndRequests ==
  ASSUME LifecycleInv, NEW s, NEW o \in BusinessOutcomes \cup {NoOutcome},
         lcDef' = lcDef, lcWait' = lcWait, lcRun.status \in Undecided,
         lcStep'.attempt = lcStep.attempt, lcStep'.status = s,
         lcRun'.outcome = o, lcRun'.cancelRequested = lcRun.cancelRequested,
         NEW A, NEW B, RequestsMade(lcDef, lcHooks, lcHooks', A \cup B),
         \/ s = lcStep.status /\ A = {}
         \/ lcStep.status = "started" /\ s = "timedout" /\ A = {}
         \/ /\ lcStep.status = "started" /\ s \in {"succeeded", "failed", "cancelled"}
            /\ A = StepDue(lcDef, s),
         o = "Cancelled" => lcRun.cancelRequested,
         B \subseteq OutcomeDue(lcDef, o),
         \A e \in OutcomeDue(lcDef, o) : e \in B \/ Requests(lcHooks, e)
  PROVE  /\ RequestsSound(lcHooks, lcStep, lcRun)'
         /\ RequestsComplete(lcDef, lcHooks, lcStep, lcRun, lcWait)'
<1>1. /\ RunShape /\ StepShape
      /\ RequestsSound(lcHooks, lcStep, lcRun)
      /\ RequestsComplete(lcDef, lcHooks, lcStep, lcRun, lcWait)
      /\ lcRun.outcome = NoOutcome
  BY DEF LifecycleInv, RunShape
<1>2. \A e : Requests(lcHooks', e) <=> Requests(lcHooks, e) \/ e \in A \/ e \in B
  BY DEF RequestsMade
<1>3. CancelIdle(lcHooks) => CancelIdle(lcHooks')
  BY DEF RequestsMade
<1>4. /\ A \subseteq {"StepSuccess", "StepFailure", "StepComplete"}
      /\ A # {} => s \in {"succeeded", "failed", "cancelled"}
  BY StepDueFacts
<1>5. /\ B \subseteq {"RunSuccess", "RunFailure", "RunCancel", "RunComplete"}
      /\ "RunSuccess" \in B => o = "Succeeded"
      /\ "RunFailure" \in B => o = "Failed"
      /\ "RunCancel" \in B => o = "Cancelled"
      /\ B # {} => o # NoOutcome
  BY DEF OutcomeDue, DueEvents, BusinessOutcomes, NoOutcome
<1>6. RequestsSound(lcHooks, lcStep, lcRun)'
  <2>1. /\ Requests(lcHooks, "StepSuccess") => lcStep.status \in {"succeeded", "failed", "cancelled"}
        /\ Requests(lcHooks, "StepFailure") => lcStep.status \in {"succeeded", "failed", "cancelled"}
        /\ Requests(lcHooks, "StepComplete") => lcStep.status \in {"succeeded", "failed", "cancelled"}
        /\ Requests(lcHooks, "StepStart") => lcStep.attempt > 0
        /\ ~Requests(lcHooks, "RunSuccess") /\ ~Requests(lcHooks, "RunFailure")
        /\ ~Requests(lcHooks, "RunComplete")
        /\ Requests(lcHooks, "RunCancel") => lcRun.cancelRequested
        /\ CancelIdle(lcHooks)
    BY <1>1 DEF RequestsSound, NoOutcome
  <2> QED BY <2>1, <1>2, <1>3, <1>4, <1>5 DEF RequestsSound
<1>7. \A e \in A : Requests(lcHooks', e)
  BY <1>2
<1>8. \A e \in OutcomeDue(lcDef, o) : Requests(lcHooks', e)
  BY <1>2
<1>9. /\ o = "Succeeded" => OneRequested(lcDef, lcHooks', "RunSuccess", "RunComplete")
      /\ o = "Failed" => OneRequested(lcDef, lcHooks', "RunFailure", "RunComplete")
      /\ o = "Cancelled" => OneRequested(lcDef, lcHooks', "RunCancel", "RunComplete")
  BY <1>8 DEF OutcomeDue, DueEvents, OneRequested
<1>10. /\ s = "succeeded" => OneRequested(lcDef, lcHooks', "StepSuccess", "StepComplete")
       /\ s = "failed" => OneRequested(lcDef, lcHooks', "StepFailure", "StepComplete")
       /\ s = "cancelled" /\ "StepComplete" \in DOMAIN lcDef.hooks => Requests(lcHooks', "StepComplete")
  <2>1. CASE s = lcStep.status
    BY <1>1, <1>2, <2>1 DEF RequestsComplete, OneRequested
  <2>2. CASE s # lcStep.status
    BY <1>7, <2>2 DEF StepDue, DueEvents, OneRequested
  <2> QED BY <2>1, <2>2
<1>11. RequestsComplete(lcDef, lcHooks, lcStep, lcRun, lcWait)'
  BY <1>1, <1>2, <1>9, <1>10 DEF RequestsComplete
<1> QED BY <1>6, <1>11

(* Before the outcome no hook of an outcome, and before the end of the     *)
(* step no hook of its end, has been requested.                            *)
LEMMA NotYetRequested ==
  ASSUME LifecycleInv
  PROVE  /\ lcRun.status \in Undecided =>
              /\ \A o \in {"Succeeded", "Failed"} :
                   \A e \in OutcomeDue(lcDef, o) : ~Requests(lcHooks, e)
              /\ ~Requests(lcHooks, "RunComplete")
         /\ lcStep.status = "started" =>
              \A s \in {"succeeded", "failed", "cancelled"} :
                \A e \in StepDue(lcDef, s) : ~Requests(lcHooks, e)
<1>1. RequestsSound(lcHooks, lcStep, lcRun) /\ RunShape
  BY DEF LifecycleInv
<1>2. lcRun.status \in Undecided =>
        /\ ~Requests(lcHooks, "RunSuccess") /\ ~Requests(lcHooks, "RunFailure")
        /\ ~Requests(lcHooks, "RunComplete")
  BY <1>1 DEF RequestsSound, RunShape, NoOutcome
<1>3. lcStep.status = "started" =>
        /\ ~Requests(lcHooks, "StepSuccess") /\ ~Requests(lcHooks, "StepFailure")
        /\ ~Requests(lcHooks, "StepComplete")
  BY <1>1 DEF RequestsSound
<1>4. \A o \in {"Succeeded", "Failed"} : \A e \in OutcomeDue(lcDef, o) :
        e \in {"RunSuccess", "RunFailure", "RunComplete"}
  BY DEF OutcomeDue, DueEvents
<1>5. \A s \in {"succeeded", "failed", "cancelled"} : \A e \in StepDue(lcDef, s) :
        e \in {"StepSuccess", "StepFailure", "StepComplete"}
  BY StepDueFacts
<1> QED BY <1>2, <1>3, <1>4, <1>5

(* The step gets its end, with the outcome of the run or without. *)
LEMMA StepSettlesMade ==
  ASSUME LifecycleInv, NEW s \in {"succeeded", "failed", "cancelled"},
         NEW o \in {NoOutcome, "Succeeded", "Failed"}, StepSettles(s, o),
         lcStep.status = "started", lcRun.status \in Undecided,
         lcDef' = lcDef, lcWait' = lcWait
  PROVE  /\ RequestsMade(lcDef, lcHooks, lcHooks', StepDue(lcDef, s) \cup OutcomeDue(lcDef, o))
         /\ lcStep' \in [attempt : 0..lcDef.attempts, status : StepStatuses]
         /\ lcStep'.status = s /\ StepShape'
         /\ lcRun' \in RunProjections /\ lcRun'.outcome = o /\ RunShape'
         /\ IF o = NoOutcome THEN lcRun' = lcRun
            ELSE lcRun'.status = "Finalizing" \/ (lcRun'.status = o /\ DOMAIN lcDef.hooks = {})
         /\ RequestsSound(lcHooks, lcStep, lcRun)'
         /\ RequestsComplete(lcDef, lcHooks, lcStep, lcRun, lcWait)'
<1>1. LifecycleTypes /\ RunShape /\ StepShape /\ HooksSound(lcDef, lcHooks)
  BY DEF LifecycleInv
<1>2. /\ lcHooks' = lcHooks \o (Due(ForStep(s)) \o (IF o = NoOutcome THEN <<>> ELSE Due(ForOutcome(o))))
      /\ lcStep' = [lcStep EXCEPT !.status = s]
      /\ lcRun' = IF o = NoOutcome THEN lcRun ELSE Decided(lcRun, o)
  BY DEF StepSettles
<1>3. PICK A : A = StepDue(lcDef, s)
  OBVIOUS
<1>4. PICK B : B = OutcomeDue(lcDef, o)
  OBVIOUS
<1>5. PICK mid : mid = lcHooks \o Due(ForStep(s))
  OBVIOUS
<1>6. RequestsMade(lcDef, lcHooks, mid, A)
  BY <1>1, <1>3, <1>5, StepDueMade, NotYetRequested
<1>7. HooksSound(lcDef, mid) /\ \A e : Requests(mid, e) <=> Requests(lcHooks, e) \/ e \in A
  BY <1>6 DEF RequestsMade
<1>8. A \subseteq {"StepSuccess", "StepFailure", "StepComplete"}
  BY <1>3, StepDueFacts
<1>9. RequestsMade(lcDef, lcHooks, lcHooks', A \cup B)
  <2>1. PICK a : a = Due(ForStep(s))
    OBVIOUS
  <2>2. PICK b : b = IF o = NoOutcome THEN <<>> ELSE Due(ForOutcome(o))
    OBVIOUS
  <2>3. RequestsMade(lcDef, mid, mid \o b, B)
    <3>1. CASE o = NoOutcome
      <4>1. B = {} /\ b = <<>>
        BY <1>4, <2>2, <3>1 DEF OutcomeDue, NoOutcome
      <4> QED BY <1>7, <4>1, NoneMade
    <3>2. CASE o # NoOutcome
      <4>1. o \in {"Succeeded", "Failed"} /\ o \in BusinessOutcomes /\ b = Due(ForOutcome(o))
        BY <2>2, <3>2 DEF BusinessOutcomes
      <4>2. \A e \in B : ~Requests(lcHooks, e) /\ e \in {"RunSuccess", "RunFailure", "RunCancel", "RunComplete"}
        BY <1>4, <4>1, NotYetRequested, OutcomeDueFacts
      <4>3. \A e \in B : ~Requests(mid, e)
        BY <1>7, <1>8, <4>2
      <4> QED BY <1>4, <1>7, <4>1, <4>3, OutcomeDueMade
    <3> QED BY <3>1, <3>2
  <2>4. lcHooks \in Seq(HookRecords(lcDef)) /\ a \in Seq(HookRecords(lcDef)) /\ b \in Seq(HookRecords(lcDef))
    <3>1. lcHooks \in Seq(HookRecords(lcDef))
      BY <1>1 DEF HooksSound, HooksShaped
    <3>2. PICK x, y : Candidates(ForStep(s), x, y) /\ StepDue(lcDef, s) = DueEvents(lcDef, x, y)
      BY StepDueFacts
    <3>3. Fresh(lcDef, lcHooks, a)
      BY <2>1, <3>2, DueRequests, NotYetRequested
    <3>4. CASE o = NoOutcome
      BY <2>2, <3>1, <3>3, <3>4 DEF Fresh
    <3>5. CASE o # NoOutcome
      <4>1. o \in {"Succeeded", "Failed"} /\ o \in BusinessOutcomes /\ b = Due(ForOutcome(o))
        BY <2>2, <3>5 DEF BusinessOutcomes
      <4>2. PICK x2, y2 : Candidates(ForOutcome(o), x2, y2) /\ OutcomeDue(lcDef, o) = DueEvents(lcDef, x2, y2)
        BY <4>1, OutcomeDueFacts
      <4>3. Fresh(lcDef, lcHooks, b)
        BY <4>1, <4>2, DueRequests, NotYetRequested
      <4> QED BY <3>1, <3>3, <4>3 DEF Fresh
    <3> QED BY <3>4, <3>5
  <2>5. lcHooks \o (a \o b) = (lcHooks \o a) \o b
    BY <2>4, ConcatAssociative
  <2>6. lcHooks' = mid \o b
    BY <1>2, <1>5, <2>1, <2>2, <2>5
  <2> QED BY <1>6, <2>3, <2>6, BothMade
<1>10. /\ lcStep' \in [attempt : 0..lcDef.attempts, status : StepStatuses]
       /\ lcStep'.attempt = lcStep.attempt /\ lcStep'.status = s
  BY <1>1, <1>2 DEF LifecycleTypes, StepStatuses
<1>11. StepShape'
  BY <1>1, <1>10 DEF StepShape
<1>12. lcRun.outcome = NoOutcome
  BY <1>1 DEF RunShape
<1>13. /\ lcRun' \in RunProjections /\ lcRun'.outcome = o
       /\ lcRun'.cancelRequested = lcRun.cancelRequested
       /\ IF o = NoOutcome THEN lcRun' = lcRun
          ELSE lcRun'.status = "Finalizing" \/ (lcRun'.status = o /\ DOMAIN lcDef.hooks = {})
  <2>1. CASE o = NoOutcome
    BY <1>1, <1>2, <1>12, <2>1 DEF LifecycleTypes
  <2>2. CASE o # NoOutcome
    <3>1. o \in BusinessOutcomes /\ lcRun' = Decided(lcRun, o)
      BY <1>2, <2>2 DEF BusinessOutcomes
    <3> QED BY <1>1, <2>2, <3>1, DecidedFacts
  <2> QED BY <2>1, <2>2
<1>14. RunShape'
  BY <1>1, <1>13 DEF RunShape, Undecided, TerminalStatuses, NoOutcome
<1>15. o \in BusinessOutcomes \cup {NoOutcome} /\ o # "Cancelled"
  BY DEF BusinessOutcomes, NoOutcome
<1>16. /\ RequestsSound(lcHooks, lcStep, lcRun)'
       /\ RequestsComplete(lcDef, lcHooks, lcStep, lcRun, lcWait)'
  BY <1>3, <1>4, <1>9, <1>10, <1>13, <1>15, EndRequests
<1> QED BY <1>3, <1>4, <1>9, <1>10, <1>11, <1>13, <1>14, <1>16

(* The driver behind a step or a run that ended. *)
LEMMA EndDriver ==
  ASSUME HooksSound(lcDef, lcHooks)', NEW w \in {"hooks", "reusable", "loop", "absent"},
         NEW t \in {"loop", "fail", "end"}, lcDriver' = Driver(w, t),
         t # "end" \/ w = "loop" => lcRun'.status \in {"Running", "Cancelling"},
         lcRun'.status \in TerminalStatuses => w \in {"hooks", "absent"} /\ DOMAIN lcDef'.hooks = {}
  PROVE  lcDriver' \in DriverRecords /\ DriverShape' /\ ActionUnderWay'
<1>1. SendAttempts \in Nat \ {0}
  BY HookAssumption
<1>2. lcDriver' \in DriverRecords /\ lcDriver'.at = w /\ lcDriver'.then = t
  BY <1>1 DEF Driver, DriverRecords, DriverSteps
<1>3. DOMAIN lcDef'.hooks = {} => OpenHooks' = {}
  BY NoHooksOpen DEF OpenHooks
<1>4. DriverShape'
  BY <1>2, <1>3 DEF DriverShape, Decides
<1>5. ActionUnderWay'
  BY <1>2 DEF ActionUnderWay, Acts
<1> QED BY <1>2, <1>4, <1>5

(* The three ways to record an attempt of the step. *)
LEMMA StepRecordsKeep ==
  ASSUME LifecycleInv
  PROVE  /\ RecordSuccess => LifecycleInv'
         /\ RecordFailure => LifecycleInv'
         /\ RecordCancelled => LifecycleInv'
<1>1. /\ LifecycleTypes /\ RunShape /\ DriverShape /\ StepShape /\ HooksSound(lcDef, lcHooks)
      /\ SendAttempts \in Nat \ {0}
  BY HookAssumption DEF LifecycleInv
<1>2. lcDriver.at = "recording" =>
        /\ lcStep.status = "started" /\ lcRun.status \in {"Running", "Cancelling"}
        /\ lcRun.status \in Undecided
  BY <1>1 DEF DriverShape, Decides, Undecided
<1>3. ASSUME NEW s \in {"succeeded", "failed", "cancelled"},
             NEW o \in {NoOutcome, "Succeeded", "Failed"}, StepSettles(s, o),
             lcDriver.at = "recording", NEW w \in {"hooks", "reusable", "loop"},
             NEW t \in {"loop", "fail", "end"}, lcDriver' = Driver(w, t),
             o # NoOutcome => w = "hooks" /\ t = "end",
             UNCHANGED <<lcDef, lcWait, lcOps, lcReusable, lcRan, lcSent, lcCrashes>>
      PROVE  LifecycleInv'
  <2>1. /\ RequestsMade(lcDef, lcHooks, lcHooks', StepDue(lcDef, s) \cup OutcomeDue(lcDef, o))
        /\ lcStep' \in [attempt : 0..lcDef.attempts, status : StepStatuses]
        /\ lcStep'.status = s /\ StepShape'
        /\ lcRun' \in RunProjections /\ lcRun'.outcome = o /\ RunShape'
        /\ IF o = NoOutcome THEN lcRun' = lcRun
           ELSE lcRun'.status = "Finalizing" \/ (lcRun'.status = o /\ DOMAIN lcDef.hooks = {})
        /\ RequestsSound(lcHooks, lcStep, lcRun)'
        /\ RequestsComplete(lcDef, lcHooks, lcStep, lcRun, lcWait)'
    BY <1>2, <1>3, StepSettlesMade
  <2>2. HooksSound(lcDef, lcHooks)'
    BY <1>3, <2>1 DEF RequestsMade
  <2>3. t # "end" \/ w = "loop" => lcRun'.status \in {"Running", "Cancelling"}
    BY <1>2, <1>3, <2>1
  <2>4. lcRun'.status \in TerminalStatuses => w = "hooks" /\ DOMAIN lcDef'.hooks = {}
    BY <1>2, <1>3, <2>1 DEF TerminalStatuses
  <2>5. lcDriver' \in DriverRecords /\ DriverShape' /\ ActionUnderWay'
    BY <1>3, <2>2, <2>3, <2>4, EndDriver
  <2>6. lcWait' \in {"none", "registered", "over", "cancelled"}
    BY <1>1, <1>3 DEF LifecycleTypes
  <2> QED BY <1>3, <2>1, <2>5, <2>6, RequestStepKeeps
<1>4. ASSUME RecordSuccess PROVE LifecycleInv'
  <2>1. PICK o \in {NoOutcome, "Succeeded"} : o = IF LastNode THEN "Succeeded" ELSE NoOutcome
    OBVIOUS
  <2>2. /\ StepSettles("succeeded", o) /\ lcDriver.at = "recording"
        /\ lcDriver' = IF LastNode THEN Driver("hooks", "end") ELSE Driver("reusable", "loop")
        /\ UNCHANGED <<lcDef, lcWait, lcOps, lcReusable, lcRan, lcSent, lcCrashes>>
    BY <1>4, <2>1 DEF RecordSuccess
  <2>3. CASE LastNode
    BY <1>3, <2>1, <2>2, <2>3
  <2>4. CASE ~LastNode
    BY <1>3, <2>1, <2>2, <2>4
  <2> QED BY <2>3, <2>4
<1>5. ASSUME RecordCancelled PROVE LifecycleInv'
  BY <1>3, <1>5 DEF RecordCancelled
<1>6. ASSUME RecordFailure PROVE LifecycleInv'
  <2>1. /\ lcDriver.at = "recording"
        /\ UNCHANGED <<lcDef, lcWait, lcOps, lcReusable, lcRan, lcSent, lcCrashes>>
    BY <1>6 DEF RecordFailure
  <2>2. CASE lcStep.attempt < lcDef.attempts
    <3>1. /\ lcRun.status = "Running" /\ lcStep' = [lcStep EXCEPT !.status = "retry"]
          /\ lcDriver' = Driver("loop", "end") /\ UNCHANGED <<lcRun, lcHooks>>
      BY <1>6, <2>2 DEF RecordFailure
    <3>2. /\ lcStep' \in [attempt : 0..lcDef.attempts, status : StepStatuses]
          /\ lcStep'.attempt = lcStep.attempt /\ lcStep'.status = "retry"
      BY <1>1, <3>1 DEF LifecycleTypes, StepStatuses
    <3>3. StepShape' /\ RunShape'
      BY <1>1, <1>2, <2>1, <2>2, <3>1, <3>2 DEF StepShape, RunShape
    <3>4. RequestsMade(lcDef, lcHooks, lcHooks', {}) /\ HooksSound(lcDef, lcHooks)'
      BY <1>1, <2>1, <3>1, NoneMade
    <3>5. lcRun'.status \in TerminalStatuses => FALSE
      BY <3>1 DEF TerminalStatuses
    <3>6. lcDriver' \in DriverRecords /\ DriverShape' /\ ActionUnderWay'
      BY <3>1, <3>4, <3>5, EndDriver
    <3>7. RequestsSound(lcHooks, lcStep, lcRun)'
      BY <1>2, <2>1, <3>1, <3>2 DEF LifecycleInv, RequestsSound
    <3>8. RequestsComplete(lcDef, lcHooks, lcStep, lcRun, lcWait)'
      BY <2>1, <3>1, <3>2 DEF LifecycleInv, RequestsComplete
    <3>9. lcRun' \in RunProjections /\ lcWait' \in {"none", "registered", "over", "cancelled"}
      BY <1>1, <2>1, <3>1 DEF LifecycleTypes
    <3> QED BY <2>1, <3>2, <3>3, <3>4, <3>6, <3>7, <3>8, <3>9, RequestStepKeeps
  <2>3. CASE ~(lcStep.attempt < lcDef.attempts)
    <3>1. PICK o \in {NoOutcome, "Failed"} : o = IF lcDef.reusable = {} THEN "Failed" ELSE NoOutcome
      OBVIOUS
    <3>2. /\ StepSettles("failed", o)
          /\ lcDriver' = IF lcDef.reusable = {} THEN Driver("hooks", "end")
                         ELSE Driver("reusable", "fail")
      BY <1>6, <2>3, <3>1 DEF RecordFailure
    <3>3. CASE lcDef.reusable = {}
      BY <1>3, <2>1, <3>1, <3>2, <3>3
    <3>4. CASE lcDef.reusable # {}
      BY <1>3, <2>1, <3>1, <3>2, <3>4
    <3> QED BY <3>3, <3>4
  <2> QED BY <2>2, <2>3
<1> QED BY <1>4, <1>5, <1>6

(* The run gets its outcome, and its step the end s when it was under way. *)
LEMMA RunEndKeeps ==
  ASSUME LifecycleInv, NEW s, NEW o \in BusinessOutcomes, lcRun.status \in Undecided,
         UNCHANGED <<lcDef, lcWait, lcOps, lcReusable, lcRan, lcSent, lcCrashes>>,
         lcStep' = [lcStep EXCEPT !.status = s],
         lcRun' \in RunProjections,
         lcRun'.outcome = o, lcRun'.cancelRequested = lcRun.cancelRequested,
         lcRun'.status = "Finalizing" \/ (lcRun'.status = o /\ DOMAIN lcDef.hooks = {}),
         NEW A, NEW B, RequestsMade(lcDef, lcHooks, lcHooks', A \cup B),
         \/ s = lcStep.status /\ A = {}
         \/ lcStep.status = "started" /\ s = "timedout" /\ A = {}
         \/ /\ lcStep.status = "started" /\ s \in {"succeeded", "failed", "cancelled"}
            /\ A = StepDue(lcDef, s),
         o = "Cancelled" => lcRun.cancelRequested,
         B \subseteq OutcomeDue(lcDef, o),
         \A e \in OutcomeDue(lcDef, o) : e \in B \/ Requests(lcHooks, e),
         NEW w \in {"hooks", "reusable", "absent"}, lcDriver' = Driver(w, "end"),
         lcRun'.status # "Finalizing" => w # "reusable"
  PROVE  LifecycleInv'
<1>1. LifecycleTypes /\ RunShape /\ StepShape
  BY DEF LifecycleInv
<1>2. /\ lcStep' \in [attempt : 0..lcDef.attempts, status : StepStatuses]
      /\ lcStep'.attempt = lcStep.attempt /\ lcStep'.status = s
  <2>1. s \in StepStatuses
    BY <1>1 DEF LifecycleTypes, StepStatuses
  <2> QED BY <1>1, <2>1 DEF LifecycleTypes
<1>3. StepShape'
  <2>1. s = lcStep.status \/ (lcStep.status = "started" /\ s \notin {"ready", "retry"})
    OBVIOUS
  <2> QED BY <1>1, <1>2, <2>1 DEF StepShape
<1>4. RunShape'
  BY <1>1 DEF RunShape, Undecided, TerminalStatuses, BusinessOutcomes, NoOutcome
<1>5. o \in BusinessOutcomes \cup {NoOutcome}
  OBVIOUS
<1>6. /\ RequestsSound(lcHooks, lcStep, lcRun)'
      /\ RequestsComplete(lcDef, lcHooks, lcStep, lcRun, lcWait)'
  BY <1>2, <1>5, EndRequests
<1>7. HooksSound(lcDef, lcHooks)'
  BY DEF RequestsMade
<1>8. lcRun'.status \in TerminalStatuses => w \in {"hooks", "absent"} /\ DOMAIN lcDef'.hooks = {}
  BY DEF TerminalStatuses
<1>9. lcDriver' \in DriverRecords /\ DriverShape' /\ ActionUnderWay'
  BY <1>7, <1>8, EndDriver
<1>10. lcWait' \in {"none", "registered", "over", "cancelled"}
  BY <1>1 DEF LifecycleTypes
<1> QED BY <1>2, <1>3, <1>4, <1>6, <1>9, <1>10, RequestStepKeeps

(* The outcome alone, with its hook. *)
LEMMA OutcomeKeeps ==
  ASSUME LifecycleInv, NEW o \in {"Succeeded", "Failed"}, lcRun.status \in Undecided,
         lcRun' = Decided(lcRun, o), lcHooks' = lcHooks \o Due(ForOutcome(o)),
         lcDriver' = Driver("hooks", "end"),
         UNCHANGED <<lcDef, lcStep, lcWait, lcOps, lcReusable, lcRan, lcSent, lcCrashes>>
  PROVE  LifecycleInv'
<1>1. LifecycleTypes /\ HooksSound(lcDef, lcHooks) /\ o \in BusinessOutcomes
  BY DEF LifecycleInv, BusinessOutcomes
<1>2. PICK B : B = OutcomeDue(lcDef, o)
  OBVIOUS
<1>3. RequestsMade(lcDef, lcHooks, lcHooks', B)
  BY <1>1, <1>2, OutcomeDueMade, NotYetRequested
<1>4. RequestsMade(lcDef, lcHooks, lcHooks', {} \cup B)
  BY <1>3
<1>5. /\ lcRun' \in RunProjections /\ lcRun'.outcome = o /\ lcRun'.cancelRequested = lcRun.cancelRequested
      /\ lcRun'.status = "Finalizing" \/ (lcRun'.status = o /\ DOMAIN lcDef.hooks = {})
  BY <1>1, DecidedFacts
<1>6. lcStep' = [lcStep EXCEPT !.status = lcStep.status]
  BY <1>1 DEF LifecycleTypes
<1>7. o # "Cancelled"
  OBVIOUS
<1> QED BY <1>1, <1>2, <1>4, <1>5, <1>6, <1>7, RunEndKeeps

(* The run succeeds behind its last node, or fails behind its reusable hooks. *)
LEMMA OutcomesKeep ==
  ASSUME LifecycleInv
  PROVE  /\ PublishResult => LifecycleInv'
         /\ LeaveReusable => LifecycleInv'
<1>1. /\ LifecycleTypes /\ RunShape /\ DriverShape /\ SendAttempts \in Nat \ {0}
  BY HookAssumption DEF LifecycleInv
<1>2. ASSUME PublishResult PROVE LifecycleInv'
  <2>1. lcRun.status \in Undecided
    BY <1>2 DEF PublishResult, Undecided
  <2> QED BY <1>2, <2>1, OutcomeKeeps DEF PublishResult
<1>3. ASSUME LeaveReusable PROVE LifecycleInv'
  <2>1. CASE lcDriver.then = "fail"
    <3>1. lcRun.status \in Undecided
      BY <1>1, <1>3, <2>1 DEF LeaveReusable, DriverShape, Decides, Undecided
    <3>2. lcDriver' = Driver("hooks", "end")
      BY <1>3, <2>1 DEF LeaveReusable
    <3> QED BY <1>3, <2>1, <3>1, <3>2, OutcomeKeeps DEF LeaveReusable
  <2>2. CASE lcDriver.then # "fail"
    <3>1. /\ lcDriver.at = "reusable"
          /\ UNCHANGED <<lcDef, lcRun, lcStep, lcWait, lcHooks, lcOps, lcReusable, lcRan, lcSent, lcCrashes>>
      BY <1>3, <2>2 DEF LeaveReusable
    <3>2. PICK w \in {"loop", "hooks"} : w = IF lcDriver.then = "loop" THEN "loop" ELSE "hooks"
      OBVIOUS
    <3>3. lcDriver' = Driver(w, "end") /\ (w = "loop" => lcDriver.then = "loop")
      BY <1>3, <3>2 DEF LeaveReusable
    <3>4. /\ lcDriver' \in [at : DriverSteps, then : {"loop", "fail", "end"},
                            try : 0..SendAttempts,
                            answer : {"none", "succeeded", "failed", "cancelled", "retryable"}]
          /\ lcDriver'.at = w /\ lcDriver'.then = "end"
      BY <1>1, <3>3 DEF Driver, DriverSteps
    <3>5. lcRun.status \notin TerminalStatuses
      BY <1>1, <3>1 DEF DriverShape
    <3>6. DriverShape' /\ ~Acts'
      BY <1>1, <3>1, <3>3, <3>4, <3>5 DEF DriverShape, Decides, Acts
    <3> QED BY <1>1, <3>1, <3>4, <3>6, DriverStepKeeps DEF LifecycleTypes
  <2> QED BY <2>1, <2>2
<1> QED BY <1>2, <1>3

(* The timeout of the run, which has no hook for the attempt it ends. *)
LEMMA ReachTimeoutKeeps ==
  ASSUME LifecycleInv, ReachTimeout
  PROVE  LifecycleInv'
<1>1. /\ LifecycleTypes /\ RunShape /\ DriverShape /\ HooksSound(lcDef, lcHooks)
      /\ SendAttempts \in Nat \ {0} /\ "Failed" \in BusinessOutcomes
  BY HookAssumption DEF LifecycleInv, BusinessOutcomes
<1>2. /\ lcDriver.at \in {"loop", "step"} /\ lcRun.status \in {"Running", "Waiting"}
      /\ UNCHANGED <<lcDef, lcWait, lcOps, lcReusable, lcRan, lcSent, lcCrashes>>
  BY DEF ReachTimeout, CanRunTimeoutReached
<1>3. lcRun.status \in Undecided /\ lcRun.status \notin TerminalStatuses
  BY <1>2 DEF Undecided, TerminalStatuses
<1>4. CASE OperationsClosable
  <2>1. /\ lcStep' = [lcStep EXCEPT !.status = IF @ = "started" THEN "timedout" ELSE @]
        /\ lcHooks' = lcHooks \o Due(ForOutcome("Failed"))
        /\ lcRun' = RunOutcomeDecided(RunTimeoutReached(lcRun), "Failed")
        /\ lcDriver' = Driver(IF lcDriver.at = "loop" THEN "reusable" ELSE "hooks", "end")
    BY <1>4 DEF ReachTimeout
  <2>2. PICK s : s = IF lcStep.status = "started" THEN "timedout" ELSE lcStep.status
    OBVIOUS
  <2>3. lcStep' = [lcStep EXCEPT !.status = s]
    BY <2>1, <2>2
  <2>4. PICK w \in {"hooks", "reusable"} : w = IF lcDriver.at = "loop" THEN "reusable" ELSE "hooks"
    OBVIOUS
  <2>5. lcDriver' = Driver(w, "end")
    BY <2>1, <2>4
  <2>6. PICK t : t = RunTimeoutReached(lcRun)
    OBVIOUS
  <2>7. t \in RunProjections /\ t.cancelRequested = lcRun.cancelRequested
    BY <1>1, <2>6 DEF LifecycleTypes, RunTimeoutReached, RunProjections
  <2>8. /\ lcRun' \in RunProjections /\ lcRun'.outcome = "Failed"
        /\ lcRun'.cancelRequested = lcRun.cancelRequested /\ lcRun'.status = "Finalizing"
    BY <2>1, <2>6, <2>7 DEF RunOutcomeDecided, RunProjections, RunStatuses, BusinessOutcomes
  <2>9. PICK B : B = OutcomeDue(lcDef, "Failed")
    OBVIOUS
  <2>10. RequestsMade(lcDef, lcHooks, lcHooks', B)
    BY <1>1, <1>3, <2>1, <2>9, OutcomeDueMade, NotYetRequested
  <2>11. RequestsMade(lcDef, lcHooks, lcHooks', {} \cup B)
    BY <2>10
  <2>12. (s = lcStep.status /\ {} = {}) \/ (lcStep.status = "started" /\ s = "timedout" /\ {} = {})
    BY <2>2
  <2> QED BY <1>1, <1>2, <1>3, <2>3, <2>5, <2>8, <2>9, <2>11, <2>12, RunEndKeeps
<1>5. CASE ~OperationsClosable
  <2>1. lcDriver' = Driver("hooks", "end") /\ UNCHANGED <<lcStep, lcHooks, lcRun>>
    BY <1>5 DEF ReachTimeout
  <2>2. /\ lcDriver' \in [at : DriverSteps, then : {"loop", "fail", "end"},
                          try : 0..SendAttempts,
                          answer : {"none", "succeeded", "failed", "cancelled", "retryable"}]
        /\ lcDriver'.at = "hooks" /\ lcDriver'.then = "end"
    BY <1>1, <2>1 DEF Driver, DriverSteps
  <2>3. DriverShape' /\ ~Acts'
    BY <1>3, <2>1, <2>2 DEF DriverShape, Decides, Acts
  <2> QED BY <1>1, <1>2, <2>1, <2>2, <2>3, DriverStepKeeps DEF LifecycleTypes
<1> QED BY <1>4, <1>5

(* Requests of the step's end s, then what b adds. *)
LEMMA StepThenRun ==
  ASSUME LifecycleInv, NEW s \in {"failed", "cancelled"}, NEW a, NEW A,
         IF lcStep.status = "started" THEN a = Due(ForStep(s)) /\ A = StepDue(lcDef, s)
         ELSE a = <<>> /\ A = {}
  PROVE  /\ RequestsMade(lcDef, lcHooks, lcHooks \o a, A)
         /\ HooksSound(lcDef, lcHooks \o a)
         /\ \A e \in {"RunSuccess", "RunFailure", "RunCancel", "RunComplete"} :
              Requests(lcHooks \o a, e) <=> Requests(lcHooks, e)
<1>1. HooksSound(lcDef, lcHooks)
  BY DEF LifecycleInv
<1>2. PICK mid : mid = lcHooks \o a
  OBVIOUS
<1>3. RequestsMade(lcDef, lcHooks, mid, A)
  <2>1. CASE lcStep.status = "started"
    <3>1. \A e \in StepDue(lcDef, s) : ~Requests(lcHooks, e)
      BY <2>1, NotYetRequested
    <3> QED BY <1>1, <1>2, <2>1, <3>1, StepDueMade
  <2>2. CASE lcStep.status # "started"
    BY <1>1, <1>2, <2>2, NoneMade
  <2> QED BY <2>1, <2>2
<1>4. A \subseteq {"StepSuccess", "StepFailure", "StepComplete"}
  BY StepDueFacts
<1>5. HooksSound(lcDef, mid) /\ \A e : Requests(mid, e) <=> Requests(lcHooks, e) \/ e \in A
  BY <1>3 DEF RequestsMade
<1>6. \A e \in {"RunSuccess", "RunFailure", "RunCancel", "RunComplete"} :
        Requests(mid, e) <=> Requests(lcHooks, e)
  BY <1>4, <1>5
<1> QED BY <1>2, <1>3, <1>5, <1>6

(* A cancelled run is settled; the hook of the cancellation is mostly      *)
(* requested before.                                                       *)
LEMMA SettleCancellingKeeps ==
  ASSUME LifecycleInv, SettleCancellingRun
  PROVE  LifecycleInv'
<1>1. /\ LifecycleTypes /\ RunShape /\ DriverShape /\ HooksSound(lcDef, lcHooks)
      /\ SendAttempts \in Nat \ {0} /\ "Cancelled" \in BusinessOutcomes
  BY HookAssumption DEF LifecycleInv, BusinessOutcomes
<1>2. /\ lcRun.status = "Cancelling"
      /\ UNCHANGED <<lcDef, lcWait, lcOps, lcReusable, lcRan, lcSent, lcCrashes>>
  BY DEF SettleCancellingRun, RefusedByCancellation
<1>3. /\ lcRun.status \in Undecided /\ lcRun.status \notin TerminalStatuses
      /\ lcRun.cancelRequested
  BY <1>1, <1>2 DEF Undecided, TerminalStatuses, RunShape
<1>4. CASE OperationsClosable
  <2>1. PICK a : a = IF lcStep.status = "started" THEN Due(ForStep("cancelled")) ELSE <<>>
    OBVIOUS
  <2>2. PICK due : due = Due(ForOutcome("Cancelled"))
    OBVIOUS
  <2>3. PICK b : b = IF RequestsAccepted(due) THEN due ELSE <<>>
    OBVIOUS
  <2>4. /\ lcHooks' = lcHooks \o a \o b
        /\ lcStep' = [lcStep EXCEPT !.status = IF @ = "started" THEN "cancelled" ELSE @]
        /\ lcRun' = RunOutcomeDecided(lcRun, "Cancelled")
        /\ lcDriver' = Driver("hooks", "end")
    BY <1>4, <2>1, <2>2, <2>3 DEF SettleCancellingRun
  <2>5. PICK s : s = IF lcStep.status = "started" THEN "cancelled" ELSE lcStep.status
    OBVIOUS
  <2>6. lcStep' = [lcStep EXCEPT !.status = s]
    BY <2>4, <2>5
  <2>7. PICK A : A = IF lcStep.status = "started" THEN StepDue(lcDef, "cancelled") ELSE {}
    OBVIOUS
  <2>8. PICK B : B = IF RequestsAccepted(due) THEN OutcomeDue(lcDef, "Cancelled") ELSE {}
    OBVIOUS
  <2>9. PICK mid : mid = lcHooks \o a
    OBVIOUS
  <2>10. /\ RequestsMade(lcDef, lcHooks, mid, A) /\ HooksSound(lcDef, mid)
         /\ \A e \in {"RunSuccess", "RunFailure", "RunCancel", "RunComplete"} :
              Requests(mid, e) <=> Requests(lcHooks, e)
    BY <2>1, <2>7, <2>9, StepThenRun
  <2>11. PICK x, y : /\ Candidates(ForOutcome("Cancelled"), x, y)
                     /\ OutcomeDue(lcDef, "Cancelled") = DueEvents(lcDef, x, y)
    BY <1>1, OutcomeDueFacts
  <2>12. RequestsAccepted(due) <=> \A e \in OutcomeDue(lcDef, "Cancelled") : ~Requests(lcHooks, e)
    BY <2>2, <2>11, DueRequests
  <2>13. OutcomeDue(lcDef, "Cancelled") \subseteq {"RunSuccess", "RunFailure", "RunCancel", "RunComplete"}
    BY <1>1, OutcomeDueFacts
  <2>14. RequestsMade(lcDef, mid, mid \o b, B)
    <3>1. CASE RequestsAccepted(due)
      <4>1. \A e \in OutcomeDue(lcDef, "Cancelled") : ~Requests(mid, e)
        BY <2>10, <2>12, <2>13, <3>1
      <4> QED BY <1>1, <2>2, <2>3, <2>8, <2>10, <3>1, <4>1, OutcomeDueMade
    <3>2. CASE ~RequestsAccepted(due)
      BY <2>3, <2>8, <2>10, <3>2, NoneMade
    <3> QED BY <3>1, <3>2
  <2>15. RequestsMade(lcDef, lcHooks, lcHooks', A \cup B)
    BY <2>4, <2>9, <2>10, <2>14, BothMade
  <2>16. \A e \in OutcomeDue(lcDef, "Cancelled") : e \in B \/ Requests(lcHooks, e)
    <3>1. CASE RequestsAccepted(due)
      BY <2>8, <3>1
    <3>2. CASE ~RequestsAccepted(due)
      <4>1. \A e, f \in OutcomeDue(lcDef, "Cancelled") : e = f
        BY <2>11 DEF DueEvents
      <4> QED BY <2>12, <3>2, <4>1
    <3> QED BY <3>1, <3>2
  <2>17. B \subseteq OutcomeDue(lcDef, "Cancelled")
    BY <2>8
  <2>18. \/ s = lcStep.status /\ A = {}
         \/ /\ lcStep.status = "started" /\ s \in {"succeeded", "failed", "cancelled"}
            /\ A = StepDue(lcDef, s)
    BY <2>5, <2>7
  <2>19. /\ lcRun' \in RunProjections /\ lcRun'.outcome = "Cancelled"
         /\ lcRun'.cancelRequested = lcRun.cancelRequested
         /\ lcRun'.status = "Finalizing" \/ (lcRun'.status = "Cancelled" /\ DOMAIN lcDef.hooks = {})
    BY <1>1, <2>4, DecidedFacts
  <2> QED BY <1>1, <1>2, <1>3, <2>4, <2>6, <2>15, <2>16, <2>17, <2>18, <2>19, RunEndKeeps
<1>5. CASE ~OperationsClosable
  <2>1. lcDriver' = Driver("stopped", "end") /\ UNCHANGED <<lcStep, lcHooks, lcRun>>
    BY <1>5 DEF SettleCancellingRun
  <2>2. /\ lcDriver' \in [at : DriverSteps, then : {"loop", "fail", "end"},
                          try : 0..SendAttempts,
                          answer : {"none", "succeeded", "failed", "cancelled", "retryable"}]
        /\ lcDriver'.at = "stopped" /\ lcDriver'.then = "end"
    BY <1>1, <2>1 DEF Driver, DriverSteps
  <2>3. DriverShape' /\ ~Acts'
    BY <1>3, <2>1, <2>2 DEF DriverShape, Decides, Acts
  <2> QED BY <1>1, <1>2, <2>1, <2>2, <2>3, DriverStepKeeps DEF LifecycleTypes
<1> QED BY <1>4, <1>5

(* Recovery fails an interrupted step, and its run. *)
LEMMA RecoverStepKeeps ==
  ASSUME LifecycleInv, RecoverStep
  PROVE  LifecycleInv'
<1>1. LifecycleTypes /\ HooksSound(lcDef, lcHooks) /\ "Failed" \in BusinessOutcomes
  BY DEF LifecycleInv, BusinessOutcomes
<1>2. PICK a : a = IF lcStep.status = "started" THEN Due(ForStep("failed")) ELSE <<>>
  OBVIOUS
<1>3. /\ lcRun.status = "Running" /\ lcStep.status \in {"started", "failed"}
      /\ lcHooks' = lcHooks \o a \o Due(ForOutcome("Failed"))
      /\ lcStep' = [lcStep EXCEPT !.status = "failed"]
      /\ lcRun' = Decided(lcRun, "Failed")
      /\ lcDriver' = Resumed(lcRun'.status)
      /\ UNCHANGED <<lcDef, lcWait, lcOps, lcReusable, lcRan, lcSent, lcCrashes>>
  BY <1>2 DEF RecoverStep
<1>4. lcRun.status \in Undecided
  BY <1>3 DEF Undecided
<1>5. PICK A : A = IF lcStep.status = "started" THEN StepDue(lcDef, "failed") ELSE {}
  OBVIOUS
<1>6. PICK B : B = OutcomeDue(lcDef, "Failed")
  OBVIOUS
<1>7. PICK mid : mid = lcHooks \o a
  OBVIOUS
<1>8. /\ RequestsMade(lcDef, lcHooks, mid, A) /\ HooksSound(lcDef, mid)
      /\ \A e \in {"RunSuccess", "RunFailure", "RunCancel", "RunComplete"} :
           Requests(mid, e) <=> Requests(lcHooks, e)
  BY <1>2, <1>5, <1>7, StepThenRun
<1>9. \A e \in B : ~Requests(mid, e)
  BY <1>1, <1>4, <1>6, <1>8, NotYetRequested, OutcomeDueFacts
<1>10. RequestsMade(lcDef, mid, mid \o Due(ForOutcome("Failed")), B)
  BY <1>1, <1>6, <1>8, <1>9, OutcomeDueMade
<1>11. RequestsMade(lcDef, lcHooks, lcHooks', A \cup B)
  BY <1>3, <1>7, <1>8, <1>10, BothMade
<1>12. \/ "failed" = lcStep.status /\ A = {}
       \/ lcStep.status = "started" /\ A = StepDue(lcDef, "failed")
  BY <1>3, <1>5
<1>13. /\ lcRun' \in RunProjections /\ lcRun'.outcome = "Failed"
       /\ lcRun'.cancelRequested = lcRun.cancelRequested
       /\ lcRun'.status = "Finalizing" \/ (lcRun'.status = "Failed" /\ DOMAIN lcDef.hooks = {})
  BY <1>1, <1>3, DecidedFacts
<1>14. PICK w \in {"reusable", "absent"} : w = IF lcRun'.status = "Finalizing" THEN "reusable" ELSE "absent"
  OBVIOUS
<1>15. lcDriver' = Driver(w, "end")
  BY <1>3, <1>13, <1>14 DEF Resumed, NoDriver
<1> QED BY <1>1, <1>3, <1>4, <1>6, <1>11, <1>12, <1>13, <1>14, <1>15, RunEndKeeps

(* Hooks of the run that are requested behind an open hook do not take its turn. *)
LEMMA PendingKept ==
  ASSUME LifecycleInv, OpenHooks # {}, NEW new, Fresh(lcDef, lcHooks, new),
         \A k \in DOMAIN new : new[k].event \notin StepEvents,
         lcHooks' = lcHooks \o new
  PROVE  /\ OpenHooks' # {} /\ PendingHook' = PendingHook
         /\ lcHooks'[PendingHook] = lcHooks[PendingHook] /\ RunningKey' = RunningKey
<1>1. lcHooks \in Seq(HookRecords(lcDef)) /\ new \in Seq(HookRecords(lcDef))
  BY DEF LifecycleInv, LifecycleTypes, Fresh
<1>2. PICK n : n = Len(lcHooks)
  OBVIOUS
<1>3. PICK all : all = lcHooks'
  OBVIOUS
<1>4. n \in Nat /\ DOMAIN lcHooks = 1..n /\ DOMAIN new \subseteq Nat \ {0}
  <2>1. DOMAIN new = 1..Len(new) /\ Len(new) \in Nat
    BY <1>1
  <2> QED BY <1>1, <1>2, <2>1
<1>5. \A i \in DOMAIN lcHooks : i \in DOMAIN all /\ all[i] = lcHooks[i]
  BY <1>1, <1>3, AppendedElements
<1>6. \A i \in DOMAIN new : n + i \in DOMAIN all /\ all[n + i] = new[i]
  BY <1>1, <1>2, <1>3, AppendedElements
<1>7. \A i \in DOMAIN all : i \in DOMAIN lcHooks \/ \E k \in DOMAIN new : i = n + k
  BY <1>1, <1>2, <1>3, AppendedElements
<1>8. PICK P : P = OpenHooks'
  OBVIOUS
<1>9. /\ P = {i \in DOMAIN all : ~all[i].done}
      /\ OpenHooks \subseteq P /\ OpenHooks \subseteq 1..n
      /\ \A i \in P : i \in OpenHooks \/ (i \in Nat /\ i > n)
      /\ P \in SUBSET Nat
  <2>1. P = {i \in DOMAIN all : ~all[i].done}
    BY <1>3, <1>8 DEF OpenHooks
  <2>2. OpenHooks \subseteq P /\ OpenHooks \subseteq 1..n
    BY <1>4, <1>5, <2>1 DEF OpenHooks
  <2>3. \A i \in P : i \in OpenHooks \/ (i \in Nat /\ i > n)
    BY <1>4, <1>5, <1>7, <2>1 DEF OpenHooks
  <2>4. \A i \in P : i \in Nat
    BY <1>4, <2>2, <2>3
  <2>5. P \in SUBSET Nat
    BY <2>4
  <2> QED BY <2>1, <2>2, <2>3, <2>5
<1>10. OpenStepHooks' = OpenStepHooks
  <2>1. PICK Q : Q = OpenStepHooks'
    OBVIOUS
  <2>2. Q = {i \in P : all[i].event \in StepEvents}
    BY <1>3, <1>8, <2>1 DEF OpenStepHooks
  <2>3. ASSUME NEW i \in Q PROVE i \in OpenStepHooks
    BY <1>5, <1>6, <1>7, <1>9, <2>2 DEF OpenStepHooks, OpenHooks
  <2>4. ASSUME NEW i \in OpenStepHooks PROVE i \in Q
    BY <1>5, <1>9, <2>2 DEF OpenStepHooks, OpenHooks
  <2>5. Q = OpenStepHooks
    BY <2>3, <2>4
  <2> QED BY <2>1, <2>5
<1>11. Min(P) = Min(OpenHooks)
  <2>1. OpenHooks \in SUBSET Nat /\ P # {}
    BY <1>4, <1>9
  <2>2. Min(OpenHooks) \in OpenHooks /\ \A k \in OpenHooks : Min(OpenHooks) <= k
    BY <2>1, LeastMember
  <2>3. Min(P) \in P /\ \A k \in P : Min(P) <= k
    BY <1>9, <2>1, LeastMember
  <2>4. PICK m : m = Min(OpenHooks)
    OBVIOUS
  <2>5. PICK l : l = Min(P)
    OBVIOUS
  <2>6. m \in OpenHooks /\ m \in 1..n /\ l <= m /\ l \in P
    BY <1>9, <2>2, <2>3, <2>4, <2>5
  <2>7. l \in OpenHooks
    BY <1>4, <1>9, <2>6
  <2>8. m <= l /\ l \in 1..n
    BY <1>9, <2>2, <2>4, <2>7
  <2>9. l = m
    BY <1>4, <2>6, <2>8
  <2> QED BY <2>4, <2>5, <2>9
<1>12. PendingHook' = PendingHook
  BY <1>8, <1>10, <1>11 DEF PendingHook
<1>13. PendingHook \in DOMAIN lcHooks
  BY PendingFacts
<1>14. lcHooks'[PendingHook] = lcHooks[PendingHook]
  BY <1>3, <1>5, <1>13
<1>15. RunningKey' = RunningKey
  BY <1>12, <1>14 DEF RunningKey, PendingEvent, Running
<1> QED BY <1>8, <1>9, <1>12, <1>14, <1>15

(* An operator asks for cancellation while the driver may be anywhere. *)
LEMMA RequestCancellationKeeps ==
  ASSUME LifecycleInv, RequestCancellation
  PROVE  LifecycleInv'
<1>1. /\ LifecycleTypes /\ RunShape /\ DriverShape /\ StepShape /\ HooksSound(lcDef, lcHooks)
      /\ RequestsSound(lcHooks, lcStep, lcRun)
      /\ RequestsComplete(lcDef, lcHooks, lcStep, lcRun, lcWait)
      /\ ActionUnderWay
  BY DEF LifecycleInv
<1>2. PICK requested : requested = RunCancellationRequested(lcRun)
  OBVIOUS
<1>3. PICK new : new = Due(<<"RunCancel">>)
  OBVIOUS
<1>4. /\ lcRun.status \in {"Queued", "Running", "Waiting"} /\ ~lcRun.cancelRequested
      /\ lcRun.outcome = NoOutcome
      /\ lcRun' = IF lcRun.status = "Waiting" THEN RunOutcomeDecided(requested, "Cancelled")
                  ELSE requested
      /\ lcWait' = IF lcRun.status = "Waiting" THEN "cancelled" ELSE lcWait
      /\ lcHooks' = lcHooks \o new
      /\ UNCHANGED <<lcDef, lcStep, lcOps, lcReusable, lcDriver, lcRan, lcSent, lcCrashes>>
  BY <1>2, <1>3 DEF RequestCancellation, CanRunCancellationRequested
<1>5. PICK E : E = DueEvents(lcDef, "RunCancel", "RunCancel")
  OBVIOUS
<1>6. /\ E \subseteq {"RunCancel"} /\ ("RunCancel" \in DOMAIN lcDef.hooks => "RunCancel" \in E)
      /\ \A e \in E : ~Requests(lcHooks, e)
  BY <1>1, <1>4, <1>5 DEF DueEvents, RequestsSound
<1>7. RequestsMade(lcDef, lcHooks, lcHooks', E)
  BY <1>1, <1>3, <1>4, <1>5, <1>6, CandidateFacts, DueMade
<1>8. Fresh(lcDef, lcHooks, new) /\ \A f : Requests(new, f) <=> f \in E
  BY <1>3, <1>5, <1>6, CandidateFacts, DueRequests
<1>9. \A k \in DOMAIN new : new[k].event \notin StepEvents
  BY <1>6, <1>8 DEF Requests, StepEvents
<1>10. ActionUnderWay'
  <2>1. Acts' = Acts
    BY <1>4 DEF Acts
  <2>2. CASE Acts
    <3>1. /\ OpenHooks' # {} /\ PendingHook' = PendingHook
          /\ lcHooks'[PendingHook] = lcHooks[PendingHook] /\ RunningKey' = RunningKey
      BY <1>1, <1>4, <1>8, <1>9, <2>2, PendingKept DEF ActionUnderWay
    <3>2. RunningKind' = RunningKind
      BY <1>4, <3>1 DEF RunningKind, PendingEvent, Running
    <3> QED BY <1>1, <1>4, <2>1, <2>2, <3>1, <3>2 DEF ActionUnderWay
  <2>3. CASE ~Acts
    BY <2>1, <2>3 DEF ActionUnderWay
  <2> QED BY <2>2, <2>3
<1>11. /\ requested \in RunProjections /\ requested.cancelRequested
       /\ requested.status = "Cancelling" /\ requested.outcome = NoOutcome
  BY <1>1, <1>2, <1>4 DEF LifecycleTypes, RunCancellationRequested, RunProjections, RunStatuses
<1>12. /\ lcRun' \in RunProjections /\ lcRun'.cancelRequested
       /\ IF lcRun.status = "Waiting" THEN lcRun'.status = "Finalizing" /\ lcRun'.outcome = "Cancelled"
          ELSE lcRun'.status = "Cancelling" /\ lcRun'.outcome = NoOutcome
  <2>1. CASE lcRun.status = "Waiting"
    BY <1>4, <1>11, <2>1 DEF RunOutcomeDecided, RunProjections, RunStatuses, BusinessOutcomes
  <2>2. CASE lcRun.status # "Waiting"
    BY <1>4, <1>11, <2>2
  <2> QED BY <2>1, <2>2
<1>13. RunShape' /\ StepShape'
  BY <1>1, <1>4, <1>12 DEF RunShape, StepShape, Undecided, TerminalStatuses, NoOutcome
<1>14. DriverShape'
  <2>1. lcRun'.status \notin TerminalStatuses
    BY <1>12 DEF TerminalStatuses
  <2>2. Decides' = Decides
    BY <1>4 DEF Decides
  <2>3. Decides => lcRun.status # "Waiting"
    BY <1>1 DEF DriverShape
  <2> QED BY <1>1, <1>4, <1>12, <2>1, <2>2, <2>3 DEF DriverShape
<1>15. /\ \A e : Requests(lcHooks', e) <=> Requests(lcHooks, e) \/ e \in E
       /\ CancelIdle(lcHooks) => CancelIdle(lcHooks')
  BY <1>7 DEF RequestsMade
<1>16. RequestsSound(lcHooks, lcStep, lcRun)'
  <2>1. /\ ~Requests(lcHooks, "RunSuccess") /\ ~Requests(lcHooks, "RunFailure")
        /\ ~Requests(lcHooks, "RunComplete") /\ CancelIdle(lcHooks)
    BY <1>1, <1>4 DEF RequestsSound, NoOutcome
  <2>2. /\ ~Requests(lcHooks', "RunSuccess") /\ ~Requests(lcHooks', "RunFailure")
        /\ ~Requests(lcHooks', "RunComplete") /\ CancelIdle(lcHooks')
        /\ \A e \in StepEvents : Requests(lcHooks', e) => Requests(lcHooks, e)
    BY <1>6, <1>15, <2>1 DEF StepEvents
  <2> QED BY <1>1, <1>4, <1>12, <2>2 DEF RequestsSound, StepEvents
<1>17. RequestsComplete(lcDef, lcHooks, lcStep, lcRun, lcWait)'
  <2>1. \A e : Requests(lcHooks, e) => Requests(lcHooks', e)
    BY <1>15
  <2>2. "RunCancel" \in DOMAIN lcDef.hooks => Requests(lcHooks', "RunCancel")
    BY <1>6, <1>15
  <2>3. CASE lcRun.status = "Waiting"
    BY <1>1, <1>4, <1>12, <2>1, <2>2, <2>3 DEF RequestsComplete, OneRequested
  <2>4. CASE lcRun.status # "Waiting"
    BY <1>1, <1>4, <1>12, <2>1, <2>4 DEF RequestsComplete, OneRequested, NoOutcome
  <2> QED BY <2>3, <2>4
<1>18. /\ lcWait' \in {"none", "registered", "over", "cancelled"}
       /\ lcStep' \in [attempt : 0..lcDef.attempts, status : StepStatuses]
       /\ lcDriver' \in DriverRecords
  BY <1>1, <1>4 DEF LifecycleTypes, DriverRecords
<1> QED BY <1>4, <1>7, <1>10, <1>12, <1>13, <1>14, <1>16, <1>17, <1>18, RequestStepKeeps

(* The first state, with the hook of the start of the run. *)
LEMMA LifecycleStarts ==
  ASSUME HookInit
  PROVE  LifecycleInv
<1>1. /\ lcDef \in HookDefinitions /\ SendAttempts \in Nat \ {0} /\ MaxHookCrashes \in Nat
      /\ lcDef.attempts \in Nat \ {0}
  BY HookAssumption, DefinitionFacts DEF HookInit
<1>2. PICK r : r = RunAdmitted(EmptyProjection)
  OBVIOUS
<1>3. /\ r \in RunProjections /\ r.outcome = NoOutcome /\ r.cancelRequested = FALSE
  BY <1>2 DEF RunAdmitted, EmptyProjection, RunProjections, RunStatuses
<1>4. /\ lcRun \in RunProjections /\ lcRun.outcome = NoOutcome /\ ~lcRun.cancelRequested
      /\ lcRun.status = "Running"
  BY <1>2, <1>3 DEF HookInit, RunExecutionStarted, RunProjections, RunStatuses
<1>5. HooksSound(lcDef, <<>>) /\ (\A e : ~Requests(<<>>, e)) /\ CancelIdle(<<>>)
      /\ \A e, k : ~Reached(<<>>, e, k)
  <2>1. <<>> \in Seq(HookRecords(lcDef)) /\ DOMAIN <<>> = {}
    OBVIOUS
  <2> QED BY <2>1 DEF HooksSound, HooksShaped, RequestedOnce, Requests, CancelIdle, Reached
<1>6. PICK due : due = Due(<<"RunStart">>)
  OBVIOUS
<1>7. Fresh(lcDef, <<>>, due) /\ \A f : Requests(due, f) <=> f \in DueEvents(lcDef, "RunStart", "RunStart")
  BY <1>5, <1>6, CandidateFacts, DueRequests
<1>8. due \in Seq(HookRecords(lcDef)) /\ <<>> \o due = due
  <2>1. due \in Seq(HookRecords(lcDef))
    BY <1>7 DEF Fresh
  <2> QED BY <2>1, ConcatEmptySeq
<1>9. /\ HooksSound(lcDef, lcHooks)
      /\ \A e : Requests(lcHooks, e) <=> e \in DueEvents(lcDef, "RunStart", "RunStart")
      /\ \A e : \A k \in Nat \ {0} : ~Reached(lcHooks, e, k)
      /\ CancelIdle(lcHooks)
  <2>1. /\ HooksSound(lcDef, <<>> \o due)
        /\ \A e : Requests(<<>> \o due, e) <=> Requests(<<>>, e) \/ Requests(due, e)
        /\ \A e : \A k \in Nat \ {0} : Reached(<<>> \o due, e, k) <=> Reached(<<>>, e, k)
        /\ CancelIdle(<<>>) => CancelIdle(<<>> \o due)
    BY <1>5, <1>7, RequestsAppended
  <2>2. lcHooks = due /\ lcHooks = <<>> \o due
    BY <1>6, <1>8 DEF HookInit
  <2> QED BY <1>5, <1>7, <2>1, <2>2
<1>10. /\ DueEvents(lcDef, "RunStart", "RunStart") \subseteq {"RunStart"}
       /\ "RunStart" \in DOMAIN lcDef.hooks => "RunStart" \in DueEvents(lcDef, "RunStart", "RunStart")
  BY DEF DueEvents
<1>11. /\ lcDriver.at = "hooks" /\ lcDriver.then = "loop"
       /\ lcDriver \in [at : DriverSteps, then : {"loop", "fail", "end"},
                        try : 0..SendAttempts,
                        answer : {"none", "succeeded", "failed", "cancelled", "retryable"}]
  BY <1>1 DEF HookInit, Driver, DriverSteps
<1>12. /\ lcStep \in [attempt : 0..lcDef.attempts, status : StepStatuses]
       /\ lcStep.attempt = 0 /\ lcStep.status = "ready"
  BY <1>1 DEF HookInit, StepStatuses
<1>13. /\ lcRan \in [ActionKeys -> Nat] /\ lcSent \in [ActionKeys -> Nat]
       /\ \A k \in ActionKeys : lcRan[k] = 0 /\ lcSent[k] = 0
  BY DEF HookInit
<1>14. LifecycleTypes
  BY <1>1, <1>4, <1>9, <1>11, <1>12, <1>13 DEF HookInit, LifecycleTypes, HooksSound, HooksShaped
<1>15. RunShape /\ DriverShape /\ StepShape
  BY <1>4, <1>11, <1>12 DEF RunShape, DriverShape, StepShape, Undecided, Decides, TerminalStatuses
<1>16. RequestsSound(lcHooks, lcStep, lcRun)
  BY <1>9, <1>10 DEF RequestsSound
<1>17. RequestsComplete(lcDef, lcHooks, lcStep, lcRun, lcWait)
  BY <1>4, <1>9, <1>10, <1>12 DEF RequestsComplete, NoOutcome
<1>18. ActionUnderWay
  BY <1>11 DEF ActionUnderWay, Acts
<1>19. ActionsCounted(lcDef, lcHooks, lcRan, lcSent) /\ ReusableCounted(lcDef, lcReusable, lcRan, lcSent)
  <2>1. \A e, k : 0 <= SendLimit(lcDef, e, k)
    BY <1>1 DEF SendLimit
  <2> QED BY <1>1, <1>13, <2>1, KeyFacts DEF ActionsCounted, ReusableCounted
<1> QED BY <1>9, <1>14, <1>15, <1>16, <1>17, <1>18, <1>19 DEF LifecycleInv

(* A stuttering step. *)
LEMMA LifecycleStutters ==
  ASSUME LifecycleInv, UNCHANGED lcVars
  PROVE  LifecycleInv'
<1>1. UNCHANGED <<lcDef, lcRun, lcStep, lcWait, lcHooks, lcOps, lcReusable, lcDriver, lcRan, lcSent, lcCrashes>>
  BY DEF lcVars
<1>2. /\ OpenHooks' = OpenHooks /\ PendingHook' = PendingHook /\ RunningKey' = RunningKey
      /\ RunningKind' = RunningKind
      /\ ActionKeys' = ActionKeys /\ HooksSound(lcDef, lcHooks)'
  BY <1>1, SameHooks
<1>3. LifecycleTypes'
  BY <1>1, <1>2 DEF LifecycleInv, LifecycleTypes
<1>4. RunShape' /\ StepShape' /\ DriverShape'
  BY <1>1, <1>2 DEF LifecycleInv, RunShape, StepShape, DriverShape, Decides
<1>5. ActionUnderWay'
  BY <1>1, <1>2 DEF LifecycleInv, ActionUnderWay, Acts
<1> QED BY <1>1, <1>2, <1>3, <1>4, <1>5 DEF LifecycleInv

(* The hooks of a run, its counters and the place of its driver agree in   *)
(* every state: a hook is requested once and only for what happened, the   *)
(* records of its actions grow in source order, and whatever happened has  *)
(* its request, across cancellation, timeouts, crashes and recovery.       *)
THEOREM LifecycleInvariant == HookSpec => []LifecycleInv
<1>1. HookInit => LifecycleInv
  BY LifecycleStarts
<1>2. LifecycleInv /\ [HookNext]_lcVars => LifecycleInv'
  <2> SUFFICES ASSUME LifecycleInv, [HookNext]_lcVars
               PROVE  LifecycleInv'
    OBVIOUS
  <2>1. CASE LeaveHooks \/ EnterReusable \/ StepEnds \/ Stall \/ Crash \/ Resume
    BY <2>1, DriverMovesKeep
  <2>2. CASE FinalizeRun \/ RegisterWait \/ ResumeAfterWait
    BY <2>2, RunMovesKeep
  <2>3. CASE RequestReusable \/ StartReusable \/ EndReusable \/ CompleteReusable
    BY <2>3, ReusableMovesKeep
  <2>4. CASE ScriptActionEnds \/ StartDelivery \/ RecordDelivery
    BY <2>4, ActionEndsKeep
  <2>5. CASE ProviderAnswers
    BY <2>5, ProviderAnswersKeeps
  <2>6. CASE SkipAction \/ StartAction
    BY <2>6, ActionStartsKeep
  <2>7. CASE CompleteHook
    BY <2>7, CompleteHookKeeps
  <2>8. CASE RecoverActions
    BY <2>8, RecoverActionsKeeps
  <2>9. CASE StartStep
    BY <2>9, StartStepKeeps
  <2>10. CASE RecordSuccess \/ RecordFailure \/ RecordCancelled
    BY <2>10, StepRecordsKeep
  <2>11. CASE PublishResult \/ LeaveReusable
    BY <2>11, OutcomesKeep
  <2>12. CASE ReachTimeout
    BY <2>12, ReachTimeoutKeeps
  <2>13. CASE SettleCancellingRun
    BY <2>13, SettleCancellingKeeps
  <2>14. CASE RecoverStep
    BY <2>14, RecoverStepKeeps
  <2>15. CASE RequestCancellation
    BY <2>15, RequestCancellationKeeps
  <2>16. CASE UNCHANGED lcVars
    BY <2>16, LifecycleStutters
  <2> QED BY <2>1, <2>2, <2>3, <2>4, <2>5, <2>6, <2>7, <2>8, <2>9, <2>10, <2>11, <2>12, <2>13,
            <2>14, <2>15, <2>16 DEF HookNext
<1> QED BY <1>1, <1>2, PTL DEF HookSpec

(* The hooks, the records of their actions, the driver and the counters    *)
(* keep their types: no attempt beyond the step's retry policy, no         *)
(* delivery beyond SendAttempts.                                           *)
THEOREM LifecycleTypeCorrect == HookSpec => []LifecycleTypeOK
<1>1. LifecycleInv => LifecycleTypeOK
  <2> SUFFICES ASSUME LifecycleInv PROVE LifecycleTypeOK
    OBVIOUS
  <2>1. LifecycleTypes /\ DOMAIN lcDef.hooks \subseteq HookEvents
    BY DefinitionFacts DEF LifecycleInv, LifecycleTypes
  <2>2. ASSUME NEW i \in DOMAIN lcHooks
        PROVE  /\ lcHooks[i].event \in HookEvents /\ lcHooks[i].done \in BOOLEAN
               /\ lcHooks[i].actions \in Seq({"started", "succeeded", "failed"})
    <3>1. lcHooks \in Seq(HookRecords(lcDef))
      BY <2>1 DEF LifecycleTypes
    <3>2. lcHooks[i] \in HookRecords(lcDef)
      BY <3>1
    <3> QED BY <2>1, <3>2 DEF HookRecords, ActionStatuses
  <2> QED BY <2>1, <2>2 DEF LifecycleTypes, LifecycleTypeOK
<1> QED BY <1>1, LifecycleInvariant, PTL

(* No action of a hook runs twice, no built-in notification reaches its    *)
(* provider twice and the message of a custom provider is posted at most   *)
(* once in each of the SendAttempts attempts of its one execution: a       *)
(* started action is recorded before it runs, recovery fails what it finds *)
(* started, and a delivery is sent again only after a retryable answer.    *)
THEOREM HooksActOnce == HookSpec => []ActionsRunOnce
<1>1. LifecycleInv => ActionsRunOnce
  <2> SUFFICES ASSUME LifecycleInv, NEW x \in ActionKeys
               PROVE  lcRan[x] <= 1 /\ lcSent[x] <= SendLimit(lcDef, x[1], x[2])
    BY DEF ActionsRunOnce
  <2>1. \/ \E e \in DOMAIN lcDef.hooks : \E k \in 1..Len(lcDef.hooks[e]) : x = <<e, k>>
        \/ \E h \in lcDef.reusable : x = <<h, 1>>
    BY KeyFacts DEF LifecycleInv, LifecycleTypes
  <2>2. CASE \E e \in DOMAIN lcDef.hooks : \E k \in 1..Len(lcDef.hooks[e]) : x = <<e, k>>
    <3>0. PICK e \in DOMAIN lcDef.hooks : \E k \in 1..Len(lcDef.hooks[e]) : x = <<e, k>>
      BY <2>2
    <3>1. PICK k \in 1..Len(lcDef.hooks[e]) : x = <<e, k>>
      BY <3>0
    <3>2. x[1] = e /\ x[2] = k
      BY <3>1
    <3> QED BY <3>1, <3>2 DEF LifecycleInv, ActionsCounted
  <2>3. CASE \E h \in lcDef.reusable : x = <<h, 1>>
    <3>1. lcRan[x] <= 1 /\ lcSent[x] = 0
      BY <2>3 DEF LifecycleInv, ReusableCounted
    <3>2. 0 <= SendLimit(lcDef, x[1], x[2])
      BY HookAssumption DEF SendLimit
    <3> QED BY <3>1, <3>2
  <2> QED BY <2>1, <2>2, <2>3
<1> QED BY <1>1, LifecycleInvariant, PTL

(* In an ended run every requested hook is complete. *)
LEMMA RequestedIsCompleted ==
  ASSUME LifecycleInv, lcRun.status \in TerminalStatuses, NEW e, Requests(lcHooks, e)
  PROVE  /\ Completed(e)
         /\ e \in {"RunSuccess", "RunFailure", "RunCancel"} /\ Declared("RunComplete")
              => Requests(lcHooks, "RunComplete")
         /\ e \in {"StepSuccess", "StepFailure"} /\ Declared("StepComplete")
              => Requests(lcHooks, "StepComplete")
<1>1. PICK i \in DOMAIN lcHooks : lcHooks[i].event = e
  BY DEF Requests
<1>2. lcHooks[i].done
  BY DEF LifecycleInv, DriverShape, OpenHooks
<1>3. HookSound(lcDef, lcHooks[i]) /\ FollowedUp(lcDef, lcHooks, lcHooks[i])
  BY DEF LifecycleInv, HooksSound, HooksShaped
<1> QED BY <1>1, <1>2, <1>3 DEF HookSound, FollowedUp, Completed, ActionsOf, Declared

(* When a run has ended, every hook that its outcome and the end of its    *)
(* step call for was requested and all its actions are settled, and no     *)
(* success or failure hook stands beside another outcome.                  *)
THEOREM EndsAreObserved == HookSpec => []EndsObserved
<1>1. LifecycleInv => EndsObserved
  <2> SUFFICES ASSUME LifecycleInv, lcRun.status \in TerminalStatuses
               PROVE  /\ \A e \in CalledFor : Declared(e) => Completed(e)
                      /\ \A o \in {"Succeeded", "Failed"} : Requested(OutcomeEvent(o)) => lcRun.outcome = o
    BY DEF EndsObserved
  <2>1. /\ RequestsSound(lcHooks, lcStep, lcRun)
        /\ RequestsComplete(lcDef, lcHooks, lcStep, lcRun, lcWait)
        /\ lcRun.outcome \in BusinessOutcomes
    BY DEF LifecycleInv, RunShape, LifecycleTypes, RunProjections, Undecided, TerminalStatuses
  <2>2. /\ OutcomeEvent("Succeeded") = "RunSuccess" /\ OutcomeEvent("Failed") = "RunFailure"
        /\ OutcomeEvent("Cancelled") = "RunCancel"
    BY DEF OutcomeEvent
  <2>3. \A o \in {"Succeeded", "Failed"} : Requested(OutcomeEvent(o)) => lcRun.outcome = o
    BY <2>1, <2>2 DEF RequestsSound, Requested, Requests
  <2>4. ASSUME NEW a, NEW b, OneRequested(lcDef, lcHooks, a, b),
               \/ a \in {"RunSuccess", "RunFailure", "RunCancel"} /\ b = "RunComplete"
               \/ a \in {"StepSuccess", "StepFailure"} /\ b = "StepComplete"
        PROVE  (Declared(a) => Completed(a)) /\ (Declared(b) => Completed(b))
    <3>1. CASE Declared(a)
      <4>1. Requests(lcHooks, a)
        BY <2>4, <3>1 DEF OneRequested, Declared
      <4>2. Completed(a) /\ (Declared(b) => Requests(lcHooks, b))
        BY <2>4, <4>1, RequestedIsCompleted
      <4> QED BY <4>2, RequestedIsCompleted
    <3>2. CASE ~Declared(a)
      <4>1. Declared(b) => Requests(lcHooks, b)
        BY <2>4, <3>2 DEF OneRequested, Declared
      <4> QED BY <3>2, <4>1, RequestedIsCompleted
    <3> QED BY <3>1, <3>2
  <2>5. /\ Declared("RunStart") => Completed("RunStart")
        /\ lcStep.attempt > 0 /\ Declared("StepStart") => Completed("StepStart")
        /\ lcStep.status = "cancelled" /\ Declared("StepComplete") => Completed("StepComplete")
    BY <2>1, RequestedIsCompleted DEF RequestsComplete, Declared
  <2>6. lcStep.status = "succeeded" =>
          /\ Declared("StepSuccess") => Completed("StepSuccess")
          /\ Declared("StepComplete") => Completed("StepComplete")
    BY <2>1, <2>4 DEF RequestsComplete
  <2>7. lcStep.status = "failed" =>
          /\ Declared("StepFailure") => Completed("StepFailure")
          /\ Declared("StepComplete") => Completed("StepComplete")
    BY <2>1, <2>4 DEF RequestsComplete
  <2>8. /\ Declared(OutcomeEvent(lcRun.outcome)) => Completed(OutcomeEvent(lcRun.outcome))
        /\ ~(lcWait = "cancelled" /\ ~Declared("RunCancel")) /\ Declared("RunComplete")
             => Completed("RunComplete")
    <3>1. CASE lcRun.outcome = "Succeeded"
      BY <2>1, <2>2, <2>4, <3>1 DEF RequestsComplete
    <3>2. CASE lcRun.outcome = "Failed"
      BY <2>1, <2>2, <2>4, <3>2 DEF RequestsComplete
    <3>3. CASE lcRun.outcome = "Cancelled"
      <4>1. CASE OneRequested(lcDef, lcHooks, "RunCancel", "RunComplete")
        BY <2>2, <2>4, <3>3, <4>1
      <4>2. CASE lcWait = "cancelled" /\ "RunCancel" \notin DOMAIN lcDef.hooks
        BY <2>2, <3>3, <4>2 DEF Declared
      <4> QED BY <2>1, <3>3, <4>1, <4>2 DEF RequestsComplete
    <3> QED BY <2>1, <3>1, <3>2, <3>3 DEF BusinessOutcomes
  <2>9. ASSUME NEW e \in CalledFor, Declared(e) PROVE Completed(e)
    <3>1. \/ e = "RunStart" \/ e = OutcomeEvent(lcRun.outcome)
          \/ lcStep.attempt > 0 /\ e = "StepStart"
          \/ lcStep.status = "succeeded" /\ e \in {"StepSuccess", "StepComplete"}
          \/ lcStep.status = "failed" /\ e \in {"StepFailure", "StepComplete"}
          \/ lcStep.status = "cancelled" /\ e = "StepComplete"
          \/ ~(lcWait = "cancelled" /\ ~Declared("RunCancel")) /\ e = "RunComplete"
      BY <2>9 DEF CalledFor
    <3> QED BY <2>5, <2>6, <2>7, <2>8, <2>9, <3>1
  <2> QED BY <2>3, <2>9
<1> QED BY <1>1, LifecycleInvariant, PTL
================================================================================
