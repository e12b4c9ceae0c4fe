---------------------------- MODULE ApprovalProofs ----------------------------
(***************************************************************************)
(* Proofs about what carries a decision to a run and a run to another:     *)
(* approvals with their notifications (ApprovalNotifications), workflow    *)
(* calls (WorkflowCalls) and the policy that lets a call pass on evidence  *)
(* (InfrastructurePolicy).                                                 *)
(***************************************************************************)
EXTENDS MCSuspension, SuspensionProofs

-----------------------------------------------------------------------------
(* Approvals and their notifications.                                      *)
(*                                                                         *)
(* A delivery is sent by an attempt, an attempt ends in an answer, and a   *)
(* further attempt is made only if the failure was not final.  The         *)
(* invariant follows a message through that: as long as an attempt can be  *)
(* repeated, or is under way without having reached a person, nothing has  *)
(* been sent except what a custom provider answered as retryable; and no   *)
(* attempt sends twice.                                                    *)

DeliveryRows ==
  [status : AttemptStates, attempt : Nat, final : BOOLEAN, failedAt : Nat]

HostAnswerSet == {"none", "succeeded", "retryable", "permanent", "ambiguous"}

InvocationRows ==
  [kind : {"none", "send", "update"}, journey : Journeys \cup {"none"},
   answer : HostAnswerSet]

ApprovalTypes ==
  /\ apRun \in [run : RunProjections, expands : BOOLEAN,
                failure : {"none", "deliveries", "timeout"}]
  /\ apRequest \in
       [status : {"absent", "waiting", "resolved"},
        resolution : {"none", "approved", "rejected", "timed_out", "failed"},
        expires : Nat]
  /\ deliveries \in [Deliveries -> DeliveryRows]
  /\ invocations \in [Deliveries -> InvocationRows]
  /\ credentials \in [Deliveries \cup {ApprovalLink} -> Nat]
  /\ sent \in [Deliveries -> Nat] /\ hidden \in [Deliveries -> Nat]
  /\ apClock \in Nat

(* An attempt may still be made for the delivery. *)
Repeatable(a) ==
  a.status \in {"none", "requested"} \/ (a.status = "failed" /\ ~a.final)

(* A delivery a with the call of the host for it, the messages n that were *)
(* sent and those h of them that were answered as retryable: a send in     *)
(* flight belongs to a started attempt.                                    *)
SendOK(a, call, n, h) ==
  /\ a.attempt <= MaxDeliveryAttempts
  /\ a.status \in {"none", "requested"} => a.attempt = 0
  /\ n <= a.attempt /\ n <= 1 + h
  /\ Repeatable(a) => n <= h
  /\ call.kind = "send" =>
       /\ a.status = "started"
       /\ call.answer \in {"none", "retryable"} => n <= h
       /\ call.answer = "none" => n < a.attempt

SendsAccounted ==
  \A d \in Deliveries :
    SendOK(deliveries[d], invocations[d], sent[d], hidden[d])

(* Only the script of a custom provider hides what it sent. *)
BuiltInsHideNothing == \A d \in EditableDeliveries : hidden[d] = 0

NothingBeforeRequest ==
  apRequest.status = "absent" =>
    /\ apRequest.expires = 0
    /\ \A d \in Deliveries : deliveries[d].status = "none"

(* approval_credential_expiry, over time. *)
CredentialsWithinDeadline ==
  \A c \in Deliveries \cup {ApprovalLink} : credentials[c] <= apRequest.expires

ApprovalInv ==
  /\ ApprovalTypes /\ SendsAccounted /\ BuiltInsHideNothing
  /\ NothingBeforeRequest
  /\ CredentialsWithinDeadline /\ UnreachableApprovalEnds

(* Ending a run moves it away from waiting. *)
LEMMA RunEnds ==
  ASSUME NEW run \in RunProjections, NEW o \in BusinessOutcomes
  PROVE  /\ RunOutcomeDecided(run, o) \in RunProjections
         /\ DecideApprovalRun(run, o) \in RunProjections
         /\ DecideApprovalRun(run, o).status # "Waiting"
<1>1. /\ RunOutcomeDecided(run, o) \in RunProjections
      /\ RunOutcomeDecided(run, o).status = "Finalizing"
      /\ RunOutcomeDecided(run, o).outcome = o
  BY DEF RunOutcomeDecided, RunProjections, RunStatuses, BusinessOutcomes
<1> DEFINE x == RunOutcomeDecided(run, o)
<1> HIDE DEF x
<1>2. ASSUME x \in RunProjections, x.outcome = o
      PROVE  /\ RunFinalized(x) \in RunProjections
             /\ RunFinalized(x).status = o
  BY <1>2 DEF RunFinalized, RunProjections, RunStatuses, BusinessOutcomes
<1> QED BY <1>1, <1>2 DEF DecideApprovalRun, BusinessOutcomes, x

ApprovalRuns ==
  [run : RunProjections, expands : BOOLEAN,
   failure : {"none", "deliveries", "timeout"}]

LEMMA FailedRunEnds ==
  ASSUME NEW r \in ApprovalRuns, NEW cause \in {"deliveries", "timeout"}
  PROVE  /\ FailedRun(r, cause) \in ApprovalRuns
         /\ FailedRun(r, cause).run.status # "Waiting"
<1> DEFINE x == IF r.expands THEN DecideApprovalRun(r.run, "Failed")
                ELSE [r.run EXCEPT !.status = "Failed", !.outcome = "Failed"]
<1>0. r.run \in RunProjections
  BY DEF ApprovalRuns
<1>1. /\ [r.run EXCEPT !.status = "Failed", !.outcome = "Failed"] \in RunProjections
      /\ [r.run EXCEPT !.status = "Failed", !.outcome = "Failed"].status = "Failed"
  BY <1>0 DEF RunProjections, RunStatuses, BusinessOutcomes
<1>2. /\ DecideApprovalRun(r.run, "Failed") \in RunProjections
      /\ DecideApprovalRun(r.run, "Failed").status # "Waiting"
  BY <1>0, RunEnds DEF BusinessOutcomes
<1>3. x \in RunProjections /\ x.status # "Waiting"
  BY <1>1, <1>2
<1>4. FailedRun(r, cause) = [r EXCEPT !.failure = cause, !.run = x]
  BY DEF FailedRun
<1> HIDE DEF x
<1> QED BY <1>3, <1>4 DEF ApprovalRuns

(* Steps that touch neither the request nor its deliveries, and make no    *)
(* run wait.                                                               *)
LEMMA QuietInv ==
  ASSUME ApprovalInv, apRun' \in ApprovalRuns, apClock' \in Nat,
         UNCHANGED <<apRequest, deliveries, invocations, credentials, sent,
                     hidden>>,
         apRun'.run.status = "Waiting" => apRun.run.status = "Waiting"
  PROVE  ApprovalInv' /\ FirstDecisionKept
<1>1. ApprovalTypes'
  BY DEF ApprovalInv, ApprovalTypes, ApprovalRuns
<1>2. /\ SendsAccounted' /\ BuiltInsHideNothing' /\ NothingBeforeRequest'
      /\ CredentialsWithinDeadline'
  BY DEF ApprovalInv, SendsAccounted, BuiltInsHideNothing, NothingBeforeRequest,
     CredentialsWithinDeadline
<1>3. UnreachableApprovalEnds'
  BY DEF ApprovalInv, UnreachableApprovalEnds, AllFailed, ApprovalWaits,
     ApprovalStatus
<1>4. FirstDecisionKept
  BY DEF FirstDecisionKept
<1> QED BY <1>1, <1>2, <1>3, <1>4 DEF ApprovalInv

LEMMA QuietSteps ==
  ASSUME ApprovalInv,
         \/ CompleteApprovalRun \/ FinalizeApprovalRun \/ CancelApprovalRun
         \/ ApprovalTick \/ UNCHANGED apVars
         \/ \E j \in Journeys :
              \/ StartJourney(j) \/ JoinDeliveries(j) \/ AfterDeliveries(j)
              \/ ObserveResolution(j) \/ InteractionTimeout(j) \/ JoinUpdates(j)
  PROVE  ApprovalInv' /\ FirstDecisionKept
<1>0. apRun \in ApprovalRuns /\ apClock \in Nat /\ apRun.run \in RunProjections
  BY DEF ApprovalInv, ApprovalTypes, ApprovalRuns
<1>1. ASSUME NEW x \in RunProjections, x.status # "Waiting",
             apRun' = [apRun EXCEPT !.run = x]
      PROVE  /\ apRun' \in ApprovalRuns
             /\ apRun'.run.status # "Waiting"
  BY <1>0, <1>1 DEF ApprovalRuns
<1>2. CASE CompleteApprovalRun
  <2>1. /\ DecideApprovalRun(apRun.run, "Succeeded") \in RunProjections
        /\ DecideApprovalRun(apRun.run, "Succeeded").status # "Waiting"
    BY <1>0, RunEnds DEF BusinessOutcomes
  <2>2. apRun' \in ApprovalRuns /\ apRun'.run.status # "Waiting"
    BY <2>1, <1>1, <1>2 DEF CompleteApprovalRun
  <2> QED BY <2>2, <1>0, <1>2, QuietInv DEF CompleteApprovalRun
<1>3. CASE FinalizeApprovalRun
  <2>1. /\ RunFinalized(apRun.run) \in RunProjections
        /\ RunFinalized(apRun.run).status # "Waiting"
    BY <1>0, <1>3 DEF FinalizeApprovalRun, CanRunFinalized, RunFinalized,
       RunProjections, RunStatuses, BusinessOutcomes
  <2>2. apRun' \in ApprovalRuns /\ apRun'.run.status # "Waiting"
    BY <2>1, <1>1, <1>3 DEF FinalizeApprovalRun
  <2> QED BY <2>2, <1>0, <1>3, QuietInv DEF FinalizeApprovalRun
<1>4. CASE CancelApprovalRun
  <2>1. /\ DecideApprovalRun(apRun.run, "Cancelled") \in RunProjections
        /\ DecideApprovalRun(apRun.run, "Cancelled").status # "Waiting"
    BY <1>0, RunEnds DEF BusinessOutcomes
  <2>2. /\ RunCancellationRequested(apRun.run) \in RunProjections
        /\ RunCancellationRequested(apRun.run).status # "Waiting"
    BY <1>0 DEF RunCancellationRequested, RunProjections, RunStatuses
  <2>3. apRun' \in ApprovalRuns /\ apRun'.run.status # "Waiting"
    BY <2>1, <2>2, <1>1, <1>4 DEF CancelApprovalRun
  <2> QED BY <2>3, <1>0, <1>4, QuietInv DEF CancelApprovalRun
<1>5. CASE ApprovalTick
  BY <1>0, <1>5, QuietInv DEF ApprovalTick
<1>6. CASE UNCHANGED apVars
  BY <1>0, <1>6, QuietInv DEF apVars
<1>7. ASSUME NEW j \in Journeys,
             \/ StartJourney(j) \/ JoinDeliveries(j) \/ AfterDeliveries(j)
             \/ ObserveResolution(j) \/ InteractionTimeout(j) \/ JoinUpdates(j)
      PROVE  ApprovalInv' /\ FirstDecisionKept
  <2>1. UNCHANGED <<apRun, apClock, apRequest, deliveries, invocations,
                    credentials, sent, hidden>>
    BY <1>7 DEF StartJourney, JoinDeliveries, AfterDeliveries,
       ObserveResolution, InteractionTimeout, JoinUpdates
  <2> QED BY <2>1, <1>0, QuietInv
<1> QED BY <1>2, <1>3, <1>4, <1>5, <1>6, <1>7

LEMMA ExpiryWithinDeadline ==
  ASSUME apClock \in Nat, NEW deadline \in Nat
  PROVE  CredentialExpiry(deadline) \in Nat /\ CredentialExpiry(deadline) <= deadline
<1>1. CredentialLifetime \in Nat
  BY ApprovalAssumption
<1> QED BY <1>1 DEF CredentialExpiry

(* The request: what was before it was nothing. *)
LEMMA RequestInv ==
  ASSUME ApprovalInv, RequestApproval
  PROVE  ApprovalInv' /\ FirstDecisionKept
<1> DEFINE deadline == apClock + ApprovalLength
           fresh == [NoAttempt EXCEPT !.status = "requested"]
<1>0. /\ ApprovalTypes /\ apClock \in Nat /\ deadline \in Nat
      /\ apRequest.status = "absent" /\ apRequest'.expires = deadline
      /\ apRequest' \in
           [status : {"absent", "waiting", "resolved"},
            resolution : {"none", "approved", "rejected", "timed_out", "failed"},
            expires : Nat]
      /\ apRequest'.status = "waiting"
      /\ UNCHANGED <<invocations, sent, hidden, apClock>>
  BY ApprovalAssumption DEF RequestApproval, ApprovalInv, ApprovalTypes
<1>1. /\ fresh \in DeliveryRows /\ fresh.status = "requested"
      /\ fresh.attempt = 0
  BY DEF NoAttempt, DeliveryRows, AttemptStates
<1>2. deliveries' = [d \in Deliveries |-> fresh]
  BY DEF RequestApproval
<1>3. /\ apRun' \in [run : RunProjections, expands : BOOLEAN,
                     failure : {"none", "deliveries", "timeout"}]
  <2> DEFINE run == [apRun.run EXCEPT !.status = "Waiting"]
  <2>1. run \in RunProjections
    BY <1>0 DEF ApprovalTypes, RunProjections, RunStatuses
  <2>2. apRun' = [apRun EXCEPT !.run = run]
    BY <1>0 DEF RequestApproval, ApprovalTypes
  <2> HIDE DEF run
  <2> QED BY <2>1, <2>2, <1>0 DEF ApprovalTypes
<1>4. /\ credentials' \in [Deliveries \cup {ApprovalLink} -> Nat]
      /\ \A c \in Deliveries \cup {ApprovalLink} : credentials'[c] <= deadline
  <2> DEFINE expiry == CredentialExpiry(deadline)
  <2>1. expiry \in Nat /\ expiry <= deadline
    BY <1>0, ExpiryWithinDeadline
  <2>2. credentials' = [credentials EXCEPT ![ApprovalLink] = expiry]
    BY DEF RequestApproval
  <2>3. \A c \in Deliveries \cup {ApprovalLink} : credentials[c] <= deadline
    <3>1. apRequest.expires = 0
      BY <1>0 DEF ApprovalInv, NothingBeforeRequest
    <3> QED BY <3>1, <1>0 DEF ApprovalInv, ApprovalTypes, CredentialsWithinDeadline
  <2> HIDE DEF expiry, deadline
  <2> QED BY <2>1, <2>2, <2>3, <1>0 DEF ApprovalTypes
<1> HIDE DEF fresh, deadline
<1>5. ApprovalTypes'
  BY <1>0, <1>1, <1>2, <1>3, <1>4 DEF ApprovalTypes
<1>6. \A d \in Deliveries :
        sent[d] = 0 /\ hidden[d] \in Nat /\ invocations[d].kind # "send"
  <2> TAKE d \in Deliveries
  <2>1. /\ SendOK(deliveries[d], invocations[d], sent[d], hidden[d])
        /\ deliveries[d].status = "none" /\ sent[d] \in Nat /\ hidden[d] \in Nat
    BY <1>0 DEF ApprovalInv, ApprovalTypes, NothingBeforeRequest, SendsAccounted
  <2> QED BY <2>1 DEF SendOK
<1>7. SendsAccounted' /\ BuiltInsHideNothing'
  <2>1. \A d \in Deliveries : SendOK(fresh, invocations[d], sent[d], hidden[d])
    BY <1>1, <1>6, ApprovalAssumption DEF SendOK
  <2> QED BY <2>1, <1>0, <1>2 DEF ApprovalInv, SendsAccounted, BuiltInsHideNothing
<1>8. NothingBeforeRequest' /\ CredentialsWithinDeadline'
  BY <1>0, <1>4 DEF NothingBeforeRequest, CredentialsWithinDeadline
<1>9. UnreachableApprovalEnds'
  BY <1>1, <1>2, ApprovalAssumption DEF UnreachableApprovalEnds, AllFailed
<1>10. FirstDecisionKept
  BY <1>0 DEF FirstDecisionKept
<1> QED BY <1>5, <1>7, <1>8, <1>9, <1>10 DEF ApprovalInv

(* A decision, by link, button or deadline. *)
LEMMA ResolveInv ==
  ASSUME ApprovalInv, ApprovalWaits,
         NEW resolution \in {"approved", "rejected", "timed_out", "failed"},
         ResolveApproval(resolution),
         apClock < apRequest.expires <=> resolution \in {"approved", "rejected"},
         apRun' \in ApprovalRuns
  PROVE  ApprovalInv' /\ FirstDecisionKept
<1>0. /\ ApprovalTypes /\ apRequest.status = "waiting"
      /\ UNCHANGED <<deliveries, credentials, invocations, sent, hidden, apClock>>
      /\ apRequest' = [apRequest EXCEPT !.status = "resolved",
                                        !.resolution = resolution]
  BY DEF ApprovalInv, ApprovalWaits, ResolveApproval
<1>1. /\ apRequest' \in
           [status : {"absent", "waiting", "resolved"},
            resolution : {"none", "approved", "rejected", "timed_out", "failed"},
            expires : Nat]
      /\ apRequest'.status = "resolved" /\ apRequest'.expires = apRequest.expires
      /\ apRequest'.resolution = resolution
  BY <1>0 DEF ApprovalTypes
<1>2. ApprovalTypes'
  BY <1>0, <1>1 DEF ApprovalTypes, ApprovalRuns
<1>3. /\ SendsAccounted' /\ BuiltInsHideNothing' /\ NothingBeforeRequest'
      /\ CredentialsWithinDeadline'
  BY <1>0, <1>1 DEF ApprovalInv, SendsAccounted, BuiltInsHideNothing,
     NothingBeforeRequest, CredentialsWithinDeadline
<1>4. UnreachableApprovalEnds'
  BY <1>1 DEF UnreachableApprovalEnds, ApprovalWaits
<1>5. FirstDecisionKept
  BY <1>0, <1>1 DEF FirstDecisionKept
<1> QED BY <1>2, <1>3, <1>4, <1>5 DEF ApprovalInv

LEMMA DecisionSteps ==
  ASSUME ApprovalInv,
         \/ SettleApprovalTimeout \/ ReissueApprovalToken
         \/ \E decision \in {"approved", "rejected"} :
              \/ HumanDecision(decision)
              \/ \E j \in Journeys, d \in Deliveries :
                   ProviderInteraction(j, d, decision)
  PROVE  ApprovalInv' /\ FirstDecisionKept
<1> DEFINE running == [apRun EXCEPT !.run.status = "Running"]
<1>0. /\ ApprovalTypes /\ apRun \in ApprovalRuns /\ apClock \in Nat
      /\ apRequest.expires \in Nat
      /\ credentials \in [Deliveries \cup {ApprovalLink} -> Nat]
      /\ CredentialsWithinDeadline
  BY DEF ApprovalInv, ApprovalTypes, ApprovalRuns
<1>1. running \in ApprovalRuns
  <2> DEFINE run == [apRun.run EXCEPT !.status = "Running"]
  <2>1. run \in RunProjections
    BY <1>0 DEF ApprovalRuns, RunProjections, RunStatuses
  <2>2. running = [apRun EXCEPT !.run = run]
    BY <1>0 DEF ApprovalRuns
  <2> HIDE DEF run
  <2> QED BY <2>1, <2>2, <1>0 DEF ApprovalRuns
<1>2. CASE SettleApprovalTimeout
  <2>1. FailedRun(running, "timeout") \in ApprovalRuns
    <3> HIDE DEF running
    <3> QED BY <1>1, FailedRunEnds
  <2>2. apRun' \in ApprovalRuns
    BY <2>1, <1>1, <1>2 DEF SettleApprovalTimeout
  <2>3. PICK resolution \in {"timed_out", "failed"} : ResolveApproval(resolution)
    BY <1>2 DEF SettleApprovalTimeout
  <2>4. ApprovalWaits /\ ~(apClock < apRequest.expires)
    BY <1>0, <1>2 DEF SettleApprovalTimeout
  <2> QED BY <2>2, <2>3, <2>4, ResolveInv
<1>3. ASSUME NEW decision \in {"approved", "rejected"},
             NEW c \in Deliveries \cup {ApprovalLink}, MayDecide(c),
             apRun' = running, ResolveApproval(decision)
      PROVE  ApprovalInv' /\ FirstDecisionKept
  <2>1. ApprovalWaits /\ apClock < apRequest.expires
    BY <1>0, <1>3 DEF MayDecide, CredentialsWithinDeadline
  <2> QED BY <2>1, <1>1, <1>3, ResolveInv
<1>4. ASSUME NEW decision \in {"approved", "rejected"}, HumanDecision(decision)
      PROVE  ApprovalInv' /\ FirstDecisionKept
  BY <1>3, <1>4 DEF HumanDecision
<1>5. ASSUME NEW decision \in {"approved", "rejected"}, NEW j \in Journeys,
             NEW d \in Deliveries, ProviderInteraction(j, d, decision)
      PROVE  ApprovalInv' /\ FirstDecisionKept
  BY <1>3, <1>5 DEF ProviderInteraction
<1>6. CASE ReissueApprovalToken
  <2> DEFINE expiry == CredentialExpiry(apRequest.expires)
  <2>1. expiry \in Nat /\ expiry <= apRequest.expires
    BY <1>0, ExpiryWithinDeadline
  <2>2. /\ credentials' = [credentials EXCEPT ![ApprovalLink] = expiry]
        /\ UNCHANGED <<apRun, apRequest, deliveries, invocations, sent, hidden,
                       apClock>>
    BY <1>6 DEF ReissueApprovalToken
  <2> HIDE DEF expiry
  <2>3. /\ credentials' \in [Deliveries \cup {ApprovalLink} -> Nat]
        /\ CredentialsWithinDeadline'
    BY <2>1, <2>2, <1>0 DEF CredentialsWithinDeadline
  <2> QED BY <2>2, <2>3, <1>0 DEF ApprovalInv, ApprovalTypes, SendsAccounted,
             BuiltInsHideNothing, NothingBeforeRequest, UnreachableApprovalEnds,
             AllFailed, ApprovalWaits, ApprovalStatus, FirstDecisionKept
<1> QED BY <1>2, <1>4, <1>5, <1>6

(* An attempt is started where the earlier ones may be repeated. *)
LEMMA BeginDeliveryInv ==
  ASSUME ApprovalInv, NEW j \in Journeys, NEW d \in Deliveries, BeginDelivery(j, d)
  PROVE  ApprovalInv' /\ FirstDecisionKept
<1>0. /\ ApprovalTypes /\ apRun \in ApprovalRuns /\ apClock \in Nat
      /\ apRequest.expires \in Nat
      /\ deliveries \in [Deliveries -> DeliveryRows]
      /\ invocations \in [Deliveries -> InvocationRows]
      /\ credentials \in [Deliveries \cup {ApprovalLink} -> Nat]
      /\ UNCHANGED <<apRun, apRequest, sent, hidden, apClock>>
  BY DEF ApprovalInv, ApprovalTypes, ApprovalRuns, BeginDelivery
<1>1. CASE UNCHANGED <<deliveries, credentials, invocations>>
  BY <1>0, <1>1, QuietInv
<1>2. CASE ~UNCHANGED <<deliveries, credentials, invocations>>
  <2> DEFINE expiry == CredentialExpiry(apRequest.expires)
             call == [kind |-> "send", journey |-> j, answer |-> "none"]
             a == Started(deliveries[d])
  <2>1. /\ CanBeginDelivery(d)
        /\ deliveries' = [deliveries EXCEPT ![d] = a]
        /\ credentials' = [credentials EXCEPT ![d] = expiry]
        /\ invocations' = [invocations EXCEPT ![d] = call]
    BY <1>2 DEF BeginDelivery
  <2>2. expiry \in Nat /\ expiry <= apRequest.expires
    BY <1>0, ExpiryWithinDeadline
  <2>3. PICK n \in Nat : n = deliveries[d].attempt + 1
    BY <1>0 DEF DeliveryRows
  <2>30. a \in DeliveryRows /\ a.status = "started" /\ a.attempt = n
    <3>1. deliveries[d] \in DeliveryRows
      BY <1>0
    <3>2. a = [deliveries[d] EXCEPT !.status = "started", !.attempt = n]
      BY <2>3 DEF Started
    <3> QED BY <3>1, <3>2 DEF DeliveryRows, AttemptStates
  <2>4. /\ call \in InvocationRows /\ call.kind = "send" /\ call.answer = "none"
    BY DEF InvocationRows, HostAnswerSet
  <2>5. ApprovalWaits /\ AttemptDue(deliveries[d])
    BY <2>1 DEF CanBeginDelivery
  <2>50. SendOK(a, call, sent[d], hidden[d])
    <3>1. /\ SendOK(deliveries[d], invocations[d], sent[d], hidden[d])
          /\ sent[d] \in Nat /\ hidden[d] \in Nat /\ deliveries[d].attempt \in Nat
          /\ MaxDeliveryAttempts \in Nat \ {0}
      BY <1>0, ApprovalAssumption
         DEF ApprovalInv, ApprovalTypes, SendsAccounted, DeliveryRows
    <3>2. /\ sent[d] <= deliveries[d].attempt /\ sent[d] <= hidden[d]
          /\ n <= MaxDeliveryAttempts
      BY <2>3, <2>5, <3>1 DEF SendOK, Repeatable, AttemptDue, Exhausted
    <3> HIDE DEF a
    <3> QED BY <2>3, <2>30, <3>1, <3>2 DEF SendOK, Repeatable
  <2> HIDE DEF expiry, call, a
  <2>6. ApprovalTypes'
    BY <2>1, <2>2, <2>30, <2>4, <1>0 DEF ApprovalTypes
  <2>7. SendsAccounted'
    BY <2>1, <2>50, <1>0 DEF ApprovalInv, SendsAccounted
  <2>8. BuiltInsHideNothing'
    BY <1>0 DEF ApprovalInv, BuiltInsHideNothing
  <2>9. NothingBeforeRequest' /\ FirstDecisionKept
    BY <2>5, <1>0 DEF NothingBeforeRequest, ApprovalWaits, FirstDecisionKept
  <2>10. CredentialsWithinDeadline'
    BY <2>1, <2>2, <1>0 DEF ApprovalInv, CredentialsWithinDeadline
  <2>11. UnreachableApprovalEnds'
    BY <2>1, <2>30, <1>0 DEF UnreachableApprovalEnds, AllFailed
  <2> QED BY <2>6, <2>7, <2>8, <2>9, <2>10, <2>11 DEF ApprovalInv
<1> QED BY <1>1, <1>2

(* The calls of the host: answers, and the updates of messages. *)
LEMMA HostSteps ==
  ASSUME ApprovalInv,
         UNCHANGED <<apRun, apRequest, deliveries, credentials, apClock>>,
         invocations' \in [Deliveries -> InvocationRows],
         sent' \in [Deliveries -> Nat], hidden' \in [Deliveries -> Nat],
         BuiltInsHideNothing', SendsAccounted'
  PROVE  ApprovalInv' /\ FirstDecisionKept
<1>1. ApprovalTypes'
  BY DEF ApprovalInv, ApprovalTypes
<1>2. /\ NothingBeforeRequest' /\ CredentialsWithinDeadline'
      /\ UnreachableApprovalEnds' /\ FirstDecisionKept
  BY DEF ApprovalInv, NothingBeforeRequest, CredentialsWithinDeadline,
     UnreachableApprovalEnds, AllFailed, ApprovalWaits, ApprovalStatus,
     FirstDecisionKept
<1> QED BY <1>1, <1>2 DEF ApprovalInv

(* An answer counts what the attempt sent, and what it hides. *)
LEMMA AnswerInv ==
  ASSUME ApprovalInv, NEW d \in Deliveries,
         NEW answer \in {"succeeded", "retryable", "permanent", "ambiguous"},
         HostAnswers(d, answer)
  PROVE  ApprovalInv' /\ FirstDecisionKept
<1> DEFINE call == [invocations[d] EXCEPT !.answer = answer]
<1>0. /\ invocations \in [Deliveries -> InvocationRows]
      /\ sent \in [Deliveries -> Nat] /\ hidden \in [Deliveries -> Nat]
      /\ invocations[d].answer = "none"
      /\ SendsAccounted /\ BuiltInsHideNothing
      /\ UNCHANGED <<apRun, apRequest, deliveries, credentials, apClock>>
  BY DEF ApprovalInv, ApprovalTypes, HostAnswers
<1>1. /\ call \in InvocationRows /\ call.kind = invocations[d].kind
      /\ call.answer = answer
  BY <1>0 DEF InvocationRows, HostAnswerSet
<1>2. invocations' = [invocations EXCEPT ![d] = call]
  BY <1>0 DEF HostAnswers
<1>3. PICK n \in Nat, h \in Nat :
        /\ sent' = [sent EXCEPT ![d] = n] /\ hidden' = [hidden EXCEPT ![d] = h]
        /\ \/ n = sent[d] /\ h = hidden[d]
           \/ /\ invocations[d].kind = "send" /\ n = sent[d] + 1
              /\ MayHaveSent(d, answer)
              /\ h = IF answer = "retryable" THEN hidden[d] + 1 ELSE hidden[d]
  <2>1. CASE UNCHANGED <<sent, hidden>>
    <3>1. /\ sent' = [sent EXCEPT ![d] = sent[d]]
          /\ hidden' = [hidden EXCEPT ![d] = hidden[d]]
          /\ sent[d] \in Nat /\ hidden[d] \in Nat
      BY <2>1, <1>0
    <3> QED BY <3>1
  <2>2. CASE /\ invocations[d].kind = "send" /\ MayHaveSent(d, answer)
             /\ sent' = [sent EXCEPT ![d] = @ + 1]
             /\ hidden' = [hidden EXCEPT ![d] =
                            IF answer = "retryable" THEN @ + 1 ELSE @]
    <3> DEFINE m == sent[d] + 1
               k == IF answer = "retryable" THEN hidden[d] + 1 ELSE hidden[d]
    <3>1. m \in Nat /\ k \in Nat
      BY <1>0
    <3>2. sent' = [sent EXCEPT ![d] = m] /\ hidden' = [hidden EXCEPT ![d] = k]
      BY <2>2
    <3> HIDE DEF m, k
    <3> QED BY <3>1, <3>2, <2>2 DEF m, k
  <2> QED BY <2>1, <2>2 DEF HostAnswers
<1>4. SendOK(deliveries[d], call, n, h)
  <2>1. /\ SendOK(deliveries[d], invocations[d], sent[d], hidden[d])
        /\ sent[d] \in Nat /\ hidden[d] \in Nat
        /\ deliveries[d].attempt \in Nat
    BY <1>0 DEF ApprovalInv, ApprovalTypes, SendsAccounted, DeliveryRows
  <2> HIDE DEF call
  <2>2. CASE n = sent[d] /\ h = hidden[d]
    BY <2>1, <2>2, <1>0, <1>1 DEF SendOK
  <2>3. CASE /\ invocations[d].kind = "send" /\ n = sent[d] + 1
             /\ h = IF answer = "retryable" THEN hidden[d] + 1 ELSE hidden[d]
    <3>1. /\ deliveries[d].status = "started" /\ sent[d] <= hidden[d]
          /\ sent[d] < deliveries[d].attempt
          /\ deliveries[d].attempt <= MaxDeliveryAttempts
      BY <2>1, <2>3, <1>0 DEF SendOK
    <3>2. /\ n <= deliveries[d].attempt /\ n <= 1 + h
          /\ answer = "retryable" => n <= h
      BY <3>1, <2>1, <2>3
    <3> QED BY <3>1, <3>2, <1>1 DEF SendOK, Repeatable
  <2> QED BY <2>2, <2>3, <1>3
<1> HIDE DEF call
<1>5. /\ invocations' \in [Deliveries -> InvocationRows]
      /\ sent' \in [Deliveries -> Nat] /\ hidden' \in [Deliveries -> Nat]
  BY <1>0, <1>1, <1>2, <1>3
<1>6. SendsAccounted'
  <2>1. \A e \in Deliveries \ {d} :
          /\ invocations'[e] = invocations[e] /\ sent'[e] = sent[e]
          /\ hidden'[e] = hidden[e]
    BY <1>0, <1>2, <1>3
  <2>2. invocations'[d] = call /\ sent'[d] = n /\ hidden'[d] = h
    BY <1>0, <1>2, <1>3
  <2> QED BY <2>1, <2>2, <1>0, <1>4 DEF SendsAccounted
<1>7. BuiltInsHideNothing'
  <2>1. d \in EditableDeliveries => h = hidden[d]
    BY <1>3 DEF MayHaveSent, CustomDeliveries
  <2> QED BY <2>1, <1>0, <1>3 DEF BuiltInsHideNothing
<1> QED BY <1>0, <1>5, <1>6, <1>7, HostSteps

(* Calls that end, or update a message, send nothing. *)
LEMMA CallsDropped ==
  ASSUME ApprovalInv, NEW calls,
         \A e \in Deliveries : calls[e].kind # "send" \/ calls[e] = invocations[e]
  PROVE  \A e \in Deliveries : SendOK(deliveries[e], calls[e], sent[e], hidden[e])
<1> TAKE e \in Deliveries
<1>1. SendOK(deliveries[e], invocations[e], sent[e], hidden[e])
  BY DEF ApprovalInv, SendsAccounted
<1> QED BY <1>1 DEF SendOK

LEMMA UpdateSteps ==
  ASSUME ApprovalInv, NEW j \in Journeys, NEW d \in Deliveries,
         BeginUpdate(j, d) \/ CompleteUpdate(j, d)
  PROVE  ApprovalInv' /\ FirstDecisionKept
<1>0. /\ invocations \in [Deliveries -> InvocationRows]
      /\ sent \in [Deliveries -> Nat] /\ hidden \in [Deliveries -> Nat]
      /\ UNCHANGED <<apRun, apRequest, deliveries, credentials, sent, hidden,
                     apClock>>
  BY DEF ApprovalInv, ApprovalTypes, BeginUpdate, CompleteUpdate
<1>1. NoInvocation \in InvocationRows /\ NoInvocation.kind = "none"
  BY DEF NoInvocation, InvocationRows, HostAnswerSet
<1> DEFINE call == [kind |-> "update", journey |-> j, answer |-> "none"]
<1>2. call \in InvocationRows /\ call.kind = "update"
  BY DEF InvocationRows, HostAnswerSet
<1>3. \/ UNCHANGED invocations
      \/ invocations' = [invocations EXCEPT ![d] = call]
      \/ invocations' = [invocations EXCEPT ![d] = NoInvocation]
      \/ invocations' = [e \in Deliveries |->
           IF invocations[e].journey = j THEN NoInvocation ELSE invocations[e]]
  BY DEF BeginUpdate, CompleteUpdate
<1> HIDE DEF call
<1>4. PICK calls : calls = invocations'
  OBVIOUS
<1>5. /\ calls \in [Deliveries -> InvocationRows]
      /\ \A e \in Deliveries : calls[e].kind # "send" \/ calls[e] = invocations[e]
  BY <1>0, <1>1, <1>2, <1>3, <1>4
<1>6. SendsAccounted' /\ BuiltInsHideNothing'
  BY <1>0, <1>4, <1>5, CallsDropped
     DEF ApprovalInv, SendsAccounted, BuiltInsHideNothing
<1> QED BY <1>0, <1>4, <1>5, <1>6, HostSteps

LEMMA ResultRows ==
  ASSUME apClock \in Nat, NEW a \in DeliveryRows, NEW answer
  PROVE  /\ AttemptResult(a, answer) \in DeliveryRows
         /\ Repeatable(AttemptResult(a, answer)) => answer = "retryable"
         /\ AttemptResult(a, answer).status \in {"succeeded", "failed"}
         /\ AttemptResult(a, answer).attempt = a.attempt
<1>1. (answer # "retryable" \/ Exhausted(a)) \in BOOLEAN
  OBVIOUS
<1> DEFINE final == answer # "retryable" \/ Exhausted(a)
           x == [a EXCEPT !.status = "failed", !.failedAt = apClock, !.final = final]
           y == [a EXCEPT !.status = "succeeded"]
<1>2. y \in DeliveryRows /\ y.status = "succeeded" /\ y.attempt = a.attempt
  BY DEF DeliveryRows, AttemptStates
<1>3. AttemptResult(a, answer) = IF answer = "succeeded" THEN y ELSE x
  BY DEF AttemptResult
<1>4. ~final => answer = "retryable"
  OBVIOUS
<1> HIDE DEF final
<1>5. /\ x \in DeliveryRows /\ x.status = "failed" /\ x.final = final
      /\ x.attempt = a.attempt
  BY <1>1 DEF DeliveryRows, AttemptStates, final
<1> HIDE DEF x, y
<1> QED BY <1>2, <1>3, <1>4, <1>5 DEF Repeatable

(* An attempt ends: a repeatable failure was answered so, and the last     *)
(* final failure takes the run out of its wait.                            *)
LEMMA CompleteDeliveryInv ==
  ASSUME ApprovalInv, NEW j \in Journeys, NEW d \in Deliveries,
         CompleteDelivery(j, d)
  PROVE  ApprovalInv' /\ FirstDecisionKept
<1> DEFINE a == AttemptResult(deliveries[d], invocations[d].answer)
           ds == [deliveries EXCEPT ![d] = a]
<1>0. /\ ApprovalTypes /\ apRun \in ApprovalRuns /\ apClock \in Nat
      /\ deliveries \in [Deliveries -> DeliveryRows]
      /\ invocations \in [Deliveries -> InvocationRows]
      /\ sent \in [Deliveries -> Nat] /\ hidden \in [Deliveries -> Nat]
      /\ UNCHANGED <<apRequest, credentials, sent, hidden, apClock>>
      /\ invocations[d].kind = "send" /\ deliveries[d].status = "started"
  BY DEF ApprovalInv, ApprovalTypes, ApprovalRuns, CompleteDelivery,
     SendsAccounted, SendOK
<1>1. NoInvocation \in InvocationRows /\ NoInvocation.kind = "none"
  BY DEF NoInvocation, InvocationRows, HostAnswerSet
<1>2. /\ a \in DeliveryRows /\ (Repeatable(a) => invocations[d].answer = "retryable")
      /\ a.status \in {"succeeded", "failed"}
      /\ a.attempt = deliveries[d].attempt
  BY <1>0, ResultRows
<1>3. CASE DeliveryOutcome(ds) /\ invocations' = [invocations EXCEPT ![d] = NoInvocation]
  <2>1. deliveries' = ds
    BY <1>3 DEF DeliveryOutcome
  <2>2. /\ apRun' \in ApprovalRuns
        /\ AllFailed(ds) => apRun'.run.status # "Waiting"
    BY <1>0, <1>3, FailedRunEnds DEF DeliveryOutcome
  <2> HIDE DEF a
  <2>3. ApprovalTypes'
    BY <2>1, <2>2, <1>0, <1>1, <1>2, <1>3 DEF ApprovalTypes, ApprovalRuns
  <2>4. SendsAccounted'
    <3>1. SendOK(deliveries[d], invocations[d], sent[d], hidden[d])
      BY DEF ApprovalInv, SendsAccounted
    <3>2. SendOK(a, NoInvocation, sent[d], hidden[d])
      BY <3>1, <1>0, <1>1, <1>2 DEF SendOK
    <3>3. \A e \in Deliveries \ {d} :
            deliveries'[e] = deliveries[e] /\ invocations'[e] = invocations[e]
      BY <2>1, <1>0, <1>3
    <3>4. deliveries'[d] = a /\ invocations'[d] = NoInvocation
      BY <2>1, <1>0, <1>3
    <3> QED BY <3>2, <3>3, <3>4, <1>0 DEF ApprovalInv, SendsAccounted
  <2>5. BuiltInsHideNothing'
    BY <1>0 DEF ApprovalInv, BuiltInsHideNothing
  <2>6. NothingBeforeRequest'
    <3>1. apRequest.status # "absent"
      BY <1>0 DEF ApprovalInv, NothingBeforeRequest
    <3> QED BY <3>1, <1>0 DEF NothingBeforeRequest
  <2>7. CredentialsWithinDeadline' /\ FirstDecisionKept
    BY <1>0 DEF ApprovalInv, CredentialsWithinDeadline, FirstDecisionKept
  <2>8. UnreachableApprovalEnds'
    BY <2>1, <2>2 DEF UnreachableApprovalEnds, AllFailed, ApprovalWaits,
       ApprovalStatus
  <2> QED BY <2>3, <2>4, <2>5, <2>6, <2>7, <2>8 DEF ApprovalInv
<1>4. CASE /\ UNCHANGED <<apRun, deliveries>>
           /\ invocations' = [e \in Deliveries |->
                IF invocations[e].journey = j THEN NoInvocation ELSE invocations[e]]
  <2>1. PICK calls : calls = invocations'
    OBVIOUS
  <2>2. /\ calls \in [Deliveries -> InvocationRows]
        /\ \A e \in Deliveries : calls[e].kind # "send" \/ calls[e] = invocations[e]
    BY <2>1, <1>0, <1>1, <1>4
  <2>3. SendsAccounted' /\ BuiltInsHideNothing'
    BY <2>1, <2>2, <1>0, <1>4, CallsDropped
       DEF ApprovalInv, SendsAccounted, BuiltInsHideNothing
  <2> QED BY <2>1, <2>2, <2>3, <1>0, <1>4, HostSteps
<1> QED BY <1>3, <1>4 DEF CompleteDelivery

Closed(a) == ~Repeatable(a) /\ a.status \notin {"none", "requested"}

(* Recovery repeats nothing that may have been sent. *)
LEMMA RestartInv ==
  ASSUME ApprovalInv, RestartAndRecover
  PROVE  ApprovalInv' /\ FirstDecisionKept
<1>0. /\ ApprovalTypes /\ apRun \in ApprovalRuns /\ apClock \in Nat
      /\ deliveries \in [Deliveries -> DeliveryRows]
      /\ sent \in [Deliveries -> Nat] /\ hidden \in [Deliveries -> Nat]
      /\ UNCHANGED <<apRequest, credentials, hidden, apClock>>
      /\ invocations' = [d \in Deliveries |-> NoInvocation]
  BY DEF ApprovalInv, ApprovalTypes, ApprovalRuns, RestartAndRecover
<1>1. NoInvocation \in InvocationRows /\ NoInvocation.kind = "none"
  BY DEF NoInvocation, InvocationRows, HostAnswerSet
<1>2. \A d \in Deliveries :
        \/ sent'[d] = sent[d]
        \/ /\ invocations[d].kind = "send" /\ invocations[d].answer = "none"
           /\ sent'[d] = sent[d] + 1
  <2>1. PICK reached \in SUBSET {d \in Deliveries : invocations[d].kind = "send"
                                     /\ invocations[d].answer = "none"} :
          sent' = [d \in Deliveries |->
                     IF d \in reached THEN sent[d] + 1 ELSE sent[d]]
    BY DEF RestartAndRecover
  <2> TAKE d \in Deliveries
  <2>2. CASE d \in reached
    BY <2>1, <2>2
  <2>3. CASE d \notin reached
    BY <2>1, <2>3
  <2> QED BY <2>2, <2>3
<1>3. sent' \in [Deliveries -> Nat]
  <2>1. sent' = [d \in Deliveries |-> sent'[d]]
    BY DEF RestartAndRecover
  <2>2. \A d \in Deliveries : sent'[d] \in Nat
    BY <1>0, <1>2
  <2> QED BY <2>1, <2>2
<1>4. \A d \in Deliveries :
        /\ Interrupted(deliveries[d], TRUE) \in DeliveryRows
        /\ deliveries[d].status # "started" =>
             Interrupted(deliveries[d], TRUE) = deliveries[d]
        /\ deliveries[d].status = "started" => Closed(Interrupted(deliveries[d], TRUE))
        /\ Interrupted(deliveries[d], TRUE).attempt = deliveries[d].attempt
  <2> TAKE d \in Deliveries
  <2> DEFINE x == [deliveries[d] EXCEPT !.status = "failed", !.final = TRUE,
                                        !.failedAt = apClock]
  <2>1. deliveries[d] \in DeliveryRows
    BY <1>0
  <2>2. /\ x \in DeliveryRows /\ x.status = "failed" /\ x.final
        /\ x.attempt = deliveries[d].attempt
    BY <2>1, <1>0 DEF DeliveryRows, AttemptStates
  <2>3. Interrupted(deliveries[d], TRUE) =
          IF deliveries[d].status = "started" THEN x ELSE deliveries[d]
    BY DEF Interrupted
  <2> HIDE DEF x
  <2> QED BY <2>1, <2>2, <2>3 DEF Closed, Repeatable
<1>5. /\ deliveries' \in [Deliveries -> DeliveryRows]
      /\ \A d \in Deliveries :
           /\ deliveries[d].status # "started" => deliveries'[d] = deliveries[d]
           /\ deliveries[d].status = "started" => Closed(deliveries'[d])
           /\ deliveries'[d].attempt = deliveries[d].attempt
  <2>1. CASE UNCHANGED deliveries
    BY <1>0, <2>1 DEF Closed, Repeatable
  <2>2. CASE deliveries' = RecoveredDeliveries
    BY <1>4, <2>2 DEF RecoveredDeliveries
  <2> QED BY <2>1, <2>2 DEF RestartAndRecover
<1>6. /\ apRun' \in ApprovalRuns
      /\ apRun'.run.status = "Waiting" => UNCHANGED apRun
  BY <1>0, FailedRunEnds DEF RestartAndRecover, RecoverWaiting
<1>7. ApprovalTypes'
  BY <1>0, <1>1, <1>3, <1>5, <1>6 DEF ApprovalTypes, ApprovalRuns
<1>8. SendsAccounted'
  <2>1. ASSUME NEW d \in Deliveries
        PROVE  SendOK(deliveries'[d], NoInvocation, sent'[d], hidden[d])
    <3>1. PICK a \in DeliveryRows, n \in Nat : a = deliveries'[d] /\ n = sent'[d]
      BY <1>3, <1>5
    <3>2. /\ SendOK(deliveries[d], invocations[d], sent[d], hidden[d])
          /\ sent[d] \in Nat /\ hidden[d] \in Nat
          /\ deliveries[d].attempt \in Nat
      BY <1>0 DEF ApprovalInv, SendsAccounted, DeliveryRows
    <3>3. /\ deliveries[d].status # "started" => a = deliveries[d]
          /\ deliveries[d].status = "started" => Closed(a)
          /\ a.attempt = deliveries[d].attempt
          /\ \/ n = sent[d]
             \/ /\ invocations[d].kind = "send" /\ invocations[d].answer = "none"
                /\ n = sent[d] + 1
      BY <1>2, <1>5, <3>1
    <3>4. CASE n = sent[d]
      BY <3>1, <3>2, <3>3, <3>4, <1>1 DEF SendOK, Closed
    <3>5. CASE invocations[d].kind = "send" /\ invocations[d].answer = "none"
                 /\ n = sent[d] + 1
      <4>1. /\ deliveries[d].status = "started" /\ sent[d] <= hidden[d]
            /\ sent[d] < deliveries[d].attempt
            /\ deliveries[d].attempt <= MaxDeliveryAttempts
        BY <3>2, <3>5 DEF SendOK
      <4>2. n <= a.attempt /\ n <= 1 + hidden[d]
        BY <3>2, <3>3, <3>5, <4>1
      <4> QED BY <3>1, <3>3, <4>1, <4>2, <1>1 DEF SendOK, Closed
    <3> QED BY <3>1, <3>3, <3>4, <3>5
  <2> QED BY <2>1, <1>0 DEF SendsAccounted
<1>9. BuiltInsHideNothing'
  BY <1>0 DEF ApprovalInv, BuiltInsHideNothing
<1>10. NothingBeforeRequest' /\ CredentialsWithinDeadline' /\ FirstDecisionKept
  BY <1>0, <1>5 DEF ApprovalInv, NothingBeforeRequest, CredentialsWithinDeadline,
     FirstDecisionKept
<1>11. UnreachableApprovalEnds'
  <2> SUFFICES ASSUME AllFailed(deliveries'), ApprovalWaits'
               PROVE  FALSE
    BY DEF UnreachableApprovalEnds, AllFailed
  <2>1. ApprovalStatus = "Waiting" /\ UNCHANGED apRun /\ ApprovalWaits
    BY <1>0, <1>6 DEF ApprovalWaits, ApprovalStatus
  <2>2. ~AllFailed(deliveries)
    BY <2>1 DEF ApprovalInv, UnreachableApprovalEnds
  <2>3. \E d \in Deliveries : deliveries[d].status = "started"
    BY <2>2, <1>5 DEF AllFailed
  <2>4. deliveries' = RecoveredDeliveries /\ RecoverWaiting(RecoveredDeliveries)
    BY <2>1 DEF RestartAndRecover
  <2>5. apRun' = FailedRun(apRun, "deliveries")
    BY <2>3, <2>4 DEF RecoverWaiting
  <2> QED BY <2>5, <1>0, FailedRunEnds DEF ApprovalWaits, ApprovalStatus
<1> QED BY <1>7, <1>8, <1>9, <1>10, <1>11 DEF ApprovalInv

LEMMA ApprovalStep ==
  ASSUME ApprovalInv, [ApprovalsNext]_apVars
  PROVE  ApprovalInv' /\ FirstDecisionKept
<1>1. ASSUME NEW j \in Journeys, JourneyStep(j)
      PROVE  ApprovalInv' /\ FirstDecisionKept
  BY <1>1, QuietSteps, BeginDeliveryInv, CompleteDeliveryInv, UpdateSteps,
     DecisionSteps DEF JourneyStep
<1> QED BY <1>1, RequestInv, DecisionSteps, QuietSteps, AnswerInv, RestartInv
       DEF ApprovalsNext

LEMMA ApprovalInit ==
  ASSUME ApprovalsInit
  PROVE  ApprovalInv
<1>1. PICK expands \in BOOLEAN :
        apRun = [run |-> [EmptyProjection EXCEPT !.status = "Running",
                                                 !.started = TRUE],
                 expands |-> expands, failure |-> "none"]
  BY DEF ApprovalsInit
<1>2. EmptyProjection \in RunProjections
  BY DEF EmptyProjection, RunProjections, RunStatuses
<1>3. [EmptyProjection EXCEPT !.status = "Running", !.started = TRUE]
        \in RunProjections
  BY <1>2 DEF RunProjections, RunStatuses
<1>4. apRun \in ApprovalRuns
  BY <1>1, <1>3 DEF ApprovalRuns
<1>5. /\ NoAttempt \in DeliveryRows /\ NoAttempt.status = "none"
      /\ NoAttempt.attempt = 0
      /\ NoInvocation \in InvocationRows /\ NoInvocation.kind = "none"
  BY DEF NoAttempt, DeliveryRows, AttemptStates, NoInvocation, InvocationRows,
     HostAnswerSet
<1>6. /\ apRequest = [status |-> "absent", resolution |-> "none", expires |-> 0]
      /\ deliveries = [d \in Deliveries |-> NoAttempt]
      /\ credentials = [c \in Deliveries \cup {ApprovalLink} |-> 0]
      /\ invocations = [d \in Deliveries |-> NoInvocation]
      /\ sent = [d \in Deliveries |-> 0] /\ hidden = [d \in Deliveries |-> 0]
      /\ apClock = 0
  BY DEF ApprovalsInit
<1>7. ApprovalTypes
  BY <1>4, <1>5, <1>6 DEF ApprovalTypes, ApprovalRuns
<1>8. /\ SendsAccounted /\ BuiltInsHideNothing /\ NothingBeforeRequest
      /\ CredentialsWithinDeadline
  <2>1. SendOK(NoAttempt, NoInvocation, 0, 0)
    BY <1>5, ApprovalAssumption DEF SendOK
  <2> QED BY <2>1, <1>5, <1>6, ApprovalAssumption DEF SendsAccounted,
             BuiltInsHideNothing, NothingBeforeRequest, CredentialsWithinDeadline
<1>9. UnreachableApprovalEnds
  BY <1>6 DEF UnreachableApprovalEnds, ApprovalWaits
<1> QED BY <1>7, <1>8, <1>9 DEF ApprovalInv

(* The invariant holds in every reachable state of an approval. *)
THEOREM ApprovalInvariance == ApprovalsSpec => []ApprovalInv
<1>1. ApprovalsInit => ApprovalInv
  BY ApprovalInit
<1>2. ApprovalInv /\ [ApprovalsNext]_apVars => ApprovalInv'
  BY ApprovalStep
<1> QED BY <1>1, <1>2, PTL DEF ApprovalsSpec

(* No person is sent an approval message twice, for any number of          *)
(* destinations, journeys, retries and restarts, unless a custom provider  *)
(* sent it and answered retryable (complete_notification_delivery and      *)
(* recovery make ambiguous sends final; next_notification_attempt bounds   *)
(* the repetitions).                                                       *)
THEOREM RepeatsExplained == ApprovalsSpec => []NoUnexplainedRepeat
<1>1. ASSUME ApprovalInv, NEW d \in Deliveries
      PROVE  /\ sent[d] <= 1 + hidden[d] /\ sent[d] <= MaxDeliveryAttempts
             /\ d \in EditableDeliveries => sent[d] <= 1
  <2>1. /\ SendOK(deliveries[d], invocations[d], sent[d], hidden[d])
        /\ sent[d] \in Nat /\ hidden[d] \in Nat /\ deliveries[d].attempt \in Nat
        /\ MaxDeliveryAttempts \in Nat
        /\ d \in EditableDeliveries => hidden[d] = 0
    BY <1>1, ApprovalAssumption DEF ApprovalInv, ApprovalTypes, SendsAccounted,
       BuiltInsHideNothing, DeliveryRows
  <2>2. /\ sent[d] <= 1 + hidden[d] /\ sent[d] <= deliveries[d].attempt
        /\ deliveries[d].attempt <= MaxDeliveryAttempts
    BY <2>1 DEF SendOK
  <2> QED BY <2>1, <2>2
<1>2. ApprovalInv => NoUnexplainedRepeat
  BY <1>1 DEF NoUnexplainedRepeat
<1> QED BY <1>2, ApprovalInvariance, PTL

(* A run never waits for an approval whose every notification has failed   *)
(* (complete_notification_delivery, recover_run).                          *)
THEOREM NoHopelessWait == ApprovalsSpec => []UnreachableApprovalEnds
<1>1. ApprovalInv => UnreachableApprovalEnds
  BY DEF ApprovalInv
<1> QED BY <1>1, ApprovalInvariance, PTL

(* The first decision of an approval is final, and it is a person's        *)
(* exactly when it was made before the deadline (approval_credential_      *)
(* expiry, resolve_human_approval, settle_approval_timeout).               *)
THEOREM FirstDecisionStands == ApprovalsSpec => [][FirstDecisionKept]_apVars
<1>1. ApprovalInv /\ [ApprovalsNext]_apVars => [FirstDecisionKept]_apVars
  BY ApprovalStep
<1> QED BY <1>1, ApprovalInvariance, PTL DEF ApprovalsSpec

(* What settled a suspension stands, for waits and approvals side by side: *)
(* no later signal, timer, vote, timeout or cancellation changes it.       *)
THEOREM SettlementsFinal == WaitsSpec /\ ApprovalsSpec => SettlementsStand
<1>1. UNCHANGED waitVars => WaitOutcomeKept
  BY DEF waitVars, WaitOutcomeKept
<1>2. UNCHANGED apVars => FirstDecisionKept
  BY DEF apVars, FirstDecisionKept
<1>3. [WaitOutcomeKept]_waitVars /\ [FirstDecisionKept]_apVars
        => [WaitOutcomeKept /\ FirstDecisionKept]_<<waitVars, apVars>>
  BY <1>1, <1>2
<1> QED BY <1>3, WaitOutcomesStand, FirstDecisionStands, PTL DEF SettlementsStand

-----------------------------------------------------------------------------
(* Workflow calls.                                                         *)
(*                                                                         *)
(* A child run exists only together with the row of its call, at the depth *)
(* of its lineage; who claims a child moves its row away from admitted, so *)
(* that an admitted child has no executor beyond those over whose head a   *)
(* starting process put its row back; a process that means to write        *)
(* succeeded saw the success; and the root, which nobody calls, never gets *)
(* a row.                                                                  *)

CallRunRows ==
  [status : {"absent", "Queued", "Running", "Waiting"} \cup EndedStatuses,
   step : {"ready", "started", "backoff", "succeeded", "failed"}, attempts : Nat]

CallRowSet ==
  [state : {"none", "admitted", "running", "succeeded", "failed"},
   payload : CallPayloads \cup {"none"}, depth : Nat]

CallerRows ==
  [pc : {"none", "dispatching", "observing", "answered"}, target : CallWorkflows,
   answer : {"none", "result", "started", "failure"}]

CallTypes ==
  /\ callRuns \in [CallRuns -> CallRunRows]
  /\ callRows \in [CallRuns -> CallRowSet]
  /\ callers \in [CallRuns -> CallerRows]
  /\ executors \in [CallRuns -> Nat]
  /\ reconciling \in [CallRuns -> {"none", "admitted", "succeeded", "failed"}]
  /\ reopened \in [CallRuns -> Nat]

Claims(state) == IF state \in {"none", "admitted"} THEN 0 ELSE 1

ExecutorsBounded ==
  /\ callRows[Root].state = "none" /\ executors[Root] <= 1
  /\ \A c \in CallRuns \ {Root} :
       executors[c] <= reopened[c] + Claims(callRows[c].state)

PlansSound ==
  /\ reconciling[Root] = "none"
  /\ \A c \in CallRuns : reconciling[c] = "succeeded" =>
       callRuns[c].status = "Succeeded"

(* The child of a call under way, and of an answered one, is a run. *)
CallersKnowChildren ==
  \A p \in CallRuns :
    callers[p].pc \in {"dispatching", "observing"} \/ callers[p].answer = "result"
      => Child(p, callers[p].target) \in CallRuns

CallInv ==
  /\ CallTypes /\ ExecutorsBounded /\ PlansSound /\ CallersKnowChildren
  /\ NoCallCycle /\ AnswersAreCommitted

(* Lineages: what a run is called by. *)
LEMMA LineageFacts ==
  ASSUME NEW p \in CallRuns
  PROVE  /\ p \in Seq(CallWorkflows) /\ Len(p) \in Nat \ {0}
         /\ DOMAIN p = 1..Len(p) /\ Len(p) <= MaxCallDepth + 2
         /\ IsFiniteSet(Lineage(p))
<1>1. PICK n \in 1..(MaxCallDepth + 2) : p \in [1..n -> CallWorkflows]
  BY DEF CallRuns
<1>2. n \in Nat \ {0} /\ n <= MaxCallDepth + 2
  BY <1>1, CallAssumption
<1>3. p \in Seq(CallWorkflows) /\ Len(p) = n /\ DOMAIN p = 1..n
  <2>1. n \in Nat /\ DOMAIN p = 1..n
    BY <1>1, <1>2
  <2>2. p \in Seq(CallWorkflows)
    BY <1>1, <2>1
  <2> QED BY <2>1, <2>2
<1>4. IsFiniteSet(1..n)
  BY <1>2, FS_Interval
<1>5. p \in Surjection(DOMAIN p, Lineage(p))
  BY <1>1, <1>3 DEF Surjection, Lineage
<1>6. IsFiniteSet(Lineage(p))
  BY <1>3, <1>4, <1>5, FS_Surjection
<1> QED BY <1>2, <1>3, <1>6

LEMMA RootIsRun ==
  /\ Root \in CallRuns /\ Len(Root) = 1
  /\ Cardinality(Lineage(Root)) = 1
<1>1. /\ Root = [i \in 1..1 |-> RootWorkflow] /\ Len(Root) = 1
      /\ Root[1] = RootWorkflow
  BY DEF Root
<1>2. Root \in [1..1 -> CallWorkflows] /\ 1 \in 1..(MaxCallDepth + 2)
  BY <1>1, CallAssumption
<1>3. Root \in CallRuns
  BY <1>1, <1>2 DEF CallRuns
<1>4. Lineage(Root) = {RootWorkflow}
  BY <1>1 DEF Lineage
<1> QED BY <1>1, <1>3, <1>4, FS_Singleton

(* A child that the depth limit and the cycle check let pass. *)
LEMMA ChildFacts ==
  ASSUME NEW p \in CallRuns, NEW t \in CallTargets[WorkflowOfRun(p)],
         Len(p) <= MaxCallDepth
  PROVE  /\ Child(p, t) \in CallRuns /\ Len(Child(p, t)) = Len(p) + 1
         /\ Child(p, t) # Root
         /\ Lineage(Child(p, t)) = Lineage(p) \cup {t}
<1> DEFINE c == Append(p, t)
           n == Len(p)
<1>1. /\ p \in Seq(CallWorkflows) /\ n \in Nat \ {0} /\ DOMAIN p = 1..n
      /\ MaxCallDepth \in Nat
  BY LineageFacts, CallAssumption
<1>2. p[n] \in CallWorkflows /\ t \in CallWorkflows /\ t \in CallTargets[p[n]]
  BY <1>1, CallAssumption DEF WorkflowOfRun
<1>3. /\ c \in [1..(n + 1) -> CallWorkflows] /\ Len(c) = n + 1
      /\ c[n + 1] = t /\ \A i \in 1..n : c[i] = p[i]
  <2>1. c \in Seq(CallWorkflows) /\ Len(c) = n + 1
    BY <1>1, <1>2
  <2>2. c[n + 1] = t
    BY <1>1, <1>2
  <2>3. \A i \in 1..n : c[i] = p[i]
    BY <1>1, <1>2
  <2>4. c \in [1..(n + 1) -> CallWorkflows]
    <3> HIDE DEF c
    <3> QED BY <2>1
  <2> QED BY <2>1, <2>2, <2>3, <2>4
<1>4. /\ p[1] = RootWorkflow
      /\ \A i \in 2..n : p[i] \in CallTargets[p[i - 1]]
  BY DEF CallRuns
<1> HIDE DEF c, n
<1>5. c[1] = RootWorkflow
  BY <1>1, <1>3, <1>4
<1>6. ASSUME NEW i \in 2..Len(c)
      PROVE  c[i] \in CallTargets[c[i - 1]]
  <2>1. CASE i = n + 1
    BY <2>1, <1>1, <1>2, <1>3
  <2>2. CASE i # n + 1
    <3>1. i \in 2..n /\ i \in 1..n /\ i - 1 \in 1..n
      BY <2>2, <1>1, <1>3
    <3> QED BY <3>1, <1>3, <1>4
  <2> QED BY <2>1, <2>2
<1>7. n + 1 \in 1..(MaxCallDepth + 2)
  BY <1>1 DEF n
<1>8. c \in CallRuns
  BY <1>3, <1>5, <1>6, <1>7 DEF CallRuns
<1>9. {c[i] : i \in DOMAIN c} = {p[i] : i \in DOMAIN p} \cup {t}
  <2>1. DOMAIN c = 1..(n + 1) /\ DOMAIN c = DOMAIN p \cup {n + 1}
    BY <1>1, <1>3
  <2>2. \A i \in DOMAIN p : c[i] = p[i]
    BY <1>1, <1>3
  <2> QED BY <2>1, <2>2, <1>3
<1>10. c # Root
  BY <1>1, <1>3, RootIsRun
<1> QED BY <1>3, <1>8, <1>9, <1>10 DEF Child, Lineage, c, n

(* The rows of an invariant state. *)
LEMMA CallRowFacts ==
  ASSUME CallInv, NEW p \in CallRuns
  PROVE  /\ callRuns[p] \in CallRunRows /\ callRows[p] \in CallRowSet
         /\ callers[p] \in CallerRows /\ executors[p] \in Nat
BY DEF CallInv, CallTypes

(* Steps of one run that leave the rows of the calls alone: a run that     *)
(* succeeded stays so, one that is absent stays absent.                    *)
LEMMA RunStep ==
  ASSUME CallInv, NEW p \in CallRuns, NEW run \in CallRunRows,
         callRuns' = [callRuns EXCEPT ![p] = run],
         run.status # "absent" /\ callRuns[p].status # "absent",
         callRuns[p].status # "Succeeded",
         UNCHANGED <<callRows, executors, reconciling, reopened>>,
         callers' \in [CallRuns -> CallerRows],
         \A q \in CallRuns :
           \/ callers'[q] = callers[q]
           \/ callers'[q].answer # "result" /\ callers'[q].pc = "none"
  PROVE  CallInv'
<1>1. CallTypes'
  BY DEF CallInv, CallTypes
<1>2. ExecutorsBounded'
  BY DEF CallInv, ExecutorsBounded
<1>3. CallersKnowChildren'
  BY DEF CallInv, CallersKnowChildren
<1>4. \A c \in CallRuns :
        /\ callRuns'[c].status # "absent" => callRuns[c].status # "absent"
        /\ callRuns[c].status = "Succeeded" => callRuns'[c].status = "Succeeded"
  BY DEF CallInv, CallTypes
<1>5. NoCallCycle' /\ PlansSound'
  BY <1>4 DEF CallInv, NoCallCycle, PlansSound
<1>6. AnswersAreCommitted'
  <2>1. \A q \in CallRuns : callers'[q].answer = "result" =>
          /\ Child(q, callers'[q].target) \in CallRuns
          /\ callRuns[Child(q, callers'[q].target)].status = "Succeeded"
    BY DEF CallInv, CallersKnowChildren, AnswersAreCommitted
  <2>2. \A c \in CallRuns : callRows'[c].state = "succeeded" =>
          callRuns[c].status = "Succeeded"
    BY DEF CallInv, AnswersAreCommitted
  <2> QED BY <2>1, <2>2, <1>4 DEF AnswersAreCommitted
<1> QED BY <1>1, <1>2, <1>3, <1>5, <1>6 DEF CallInv

LEMMA RunSteps ==
  ASSUME CallInv, NEW p \in CallRuns,
         \/ StartCallAttempt(p) \/ EndCallAttempt(p) \/ SuspendChild(p)
         \/ EndCallRun(p) \/ StartChildExecution(p)
  PROVE  CallInv'
<1>0. /\ callRuns[p] \in CallRunRows
      /\ callRuns \in [CallRuns -> CallRunRows]
      /\ callers \in [CallRuns -> CallerRows]
      /\ UNCHANGED <<callRows, executors, reconciling, reopened>>
      /\ callRuns[p].status \in {"Running", "Queued"}
  BY DEF startVars, CallInv, CallTypes, StartCallAttempt, EndCallAttempt, SuspendChild,
     EndCallRun, StartChildExecution, AttemptRunning
<1>1. NoCall \in CallerRows /\ NoCall.answer = "none" /\ NoCall.pc = "none"
  BY CallAssumption DEF NoCall, CallerRows
<1>2. /\ callers' \in [CallRuns -> CallerRows]
      /\ \A q \in CallRuns :
           \/ callers'[q] = callers[q]
           \/ callers'[q].answer # "result" /\ callers'[q].pc = "none"
  <2>1. CASE UNCHANGED callers
    BY <2>1, <1>0
  <2>2. CASE EndCallAttempt(p)
    <3>1. callers' = [callers EXCEPT ![p] =
            IF callRuns'[p].step = "succeeded" THEN @ ELSE NoCall]
      BY <2>2 DEF EndCallAttempt
    <3> QED BY <3>1, <1>0, <1>1
  <2> QED BY <2>1, <2>2 DEF StartCallAttempt, SuspendChild, EndCallRun,
             StartChildExecution
<1>3. PICK run \in CallRunRows :
        callRuns' = [callRuns EXCEPT ![p] = run] /\ run.status # "absent"
  <2>1. CASE StartCallAttempt(p)
    <3> DEFINE run == [callRuns[p] EXCEPT !.step = "started",
                                          !.attempts = callRuns[p].attempts + 1]
    <3>1. run \in CallRunRows /\ run.status = callRuns[p].status
      <4>1. callRuns[p].attempts + 1 \in Nat
        BY <1>0 DEF CallRunRows
      <4> QED BY <4>1, <1>0 DEF CallRunRows
    <3>2. callRuns' = [callRuns EXCEPT ![p] = run]
      BY <2>1 DEF StartCallAttempt
    <3> HIDE DEF run
    <3> QED BY <3>1, <3>2, <1>0
  <2>2. CASE EndCallAttempt(p)
    <3> DEFINE run(s) == [callRuns[p] EXCEPT !.step = s]
    <3>1. \A s \in {"succeeded", "backoff", "failed"} :
            run(s) \in CallRunRows /\ run(s).status = callRuns[p].status
      BY <1>0 DEF CallRunRows
    <3>2. \/ callRuns' = [callRuns EXCEPT ![p] = run("succeeded")]
          \/ callRuns' = [callRuns EXCEPT ![p] = run("backoff")]
          \/ callRuns' = [callRuns EXCEPT ![p] = run("failed")]
      BY <2>2, <1>0 DEF EndCallAttempt, FailedStep
    <3> HIDE DEF run
    <3> QED BY <3>1, <3>2, <1>0
  <2>3. CASE SuspendChild(p) \/ EndCallRun(p) \/ StartChildExecution(p)
    <3> DEFINE run(s) == [callRuns[p] EXCEPT !.status = s]
    <3>1. \A s \in {"Waiting", "Succeeded", "Failed", "Running"} :
            run(s) \in CallRunRows /\ run(s).status = s
      BY <1>0 DEF CallRunRows, EndedStatuses
    <3>2. \E s \in {"Waiting", "Succeeded", "Failed", "Running"} :
            callRuns' = [callRuns EXCEPT ![p] = run(s)]
      BY <2>3, <1>0 DEF SuspendChild, EndCallRun, StartChildExecution
    <3> HIDE DEF run
    <3> QED BY <3>1, <3>2
  <2> QED BY <2>1, <2>2, <2>3
<1> QED BY <1>0, <1>2, <1>3, RunStep

(* Steps that change no run: callers learn of their child, rows follow. *)
LEMMA IndexStep ==
  ASSUME CallInv, UNCHANGED <<callRuns, reconciling, reopened>>, ExecutorsBounded',
         callRows' \in [CallRuns -> CallRowSet],
         callers' \in [CallRuns -> CallerRows],
         executors' \in [CallRuns -> Nat],
         \A c \in CallRuns :
           /\ callRows'[c].depth = callRows[c].depth
           /\ callRows'[c].state = "succeeded" => callRuns[c].status = "Succeeded",
         \A q \in CallRuns :
           \/ callers'[q] = callers[q]
           \/ /\ callers'[q].pc \in {"dispatching", "observing"}
                   \/ callers'[q].answer = "result"
                     => Child(q, callers'[q].target) \in CallRuns
              /\ callers'[q].answer = "result" =>
                   callRuns[Child(q, callers'[q].target)].status = "Succeeded"
  PROVE  CallInv'
<1>1. CallTypes'
  BY DEF CallInv, CallTypes
<1>2. CallersKnowChildren'
  BY DEF CallInv, CallersKnowChildren
<1>3. NoCallCycle'
  BY DEF CallInv, NoCallCycle
<1>4. AnswersAreCommitted' /\ PlansSound'
  BY DEF CallInv, AnswersAreCommitted, PlansSound
<1> QED BY <1>1, <1>2, <1>3, <1>4 DEF CallInv

(* The claim: an admitted child gets an executor, and its row says so. *)
LEMMA ClaimFacts ==
  ASSUME CallInv, NEW c \in CallRuns, ClaimWorkflowCall(c), UNCHANGED reopened
  PROVE  /\ callRows' \in [CallRuns -> CallRowSet]
         /\ executors' \in [CallRuns -> Nat]
         /\ ExecutorsBounded'
         /\ \A d \in CallRuns :
              /\ callRows'[d].depth = callRows[d].depth
              /\ callRows'[d].state = "succeeded" => callRows[d].state = "succeeded"
<1>0. /\ callRows \in [CallRuns -> CallRowSet] /\ executors \in [CallRuns -> Nat]
      /\ reopened \in [CallRuns -> Nat] /\ ExecutorsBounded
  BY DEF CallInv, CallTypes
<1>1. CASE callRows[c].state = "admitted"
  <2> DEFINE row == [callRows[c] EXCEPT !.state = "running"]
  <2>1. /\ row \in CallRowSet /\ row.state = "running"
        /\ row.depth = callRows[c].depth
    <3>1. callRows[c] \in CallRowSet
      BY <1>0
    <3> QED BY <3>1 DEF CallRowSet
  <2>2. callRows' = [callRows EXCEPT ![c] = row]
    BY <1>0, <1>1 DEF ClaimWorkflowCall
  <2>3. c # Root /\ executors[c] <= reopened[c] + Claims("admitted")
    BY <1>0, <1>1 DEF ExecutorsBounded
  <2>4. PICK n \in Nat : n = executors[c] + 1
    BY <1>0
  <2>5. executors' = [executors EXCEPT ![c] = n]
    BY <2>4, <1>1, Zenon DEF ClaimWorkflowCall
  <2> HIDE DEF row
  <2>6. ExecutorsBounded'
    <3>1. n <= reopened[c] + Claims("running")
      BY <2>3, <2>4, <1>0 DEF Claims
    <3> QED BY <3>1, <2>1, <2>2, <2>3, <2>5, <1>0, RootIsRun DEF ExecutorsBounded
  <2> QED BY <2>1, <2>2, <2>5, <2>6, <1>0
<1>2. CASE callRows[c].state # "admitted"
  BY <1>0, <1>2 DEF ClaimWorkflowCall, ExecutorsBounded
<1> QED BY <1>1, <1>2

(* A call that is answered, and one that goes on to observe its child. *)
LEMMA CallerFacts ==
  ASSUME CallInv, NEW p \in CallRuns
  PROVE  /\ \A a \in {"none", "result", "started", "failure"} :
              /\ [callers[p] EXCEPT !.pc = "answered", !.answer = a] \in CallerRows
              /\ [callers[p] EXCEPT !.pc = "answered", !.answer = a].pc = "answered"
              /\ [callers[p] EXCEPT !.pc = "answered", !.answer = a].answer = a
              /\ [callers[p] EXCEPT !.pc = "answered", !.answer = a].target
                   = callers[p].target
         /\ [callers[p] EXCEPT !.pc = "observing"] \in CallerRows
         /\ [callers[p] EXCEPT !.pc = "observing"].answer = callers[p].answer
         /\ [callers[p] EXCEPT !.pc = "observing"].target = callers[p].target
<1>1. callers[p] \in CallerRows
  BY DEF CallInv, CallTypes
<1> QED BY <1>1 DEF CallerRows

LEMMA CallerSteps ==
  ASSUME CallInv, NEW p \in CallRuns,
         \/ DispatchWorkflowCall(p) \/ LoseWakeup(p) \/ ObserveChild(p)
         \/ CallTimesOut(p)
         \/ \E t \in CallTargets[WorkflowOfRun(p)], payload \in PayloadsOf[WorkflowOfRun(p)] :
              RefuseWorkflowCall(p, t, payload)
  PROVE  CallInv'
<1> DEFINE ans(a) == [callers[p] EXCEPT !.pc = "answered", !.answer = a]
           obs == [callers[p] EXCEPT !.pc = "observing"]
           c == Child(p, callers[p].target)
<1>0. /\ callRows \in [CallRuns -> CallRowSet] /\ executors \in [CallRuns -> Nat]
      /\ callers \in [CallRuns -> CallerRows]
      /\ ExecutorsBounded /\ CallersKnowChildren /\ AnswersAreCommitted
      /\ UNCHANGED <<callRuns, reconciling, reopened>>
  BY DEF startVars, CallInv, CallTypes, DispatchWorkflowCall, LoseWakeup, ObserveChild,
     CallTimesOut, RefuseWorkflowCall
<1>1. ASSUME NEW x \in CallerRows, callers' = [callers EXCEPT ![p] = x],
             x.pc \in {"dispatching", "observing"} \/ x.answer = "result"
               => Child(p, x.target) \in CallRuns,
             x.answer = "result" =>
               callRuns[Child(p, x.target)].status = "Succeeded",
             \/ UNCHANGED <<callRows, executors>>
             \/ c \in CallRuns /\ ClaimWorkflowCall(c)
      PROVE  CallInv'
  <2>1. /\ callRows' \in [CallRuns -> CallRowSet]
        /\ executors' \in [CallRuns -> Nat]
        /\ ExecutorsBounded'
        /\ \A d \in CallRuns :
             /\ callRows'[d].depth = callRows[d].depth
             /\ callRows'[d].state = "succeeded" => callRows[d].state = "succeeded"
    <3>1. CASE UNCHANGED <<callRows, executors>>
      BY <3>1, <1>0 DEF ExecutorsBounded
    <3>2. CASE c \in CallRuns /\ ClaimWorkflowCall(c)
      <4> HIDE DEF c
      <4> QED BY <3>2, <1>0, ClaimFacts
    <3> QED BY <3>1, <3>2, <1>1
  <2>2. callers' \in [CallRuns -> CallerRows]
    BY <1>0, <1>1
  <2>3. \A q \in CallRuns :
           \/ callers'[q] = callers[q]
           \/ /\ callers'[q].pc \in {"dispatching", "observing"}
                   \/ callers'[q].answer = "result"
                     => Child(q, callers'[q].target) \in CallRuns
              /\ callers'[q].answer = "result" =>
                   callRuns[Child(q, callers'[q].target)].status = "Succeeded"
    BY <1>0, <1>1
  <2>4. \A d \in CallRuns :
          callRows'[d].state = "succeeded" => callRuns[d].status = "Succeeded"
    <3>1. \A d \in CallRuns :
            callRows[d].state = "succeeded" => callRuns[d].status = "Succeeded"
      BY <1>0 DEF AnswersAreCommitted
    <3> QED BY <2>1, <3>1, Zenon
  <2> QED BY <2>1, <2>2, <2>3, <2>4, <1>0, IndexStep
<1>2. /\ \A a \in {"none", "result", "started", "failure"} :
           /\ ans(a) \in CallerRows /\ ans(a).pc = "answered" /\ ans(a).answer = a
           /\ ans(a).target = callers[p].target
      /\ obs \in CallerRows /\ obs.answer = callers[p].answer
      /\ obs.target = callers[p].target
  BY CallerFacts, Zenon
<1>3. \A a : CallAnswered(p, a) = [callers EXCEPT ![p] = ans(a)]
  BY DEF CallAnswered
<1>4. [callers EXCEPT ![p].pc = "observing"] = [callers EXCEPT ![p] = obs]
  BY <1>0
<1> HIDE DEF ans, obs
<1>5. AfterDispatch(p) \in {[callers EXCEPT ![p] = ans("started")],
                            [callers EXCEPT ![p] = obs]}
  BY <1>3, <1>4 DEF AfterDispatch
<1>6. ASSUME callers[p].pc = "dispatching", callers' = AfterDispatch(p),
             UNCHANGED <<callRows, executors>> \/ ClaimWorkflowCall(c)
      PROVE  CallInv'
  <2>1. c \in CallRuns
    BY <1>0, <1>6 DEF CallersKnowChildren
  <2>2. CASE callers' = [callers EXCEPT ![p] = ans("started")]
    BY <2>1, <2>2, <1>1, <1>2, <1>6
  <2>3. CASE callers' = [callers EXCEPT ![p] = obs]
    <3>1. obs.answer = "result" => callRuns[c].status = "Succeeded"
      BY <1>0, <1>2 DEF AnswersAreCommitted
    <3> QED BY <2>1, <2>3, <3>1, <1>1, <1>2, <1>6
  <2> QED BY <2>2, <2>3, <1>5, <1>6
<1>7. CASE DispatchWorkflowCall(p)
  BY <1>6, <1>7 DEF DispatchWorkflowCall
<1>8. CASE LoseWakeup(p)
  BY <1>6, <1>8 DEF LoseWakeup
<1>9. CASE ObserveChild(p)
  <2>1. /\ c \in CallRuns /\ UNCHANGED <<callRows, executors>>
        /\ \/ callRuns[c].status = "Succeeded" /\ callers' = CallAnswered(p, "result")
           \/ callers' = CallAnswered(p, "failure")
    BY <1>0, <1>9 DEF ObserveChild, CallersKnowChildren
  <2> QED BY <2>1, <1>1, <1>2, <1>3
<1>10. CASE callers' = CallAnswered(p, "failure") /\ UNCHANGED <<callRows, executors>>
  BY <1>1, <1>2, <1>3, <1>10
<1> QED BY <1>7, <1>8, <1>9, <1>10 DEF CallTimesOut, RefuseWorkflowCall

SettledFrom(old, new) ==
  new = old \/ (old = "running" /\ new \in {"succeeded", "failed"})

(* The scanner claims; an executor that returns, or finds the attempt of   *)
(* another in flight, settles the row.                                     *)
LEMMA ExecutorSteps ==
  ASSUME CallInv, NEW c \in CallRuns,
         ScanAdmittedCalls(c) \/ SettleCallState(c) \/ ExecutorStalls(c)
  PROVE  CallInv'
<1>0. /\ callRows \in [CallRuns -> CallRowSet] /\ executors \in [CallRuns -> Nat]
      /\ callers \in [CallRuns -> CallerRows] /\ reopened \in [CallRuns -> Nat]
      /\ ExecutorsBounded /\ AnswersAreCommitted
      /\ UNCHANGED <<callRuns, callers, reconciling, reopened>>
  BY DEF startVars, CallInv, CallTypes, ScanAdmittedCalls, SettleCallState,
     ExecutorStalls
<1>1. CASE ScanAdmittedCalls(c)
  <2>1. ClaimWorkflowCall(c)
    BY <1>1 DEF ScanAdmittedCalls
  <2>2. /\ callRows' \in [CallRuns -> CallRowSet]
        /\ executors' \in [CallRuns -> Nat]
        /\ ExecutorsBounded'
        /\ \A d \in CallRuns :
             /\ callRows'[d].depth = callRows[d].depth
             /\ callRows'[d].state = "succeeded" => callRows[d].state = "succeeded"
    BY <2>1, <1>0, ClaimFacts
  <2> QED BY <2>2, <1>0, IndexStep DEF AnswersAreCommitted
<1>2. ASSUME NEW s, SettledFrom(callRows[c].state, s),
             s = "succeeded" => callRuns[c].status = "Succeeded",
             executors[c] > 0,
             executors' = [executors EXCEPT ![c] = @ - 1],
             callRows' = [callRows EXCEPT ![c].state = s]
      PROVE  CallInv'
  <2> DEFINE row == [callRows[c] EXCEPT !.state = s]
  <2>1. callRows[c] \in CallRowSet
    BY <1>0
  <2>2. row \in CallRowSet /\ row.state = s /\ row.depth = callRows[c].depth
    BY <2>1, <1>2 DEF CallRowSet, SettledFrom
  <2>3. callRows' = [callRows EXCEPT ![c] = row]
    BY <1>0, <1>2
  <2>4. PICK n \in Nat : n = executors[c] - 1
    BY <1>0, <1>2
  <2>5. executors' = [executors EXCEPT ![c] = n]
    BY <2>4, <1>2, Zenon
  <2>6. Claims(s) = Claims(callRows[c].state) /\ Claims(s) \in Nat
    BY <1>2 DEF Claims, SettledFrom
  <2>7. c = Root => s = "none" /\ n <= 1
    BY <1>0, <1>2, <2>4 DEF ExecutorsBounded, SettledFrom
  <2>8. c # Root => n <= reopened[c] + Claims(s)
    <3>1. c # Root => executors[c] <= reopened[c] + Claims(callRows[c].state)
      BY <1>0 DEF ExecutorsBounded
    <3> QED BY <3>1, <2>4, <2>6, <1>0
  <2> HIDE DEF row
  <2>9. ExecutorsBounded'
    BY <2>2, <2>3, <2>5, <2>7, <2>8, <1>0, RootIsRun DEF ExecutorsBounded
  <2>10. /\ callRows' \in [CallRuns -> CallRowSet]
         /\ executors' \in [CallRuns -> Nat]
         /\ \A d \in CallRuns :
              /\ callRows'[d].depth = callRows[d].depth
              /\ callRows'[d].state = "succeeded" => callRuns[d].status = "Succeeded"
    BY <2>2, <2>3, <2>5, <1>0, <1>2 DEF AnswersAreCommitted
  <2> QED BY <2>9, <2>10, <1>0, IndexStep
<1>3. CASE SettleCallState(c)
  <2> DEFINE s == IF callRows[c].state # "running" THEN callRows[c].state
                  ELSE IF callRuns[c].status = "Succeeded" THEN "succeeded"
                  ELSE "failed"
  <2>1. /\ SettledFrom(callRows[c].state, s)
        /\ s = "succeeded" => callRuns[c].status = "Succeeded"
    BY <1>0 DEF AnswersAreCommitted, SettledFrom
  <2>2. /\ executors[c] > 0 /\ executors' = [executors EXCEPT ![c] = @ - 1]
        /\ callRows' = [callRows EXCEPT ![c].state = s]
    BY <1>3 DEF SettleCallState
  <2> HIDE DEF s
  <2> QED BY <2>1, <2>2, <1>2
<1>4. CASE ExecutorStalls(c)
  <2> DEFINE s == IF callRows[c].state = "running" THEN "failed"
                  ELSE callRows[c].state
  <2>1. /\ SettledFrom(callRows[c].state, s)
        /\ s = "succeeded" => callRuns[c].status = "Succeeded"
    BY <1>0 DEF AnswersAreCommitted, SettledFrom
  <2>2. /\ executors[c] > 0 /\ executors' = [executors EXCEPT ![c] = @ - 1]
        /\ callRows' = [callRows EXCEPT ![c].state = s]
    <3>1. executors[c] \in Nat /\ executors[c] > 1
      BY <1>0, <1>4 DEF ExecutorStalls
    <3>2. executors[c] > 0
      BY <3>1
    <3> QED BY <3>2, <1>4 DEF ExecutorStalls
  <2> HIDE DEF s
  <2> QED BY <2>1, <2>2, <1>2
<1> QED BY <1>1, <1>3, <1>4

(* Admission: the depth that was stored with the caller bounds the child's *)
(* lineage, and the cycle check keeps it free of repetitions.              *)
LEMMA CallAdmitInv ==
  ASSUME CallInv, NEW p \in CallRuns, NEW t \in CallTargets[WorkflowOfRun(p)],
         NEW payload \in PayloadsOf[WorkflowOfRun(p)], AdmitWorkflowCall(p, t, payload)
  PROVE  CallInv'
<1> DEFINE c == Child(p, t)
           caller == [NoCall EXCEPT !.pc = "dispatching", !.target = t]
           row == [state |-> "admitted", payload |-> payload, depth |-> CallDepth(p)]
           status == IF t \in PolicyTargets THEN "Queued" ELSE "Running"
           run == [callRuns[c] EXCEPT !.status = status]
<1>0. /\ callRows \in [CallRuns -> CallRowSet] /\ executors \in [CallRuns -> Nat]
      /\ callers \in [CallRuns -> CallerRows]
      /\ callRuns \in [CallRuns -> CallRunRows]
      /\ ExecutorsBounded /\ CallersKnowChildren /\ AnswersAreCommitted /\ NoCallCycle
      /\ PlansSound /\ reopened \in [CallRuns -> Nat]
      /\ reconciling \in [CallRuns -> {"none", "admitted", "succeeded", "failed"}]
      /\ UNCHANGED <<executors, reconciling, reopened>>
  BY DEF startVars, CallInv, CallTypes, AdmitWorkflowCall
<1>1. /\ CallDepth(p) = Len(p) /\ Cardinality(Lineage(p)) = Len(p)
      /\ Len(p) \in Nat \ {0}
  <2>1. callRuns[p].status # "absent" /\ Len(p) \in Nat \ {0}
    BY LineageFacts DEF AdmitWorkflowCall, AttemptRunning
  <2>2. callRows[p].depth = Len(p) - 1 /\ Cardinality(Lineage(p)) = Len(p)
    BY <2>1, <1>0 DEF NoCallCycle
  <2> QED BY <2>1, <2>2 DEF CallDepth
<1>2. Len(p) <= MaxCallDepth /\ t \notin Lineage(p)
  <2>1. ~(CallDepth(p) > MaxCallDepth) /\ t \notin Lineage(p)
    BY DEF AdmitWorkflowCall, AdmissionRefused, WorkflowCallWouldCycle
  <2> QED BY <2>1, <1>1, CallAssumption
<1>3. /\ c \in CallRuns /\ c # Root /\ Len(c) = Len(p) + 1
      /\ Lineage(c) = Lineage(p) \cup {t}
  BY <1>2, ChildFacts
<1>4. Cardinality(Lineage(c)) = Len(c)
  <2>1. IsFiniteSet(Lineage(p))
    BY LineageFacts
  <2>2. Cardinality(Lineage(p) \cup {t}) = Cardinality(Lineage(p)) + 1
    BY <1>2, <2>1, FS_AddElement
  <2> QED BY <1>1, <1>3, <2>2
<1>5. t \in CallWorkflows /\ payload \in CallPayloads
  <2>1. p[Len(p)] \in CallWorkflows
    BY LineageFacts
  <2> QED BY <2>1, CallAssumption DEF WorkflowOfRun
<1>6. /\ caller \in CallerRows /\ caller.answer = "none" /\ caller.target = t
  BY <1>5, CallAssumption DEF NoCall, CallerRows
<1>7. callers' = [callers EXCEPT ![p] = caller]
  BY DEF AdmitWorkflowCall
<1> HIDE DEF caller
<1>8. /\ callers' \in [CallRuns -> CallerRows]
      /\ \A q \in CallRuns :
           \/ callers'[q] = callers[q]
           \/ /\ Child(q, callers'[q].target) \in CallRuns
              /\ callers'[q].answer = "none"
  BY <1>0, <1>3, <1>6, <1>7
<1>9. CASE UNCHANGED <<callRuns, callRows>>
  <2>1. ExecutorsBounded'
    BY <1>0, <1>9 DEF ExecutorsBounded
  <2> QED BY <2>1, <1>0, <1>8, <1>9, IndexStep DEF AnswersAreCommitted
<1>10. CASE /\ callRows[c].state = "none" /\ callRuns[c].status = "absent"
            /\ callRuns' = [callRuns EXCEPT ![c].status = status]
            /\ callRows' = [callRows EXCEPT ![c] = row]
  <2>1. /\ row \in CallRowSet /\ row.state = "admitted" /\ row.depth = Len(p)
    BY <1>1, <1>5 DEF CallRowSet
  <2>2. run \in CallRunRows
    <3>1. callRuns[c] \in CallRunRows
      BY <1>0, <1>3
    <3> QED BY <3>1 DEF CallRunRows
  <2>3. callRuns' = [callRuns EXCEPT ![c] = run]
    BY <1>0, <1>3, <1>10
  <2>4. executors[c] <= reopened[c] + Claims("admitted")
    <3>1. executors[c] <= reopened[c] + Claims("none")
      BY <1>0, <1>3, <1>10 DEF ExecutorsBounded
    <3> QED BY <3>1 DEF Claims
  <2> HIDE DEF row, run, c
  <2>5. CallTypes'
    <3>1. callRuns' \in [CallRuns -> CallRunRows]
      BY <2>2, <2>3, <1>0
    <3>2. callRows' \in [CallRuns -> CallRowSet]
      BY <2>1, <1>0, <1>10
    <3> QED BY <3>1, <3>2, <1>0, <1>8 DEF CallTypes
  <2>6. ExecutorsBounded'
    BY <2>1, <2>4, <1>0, <1>3, <1>10 DEF ExecutorsBounded
  <2>7. CallersKnowChildren'
    BY <1>0, <1>8 DEF CallersKnowChildren
  <2>8. \A d \in CallRuns \ {c} :
          callRuns'[d] = callRuns[d] /\ callRows'[d] = callRows[d]
    BY <2>3, <1>0, <1>3, <1>10
  <2>9. callRows'[c] = row
    BY <1>0, <1>3, <1>10
  <2>10. NoCallCycle'
    <3>1. callRows'[c].depth = Len(c) - 1
      BY <2>1, <2>9, <1>1, <1>3
    <3> QED BY <3>1, <2>8, <1>0, <1>4 DEF NoCallCycle
  <2>11. AnswersAreCommitted'
    <3>1. \A d \in CallRuns : callRuns[d].status = "Succeeded" =>
            callRuns'[d].status = "Succeeded"
      BY <2>8, <1>10
    <3>2. \A q \in CallRuns : callers'[q].answer = "result" =>
            /\ Child(q, callers'[q].target) \in CallRuns
            /\ callRuns[Child(q, callers'[q].target)].status = "Succeeded"
      BY <1>0, <1>8 DEF CallersKnowChildren, AnswersAreCommitted
    <3>3. \A d \in CallRuns : callRows'[d].state = "succeeded" =>
            callRuns[d].status = "Succeeded"
      BY <2>1, <2>8, <2>9, <1>0 DEF AnswersAreCommitted
    <3> QED BY <3>1, <3>2, <3>3 DEF AnswersAreCommitted
  <2>12. PlansSound'
    BY <2>8, <1>0, <1>10 DEF PlansSound
  <2> QED BY <2>5, <2>6, <2>7, <2>10, <2>11, <2>12 DEF CallInv
<1> QED BY <1>9, <1>10 DEF AdmitWorkflowCall

(* Recovery of a run and of a row: a run that succeeded stays so, and a    *)
(* row says succeeded only after its run.                                  *)
LEMMA RecoveredRunFacts ==
  ASSUME NEW run \in CallRunRows
  PROVE  /\ RecoveredRun(run) \in CallRunRows
         /\ RecoveredRun(run).status # "absent" => run.status # "absent"
         /\ run.status = "Succeeded" => RecoveredRun(run).status = "Succeeded"
<1> DEFINE x == [run EXCEPT !.step = "failed", !.status = "Failed"]
<1>1. x \in CallRunRows
  BY DEF CallRunRows, EndedStatuses
<1>2. RecoveredRun(run) = IF run.status = "Running" /\ run.step = "started"
                          THEN x ELSE run
  BY DEF RecoveredRun
<1> HIDE DEF x
<1> QED BY <1>1, <1>2

LEMMA ReconciledRowFacts ==
  ASSUME NEW row \in CallRowSet, NEW run \in CallRunRows
  PROVE  /\ ReconciledRow(row, run) \in CallRowSet
         /\ ReconciledRow(row, run).depth = row.depth
         /\ row.state = "none" => ReconciledRow(row, run) = row
         /\ ReconciledRow(row, run) # row =>
              ReconciledRow(row, run).state \in {"admitted", "succeeded", "failed"}
         /\ ReconciledRow(row, run).state = "succeeded" =>
              row.state = "succeeded" \/ run.status = "Succeeded"
<1> DEFINE s == CASE run.status = "Succeeded" -> "succeeded"
                  [] run.status \in {"Failed", "Waiting"} -> "failed"
                  [] run.status = "Running" /\ row.state = "running" -> "admitted"
                  [] OTHER -> row.state
           x == [row EXCEPT !.state = s]
<1>1. s \in {"succeeded", "failed", "admitted", row.state}
  OBVIOUS
<1>2. s = "succeeded" => row.state = "succeeded" \/ run.status = "Succeeded"
  OBVIOUS
<1>3. ReconciledRow(row, run) =
        IF row.state \notin {"admitted", "running"} THEN row ELSE x
  BY DEF ReconciledRow
<1> HIDE DEF s
<1>4. x \in CallRowSet /\ x.state = s /\ x.depth = row.depth
  BY <1>1 DEF CallRowSet
<1>5. s = row.state => x = row
  BY DEF CallRowSet
<1> HIDE DEF x
<1>6. x # row => x.state \in {"admitted", "succeeded", "failed"}
  BY <1>1, <1>4, <1>5
<1> QED BY <1>2, <1>3, <1>4, <1>6

(* Steps that recover runs: what is left of executors and callers stays as *)
(* it is or ends.                                                          *)
LEMMA RecoveryStep ==
  ASSUME CallInv, UNCHANGED reopened,
         callRuns' \in [CallRuns -> CallRunRows],
         \A c \in CallRuns :
           /\ callRuns'[c].status # "absent" => callRuns[c].status # "absent"
           /\ callRuns[c].status = "Succeeded" => callRuns'[c].status = "Succeeded",
         callRows' \in [CallRuns -> CallRowSet],
         \A c \in CallRuns :
           /\ callRows'[c].depth = callRows[c].depth
           /\ callRows'[c].state = "succeeded" =>
                callRows[c].state = "succeeded" \/ callRuns'[c].status = "Succeeded",
         \A q \in CallRuns : callers'[q] \in {callers[q], NoCall},
         callers' = [q \in CallRuns |-> callers'[q]],
         executors' \in [CallRuns -> Nat], ExecutorsBounded',
         reconciling' \in [CallRuns -> {"none", "admitted", "succeeded", "failed"}],
         PlansSound'
  PROVE  CallInv'
<1>0. /\ callers \in [CallRuns -> CallerRows] /\ reopened \in [CallRuns -> Nat]
      /\ CallersKnowChildren /\ AnswersAreCommitted /\ NoCallCycle
  BY DEF CallInv, CallTypes
<1>1. NoCall \in CallerRows /\ NoCall.answer = "none" /\ NoCall.pc = "none"
  BY CallAssumption DEF NoCall, CallerRows
<1>2. callers' \in [CallRuns -> CallerRows]
  BY <1>0, <1>1
<1>3. CallTypes'
  BY <1>0, <1>2 DEF CallTypes
<1>4. CallersKnowChildren'
  BY <1>0, <1>1 DEF CallersKnowChildren
<1>5. NoCallCycle'
  BY <1>0 DEF NoCallCycle
<1>6. AnswersAreCommitted'
  BY <1>0, <1>1 DEF AnswersAreCommitted, CallersKnowChildren
<1> QED BY <1>3, <1>4, <1>5, <1>6 DEF CallInv

(* A crash takes executors and callers, recovery moves interrupted runs to *)
(* their end and the rows after them.                                      *)
LEMMA CallCrashInv ==
  ASSUME CallInv, CrashAndRecover
  PROVE  CallInv'
<1>0. /\ callRows \in [CallRuns -> CallRowSet]
      /\ callRuns \in [CallRuns -> CallRunRows]
      /\ reopened \in [CallRuns -> Nat] /\ ExecutorsBounded /\ UNCHANGED reopened
  BY DEF CallInv, CallTypes, CrashAndRecover
<1>1. \A c \in CallRuns :
        /\ callRuns'[c] \in CallRunRows
        /\ callRuns'[c].status # "absent" => callRuns[c].status # "absent"
        /\ callRuns[c].status = "Succeeded" => callRuns'[c].status = "Succeeded"
  BY <1>0, RecoveredRunFacts DEF CrashAndRecover
<1>2. \A c \in CallRuns :
        /\ callRows'[c] \in CallRowSet
        /\ callRows'[c].depth = callRows[c].depth
        /\ callRows[c].state = "none" => callRows'[c].state = "none"
        /\ callRows'[c].state = "succeeded" =>
             callRows[c].state = "succeeded" \/ callRuns'[c].status = "Succeeded"
  <2>1. \A c \in CallRuns : callRows'[c] = ReconciledRow(callRows[c], callRuns'[c])
    BY DEF CrashAndRecover
  <2>2. TAKE c \in CallRuns
  <2>3. callRows[c] \in CallRowSet /\ callRuns'[c] \in CallRunRows
    BY <1>0, <1>1
  <2> QED BY <2>1, <2>3, ReconciledRowFacts
<1>3. /\ callers' = [q \in CallRuns |-> callers'[q]]
      /\ \A q \in CallRuns : callers'[q] \in {callers[q], NoCall}
  BY DEF CrashAndRecover
<1>4. /\ executors' \in [CallRuns -> Nat] /\ executors'[Root] \in {0, 1}
      /\ \A c \in CallRuns \ {Root} : executors'[c] = 0
  BY RootIsRun DEF CrashAndRecover
<1>5. /\ callRuns' \in [CallRuns -> CallRunRows]
      /\ callRows' \in [CallRuns -> CallRowSet]
  <2>1. /\ callRuns' = [c \in CallRuns |-> callRuns'[c]]
        /\ callRows' = [c \in CallRuns |-> callRows'[c]]
    BY DEF CrashAndRecover
  <2> QED BY <2>1, <1>1, <1>2
<1>6. ExecutorsBounded'
  BY <1>0, <1>2, <1>4, RootIsRun DEF ExecutorsBounded, Claims
<1>7. /\ reconciling' \in [CallRuns -> {"none", "admitted", "succeeded", "failed"}]
      /\ PlansSound'
  BY RootIsRun DEF CrashAndRecover, PlansSound
<1> QED BY <1>0, <1>1, <1>2, <1>3, <1>4, <1>5, <1>6, <1>7, RecoveryStep

(* A process that starts beside live ones recovers runs, decides what it   *)
(* will write to the rows, and leaves every executor that is alive.        *)
LEMMA StartBesideInv ==
  ASSUME CallInv, NEW R, NEW D, StartBeside(R, D)
  PROVE  CallInv'
<1>0. /\ callRows \in [CallRuns -> CallRowSet]
      /\ callRuns \in [CallRuns -> CallRunRows]
      /\ executors \in [CallRuns -> Nat]
      /\ reopened \in [CallRuns -> Nat] /\ ExecutorsBounded /\ AnswersAreCommitted
      /\ UNCHANGED <<callRows, reopened>>
  BY DEF CallInv, CallTypes, StartBeside
<1>1. \A c \in CallRuns :
        /\ callRuns'[c] \in CallRunRows
        /\ callRuns'[c].status # "absent" => callRuns[c].status # "absent"
        /\ callRuns[c].status = "Succeeded" => callRuns'[c].status = "Succeeded"
  <2>1. TAKE c \in CallRuns
  <2>2. callRuns[c] \in CallRunRows
    BY <1>0
  <2>3. callRuns'[c] \in {callRuns[c], RecoveredRun(callRuns[c])}
    BY DEF StartBeside
  <2> QED BY <2>2, <2>3, RecoveredRunFacts
<1>2. callRuns' \in [CallRuns -> CallRunRows]
  <2>1. callRuns' = [c \in CallRuns |-> callRuns'[c]]
    BY DEF StartBeside
  <2> QED BY <2>1, <1>1
<1>3. /\ callers' = [q \in CallRuns |-> callers'[q]]
      /\ \A q \in CallRuns : callers'[q] \in {callers[q], NoCall}
  BY DEF StartBeside
<1>4. /\ executors' \in [CallRuns -> Nat]
      /\ \A c \in CallRuns : executors'[c] \in {0, executors[c]}
  BY <1>0 DEF StartBeside
<1>5. ExecutorsBounded'
  <2>1. \A c \in CallRuns : Claims(callRows[c].state) \in Nat
    BY DEF Claims
  <2>2. executors'[Root] <= 1
    BY <1>0, <1>4, RootIsRun DEF ExecutorsBounded
  <2>3. \A c \in CallRuns \ {Root} :
          executors'[c] <= reopened[c] + Claims(callRows[c].state)
    <3>1. TAKE c \in CallRuns \ {Root}
    <3>2. /\ executors[c] <= reopened[c] + Claims(callRows[c].state)
          /\ executors'[c] \in {0, executors[c]}
          /\ executors[c] \in Nat /\ reopened[c] \in Nat
          /\ Claims(callRows[c].state) \in Nat
      BY <2>1, <1>0, <1>4 DEF ExecutorsBounded
    <3> QED BY <3>2
  <2> QED BY <2>2, <2>3, <1>0 DEF ExecutorsBounded
<1>6. \A c \in CallRuns :
        /\ reconciling'[c] \in {"none", "admitted", "succeeded", "failed"}
        /\ reconciling'[c] = "succeeded" => callRuns'[c].status = "Succeeded"
        /\ callRows[c].state = "none" => reconciling'[c] = "none"
  <2>1. TAKE c \in CallRuns
  <2>2. callRows[c] \in CallRowSet /\ callRuns'[c] \in CallRunRows
    BY <1>0, <1>1
  <2>3. PICK row \in CallRowSet : row = ReconciledRow(callRows[c], callRuns'[c])
    BY <2>2, ReconciledRowFacts
  <2>4. /\ callRows[c].state = "none" => row = callRows[c]
        /\ row # callRows[c] => row.state \in {"admitted", "succeeded", "failed"}
        /\ row.state = "succeeded" =>
             callRows[c].state = "succeeded" \/ callRuns'[c].status = "Succeeded"
    BY <2>2, <2>3, ReconciledRowFacts
  <2>5. reconciling'[c] = IF row = callRows[c] THEN "none" ELSE row.state
    BY <2>3, <1>0 DEF StartBeside
  <2>6. callRows[c].state = "succeeded" => callRuns'[c].status = "Succeeded"
    BY <1>0, <1>1 DEF AnswersAreCommitted
  <2> QED BY <2>4, <2>5, <2>6
<1>7. /\ reconciling' \in [CallRuns -> {"none", "admitted", "succeeded", "failed"}]
      /\ PlansSound'
  <2>1. reconciling' = [c \in CallRuns |-> reconciling'[c]]
    BY DEF StartBeside
  <2>2. callRows[Root].state = "none"
    BY <1>0 DEF ExecutorsBounded
  <2> QED BY <2>1, <2>2, <1>6, RootIsRun DEF PlansSound
<1> QED BY <1>0, <1>1, <1>2, <1>3, <1>4, <1>5, <1>7, RecoveryStep

(* The row that a starting process writes: a child that is admitted again  *)
(* over the head of its executors is counted as reopened.                  *)
LEMMA ReconcileInv ==
  ASSUME CallInv, NEW c \in CallRuns, ReconcileCall(c)
  PROVE  CallInv'
<1> DEFINE s == reconciling[c]
           row == [callRows[c] EXCEPT !.state = s]
<1>0. /\ callRows \in [CallRuns -> CallRowSet] /\ executors \in [CallRuns -> Nat]
      /\ reconciling \in [CallRuns -> {"none", "admitted", "succeeded", "failed"}]
      /\ callers \in [CallRuns -> CallerRows] /\ reopened \in [CallRuns -> Nat]
      /\ ExecutorsBounded /\ PlansSound
      /\ CallersKnowChildren /\ AnswersAreCommitted /\ NoCallCycle
      /\ UNCHANGED <<callRuns, callers, executors>>
  BY DEF CallInv, CallTypes, ReconcileCall
<1>1. /\ s \in {"admitted", "succeeded", "failed"} /\ c # Root
      /\ s = "succeeded" => callRuns[c].status = "Succeeded"
  BY <1>0 DEF ReconcileCall, PlansSound
<1>2. callRows[c] \in CallRowSet
  BY <1>0
<1>3. /\ reconciling' = [reconciling EXCEPT ![c] = "none"]
      /\ callRows' = [callRows EXCEPT ![c] = row]
  BY <1>0 DEF ReconcileCall
<1>4. PICK n \in Nat :
        /\ n = IF s = "admitted" /\ executors[c] > 0
               THEN reopened[c] + 1 ELSE reopened[c]
        /\ reopened' = [reopened EXCEPT ![c] = n]
  <2> DEFINE m == IF s = "admitted" /\ executors[c] > 0
                  THEN reopened[c] + 1 ELSE reopened[c]
  <2>1. m \in Nat
    BY <1>0
  <2>2. reopened' = [reopened EXCEPT ![c] = m]
    BY DEF ReconcileCall
  <2> HIDE DEF m
  <2> QED BY <2>1, <2>2 DEF m
<1>5. executors[c] <= n + Claims(s)
  <2>1. /\ executors[c] <= reopened[c] + Claims(callRows[c].state)
        /\ executors[c] \in Nat /\ reopened[c] \in Nat
    BY <1>0, <1>1 DEF ExecutorsBounded
  <2>2. Claims(callRows[c].state) \in {0, 1} /\ Claims("admitted") = 0
        /\ (s # "admitted" => Claims(s) = 1)
    BY <1>1 DEF Claims
  <2> HIDE DEF s
  <2> QED BY <2>1, <2>2, <1>4
<1> HIDE DEF s
<1>6. row \in CallRowSet /\ row.state = s /\ row.depth = callRows[c].depth
  BY <1>1, <1>2 DEF CallRowSet
<1> HIDE DEF row
<1>7. CallTypes'
  BY <1>0, <1>3, <1>4, <1>6 DEF CallInv, CallTypes
<1>8. ExecutorsBounded'
  BY <1>0, <1>1, <1>3, <1>4, <1>5, <1>6, RootIsRun DEF ExecutorsBounded
<1>9. PlansSound'
  BY <1>0, <1>1, <1>3, RootIsRun DEF PlansSound
<1>10. CallersKnowChildren'
  BY <1>0 DEF CallersKnowChildren
<1>11. NoCallCycle'
  BY <1>0, <1>3, <1>6 DEF NoCallCycle
<1>12. AnswersAreCommitted'
  BY <1>0, <1>1, <1>3, <1>6 DEF AnswersAreCommitted
<1> QED BY <1>7, <1>8, <1>9, <1>10, <1>11, <1>12 DEF CallInv

LEMMA CallInit ==
  ASSUME CallsInit
  PROVE  CallInv
<1>1. /\ AbsentRun \in CallRunRows /\ AbsentRun.status = "absent"
      /\ [AbsentRun EXCEPT !.status = "Running"] \in CallRunRows
      /\ AbsentCall \in CallRowSet /\ AbsentCall.state = "none"
      /\ AbsentCall.depth = 0
      /\ NoCall \in CallerRows /\ NoCall.answer = "none" /\ NoCall.pc = "none"
  BY CallAssumption DEF AbsentRun, CallRunRows, AbsentCall, CallRowSet, NoCall,
     CallerRows
<1>2. /\ callRuns = [p \in CallRuns |-> IF p = Root
                       THEN [AbsentRun EXCEPT !.status = "Running"] ELSE AbsentRun]
      /\ callRows = [p \in CallRuns |-> AbsentCall]
      /\ callers = [p \in CallRuns |-> NoCall]
      /\ executors = [p \in CallRuns |-> IF p = Root THEN 1 ELSE 0]
      /\ reconciling = [p \in CallRuns |-> "none"]
      /\ reopened = [p \in CallRuns |-> 0]
  BY DEF CallsInit
<1>3. CallTypes
  BY <1>1, <1>2 DEF CallTypes
<1>4. ExecutorsBounded /\ PlansSound /\ CallersKnowChildren
  BY <1>1, <1>2, RootIsRun DEF ExecutorsBounded, Claims, PlansSound,
     CallersKnowChildren
<1>5. NoCallCycle
  <2>1. \A c \in CallRuns : callRuns[c].status # "absent" => c = Root
    BY <1>1, <1>2
  <2>2. callRows[Root].depth = 0 /\ 0 = Len(Root) - 1
    BY <1>1, <1>2, RootIsRun
  <2>3. Cardinality(Lineage(Root)) = Len(Root)
    BY RootIsRun
  <2> QED BY <2>1, <2>2, <2>3 DEF NoCallCycle
<1>6. AnswersAreCommitted
  BY <1>1, <1>2 DEF AnswersAreCommitted
<1> QED BY <1>3, <1>4, <1>5, <1>6 DEF CallInv

(* Whatever calls, retries, lost wake-ups, scans, crashes and processes    *)
(* that start beside live ones interleave, for every set of workflows,     *)
(* targets and depth limit: no workflow is called by itself, a child has   *)
(* one executor more than starting processes reopened its row, and a       *)
(* parent is given only a result that the child committed                  *)
(* (admit_workflow_call, claim_workflow_call_execution,                    *)
(* reconcile_workflow_call_states, observe_existing_child).                *)
THEOREM CallConsistency == CallsSpec => []CallsConsistent
<1>1. CallsInit => CallInv
  BY CallInit
<1>2. CallInv /\ [CallsNext]_callVars => CallInv'
  <2> SUFFICES ASSUME CallInv, [CallsNext]_callVars PROVE CallInv'
    OBVIOUS
  <2>1. CASE UNCHANGED callVars
    BY <2>1 DEF callVars, startVars, CallInv, CallTypes, ExecutorsBounded,
       PlansSound, CallersKnowChildren, NoCallCycle, AnswersAreCommitted
  <2>2. CASE \/ \E T \in ProcessTargets, restarted \in BOOLEAN :
                  ServerStarts(T, restarted)
             \/ LegacyRunStarts
    BY <2>2, StartBesideInv DEF ServerStarts, LegacyRunStarts
  <2> QED BY <2>1, <2>2, RunSteps, CallerSteps, ExecutorSteps, CallAdmitInv,
             CallCrashInv, ReconcileInv DEF CallsNext
<1>3. ASSUME CallInv, NEW c \in CallRuns
      PROVE  executors[c] <= 1 + reopened[c]
  <2>2. /\ executors[c] \in Nat /\ reopened[c] \in Nat
        /\ Claims(callRows[c].state) \in {0, 1}
        /\ c = Root => executors[c] <= 1
        /\ c # Root => executors[c] <= reopened[c] + Claims(callRows[c].state)
    BY <1>3 DEF CallInv, CallTypes, ExecutorsBounded, Claims
  <2> QED BY <2>2
<1>4. CallInv => CallsConsistent
  BY <1>3 DEF CallInv, CallsConsistent, ExecutorsExplained
<1> QED BY <1>1, <1>2, <1>4, PTL DEF CallsSpec

-----------------------------------------------------------------------------
(* The infrastructure policy.                                              *)
(*                                                                         *)
(* The evidence that let a call pass is read before the effect starts and  *)
(* may be gone by then.  The invariant carries the reasons of a decision   *)
(* from its evaluation to its dispatch: under the bundle the run is pinned *)
(* to, which never changes, and with votes that are never withdrawn.       *)

Ballots == UNION {BallotOf[r] : r \in PolicyRuns}

Votes ==
  [review : {b[1] : b \in Ballots}, principal : {b[2] : b \in Ballots}, at : Nat]

AcceptedBundles ==
  {NoBundle} \cup {h.policy : h \in {g \in PolicyHosts : HostAccepted(g)}}

PolicyOverlays == {h.overlay : h \in PolicyHosts}

PolicyCalls ==
  {NoPolicyCall} \cup
  [phase : {"decided"}, op : PolicyOperations, at : Nat,
   overlay : PolicyOverlays \cup {NoBundle},
   outcome : {"allow", "deny", "unsatisfied", "unchecked", "error"}]

PolicyTypes ==
  /\ ipHost \in PolicyHosts /\ HostAccepted(ipHost) /\ ipNow \in Nat
  /\ ipBound \in [PolicyRuns -> AcceptedBundles]
  /\ ipVotes \in [PolicyRuns -> SUBSET Votes]
  /\ ipLease \in [PolicyRuns -> Nat]
  /\ ipCall \in [PolicyRuns -> PolicyCalls]
  /\ ipCalls \in [PolicyRuns -> Nat]
  /\ ipDecisions \in [PolicyRuns -> SUBSET [call : Nat,
                        outcome : {"allow", "deny", "unsatisfied"}]]
  /\ ipEffects \subseteq
       [run : PolicyRuns, call : Nat, op : PolicyOperations, at : Nat,
        overlay : PolicyOverlays \cup {NoBundle}, bundle : AcceptedBundles,
        sent : Nat, lease : Nat]

VotesFinite == \A r \in PolicyRuns : IsFiniteSet(ipVotes[r])

(* What EffectsWereAllowed says of an effect, but for its record. *)
Justified(r, b, op, at, overlay) ==
  LET allows == {rule \in Matching(b, op) : rule.decision = "allow"}
  IN  /\ Matching(b, op) = allows
      /\ overlay # NoBundle => Matching(overlay, op) = {}
      /\ allows = {} => b.defaults[op.effect] = "allow"
      /\ \A rule \in allows : \A q \in rule.requires :
           /\ q.kind = "approval" => VotedFor(q, r, at)
           /\ q.kind = "window" => at \in q.minimum..q.span

(* The lease a call is allowed under lasts as long as its rules require. *)
LeaseJustified(b, op, at, lease) ==
  \A rule \in Matching(b, op) : \A q \in rule.requires :
    rule.decision = "allow" /\ q.kind = "lock" => at + q.span <= lease

CallJustified(r) ==
  ipCall[r].phase = "decided" =>
    /\ ipCall[r].outcome = "unchecked" => ipBound[r] = NoBundle /\ ~Enforced(ipHost)
    /\ ipCall[r].outcome = "allow" =>
         /\ ipBound[r] # NoBundle
         /\ Justified(r, ipBound[r], ipCall[r].op, ipCall[r].at, ipCall[r].overlay)
         /\ LeaseJustified(ipBound[r], ipCall[r].op, ipCall[r].at, ipLease[r])

EffectJustified(e) ==
  e.bundle # NoBundle =>
    /\ ipBound[e.run] = e.bundle
    /\ Decision(e.call, "allow") \in ipDecisions[e.run]
    /\ Justified(e.run, e.bundle, e.op, e.at, e.overlay)
    /\ LeaseJustified(e.bundle, e.op, e.at, e.lease)

PolicyInv ==
  /\ PolicyTypes /\ VotesFinite
  /\ \A r \in PolicyRuns : CallJustified(r)
  /\ \A e \in ipEffects : EffectJustified(e)

(* Votes are only added: what was justified stays so. *)
LEMMA JustifiedStays ==
  ASSUME NEW r \in PolicyRuns, NEW b \in AcceptedBundles,
         NEW op \in PolicyOperations, NEW at \in Nat,
         NEW overlay \in PolicyOverlays \cup {NoBundle},
         ipVotes[r] \subseteq ipVotes'[r], Justified(r, b, op, at, overlay)
  PROVE  Justified(r, b, op, at, overlay)'
<1>1. ASSUME NEW q, VotedFor(q, r, at)
      PROVE  VotedFor(q, r, at)'
  <2>1. PICK votes2 \in SUBSET {d \in ipVotes[r] : d.at <= at /\ at - d.at <= q.span} :
          /\ Cardinality({d.principal : d \in votes2}) >= q.minimum
          /\ q.roles \subseteq {RoleOf[d.principal] : d \in votes2}
          /\ q.bind => Cardinality({d.review : d \in votes2}) = 1
    BY <1>1 DEF VotedFor
  <2>2. votes2 \in SUBSET {d \in ipVotes'[r] : d.at <= at /\ at - d.at <= q.span}
    OBVIOUS
  <2> QED BY <2>1, <2>2 DEF VotedFor
<1> QED BY <1>1 DEF Justified

(* What the runtime accepted as a policy. *)
LEMMA AcceptedFacts ==
  ASSUME NEW b \in AcceptedBundles, b # NoBundle
  PROVE  /\ BundleValid(b)
         /\ \A rule \in b.rules :
              rule.decision \in {"allow", "deny"} /\ \A q \in rule.requires : q.span \in Nat
         /\ \A op \in PolicyOperations : b.defaults[op.effect] \in {"allow", "deny"}
<1>1. PICK h \in PolicyHosts : HostAccepted(h) /\ b = h.policy
  BY DEF AcceptedBundles
<1>2. /\ b.defaults \in [EffectClasses -> {"allow", "deny"}]
      /\ \A rule \in b.rules :
           rule.decision \in {"allow", "deny"} /\ \A q \in rule.requires : q.span \in Nat
  BY <1>1, PolicyAssumption
<1>3. \A op \in PolicyOperations : b.defaults[op.effect] \in {"allow", "deny"}
  BY <1>2, PolicyAssumption
<1> QED BY <1>1, <1>2, <1>3 DEF HostAccepted

(* A lease is only replaced by one that ends later. *)
LEMMA LeaseStays ==
  ASSUME NEW b \in AcceptedBundles, b # NoBundle, NEW op, NEW at \in Nat,
         NEW lease \in Nat, NEW later \in Nat, lease <= later,
         LeaseJustified(b, op, at, lease)
  PROVE  LeaseJustified(b, op, at, later)
<1> SUFFICES ASSUME NEW rule \in Matching(b, op), NEW q \in rule.requires,
                    rule.decision = "allow", q.kind = "lock"
             PROVE  at + q.span <= later
  BY DEF LeaseJustified
<1>1. q.span \in Nat
  BY AcceptedFacts DEF Matching
<1>2. at + q.span <= lease
  BY DEF LeaseJustified
<1> QED BY <1>1, <1>2

(* Runs keep their bundle, their decisions and their votes. *)
LEMMA EffectsStay ==
  ASSUME PolicyInv,
         \A r \in PolicyRuns : /\ ipVotes[r] \subseteq ipVotes'[r]
                               /\ ipDecisions[r] \subseteq ipDecisions'[r]
                               /\ ipBound[r] # NoBundle => ipBound'[r] = ipBound[r]
  PROVE  \A e \in ipEffects : EffectJustified(e)'
<1> SUFFICES ASSUME NEW e \in ipEffects, e.bundle # NoBundle
             PROVE  EffectJustified(e)'
  BY DEF EffectJustified
<1>1. /\ e.run \in PolicyRuns /\ e.op \in PolicyOperations /\ e.at \in Nat
      /\ e.overlay \in PolicyOverlays \cup {NoBundle} /\ e.bundle \in AcceptedBundles
  BY DEF PolicyInv, PolicyTypes
<1>2. EffectJustified(e)
  BY DEF PolicyInv
<1>3. Justified(e.run, e.bundle, e.op, e.at, e.overlay)'
  BY <1>1, <1>2, JustifiedStays DEF EffectJustified
<1> QED BY <1>1, <1>2, <1>3 DEF EffectJustified

LEMMA CallStays ==
  ASSUME PolicyInv, NEW r \in PolicyRuns, ipCall'[r] = ipCall[r],
         ipVotes[r] \subseteq ipVotes'[r], UNCHANGED ipHost,
         ipLease[r] \in Nat, ipLease'[r] \in Nat, ipLease[r] <= ipLease'[r],
         \/ ipBound'[r] = ipBound[r]
         \/ ipBound[r] = NoBundle /\ Enforced(ipHost)
  PROVE  CallJustified(r)'
<1> SUFFICES ASSUME ipCall[r].phase = "decided"
             PROVE  CallJustified(r)'
  BY DEF CallJustified
<1>0. CallJustified(r) /\ ipCall[r] \in PolicyCalls /\ ipBound[r] \in AcceptedBundles
  BY DEF PolicyInv, PolicyTypes
<1>1. CASE ipCall[r].outcome = "unchecked"
  BY <1>0, <1>1 DEF CallJustified, Enforced
<1>2. CASE ipCall[r].outcome = "allow"
  <2>1. PICK call \in PolicyCalls : call = ipCall[r]
    BY <1>0
  <2>2. PICK b \in AcceptedBundles : b = ipBound[r]
    BY <1>0
  <2>3. /\ call.op \in PolicyOperations /\ call.at \in Nat
        /\ call.overlay \in PolicyOverlays \cup {NoBundle}
    BY <2>1 DEF PolicyCalls, NoPolicyCall
  <2>4. /\ b # NoBundle /\ Justified(r, b, call.op, call.at, call.overlay)
        /\ LeaseJustified(b, call.op, call.at, ipLease[r])
    BY <2>1, <2>2, <1>0, <1>2 DEF CallJustified
  <2>7. LeaseJustified(b, call.op, call.at, ipLease'[r])
    BY <2>3, <2>4, LeaseStays
  <2>5. Justified(r, b, call.op, call.at, call.overlay)'
    BY <2>3, <2>4, JustifiedStays
  <2>6. ipBound'[r] = b /\ ipCall'[r] = call
    BY <2>1, <2>2, <2>4
  <2> QED BY <2>4, <2>5, <2>6, <2>7, <2>1, <1>2 DEF CallJustified
<1>3. CASE ipCall[r].outcome \notin {"unchecked", "allow"}
  BY <1>3 DEF CallJustified
<1> QED BY <1>1, <1>2, <1>3

(* The evaluation: votes that count as evidence are votes of the run. *)
LEMMA ApprovalsWereVoted ==
  ASSUME PolicyInv, NEW r \in PolicyRuns, NEW q, q.kind = "approval",
         q.minimum \in 1..20,
         RequirementMet(q, EvidenceSnapshot(r), ipNow)
  PROVE  VotedFor(q, r, ipNow)
<1> DEFINE ev == EvidenceSnapshot(r)
           principals == ApprovalsFor(q, ev, ipNow)
           cast == {d \in ipVotes[r] : /\ d.at <= ipNow /\ ipNow - d.at <= q.span
                                       /\ q.bind => d.review = BoundReview(ev)}
<1>1. /\ Cardinality(principals) >= q.minimum
      /\ q.roles \subseteq {RoleOf[p] : p \in principals}
  BY DEF RequirementMet
<1>2. \A e \in ev : e.kind = "approval" =>
        \E d \in ipVotes[r] : /\ e.review = d.review /\ e.principal = d.principal
                              /\ e.issued = d.at
  BY DEF EvidenceSnapshot, Evidence
<1> HIDE DEF ev
<1>3. \A p \in principals : \E d \in cast : p = d.principal
  <2> TAKE p \in principals
  <2>1. PICK e \in ev : /\ e.kind = "approval" /\ e.issued <= ipNow
                        /\ q.bind => e.review = BoundReview(ev)
                        /\ ipNow - e.issued <= q.span /\ p = e.principal
    BY DEF ApprovalsFor, Counted, EvidenceInScope
  <2>2. PICK d \in ipVotes[r] : /\ e.review = d.review /\ e.principal = d.principal
                                /\ e.issued = d.at
    BY <2>1, <1>2
  <2> QED BY <2>1, <2>2
<1> DEFINE voters == {d.principal : d \in cast}
           reviews == {d.review : d \in cast}
<1>4. IsFiniteSet(cast)
  <2>1. IsFiniteSet(ipVotes[r]) /\ cast \subseteq ipVotes[r]
    BY DEF PolicyInv, VotesFinite
  <2> QED BY <2>1, FS_Subset
<1>5. IsFiniteSet(voters)
  <2> DEFINE f == [d \in cast |-> d.principal]
  <2>1. f \in Surjection(cast, voters)
    BY DEF Surjection
  <2> QED BY <2>1, <1>4, FS_Surjection
<1>6. principals \subseteq voters
  BY <1>3
<1>7. /\ IsFiniteSet(principals) /\ Cardinality(principals) <= Cardinality(voters)
      /\ Cardinality(principals) \in Nat /\ Cardinality(voters) \in Nat
  BY <1>5, <1>6, FS_Subset, FS_CardinalityType
<1>8. Cardinality(voters) >= q.minimum
  <2> HIDE DEF voters, principals
  <2> QED BY <1>1, <1>7
<1>9. q.roles \subseteq {RoleOf[d.principal] : d \in cast}
  BY <1>1, <1>3
<1>10. q.bind => Cardinality(reviews) = 1
  <2> SUFFICES ASSUME q.bind PROVE Cardinality(reviews) = 1
    OBVIOUS
  <2>1. principals # {}
    <3>1. Cardinality({}) = 0
      BY FS_EmptySet
    <3> HIDE DEF principals
    <3> QED BY <3>1, <1>1
  <2>2. reviews = {BoundReview(ev)}
    <3>1. \A d \in cast : d.review = BoundReview(ev)
      OBVIOUS
    <3>2. cast # {}
      BY <2>1, <1>3
    <3> HIDE DEF cast
    <3> QED BY <3>1, <3>2
  <2> QED BY <2>2, FS_Singleton
<1>11. cast \in SUBSET {d \in ipVotes[r] : d.at <= ipNow /\ ipNow - d.at <= q.span}
  OBVIOUS
<1> HIDE DEF cast
<1> QED BY <1>8, <1>9, <1>10, <1>11 DEF VotedFor

(* What an evaluation that ends in allow has seen. *)
LEMMA EvaluateFacts ==
  ASSUME NEW b, NEW op, NEW env, NEW evidence, NEW now
  PROVE  LET matching == Matching(b, op)
             allows == {rule \in matching : rule.decision = "allow"}
         IN  /\ Evaluate(b, op, env, evidence, now) = "allow" =>
                  /\ \A rule \in matching : rule.decision # "deny"
                  /\ allows = {} => b.defaults[op.effect] = "allow"
                  /\ \A rule \in allows : \A q \in rule.requires :
                       RequirementMet(q, evidence, now)
             /\ Evaluate(b, op, env, evidence, now) # "deny" =>
                  \A rule \in matching : rule.decision # "deny"
             /\ Evaluate(b, op, env, evidence, now) \in
                  {"allow", "deny", "unsatisfied", b.defaults[op.effect]}
<1> DEFINE matching == Matching(b, op)
           allows == {rule \in matching : rule.decision = "allow"}
           met == \A rule \in allows : \A q \in rule.requires :
                    RequirementMet(q, evidence, now)
           exhausted == BudgetExhausted(evidence)
           v == IF \E rule \in matching : rule.decision = "deny" THEN "deny"
                ELSE IF allows = {} THEN DefaultFor(b, op.effect)
                ELSE IF met THEN "allow" ELSE "unsatisfied"
<1>1. Evaluate(b, op, env, evidence, now) =
        CASE env # b.env -> "deny"
          [] env = b.env /\ exhausted -> "deny"
          [] OTHER -> v
  BY DEF Evaluate
<1> HIDE DEF v, exhausted
<1>2. Evaluate(b, op, env, evidence, now) \in {"deny", v}
  BY <1>1
<1>3. /\ v = "allow" => /\ \A rule \in matching : rule.decision # "deny"
                        /\ allows = {} => b.defaults[op.effect] = "allow"
                        /\ met
      /\ v # "deny" => \A rule \in matching : rule.decision # "deny"
      /\ v \in {"allow", "deny", "unsatisfied", b.defaults[op.effect]}
  <2>1. CASE \E rule \in matching : rule.decision = "deny"
    BY <2>1 DEF v
  <2>2. CASE ~(\E rule \in matching : rule.decision = "deny")
    <3>1. CASE allows = {}
      BY <2>2, <3>1 DEF v, DefaultFor
    <3>2. CASE allows # {}
      <4> HIDE DEF met
      <4> QED BY <2>2, <3>2 DEF v
    <3> QED BY <3>1, <3>2
  <2> QED BY <2>1, <2>2
<1> QED BY <1>2, <1>3

(* An allowed call has its reasons. *)
LEMMA AllowIsJustified ==
  ASSUME PolicyInv, NEW r \in PolicyRuns, NEW op \in PolicyOperations,
         ipBound[r] # NoBundle,
         Evaluate(ipBound[r], op, ipBound[r].env, EvidenceOfRun(r), ipNow) = "allow",
         OverlayVerdict(ipHost, op, ipBound[r].env) = "neutral"
  PROVE  /\ Justified(r, ipBound[r], op, ipNow, ipHost.overlay)
         /\ LeaseJustified(ipBound[r], op, ipNow, ipLease[r])
<1> DEFINE b == ipBound[r]
           matching == Matching(b, op)
           allows == {rule \in matching : rule.decision = "allow"}
<1>1. /\ b \in AcceptedBundles /\ BundleValid(b)
      /\ \A rule \in b.rules : rule.decision \in {"allow", "deny"}
  <2>1. b \in AcceptedBundles
    BY DEF PolicyInv, PolicyTypes
  <2> HIDE DEF b
  <2> QED BY <2>1, AcceptedFacts DEF b
<1>2. /\ \A rule \in matching : rule.decision # "deny"
      /\ allows = {} => b.defaults[op.effect] = "allow"
      /\ \A rule \in allows : \A q \in rule.requires :
           RequirementMet(q, EvidenceOfRun(r), ipNow)
  BY EvaluateFacts
<1>3. matching = allows
  BY <1>1, <1>2 DEF Matching
<1>4. ASSUME ipHost.overlay # NoBundle
      PROVE  Matching(ipHost.overlay, op) = {}
  <2>1. Evaluate(ipHost.overlay, op, b.env, {}, ipNow) # "deny"
    BY <1>4 DEF OverlayVerdict
  <2>2. \A rule \in Matching(ipHost.overlay, op) : rule.decision # "deny"
    BY <2>1, EvaluateFacts
  <2>3. \A rule \in ipHost.overlay.rules : rule.decision = "deny"
    BY <1>4 DEF PolicyInv, PolicyTypes, HostAccepted, DenyOnly
  <2> QED BY <2>2, <2>3 DEF Matching
<1>5. ASSUME NEW rule \in allows, NEW q \in rule.requires
      PROVE  /\ q.kind = "approval" => VotedFor(q, r, ipNow)
             /\ q.kind = "window" => ipNow \in q.minimum..q.span
             /\ q.kind = "lock" => ipNow + q.span <= ipLease[r]
  <2>1. RequirementMet(q, EvidenceSnapshot(r), ipNow)
    BY <1>2, <1>5 DEF EvidenceOfRun
  <2>2. RequirementValid(q)
    BY <1>1, <1>5 DEF Matching, BundleValid
  <2>3. ASSUME q.kind = "approval"
        PROVE  VotedFor(q, r, ipNow)
    <3>1. q.minimum \in 1..20
      BY <2>2, <2>3 DEF RequirementValid
    <3> QED BY <2>1, <2>3, <3>1, ApprovalsWereVoted
  <2>4. ASSUME q.kind = "window"
        PROVE  ipNow \in q.minimum..q.span
    BY <2>1, <2>4 DEF RequirementMet
  <2>5. ASSUME q.kind = "lock"
        PROVE  ipNow + q.span <= ipLease[r]
    <3>1. PICK e \in EvidenceSnapshot(r) : e.kind = "lock" /\ e.expires >= ipNow + q.span
      BY <2>1, <2>5 DEF RequirementMet
    <3>2. e.expires = ipLease[r]
      BY <3>1 DEF EvidenceSnapshot, Evidence
    <3> QED BY <3>1, <3>2
  <2> QED BY <2>3, <2>4, <2>5
<1>6. Justified(r, b, op, ipNow, ipHost.overlay)
  BY <1>2, <1>3, <1>4, <1>5 DEF Justified
<1>7. LeaseJustified(b, op, ipNow, ipLease[r])
  BY <1>3, <1>5 DEF LeaseJustified
<1> QED BY <1>6, <1>7

(* Steps that make no call and start no effect. *)
LEMMA PolicyQuiet ==
  ASSUME PolicyInv, UNCHANGED <<ipHost, ipCall, ipCalls, ipDecisions, ipEffects>>,
         ipNow' \in Nat, ipBound' \in [PolicyRuns -> AcceptedBundles],
         ipVotes' \in [PolicyRuns -> SUBSET Votes], VotesFinite',
         ipLease' \in [PolicyRuns -> Nat], \A r \in PolicyRuns : ipLease[r] <= ipLease'[r],
         \A r \in PolicyRuns :
           /\ ipVotes[r] \subseteq ipVotes'[r]
           /\ \/ ipBound'[r] = ipBound[r]
              \/ ipBound[r] = NoBundle /\ Enforced(ipHost)
  PROVE  PolicyInv'
<1>1. PolicyTypes'
  BY DEF PolicyInv, PolicyTypes, HostAccepted
<1>2. \A e \in ipEffects : EffectJustified(e)'
  BY EffectsStay
<1>3. ASSUME NEW r \in PolicyRuns
      PROVE  CallJustified(r)'
  <2>1. ipLease[r] \in Nat /\ ipLease'[r] \in Nat /\ ipLease[r] <= ipLease'[r]
    BY DEF PolicyInv, PolicyTypes
  <2> QED BY <2>1, CallStays
<1> QED BY <1>1, <1>2, <1>3 DEF PolicyInv

LEMMA QuietPolicySteps ==
  ASSUME PolicyInv,
         \/ PolicyTick \/ UNCHANGED ipVars
         \/ \E r \in PolicyRuns :
              \/ BindRun(r) \/ TakeLease(r)
              \/ \E v \in ipPins[r] : LoseArtifact(r, v)
              \/ \E b \in BallotOf[r] : VoteOnReview(r, b[1], b[2])
  PROVE  PolicyInv'
<1>0. /\ ipNow \in Nat /\ ipBound \in [PolicyRuns -> AcceptedBundles]
      /\ ipVotes \in [PolicyRuns -> SUBSET Votes] /\ VotesFinite
      /\ ipHost \in PolicyHosts /\ HostAccepted(ipHost)
      /\ ipLease \in [PolicyRuns -> Nat] /\ \A r \in PolicyRuns : ipLease[r] <= ipLease[r]
  BY DEF PolicyInv, PolicyTypes
<1>1. ASSUME ipNow' \in Nat, ipLease' \in [PolicyRuns -> Nat],
             \A r \in PolicyRuns : ipLease[r] <= ipLease'[r],
             UNCHANGED <<ipHost, ipBound, ipVotes, ipCall, ipCalls, ipDecisions,
                         ipEffects>>
      PROVE  PolicyInv'
  BY <1>0, <1>1, PolicyQuiet DEF VotesFinite
<1>2. CASE PolicyTick \/ UNCHANGED ipVars
  BY <1>0, <1>1, <1>2 DEF PolicyTick, ipVars
<1>3. ASSUME NEW r \in PolicyRuns,
             TakeLease(r) \/ \E v \in ipPins[r] : LoseArtifact(r, v)
      PROVE  PolicyInv'
  <2>1. CASE TakeLease(r)
    <3>1. ipLease[r] <= ipNow /\ ipLease' = [ipLease EXCEPT ![r] = ipNow + 2]
      BY <2>1 DEF TakeLease
    <3>2. /\ ipLease' \in [PolicyRuns -> Nat]
          /\ \A s \in PolicyRuns : ipLease[s] <= ipLease'[s]
      BY <1>0, <3>1
    <3> QED BY <1>0, <1>1, <2>1, <3>2 DEF TakeLease
  <2>2. CASE \E v \in ipPins[r] : LoseArtifact(r, v)
    BY <1>0, <1>1, <2>2 DEF LoseArtifact
  <2> QED BY <1>3, <2>1, <2>2
<1>4. ASSUME NEW r \in PolicyRuns, BindRun(r)
      PROVE  PolicyInv'
  <2>1. /\ ipHost.policy \in AcceptedBundles /\ Enforced(ipHost)
        /\ ipBound[r] = NoBundle /\ PinnedBundle(r) = ipHost.policy
    BY <1>0, <1>4 DEF BindRun, AcceptedBundles, Enforced, PinnedBundle
  <2>2. /\ ipBound' = [ipBound EXCEPT ![r] = ipHost.policy]
        /\ UNCHANGED <<ipHost, ipVotes, ipLease, ipCall, ipCalls, ipDecisions, ipEffects, ipNow>>
    BY <2>1, <1>4 DEF BindRun
  <2>3. /\ ipBound' \in [PolicyRuns -> AcceptedBundles] /\ VotesFinite'
        /\ \A s \in PolicyRuns :
             /\ ipVotes[s] \subseteq ipVotes'[s]
             /\ \/ ipBound'[s] = ipBound[s]
                \/ ipBound[s] = NoBundle /\ Enforced(ipHost)
    BY <2>1, <2>2, <1>0 DEF VotesFinite
  <2> QED BY <2>2, <2>3, <1>0, PolicyQuiet
<1>5. ASSUME NEW r \in PolicyRuns, NEW b \in BallotOf[r],
             VoteOnReview(r, b[1], b[2])
      PROVE  PolicyInv'
  <2> DEFINE vote == [review |-> b[1], principal |-> b[2], at |-> ipNow]
  <2>1. vote \in Votes
    BY <1>0 DEF Votes, Ballots
  <2>2. /\ ipVotes' = [ipVotes EXCEPT ![r] = @ \cup {vote}]
        /\ UNCHANGED <<ipHost, ipBound, ipLease, ipCall, ipCalls, ipDecisions, ipEffects, ipNow>>
    BY <1>5 DEF VoteOnReview
  <2> HIDE DEF vote
  <2>3. /\ ipVotes' \in [PolicyRuns -> SUBSET Votes]
        /\ \A s \in PolicyRuns : ipVotes'[s] \in {ipVotes[s], ipVotes[s] \cup {vote}}
    BY <2>1, <2>2, <1>0
  <2>4. VotesFinite'
    <3> SUFFICES ASSUME NEW s \in PolicyRuns PROVE IsFiniteSet(ipVotes'[s])
      BY DEF VotesFinite
    <3>1. IsFiniteSet(ipVotes[s])
      BY <1>0 DEF VotesFinite
    <3>2. IsFiniteSet(ipVotes[s] \cup {vote})
      BY <3>1, FS_AddElement
    <3> QED BY <3>1, <3>2, <2>3
  <2> QED BY <2>2, <2>3, <2>4, <1>0, PolicyQuiet
<1> QED BY <1>2, <1>3, <1>4, <1>5

(* A restart takes the calls under way with it. *)
LEMMA RestartHostInv ==
  ASSUME PolicyInv, NEW h \in PolicyHosts, RestartHost(h)
  PROVE  PolicyInv'
<1>0. /\ UNCHANGED <<ipBound, ipVotes, ipLease, ipCalls, ipDecisions, ipEffects, ipNow>>
      /\ ipHost' = h /\ HostAccepted(h)
      /\ ipCall' = [r \in PolicyRuns |-> NoPolicyCall]
  BY DEF RestartHost
<1>1. /\ NoPolicyCall \in PolicyCalls /\ NoPolicyCall.phase = "idle"
  BY DEF PolicyCalls, NoPolicyCall
<1>2. PolicyTypes'
  BY <1>0, <1>1 DEF PolicyInv, PolicyTypes, HostAccepted
<1>3. VotesFinite' /\ \A e \in ipEffects' : EffectJustified(e)'
  BY <1>0, EffectsStay DEF PolicyInv, VotesFinite
<1>4. \A r \in PolicyRuns : CallJustified(r)'
  BY <1>0, <1>1 DEF CallJustified
<1> QED BY <1>2, <1>3, <1>4 DEF PolicyInv

(* The first half of a call. *)
LEMMA EvaluateInv ==
  ASSUME PolicyInv, NEW r \in PolicyRuns, NEW op \in PolicyOperations,
         EvaluateCall(r, op)
  PROVE  PolicyInv'
<1>0. /\ PolicyTypes /\ VotesFinite
      /\ ipHost \in PolicyHosts /\ HostAccepted(ipHost) /\ ipNow \in Nat
      /\ ipCall \in [PolicyRuns -> PolicyCalls] /\ ipCalls \in [PolicyRuns -> Nat]
      /\ ipDecisions \in [PolicyRuns -> SUBSET [call : Nat,
                            outcome : {"allow", "deny", "unsatisfied"}]]
      /\ ipCall[r] = NoPolicyCall
      /\ UNCHANGED <<ipHost, ipBound, ipVotes, ipLease, ipEffects, ipNow>>
      /\ \A s \in PolicyRuns : ipLease[s] \in Nat /\ ipLease[s] <= ipLease'[s]
  BY DEF PolicyInv, PolicyTypes, EvaluateCall
<1>1. ipCalls' \in [PolicyRuns -> Nat]
  BY <1>0 DEF EvaluateCall
<1>2. /\ ipDecisions' \in [PolicyRuns -> SUBSET [call : Nat,
                             outcome : {"allow", "deny", "unsatisfied"}]]
      /\ \A s \in PolicyRuns : ipDecisions[s] \subseteq ipDecisions'[s]
  <2> DEFINE d == UnsupportedDecision(ipCalls[r] + 1)
  <2>1. d \in [call : Nat, outcome : {"allow", "deny", "unsatisfied"}]
    BY <1>0 DEF UnsupportedDecision, Decision
  <2>2. \/ UNCHANGED ipDecisions
        \/ ipDecisions' = [ipDecisions EXCEPT ![r] = @ \cup {d}]
    BY DEF EvaluateCall
  <2> HIDE DEF d
  <2> QED BY <2>1, <2>2, <1>0
<1>3. \A e \in ipEffects' : EffectJustified(e)'
  BY <1>0, <1>2, EffectsStay
<1>4. VotesFinite'
  BY <1>0 DEF VotesFinite
<1>5. ASSUME NEW call \in PolicyCalls,
             call.phase = "decided" =>
               /\ call.outcome = "unchecked" =>
                    ipBound[r] = NoBundle /\ ~Enforced(ipHost)
               /\ call.outcome = "allow" =>
                    /\ ipBound[r] # NoBundle
                    /\ Justified(r, ipBound[r], call.op, call.at, call.overlay)
                    /\ LeaseJustified(ipBound[r], call.op, call.at, ipLease[r]),
             ipCall' = [ipCall EXCEPT ![r] = call]
      PROVE  PolicyInv'
  <2>1. PolicyTypes'
    BY <1>0, <1>1, <1>2, <1>5 DEF PolicyTypes, HostAccepted
  <2>2. ASSUME NEW s \in PolicyRuns, s # r
        PROVE  CallJustified(s)'
    <3>1. ipCall'[s] = ipCall[s] /\ ipBound'[s] = ipBound[s]
          /\ ipVotes[s] \subseteq ipVotes'[s]
      BY <2>2, <1>0, <1>5
    <3> QED BY <3>1, <1>0, CallStays
  <2>3. CallJustified(r)'
    <3>1. ipCall'[r] = call
      BY <1>0, <1>5
    <3>2. PICK b \in AcceptedBundles : b = ipBound[r] /\ b = ipBound'[r]
      BY <1>0 DEF PolicyTypes
    <3>3. ASSUME call.phase = "decided", call.outcome = "allow"
          PROVE  /\ b # NoBundle /\ Justified(r, b, call.op, call.at, call.overlay)'
                 /\ LeaseJustified(b, call.op, call.at, ipLease'[r])
      <4>1. /\ call.op \in PolicyOperations /\ call.at \in Nat
            /\ call.overlay \in PolicyOverlays \cup {NoBundle}
        BY <3>3 DEF PolicyCalls, NoPolicyCall
      <4>2. /\ b # NoBundle /\ Justified(r, b, call.op, call.at, call.overlay)
            /\ LeaseJustified(b, call.op, call.at, ipLease[r])
        BY <3>2, <3>3, <1>5
      <4>3. ipVotes[r] \subseteq ipVotes'[r] /\ ipLease'[r] = ipLease[r]
        BY <1>0
      <4> QED BY <4>1, <4>2, <4>3, JustifiedStays
    <3>4. call.phase = "decided" /\ call.outcome = "unchecked" =>
            b = NoBundle /\ ~Enforced(ipHost)'
      BY <3>2, <1>0, <1>5 DEF Enforced
    <3> QED BY <3>1, <3>2, <3>3, <3>4 DEF CallJustified
  <2> QED BY <2>1, <2>2, <2>3, <1>3, <1>4 DEF PolicyInv
<1>6. CASE UNCHANGED ipCall
  <2>1. ipCall' = [ipCall EXCEPT ![r] = NoPolicyCall]
    BY <1>0, <1>6
  <2>2. NoPolicyCall \in PolicyCalls /\ NoPolicyCall.phase # "decided"
    BY DEF PolicyCalls, NoPolicyCall
  <2> QED BY <2>1, <2>2, <1>5
<1>7. CASE ipBound[r] = NoBundle /\ ~UNCHANGED ipCall
  <2> DEFINE call == [phase |-> "decided", op |-> op, outcome |-> "unchecked",
                      at |-> ipNow, overlay |-> NoBundle]
  <2>1. ~Enforced(ipHost) /\ ipCall' = [ipCall EXCEPT ![r] = call]
    BY <1>7 DEF EvaluateCall
  <2>2. call \in PolicyCalls /\ call.outcome = "unchecked"
    BY <1>0 DEF PolicyCalls
  <2> HIDE DEF call
  <2> QED BY <2>1, <2>2, <1>5, <1>7
<1>8. CASE ipBound[r] # NoBundle /\ ~UNCHANGED ipCall
  <2> DEFINE base == Evaluate(ipBound[r], op, ipBound[r].env, EvidenceOfRun(r), ipNow)
             verdict == OverlayVerdict(ipHost, op, ipBound[r].env)
             call == [phase |-> "decided", op |-> op, at |-> ipNow,
                      outcome |-> ApplyOverlay(base, verdict),
                      overlay |-> ipHost.overlay]
  <2>1. ipCall' = [ipCall EXCEPT ![r] = call]
    BY <1>8 DEF EvaluateCall
  <2>2. verdict \in {"neutral", "deny", "error"}
    BY DEF OverlayVerdict
  <2>3. base = "allow" /\ verdict = "neutral" =>
          /\ Justified(r, ipBound[r], op, ipNow, ipHost.overlay)
          /\ LeaseJustified(ipBound[r], op, ipNow, ipLease[r])
    BY <1>8, AllowIsJustified
  <2>4. call.outcome = "allow" => base = "allow" /\ verdict = "neutral"
    BY <2>2 DEF ApplyOverlay
  <2>5. /\ call.op = op /\ call.at = ipNow /\ call.overlay = ipHost.overlay
        /\ call.outcome = ApplyOverlay(base, verdict)
    OBVIOUS
  <2>6. base \in {"allow", "deny", "unsatisfied"}
    <3>1. base \in {"allow", "deny", "unsatisfied", ipBound[r].defaults[op.effect]}
      BY EvaluateFacts
    <3>2. ipBound[r] \in AcceptedBundles
      BY <1>0 DEF PolicyTypes
    <3>3. ipBound[r].defaults[op.effect] \in {"allow", "deny"}
      BY <3>2, <1>8, AcceptedFacts
    <3> HIDE DEF base
    <3> QED BY <3>1, <3>3
  <2>7. ApplyOverlay(base, verdict) \in {"allow", "deny", "unsatisfied", "error"}
    <3> HIDE DEF base, verdict
    <3> QED BY <2>2, <2>6 DEF ApplyOverlay
  <2>8. call \in PolicyCalls
    <3> DEFINE o == ApplyOverlay(base, verdict)
    <3> HIDE DEF o
    <3>1. ipHost.overlay \in PolicyOverlays
      BY <1>0 DEF PolicyOverlays
    <3>2. o \in {"allow", "deny", "unsatisfied", "error"}
      BY <2>7 DEF o
    <3>3. call = [phase |-> "decided", op |-> op, at |-> ipNow, outcome |-> o,
                  overlay |-> ipHost.overlay]
      BY DEF o
    <3> HIDE DEF call
    <3> QED BY <3>1, <3>2, <3>3, <1>0 DEF PolicyCalls
  <2>9. call.outcome # "unchecked"
    BY <2>5, <2>7
  <2> HIDE DEF call, base, verdict
  <2> QED BY <2>1, <2>3, <2>4, <2>5, <2>8, <2>9, <1>5, <1>8
<1> QED BY <1>6, <1>7, <1>8

(* The second half of a call, its cancellation, and a script's own fetch. *)
LEMMA DispatchInv ==
  ASSUME PolicyInv, NEW r \in PolicyRuns, DispatchCall(r) \/ CancelCall(r)
  PROVE  PolicyInv'
<1>0. /\ PolicyTypes /\ VotesFinite
      /\ ipCall \in [PolicyRuns -> PolicyCalls] /\ ipCalls \in [PolicyRuns -> Nat]
      /\ ipDecisions \in [PolicyRuns -> SUBSET [call : Nat,
                            outcome : {"allow", "deny", "unsatisfied"}]]
      /\ ipBound \in [PolicyRuns -> AcceptedBundles]
      /\ UNCHANGED <<ipHost, ipBound, ipVotes, ipLease, ipCalls, ipNow>>
      /\ \A s \in PolicyRuns : ipLease[s] \in Nat /\ ipLease[s] <= ipLease'[s]
      /\ ipNow \in Nat
      /\ ipCall[r].phase = "decided" /\ CallJustified(r)
      /\ ipCall' = [ipCall EXCEPT ![r] = NoPolicyCall]
  BY DEF PolicyInv, PolicyTypes, DispatchCall, CancelCall
<1>1. PICK call \in PolicyCalls : call = ipCall[r]
  BY <1>0
<1>2. /\ call.op \in PolicyOperations /\ call.at \in Nat
      /\ call.overlay \in PolicyOverlays \cup {NoBundle}
      /\ call.outcome \in {"allow", "deny", "unsatisfied", "unchecked", "error"}
  BY <1>0, <1>1 DEF PolicyCalls, NoPolicyCall
<1>3. /\ NoPolicyCall \in PolicyCalls /\ NoPolicyCall.phase = "idle"
  BY DEF PolicyCalls, NoPolicyCall
<1>4. /\ ipDecisions' \in [PolicyRuns -> SUBSET [call : Nat,
                             outcome : {"allow", "deny", "unsatisfied"}]]
      /\ \A s \in PolicyRuns : ipDecisions[s] \subseteq ipDecisions'[s]
      /\ DispatchCall(r) /\ call.outcome = "allow" =>
           Decision(ipCalls[r], "allow") \in ipDecisions'[r]
  <2> DEFINE d == Decision(ipCalls[r], call.outcome)
  <2>1. /\ \/ UNCHANGED ipDecisions /\ (call.outcome = "allow" => ~DispatchCall(r))
           \/ /\ call.outcome \notin {"unchecked", "error"}
              /\ ipDecisions' = [ipDecisions EXCEPT ![r] = @ \cup {d}]
    BY <1>1 DEF DispatchCall, CancelCall
  <2>2. call.outcome \notin {"unchecked", "error"} =>
          d \in [call : Nat, outcome : {"allow", "deny", "unsatisfied"}]
    BY <1>0, <1>2 DEF Decision
  <2>3. call.outcome = "allow" => d = Decision(ipCalls[r], "allow")
    OBVIOUS
  <2> HIDE DEF d
  <2> QED BY <2>1, <2>2, <2>3, <1>0
<1>5. \A e \in ipEffects : EffectJustified(e)'
  BY <1>0, <1>4, EffectsStay
<1>6. VotesFinite' /\ \A s \in PolicyRuns : CallJustified(s)'
  <2>1. ASSUME NEW s \in PolicyRuns, s # r PROVE CallJustified(s)'
    <3>1. ipCall'[s] = ipCall[s] /\ ipBound'[s] = ipBound[s]
          /\ ipVotes[s] \subseteq ipVotes'[s]
      BY <2>1, <1>0
    <3> QED BY <3>1, <1>0, CallStays
  <2>2. CallJustified(r)'
    BY <1>0, <1>3 DEF CallJustified
  <2> QED BY <2>1, <2>2, <1>0 DEF VotesFinite
<1>7. CASE UNCHANGED ipEffects
  <2>1. PolicyTypes'
    BY <1>0, <1>3, <1>4, <1>7 DEF PolicyTypes, HostAccepted
  <2> QED BY <2>1, <1>5, <1>6, <1>7 DEF PolicyInv
<1>8. CASE ~UNCHANGED ipEffects
  <2> DEFINE e == [run |-> r, call |-> ipCalls[r], op |-> call.op, at |-> call.at,
                   overlay |-> call.overlay, bundle |-> ipBound[r],
                   sent |-> ipNow, lease |-> ipLease[r]]
  <2>1. /\ DispatchCall(r) /\ call.outcome \in {"allow", "unchecked"}
        /\ ipEffects' = ipEffects \cup {e}
    BY <1>1, <1>8 DEF DispatchCall, CancelCall, MayDispatch
  <2>2. e \in [run : PolicyRuns, call : Nat, op : PolicyOperations, at : Nat,
               overlay : PolicyOverlays \cup {NoBundle}, bundle : AcceptedBundles,
               sent : Nat, lease : Nat]
    BY <1>0, <1>2
  <2>3. PICK f : f = e
    OBVIOUS
  <2>4. EffectJustified(f)'
    <3>1. /\ f.run = r /\ f.call = ipCalls[r] /\ f.op = call.op /\ f.at = call.at
          /\ f.overlay = call.overlay /\ f.bundle = ipBound[r] /\ f.lease = ipLease[r]
      BY <2>3
    <3>2. f.bundle \in AcceptedBundles
      BY <3>1, <1>0
    <3>3. CASE call.outcome = "unchecked"
      BY <3>1, <3>3, <1>0, <1>1 DEF CallJustified, EffectJustified
    <3>4. CASE call.outcome = "allow"
      <4>1. /\ Justified(r, f.bundle, call.op, call.at, call.overlay)
            /\ LeaseJustified(f.bundle, call.op, call.at, f.lease)
        BY <3>1, <3>4, <1>0, <1>1 DEF CallJustified
      <4>2. Justified(r, f.bundle, call.op, call.at, call.overlay)'
        BY <4>1, <3>2, <1>0, <1>2, JustifiedStays
      <4>3. Decision(f.call, "allow") \in ipDecisions'[f.run]
        BY <3>1, <3>4, <2>1, <1>4
      <4>4. ipBound'[f.run] = f.bundle
        BY <3>1, <1>0
      <4> QED BY <4>1, <4>2, <4>3, <4>4, <3>1 DEF EffectJustified
    <3> QED BY <3>3, <3>4, <2>1
  <2>5. PolicyTypes'
    <3> HIDE DEF e
    <3> QED BY <2>1, <2>2, <1>0, <1>3, <1>4 DEF PolicyTypes, HostAccepted
  <2>6. ipEffects' = ipEffects \cup {f}
    BY <2>1, <2>3
  <2> QED BY <2>4, <2>5, <2>6, <1>5, <1>6 DEF PolicyInv
<1> QED BY <1>7, <1>8

LEMMA FetchInv ==
  ASSUME PolicyInv, NEW r \in PolicyRuns, NEW op \in PolicyOperations,
         NativeFetch(r, op)
  PROVE  PolicyInv'
<1>0. /\ PolicyTypes /\ VotesFinite /\ ipNow \in Nat
      /\ ipCalls \in [PolicyRuns -> Nat]
      /\ ipDecisions \in [PolicyRuns -> SUBSET [call : Nat,
                            outcome : {"allow", "deny", "unsatisfied"}]]
      /\ UNCHANGED <<ipHost, ipBound, ipVotes, ipLease, ipCall, ipNow>>
      /\ \A s \in PolicyRuns : ipLease[s] \in Nat /\ ipLease[s] <= ipLease'[s]
  BY DEF PolicyInv, PolicyTypes, NativeFetch
<1>1. ipCalls' \in [PolicyRuns -> Nat] /\ ipCalls[r] + 1 \in Nat
  BY <1>0 DEF NativeFetch
<1>2. /\ ipDecisions' \in [PolicyRuns -> SUBSET [call : Nat,
                             outcome : {"allow", "deny", "unsatisfied"}]]
      /\ \A s \in PolicyRuns : ipDecisions[s] \subseteq ipDecisions'[s]
  <2> DEFINE d == UnsupportedDecision(ipCalls[r] + 1)
  <2>1. d \in [call : Nat, outcome : {"allow", "deny", "unsatisfied"}]
    BY <1>0 DEF UnsupportedDecision, Decision
  <2>2. \/ UNCHANGED ipDecisions
        \/ ipDecisions' = [ipDecisions EXCEPT ![r] = @ \cup {d}]
    BY DEF NativeFetch
  <2> HIDE DEF d
  <2> QED BY <2>1, <2>2, <1>0
<1>3. \A e \in ipEffects : EffectJustified(e)'
  BY <1>0, <1>2, EffectsStay
<1>4. VotesFinite' /\ \A s \in PolicyRuns : CallJustified(s)'
  <2>1. ASSUME NEW s \in PolicyRuns PROVE CallJustified(s)'
    BY <1>0, CallStays
  <2> QED BY <2>1, <1>0 DEF VotesFinite
<1> DEFINE e == [run |-> r, call |-> ipCalls[r] + 1, op |-> op, at |-> ipNow,
                 overlay |-> NoBundle, bundle |-> NoBundle,
                 sent |-> ipNow, lease |-> ipLease[r]]
<1>5. ipEffects' \in {ipEffects, ipEffects \cup {e}}
  BY DEF NativeFetch
<1>6. /\ e \in [run : PolicyRuns, call : Nat, op : PolicyOperations, at : Nat,
                overlay : PolicyOverlays \cup {NoBundle}, bundle : AcceptedBundles,
                sent : Nat, lease : Nat]
      /\ e.bundle = NoBundle
  BY <1>0, <1>1 DEF AcceptedBundles
<1> HIDE DEF e
<1>7. PolicyTypes'
  BY <1>0, <1>1, <1>2, <1>5, <1>6 DEF PolicyTypes, HostAccepted
<1>8. \A f \in ipEffects' : EffectJustified(f)'
  BY <1>3, <1>5, <1>6 DEF EffectJustified
<1> QED BY <1>4, <1>7, <1>8 DEF PolicyInv

LEMMA PolicyInitially ==
  ASSUME PolicyInit
  PROVE  PolicyInv
<1>1. /\ NoPolicyCall \in PolicyCalls /\ NoPolicyCall.phase = "idle"
      /\ NoBundle \in AcceptedBundles
  BY DEF PolicyCalls, NoPolicyCall, AcceptedBundles
<1>2. PolicyTypes
  BY <1>1 DEF PolicyInit, PolicyTypes
<1>3. VotesFinite
  BY FS_EmptySet DEF PolicyInit, VotesFinite
<1>4. /\ \A r \in PolicyRuns : CallJustified(r)
      /\ \A e \in ipEffects : EffectJustified(e)
  BY <1>1 DEF PolicyInit, CallJustified
<1> QED BY <1>2, <1>3, <1>4 DEF PolicyInv

(* Every effect of a run that is pinned to a bundle was allowed by that    *)
(* bundle: for every set of bundles, hosts, reviewers and calls, however   *)
(* restarts with other bundles, votes, lost artifacts and expiring leases  *)
(* fall between the evaluation of a call and its dispatch                  *)
(* (capability/authority.rs, execute).                                     *)
THEOREM EffectsAuthorised == PolicySpec => []EffectsWereAllowed
<1>1. PolicyInit => PolicyInv
  BY PolicyInitially
<1>2. PolicyInv /\ [PolicyNext]_ipVars => PolicyInv'
  <2> SUFFICES ASSUME PolicyInv, [PolicyNext]_ipVars PROVE PolicyInv'
    OBVIOUS
  <2> QED BY QuietPolicySteps, RestartHostInv, EvaluateInv, DispatchInv, FetchInv
             DEF PolicyNext
<1>3. PolicyInv => EffectsWereAllowed
  <2> SUFFICES ASSUME PolicyInv, NEW e \in ipEffects, e.bundle # NoBundle
               PROVE  /\ EffectJustified(e)
                      /\ \A rule \in {x \in Matching(e.bundle, e.op) : x.decision = "allow"} :
                           \A q \in rule.requires :
                             q.kind = "lock" /\ e.sent < e.at + q.span => e.sent < e.lease
    BY DEF EffectJustified, Justified, EffectsWereAllowed
  <2>1. EffectJustified(e) /\ LeaseJustified(e.bundle, e.op, e.at, e.lease)
    BY DEF PolicyInv, EffectJustified
  <2>2. PICK at \in Nat, started \in Nat, lease \in Nat :
          at = e.at /\ started = e.sent /\ lease = e.lease
    BY DEF PolicyInv, PolicyTypes
  <2>3. \A rule \in e.bundle.rules : \A q \in rule.requires : q.span \in Nat
    BY AcceptedFacts DEF PolicyInv, PolicyTypes
  <2>4. ASSUME NEW rule \in Matching(e.bundle, e.op), rule.decision = "allow",
               NEW q \in rule.requires, q.kind = "lock", started < at + q.span
        PROVE  started < lease
    <3>1. at + q.span <= lease
      BY <2>1, <2>2, <2>4 DEF LeaseJustified
    <3>2. q.span \in Nat
      BY <2>3 DEF Matching
    <3> QED BY <2>4, <3>1, <3>2
  <2> QED BY <2>1, <2>2, <2>4
<1> QED BY <1>1, <1>2, <1>3, PTL DEF PolicySpec

=============================================================================
