------------------------ MODULE ApprovalNotifications ------------------------
(***************************************************************************)
(* A basic approval and the notifications that carry it to people.         *)
(* Requesting an approval makes the run wait and requests its deliveries   *)
(* (durable/transactions/approvals.rs).  A provider journey                *)
(* (notification_runtime/journey.rs) starts and settles delivery attempts, *)
(* waits for a decision and then updates the delivered messages.  A        *)
(* decision also arrives over HTTP, the deadline of the request settles    *)
(* it, and a restart closes the attempts that were in flight               *)
(* (durable/recovery.rs).                                                  *)
(***************************************************************************)
EXTENDS Integers, FiniteSets, RunFold

CONSTANTS
  Deliveries,          \* notification deliveries of the approval
  EditableDeliveries,  \* built-in providers: their messages can be updated
  ApprovalLength,      \* deadline of the request, from its creation
  ApprovalOnTimeout,   \* ApprovalTimeoutPolicy: "reject" or "fail"
  ApprovalHooked,      \* whether the workflow has lifecycle hooks
  MaxDeliveryAttempts, \* 3 in next_notification_attempt
  DeliveryRetryDelay,  \* delay before the next attempt
  CredentialLifetime,  \* DEFAULT_APPROVAL_CREDENTIAL_LIFETIME_HOURS
  Journeys,            \* provider journeys that may run at the same time
  MaxApprovalTime,     \* bound on the clock
  MaxApprovalRestarts  \* bound on restarts of the process

ASSUME ApprovalAssumption ==
  /\ IsFiniteSet(Deliveries) /\ Deliveries # {}
  /\ EditableDeliveries \subseteq Deliveries
  /\ ApprovalLength \in Nat \ {0}
  /\ ApprovalOnTimeout \in {"reject", "fail"}
  /\ ApprovalHooked \in BOOLEAN
  /\ MaxDeliveryAttempts \in Nat \ {0} /\ DeliveryRetryDelay \in Nat
  /\ CredentialLifetime \in Nat \ {0}
  /\ MaxApprovalTime \in Nat /\ MaxApprovalRestarts \in Nat

VARIABLES
  apRun,        \* projection of the run, its schema and why it failed
  apRequest,    \* the approval request
  deliveries,   \* notification_deliveries of the projection
  updates,      \* notification_updates of the projection
  credentials,  \* when the last credential of a delivery or the link expires
  invocations,  \* calls of the provider host in flight
  sent,         \* messages that the provider put before a person
  hidden,       \* observer: those of them that it answered as retryable
  journeys,     \* control state of each journey
  apClock,
  apRestarts

apVars == <<apRun, apRequest, deliveries, updates, credentials, invocations,
            sent, hidden, journeys, apClock, apRestarts>>

-----------------------------------------------------------------------------
(* State. *)

AttemptStates == {"none", "requested", "started", "succeeded", "failed"}

NoAttempt == [status |-> "none", attempt |-> 0, final |-> FALSE, failedAt |-> 0]

NoInvocation == [kind |-> "none", journey |-> "none", answer |-> "none"]

(* Deliveries of project-defined providers: their messages stay as sent. *)
CustomDeliveries == Deliveries \ EditableDeliveries

IdleJourney == [pc |-> "off", left |-> {}]

ApprovalLink == "link"

ApprovalsTypeOK ==
  LET attempts == [status : AttemptStates, attempt : 0..MaxDeliveryAttempts,
                   final : BOOLEAN, failedAt : 0..MaxApprovalTime] IN
  /\ apRun.run \in RunProjections
  /\ apRun.expands \in BOOLEAN
  /\ apRun.failure \in {"none", "deliveries", "timeout"}
  /\ apRequest \in
       [status : {"absent", "waiting", "resolved"},
        resolution : {"none", "approved", "rejected", "timed_out", "failed"},
        expires : 0..(MaxApprovalTime + ApprovalLength)]
  /\ deliveries \in [Deliveries -> attempts]
  /\ updates \in [Deliveries -> attempts]
  /\ credentials \in [Deliveries \cup {ApprovalLink} ->
                        0..(MaxApprovalTime + CredentialLifetime)]
  /\ \A d \in Deliveries :
       /\ invocations[d].kind \in {"none", "send", "update"}
       /\ invocations[d].answer \in
            {"none", "succeeded", "retryable", "permanent", "ambiguous"}
  /\ sent \in [Deliveries -> Nat] /\ hidden \in [Deliveries -> Nat]
  /\ \A j \in Journeys :
       /\ journeys[j].pc \in {"off", "starting", "joining", "interacting",
                              "updating", "settling"}
       /\ journeys[j].left \subseteq Deliveries
  /\ apClock \in 0..MaxApprovalTime
  /\ apRestarts \in 0..MaxApprovalRestarts

(* The run reaches its approval; its event schema is either one that       *)
(* expands run_failed to an outcome and its finalization or an older one.  *)
ApprovalsInit ==
  /\ \E expands \in BOOLEAN :
       apRun = [run |-> [EmptyProjection EXCEPT !.status = "Running",
                                                !.started = TRUE],
                expands |-> expands, failure |-> "none"]
  /\ apRequest = [status |-> "absent", resolution |-> "none", expires |-> 0]
  /\ deliveries = [d \in Deliveries |-> NoAttempt]
  /\ updates = [d \in Deliveries |-> NoAttempt]
  /\ credentials = [c \in Deliveries \cup {ApprovalLink} |-> 0]
  /\ invocations = [d \in Deliveries |-> NoInvocation]
  /\ sent = [d \in Deliveries |-> 0] /\ hidden = [d \in Deliveries |-> 0]
  /\ journeys = [j \in Journeys |-> IdleJourney]
  /\ apClock = 0
  /\ apRestarts = 0

-----------------------------------------------------------------------------
(* The request and its credentials. *)

ApprovalStatus == apRun.run.status

ApprovalWaits == ApprovalStatus = "Waiting" /\ apRequest.status = "waiting"

(* approval_credential_expiry: never beyond the deadline of the request. *)
CredentialExpiry(deadline) ==
  IF apClock + CredentialLifetime < deadline
  THEN apClock + CredentialLifetime ELSE deadline

(* A credential is refused at or after the deadline. *)
CanIssue(deadline) == CredentialExpiry(deadline) > apClock

(* approval_requested, the link and the delivery intents in one            *)
(* transaction.                                                            *)
RequestApproval ==
  LET deadline == apClock + ApprovalLength IN
  /\ ApprovalStatus = "Running" /\ apRequest.status = "absent"
  /\ CanIssue(deadline)
  /\ apRun' = [apRun EXCEPT !.run.status = "Waiting"]
  /\ apRequest' = [status |-> "waiting", resolution |-> "none",
                   expires |-> deadline]
  /\ deliveries' = [d \in Deliveries |->
                      [NoAttempt EXCEPT !.status = "requested"]]
  /\ credentials' = [credentials EXCEPT ![ApprovalLink] =
                       CredentialExpiry(deadline)]
  /\ UNCHANGED <<updates, invocations, sent, hidden, journeys, apClock,
                 apRestarts>>

(* reissue_approval_token: the earlier links stay valid. *)
ReissueApprovalToken ==
  /\ ApprovalWaits
  /\ CanIssue(apRequest.expires)
  /\ credentials[ApprovalLink] < CredentialExpiry(apRequest.expires)
  /\ credentials' = [credentials EXCEPT ![ApprovalLink] =
                       CredentialExpiry(apRequest.expires)]
  /\ UNCHANGED <<apRun, apRequest, deliveries, updates, invocations, sent,
                 hidden, journeys, apClock, apRestarts>>

-----------------------------------------------------------------------------
(* Ending the run. *)

(* Older schemas take run_failed to the terminal status at once; newer     *)
(* ones decide the outcome and finalize, in the same transaction when no   *)
(* lifecycle hook has to run.                                              *)
DecideApprovalRun(run, outcome) ==
  LET decided == RunOutcomeDecided(run, outcome) IN
  IF ApprovalHooked THEN decided ELSE RunFinalized(decided)

CanFailRun(cause) ==
  IF apRun.expands THEN CanRunOutcomeDecided(apRun.run, "Failed")
  ELSE ApprovalStatus = (IF cause = "deliveries" THEN "Waiting" ELSE "Running")

FailedRun(r, cause) ==
  [r EXCEPT !.failure = cause,
            !.run = IF r.expands THEN DecideApprovalRun(r.run, "Failed")
                    ELSE [r.run EXCEPT !.status = "Failed",
                                       !.outcome = "Failed"]]

(* Nodes after the approval succeed. *)
CompleteApprovalRun ==
  /\ ApprovalStatus = "Running" /\ apRequest.status = "resolved"
  /\ apRun' = [apRun EXCEPT !.run = DecideApprovalRun(@, "Succeeded")]
  /\ UNCHANGED <<apRequest, deliveries, updates, credentials, invocations,
                 sent, hidden, journeys, apClock, apRestarts>>

FinalizeApprovalRun ==
  /\ CanRunFinalized(apRun.run)
  /\ apRun' = [apRun EXCEPT !.run = RunFinalized(@)]
  /\ UNCHANGED <<apRequest, deliveries, updates, credentials, invocations,
                 sent, hidden, journeys, apClock, apRestarts>>

(* request_run_cancellation and settle_cancelling_run: the basic request   *)
(* stays unresolved.                                                       *)
CancelApprovalRun ==
  /\ apRun.expands
  /\ \/ /\ CanRunCancellationRequested(apRun.run)
        /\ apRun' = [apRun EXCEPT !.run = RunCancellationRequested(@)]
     \/ /\ ApprovalStatus = "Cancelling"
        /\ apRun' = [apRun EXCEPT !.run = DecideApprovalRun(@, "Cancelled")]
  /\ UNCHANGED <<apRequest, deliveries, updates, credentials, invocations,
                 sent, hidden, journeys, apClock, apRestarts>>

-----------------------------------------------------------------------------
(* Delivery attempts of a journey. *)

StartJourney(j) ==
  /\ journeys[j].pc = "off"
  /\ ApprovalWaits
  /\ journeys' = [journeys EXCEPT ![j] =
                    [pc |-> "starting", left |-> Deliveries]]
  /\ UNCHANGED <<apRun, apRequest, deliveries, updates, credentials,
                 invocations, sent, hidden, apClock, apRestarts>>

Exhausted(a) == a.attempt >= MaxDeliveryAttempts

(* next_notification_attempt and next_notification_update_attempt: a first *)
(* attempt, or a retry that is due.                                        *)
AttemptDue(a) ==
  \/ a.status = "requested"
  \/ /\ a.status = "failed" /\ ~a.final
     /\ ~Exhausted(a)
     /\ apClock >= a.failedAt + DeliveryRetryDelay

Started(a) == [a EXCEPT !.status = "started", !.attempt = @ + 1]

(* begin_notification_delivery. *)
CanBeginDelivery(d) ==
  /\ ApprovalWaits
  /\ AttemptDue(deliveries[d])
  /\ CanIssue(apRequest.expires)

(* A destination that is not ready is passed over. *)
BeginDelivery(j, d) ==
  /\ journeys[j].pc = "starting" /\ d \in journeys[j].left
  /\ journeys' = [journeys EXCEPT ![j].left = @ \ {d}]
  /\ \/ /\ CanBeginDelivery(d)
        /\ deliveries' = [deliveries EXCEPT ![d] = Started(@)]
        /\ credentials' = [credentials EXCEPT ![d] =
                             CredentialExpiry(apRequest.expires)]
        /\ invocations' = [invocations EXCEPT ![d] =
             [kind |-> "send", journey |-> j, answer |-> "none"]]
     \/ /\ ~CanBeginDelivery(d)
        /\ UNCHANGED <<deliveries, credentials, invocations>>
  /\ UNCHANGED <<apRun, apRequest, updates, sent, hidden, apClock, apRestarts>>

(* Whether an attempt that is answered so may have put its message before  *)
(* a person.  A built-in transport answers retryable only when the service *)
(* refused the request; the script of a custom provider may have sent      *)
(* before its request failed or the host's deadline ended it, and both are *)
(* answered as retryable.  Any other failure that may hide a message is    *)
(* treated like an ambiguous one.                                          *)
MayHaveSent(d, answer) ==
  \/ answer \in {"succeeded", "ambiguous"}
  \/ answer = "retryable" /\ d \in CustomDeliveries

HostAnswers(d, answer) ==
  /\ invocations[d].kind # "none" /\ invocations[d].answer = "none"
  /\ answer = "ambiguous" => invocations[d].kind = "send"
  /\ invocations' = [invocations EXCEPT ![d].answer = answer]
  /\ \/ /\ invocations[d].kind = "send" /\ MayHaveSent(d, answer)
        /\ sent' = [sent EXCEPT ![d] = @ + 1]
        /\ hidden' = [hidden EXCEPT ![d] =
                        IF answer = "retryable" THEN @ + 1 ELSE @]
     \/ /\ invocations[d].kind = "send" => answer # "succeeded"
        /\ UNCHANGED <<sent, hidden>>
  /\ UNCHANGED <<apRun, apRequest, deliveries, updates, credentials, journeys,
                 apClock, apRestarts>>

(* Fault: an uncertain send counts as retryable. *)
AttemptResultRetriesAll(a, answer) ==
  IF answer = "succeeded" THEN [a EXCEPT !.status = "succeeded"]
  ELSE [a EXCEPT !.status = "failed", !.failedAt = apClock,
          !.final = answer = "permanent" \/ Exhausted(a)]

(* The failure is final unless the answer is retryable and attempts are    *)
(* left; an ambiguous send is never repeated.                              *)
AttemptResult(a, answer) ==
  IF answer = "succeeded" THEN [a EXCEPT !.status = "succeeded"]
  ELSE [a EXCEPT !.status = "failed", !.failedAt = apClock,
          !.final = answer # "retryable" \/ Exhausted(a)]

AllFailed(ds) == \A d \in Deliveries : ds[d].status = "failed" /\ ds[d].final

(* complete_notification_delivery: the last final failure fails the run in *)
(* the same transaction.                                                   *)
DeliveryOutcome(ds) ==
  /\ deliveries' = ds
  /\ IF AllFailed(ds)
     THEN CanFailRun("deliveries") /\ apRun' = FailedRun(apRun, "deliveries")
     ELSE AcceptsEvents(apRun.run) /\ UNCHANGED apRun

CompleteDelivery(j, d) ==
  LET ds == [deliveries EXCEPT ![d] = AttemptResult(@, invocations[d].answer)] IN
  /\ journeys[j].pc = "joining"
  /\ invocations[d].journey = j /\ invocations[d].kind = "send"
  /\ invocations[d].answer # "none"
  /\ \/ /\ DeliveryOutcome(ds)
        /\ invocations' = [invocations EXCEPT ![d] = NoInvocation]
        /\ UNCHANGED journeys
     \/ \* the fold refuses the result: the journey ends, its calls are lost
        /\ ~AcceptsEvents(apRun.run) \/ (AllFailed(ds) /\ ~CanFailRun("deliveries"))
        /\ invocations' = [e \in Deliveries |->
             IF invocations[e].journey = j THEN NoInvocation ELSE invocations[e]]
        /\ journeys' = [journeys EXCEPT ![j] = IdleJourney]
        /\ UNCHANGED <<apRun, deliveries>>
  /\ UNCHANGED <<apRequest, updates, credentials, sent, hidden, apClock,
                 apRestarts>>

JoinDeliveries(j) ==
  /\ journeys[j].pc = "starting" /\ journeys[j].left = {}
  /\ journeys' = [journeys EXCEPT ![j].pc = "joining"]
  /\ UNCHANGED <<apRun, apRequest, deliveries, updates, credentials,
                 invocations, sent, hidden, apClock, apRestarts>>

Settled(a) == a.status = "succeeded" \/ (a.status = "failed" /\ a.final)

(* delivery_retry_wait and update_retry_wait: something will be retried. *)
RetryPending(as) ==
  \E d \in Deliveries : as[d].status = "failed" /\ ~as[d].final

(* A failed run ends the journey; retries send it round again; otherwise   *)
(* it needs one delivered message to wait for a decision.                  *)
AfterDeliveries(j) ==
  LET settled == \A d \in Deliveries : Settled(deliveries[d])
      usable == \E d \in Deliveries : deliveries[d].status = "succeeded" IN
  /\ journeys[j].pc = "joining"
  /\ \A d \in Deliveries : invocations[d].journey # j
  /\ journeys' = [journeys EXCEPT ![j] =
       IF ApprovalStatus = "Failed" THEN IdleJourney
       ELSE IF ~settled /\ RetryPending(deliveries)
       THEN [pc |-> "starting", left |-> Deliveries]
       ELSE IF usable THEN [pc |-> "interacting", left |-> {}]
       ELSE IdleJourney]
  /\ UNCHANGED <<apRun, apRequest, deliveries, updates, credentials,
                 invocations, sent, hidden, apClock, apRestarts>>

-----------------------------------------------------------------------------
(* Decisions. *)

(* Every delivered message that can be edited is to be updated. *)
UpdatesRequested ==
  [d \in Deliveries |->
     IF d \in EditableDeliveries /\ deliveries[d].status = "succeeded"
     THEN [NoAttempt EXCEPT !.status = "requested"] ELSE updates[d]]

ResolveApproval(resolution) ==
  /\ apRequest' = [apRequest EXCEPT !.status = "resolved",
                                    !.resolution = resolution]
  /\ updates' = UpdatesRequested
  /\ UNCHANGED <<deliveries, credentials, invocations, sent, hidden, apClock,
                 apRestarts>>

(* Fault: a decision is accepted until its credential expires, whatever    *)
(* has been decided before.                                                *)
MayDecideAgain(c) ==
  apClock < credentials[c] /\ ApprovalStatus \in {"Waiting", "Running"}

(* A valid credential and a request that still waits; a repeated or a      *)
(* contradicting decision changes nothing.                                 *)
MayDecide(c) == ApprovalWaits /\ apClock < credentials[c]

(* resolve_human_approval. *)
HumanDecision(decision) ==
  /\ MayDecide(ApprovalLink)
  /\ apClock < apRequest.expires
  /\ apRun' = [apRun EXCEPT !.run.status = "Running"]
  /\ ResolveApproval(decision)
  /\ UNCHANGED journeys

(* resolve_notification_approval_from_provider inside the journey. *)
ProviderInteraction(j, d, decision) ==
  /\ journeys[j].pc = "interacting"
  /\ deliveries[d].status = "succeeded"
  /\ MayDecide(d)
  /\ apRun' = [apRun EXCEPT !.run.status = "Running"]
  /\ ResolveApproval(decision)
  /\ journeys' = [journeys EXCEPT ![j] =
                    [pc |-> "updating", left |-> Deliveries]]

(* The journey sees a decision that was made elsewhere. *)
ObserveResolution(j) ==
  /\ journeys[j].pc = "interacting"
  /\ apRequest.status = "resolved"
  /\ journeys' = [journeys EXCEPT ![j] =
                    [pc |-> "updating", left |-> Deliveries]]
  /\ UNCHANGED <<apRun, apRequest, deliveries, updates, credentials,
                 invocations, sent, hidden, apClock, apRestarts>>

(* settle_approval_timeout: a rejection continues the run, a failure ends  *)
(* it.  The fold needs a waiting run.                                      *)
SettleApprovalTimeout ==
  /\ ApprovalWaits
  /\ apClock >= apRequest.expires
  /\ LET running == [apRun EXCEPT !.run.status = "Running"] IN
     apRun' = IF ApprovalOnTimeout = "fail" THEN FailedRun(running, "timeout")
              ELSE running
  /\ ResolveApproval(IF ApprovalOnTimeout = "fail" THEN "failed"
                     ELSE "timed_out")
  /\ UNCHANGED journeys

(* Nobody decided in time: the journey gives up, or its error ends it. *)
InteractionTimeout(j) ==
  /\ journeys[j].pc = "interacting"
  /\ apRequest.status = "waiting"
  /\ apClock < apRequest.expires \/ ~ApprovalWaits
  /\ journeys' = [journeys EXCEPT ![j] = IdleJourney]
  /\ UNCHANGED <<apRun, apRequest, deliveries, updates, credentials,
                 invocations, sent, hidden, apClock, apRestarts>>

-----------------------------------------------------------------------------
(* Message updates. *)

(* begin_notification_update. *)
BeginUpdate(j, d) ==
  /\ journeys[j].pc = "updating" /\ d \in journeys[j].left
  /\ journeys' = [journeys EXCEPT ![j].left = @ \ {d}]
  /\ \/ /\ AttemptDue(updates[d]) /\ AcceptsEvents(apRun.run)
        /\ updates' = [updates EXCEPT ![d] = Started(@)]
        /\ invocations' = [invocations EXCEPT ![d] =
             [kind |-> "update", journey |-> j, answer |-> "none"]]
     \/ /\ ~(AttemptDue(updates[d]) /\ AcceptsEvents(apRun.run))
        /\ UNCHANGED <<updates, invocations>>
  /\ UNCHANGED <<apRun, apRequest, deliveries, credentials, sent, hidden,
                 apClock, apRestarts>>

(* complete_notification_update; a result that comes after the end of the  *)
(* run is refused and ends the journey.                                    *)
CompleteUpdate(j, d) ==
  /\ journeys[j].pc = "settling"
  /\ invocations[d].journey = j /\ invocations[d].kind = "update"
  /\ invocations[d].answer # "none"
  /\ \/ /\ AcceptsEvents(apRun.run)
        /\ updates' = [updates EXCEPT ![d] =
                         AttemptResult(@, invocations[d].answer)]
        /\ invocations' = [invocations EXCEPT ![d] = NoInvocation]
        /\ UNCHANGED journeys
     \/ /\ ~AcceptsEvents(apRun.run)
        /\ invocations' = [e \in Deliveries |->
             IF invocations[e].journey = j THEN NoInvocation ELSE invocations[e]]
        /\ journeys' = [journeys EXCEPT ![j] = IdleJourney]
        /\ UNCHANGED updates
  /\ UNCHANGED <<apRun, apRequest, deliveries, credentials, sent, hidden,
                 apClock, apRestarts>>

JoinUpdates(j) ==
  \/ /\ journeys[j].pc = "updating" /\ journeys[j].left = {}
     /\ journeys' = [journeys EXCEPT ![j].pc = "settling"]
     /\ UNCHANGED <<apRun, apRequest, deliveries, updates, credentials,
                    invocations, sent, hidden, apClock, apRestarts>>
  \/ /\ journeys[j].pc = "settling"
     /\ \A d \in Deliveries : invocations[d].journey # j
     /\ journeys' = [journeys EXCEPT ![j] =
          IF RetryPending(updates) THEN [pc |-> "updating", left |-> Deliveries]
          ELSE IdleJourney]
     /\ UNCHANGED <<apRun, apRequest, deliveries, updates, credentials,
                    invocations, sent, hidden, apClock, apRestarts>>

-----------------------------------------------------------------------------
(* Restart. *)

Interrupted(a, final) ==
  IF a.status = "started"
  THEN [a EXCEPT !.status = "failed", !.final = final, !.failedAt = apClock]
  ELSE a

(* "Recovery found an uncertain notification send and will not replay it." *)
RecoveredDeliveries ==
  [d \in Deliveries |-> Interrupted(deliveries[d], TRUE)]

RecoveredUpdates ==
  [d \in Deliveries |-> Interrupted(updates[d], Exhausted(updates[d]))]

(* Fault: recovery leaves the run waiting for messages that all failed. *)
RecoverWaitingRun(ds) == UNCHANGED apRun

(* The deliveries of a waiting run are settled, and the run fails when     *)
(* none is left.                                                           *)
RecoverWaiting(ds) ==
  IF AllFailed(ds) /\ \E d \in Deliveries : deliveries[d].status = "started"
  THEN apRun' = FailedRun(apRun, "deliveries") ELSE UNCHANGED apRun

(* The process dies with its journeys; recover_run then visits the run. A  *)
(* started call may or may not have reached the provider.                  *)
RestartAndRecover ==
  /\ apRestarts < MaxApprovalRestarts
  /\ apRestarts' = apRestarts + 1
  /\ journeys' = [j \in Journeys |-> IdleJourney]
  /\ invocations' = [d \in Deliveries |-> NoInvocation]
  /\ \E reached \in SUBSET {d \in Deliveries : invocations[d].kind = "send"
                                /\ invocations[d].answer = "none"} :
       sent' = [d \in Deliveries |->
                  IF d \in reached THEN sent[d] + 1 ELSE sent[d]]
  /\ \/ /\ ApprovalStatus = "Waiting"
        /\ deliveries' = RecoveredDeliveries
        /\ RecoverWaiting(RecoveredDeliveries)
        /\ UNCHANGED updates
     \/ /\ ApprovalStatus = "Running"
        /\ updates' = RecoveredUpdates
        /\ UNCHANGED <<deliveries, apRun>>
     \/ /\ ApprovalStatus \notin {"Waiting", "Running"}
        /\ UNCHANGED <<deliveries, updates, apRun>>
  /\ UNCHANGED <<apRequest, credentials, hidden, apClock>>

(* Every time is relative to the request: the clock starts with it. *)
ApprovalTick ==
  /\ apRequest.status # "absent" /\ apClock < MaxApprovalTime
  /\ apClock' = apClock + 1
  /\ UNCHANGED <<apRun, apRequest, deliveries, updates, credentials,
                 invocations, sent, hidden, journeys, apRestarts>>

JourneyStep(j) ==
  \/ StartJourney(j) \/ JoinDeliveries(j) \/ AfterDeliveries(j)
  \/ ObserveResolution(j) \/ InteractionTimeout(j) \/ JoinUpdates(j)
  \/ \E d \in Deliveries :
       \/ BeginDelivery(j, d) \/ CompleteDelivery(j, d)
       \/ BeginUpdate(j, d) \/ CompleteUpdate(j, d)
       \/ \E decision \in {"approved", "rejected"} :
            ProviderInteraction(j, d, decision)

ApprovalsNext ==
  \/ RequestApproval \/ ReissueApprovalToken \/ SettleApprovalTimeout
  \/ CompleteApprovalRun \/ FinalizeApprovalRun \/ CancelApprovalRun
  \/ \E j \in Journeys : JourneyStep(j)
  \/ \E decision \in {"approved", "rejected"} : HumanDecision(decision)
  \/ \E d \in Deliveries,
        answer \in {"succeeded", "retryable", "permanent", "ambiguous"} :
       HostAnswers(d, answer)
  \/ RestartAndRecover
  \/ ApprovalTick

ApprovalsSpec == ApprovalsInit /\ [][ApprovalsNext]_apVars

-----------------------------------------------------------------------------
(* Properties. *)

(* Whatever journeys, retries and restarts overlap, no person is sent the  *)
(* same approval message twice, unless a custom provider had sent it and   *)
(* answered that the attempt may be repeated; and then not more often than *)
(* the attempts of a delivery (attempt identities, and that ambiguous      *)
(* answers and recovery are final).                                        *)
NoUnexplainedRepeat ==
  \A d \in Deliveries :
    /\ sent[d] <= 1 + hidden[d] /\ sent[d] <= MaxDeliveryAttempts
    /\ d \in EditableDeliveries => sent[d] <= 1

(* A run does not wait for a decision that nobody can be asked for: "If    *)
(* every destination fails, the run fails".                                *)
UnreachableApprovalEnds == AllFailed(deliveries) => ~ApprovalWaits

(* The first decision is final, and none is accepted at or after the       *)
(* deadline, although links and message buttons carry credentials of their *)
(* own (approval_credential_expiry).                                       *)
FirstDecisionKept ==
  /\ apRequest.status = "resolved" =>
       apRequest'.resolution = apRequest.resolution
  /\ apRequest.status = "waiting" /\ apRequest'.status = "resolved" =>
       (apClock < apRequest.expires <=>
          apRequest'.resolution \in {"approved", "rejected"})

(* An approval that somebody decided is not overruled by a notification    *)
(* that fails afterwards ("The first valid approve or reject decision      *)
(* wins").                                                                 *)
DecidedApprovalStands ==
  apRequest.resolution \in {"approved", "rejected"} =>
    apRun.failure # "deliveries"

=============================================================================
