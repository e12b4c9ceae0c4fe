----------------------------- MODULE EventAdmission ----------------------------
(***************************************************************************)
(* The admission of occurrences that are delivered to a trigger host:      *)
(* webhook and event publications (webhook/admission.rs, webhook/events.rs)*)
(* and WhatsApp callbacks (webhook/whatsapp.rs), which senders retry under *)
(* the same identity, and the events a running script emits                *)
(* (events_service.rs), whose lineage is stored with the occurrence        *)
(* (durable/transactions/admission.rs).  The host dispatches what it       *)
(* admits, and what it finds at a restart.                                 *)
(* A webhook is an event with one subscriber.  Authentication, parsing,    *)
(* schemas and the execution of a run beyond its one emission are left     *)
(* out; timers are in TimedTriggers.                                       *)
(***************************************************************************)
EXTENDS Integers, Sequences, FiniteSets, FiniteSetsExt

CONSTANTS
  EventOf,            \* event of each subscriber: a sequence in loading order
  EmitsOf,            \* event the runs of each subscriber emit, or "none"
  DeliverySets,       \* alternatives for the deliveries that reach the host, each
                      \* one an [id, event, payload, channel]
  EmittedPayloads,    \* payloads an attempt of an emitting step may choose
  MaxEventDepth,      \* bound of the lineage (32)
  EventQueueCeiling,  \* RUNTIME_POLICY_QUEUE_CEILING
  MaxDeliveries,      \* bound on deliveries, retries included
  MaxStoreErrors,     \* bound on admissions the store refuses as unavailable
  MaxEventCrashes     \* bound on crashes of the host

ASSUME EventAssumption ==
  /\ MaxEventDepth \in Nat /\ EventQueueCeiling \in Nat
  /\ MaxDeliveries \in Nat /\ MaxStoreErrors \in Nat /\ MaxEventCrashes \in Nat
  /\ DOMAIN EventOf \subseteq Nat
  /\ \A d \in UNION DeliverySets : d.channel \in {"event", "whatsapp"}

VARIABLES
  eaRuns,         \* admitted runs, in the order of admission
  eaPublications, \* rows of internal publications; the emitting run identifies one
  eaHost,         \* "down", "prepared" or "active"
  eaRecovered,    \* undispatched runs found by the preparation of the host
  eaDriven,       \* number of tasks of this host that drive each run
  eaChannel,      \* accepted internal events on their way to the dispatcher
  eaHandler,      \* handler of each delivery
  eaEmission,     \* emission of each running run
  eaAnswers,      \* accepted answers given to senders (history variable)
  eaBudget        \* what is left of the bounds

eaVars == <<eaRuns, eaPublications, eaHost, eaRecovered, eaDriven, eaChannel, eaHandler,
            eaEmission, eaAnswers, eaBudget>>

Deliveries == DOMAIN eaHandler

\* They are tried in the order in which they were loaded.
Subscribers(event) == {s \in DOMAIN EventOf : EventOf[s] = event}

NoOutcome == [run |-> 0, duplicate |-> FALSE]
HandlerIdle == [at |-> "idle", rest |-> {}, pending |-> NoOutcome, accepted |-> {}]

EventTypeOK ==
  /\ \A n \in DOMAIN eaRuns :
       eaRuns[n] \in [sub : DOMAIN EventOf, source : {"event", "whatsapp", "run"}, id : Nat,
                      payload : Nat, depth : 0..MaxEventDepth,
                      state : {"queued", "running", "ended"}]
  /\ eaHost \in {"down", "prepared", "active"}
  /\ eaRecovered \subseteq DOMAIN eaRuns
  /\ DOMAIN eaDriven = DOMAIN eaRuns /\ DOMAIN eaEmission = DOMAIN eaRuns
  /\ \A d \in Deliveries : eaHandler[d].at \in {"idle", "admitting", "admitted"}

EventInit ==
  /\ eaRuns = <<>> /\ eaPublications = {} /\ eaHost = "down" /\ eaRecovered = {}
  /\ eaDriven = <<>> /\ eaChannel = <<>> /\ eaEmission = <<>> /\ eaAnswers = {}
  /\ \E ds \in DeliverySets : eaHandler = [d \in ds |-> HandlerIdle]
  /\ eaBudget = [deliveries |-> MaxDeliveries, errors |-> MaxStoreErrors, crashes |-> MaxEventCrashes]

-----------------------------------------------------------------------------
(* The admission of one occurrence. *)

QueuedRuns == {n \in DOMAIN eaRuns : eaRuns[n].state = "queued"}

\* The run bound to a source identity, or none.
OccurrenceOf(s, source, id) ==
  {n \in DOMAIN eaRuns : eaRuns[n].sub = s /\ eaRuns[n].source = source /\ eaRuns[n].id = id}

\* The faults a slip in this code would make.
DuplicateOfAnyPayload(s, source, id, payload) ==
  LET same == OccurrenceOf(s, source, id)
  IN  IF same # {} THEN "duplicate" ELSE "new"

\* admit_trigger_occurrence_in_transaction
AdmissionVerdict(s, source, id, payload) ==
  LET same == OccurrenceOf(s, source, id)
  IN  IF \E n \in same : eaRuns[n].payload # payload THEN "idempotency conflict"
      ELSE IF same # {} THEN "duplicate"
      ELSE IF Cardinality(QueuedRuns) >= EventQueueCeiling THEN "queue full" ELSE "new"

Accepted(verdict) == verdict \in {"new", "duplicate"}

\* Commits the verdict on an occurrence: a new run of it, if any.
CommitOccurrence(verdict, s, source, id, payload, depth) ==
  IF verdict = "new"
    THEN /\ eaRuns' = Append(eaRuns, [sub |-> s, source |-> source, id |-> id, payload |-> payload,
                                      depth |-> depth, state |-> "queued"])
         /\ eaEmission' = Append(eaEmission, <<>>)
    ELSE UNCHANGED <<eaRuns, eaEmission>>

OutcomeOf(verdict, s, source, id) ==
  [run |-> IF verdict = "new" THEN Len(eaRuns) + 1 ELSE CHOOSE n \in OccurrenceOf(s, source, id) : TRUE,
   duplicate |-> verdict = "duplicate"]

\* driven with a task more for every run of a set (dispatch_run).
Driving(driven, runs) == [n \in DOMAIN driven |-> driven[n] + (IF n \in runs THEN 1 ELSE 0)]

DispatchAll(outcomes) == {o.run : o \in outcomes}
\* Only an occurrence that is no duplicate is dispatched.
ToDispatch(outcomes) == {o.run : o \in {p \in outcomes : ~p.duplicate}}

-----------------------------------------------------------------------------
(* Deliveries from outside. *)

\* handle_webhook, handle_event_publication, handle_whatsapp_callback: a host
\* that is not active answers that it is not ready.
ReceiveDelivery(d) ==
  /\ eaHost = "active" /\ eaHandler[d].at = "idle" /\ eaBudget.deliveries > 0
  /\ eaHandler' = [eaHandler EXCEPT ![d] = [HandlerIdle EXCEPT !.at = "admitting",
                                                              !.rest = Subscribers(d.event)]]
  /\ eaBudget' = [eaBudget EXCEPT !.deliveries = @ - 1]
  /\ UNCHANGED <<eaRuns, eaPublications, eaHost, eaRecovered, eaDriven, eaChannel, eaEmission, eaAnswers>>

\* A subscriber's admission is refused: an event goes on to the next
\* subscriber, a callback ends with an error.
RefusedDelivery(d) ==
  /\ eaHandler' = [eaHandler EXCEPT ![d] =
       IF d.channel = "whatsapp" THEN HandlerIdle ELSE [eaHandler[d] EXCEPT !.rest = @ \ {Min(@)}]]
  /\ UNCHANGED <<eaRuns, eaPublications, eaHost, eaRecovered, eaDriven, eaChannel, eaEmission, eaAnswers>>

\* The blocking admission of the next subscriber.
AdmitDelivery(d) ==
  LET h == eaHandler[d]
      s == Min(h.rest)
      verdict == AdmissionVerdict(s, d.channel, d.id, d.payload)
  IN  /\ h.at = "admitting" /\ h.rest # {}
      /\ UNCHANGED eaBudget
      /\ IF Accepted(verdict)
           THEN /\ CommitOccurrence(verdict, s, d.channel, d.id, d.payload, 0)
                /\ eaDriven' = IF verdict = "new" THEN Append(eaDriven, 0) ELSE eaDriven
                /\ eaHandler' = [eaHandler EXCEPT ![d].at = "admitted", ![d].rest = @ \ {s},
                                                  ![d].pending = OutcomeOf(verdict, s, d.channel, d.id)]
                /\ UNCHANGED <<eaPublications, eaHost, eaRecovered, eaChannel, eaAnswers>>
           ELSE RefusedDelivery(d)

StoreRefusesDelivery(d) ==
  /\ eaHandler[d].at = "admitting" /\ eaHandler[d].rest # {} /\ eaBudget.errors > 0
  /\ eaBudget' = [eaBudget EXCEPT !.errors = @ - 1]
  /\ RefusedDelivery(d)

\* After the admission an event is dispatched at once; a callback collects
\* what it accepted.  Left out: a handler dropped with its connection while
\* the admission commits, whose run waits for the next start of the host.
SettleDelivery(d) ==
  LET h == eaHandler[d]
      now == IF d.channel = "event" THEN {h.pending} ELSE {}
  IN  /\ h.at = "admitted"
      /\ eaDriven' = Driving(eaDriven, ToDispatch(now))
      /\ eaHandler' = [eaHandler EXCEPT ![d] = [h EXCEPT !.at = "admitting", !.pending = NoOutcome,
                                                         !.accepted = @ \cup {h.pending}]]
      /\ UNCHANGED <<eaRuns, eaPublications, eaHost, eaRecovered, eaChannel, eaEmission, eaAnswers,
                     eaBudget>>

\* Every subscriber was tried: the answer; a callback now dispatches.
AnswerDelivery(d) ==
  LET h == eaHandler[d]
  IN  /\ h.at = "admitting" /\ h.rest = {}
      /\ eaDriven' = Driving(eaDriven, IF d.channel = "whatsapp" THEN ToDispatch(h.accepted) ELSE {})
      /\ eaAnswers' = eaAnswers \cup {[delivery |-> d, run |-> o.run] : o \in h.accepted}
      /\ eaHandler' = [eaHandler EXCEPT ![d] = HandlerIdle]
      /\ UNCHANGED <<eaRuns, eaPublications, eaHost, eaRecovered, eaChannel, eaEmission, eaBudget>>

-----------------------------------------------------------------------------
(* Runs and the events they emit. *)

\* A driven run starts; the step that emits chooses a payload.
StartEventRun(n) ==
  /\ eaRuns[n].state = "queued" /\ eaDriven[n] > 0
  /\ eaRuns' = [eaRuns EXCEPT ![n].state = "running"]
  /\ \E p \in EmittedPayloads :
       eaEmission' = [eaEmission EXCEPT ![n] =
         [payload |-> p, rest |-> Subscribers(EmitsOf[eaRuns[n].sub]), retries |-> 1]]
  /\ UNCHANGED <<eaPublications, eaHost, eaRecovered, eaDriven, eaChannel, eaHandler, eaAnswers, eaBudget>>

ParentOnly(n) == {n}

\* With an emitted run, a set of runs holds the run that emitted it.
HoldsParents(runs) == \A m \in runs : eaRuns[m].source = "run" => eaRuns[m].id \in runs

\* The emitting run and the runs that led to it by emitted events: the walk
\* from parent to parent, until a run no event of another run started, ends
\* with the least such set; a run that a workflow call started has no parent
\* here.  The walk's own bound repeats that of the depth, the number of runs.
Ancestors(n) ==
  {m \in DOMAIN eaRuns :
     \A runs \in SUBSET DOMAIN eaRuns : n \in runs /\ HoldsParents(runs) => m \in runs}

\* admit_internal_event_occurrence, for one subscriber of an emission.
EmissionVerdict(n, s, payload) ==
  LET depth == eaRuns[n].depth + 1
      row == [parent |-> n, payload |-> payload, depth |-> depth]
  IN  CASE depth > MaxEventDepth -> "depth exceeded"
        [] depth <= MaxEventDepth /\ \E m \in Ancestors(n) : eaRuns[m].sub = s -> "cycle"
        [] depth <= MaxEventDepth /\ \A m \in Ancestors(n) : eaRuns[m].sub # s ->
             IF \E p \in eaPublications : p.parent = n /\ p # row
               THEN "publication conflict"
               ELSE AdmissionVerdict(s, "run", n, payload)

\* publish: the next subscriber, whose accepted run is sent to the dispatcher.
EmitEvent(n) ==
  LET e == eaEmission[n]
      s == Min(e.rest)
      verdict == EmissionVerdict(n, s, e.payload)
  IN  /\ eaHost = "active" /\ eaRuns[n].state = "running" /\ e.rest # {}
      /\ IF Accepted(verdict)
           THEN /\ eaRuns' = IF verdict = "new"
                     THEN Append(eaRuns, [sub |-> s, source |-> "run", id |-> n, payload |-> e.payload,
                                          depth |-> eaRuns[n].depth + 1, state |-> "queued"])
                     ELSE eaRuns
                /\ eaEmission' =
                     LET moved == [eaEmission EXCEPT ![n].rest = @ \ {s}]
                     IN  IF verdict = "new" THEN Append(moved, <<>>) ELSE moved
                /\ eaDriven' = IF verdict = "new" THEN Append(eaDriven, 0) ELSE eaDriven
                /\ eaChannel' = Append(eaChannel, OutcomeOf(verdict, s, "run", n))
                /\ eaPublications' = eaPublications \cup
                     {[parent |-> n, payload |-> e.payload, depth |-> eaRuns[n].depth + 1]}
           ELSE /\ eaEmission' = [eaEmission EXCEPT ![n].rest = @ \ {s}]
                /\ UNCHANGED <<eaRuns, eaDriven, eaChannel, eaPublications>>
      /\ UNCHANGED <<eaHost, eaRecovered, eaHandler, eaAnswers, eaBudget>>

\* The step fails after its emission and its retry emits again, under the
\* same operation key.
RetryEmission(n) ==
  /\ eaRuns[n].state = "running" /\ eaHost = "active"
  /\ eaEmission[n].rest = {} /\ eaEmission[n].retries > 0
  /\ Subscribers(EmitsOf[eaRuns[n].sub]) # {}
  /\ \E p \in EmittedPayloads :
       eaEmission' = [eaEmission EXCEPT ![n] =
         [payload |-> p, rest |-> Subscribers(EmitsOf[eaRuns[n].sub]), retries |-> 0]]
  /\ UNCHANGED <<eaRuns, eaPublications, eaHost, eaRecovered, eaDriven, eaChannel, eaHandler,
                 eaAnswers, eaBudget>>

\* The run ends, or is cancelled between two subscribers of its emission.
EndEventRun(n) ==
  /\ eaRuns[n].state = "running" /\ eaHost = "active"
  /\ eaRuns' = [eaRuns EXCEPT ![n].state = "ended"]
  /\ eaEmission' = [eaEmission EXCEPT ![n] = <<>>]
  /\ eaDriven' = [eaDriven EXCEPT ![n] = @ - 1]
  /\ UNCHANGED <<eaPublications, eaHost, eaRecovered, eaChannel, eaHandler, eaAnswers, eaBudget>>

\* A second task that drives a run finds it started or ended.
IdleTaskEnds(n) ==
  /\ eaRuns[n].state # "queued"
  /\ eaDriven[n] > (IF eaRuns[n].state = "running" THEN 1 ELSE 0)
  /\ eaDriven' = [eaDriven EXCEPT ![n] = @ - 1]
  /\ UNCHANGED <<eaRuns, eaPublications, eaHost, eaRecovered, eaChannel, eaHandler, eaEmission,
                 eaAnswers, eaBudget>>

\* run_internal_event_dispatch
DispatchEmitted ==
  /\ eaHost = "active" /\ eaChannel # <<>>
  /\ eaDriven' = Driving(eaDriven, ToDispatch({Head(eaChannel)}))
  /\ eaChannel' = Tail(eaChannel)
  /\ UNCHANGED <<eaRuns, eaPublications, eaHost, eaRecovered, eaHandler, eaEmission, eaAnswers, eaBudget>>

-----------------------------------------------------------------------------
(* The host. *)

CrashEventHost ==
  /\ eaHost # "down" /\ eaBudget.crashes > 0
  /\ eaHost' = "down" /\ eaRecovered' = {} /\ eaChannel' = <<>>
  /\ eaDriven' = [n \in DOMAIN eaDriven |-> 0]
  /\ eaHandler' = [d \in Deliveries |-> HandlerIdle]
  /\ eaEmission' = [n \in DOMAIN eaEmission |-> <<>>]
  /\ eaBudget' = [eaBudget EXCEPT !.crashes = @ - 1]
  /\ UNCHANGED <<eaRuns, eaPublications, eaAnswers>>

\* prepare_state: interrupted attempts fail their runs, and the admitted runs
\* that never started are listed.
PrepareEventHost ==
  /\ eaHost = "down"
  /\ eaHost' = "prepared"
  /\ eaRuns' = [n \in DOMAIN eaRuns |->
       IF eaRuns[n].state = "running" THEN [eaRuns[n] EXCEPT !.state = "ended"] ELSE eaRuns[n]]
  /\ eaRecovered' = QueuedRuns
  /\ UNCHANGED <<eaPublications, eaDriven, eaChannel, eaHandler, eaEmission, eaAnswers, eaBudget>>

\* activate: admission opens and the recovered runs are dispatched.
ActivateEventHost ==
  /\ eaHost = "prepared"
  /\ eaHost' = "active"
  /\ eaDriven' = Driving(eaDriven, eaRecovered)
  /\ eaRecovered' = {}
  /\ UNCHANGED <<eaRuns, eaPublications, eaChannel, eaHandler, eaEmission, eaAnswers, eaBudget>>

EventNext ==
  \/ \E d \in Deliveries :
       \/ ReceiveDelivery(d) \/ AdmitDelivery(d) \/ StoreRefusesDelivery(d)
       \/ SettleDelivery(d) \/ AnswerDelivery(d)
  \/ \E n \in DOMAIN eaRuns :
       \/ StartEventRun(n) \/ EmitEvent(n) \/ RetryEmission(n) \/ EndEventRun(n)
       \/ IdleTaskEnds(n)
  \/ DispatchEmitted
  \/ CrashEventHost \/ PrepareEventHost \/ ActivateEventHost

EventSpec == EventInit /\ [][EventNext]_eaVars

-----------------------------------------------------------------------------
(***************************************************************************)
(* However deliveries are repeated, raced or cut short, an accepted answer *)
(* names the one run that the subscriber has for this identity, and that   *)
(* run was given the payload of the delivery.                              *)
(***************************************************************************)
AcceptedAnswersHonest ==
  /\ \A a \in eaAnswers : eaRuns[a.run].id = a.delivery.id /\ eaRuns[a.run].payload = a.delivery.payload
  /\ \A m, n \in DOMAIN eaRuns :
       /\ eaRuns[m].sub = eaRuns[n].sub /\ eaRuns[m].id = eaRuns[n].id
       /\ eaRuns[m].source = eaRuns[n].source
       => m = n

\* The runs a run descends from, at any distance.
LineageOf(n) ==
  {m \in DOMAIN eaRuns :
     \A runs \in SUBSET DOMAIN eaRuns :
       (eaRuns[n].source = "run" => eaRuns[n].id \in runs) /\ HoldsParents(runs) => m \in runs}

(***************************************************************************)
(* Events emitted by runs never lead back to a subscriber of their own     *)
(* lineage of events, through whatever chain of emissions, so such a chain *)
(* of runs ends (admit_internal_event_occurrence).                         *)
(***************************************************************************)
LineageNeverRepeats ==
  \A n \in DOMAIN eaRuns :
    /\ \A m \in LineageOf(n) : eaRuns[m].sub # eaRuns[n].sub
    /\ Cardinality(LineageOf(n)) = eaRuns[n].depth

(***************************************************************************)
(* Admissions are honest: an accepted answer names the run of that very    *)
(* delivery, a delivery has one run per subscriber, and no chain of        *)
(* emitted events returns to its own lineage.                              *)
(***************************************************************************)
AdmissionsHonest == AcceptedAnswersHonest /\ LineageNeverRepeats

\* A handler or the channel is about to dispatch run n.
DispatchPending(n) ==
  \/ \E d \in Deliveries : eaHandler[d].pending = [run |-> n, duplicate |-> FALSE]
  \/ \E i \in DOMAIN eaChannel : eaChannel[i] = [run |-> n, duplicate |-> FALSE]

(***************************************************************************)
(* While the host is active every queued run an event or a script admitted *)
(* has exactly one task that drives it, or one on its way: repeated        *)
(* deliveries add none, and a crash between commit and dispatch loses none *)
(* (dispatch_run, recover_undispatched_trigger_runs).                      *)
(***************************************************************************)
QueuedRunsDrivenOnce ==
  eaHost = "active" =>
    \A n \in QueuedRuns :
      eaRuns[n].source # "whatsapp"
        => eaDriven[n] = (IF DispatchPending(n) THEN 0 ELSE 1)

(***************************************************************************)
(* A run named in an accepted answer of an active host is driven or has    *)
(* started: "Recovery after a commit but before dispatch must continue the *)
(* existing run" (docs/protocols/production-triggers-v1.md).  A WhatsApp   *)
(* callback that fails after its first admission returns without           *)
(* dispatching it, and the redelivery finds a duplicate.                   *)
(***************************************************************************)
AcknowledgedRunsDriven ==
  eaHost = "active" => \A a \in eaAnswers : eaRuns[a.run].state = "queued" => eaDriven[a.run] > 0
===============================================================================
