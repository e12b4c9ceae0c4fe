----------------------------- MODULE TimedTriggers -----------------------------
(***************************************************************************)
(* One timed trigger of one workflow, an interval or a schedule: the       *)
(* durable cursor (durable/transactions/{intervals,schedules}.rs), the     *)
(* timer loops of the trigger hosts (webhook/{intervals,schedules}.rs) and *)
(* the activation of a host (webhook.rs), with restarts, redeployments, a  *)
(* host that loses the lease of its routes but not its timers, and a wall  *)
(* clock that is set back.                                                 *)
(* Planned instants lie Period apart: from the anchor of an interval, from *)
(* the origin of the clock for a schedule, whose cron expressions and time *)
(* zones are left out.  Other admissions, and the dispatch of the admitted  *)
(* run, are in EventAdmission.                                             *)
(***************************************************************************)
EXTENDS Integers, FiniteSets

CONSTANTS
  Hosts,             \* processes that can host the workflow
  Period,            \* distance between planned instants
  Deployed,          \* definitions of the workflow each host is started with
  TimedQueueCeiling, \* RUNTIME_POLICY_QUEUE_CEILING
  MaxInstant,        \* bound on the clock
  MaxSetBacks,       \* bound on corrections of the clock
  MaxHostDeaths      \* bound on crashes and stops of hosts

ASSUME TimedAssumption ==
  /\ IsFiniteSet(Hosts) /\ Period \in Nat \ {0}
  /\ \A h \in Hosts : Deployed[h] # {} /\ \A d \in Deployed[h] : d \in Nat \ {0}
  /\ TimedQueueCeiling \in Nat \ {0}
  /\ MaxInstant \in Nat /\ MaxSetBacks \in Nat /\ MaxHostDeaths \in Nat

VARIABLES
  ttKind,      \* trigger.interval or trigger.schedule
  ttMissed,    \* the trigger's onMissed policy
  ttNow,       \* wall clock
  ttSetBacks,
  ttRoute,     \* runtime route of the workflow: its owner and whether the lease is live
  ttCursor,    \* cursor row; definition 0 before there is one
  ttRuns,      \* admitted occurrences
  ttHost,      \* the hosts
  ttDeaths

ttVars == <<ttKind, ttMissed, ttNow, ttSetBacks, ttRoute, ttCursor, ttRuns, ttHost, ttDeaths>>

TimedDefinitions == UNION {Deployed[h] : h \in Hosts}

NoCursor == [definition |-> 0, anchor |-> 0, at |-> 0]
HostAt(step, d) ==
  [at |-> step, definition |-> d, cursor |-> NoCursor, now |-> 0]
HostDown == HostAt("down", 0)

TimedTypeOK ==
  /\ ttKind \in {"interval", "schedule"} /\ ttMissed \in {"skip", "run-once"}
  /\ ttNow \in 0..MaxInstant /\ ttSetBacks \in 0..MaxSetBacks /\ ttDeaths \in 0..MaxHostDeaths
  /\ ttRoute \in [owner : Hosts \cup {"none", "dead"}, live : BOOLEAN]
  /\ ttCursor \in [definition : TimedDefinitions \cup {0}, anchor : Nat, at : Nat]
  /\ \A r \in ttRuns :
       r \in [anchor : Nat, planned : Nat, triggered : Nat,
              definition : TimedDefinitions, state : {"queued", "running", "ended"}]
  /\ \A h \in Hosts :
       /\ ttHost[h].at \in {"down", "prepared", "registered", "catching", "reading", "asleep",
                            "claiming", "ended"}
       /\ ttHost[h].definition \in TimedDefinitions \cup {0}

TimedInit ==
  /\ ttKind \in {"interval", "schedule"} /\ ttMissed \in {"skip", "run-once"}
  /\ ttNow = 0 /\ ttSetBacks = 0 /\ ttDeaths = 0
  /\ ttRoute = [owner |-> "none", live |-> FALSE]
  /\ ttCursor = NoCursor
  /\ ttRuns = {}
  /\ ttHost = [h \in Hosts |-> HostDown]

-----------------------------------------------------------------------------
(* Planned instants. *)

\* next_sequence_after and planned_at; next_after of a schedule.
NextAfter(anchor, t) == anchor + ((t - anchor) \div Period + 1) * Period
\* next_at_or_after, of a schedule
NextAtOrAfter(t) == ((t + Period - 1) \div Period) * Period
\* latest_sequence_at_or_before; latest_at_or_before of a schedule.
LatestAtOrBefore(anchor, t) == anchor + ((t - anchor) \div Period) * Period

(* The admission and the cursor update are one immediate transaction.      *)
(* Each yields an outcome; only "ok" and "duplicate" commit.               *)

Live == {r \in ttRuns : r.state # "ended"}
Waiting == {r \in ttRuns : r.state = "queued"}

\* admit_trigger_occurrence_in_transaction.  The payload holds the instant
\* of the trigger, so a second admission of an occurrence is a duplicate only
\* at the same clock reading.
Admission(h, planned) ==
  LET now == ttHost[h].now
      same == {r \in ttRuns : r.anchor = ttHost[h].cursor.anchor /\ r.planned = planned}
  IN  IF \E r \in Live : r.definition # ttHost[h].definition THEN "definition_conflict"
      ELSE IF \E r \in same : r.triggered # now THEN "idempotency_conflict"
      ELSE IF same # {} THEN "duplicate"
      ELSE IF Cardinality(Waiting) >= TimedQueueCeiling THEN "queue_full" ELSE "ok"

\* update_interval_cursor and update_schedule_cursor; the sequence of an
\* interval and its instant determine the anchor.
UpdateValid(expected, next) ==
  /\ next > expected.at
  /\ ttCursor.at = expected.at /\ ttCursor.anchor = expected.anchor

\* The faults a slip in this code would make: the admission stands although
\* the cursor has moved.
ClaimBesideCursor(h, planned, next) == Admission(h, planned)

\* The outcome of claim_interval_occurrence and claim_schedule_occurrence.
ClaimOutcome(h, planned, next) ==
  LET admitted == Admission(h, planned)
  IN  IF admitted \in {"ok", "duplicate"} /\ ~UpdateValid(ttHost[h].cursor, next)
        THEN "cursor_conflict"
        ELSE admitted

Occurrence(h, planned) ==
  [anchor |-> ttHost[h].cursor.anchor, planned |-> planned, triggered |-> ttHost[h].now,
   definition |-> ttHost[h].definition, state |-> "queued"]

-----------------------------------------------------------------------------
(* Preparation and activation of a host. *)

\* prepare_state: refuses a definition while runs of another one are live.
PrepareHost(h) ==
  /\ ttHost[h].at = "down"
  /\ \E d \in Deployed[h] :
       /\ \A r \in Live : r.definition = d
       /\ ttHost' = [ttHost EXCEPT ![h] = HostAt("prepared", d)]
  /\ UNCHANGED <<ttKind, ttMissed, ttNow, ttSetBacks, ttRoute, ttCursor, ttRuns, ttDeaths>>

\* Activation: register_workflow_runtime_routes, or the error that another
\* runtime owns the workflow.
RegisterRoutes(h) ==
  /\ ttHost[h].at = "prepared"
  /\ IF ttRoute.live
       THEN ttHost' = [ttHost EXCEPT ![h] = HostDown] /\ UNCHANGED ttRoute
       ELSE /\ ttHost' = [ttHost EXCEPT ![h].at = "registered"]
            /\ ttRoute' = [owner |-> h, live |-> TRUE]
  /\ UNCHANGED <<ttKind, ttMissed, ttNow, ttSetBacks, ttCursor, ttRuns, ttDeaths>>

FreshCursor(d) ==
  IF ttKind = "interval"
    THEN [definition |-> d, anchor |-> ttNow, at |-> ttNow + Period]
    ELSE [definition |-> d, anchor |-> 0, at |-> NextAtOrAfter(ttNow)]

\* The end of a successful activation: the timer loop is spawned.
Activated(h) == ttHost' = [ttHost EXCEPT ![h] = HostAt("reading", ttHost[h].definition)]

\* initialize_intervals and initialize_schedules: the cursor row is kept
\* unless the registration changed.
RegisterCursor(h) ==
  LET d == ttHost[h].definition
      row == IF ttCursor.definition = d THEN ttCursor ELSE FreshCursor(d)
  IN  /\ ttHost[h].at = "registered"
      /\ ttCursor' = row
      /\ IF ttCursor.definition = d /\ ttCursor.at < ttNow
           THEN ttHost' = [ttHost EXCEPT ![h].at = "catching", ![h].cursor = row,
                                         ![h].now = ttNow]
           ELSE Activated(h)
      /\ UNCHANGED <<ttKind, ttMissed, ttNow, ttSetBacks, ttRoute, ttRuns, ttDeaths>>

\* A failed activation gives its routes back.
ActivationFails(h) ==
  /\ ttHost' = [ttHost EXCEPT ![h] = HostDown]
  /\ ttRoute' = IF ttRoute.owner = h THEN [owner |-> "none", live |-> FALSE] ELSE ttRoute
  /\ UNCHANGED <<ttCursor, ttRuns>>

\* The missed instants of a restarted host.
CatchUp(h) ==
  LET now == ttHost[h].now
      anchor == ttHost[h].cursor.anchor
      next == NextAfter(anchor, now)
      planned == LatestAtOrBefore(anchor, now)
      outcome == IF ttMissed = "run-once" THEN ClaimOutcome(h, planned, next)
                 ELSE IF UpdateValid(ttHost[h].cursor, next) THEN "skipped"
                 ELSE "cursor_conflict"
  IN  /\ ttHost[h].at = "catching"
      /\ IF outcome \in {"ok", "duplicate", "skipped"}
           THEN /\ ttCursor' = [ttCursor EXCEPT !.at = next]
                /\ ttRuns' = ttRuns \cup (IF outcome = "ok" THEN {Occurrence(h, planned)} ELSE {})
                /\ Activated(h) /\ UNCHANGED ttRoute
           ELSE ActivationFails(h)
      /\ UNCHANGED <<ttKind, ttMissed, ttNow, ttSetBacks, ttDeaths>>

-----------------------------------------------------------------------------
(* The timer loop of an active host. *)

TimerReads(h) ==
  /\ ttHost[h].at = "reading"
  /\ ttHost' = [ttHost EXCEPT ![h].at = "asleep", ![h].cursor = ttCursor]
  /\ UNCHANGED <<ttKind, ttMissed, ttNow, ttSetBacks, ttRoute, ttCursor, ttRuns, ttDeaths>>

TimerWakes(h) ==
  /\ ttHost[h].at = "asleep"
  /\ ttNow >= ttHost[h].cursor.at
  /\ ttHost' = [ttHost EXCEPT ![h].at = "claiming", ![h].now = ttNow]
  /\ UNCHANGED <<ttKind, ttMissed, ttNow, ttSetBacks, ttRoute, ttCursor, ttRuns, ttDeaths>>

\* Where a cursor claimed at now moves.
NextPosition(cursor, now) ==
  IF cursor.at + Period <= now THEN NextAfter(cursor.anchor, now) ELSE cursor.at + Period

\* A cursor conflict reads the cursor again; any other error ends the loop
\* for the life of the host.
TimerClaims(h) ==
  LET expected == ttHost[h].cursor
      now == ttHost[h].now
      several == expected.at + Period <= now
      next == NextPosition(expected, now)
      planned == IF several THEN LatestAtOrBefore(expected.anchor, now) ELSE expected.at
      outcome == IF ~(several /\ ttMissed = "skip") THEN ClaimOutcome(h, planned, next)
                 ELSE IF UpdateValid(expected, next) THEN "skipped"
                 ELSE "cursor_conflict"
  IN  /\ ttHost[h].at = "claiming"
      /\ ttHost' = [ttHost EXCEPT
           ![h] = HostAt(IF outcome \in {"ok", "duplicate", "skipped", "cursor_conflict"}
                           THEN "reading" ELSE "ended", ttHost[h].definition)]
      /\ ttCursor' = IF outcome \in {"ok", "duplicate", "skipped"}
                       THEN [ttCursor EXCEPT !.at = next] ELSE ttCursor
      /\ ttRuns' = ttRuns \cup (IF outcome = "ok" THEN {Occurrence(h, planned)} ELSE {})
      /\ UNCHANGED <<ttKind, ttMissed, ttNow, ttSetBacks, ttRoute, ttDeaths>>

\* run_workflow_routing_maintenance; a host that lost its routes only ends
\* this task.
RenewRoutes(h) ==
  /\ ttHost[h].at \in {"reading", "asleep", "claiming", "ended"}
  /\ ttRoute.owner = h /\ ~ttRoute.live
  /\ ttRoute' = [ttRoute EXCEPT !.live = TRUE]
  /\ UNCHANGED <<ttKind, ttMissed, ttNow, ttSetBacks, ttCursor, ttRuns, ttHost, ttDeaths>>

\* Ten seconds pass without a renewal.
RoutesLapse ==
  /\ ttRoute.live
  /\ ttRoute' = [ttRoute EXCEPT !.live = FALSE]
  /\ UNCHANGED <<ttKind, ttMissed, ttNow, ttSetBacks, ttCursor, ttRuns, ttHost, ttDeaths>>

\* A dispatched run leaves the queue, and ends; it may also end in the queue.
TimedRunMoves ==
  /\ \E r \in Live, state \in {"running", "ended"} :
       ttRuns' = (ttRuns \ {r}) \cup {[r EXCEPT !.state = state]}
  /\ UNCHANGED <<ttKind, ttMissed, ttNow, ttSetBacks, ttRoute, ttCursor, ttHost, ttDeaths>>

\* stop_with_deadline: the deadline may pass before the active runs end.
StopHost(h) ==
  /\ ttHost[h].at \in {"reading", "asleep", "claiming", "ended"} /\ ttDeaths < MaxHostDeaths
  /\ ttHost' = [ttHost EXCEPT ![h] = HostDown]
  /\ ttRoute' = IF ttRoute.owner = h THEN [owner |-> "none", live |-> FALSE] ELSE ttRoute
  /\ ttDeaths' = ttDeaths + 1
  /\ UNCHANGED <<ttKind, ttMissed, ttNow, ttSetBacks, ttCursor, ttRuns>>

\* The process dies; its lease stays until it lapses.
CrashHost(h) ==
  /\ ttHost[h].at # "down" /\ ttDeaths < MaxHostDeaths
  /\ ttHost' = [ttHost EXCEPT ![h] = HostDown]
  /\ ttRoute' = IF ttRoute.owner = h THEN [ttRoute EXCEPT !.owner = "dead"] ELSE ttRoute
  /\ ttDeaths' = ttDeaths + 1
  /\ UNCHANGED <<ttKind, ttMissed, ttNow, ttSetBacks, ttCursor, ttRuns>>

TimePasses ==
  /\ ttNow < MaxInstant
  /\ ttNow' = ttNow + 1
  /\ UNCHANGED <<ttKind, ttMissed, ttSetBacks, ttRoute, ttCursor, ttRuns, ttHost, ttDeaths>>

ClockSetBack ==
  /\ ttSetBacks < MaxSetBacks /\ ttNow > 0
  /\ ttNow' = ttNow - 1
  /\ ttSetBacks' = ttSetBacks + 1
  /\ UNCHANGED <<ttKind, ttMissed, ttRoute, ttCursor, ttRuns, ttHost, ttDeaths>>

TimedNext ==
  \/ \E h \in Hosts :
       \/ PrepareHost(h) \/ RegisterRoutes(h) \/ RegisterCursor(h) \/ CatchUp(h)
       \/ TimerReads(h) \/ TimerWakes(h) \/ TimerClaims(h) \/ RenewRoutes(h)
       \/ StopHost(h) \/ CrashHost(h)
  \/ TimedRunMoves \/ RoutesLapse \/ TimePasses \/ ClockSetBack

TimedSpec == TimedInit /\ [][TimedNext]_ttVars

-----------------------------------------------------------------------------
(***************************************************************************)
(* A planned instant of a trigger is never run twice, whatever hosts race  *)
(* for it, however often they restart or redeploy and however the clock is *)
(* set (the identity of an occurrence is its anchor and its instant).      *)
(***************************************************************************)
InstantRunsOnce ==
  \A r, s \in ttRuns : r.anchor = s.anchor /\ r.planned = s.planned => r = s

(***************************************************************************)
(* The cursor and the runs move together (claim_*_occurrence admits the    *)
(* run and moves the cursor in one transaction): a run is admitted only    *)
(* for an instant the cursor of its registration has not passed, by the    *)
(* step that moves the cursor just behind it, so a host that read the      *)
(* cursor before another host moved or replaced it admits nothing; the     *)
(* cursor of a registration only moves forward, and under run-once never   *)
(* over elapsed instants without a run for the latest of them.             *)
(***************************************************************************)
CursorMovesWithRun ==
  [][/\ \A r \in ttRuns' \ ttRuns : r.state = "queued" =>
          /\ r.anchor = ttCursor.anchor /\ ttCursor.at <= r.planned
          /\ ttCursor' = [ttCursor EXCEPT !.at = r.planned + Period]
     /\ ttCursor'.at # ttCursor.at /\ ttCursor'.definition = ttCursor.definition
          => /\ ttCursor'.at > ttCursor.at
             /\ ttMissed = "run-once"
                  => \E r \in ttRuns' :
                       r.anchor = ttCursor.anchor /\ r.planned = ttCursor'.at - Period]_ttVars
===============================================================================
