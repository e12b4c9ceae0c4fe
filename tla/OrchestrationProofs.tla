-------------------------- MODULE OrchestrationProofs --------------------------
(***************************************************************************)
(* Proofs about what starts runs and what splits them: timed triggers,     *)
(* deliveries and emitted events, forks, parallel groups, and the          *)
(* artifacts that runs hand on.  The components share no state; each has   *)
(* its own inductive invariant.                                            *)
(***************************************************************************)
EXTENDS ForkJoin, ParallelGroup, TimedTriggers, EventAdmission, Artifacts,
        FiniteSetTheorems, WellFoundedInduction, TLAPS

(* A nonempty set of naturals has a least element, which Min chooses. *)
LEMMA MinIsMember ==
  ASSUME NEW S \in SUBSET Nat, S # {}
  PROVE  Min(S) \in S
<1>1. PICK m \in S : \A k \in S : ~(<<k, m>> \in OpToRel(<, Nat))
  BY WFMin, NatLessThanWellFounded, Zenon
<1>2. \A k \in S : m <= k
  <2> SUFFICES ASSUME NEW k \in S PROVE m <= k
    OBVIOUS
  <2>1. ~(k < m)
    BY <1>1 DEF OpToRel
  <2> QED BY <2>1
<1> QED BY <1>2 DEF Min

(* The runs admitted so far are finitely many. *)
LEMMA InitialSegmentFinite ==
  ASSUME NEW n \in Nat
  PROVE  IsFiniteSet(1..n)
  BY FS_Interval

-----------------------------------------------------------------------------
(* Timed triggers. *)

(* An admitted occurrence is a record of exactly these fields. *)
OccurrenceRows ==
  \A r \in ttRuns :
    DOMAIN r = {"anchor", "planned", "triggered", "definition", "state"}

TimedInv == OccurrenceRows /\ InstantRunsOnce
(* Only an occurrence that nothing was admitted for is admitted. *)
LEMMA AdmittedIsNew ==
  ASSUME NEW h \in Hosts, NEW planned, Admission(h, planned) = "ok"
  PROVE  \A r \in ttRuns : ~(r.anchor = ttHost[h].cursor.anchor /\ r.planned = planned)
  BY DEF Admission

LEMMA AdmissionKeepsTimed ==
  ASSUME NEW h \in Hosts, NEW planned, Admission(h, planned) = "ok", TimedInv,
         ttRuns' = ttRuns \cup {Occurrence(h, planned)}
  PROVE  TimedInv'
<1> DEFINE o == Occurrence(h, planned)
<1>1. /\ o.anchor = ttHost[h].cursor.anchor /\ o.planned = planned
      /\ DOMAIN o = {"anchor", "planned", "triggered", "definition", "state"}
  BY DEF Occurrence
<1> HIDE DEF o
<1>2. \A r \in ttRuns : ~(r.anchor = o.anchor /\ r.planned = o.planned)
  BY <1>1, AdmittedIsNew, Zenon
<1>3. ttRuns' = ttRuns \cup {o}
  BY DEF o
<1> QED BY <1>1, <1>2, <1>3 DEF TimedInv, OccurrenceRows, InstantRunsOnce

(* A run that starts or ends keeps the identity of its occurrence. *)
LEMMA RunMoveKeepsTimed ==
  ASSUME NEW r \in ttRuns, NEW state, TimedInv,
         ttRuns' = (ttRuns \ {r}) \cup {[r EXCEPT !.state = state]}
  PROVE  TimedInv'
<1> DEFINE s == [r EXCEPT !.state = state]
<1>1. DOMAIN r = {"anchor", "planned", "triggered", "definition", "state"}
  BY DEF TimedInv, OccurrenceRows
<1>3. s.anchor = r.anchor /\ s.planned = r.planned /\ DOMAIN s = DOMAIN r
  BY <1>1
<1> HIDE DEF s
<1>4. ttRuns' = (ttRuns \ {r}) \cup {s}
  BY DEF s
<1> QED BY <1>1, <1>3, <1>4 DEF TimedInv, OccurrenceRows, InstantRunsOnce

LEMMA UnchangedTimed ==
  ASSUME TimedInv, ttRuns' = ttRuns
  PROVE  TimedInv'
  BY DEF TimedInv, OccurrenceRows, InstantRunsOnce

LEMMA ClaimKeepsTimed ==
  ASSUME TimedInv, NEW h \in Hosts, CatchUp(h) \/ TimerClaims(h)
  PROVE  TimedInv'
<1>1. CASE ttRuns' = ttRuns
  BY <1>1, UnchangedTimed
<1>2. CASE \E planned : /\ Admission(h, planned) = "ok"
                        /\ ttRuns' = ttRuns \cup {Occurrence(h, planned)}
  BY <1>2, AdmissionKeepsTimed
<1>3. ttRuns' = ttRuns \/ \E planned : /\ Admission(h, planned) = "ok"
                                      /\ ttRuns' = ttRuns \cup {Occurrence(h, planned)}
  <2>1. CASE CatchUp(h)
    <3> DEFINE planned == LatestAtOrBefore(ttHost[h].cursor.anchor, ttHost[h].now)
               next == NextAfter(ttHost[h].cursor.anchor, ttHost[h].now)
               claim == ClaimOutcome(h, planned, next)
    <3>1. claim = "ok" => Admission(h, planned) = "ok"
      BY DEF ClaimOutcome
    <3> HIDE DEF planned, next
    <3>2. \/ ttRuns' = ttRuns
          \/ claim = "ok" /\ ttRuns' = ttRuns \cup {Occurrence(h, planned)}
      BY <2>1 DEF CatchUp, ActivationFails, planned, next
    <3> QED BY <3>1, <3>2
  <2>2. CASE TimerClaims(h)
    <3> DEFINE planned == IF ttHost[h].cursor.at + Period <= ttHost[h].now
                            THEN LatestAtOrBefore(ttHost[h].cursor.anchor, ttHost[h].now)
                            ELSE ttHost[h].cursor.at
               next == NextPosition(ttHost[h].cursor, ttHost[h].now)
               claim == ClaimOutcome(h, planned, next)
    <3>1. claim = "ok" => Admission(h, planned) = "ok"
      BY DEF ClaimOutcome
    <3> HIDE DEF planned, next
    <3>2. \/ ttRuns' = ttRuns
          \/ claim = "ok" /\ ttRuns' = ttRuns \cup {Occurrence(h, planned)}
      BY <2>2 DEF TimerClaims, planned, next
    <3> QED BY <3>1, <3>2
  <2> QED BY <2>1, <2>2
<1> QED BY <1>1, <1>2, <1>3

(* Every step keeps the identities of the occurrences apart. *)
LEMMA TimedStepKeeps ==
  ASSUME TimedInv, [TimedNext]_ttVars
  PROVE  TimedInv'
<1>1. CASE \E h \in Hosts : CatchUp(h) \/ TimerClaims(h)
  BY <1>1, ClaimKeepsTimed
<1>2. CASE TimedRunMoves
  BY <1>2, RunMoveKeepsTimed DEF TimedRunMoves, Live
<1>3. CASE ttRuns' = ttRuns
  BY <1>3, UnchangedTimed
<1>4. ASSUME NEW h \in Hosts,
             \/ PrepareHost(h) \/ RegisterRoutes(h) \/ RegisterCursor(h) \/ TimerReads(h)
             \/ TimerWakes(h) \/ RenewRoutes(h) \/ StopHost(h) \/ CrashHost(h)
      PROVE  ttRuns' = ttRuns
  BY <1>4 DEF PrepareHost, RegisterRoutes, RegisterCursor, TimerReads, TimerWakes,
              RenewRoutes, StopHost, CrashHost
<1>5. CASE RoutesLapse \/ TimePasses \/ ClockSetBack \/ UNCHANGED ttVars
  BY <1>3, <1>5 DEF RoutesLapse, TimePasses, ClockSetBack, ttVars
<1> QED BY <1>1, <1>2, <1>3, <1>4, <1>5, Zenon DEF TimedNext

(***************************************************************************)
(* A planned instant of a trigger is never run twice, for any number of    *)
(* hosts, restarts, redeployments and corrections of the clock: an         *)
(* occurrence is admitted only under an identity no run has, and keeps it. *)
(***************************************************************************)
THEOREM InstantsRunOnce == TimedSpec => []InstantRunsOnce
<1>1. TimedInit => TimedInv
  BY DEF TimedInit, TimedInv, OccurrenceRows, InstantRunsOnce
<1>2. TimedInv /\ [TimedNext]_ttVars => TimedInv'
  BY TimedStepKeeps
<1>3. TimedInv => InstantRunsOnce
  BY DEF TimedInv
<1> QED BY <1>1, <1>2, <1>3, PTL DEF TimedSpec


(* A cursor stands on a planned instant of its registration: its distance  *)
(* from the anchor is a number of periods.                                 *)
Cursors == [definition : Nat, anchor : Int, at : Int]
Aligned(c) == \E j \in Int : c.at = c.anchor + j * Period

TimedSteps ==
  {"down", "prepared", "registered", "catching", "reading", "asleep", "claiming", "ended"}
TimedHosts == [at : TimedSteps, definition : Nat, cursor : Cursors, now : Int]

CursorInv ==
  /\ ttNow \in Int /\ ttCursor \in Cursors /\ Aligned(ttCursor)
  /\ ttHost \in [Hosts -> TimedHosts]
  /\ \A h \in Hosts : Aligned(ttHost[h].cursor)

(* The period is positive, and the definitions of the hosts are numbers. *)
LEMMA TimedFacts ==
  /\ Period \in Nat /\ Period > 0
  /\ \A h \in Hosts : \A d \in Deployed[h] : d \in Nat
  BY TimedAssumption

(* Periods are counted: one more period is one more multiple. *)
LEMMA OneMore ==
  ASSUME NEW j \in Int, NEW p \in Nat
  PROVE  (j + 1) * p = j * p + p /\ j * p \in Int
  OBVIOUS

(* A smaller multiple of a period is a smaller number. *)
LEMMA FewerPeriods ==
  ASSUME NEW j \in Int, NEW q \in Int, NEW p \in Nat, p > 0, (q + 1) * p > j * p
  PROVE  j * p <= q * p
<1>1. CASE j <= q
  BY <1>1
<1>2. CASE q + 1 <= j
  <2>1. (q + 1) * p <= j * p
    BY <1>2
  <2> QED BY <2>1
<1> QED BY <1>1, <1>2

(* The instants computed from an anchor lie on its grid, and the next one  *)
(* is one period after the latest.                                         *)
LEMMA InstantFacts ==
  ASSUME NEW anchor \in Int, NEW t \in Int
  PROVE  \E q \in Int : /\ LatestAtOrBefore(anchor, t) = anchor + q * Period
                        /\ NextAfter(anchor, t) = anchor + (q + 1) * Period
                        /\ NextAfter(anchor, t) = LatestAtOrBefore(anchor, t) + Period
<1>1. PICK q \in Int : q = (t - anchor) \div Period
  BY TimedFacts
<1>2. /\ LatestAtOrBefore(anchor, t) = anchor + q * Period
      /\ NextAfter(anchor, t) = anchor + (q + 1) * Period
  BY <1>1 DEF LatestAtOrBefore, NextAfter
<1>3. (q + 1) * Period = q * Period + Period /\ q * Period \in Int
  BY OneMore, TimedFacts
<1>4. NextAfter(anchor, t) = LatestAtOrBefore(anchor, t) + Period
  BY <1>2, <1>3, TimedFacts
<1> QED BY <1>2, <1>4

(* A cursor that moves to the grid keeps its registration. *)
LEMMA MovedCursor ==
  ASSUME NEW c \in Cursors, NEW next \in Int, NEW j \in Int, next = c.anchor + j * Period
  PROVE  [c EXCEPT !.at = next] \in Cursors /\ Aligned([c EXCEPT !.at = next])
  BY DEF Cursors, Aligned

(* Where a claim moves the cursor: one period behind the instant it admits, *)
(* which the cursor has not passed if the update is valid.                 *)
LEMMA ClaimedPosition ==
  ASSUME NEW c \in Cursors, Aligned(c), NEW now \in Int, NEW planned, NEW next,
         \/ next = NextAfter(c.anchor, now) /\ planned = LatestAtOrBefore(c.anchor, now)
         \/ next = c.at + Period /\ planned = c.at
  PROVE  /\ next \in Int /\ planned \in Int /\ next = planned + Period
         /\ \E j \in Int : next = c.anchor + j * Period
         /\ next > c.at => c.at <= planned
<1>0. c.anchor \in Int /\ c.at \in Int
  BY DEF Cursors
<1>1. PICK j \in Int : c.at = c.anchor + j * Period
  BY DEF Aligned
<1>2. (j + 1) * Period = j * Period + Period /\ j * Period \in Int
  BY OneMore, TimedFacts
<1>3. CASE next = c.at + Period /\ planned = c.at
  <2>1. next = c.anchor + (j + 1) * Period
    BY <1>0, <1>1, <1>2, <1>3, TimedFacts
  <2>2. \E k \in Int : next = c.anchor + k * Period
    BY <2>1
  <2>3. next \in Int /\ planned \in Int /\ next = planned + Period /\ c.at <= planned
    BY <1>0, <1>3, TimedFacts
  <2> QED BY <2>2, <2>3
<1>4. CASE next = NextAfter(c.anchor, now) /\ planned = LatestAtOrBefore(c.anchor, now)
  <2>1. PICK q \in Int : /\ planned = c.anchor + q * Period
                         /\ next = c.anchor + (q + 1) * Period
                         /\ next = planned + Period
    BY <1>0, <1>4, InstantFacts
  <2>2. q * Period \in Int /\ (q + 1) * Period = q * Period + Period
    BY OneMore, TimedFacts
  <2>3. planned \in Int /\ next \in Int
    BY <1>0, <2>1, <2>2, TimedFacts
  <2>4. ASSUME next > c.at PROVE c.at <= planned
    <3>1. (q + 1) * Period > j * Period
      BY <1>0, <1>1, <1>2, <2>1, <2>2, <2>4, TimedFacts
    <3>2. j * Period <= q * Period
      BY <3>1, FewerPeriods, TimedFacts
    <3> QED BY <1>0, <1>1, <1>2, <2>1, <2>2, <3>2
  <2> QED BY <2>1, <2>3, <2>4
<1> QED BY <1>3, <1>4

(* A host at a step is a host, and without a cursor it stands on any grid. *)
LEMMA HostAtFacts ==
  ASSUME NEW step \in TimedSteps, NEW d \in Nat
  PROVE  HostAt(step, d) \in TimedHosts /\ Aligned(HostAt(step, d).cursor)
<1>1. NoCursor \in Cursors /\ NoCursor.at = 0 /\ NoCursor.anchor = 0
  BY DEF NoCursor, Cursors
<1>2. 0 * Period = 0
  BY TimedFacts
<1>3. Aligned(NoCursor)
  BY <1>1, <1>2 DEF Aligned
<1>4. HostAt(step, d).cursor = NoCursor
  BY DEF HostAt
<1> QED BY <1>1, <1>3, <1>4 DEF HostAt, TimedHosts

(* The invariant survives a host that takes one step. *)
LEMMA HostStep ==
  ASSUME CursorInv, NEW h \in Hosts, NEW x \in TimedHosts, Aligned(x.cursor),
         ttHost' = [ttHost EXCEPT ![h] = x]
  PROVE  /\ ttHost' \in [Hosts -> TimedHosts]
         /\ \A k \in Hosts : Aligned(ttHost'[k].cursor)
<1>1. ttHost \in [Hosts -> TimedHosts]
  BY DEF CursorInv
<1>2. \A k \in Hosts : ttHost'[k] = IF k = h THEN x ELSE ttHost[k]
  BY <1>1
<1>3. ttHost' \in [Hosts -> TimedHosts]
  BY <1>1
<1>4. \A k \in Hosts : ttHost'[k].cursor = IF k = h THEN x.cursor ELSE ttHost[k].cursor
  BY <1>2
<1> QED BY <1>3, <1>4 DEF CursorInv

(* A claim of an instant of a host's cursor, or the step over it. *)
ClaimStep(h, planned, next) ==
  /\ UpdateValid(ttHost[h].cursor, next)
  /\ ttCursor' = [ttCursor EXCEPT !.at = next]
  /\ \/ ttMissed # "run-once" /\ ttRuns' = ttRuns
     \/ ttRuns' = ttRuns \cup {Occurrence(h, planned)}
     \/ /\ ttRuns' = ttRuns
        /\ \E r \in ttRuns : r.anchor = ttHost[h].cursor.anchor /\ r.planned = planned

(* The claim of an occurrence commits only with its cursor. *)
LEMMA ClaimCommits ==
  ASSUME NEW h \in Hosts, NEW planned, NEW next,
         ClaimOutcome(h, planned, next) \in {"ok", "duplicate"}
  PROVE  /\ UpdateValid(ttHost[h].cursor, next)
         /\ ClaimOutcome(h, planned, next) = "duplicate" =>
              \E r \in ttRuns : r.anchor = ttHost[h].cursor.anchor /\ r.planned = planned
<1>1. /\ UpdateValid(ttHost[h].cursor, next)
      /\ Admission(h, planned) = ClaimOutcome(h, planned, next)
  <2>1. CASE UpdateValid(ttHost[h].cursor, next)
    BY <2>1 DEF ClaimOutcome
  <2>2. CASE ~UpdateValid(ttHost[h].cursor, next)
    <3>1. PICK a : a = Admission(h, planned)
      OBVIOUS
    <3>2. ClaimOutcome(h, planned, next) =
            IF a \in {"ok", "duplicate"} THEN "cursor_conflict" ELSE a
      BY <2>2, <3>1, Zenon DEF ClaimOutcome
    <3> QED BY <3>2
  <2> QED BY <2>1, <2>2
<1>2. Admission(h, planned) = "duplicate" =>
        \E r \in ttRuns : r.anchor = ttHost[h].cursor.anchor /\ r.planned = planned
  BY DEF Admission
<1> QED BY <1>1, <1>2

(* What a claiming host does: nothing, or a claim of one of its instants. *)
LEMMA ClaimSteps ==
  ASSUME NEW h \in Hosts, CatchUp(h) \/ TimerClaims(h)
  PROVE  \/ ttCursor' = ttCursor /\ ttRuns' = ttRuns
         \/ \E planned, next :
              /\ ClaimStep(h, planned, next)
              /\ \/ /\ next = NextAfter(ttHost[h].cursor.anchor, ttHost[h].now)
                    /\ planned = LatestAtOrBefore(ttHost[h].cursor.anchor, ttHost[h].now)
                 \/ /\ next = ttHost[h].cursor.at + Period
                    /\ planned = ttHost[h].cursor.at
<1> DEFINE Moves(planned, next) ==
             ClaimStep(h, planned, next) \/ (ttCursor' = ttCursor /\ ttRuns' = ttRuns)
<1>1. ASSUME NEW planned, NEW next, NEW outcome,
             \/ outcome = ClaimOutcome(h, planned, next)
             \/ /\ ttMissed # "run-once"
                /\ outcome = IF UpdateValid(ttHost[h].cursor, next)
                               THEN "skipped" ELSE "cursor_conflict",
             \/ /\ outcome \in {"ok", "duplicate", "skipped"}
                /\ ttCursor' = [ttCursor EXCEPT !.at = next]
                /\ ttRuns' = ttRuns \cup (IF outcome = "ok" THEN {Occurrence(h, planned)} ELSE {})
             \/ ttCursor' = ttCursor /\ ttRuns' = ttRuns
      PROVE  Moves(planned, next)
  <2>1. CASE outcome = ClaimOutcome(h, planned, next) /\ outcome \in {"ok", "duplicate"}
    BY <1>1, <2>1, ClaimCommits DEF ClaimStep
  <2>2. CASE outcome = ClaimOutcome(h, planned, next) /\ outcome \notin {"ok", "duplicate"}
    <3>1. Admission(h, planned) # "skipped"
      BY DEF Admission
    <3>2. PICK a : a = Admission(h, planned)
      OBVIOUS
    <3>3. outcome = a \/ outcome = "cursor_conflict"
      BY <2>2, <3>2, Zenon DEF ClaimOutcome
    <3>4. outcome # "skipped"
      BY <3>1, <3>2, <3>3
    <3> QED BY <1>1, <2>2, <3>4
  <2>3. CASE /\ ttMissed # "run-once"
             /\ outcome = IF UpdateValid(ttHost[h].cursor, next)
                            THEN "skipped" ELSE "cursor_conflict"
    <3>1. CASE UpdateValid(ttHost[h].cursor, next)
      BY <1>1, <2>3, <3>1 DEF ClaimStep
    <3>2. CASE ~UpdateValid(ttHost[h].cursor, next)
      <4>1. outcome = "cursor_conflict"
        BY <2>3, <3>2, Zenon
      <4>2. outcome \notin {"ok", "duplicate", "skipped"}
        BY ONLY <4>1
      <4> QED BY <1>1, <4>2, Zenon
    <3> QED BY <3>1, <3>2
  <2> QED BY <1>1, <2>1, <2>2, <2>3, Zenon
<1>2. CASE CatchUp(h)
  <2> DEFINE planned == LatestAtOrBefore(ttHost[h].cursor.anchor, ttHost[h].now)
             next == NextAfter(ttHost[h].cursor.anchor, ttHost[h].now)
             outcome == IF ttMissed = "run-once" THEN ClaimOutcome(h, planned, next)
                        ELSE IF UpdateValid(ttHost[h].cursor, next) THEN "skipped"
                        ELSE "cursor_conflict"
  <2>1. \/ outcome = ClaimOutcome(h, planned, next)
        \/ /\ ttMissed # "run-once"
           /\ outcome = IF UpdateValid(ttHost[h].cursor, next)
                          THEN "skipped" ELSE "cursor_conflict"
    BY Zenon
  <2>2. \/ /\ outcome \in {"ok", "duplicate", "skipped"}
           /\ ttCursor' = [ttCursor EXCEPT !.at = next]
           /\ ttRuns' = ttRuns \cup (IF outcome = "ok" THEN {Occurrence(h, planned)} ELSE {})
        \/ ttCursor' = ttCursor /\ ttRuns' = ttRuns
    BY <1>2, Zenon DEF CatchUp, ActivationFails
  <2> HIDE DEF outcome
  <2>3. Moves(planned, next)
    BY <1>1, <2>1, <2>2, Zenon
  <2> QED BY <2>3
<1>3. CASE TimerClaims(h)
  <2> DEFINE several == ttHost[h].cursor.at + Period <= ttHost[h].now
             planned == IF several
                          THEN LatestAtOrBefore(ttHost[h].cursor.anchor, ttHost[h].now)
                          ELSE ttHost[h].cursor.at
             next == NextPosition(ttHost[h].cursor, ttHost[h].now)
             outcome == IF ~(several /\ ttMissed = "skip") THEN ClaimOutcome(h, planned, next)
                        ELSE IF UpdateValid(ttHost[h].cursor, next) THEN "skipped"
                        ELSE "cursor_conflict"
  <2>1. \/ outcome = ClaimOutcome(h, planned, next)
        \/ /\ ttMissed # "run-once"
           /\ outcome = IF UpdateValid(ttHost[h].cursor, next)
                          THEN "skipped" ELSE "cursor_conflict"
    <3>1. CASE ~(several /\ ttMissed = "skip")
      BY <3>1, Zenon
    <3>2. CASE several /\ ttMissed = "skip"
      <4>1. ttMissed # "run-once"
        BY <3>2
      <4> QED BY <3>2, <4>1, Zenon
    <3> QED BY <3>1, <3>2, Zenon
  <2>2. \/ /\ outcome \in {"ok", "duplicate", "skipped"}
           /\ ttCursor' = [ttCursor EXCEPT !.at = next]
           /\ ttRuns' = ttRuns \cup (IF outcome = "ok" THEN {Occurrence(h, planned)} ELSE {})
        \/ ttCursor' = ttCursor /\ ttRuns' = ttRuns
    <3> HIDE DEF several
    <3>1. /\ ttCursor' = IF outcome \in {"ok", "duplicate", "skipped"}
                           THEN [ttCursor EXCEPT !.at = next] ELSE ttCursor
          /\ ttRuns' = ttRuns \cup (IF outcome = "ok" THEN {Occurrence(h, planned)} ELSE {})
      BY <1>3, Zenon DEF TimerClaims, several
    <3> HIDE DEF outcome, planned, next
    <3> QED BY <3>1
  <2>3. Moves(planned, next)
    <3> HIDE DEF outcome, planned, next, several
    <3> QED BY <1>1, <2>1, <2>2, Zenon
  <2>4. CASE several
    <3>1. /\ next = NextAfter(ttHost[h].cursor.anchor, ttHost[h].now)
          /\ planned = LatestAtOrBefore(ttHost[h].cursor.anchor, ttHost[h].now)
      BY <2>4, Zenon DEF NextPosition
    <3> HIDE DEF planned, next
    <3> QED BY <2>3, <3>1
  <2>5. CASE ~several
    <3>1. next = ttHost[h].cursor.at + Period /\ planned = ttHost[h].cursor.at
      BY <2>5, Zenon DEF NextPosition
    <3> HIDE DEF planned, next
    <3> QED BY <2>3, <3>1
  <2> QED BY <2>4, <2>5
<1> QED BY <1>2, <1>3

(* A registration starts on its own grid. *)
LEMMA FreshCursorFacts ==
  ASSUME NEW d \in Nat, ttNow \in Int
  PROVE  FreshCursor(d) \in Cursors /\ Aligned(FreshCursor(d))
<1>1. CASE ttKind = "interval"
  <2>1. 1 * Period = Period /\ Period \in Nat
    BY TimedFacts
  <2>2. FreshCursor(d) = [definition |-> d, anchor |-> ttNow, at |-> ttNow + Period]
    BY <1>1 DEF FreshCursor
  <2> QED BY <2>1, <2>2 DEF Cursors, Aligned
<1>2. CASE ttKind # "interval"
  <2>1. PICK q \in Int : q = (ttNow + Period - 1) \div Period
    BY TimedFacts
  <2>2. FreshCursor(d) = [definition |-> d, anchor |-> 0, at |-> q * Period]
    BY <1>2, <2>1 DEF FreshCursor, NextAtOrAfter
  <2>3. q * Period \in Int /\ q * Period = 0 + q * Period
    BY OneMore, TimedFacts
  <2> QED BY <2>2, <2>3 DEF Cursors, Aligned
<1> QED BY <1>1, <1>2

(* A claim keeps the cursor on its grid, and moves it as the property says. *)
LEMMA ClaimMovesCursor ==
  ASSUME CursorInv, NEW h \in Hosts, NEW planned, NEW next, ClaimStep(h, planned, next),
         \/ /\ next = NextAfter(ttHost[h].cursor.anchor, ttHost[h].now)
            /\ planned = LatestAtOrBefore(ttHost[h].cursor.anchor, ttHost[h].now)
         \/ /\ next = ttHost[h].cursor.at + Period
            /\ planned = ttHost[h].cursor.at
  PROVE  /\ ttCursor' \in Cursors /\ Aligned(ttCursor')
         /\ \A r \in ttRuns' \ ttRuns : r.state = "queued" =>
              /\ r.anchor = ttCursor.anchor /\ ttCursor.at <= r.planned
              /\ ttCursor' = [ttCursor EXCEPT !.at = r.planned + Period]
         /\ ttCursor'.at > ttCursor.at
         /\ ttMissed = "run-once"
              => \E r \in ttRuns' :
                   r.anchor = ttCursor.anchor /\ r.planned = ttCursor'.at - Period
<1>1. PICK c \in Cursors : c = ttHost[h].cursor
  BY DEF CursorInv, TimedHosts
<1>2. Aligned(c)
  BY <1>1 DEF CursorInv
<1>13. PICK now \in Int : now = ttHost[h].now
  BY DEF CursorInv, TimedHosts
<1>14. \/ next = NextAfter(c.anchor, now) /\ planned = LatestAtOrBefore(c.anchor, now)
       \/ next = c.at + Period /\ planned = c.at
  BY <1>1, <1>13
<1>3. /\ next \in Int /\ planned \in Int /\ next = planned + Period
      /\ \E j \in Int : next = c.anchor + j * Period
      /\ next > c.at => c.at <= planned
  BY <1>2, <1>14, ClaimedPosition
<1>4. /\ next > c.at /\ ttCursor.at = c.at /\ ttCursor.anchor = c.anchor
      /\ ttCursor' = [ttCursor EXCEPT !.at = next]
  BY <1>1 DEF ClaimStep, UpdateValid
<1>5. ttCursor \in Cursors
  BY DEF CursorInv
<1>6. ttCursor' \in Cursors /\ Aligned(ttCursor')
  BY <1>3, <1>4, <1>5, MovedCursor
<1>7. ttCursor'.at = next
  BY <1>4, <1>5 DEF Cursors
<1>8. Occurrence(h, planned).anchor = c.anchor /\ Occurrence(h, planned).planned = planned
  BY <1>1 DEF Occurrence
<1>9. \A r \in ttRuns' \ ttRuns : r = Occurrence(h, planned)
  BY DEF ClaimStep
<1>10. \A r \in ttRuns' \ ttRuns :
         /\ r.anchor = ttCursor.anchor /\ ttCursor.at <= r.planned
         /\ ttCursor' = [ttCursor EXCEPT !.at = r.planned + Period]
  BY <1>3, <1>4, <1>8, <1>9
<1>11. ttMissed = "run-once" => \E r \in ttRuns' : r.anchor = c.anchor /\ r.planned = planned
  BY <1>1, <1>8 DEF ClaimStep
<1>12. planned = next - Period
  BY ONLY <1>3, TimedFacts
<1> QED BY <1>4, <1>6, <1>7, <1>10, <1>11, <1>12

(* Every step keeps the cursors on their grids. *)
LEMMA CursorsStayAligned ==
  ASSUME CursorInv, [TimedNext]_ttVars
  PROVE  CursorInv'
<1>0. ttHost \in [Hosts -> TimedHosts] /\ ttCursor \in Cursors /\ Aligned(ttCursor)
  BY DEF CursorInv
<1>1. ASSUME NEW h \in Hosts, PrepareHost(h) PROVE CursorInv'
  <2>1. PICK d \in Deployed[h] : ttHost' = [ttHost EXCEPT ![h] = HostAt("prepared", d)]
    BY <1>1 DEF PrepareHost
  <2>2. HostAt("prepared", d) \in TimedHosts /\ Aligned(HostAt("prepared", d).cursor)
    BY HostAtFacts, TimedFacts DEF TimedSteps
  <2>3. ttNow' = ttNow /\ ttCursor' = ttCursor
    BY <1>1 DEF PrepareHost
  <2> QED BY <2>1, <2>2, <2>3, HostStep DEF CursorInv
<1>2. HostDown \in TimedHosts /\ Aligned(HostDown.cursor)
  BY HostAtFacts DEF HostDown, TimedSteps
<1>3. ASSUME NEW h \in Hosts PROVE ttHost[h].definition \in Nat
  BY <1>0 DEF TimedHosts
<1>4. ASSUME NEW h \in Hosts, NEW step \in TimedSteps, ttHost' = [ttHost EXCEPT ![h].at = step]
      PROVE  /\ ttHost' \in [Hosts -> TimedHosts]
             /\ \A k \in Hosts : Aligned(ttHost'[k].cursor)
  <2>1. PICK x : x = [ttHost[h] EXCEPT !.at = step]
    OBVIOUS
  <2>2. x \in TimedHosts /\ x.cursor = ttHost[h].cursor
    BY <1>0, <2>1 DEF TimedHosts
  <2>3. Aligned(x.cursor)
    BY <2>2 DEF CursorInv
  <2>4. ttHost' = [ttHost EXCEPT ![h] = x]
    BY <1>0, <1>4, <2>1
  <2> QED BY <2>2, <2>3, <2>4, HostStep
<1>5. ASSUME NEW h \in Hosts, RegisterRoutes(h) PROVE CursorInv'
  <2>1. ttNow' = ttNow /\ ttCursor' = ttCursor
    BY <1>5 DEF RegisterRoutes
  <2>2. CASE ttHost' = [ttHost EXCEPT ![h] = HostDown]
    BY <1>2, <2>1, <2>2, HostStep DEF CursorInv
  <2>3. CASE ttHost' = [ttHost EXCEPT ![h].at = "registered"]
    BY <1>4, <2>1, <2>3 DEF CursorInv, TimedSteps
  <2> QED BY <1>5, <2>2, <2>3 DEF RegisterRoutes
<1>6. ASSUME NEW h \in Hosts, Activated(h)
      PROVE  /\ ttHost' \in [Hosts -> TimedHosts]
             /\ \A k \in Hosts : Aligned(ttHost'[k].cursor)
  <2>1. PICK x : x = HostAt("reading", ttHost[h].definition)
    OBVIOUS
  <2>2. x \in TimedHosts /\ Aligned(x.cursor)
    BY <1>3, <2>1, HostAtFacts DEF TimedSteps
  <2> QED BY <1>6, <2>1, <2>2, HostStep DEF Activated
<1>7. ASSUME NEW h \in Hosts, RegisterCursor(h) PROVE CursorInv'
  <2>1. PICK d \in Nat : d = ttHost[h].definition
    BY <1>3
  <2>2. PICK row \in Cursors : /\ row = IF ttCursor.definition = d THEN ttCursor ELSE FreshCursor(d)
                               /\ Aligned(row)
    BY <1>0, FreshCursorFacts DEF CursorInv
  <2>3. ttCursor' = row /\ ttNow' = ttNow
    BY <1>7, <2>1, <2>2 DEF RegisterCursor
  <2>4. CASE Activated(h)
    BY <1>6, <2>2, <2>3, <2>4 DEF CursorInv
  <2>5. CASE ttHost' = [ttHost EXCEPT ![h].at = "catching", ![h].cursor = row, ![h].now = ttNow]
    <3>1. PICK x : x = [ttHost[h] EXCEPT !.at = "catching", !.cursor = row, !.now = ttNow]
      OBVIOUS
    <3>3. x \in TimedHosts /\ x.cursor = row
      BY <1>0, <3>1 DEF TimedHosts, TimedSteps, CursorInv
    <3>2. ttHost' = [ttHost EXCEPT ![h] = x]
      BY <1>0, <2>5, <3>1
    <3> QED BY <2>2, <2>3, <3>2, <3>3, HostStep DEF CursorInv
  <2> QED BY <1>7, <2>1, <2>2, <2>4, <2>5 DEF RegisterCursor
<1>8. ASSUME NEW h \in Hosts, CatchUp(h) \/ TimerClaims(h)
      PROVE  ttNow' = ttNow /\ ttCursor' \in Cursors /\ Aligned(ttCursor')
  BY <1>0, <1>8, ClaimSteps, ClaimMovesCursor DEF CatchUp, TimerClaims
<1>9. ASSUME NEW h \in Hosts, CatchUp(h) PROVE CursorInv'
  <2>1. Activated(h) \/ ttHost' = [ttHost EXCEPT ![h] = HostDown]
    BY <1>9 DEF CatchUp, ActivationFails
  <2>2. /\ ttHost' \in [Hosts -> TimedHosts]
        /\ \A k \in Hosts : Aligned(ttHost'[k].cursor)
    BY <1>2, <1>6, <2>1, HostStep
  <2> QED BY <1>8, <1>9, <2>2 DEF CursorInv
<1>10. ASSUME NEW h \in Hosts, TimerClaims(h) PROVE CursorInv'
  <2>1. PICK step \in {"reading", "ended"} :
          ttHost' = [ttHost EXCEPT ![h] = HostAt(step, ttHost[h].definition)]
    BY <1>10, Zenon DEF TimerClaims
  <2>2. PICK x : x = HostAt(step, ttHost[h].definition)
    OBVIOUS
  <2>3. x \in TimedHosts /\ Aligned(x.cursor)
    BY <1>3, <2>2, HostAtFacts DEF TimedSteps
  <2> QED BY <1>8, <1>10, <2>1, <2>2, <2>3, HostStep DEF CursorInv
<1>11. ASSUME NEW h \in Hosts, TimerReads(h) PROVE CursorInv'
  <2>1. PICK x : x = [ttHost[h] EXCEPT !.at = "asleep", !.cursor = ttCursor]
    OBVIOUS
  <2>2. x \in TimedHosts /\ x.cursor = ttCursor
    BY <1>0, <2>1 DEF TimedHosts, TimedSteps
  <2>3. ttHost' = [ttHost EXCEPT ![h] = x] /\ ttNow' = ttNow /\ ttCursor' = ttCursor
    BY <1>0, <1>11, <2>1 DEF TimerReads
  <2> QED BY <1>0, <2>2, <2>3, HostStep DEF CursorInv
<1>12. ASSUME NEW h \in Hosts, TimerWakes(h) PROVE CursorInv'
  <2>1. PICK x : x = [ttHost[h] EXCEPT !.at = "claiming", !.now = ttNow]
    OBVIOUS
  <2>2. x \in TimedHosts /\ x.cursor = ttHost[h].cursor
    BY <1>0, <2>1 DEF TimedHosts, CursorInv, TimedSteps
  <2>3. Aligned(x.cursor)
    BY <2>2 DEF CursorInv
  <2>4. ttHost' = [ttHost EXCEPT ![h] = x] /\ ttNow' = ttNow /\ ttCursor' = ttCursor
    BY <1>0, <1>12, <2>1 DEF TimerWakes
  <2> QED BY <2>2, <2>3, <2>4, HostStep DEF CursorInv
<1>13. ASSUME NEW h \in Hosts, StopHost(h) \/ CrashHost(h) PROVE CursorInv'
  <2>1. ttHost' = [ttHost EXCEPT ![h] = HostDown] /\ ttNow' = ttNow /\ ttCursor' = ttCursor
    BY <1>13 DEF StopHost, CrashHost
  <2> QED BY <1>2, <2>1, HostStep DEF CursorInv
<1>14. CASE TimePasses \/ ClockSetBack
  BY <1>14 DEF TimePasses, ClockSetBack, CursorInv
<1>15. CASE ttNow' = ttNow /\ ttCursor' = ttCursor /\ ttHost' = ttHost
  BY <1>15 DEF CursorInv
<1> QED BY <1>1, <1>5, <1>7, <1>9, <1>10, <1>11, <1>12, <1>13, <1>14, <1>15
        DEF TimedNext, ttVars, RenewRoutes, RoutesLapse, TimedRunMoves

(* What the property says of one step. *)
MovesTogether ==
  /\ \A r \in ttRuns' \ ttRuns : r.state = "queued" =>
       /\ r.anchor = ttCursor.anchor /\ ttCursor.at <= r.planned
       /\ ttCursor' = [ttCursor EXCEPT !.at = r.planned + Period]
  /\ ttCursor'.at # ttCursor.at /\ ttCursor'.definition = ttCursor.definition
       => /\ ttCursor'.at > ttCursor.at
          /\ ttMissed = "run-once"
               => \E r \in ttRuns' :
                    r.anchor = ttCursor.anchor /\ r.planned = ttCursor'.at - Period

(***************************************************************************)
(* The cursor of a trigger and its runs move together, for any number of   *)
(* hosts, definitions, deaths and corrections of the clock: no host admits *)
(* a run for an instant the cursor has passed or under a registration that *)
(* was replaced, and under run-once no elapsed instants are stepped over   *)
(* without a run for the latest.                                           *)
(***************************************************************************)
THEOREM CursorAndRunsMoveTogether == TimedSpec => CursorMovesWithRun
<1>1. TimedInit => CursorInv /\ OccurrenceRows
  <2> SUFFICES ASSUME TimedInit PROVE CursorInv /\ OccurrenceRows
    OBVIOUS
  <2>1. NoCursor \in Cursors /\ NoCursor.at = 0 /\ NoCursor.anchor = 0
    BY DEF NoCursor, Cursors
  <2>2. 0 * Period = 0
    BY TimedFacts
  <2>3. Aligned(NoCursor)
    BY <2>1, <2>2 DEF Aligned
  <2>4. HostDown \in TimedHosts /\ Aligned(HostDown.cursor)
    BY HostAtFacts DEF HostDown, TimedSteps
  <2>5. ttHost = [h \in Hosts |-> HostDown] /\ ttCursor = NoCursor /\ ttNow = 0 /\ ttRuns = {}
    BY DEF TimedInit
  <2> QED BY <2>1, <2>3, <2>4, <2>5 DEF CursorInv, OccurrenceRows
<1>2. CursorInv /\ [TimedNext]_ttVars => CursorInv'
  BY CursorsStayAligned
<1>3. CursorInv /\ OccurrenceRows /\ [TimedNext]_ttVars => MovesTogether
  <2> SUFFICES ASSUME CursorInv, OccurrenceRows, [TimedNext]_ttVars PROVE MovesTogether
    OBVIOUS
  <2>1. CASE ttRuns' = ttRuns /\ ttCursor' = ttCursor
    BY <2>1 DEF MovesTogether
  <2>2. CASE \E h \in Hosts : CatchUp(h) \/ TimerClaims(h)
    BY <2>1, <2>2, ClaimSteps, ClaimMovesCursor DEF MovesTogether
  <2>3. ASSUME NEW h \in Hosts, RegisterCursor(h) PROVE MovesTogether
    <3>1. ttRuns' = ttRuns
      BY <2>3 DEF RegisterCursor
    <3>2. ttCursor' = ttCursor \/ ttCursor'.definition # ttCursor.definition
      BY <2>3 DEF RegisterCursor, FreshCursor
    <3> QED BY <3>1, <3>2 DEF MovesTogether
  <2>4. CASE TimedRunMoves
    <3>1. ttCursor' = ttCursor
      BY <2>4 DEF TimedRunMoves
    <3>2. PICK r \in ttRuns, state \in {"running", "ended"} :
            ttRuns' = (ttRuns \ {r}) \cup {[r EXCEPT !.state = state]}
      BY <2>4 DEF TimedRunMoves, Live
    <3>3. [r EXCEPT !.state = state].state = state
      BY DEF OccurrenceRows
    <3>4. \A s \in ttRuns' \ ttRuns : s.state # "queued"
      BY <3>2, <3>3
    <3> QED BY <3>1, <3>4 DEF MovesTogether
  <2> QED BY <2>1, <2>2, <2>3, <2>4 DEF TimedNext, ttVars, PrepareHost, RegisterRoutes,
             TimerReads, TimerWakes, RenewRoutes, StopHost, CrashHost,
             RoutesLapse, TimePasses, ClockSetBack
<1>4. TimedInit => TimedInv
  BY DEF TimedInit, TimedInv, OccurrenceRows, InstantRunsOnce
<1>5. TimedInv /\ [TimedNext]_ttVars => TimedInv'
  BY TimedStepKeeps
<1>6. TimedInv => OccurrenceRows
  BY DEF TimedInv
<1>7. CursorMovesWithRun <=> [][MovesTogether]_ttVars
  BY DEF CursorMovesWithRun, MovesTogether
<1> QED BY <1>1, <1>2, <1>3, <1>4, <1>5, <1>6, <1>7, PTL DEF TimedSpec

-----------------------------------------------------------------------------
(* Parallel groups.                                                        *)
(*                                                                         *)
(* What the driver has under way is exactly what the history says has      *)
(* started, unless the run is being cancelled, and what may be started has *)
(* had no effect.                                                          *)

GroupRows ==
  [attempt : Nat, status : {"none", "started", "succeeded", "failed", "cancelled"},
   retry : {"no", "later", "due"}]

GroupTypes ==
  /\ pgPolicy \in {"fail-fast", "wait-all"}
  /\ pgRun \in {"running", "cancelling", "cancelled", "failed", "succeeded"}
  /\ pgGroup \in {"unopened", "started", "succeeded", "failed"}
  /\ pgChild \in [Children -> GroupRows]
  /\ pgDriver \in [at : {"gone", "none", "loop", "group", "failing", "settling", "returned"},
                   ready : SUBSET Children, active : SUBSET Children, closed : BOOLEAN]
  /\ pgEffects \in [Children -> SUBSET Nat]

ChildEffects ==
  \A c \in Children :
    /\ pgEffects[c] \subseteq {pgChild[c].attempt}
    /\ pgChild[c].status = "none" \/ pgChild[c].retry # "no" => pgEffects[c] = {}
    /\ pgChild[c].retry # "no" => pgChild[c].status = "failed"
    /\ pgGroup = "unopened" => pgChild[c].status = "none"

GroupDriving ==
  /\ \A c \in pgDriver.active : pgChild[c].status = "started"
  /\ pgRun = "succeeded" => pgDriver.at \in {"gone", "none", "returned"}
  /\ pgRun = "running" /\ pgDriver.at \in {"none", "loop", "group"}
       => WithStatus("started") = pgDriver.active
  /\ pgDriver.at # "group" => pgDriver.active = {}

(* A final failure of a fail-fast group is always about to end it. *)
FailFastCloses ==
  pgPolicy = "fail-fast" /\ pgRun = "running" /\ pgGroup = "started" /\ FailedChildren # {}
    => pgDriver.at \in {"gone", "returned"} \/ (pgDriver.at = "group" /\ pgDriver.closed)

GroupInv ==
  GroupTypes /\ ChildEffects /\ GroupDriving /\ FailFastCloses /\ GroupOutcomeHonest
LEMMA GroupDrivers ==
  ASSUME NEW step \in {"gone", "none", "loop", "group", "failing", "settling", "returned"}
  PROVE  /\ GroupDriverAt(step) \in
              [at : {"gone", "none", "loop", "group", "failing", "settling", "returned"},
               ready : SUBSET Children, active : SUBSET Children, closed : BOOLEAN]
         /\ GroupDriverAt(step).at = step /\ GroupDriverAt(step).active = {}
         /\ GroupDriverAt(step).closed = FALSE
  BY DEF GroupDriverAt


LEMMA OpenGroupKeeps ==
  ASSUME GroupInv, OpenGroup
  PROVE  GroupInv'
<1> USE DEF GroupInv
<1>1. GroupTypes'
  BY DEF OpenGroup, GroupOverdue, GroupTypes, GroupRows, WithStatus
<1>2. ChildEffects'
  BY DEF OpenGroup, GroupOverdue, GroupTypes, GroupRows, ChildEffects, GroupDriving, WithStatus
<1>3. GroupDriving'
  BY DEF OpenGroup, GroupOverdue, GroupTypes, GroupRows, ChildEffects, GroupDriving, WithStatus
<1>4. FailFastCloses'
  BY DEF OpenGroup, GroupOverdue, GroupTypes, GroupRows, ChildEffects, GroupDriving, FailFastCloses,
         FailedChildren, Retrying, WithStatus
<1>5. GroupOutcomeHonest'
  BY DEF OpenGroup, GroupOverdue, GroupTypes, GroupRows, ChildEffects, GroupDriving, GroupOutcomeHonest,
         SettledChildren, CancelledChildren, FailedChildren, Retrying, WithStatus
<1> QED BY <1>1, <1>2, <1>3, <1>4, <1>5

LEMMA EnterGroupKeeps ==
  ASSUME GroupInv, EnterGroup
  PROVE  GroupInv'
<1> USE DEF GroupInv
<1>1. GroupTypes'
  BY DEF EnterGroup, GroupOverdue, ReadyChildren, GroupDriverAt, GroupTypes, GroupRows, WithStatus
<1>2. ChildEffects'
  BY DEF EnterGroup, GroupOverdue, ReadyChildren, GroupDriverAt, GroupTypes, GroupRows, ChildEffects, GroupDriving, WithStatus
<1>3. GroupDriving'
  BY DEF EnterGroup, GroupOverdue, ReadyChildren, GroupDriverAt, GroupTypes, GroupRows, ChildEffects, GroupDriving, WithStatus
<1>4. FailFastCloses'
  BY DEF EnterGroup, GroupOverdue, ReadyChildren, GroupDriverAt, GroupTypes, GroupRows, ChildEffects, GroupDriving, FailFastCloses,
         FailedChildren, Retrying, WithStatus
<1>5. GroupOutcomeHonest'
  BY DEF EnterGroup, GroupOverdue, ReadyChildren, GroupDriverAt, GroupTypes, GroupRows, ChildEffects, GroupDriving, GroupOutcomeHonest,
         SettledChildren, CancelledChildren, FailedChildren, Retrying, WithStatus
<1> QED BY <1>1, <1>2, <1>3, <1>4, <1>5

LEMMA PublishResultKeeps ==
  ASSUME GroupInv, PublishResult
  PROVE  GroupInv'
<1> USE DEF GroupInv
<1>1. GroupTypes'
  BY DEF PublishResult, GroupOverdue, GroupDriverAt, GroupTypes, GroupRows, WithStatus
<1>2. ChildEffects'
  BY DEF PublishResult, GroupOverdue, GroupDriverAt, GroupTypes, GroupRows, ChildEffects, GroupDriving, WithStatus
<1>3. GroupDriving'
  BY DEF PublishResult, GroupOverdue, GroupDriverAt, GroupTypes, GroupRows, ChildEffects, GroupDriving, WithStatus
<1>4. FailFastCloses'
  BY DEF PublishResult, GroupOverdue, GroupDriverAt, GroupTypes, GroupRows, ChildEffects, GroupDriving, FailFastCloses,
         FailedChildren, Retrying, WithStatus
<1>5. GroupOutcomeHonest'
  BY DEF PublishResult, GroupOverdue, GroupDriverAt, GroupTypes, GroupRows, ChildEffects, GroupDriving, GroupOutcomeHonest,
         SettledChildren, CancelledChildren, FailedChildren, Retrying, WithStatus
<1> QED BY <1>1, <1>2, <1>3, <1>4, <1>5

LEMMA LeaveGroupLoopKeeps ==
  ASSUME GroupInv, LeaveGroupLoop
  PROVE  GroupInv'
<1> USE DEF GroupInv
<1>1. GroupTypes'
  BY GroupDrivers DEF LeaveGroupLoop, GroupOverdue, GroupRunOpen, GroupTypes, GroupRows, WithStatus
<1>2. ChildEffects'
  BY DEF LeaveGroupLoop, GroupOverdue, GroupDriverAt, GroupRunOpen, GroupTypes, GroupRows, ChildEffects, GroupDriving, WithStatus
<1>3. GroupDriving'
  BY DEF LeaveGroupLoop, GroupOverdue, GroupDriverAt, GroupRunOpen, GroupTypes, GroupRows, ChildEffects, GroupDriving, WithStatus
<1>4. FailFastCloses'
  BY DEF LeaveGroupLoop, GroupOverdue, GroupDriverAt, GroupRunOpen, GroupTypes, GroupRows, ChildEffects, GroupDriving, FailFastCloses,
         FailedChildren, Retrying, WithStatus
<1>5. GroupOutcomeHonest'
  BY DEF LeaveGroupLoop, GroupOverdue, GroupDriverAt, GroupRunOpen, GroupTypes, GroupRows, ChildEffects, GroupDriving, GroupOutcomeHonest,
         SettledChildren, CancelledChildren, FailedChildren, Retrying, WithStatus
<1> QED BY <1>1, <1>2, <1>3, <1>4, <1>5

LEMMA GroupDeadlinePassesKeeps ==
  ASSUME GroupInv, GroupDeadlinePasses
  PROVE  GroupInv'
<1> USE DEF GroupInv
<1>1. GroupTypes'
  BY DEF GroupDeadlinePasses, GroupTypes, GroupRows, WithStatus
<1>2. ChildEffects'
  BY DEF GroupDeadlinePasses, GroupTypes, GroupRows, ChildEffects, GroupDriving, WithStatus
<1>3. GroupDriving'
  BY DEF GroupDeadlinePasses, GroupTypes, GroupRows, ChildEffects, GroupDriving, WithStatus
<1>4. FailFastCloses'
  BY DEF GroupDeadlinePasses, GroupTypes, GroupRows, ChildEffects, GroupDriving, FailFastCloses,
         FailedChildren, Retrying, WithStatus
<1>5. GroupOutcomeHonest'
  BY DEF GroupDeadlinePasses, GroupTypes, GroupRows, ChildEffects, GroupDriving, GroupOutcomeHonest,
         SettledChildren, CancelledChildren, FailedChildren, Retrying, WithStatus
<1> QED BY <1>1, <1>2, <1>3, <1>4, <1>5

LEMMA FailRunKeeps ==
  ASSUME GroupInv, FailRun
  PROVE  GroupInv'
<1> USE DEF GroupInv
<1>1. GroupTypes'
  BY GroupDrivers DEF FailRun, GroupDriverFails, GroupTypes, GroupRows, WithStatus
<1>2. ChildEffects'
  BY DEF FailRun, GroupDriverAt, GroupDriverFails, GroupTypes, GroupRows, ChildEffects, GroupDriving, WithStatus
<1>3. GroupDriving'
  BY DEF FailRun, GroupDriverAt, GroupDriverFails, GroupTypes, GroupRows, ChildEffects, GroupDriving, WithStatus
<1>4. FailFastCloses'
  BY DEF FailRun, GroupDriverAt, GroupDriverFails, GroupTypes, GroupRows, ChildEffects, GroupDriving, FailFastCloses,
         FailedChildren, Retrying, WithStatus
<1>5. GroupOutcomeHonest'
  BY DEF FailRun, GroupDriverAt, GroupDriverFails, GroupTypes, GroupRows, ChildEffects, GroupDriving, GroupOutcomeHonest,
         SettledChildren, CancelledChildren, FailedChildren, Retrying, WithStatus
<1> QED BY <1>1, <1>2, <1>3, <1>4, <1>5

LEMMA StartChildRefusedKeeps ==
  ASSUME GroupInv, StartChildRefused
  PROVE  GroupInv'
<1> USE DEF GroupInv
<1>1. GroupTypes'
  BY GroupDrivers DEF StartChildRefused, GroupDriverFails, GroupTypes, GroupRows, WithStatus
<1>2. ChildEffects'
  BY DEF StartChildRefused, GroupDriverAt, GroupDriverFails, GroupTypes, GroupRows, ChildEffects, GroupDriving, WithStatus
<1>3. GroupDriving'
  BY DEF StartChildRefused, GroupDriverAt, GroupDriverFails, GroupTypes, GroupRows, ChildEffects, GroupDriving, WithStatus
<1>4. FailFastCloses'
  BY DEF StartChildRefused, GroupDriverAt, GroupDriverFails, GroupTypes, GroupRows, ChildEffects, GroupDriving, FailFastCloses,
         FailedChildren, Retrying, WithStatus
<1>5. GroupOutcomeHonest'
  BY DEF StartChildRefused, GroupDriverAt, GroupDriverFails, GroupTypes, GroupRows, ChildEffects, GroupDriving, GroupOutcomeHonest,
         SettledChildren, CancelledChildren, FailedChildren, Retrying, WithStatus
<1> QED BY <1>1, <1>2, <1>3, <1>4, <1>5

LEMMA RequestGroupCancellationKeeps ==
  ASSUME GroupInv, RequestGroupCancellation
  PROVE  GroupInv'
<1> USE DEF GroupInv
<1>1. GroupTypes'
  BY DEF RequestGroupCancellation, GroupTypes, GroupRows, WithStatus
<1>2. ChildEffects'
  BY DEF RequestGroupCancellation, GroupTypes, GroupRows, ChildEffects, GroupDriving, WithStatus
<1>3. GroupDriving'
  BY DEF RequestGroupCancellation, GroupTypes, GroupRows, ChildEffects, GroupDriving, WithStatus
<1>4. FailFastCloses'
  BY DEF RequestGroupCancellation, GroupTypes, GroupRows, ChildEffects, GroupDriving, FailFastCloses,
         FailedChildren, Retrying, WithStatus
<1>5. GroupOutcomeHonest'
  BY DEF RequestGroupCancellation, GroupTypes, GroupRows, ChildEffects, GroupDriving, GroupOutcomeHonest,
         SettledChildren, CancelledChildren, FailedChildren, Retrying, WithStatus
<1> QED BY <1>1, <1>2, <1>3, <1>4, <1>5

LEMMA CrashGroupProcessKeeps ==
  ASSUME GroupInv, CrashGroupProcess
  PROVE  GroupInv'
<1> USE DEF GroupInv
<1>1. GroupTypes'
  BY DEF CrashGroupProcess, GroupDriverAt, GroupTypes, GroupRows, WithStatus
<1>2. ChildEffects'
  BY DEF CrashGroupProcess, GroupDriverAt, GroupTypes, GroupRows, ChildEffects, GroupDriving, WithStatus
<1>3. GroupDriving'
  BY DEF CrashGroupProcess, GroupDriverAt, GroupTypes, GroupRows, ChildEffects, GroupDriving, WithStatus
<1>4. FailFastCloses'
  BY DEF CrashGroupProcess, GroupDriverAt, GroupTypes, GroupRows, ChildEffects, GroupDriving, FailFastCloses,
         FailedChildren, Retrying, WithStatus
<1>5. GroupOutcomeHonest'
  BY DEF CrashGroupProcess, GroupDriverAt, GroupTypes, GroupRows, ChildEffects, GroupDriving, GroupOutcomeHonest,
         SettledChildren, CancelledChildren, FailedChildren, Retrying, WithStatus
<1> QED BY <1>1, <1>2, <1>3, <1>4, <1>5

LEMMA ResumeGroupRunKeeps ==
  ASSUME GroupInv, ResumeGroupRun
  PROVE  GroupInv'
<1> USE DEF GroupInv
<1>1. GroupTypes'
  BY DEF ResumeGroupRun, GroupDriverAt, GroupRunOpen, GroupTypes, GroupRows, WithStatus
<1>2. ChildEffects'
  BY DEF ResumeGroupRun, GroupDriverAt, GroupRunOpen, GroupTypes, GroupRows, ChildEffects, GroupDriving, WithStatus
<1>3. GroupDriving'
  BY DEF ResumeGroupRun, GroupDriverAt, GroupRunOpen, GroupTypes, GroupRows, ChildEffects, GroupDriving, WithStatus
<1>4. FailFastCloses'
  BY DEF ResumeGroupRun, GroupDriverAt, GroupRunOpen, GroupTypes, GroupRows, ChildEffects, GroupDriving, FailFastCloses,
         FailedChildren, Retrying, WithStatus
<1>5. GroupOutcomeHonest'
  BY DEF ResumeGroupRun, GroupDriverAt, GroupRunOpen, GroupTypes, GroupRows, ChildEffects, GroupDriving, GroupOutcomeHonest,
         SettledChildren, CancelledChildren, FailedChildren, Retrying, WithStatus
<1> QED BY <1>1, <1>2, <1>3, <1>4, <1>5

LEMMA SettleGroupTimeoutKeeps ==
  ASSUME GroupInv, SettleGroupTimeout
  PROVE  GroupInv'
<1> USE DEF GroupInv
<1>1. GroupTypes'
  BY DEF SettleGroupTimeout, GroupOverdue, GroupDriverAt, GroupTypes, GroupRows, WithStatus
<1>2. ChildEffects'
  BY DEF SettleGroupTimeout, GroupOverdue, GroupDriverAt, GroupTypes, GroupRows, ChildEffects, GroupDriving, WithStatus
<1>3. GroupDriving'
  BY DEF SettleGroupTimeout, GroupOverdue, GroupDriverAt, GroupTypes, GroupRows, ChildEffects, GroupDriving, WithStatus
<1>4. FailFastCloses'
  BY DEF SettleGroupTimeout, GroupOverdue, GroupDriverAt, GroupTypes, GroupRows, ChildEffects, GroupDriving, FailFastCloses,
         FailedChildren, Retrying, WithStatus
<1>5. GroupOutcomeHonest'
  BY DEF SettleGroupTimeout, GroupOverdue, GroupDriverAt, GroupTypes, GroupRows, ChildEffects, GroupDriving, GroupOutcomeHonest,
         SettledChildren, CancelledChildren, FailedChildren, Retrying, WithStatus
<1> QED BY <1>1, <1>2, <1>3, <1>4, <1>5

LEMMA RecoverGroupRunKeeps ==
  ASSUME GroupInv, RecoverGroupRun
  PROVE  GroupInv'
<1> USE DEF GroupInv
<1>1. GroupTypes'
  BY DEF RecoverGroupRun, GroupDriverAt, GroupMustFail, GroupTypes, GroupRows, WithStatus
<1>2. ChildEffects'
  BY DEF RecoverGroupRun, GroupDriverAt, GroupMustFail, GroupTypes, GroupRows, ChildEffects, GroupDriving, WithStatus
<1>3. GroupDriving'
  BY DEF RecoverGroupRun, GroupDriverAt, GroupMustFail, GroupTypes, GroupRows, ChildEffects, GroupDriving, WithStatus
<1>4. FailFastCloses'
  BY DEF RecoverGroupRun, GroupDriverAt, GroupMustFail, GroupTypes, GroupRows, ChildEffects, GroupDriving, FailFastCloses,
         FailedChildren, Retrying, WithStatus
<1>5. GroupOutcomeHonest'
  BY DEF RecoverGroupRun, GroupDriverAt, GroupMustFail, GroupTypes, GroupRows, ChildEffects, GroupDriving, GroupOutcomeHonest,
         SettledChildren, CancelledChildren, FailedChildren, Retrying, WithStatus
<1> QED BY <1>1, <1>2, <1>3, <1>4, <1>5

LEMMA ChildRetryKeeps ==
  ASSUME GroupInv, NEW c \in Children, ChildRetryComesDue(c)
  PROVE  GroupInv'
<1> USE DEF GroupInv
<1>1. GroupTypes'
  BY DEF ChildRetryComesDue, GroupTypes, GroupRows, WithStatus
<1>2. ChildEffects'
  BY DEF ChildRetryComesDue, GroupTypes, GroupRows, ChildEffects, GroupDriving, WithStatus
<1>3. GroupDriving'
  BY DEF ChildRetryComesDue, GroupTypes, GroupRows, ChildEffects, GroupDriving, WithStatus
<1>4. FailFastCloses'
  BY DEF ChildRetryComesDue, GroupTypes, GroupRows, ChildEffects, GroupDriving,
         FailFastCloses, FailedChildren, Retrying, WithStatus
<1>5. GroupOutcomeHonest'
  BY DEF ChildRetryComesDue, GroupTypes, GroupRows, ChildEffects, GroupDriving,
         GroupOutcomeHonest, SettledChildren, CancelledChildren, FailedChildren, Retrying,
         WithStatus
<1> QED BY <1>1, <1>2, <1>3, <1>4, <1>5

(* The end of a group whose children decide it. *)
LEMMA SettleGroupKeeps ==
  ASSUME GroupInv, SettleGroup
  PROVE  GroupInv'
<1> USE DEF GroupInv
<1>1. /\ pgDriver.at = "group" /\ pgDriver.active = {} /\ pgChild' = pgChild
      /\ pgEffects' = pgEffects /\ pgPolicy' = pgPolicy /\ pgRun' = pgRun
  BY DEF SettleGroup
<1>2. \/ pgRun = "cancelling" /\ pgDriver' = GroupDriverAt("loop") /\ pgGroup' = pgGroup
      \/ /\ WithStatus("succeeded") = Children
         /\ pgGroup' = "succeeded" /\ pgDriver' = GroupDriverAt("loop")
      \/ /\ GroupMustFail
         /\ CompletionValid("failed", FailedChildren, CancelledChildren)
         /\ pgGroup' = "failed" /\ pgDriver' = GroupDriverAt("failing")
      \/ /\ GroupMustFail /\ pgGroup' = pgGroup
         /\ \/ pgDriver' = GroupDriverAt("returned")
            \/ pgRun = "cancelling" /\ pgDriver' = GroupDriverAt("settling")
      \/ /\ ~GroupMustFail /\ pgGroup' = pgGroup
         /\ pgDriver' \in {GroupDriverAt("returned"), GroupDriverAt("loop")}
  BY DEF SettleGroup, GroupDriverFails
<1>3. \E step \in {"loop", "failing", "settling", "returned"} : pgDriver' = GroupDriverAt(step)
  BY <1>2
<1>4. GroupTypes'
  BY <1>1, <1>2, <1>3, GroupDrivers DEF GroupTypes
<1>5. ChildEffects'
  BY <1>1, <1>2 DEF ChildEffects
<1>6. GroupDriving'
  BY <1>1, <1>2, <1>3, GroupDrivers DEF GroupDriving, WithStatus, GroupTypes
<1>7. FailFastCloses'
  BY <1>1, <1>2, <1>3, GroupDrivers DEF FailFastCloses, FailedChildren, Retrying, WithStatus,
     GroupMustFail, GroupTypes
<1>8. GroupOutcomeHonest'
  <2>1. pgRun # "succeeded"
    BY <1>1 DEF GroupDriving
  <2>2. CASE GroupMustFail /\ pgGroup' = "failed"
             /\ CompletionValid("failed", FailedChildren, CancelledChildren)
    BY <1>1, <2>1, <2>2 DEF GroupOutcomeHonest, GroupMustFail, CompletionValid, GroupTypes,
       SettledChildren, CancelledChildren, FailedChildren, Retrying, WithStatus
  <2>3. CASE WithStatus("succeeded") = Children /\ pgGroup' = "succeeded"
    BY <1>1, <2>1, <2>3 DEF GroupOutcomeHonest, WithStatus
  <2>4. CASE pgGroup' = pgGroup
    BY <1>1, <2>4 DEF GroupOutcomeHonest, SettledChildren, CancelledChildren, FailedChildren,
       Retrying, WithStatus
  <2> QED BY <1>2, <2>2, <2>3, <2>4
<1> QED BY <1>4, <1>5, <1>6, <1>7, <1>8

(* What the recorded failure of a child that had started changes. *)
LEMMA ChildFailure ==
  ASSUME GroupInv, NEW c \in Children, pgChild[c].status = "started",
         NEW kind \in {"threw", "crashed", "cancelled"}, ChildFails(c, kind)
  PROVE  /\ pgChild' \in [Children -> GroupRows]
         /\ \A x \in Children \ {c} : pgChild'[x] = pgChild[x] /\ pgEffects'[x] = pgEffects[x]
         /\ pgChild'[c].attempt = pgChild[c].attempt
         /\ pgChild'[c].status = IF kind = "cancelled" THEN "cancelled" ELSE "failed"
         /\ pgChild'[c].retry # "no" => kind = "threw"
         /\ pgEffects' \in [Children -> SUBSET Nat]
         /\ pgEffects'[c] \subseteq pgEffects[c]
         /\ kind = "threw" => pgEffects'[c] = {}
<1> DEFINE row == [pgChild[c] EXCEPT
                     !.status = IF kind = "cancelled" THEN kind ELSE "failed",
                     !.retry = IF kind = "threw" /\ pgChild[c].attempt < GroupAttempts
                                 THEN "later" ELSE "no"]
<1>1. pgChild[c] \in GroupRows /\ pgEffects[c] \subseteq {pgChild[c].attempt}
  BY DEF GroupInv, GroupTypes, ChildEffects
<1>2. /\ row \in GroupRows /\ row.attempt = pgChild[c].attempt
      /\ row.status = IF kind = "cancelled" THEN "cancelled" ELSE "failed"
      /\ row.retry # "no" => kind = "threw"
  BY <1>1 DEF GroupRows
<1>3. pgChild' = [pgChild EXCEPT ![c] = row]
  BY DEF ChildFails
<1> HIDE DEF row
<1>4. /\ pgChild' \in [Children -> GroupRows] /\ pgChild'[c] = row
      /\ \A x \in Children \ {c} : pgChild'[x] = pgChild[x]
  BY <1>2, <1>3 DEF GroupInv, GroupTypes
<1>5. /\ pgEffects' \in [Children -> SUBSET Nat]
      /\ pgEffects'[c] \subseteq pgEffects[c]
      /\ kind = "threw" => pgEffects'[c] = {}
      /\ \A x \in Children \ {c} : pgEffects'[x] = pgEffects[x]
  BY <1>1 DEF ChildFails, GroupInv, GroupTypes
<1> QED BY <1>2, <1>4, <1>5

LEMMA ChildEndsKeeps ==
  ASSUME GroupInv, ChildEnds
  PROVE  GroupInv'
<1> USE DEF GroupInv
<1>1. /\ pgDriver.at = "group" /\ pgPolicy' = pgPolicy /\ pgRun' = pgRun /\ pgGroup' = pgGroup
  BY DEF ChildEnds
<1>2. PICK c \in pgDriver.active :
       \/ /\ pgRun = "cancelling"
          /\ ChildFails(c, "cancelled")
          /\ pgDriver' = [pgDriver EXCEPT !.active = @ \ {c}]
       \/ /\ pgRun = "running"
          /\ pgChild' = [pgChild EXCEPT ![c].status = "succeeded"]
          /\ pgDriver' = [pgDriver EXCEPT !.active = @ \ {c}]
          /\ UNCHANGED pgEffects
       \/ /\ pgRun = "running"
          /\ \E kind \in {"threw", "crashed"} \cup (IF pgDriver.closed THEN {"cancelled"} ELSE {}) :
               /\ ChildFails(c, kind)
               /\ pgDriver' = [pgDriver EXCEPT !.active = @ \ {c},
                    !.closed = @ \/ /\ pgPolicy = "fail-fast" /\ kind # "cancelled"
                                    /\ pgChild'[c].retry = "no"]
  BY DEF ChildEnds
<1>3. c \in Children /\ pgChild[c].status = "started" /\ pgChild[c].retry = "no"
  BY DEF GroupTypes, GroupDriving, ChildEffects, GroupRows
<1>4. pgGroup \notin {"succeeded", "failed"} /\ pgRun # "succeeded"
  BY <1>1, <1>3 DEF GroupOutcomeHonest, WithStatus, GroupDriving
<1>5. GroupOutcomeHonest'
  BY <1>1, <1>4 DEF GroupOutcomeHonest
<1>6. ASSUME NEW kind \in {"threw", "crashed", "cancelled"}, ChildFails(c, kind),
             pgRun = "cancelling" \/ pgRun = "running",
             NEW closed \in BOOLEAN,
             pgDriver' = [pgDriver EXCEPT !.active = @ \ {c}, !.closed = closed],
             kind = "cancelled" => closed = pgDriver.closed /\ (pgDriver.closed \/ pgRun = "cancelling"),
             pgDriver.closed => closed,
             pgPolicy = "fail-fast" /\ kind # "cancelled" /\ pgChild'[c].retry = "no" => closed
      PROVE  GroupInv'
  <2>1. /\ pgChild' \in [Children -> GroupRows]
        /\ \A x \in Children \ {c} : pgChild'[x] = pgChild[x] /\ pgEffects'[x] = pgEffects[x]
        /\ pgChild'[c].attempt = pgChild[c].attempt
        /\ pgChild'[c].status = IF kind = "cancelled" THEN "cancelled" ELSE "failed"
        /\ pgChild'[c].retry # "no" => kind = "threw"
        /\ pgEffects' \in [Children -> SUBSET Nat]
        /\ pgEffects'[c] \subseteq pgEffects[c]
        /\ kind = "threw" => pgEffects'[c] = {}
    BY <1>3, <1>6, ChildFailure
  <2>2. /\ pgDriver'.at = "group" /\ pgDriver'.active = pgDriver.active \ {c}
        /\ pgDriver'.closed = closed
        /\ pgDriver' \in [at : {"gone", "none", "loop", "group", "failing", "settling", "returned"},
                          ready : SUBSET Children, active : SUBSET Children, closed : BOOLEAN]
    BY <1>1, <1>6 DEF GroupTypes
  <2>3. GroupTypes'
    BY <1>1, <2>1, <2>2 DEF GroupTypes
  <2>4. ChildEffects'
    BY <1>1, <1>3, <1>4, <2>1 DEF ChildEffects, GroupRows, GroupTypes
  <2>5. GroupDriving'
    BY <1>1, <1>3, <1>4, <2>1, <2>2 DEF GroupDriving, WithStatus, GroupTypes
  <2>6. FailFastCloses'
    <3>1. CASE closed
      BY <2>2, <3>1 DEF FailFastCloses
    <3>2. CASE ~closed
      BY <1>1, <1>6, <2>1, <2>2, <3>2 DEF FailFastCloses, FailedChildren, Retrying, WithStatus
    <3> QED BY <3>1, <3>2
  <2> QED BY <1>5, <2>3, <2>4, <2>5, <2>6
<1>7. CASE /\ pgRun = "cancelling" /\ ChildFails(c, "cancelled")
           /\ pgDriver' = [pgDriver EXCEPT !.active = @ \ {c}]
  <2>1. pgDriver' = [pgDriver EXCEPT !.active = @ \ {c}, !.closed = pgDriver.closed]
        /\ pgDriver.closed \in BOOLEAN
    BY <1>7 DEF GroupTypes
  <2> QED BY <1>6, <1>7, <2>1
<1>8. CASE /\ pgRun = "running"
           /\ pgChild' = [pgChild EXCEPT ![c].status = "succeeded"]
           /\ pgDriver' = [pgDriver EXCEPT !.active = @ \ {c}]
           /\ UNCHANGED pgEffects
  <2>1. /\ pgChild' \in [Children -> GroupRows]
        /\ \A x \in Children \ {c} : pgChild'[x] = pgChild[x]
        /\ pgChild'[c].attempt = pgChild[c].attempt
        /\ pgChild'[c].status = "succeeded" /\ pgChild'[c].retry = "no"
    BY <1>3, <1>8 DEF GroupTypes, GroupRows
  <2>2. /\ pgDriver'.at = "group" /\ pgDriver'.active = pgDriver.active \ {c}
        /\ pgDriver'.closed = pgDriver.closed
        /\ pgDriver' \in [at : {"gone", "none", "loop", "group", "failing", "settling", "returned"},
                          ready : SUBSET Children, active : SUBSET Children, closed : BOOLEAN]
    BY <1>1, <1>8 DEF GroupTypes
  <2>3. GroupTypes'
    BY <1>1, <1>8, <2>1, <2>2 DEF GroupTypes
  <2>4. ChildEffects'
    BY <1>1, <1>3, <1>4, <1>8, <2>1 DEF ChildEffects, GroupRows, GroupTypes
  <2>5. GroupDriving'
    BY <1>1, <1>3, <1>4, <2>1, <2>2 DEF GroupDriving, WithStatus, GroupTypes
  <2>6. FailFastCloses'
    BY <1>1, <1>3, <2>1, <2>2 DEF FailFastCloses, FailedChildren, Retrying, WithStatus
  <2> QED BY <1>5, <2>3, <2>4, <2>5, <2>6
<1>9. CASE /\ pgRun = "running"
           /\ \E kind \in {"threw", "crashed"} \cup (IF pgDriver.closed THEN {"cancelled"} ELSE {}) :
                /\ ChildFails(c, kind)
                /\ pgDriver' = [pgDriver EXCEPT !.active = @ \ {c},
                     !.closed = @ \/ /\ pgPolicy = "fail-fast" /\ kind # "cancelled"
                                     /\ pgChild'[c].retry = "no"]
  <2>1. PICK kind \in {"threw", "crashed"} \cup (IF pgDriver.closed THEN {"cancelled"} ELSE {}) :
          /\ ChildFails(c, kind)
          /\ pgDriver' = [pgDriver EXCEPT !.active = @ \ {c},
               !.closed = @ \/ /\ pgPolicy = "fail-fast" /\ kind # "cancelled"
                               /\ pgChild'[c].retry = "no"]
    BY <1>9
  <2> DEFINE closed == pgDriver.closed \/ /\ pgPolicy = "fail-fast" /\ kind # "cancelled"
                                          /\ pgChild'[c].retry = "no"
  <2>2. /\ closed \in BOOLEAN /\ (pgDriver.closed => closed)
        /\ kind = "cancelled" => closed = pgDriver.closed /\ pgDriver.closed
        /\ pgPolicy = "fail-fast" /\ kind # "cancelled" /\ pgChild'[c].retry = "no" => closed
    BY DEF GroupTypes
  <2>3. pgDriver' = [pgDriver EXCEPT !.active = @ \ {c}, !.closed = closed]
    BY <2>1
  <2>4. kind \in {"threw", "crashed", "cancelled"}
    OBVIOUS
  <2> HIDE DEF closed
  <2> QED BY <1>6, <1>9, <2>1, <2>2, <2>3, <2>4
<1> QED BY <1>2, <1>7, <1>8, <1>9

LEMMA StartChildKeeps ==
  ASSUME GroupInv, StartChild
  PROVE  /\ GroupInv'
         /\ \A c \in Children : pgChild'[c].attempt > pgChild[c].attempt =>
              /\ pgPolicy = "fail-fast" => FailedChildren = {}
              /\ pgRun = "running" /\ pgEffects[c] = {}
              /\ Cardinality(WithStatus("started")) < GroupConcurrency
<1> USE DEF GroupInv
<1> DEFINE startable == pgDriver.ready \cap ReadyChildren
           c == Min(startable)
<1>1. c \in startable
  <2>1. startable \subseteq Nat /\ startable # {}
    BY DEF StartChild, GroupTypes, Children
  <2> HIDE DEF startable
  <2> QED BY <2>1, MinIsMember
<1>2. /\ c \in Children /\ c \in ReadyChildren
  BY <1>1 DEF GroupTypes
<1>3. /\ pgChild' = [pgChild EXCEPT ![c] =
          [attempt |-> pgChild[c].attempt + 1, status |-> "started", retry |-> "no"]]
      /\ pgEffects' = [pgEffects EXCEPT ![c] = @ \cup {pgChild[c].attempt + 1}]
      /\ pgDriver' = [pgDriver EXCEPT !.active = @ \cup {c}]
  BY DEF StartChild
<1> HIDE DEF c, startable
<1>4. /\ pgDriver.at = "group" /\ ~pgDriver.closed /\ pgRun = "running" /\ pgGroup = "started"
      /\ Cardinality(pgDriver.active) < GroupConcurrency
      /\ pgPolicy' = pgPolicy /\ pgRun' = pgRun /\ pgGroup' = pgGroup
      /\ pgChild[c].status = "none" \/ pgChild[c].retry = "due"
  BY <1>2 DEF StartChild, MayStartChild, ReadyChildren
<1>5. /\ pgChild[c] \in GroupRows /\ pgEffects[c] = {}
      /\ pgChild[c].status \in {"none", "failed"}
  BY <1>2, <1>4 DEF GroupTypes, ChildEffects
<1>6. /\ pgChild' \in [Children -> GroupRows]
      /\ \A x \in Children \ {c} : pgChild'[x] = pgChild[x] /\ pgEffects'[x] = pgEffects[x]
      /\ pgChild'[c].attempt = pgChild[c].attempt + 1
      /\ pgChild'[c].status = "started" /\ pgChild'[c].retry = "no"
      /\ pgEffects' \in [Children -> SUBSET Nat]
      /\ pgEffects'[c] = {pgChild[c].attempt + 1}
  BY <1>2, <1>3, <1>5 DEF GroupTypes, GroupRows
<1>7. /\ pgDriver'.at = "group" /\ pgDriver'.active = pgDriver.active \cup {c}
      /\ pgDriver'.closed = pgDriver.closed
      /\ pgDriver' \in [at : {"gone", "none", "loop", "group", "failing", "settling", "returned"},
                        ready : SUBSET Children, active : SUBSET Children, closed : BOOLEAN]
  BY <1>2, <1>3, <1>4 DEF GroupTypes
<1>8. GroupTypes'
  BY <1>4, <1>6, <1>7 DEF GroupTypes
<1>9. ChildEffects'
  BY <1>2, <1>4, <1>6 DEF ChildEffects
<1>10. GroupDriving'
  BY <1>2, <1>4, <1>5, <1>6, <1>7 DEF GroupDriving, WithStatus, GroupTypes
<1>11. FailFastCloses'
  BY <1>2, <1>4, <1>5, <1>6, <1>7 DEF FailFastCloses, FailedChildren, Retrying, WithStatus
<1>12. GroupOutcomeHonest'
  BY <1>4 DEF GroupOutcomeHonest
<1>13. ASSUME NEW x \in Children, pgChild'[x].attempt > pgChild[x].attempt
       PROVE  /\ pgPolicy = "fail-fast" => FailedChildren = {}
              /\ pgRun = "running" /\ pgEffects[x] = {}
              /\ Cardinality(WithStatus("started")) < GroupConcurrency
  <2>1. x = c
    <3>1. pgChild[x].attempt \in Nat
      BY DEF GroupTypes, GroupRows
    <3> QED BY <1>6, <1>13, <3>1
  <2>2. WithStatus("started") = pgDriver.active
    BY <1>4 DEF GroupDriving
  <2>3. pgPolicy = "fail-fast" => FailedChildren = {}
    BY <1>4 DEF FailFastCloses
  <2> QED BY <1>4, <1>5, <2>1, <2>2, <2>3
<1> QED BY <1>8, <1>9, <1>10, <1>11, <1>12, <1>13

LEMMA SettleGroupCancellationKeeps ==
  ASSUME GroupInv, SettleGroupCancellation
  PROVE  GroupInv'
<1> USE DEF GroupInv
<1> DEFINE started == WithStatus("started")
           failed == WithStatus("failed")
<1>1. /\ pgDriver.at = "settling" /\ pgRun = "cancelling" /\ pgPolicy' = pgPolicy
      /\ pgDriver.active = {}
  BY DEF SettleGroupCancellation, GroupDriving
<1>2. CASE started # {} /\ ChildFails(Min(started), "cancelled")
           /\ UNCHANGED <<pgRun, pgGroup, pgDriver>>
  <2> DEFINE c == Min(started)
  <2>1. c \in started
    <3>1. started \subseteq Nat
      BY DEF WithStatus, Children
    <3> HIDE DEF started
    <3> QED BY <1>2, <3>1, MinIsMember
  <2>2. c \in Children /\ pgChild[c].status = "started" /\ ChildFails(c, "cancelled")
    BY <1>2, <2>1 DEF WithStatus
  <2> HIDE DEF c
  <2>3. /\ pgChild' \in [Children -> GroupRows]
        /\ \A x \in Children \ {c} : pgChild'[x] = pgChild[x] /\ pgEffects'[x] = pgEffects[x]
        /\ pgChild'[c].attempt = pgChild[c].attempt
        /\ pgChild'[c].status = "cancelled" /\ pgChild'[c].retry = "no"
        /\ pgEffects' \in [Children -> SUBSET Nat]
        /\ pgEffects'[c] \subseteq pgEffects[c]
    BY <2>2, ChildFailure
  <2>4. pgGroup \notin {"succeeded", "failed"}
    BY <2>2 DEF GroupOutcomeHonest, WithStatus
  <2>5. GroupTypes'
    BY <1>1, <1>2, <2>3 DEF GroupTypes
  <2>6. ChildEffects'
    BY <1>2, <2>2, <2>3 DEF ChildEffects
  <2>7. GroupDriving'
    BY <1>1, <1>2, <2>3 DEF GroupDriving, WithStatus, GroupTypes
  <2> QED BY <1>1, <1>2, <2>4, <2>5, <2>6, <2>7 DEF FailFastCloses, GroupOutcomeHonest
<1>3. CASE /\ started = {} /\ failed \cup CancelledChildren # {}
           /\ CompletionValid("failed", failed, CancelledChildren)
           /\ pgGroup' = "failed" /\ UNCHANGED <<pgDriver, pgRun, pgChild, pgEffects>>
  <2>1. /\ FailedChildren' \cup CancelledChildren' # {} /\ WithStatus("started")' = {}
        /\ pgPolicy = "wait-all" => SettledChildren' = Children
    BY <1>3 DEF CompletionValid, SettledChildren, CancelledChildren, FailedChildren, Retrying,
       WithStatus
  <2> QED BY <1>1, <1>3, <2>1 DEF GroupTypes, ChildEffects, GroupDriving, FailFastCloses,
          GroupOutcomeHonest, WithStatus
<1>4. CASE /\ pgGroup' = pgGroup /\ pgDriver' = GroupDriverAt("returned")
           /\ UNCHANGED <<pgChild, pgEffects>> /\ pgRun' \in {"cancelling", "cancelled"}
  <2>1. GroupTypes'
    BY <1>1, <1>4, GroupDrivers DEF GroupTypes
  <2>2. ChildEffects'
    BY <1>4 DEF ChildEffects
  <2>3. GroupDriving' /\ FailFastCloses'
    BY <1>1, <1>4, GroupDrivers DEF GroupDriving, FailFastCloses
  <2>4. GroupOutcomeHonest'
    BY <1>1, <1>4 DEF GroupOutcomeHonest, SettledChildren, CancelledChildren, FailedChildren,
       Retrying, WithStatus
  <2> QED BY <2>1, <2>2, <2>3, <2>4
<1> HIDE DEF started, failed
<1> QED BY <1>1, <1>2, <1>3, <1>4 DEF SettleGroupCancellation, started, failed

LEMMA GroupStepKeeps ==
  ASSUME GroupInv, [GroupNext]_pgVars
  PROVE  GroupInv'
<1>1. CASE UNCHANGED pgVars
  BY <1>1 DEF pgVars, GroupInv, GroupTypes, ChildEffects, GroupDriving, FailFastCloses,
     GroupOutcomeHonest, SettledChildren, CancelledChildren, FailedChildren, Retrying, WithStatus
<1> QED BY <1>1, OpenGroupKeeps, EnterGroupKeeps, PublishResultKeeps, LeaveGroupLoopKeeps,
        GroupDeadlinePassesKeeps, FailRunKeeps, StartChildRefusedKeeps, RequestGroupCancellationKeeps,
        CrashGroupProcessKeeps, ResumeGroupRunKeeps, SettleGroupKeeps, SettleGroupTimeoutKeeps,
        RecoverGroupRunKeeps, SettleGroupCancellationKeeps, ChildEndsKeeps, StartChildKeeps,
        ChildRetryKeeps
        DEF GroupNext

LEMMA GroupInitially == GroupInit => GroupInv
<1> SUFFICES ASSUME GroupInit PROVE GroupInv
  OBVIOUS
<1>1. GroupTypes
  BY GroupDrivers DEF GroupInit, GroupTypes, GroupRows, ChildNotStarted
<1>2. ChildEffects /\ GroupDriving
  BY GroupDrivers DEF GroupInit, ChildEffects, GroupDriving, ChildNotStarted, WithStatus
<1>3. FailFastCloses /\ GroupOutcomeHonest
  BY DEF GroupInit, FailFastCloses, GroupOutcomeHonest
<1> QED BY <1>1, <1>2, <1>3 DEF GroupInv

(***************************************************************************)
(* The durable outcome of a group is that of its children, for groups of   *)
(* every size, cap and number of attempts: what validation compares when   *)
(* the outcome is recorded stays true of the children afterwards, because  *)
(* no attempt is then under way (CompletionValid, GroupOutcomeHonest).     *)
(***************************************************************************)
THEOREM GroupOutcomesHonest == GroupSpec => []GroupOutcomeHonest
<1>1. GroupInv => GroupOutcomeHonest
  BY DEF GroupInv
<1> QED BY <1>1, GroupInitially, GroupStepKeeps, PTL DEF GroupSpec

(***************************************************************************)
(* No child of a fail-fast group starts once one has failed for good, no   *)
(* child starts beyond the cap or in a run that is being cancelled, and    *)
(* none again after an attempt that may have had an effect: across         *)
(* retries, crashes and the run loop that enters the group anew            *)
(* (execute_parallel_group).                                               *)
(***************************************************************************)
THEOREM GroupStartsAreSafe == GroupSpec => StartsAreSafe
<1> DEFINE Safe ==
      \A c \in Children : pgChild'[c].attempt > pgChild[c].attempt =>
        /\ pgPolicy = "fail-fast" => FailedChildren = {}
        /\ pgRun = "running" /\ pgEffects[c] = {}
        /\ Cardinality(WithStatus("started")) < GroupConcurrency
<1>1. GroupInv /\ [GroupNext]_pgVars => [Safe]_pgVars
  <2> SUFFICES ASSUME GroupInv, GroupNext PROVE Safe
    BY DEF pgVars
  <2>1. CASE StartChild
    BY <2>1, StartChildKeeps
  <2>2. CASE \A c \in Children : pgChild'[c].attempt = pgChild[c].attempt
    <3>1. \A c \in Children : pgChild[c].attempt \in Nat
      BY DEF GroupInv, GroupTypes, GroupRows
    <3> QED BY <2>2, <3>1
  <2>3. CASE pgChild' = pgChild
    BY <2>2, <2>3
  <2>4. CASE ChildEnds
    <3>1. PICK c \in pgDriver.active :
            \/ \E kind \in {"threw", "crashed", "cancelled"} : ChildFails(c, kind)
            \/ pgChild' = [pgChild EXCEPT ![c].status = "succeeded"]
      BY <2>4 DEF ChildEnds
    <3>2. c \in Children /\ pgChild[c].status = "started"
      BY DEF GroupInv, GroupTypes, GroupDriving
    <3>3. CASE \E kind \in {"threw", "crashed", "cancelled"} : ChildFails(c, kind)
      BY <2>2, <3>2, <3>3, ChildFailure
    <3>4. CASE pgChild' = [pgChild EXCEPT ![c].status = "succeeded"]
      BY <2>2, <3>2, <3>4 DEF GroupInv, GroupTypes, GroupRows
    <3> QED BY <3>1, <3>3, <3>4
  <2>5. CASE SettleGroupCancellation
    <3>1. CASE WithStatus("started") # {} /\ ChildFails(Min(WithStatus("started")), "cancelled")
      <4>1. Min(WithStatus("started")) \in WithStatus("started")
        BY <3>1, MinIsMember DEF WithStatus, Children
      <4>2. PICK c \in Children : pgChild[c].status = "started" /\ ChildFails(c, "cancelled")
        BY <3>1, <4>1 DEF WithStatus
      <4> QED BY <2>2, <4>2, ChildFailure
    <3>2. CASE pgChild' = pgChild
      BY <2>3, <3>2
    <3> QED BY <2>5, <3>1, <3>2 DEF SettleGroupCancellation
  <2>6. CASE \/ \E c \in Children : ChildRetryComesDue(c)
             \/ SettleGroupTimeout \/ RecoverGroupRun
    BY <2>2, <2>6 DEF ChildRetryComesDue, SettleGroupTimeout, RecoverGroupRun, GroupInv,
       GroupTypes, GroupRows
  <2>7. CASE \/ OpenGroup \/ EnterGroup \/ PublishResult \/ LeaveGroupLoop
             \/ GroupDeadlinePasses \/ SettleGroup \/ FailRun \/ RequestGroupCancellation
             \/ StartChildRefused
             \/ CrashGroupProcess \/ ResumeGroupRun
    BY <2>3, <2>7 DEF OpenGroup, EnterGroup, PublishResult, LeaveGroupLoop,
       GroupDeadlinePasses, SettleGroup, FailRun, RequestGroupCancellation, CrashGroupProcess,
       StartChildRefused, ResumeGroupRun
  <2> HIDE DEF Safe
  <2> QED BY <2>1, <2>4, <2>5, <2>6, <2>7 DEF GroupNext
<1> QED BY <1>1, GroupInitially, GroupStepKeeps, PTL DEF GroupSpec, StartsAreSafe



-----------------------------------------------------------------------------
(* Forks. *)

ForkRows ==
  [attempt : Nat, status : {"none", "started", "succeeded", "failed", "cancelled"},
   retry : {"no", "later", "due"}]

ForkDriverSet ==
  [at : {"none", "gone", "loop", "script", "fork", "succeeded", "failed",
         "join", "finish", "start", "await", "settling", "returned"},
   active : SUBSET ForkScripts, todo : SUBSET ForkScripts]

ForkTypes ==
  /\ fjJoined \subseteq ForkBranches
  /\ fjRun \in {"running", "cancelling", "cancelled", "failed", "succeeded"}
  /\ fjJoin \in {"unopened", "pending", "succeeded", "failed", "cancelled"}
  /\ fjBranch \in [ForkBranches -> {"open", "succeeded", "failed", "cancelled"}]
  /\ fjScript \in [ForkScripts -> ForkRows]
  /\ fjDriver \in ForkDriverSet
  /\ fjEffects \in [ForkScripts -> SUBSET Nat]

ScriptEffects ==
  \A n \in ForkScripts :
    /\ fjEffects[n] \subseteq {fjScript[n].attempt}
    /\ Startable(n) => fjEffects[n] = {}
    /\ fjScript[n].retry # "no" => fjScript[n].status = "failed" /\ fjEffects[n] = {}
    /\ fjScript[n].status = "none" => fjScript[n].attempt = 0

(* What the driver holds across its appends is still true when it is used. *)
ForkDriving ==
  /\ \A n \in fjDriver.active : fjScript[n].status = "started"
  /\ fjDriver.at = "succeeded" =>
       fjDriver.todo \subseteq {b \in Unsettled : fjScript[b].status = "succeeded"}
  /\ fjDriver.at = "failed" => fjDriver.todo \subseteq {b \in Unsettled : FinallyFailed(b)}
  /\ fjDriver.at = "start" =>
       \A n \in fjDriver.todo : Startable(n) /\ (n = Main => fjJoin = "succeeded")
  /\ fjRun = "succeeded" => fjDriver.at \in {"gone", "none", "returned"}
  /\ fjDriver.at = "settling" => fjDriver.active = {}

(* A settled branch tells what its script did, or a run that is ending     *)
(* closed it; the main route runs behind a join that succeeded.            *)
BranchesTell ==
  /\ \A b \in ForkBranches :
       fjBranch[b] \in {"failed", "cancelled"} =>
         FinallyFailed(b) \/ fjRun \in {"cancelling", "cancelled", "failed"}
  /\ fjJoin = "succeeded" => \A b \in fjJoined : fjBranch[b] = "succeeded"
  /\ fjScript[Main].status # "none" => fjJoin = "succeeded"

ForkInv == ForkTypes /\ ScriptEffects /\ ForkDriving /\ BranchesTell /\ SuccessIsWhole
LEMMA ForkScriptSet ==
  /\ Main \in ForkScripts /\ Main \notin ForkBranches
  /\ ForkBranches \subseteq ForkScripts /\ ForkScripts \subseteq Nat
  BY ForkAssumption DEF Main, ForkScripts, ForkBranches

LEMMA ForkDriverAt ==
  ASSUME NEW step \in {"none", "gone", "loop", "script", "fork", "succeeded", "failed",
                       "join", "finish", "start", "await", "settling", "returned"}
  PROVE  /\ DriverAt(step) \in ForkDriverSet
         /\ DriverAt(step).at = step /\ DriverAt(step).active = {} /\ DriverAt(step).todo = {}
  BY DEF DriverAt, ForkDriverSet

LEMMA DeadlinePassesKeeps ==
  ASSUME ForkInv, DeadlinePasses
  PROVE  ForkInv'
<1> USE ForkScriptSet DEF ForkInv
<1>1. ForkTypes'
  BY ForkDriverAt DEF DeadlinePasses, ForkTypes, ForkDriverSet, ForkRows, Unsettled
<1>2. ScriptEffects'
  BY ForkDriverAt DEF DeadlinePasses, ForkTypes, ForkDriverSet, ForkRows, ScriptEffects, Startable
<1>3. ForkDriving'
  BY ForkDriverAt DEF DeadlinePasses, ForkTypes, ForkDriverSet, ForkRows, ScriptEffects, ForkDriving,
     Startable, Unsettled, FinallyFailed
<1>4. BranchesTell'
  BY ForkDriverAt DEF DeadlinePasses, ForkTypes, ForkDriverSet, ForkRows, ScriptEffects, ForkDriving,
     BranchesTell, Unsettled, FinallyFailed
<1>5. SuccessIsWhole'
  BY ForkDriverAt DEF DeadlinePasses, ForkTypes, ForkDriverSet, ForkDriving, BranchesTell,
     SuccessIsWhole, Unsettled, FinallyFailed
<1> QED BY <1>1, <1>2, <1>3, <1>4, <1>5

LEMMA OpenForkKeeps ==
  ASSUME ForkInv, OpenFork
  PROVE  ForkInv'
<1> USE ForkScriptSet DEF ForkInv
<1>1. ForkTypes'
  BY ForkDriverAt DEF OpenFork, ForkTypes, ForkDriverSet, ForkRows, Unsettled
<1>2. ScriptEffects'
  BY ForkDriverAt DEF OpenFork, ForkTypes, ForkDriverSet, ForkRows, ScriptEffects, Startable
<1>3. ForkDriving'
  BY ForkDriverAt DEF OpenFork, ForkTypes, ForkDriverSet, ForkRows, ScriptEffects, ForkDriving,
     Startable, Unsettled, FinallyFailed
<1>4. BranchesTell'
  BY ForkDriverAt DEF OpenFork, ForkTypes, ForkDriverSet, ForkRows, ScriptEffects, ForkDriving,
     BranchesTell, Unsettled, FinallyFailed
<1>5. SuccessIsWhole'
  BY ForkDriverAt DEF OpenFork, ForkTypes, ForkDriverSet, ForkDriving, BranchesTell,
     SuccessIsWhole, Unsettled, FinallyFailed
<1> QED BY <1>1, <1>2, <1>3, <1>4, <1>5

LEMMA EnterForkKeeps ==
  ASSUME ForkInv, EnterFork
  PROVE  ForkInv'
<1> USE ForkScriptSet DEF ForkInv
<1>1. ForkTypes'
  BY ForkDriverAt DEF EnterFork, ForkTypes, ForkDriverSet, ForkRows, Unsettled
<1>2. ScriptEffects'
  BY ForkDriverAt DEF EnterFork, ForkTypes, ForkDriverSet, ForkRows, ScriptEffects, Startable
<1>3. ForkDriving'
  BY ForkDriverAt DEF EnterFork, ForkTypes, ForkDriverSet, ForkRows, ScriptEffects, ForkDriving,
     Startable, Unsettled, FinallyFailed
<1>4. BranchesTell'
  BY ForkDriverAt DEF EnterFork, ForkTypes, ForkDriverSet, ForkRows, ScriptEffects, ForkDriving,
     BranchesTell, Unsettled, FinallyFailed
<1>5. SuccessIsWhole'
  BY ForkDriverAt DEF EnterFork, ForkTypes, ForkDriverSet, ForkDriving, BranchesTell,
     SuccessIsWhole, Unsettled, FinallyFailed
<1> QED BY <1>1, <1>2, <1>3, <1>4, <1>5

LEMMA SettleWorkflowKeeps ==
  ASSUME ForkInv, SettleWorkflow
  PROVE  ForkInv'
<1> USE ForkScriptSet DEF ForkInv
<1>1. ForkTypes'
  BY ForkDriverAt DEF SettleWorkflow, SettlementReady, ForkTypes, ForkDriverSet, ForkRows, Unsettled
<1>2. ScriptEffects'
  BY ForkDriverAt DEF SettleWorkflow, SettlementReady, ForkTypes, ForkDriverSet, ForkRows, ScriptEffects, Startable
<1>3. ForkDriving'
  BY ForkDriverAt DEF SettleWorkflow, SettlementReady, ForkTypes, ForkDriverSet, ForkRows, ScriptEffects, ForkDriving,
     Startable, Unsettled, FinallyFailed
<1>4. BranchesTell'
  BY ForkDriverAt DEF SettleWorkflow, SettlementReady, ForkTypes, ForkDriverSet, ForkRows, ScriptEffects, ForkDriving,
     BranchesTell, Unsettled, FinallyFailed
<1>5. SuccessIsWhole'
  BY ForkDriverAt DEF SettleWorkflow, SettlementReady, ForkTypes, ForkDriverSet, ForkDriving, BranchesTell,
     SuccessIsWhole, Unsettled, FinallyFailed
<1> QED BY <1>1, <1>2, <1>3, <1>4, <1>5

LEMMA LeaveLoopKeeps ==
  ASSUME ForkInv, LeaveLoop
  PROVE  ForkInv'
<1> USE ForkScriptSet DEF ForkInv
<1>1. ForkTypes'
  BY ForkDriverAt DEF LeaveLoop, ForkTypes, ForkDriverSet, ForkRows, Unsettled
<1>2. ScriptEffects'
  BY ForkDriverAt DEF LeaveLoop, ForkTypes, ForkDriverSet, ForkRows, ScriptEffects, Startable
<1>3. ForkDriving'
  BY ForkDriverAt DEF LeaveLoop, ForkTypes, ForkDriverSet, ForkRows, ScriptEffects, ForkDriving,
     Startable, Unsettled, FinallyFailed
<1>4. BranchesTell'
  BY ForkDriverAt DEF LeaveLoop, ForkTypes, ForkDriverSet, ForkRows, ScriptEffects, ForkDriving,
     BranchesTell, Unsettled, FinallyFailed
<1>5. SuccessIsWhole'
  BY ForkDriverAt DEF LeaveLoop, ForkTypes, ForkDriverSet, ForkDriving, BranchesTell,
     SuccessIsWhole, Unsettled, FinallyFailed
<1> QED BY <1>1, <1>2, <1>3, <1>4, <1>5

LEMMA ForkPassKeeps ==
  ASSUME ForkInv, ForkPass
  PROVE  ForkInv'
<1> USE ForkScriptSet DEF ForkInv
<1>1. ForkTypes'
  <2>1. PICK passed : passed = [fjDriver EXCEPT !.at = "succeeded", !.todo = ReadyTerminals]
    OBVIOUS
  <2>2. ReadyTerminals \in SUBSET ForkScripts
    BY DEF ReadyTerminals, Unsettled, ForkTypes
  <2>3. passed \in ForkDriverSet
    BY <2>1, <2>2 DEF ForkTypes, ForkDriverSet
  <2>4. fjDriver' = passed \/ fjDriver' = DriverAt("settling")
    BY <2>1 DEF ForkPass
  <2>5. fjDriver' \in ForkDriverSet
    BY <2>3, <2>4, ForkDriverAt
  <2> QED BY <2>5 DEF ForkPass, ForkTypes
<1>2. ScriptEffects'
  BY ForkDriverAt DEF ForkPass, ReadyTerminals, ForkTypes, ForkDriverSet, ForkRows, ScriptEffects, Startable
<1>3. ForkDriving'
  BY ForkDriverAt DEF ForkPass, ReadyTerminals, ForkTypes, ForkDriverSet, ForkRows, ScriptEffects, ForkDriving,
     Startable, Unsettled, FinallyFailed
<1>4. BranchesTell'
  BY ForkDriverAt DEF ForkPass, ReadyTerminals, ForkTypes, ForkDriverSet, ForkRows, ScriptEffects, ForkDriving,
     BranchesTell, Unsettled, FinallyFailed
<1>5. SuccessIsWhole'
  BY ForkDriverAt DEF ForkPass, ReadyTerminals, ForkTypes, ForkDriverSet, ForkDriving, BranchesTell,
     SuccessIsWhole, Unsettled, FinallyFailed
<1> QED BY <1>1, <1>2, <1>3, <1>4, <1>5

LEMMA RequestForkCancellationKeeps ==
  ASSUME ForkInv, RequestForkCancellation
  PROVE  ForkInv'
<1> USE ForkScriptSet DEF ForkInv
<1>1. ForkTypes'
  BY ForkDriverAt DEF RequestForkCancellation, ForkTypes, ForkDriverSet, ForkRows, Unsettled
<1>2. ScriptEffects'
  BY ForkDriverAt DEF RequestForkCancellation, ForkTypes, ForkDriverSet, ForkRows, ScriptEffects, Startable
<1>3. ForkDriving'
  BY ForkDriverAt DEF RequestForkCancellation, ForkTypes, ForkDriverSet, ForkRows, ScriptEffects, ForkDriving,
     Startable, Unsettled, FinallyFailed
<1>4. BranchesTell'
  BY ForkDriverAt DEF RequestForkCancellation, ForkTypes, ForkDriverSet, ForkRows, ScriptEffects, ForkDriving,
     BranchesTell, Unsettled, FinallyFailed
<1>5. SuccessIsWhole'
  BY ForkDriverAt DEF RequestForkCancellation, ForkTypes, ForkDriverSet, ForkDriving, BranchesTell,
     SuccessIsWhole, Unsettled, FinallyFailed
<1> QED BY <1>1, <1>2, <1>3, <1>4, <1>5

LEMMA CrashForkProcessKeeps ==
  ASSUME ForkInv, CrashForkProcess
  PROVE  ForkInv'
<1> USE ForkScriptSet DEF ForkInv
<1>1. ForkTypes'
  BY ForkDriverAt DEF CrashForkProcess, ForkTypes, ForkDriverSet, ForkRows, Unsettled
<1>2. ScriptEffects'
  BY ForkDriverAt DEF CrashForkProcess, ForkTypes, ForkDriverSet, ForkRows, ScriptEffects, Startable
<1>3. ForkDriving'
  BY ForkDriverAt DEF CrashForkProcess, ForkTypes, ForkDriverSet, ForkRows, ScriptEffects, ForkDriving,
     Startable, Unsettled, FinallyFailed
<1>4. BranchesTell'
  BY ForkDriverAt DEF CrashForkProcess, ForkTypes, ForkDriverSet, ForkRows, ScriptEffects, ForkDriving,
     BranchesTell, Unsettled, FinallyFailed
<1>5. SuccessIsWhole'
  BY ForkDriverAt DEF CrashForkProcess, ForkTypes, ForkDriverSet, ForkDriving, BranchesTell,
     SuccessIsWhole, Unsettled, FinallyFailed
<1> QED BY <1>1, <1>2, <1>3, <1>4, <1>5

LEMMA ResumeForkRunKeeps ==
  ASSUME ForkInv, ResumeForkRun
  PROVE  ForkInv'
<1> USE ForkScriptSet DEF ForkInv
<1>1. ForkTypes'
  BY ForkDriverAt DEF ResumeForkRun, ForkRunOpen, ForkTypes, ForkDriverSet, ForkRows, Unsettled
<1>2. ScriptEffects'
  BY ForkDriverAt DEF ResumeForkRun, ForkRunOpen, ForkTypes, ForkDriverSet, ForkRows, ScriptEffects, Startable
<1>3. ForkDriving'
  BY ForkDriverAt DEF ResumeForkRun, ForkRunOpen, ForkTypes, ForkDriverSet, ForkRows, ScriptEffects, ForkDriving,
     Startable, Unsettled, FinallyFailed
<1>4. BranchesTell'
  BY ForkDriverAt DEF ResumeForkRun, ForkRunOpen, ForkTypes, ForkDriverSet, ForkRows, ScriptEffects, ForkDriving,
     BranchesTell, Unsettled, FinallyFailed
<1>5. SuccessIsWhole'
  BY ForkDriverAt DEF ResumeForkRun, ForkRunOpen, ForkTypes, ForkDriverSet, ForkDriving, BranchesTell,
     SuccessIsWhole, Unsettled, FinallyFailed
<1> QED BY <1>1, <1>2, <1>3, <1>4, <1>5

LEMMA SettleJoinKeeps ==
  ASSUME ForkInv, SettleJoin
  PROVE  ForkInv'
<1> USE ForkScriptSet DEF ForkInv
<1> DEFINE blockers == {b \in fjJoined : fjBranch[b] \in {"failed", "cancelled"}}
<1>0. blockers # {} => Min(blockers) \in blockers
  <2>1. blockers \subseteq ForkBranches /\ ForkBranches \subseteq Nat
    BY DEF ForkTypes
  <2> HIDE DEF blockers
  <2> QED BY <2>1, MinIsMember
<1>k. blockers # {} => fjBranch[Min(blockers)] \in {"failed", "cancelled"}
  BY <1>0
<1> HIDE DEF blockers
<1>j. \/ fjJoin' = fjJoin
      \/ fjJoin = "pending" /\ fjJoin' \in {"failed", "cancelled"}
      \/ /\ fjJoin = "pending" /\ fjJoin' = "succeeded"
         /\ blockers = {} /\ fjJoined \cap Unsettled = {}
  <2>1. fjJoin' = CASE fjJoin # "pending" -> fjJoin
                    [] fjJoin = "pending" /\ blockers # {} -> fjBranch[Min(blockers)]
                    [] fjJoin = "pending" /\ blockers = {} /\ fjJoined \cap Unsettled = {} ->
                         "succeeded"
                    [] OTHER -> fjJoin
    BY DEF SettleJoin, blockers
  <2>2. CASE fjJoin # "pending"
    BY <2>1, <2>2
  <2>3. CASE fjJoin = "pending" /\ blockers # {}
    BY <2>1, <2>3, <1>k
  <2>4. CASE fjJoin = "pending" /\ blockers = {}
    BY <2>1, <2>4
  <2> QED BY <2>2, <2>3, <2>4
<1>d. /\ fjDriver.at = "join" /\ fjDriver' \in ForkDriverSet /\ fjDriver'.at = "finish"
      /\ fjDriver'.active = fjDriver.active
  BY DEF SettleJoin, ForkTypes, ForkDriverSet
<1>1. ForkTypes'
  BY <1>j, <1>d DEF SettleJoin, ForkTypes
<1>2. ScriptEffects'
  BY ForkDriverAt DEF SettleJoin, ForkTypes, ForkDriverSet, ForkRows, ScriptEffects, Startable
<1>3. ForkDriving'
  BY <1>d DEF SettleJoin, ForkDriving
<1>4. BranchesTell'
  <2>1. \A b \in ForkBranches : fjBranch[b] \in {"open", "succeeded", "failed", "cancelled"}
    BY DEF ForkTypes
  <2>2. fjJoin' = "succeeded" => \A b \in fjJoined : fjBranch[b] = "succeeded"
    BY <1>j, <2>1 DEF BranchesTell, Unsettled, ForkTypes, blockers
  <2>3. fjScript[Main].status # "none" => fjJoin' = "succeeded"
    BY <1>j DEF BranchesTell
  <2> QED BY <2>2, <2>3 DEF SettleJoin, BranchesTell, FinallyFailed
<1>5. SuccessIsWhole'
  BY ForkDriverAt DEF SettleJoin, ForkTypes, ForkDriverSet, ForkDriving, BranchesTell,
     SuccessIsWhole, Unsettled, FinallyFailed
<1> QED BY <1>1, <1>2, <1>3, <1>4, <1>5

LEMMA FinishForkKeeps ==
  ASSUME ForkInv, FinishFork
  PROVE  ForkInv'
<1> USE ForkScriptSet DEF ForkInv
<1> DEFINE todo == {n \in ReadyScripts \ fjDriver.active : n = Main \/ n \in Unsettled}
<1>t. /\ todo \in SUBSET ForkScripts
      /\ \A n \in todo : Startable(n) /\ (n = Main => fjJoin = "succeeded")
  BY DEF ReadyScripts, Unsettled
<1>d. \/ fjRun' = "failed" /\ fjRun = "running" /\ fjDriver' = DriverAt("returned")
      \/ fjRun' = fjRun /\ fjDriver' = DriverAt("loop")
      \/ fjRun' = fjRun /\ fjDriver' = [fjDriver EXCEPT !.at = "start", !.todo = todo]
  BY DEF FinishFork
<1> HIDE DEF todo
<1>e. /\ fjDriver' \in ForkDriverSet /\ fjDriver'.active \subseteq fjDriver.active
      /\ fjDriver'.at \in {"returned", "loop", "start"}
      /\ fjDriver'.at = "start" => fjDriver'.todo = todo
  <2>1. PICK started : started = [fjDriver EXCEPT !.at = "start", !.todo = todo]
    OBVIOUS
  <2>2. /\ started \in ForkDriverSet /\ started.active = fjDriver.active
        /\ started.at = "start" /\ started.todo = todo
    BY <1>t, <2>1 DEF ForkTypes, ForkDriverSet
  <2>3. \/ fjDriver' = started
        \/ fjDriver' = DriverAt("returned")
        \/ fjDriver' = DriverAt("loop")
    BY <1>d, <2>1
  <2>4. /\ DriverAt("returned") \in ForkDriverSet /\ DriverAt("returned").at = "returned"
        /\ DriverAt("returned").active = {}
        /\ DriverAt("loop") \in ForkDriverSet /\ DriverAt("loop").at = "loop"
        /\ DriverAt("loop").active = {}
    BY ForkDriverAt
  <2> QED BY <2>2, <2>3, <2>4
<1>f. fjDriver.at = "finish" /\ fjRun' \in {fjRun, "failed"}
  BY <1>d DEF FinishFork
<1>1. ForkTypes'
  BY <1>e, <1>f DEF FinishFork, ForkTypes
<1>2. ScriptEffects'
  BY ForkDriverAt DEF FinishFork, ReadyScripts, ForkTypes, ForkDriverSet, ForkRows, ScriptEffects, Startable
<1>3. ForkDriving'
  BY <1>t, <1>e, <1>f DEF FinishFork, ForkDriving, Startable
<1>4. BranchesTell'
  BY ForkDriverAt DEF FinishFork, ReadyScripts, ForkTypes, ForkDriverSet, ForkRows, ScriptEffects, ForkDriving,
     BranchesTell, Unsettled, FinallyFailed
<1>5. SuccessIsWhole'
  BY ForkDriverAt DEF FinishFork, ReadyScripts, ForkTypes, ForkDriverSet, ForkDriving, BranchesTell,
     SuccessIsWhole, Unsettled, FinallyFailed
<1> QED BY <1>1, <1>2, <1>3, <1>4, <1>5

LEMMA SettleForkTimeoutKeeps ==
  ASSUME ForkInv, SettleForkTimeout
  PROVE  ForkInv'
<1> USE ForkScriptSet DEF ForkInv
<1>a. fjScript' \in [ForkScripts -> ForkRows]
  <2>1. \A n \in ForkScripts : [fjScript[n] EXCEPT !.status = "failed"] \in ForkRows
    BY DEF ForkTypes, ForkRows
  <2> QED BY <2>1 DEF SettleForkTimeout, ForkTypes
<1>b. fjBranch' \in [ForkBranches -> {"open", "succeeded", "failed", "cancelled"}]
  BY DEF SettleForkTimeout, ForkTypes, ClosedBranches
<1>1. ForkTypes'
  BY <1>a, <1>b, ForkDriverAt DEF SettleForkTimeout, ForkTypes
<1>2. ScriptEffects'
  <2>1. fjEffects' = fjEffects
    BY DEF SettleForkTimeout
  <2>2. \A n \in ForkScripts :
          \/ fjScript'[n] = fjScript[n]
          \/ /\ fjScript[n].status = "started" /\ fjScript'[n].status = "failed"
             /\ fjScript'[n].attempt = fjScript[n].attempt
             /\ fjScript'[n].retry = fjScript[n].retry
    BY DEF SettleForkTimeout, ForkTypes, ForkRows
  <2> QED BY <2>1, <2>2 DEF ScriptEffects, Startable
<1>3. ForkDriving'
  BY ForkDriverAt DEF SettleForkTimeout, ClosedBranches, Overdue, ForkTypes, ForkDriverSet, ForkRows, ScriptEffects, ForkDriving,
     Startable, Unsettled, FinallyFailed
<1>4. BranchesTell'
  BY ForkDriverAt DEF SettleForkTimeout, ClosedBranches, Overdue, ForkTypes, ForkDriverSet, ForkRows, ScriptEffects, ForkDriving,
     BranchesTell, Unsettled, FinallyFailed
<1>5. SuccessIsWhole'
  BY ForkDriverAt DEF SettleForkTimeout, ClosedBranches, Overdue, ForkTypes, ForkDriverSet, ForkDriving, BranchesTell,
     SuccessIsWhole, Unsettled, FinallyFailed
<1> QED BY <1>1, <1>2, <1>3, <1>4, <1>5

LEMMA RecoverForkRunKeeps ==
  ASSUME ForkInv, RecoverForkRun
  PROVE  ForkInv'
<1> USE ForkScriptSet DEF ForkInv
<1>a. fjScript' \in [ForkScripts -> ForkRows]
  <2>1. \A n \in ForkScripts : [fjScript[n] EXCEPT !.status = "failed"] \in ForkRows
    BY DEF ForkTypes, ForkRows
  <2> QED BY <2>1 DEF RecoverForkRun, InterruptedScripts, ForkTypes
<1>1. ForkTypes'
  BY <1>a, ForkDriverAt DEF RecoverForkRun, ForkTypes
<1>2. ScriptEffects'
  BY ForkDriverAt DEF RecoverForkRun, InterruptedScripts, ForkTypes, ForkDriverSet, ForkRows, ScriptEffects, Startable
<1>3. ForkDriving'
  BY ForkDriverAt DEF RecoverForkRun, InterruptedScripts, ForkTypes, ForkDriverSet, ForkRows, ScriptEffects, ForkDriving,
     Startable, Unsettled, FinallyFailed
<1>4. BranchesTell'
  BY ForkDriverAt DEF RecoverForkRun, InterruptedScripts, ForkTypes, ForkDriverSet, ForkRows, ScriptEffects, ForkDriving,
     BranchesTell, Unsettled, FinallyFailed
<1>5. SuccessIsWhole'
  BY ForkDriverAt DEF RecoverForkRun, InterruptedScripts, ForkTypes, ForkDriverSet, ForkDriving, BranchesTell,
     SuccessIsWhole, Unsettled, FinallyFailed
<1> QED BY <1>1, <1>2, <1>3, <1>4, <1>5

LEMMA SettleBranchKeeps ==
  ASSUME ForkInv, SettleBranch
  PROVE  ForkInv'
<1> USE ForkScriptSet DEF ForkInv
<1>1. /\ fjJoined' = fjJoined /\ fjRun' = fjRun /\ fjJoin' = fjJoin /\ fjScript' = fjScript
      /\ fjEffects' = fjEffects /\ fjDriver.at \in {"succeeded", "failed"} /\ fjRun # "succeeded"
  BY DEF SettleBranch, ForkDriving
<1>2. CASE fjDriver.todo = {}
  <2>1. /\ fjBranch' = fjBranch /\ fjDriver' \in ForkDriverSet
        /\ fjDriver'.active = fjDriver.active
        /\ \/ /\ fjDriver'.at = "failed"
              /\ fjDriver'.todo \subseteq {b \in Unsettled : FinallyFailed(b)}
           \/ fjDriver'.at = "join"
    <3>1. {b \in Unsettled : FinallyFailed(b)} \in SUBSET ForkScripts
      BY DEF Unsettled
    <3>2. CASE fjDriver.at = "succeeded"
      <4> DEFINE todo == {b \in Unsettled : FinallyFailed(b)}
      <4>1. fjBranch' = fjBranch /\ fjDriver' = [fjDriver EXCEPT !.at = "failed", !.todo = todo]
        BY <1>2, <3>2 DEF SettleBranch
      <4>2. todo \in SUBSET ForkScripts
        BY <3>1
      <4> HIDE DEF todo
      <4>3. /\ fjDriver' \in ForkDriverSet /\ fjDriver'.active = fjDriver.active
            /\ fjDriver'.at = "failed" /\ fjDriver'.todo = todo
        BY <4>1, <4>2 DEF ForkTypes, ForkDriverSet
      <4> QED BY <4>1, <4>3 DEF todo
    <3>3. CASE fjDriver.at = "failed"
      BY <1>2, <3>3 DEF SettleBranch, ForkTypes, ForkDriverSet
    <3> QED BY <1>1, <3>2, <3>3
  <2>2. ForkDriving'
    BY <1>1, <2>1 DEF ForkDriving, Unsettled, FinallyFailed
  <2> QED BY <1>1, <2>1, <2>2 DEF ForkTypes, ScriptEffects, Startable, BranchesTell, FinallyFailed,
          SuccessIsWhole
<1>3. CASE fjDriver.todo # {}
  <2> DEFINE b == Min(fjDriver.todo)
  <2>1. b \in fjDriver.todo
    BY <1>3, MinIsMember DEF ForkTypes, ForkDriverSet, ForkScripts, ForkBranches, Main
  <2>2. /\ fjDriver' = [fjDriver EXCEPT !.todo = @ \ {b}]
        /\ \/ fjDriver.at = "succeeded" /\ fjBranch' = [fjBranch EXCEPT ![b] = "succeeded"]
           \/ fjDriver.at = "failed" /\ fjBranch' = [fjBranch EXCEPT ![b] = fjScript[b].status]
    BY <1>3 DEF SettleBranch
  <2> HIDE DEF b
  <2>3. /\ b \in ForkBranches /\ fjBranch[b] = "open"
        /\ fjDriver.at = "failed" => FinallyFailed(b)
    BY <1>1, <2>1 DEF ForkDriving, Unsettled
  <2>4. /\ fjBranch' \in [ForkBranches -> {"open", "succeeded", "failed", "cancelled"}]
        /\ \A x \in ForkBranches \ {b} : fjBranch'[x] = fjBranch[x]
        /\ fjBranch'[b] = "succeeded" \/ FinallyFailed(b)
    BY <2>2, <2>3 DEF ForkTypes, FinallyFailed
  <2>5. /\ fjDriver' \in ForkDriverSet /\ fjDriver'.at = fjDriver.at
        /\ fjDriver'.active = fjDriver.active /\ fjDriver'.todo = fjDriver.todo \ {b}
    BY <2>2 DEF ForkTypes, ForkDriverSet
  <2>6. ForkTypes'
    BY <1>1, <2>4, <2>5 DEF ForkTypes
  <2>7. ScriptEffects'
    BY <1>1 DEF ScriptEffects, Startable
  <2>8. ForkDriving'
    <3>1. \A x \in fjDriver'.todo : x \in fjDriver.todo /\ x # b
      BY <2>5
    <3>2. \A x \in Unsettled : x # b => x \in Unsettled'
      BY <2>4 DEF Unsettled
    <3>3. \A x : FinallyFailed(x)' = FinallyFailed(x)
      BY <1>1 DEF FinallyFailed
    <3> QED BY <1>1, <2>5, <3>1, <3>2, <3>3 DEF ForkDriving
  <2>9. BranchesTell'
    <3>1. fjJoin = "succeeded" => \A x \in fjJoined : fjBranch'[x] = "succeeded"
      BY <2>3, <2>4 DEF BranchesTell, ForkTypes
    <3> QED BY <1>1, <2>3, <2>4, <3>1 DEF BranchesTell, FinallyFailed
  <2> QED BY <1>1, <2>6, <2>7, <2>8, <2>9 DEF SuccessIsWhole
<1> QED BY <1>2, <1>3

LEMMA RetryComesDueKeeps ==
  ASSUME ForkInv, NEW n \in ForkScripts, RetryComesDue(n)
  PROVE  ForkInv'
<1> USE ForkScriptSet DEF ForkInv
<1>1. /\ fjScript' \in [ForkScripts -> ForkRows]
      /\ \A x \in ForkScripts : /\ fjScript'[x].status = fjScript[x].status
                                /\ fjScript'[x].attempt = fjScript[x].attempt
      /\ \A x \in ForkScripts \ {n} : fjScript'[x] = fjScript[x]
      /\ fjScript'[n].retry = "due" /\ fjScript[n].retry = "later"
  BY DEF RetryComesDue, ForkTypes, ForkRows
<1>2. ForkTypes'
  BY <1>1 DEF RetryComesDue, ForkTypes
<1>3. ScriptEffects'
  BY <1>1 DEF RetryComesDue, ScriptEffects, Startable
<1>4. ForkDriving'
  BY <1>1 DEF RetryComesDue, ForkDriving, ForkTypes, ForkDriverSet, Startable, Unsettled,
     FinallyFailed, ScriptEffects
<1>5. BranchesTell'
  BY <1>1 DEF RetryComesDue, BranchesTell, FinallyFailed
<1>6. SuccessIsWhole'
  BY <1>1 DEF RetryComesDue, SuccessIsWhole
<1> QED BY <1>2, <1>3, <1>4, <1>5, <1>6

(* A start records the one attempt that may have an effect. *)
LEMMA ScriptStart ==
  ASSUME ForkInv, NEW n \in ForkScripts, Startable(n), StartScript(n)
  PROVE  /\ fjScript' \in [ForkScripts -> ForkRows] /\ fjEffects' \in [ForkScripts -> SUBSET Nat]
         /\ \A x \in ForkScripts \ {n} :
              fjScript'[x] = fjScript[x] /\ fjEffects'[x] = fjEffects[x]
         /\ fjScript'[n].status = "started" /\ fjScript'[n].retry = "no"
         /\ fjScript[n].status \in {"none", "failed"} /\ ~FinallyFailed(n)
         /\ ScriptEffects'
<1> USE DEF ForkInv
<1>1. fjScript[n] \in ForkRows /\ fjEffects[n] = {}
  BY DEF ForkTypes, ScriptEffects
<1> DEFINE row == [attempt |-> fjScript[n].attempt + 1, status |-> "started", retry |-> "no"]
<1>2. /\ row \in ForkRows /\ row.status = "started" /\ row.retry = "no"
      /\ row.attempt = fjScript[n].attempt + 1
  BY <1>1 DEF ForkRows
<1>3. fjScript' = [fjScript EXCEPT ![n] = row]
  BY DEF StartScript
<1> HIDE DEF row
<1>4. /\ fjScript' \in [ForkScripts -> ForkRows] /\ fjScript'[n] = row
      /\ \A x \in ForkScripts \ {n} : fjScript'[x] = fjScript[x]
  BY <1>2, <1>3 DEF ForkTypes
<1>5. /\ fjEffects' \in [ForkScripts -> SUBSET Nat]
      /\ fjEffects'[n] = {fjScript[n].attempt + 1}
      /\ \A x \in ForkScripts \ {n} : fjEffects'[x] = fjEffects[x]
  BY <1>1 DEF StartScript, ForkTypes, ForkRows
<1>6. ScriptEffects'
  BY <1>2, <1>4, <1>5 DEF ScriptEffects, Startable
<1>7. fjScript[n].status \in {"none", "failed"} /\ ~FinallyFailed(n)
  BY DEF Startable, ScriptEffects, FinallyFailed
<1> QED BY <1>2, <1>4, <1>5, <1>6, <1>7

(* What the recorded failure of a started script changes. *)
LEMMA ScriptFailure ==
  ASSUME ForkInv, NEW n \in ForkScripts, fjScript[n].status = "started",
         NEW kind \in {"threw", "crashed", "cancelled"}, FailScript(n, kind)
  PROVE  /\ fjScript' \in [ForkScripts -> ForkRows] /\ fjEffects' \in [ForkScripts -> SUBSET Nat]
         /\ \A x \in ForkScripts \ {n} :
              fjScript'[x] = fjScript[x] /\ fjEffects'[x] = fjEffects[x]
         /\ fjScript'[n].status \in {"failed", "cancelled"}
         /\ fjRun' \in {fjRun, "failed"}
         /\ ScriptEffects'
<1> USE DEF ForkInv
<1> DEFINE row == [fjScript[n] EXCEPT
                     !.status = IF kind = "cancelled" THEN kind ELSE "failed",
                     !.retry = IF kind = "threw" /\ fjScript[n].attempt < ForkAttempts
                                 THEN "later" ELSE "no"]
<1>1. fjScript[n] \in ForkRows /\ fjEffects[n] \subseteq {fjScript[n].attempt}
  BY DEF ForkTypes, ScriptEffects
<1>2. /\ row \in ForkRows /\ row.attempt = fjScript[n].attempt
      /\ row.status = IF kind = "cancelled" THEN "cancelled" ELSE "failed"
      /\ row.retry # "no" => kind = "threw" /\ row.retry = "later"
  BY <1>1 DEF ForkRows
<1>3. fjScript' = [fjScript EXCEPT ![n] = row]
  BY DEF FailScript
<1> HIDE DEF row
<1>4. /\ fjScript' \in [ForkScripts -> ForkRows] /\ fjScript'[n] = row
      /\ \A x \in ForkScripts \ {n} : fjScript'[x] = fjScript[x]
  BY <1>2, <1>3 DEF ForkTypes
<1>5. /\ fjEffects' \in [ForkScripts -> SUBSET Nat]
      /\ fjEffects'[n] \subseteq fjEffects[n]
      /\ kind = "threw" => fjEffects'[n] = {}
      /\ \A x \in ForkScripts \ {n} : fjEffects'[x] = fjEffects[x]
  BY <1>1 DEF FailScript, ForkTypes
<1>6. ScriptEffects'
  BY <1>1, <1>2, <1>4, <1>5 DEF ScriptEffects, Startable
<1>7. fjRun' \in {fjRun, "failed"}
  BY DEF FailScript
<1> QED BY <1>2, <1>4, <1>5, <1>6, <1>7

(* The end of a started script, of whatever kind. *)
LEMMA ScriptEnd ==
  ASSUME ForkInv, NEW n \in ForkScripts, fjScript[n].status = "started", ScriptOutcome(n)
  PROVE  /\ fjScript' \in [ForkScripts -> ForkRows] /\ fjEffects' \in [ForkScripts -> SUBSET Nat]
         /\ \A x \in ForkScripts \ {n} :
              fjScript'[x] = fjScript[x] /\ fjEffects'[x] = fjEffects[x]
         /\ fjScript'[n].status # "none"
         /\ fjRun' \in {fjRun, "failed"}
         /\ ScriptEffects'
<1>1. CASE Succeed(n)
  <2> USE DEF ForkInv
  <2> DEFINE row == [fjScript[n] EXCEPT !.status = "succeeded"]
  <2>1. fjScript[n] \in ForkRows /\ fjScript[n].retry = "no"
    BY DEF ForkTypes, ScriptEffects
  <2>2. /\ row \in ForkRows /\ row.attempt = fjScript[n].attempt /\ row.retry = "no"
        /\ row.status = "succeeded"
    BY <2>1 DEF ForkRows
  <2>3. fjScript' = [fjScript EXCEPT ![n] = row]
    BY <1>1 DEF Succeed
  <2> HIDE DEF row
  <2>4. /\ fjScript' \in [ForkScripts -> ForkRows] /\ fjScript'[n] = row
        /\ \A x \in ForkScripts \ {n} : fjScript'[x] = fjScript[x]
    BY <2>2, <2>3 DEF ForkTypes
  <2>5. ScriptEffects'
    BY <1>1, <2>2, <2>4 DEF Succeed, ScriptEffects, Startable
  <2> QED BY <1>1, <2>2, <2>4, <2>5 DEF Succeed, ForkTypes
<1>2. CASE \E kind \in {"threw", "crashed", "cancelled"} : FailScript(n, kind)
  BY <1>2, ScriptFailure
<1> QED BY <1>1, <1>2 DEF ScriptOutcome

(* One script moves; branches and join stay, and the driver holds no more  *)
(* than before but what it started itself.                                 *)
LEMMA ScriptMoves ==
  ASSUME ForkInv, NEW n \in ForkScripts,
         fjScript' \in [ForkScripts -> ForkRows], fjEffects' \in [ForkScripts -> SUBSET Nat],
         \A x \in ForkScripts \ {n} : fjScript'[x] = fjScript[x] /\ fjEffects'[x] = fjEffects[x],
         ScriptEffects', ~FinallyFailed(n), fjScript[n].status # "succeeded",
         fjScript'[n].status # "none",
         n = Main => fjJoin = "succeeded",
         fjRun # "succeeded", fjRun' \in {fjRun, "failed"},
         fjJoined' = fjJoined, fjJoin' = fjJoin, fjBranch' = fjBranch,
         fjDriver' \in ForkDriverSet, fjDriver'.at \notin {"succeeded", "failed"},
         \A x \in fjDriver'.active : fjScript'[x].status = "started",
         fjDriver'.at = "settling" => fjDriver'.active = {},
         fjDriver'.at = "start" =>
           fjDriver.at = "start" /\ fjDriver'.todo \subseteq fjDriver.todo \ {n}
  PROVE  ForkInv'
<1> USE ForkScriptSet DEF ForkInv
<1>1. ForkTypes'
  BY DEF ForkTypes
<1>2. ForkDriving'
  <2>1. fjDriver'.at = "start" =>
          \A x \in fjDriver'.todo : /\ x \in ForkScripts \ {n} /\ Startable(x)
                                    /\ x = Main => fjJoin = "succeeded"
    BY DEF ForkDriving, ForkDriverSet
  <2> QED BY <2>1 DEF ForkDriving, Startable
<1>3. BranchesTell'
  <2>1. ASSUME NEW b \in ForkBranches, fjBranch[b] \in {"failed", "cancelled"}
        PROVE  FinallyFailed(b)' \/ fjRun' \in {"cancelling", "cancelled", "failed"}
    <3>1. CASE b = n
      BY <2>1, <3>1 DEF BranchesTell
    <3>2. CASE b # n
      BY <2>1, <3>2 DEF BranchesTell, FinallyFailed
    <3> QED BY <3>1, <3>2
  <2> QED BY <2>1 DEF BranchesTell
<1>4. SuccessIsWhole'
  BY DEF SuccessIsWhole
<1> QED BY <1>1, <1>2, <1>3, <1>4

LEMMA RunSingleScriptKeeps ==
  ASSUME ForkInv, RunSingleScript
  PROVE  ForkInv'
<1> USE ForkScriptSet
<1>1. PICK n \in ReadyScripts :
        /\ StartScript(n) /\ fjDriver' = [DriverAt("script") EXCEPT !.active = {n}]
  BY DEF RunSingleScript
<1>2. /\ n \in ForkScripts /\ Startable(n) /\ fjRun = "running"
      /\ n = Main => fjJoin = "succeeded"
  BY DEF ReadyScripts
<1>3. /\ fjDriver' \in ForkDriverSet /\ fjDriver'.at = "script" /\ fjDriver'.active = {n}
  BY <1>1, <1>2, ForkDriverAt DEF ForkDriverSet
<1>4. /\ fjRun' = fjRun /\ fjJoined' = fjJoined /\ fjJoin' = fjJoin /\ fjBranch' = fjBranch
  BY DEF RunSingleScript
<1>5. /\ fjScript' \in [ForkScripts -> ForkRows] /\ fjEffects' \in [ForkScripts -> SUBSET Nat]
      /\ \A x \in ForkScripts \ {n} :
           fjScript'[x] = fjScript[x] /\ fjEffects'[x] = fjEffects[x]
      /\ fjScript'[n].status = "started" /\ fjScript[n].status # "succeeded"
      /\ ~FinallyFailed(n) /\ ScriptEffects'
  BY <1>1, <1>2, ScriptStart
<1> QED BY <1>2, <1>3, <1>4, <1>5, ScriptMoves

LEMMA ScriptEndKeeps ==
  ASSUME ForkInv, SingleScriptEnds \/ ForkScriptEnds
  PROVE  ForkInv'
<1> USE ForkScriptSet
<1>1. PICK n \in fjDriver.active :
        /\ ScriptOutcome(n)
        /\ \/ fjDriver' \in {DriverAt("loop"), DriverAt("settling"), DriverAt("returned")}
           \/ fjDriver' = [fjDriver EXCEPT !.at = "fork", !.active = @ \ {n}]
  BY DEF SingleScriptEnds, ForkScriptEnds, ForkDriverFails
<1>2. /\ n \in ForkScripts /\ fjScript[n].status = "started"
      /\ n = Main => fjJoin = "succeeded"
  BY DEF ForkInv, ForkTypes, ForkDriverSet, ForkDriving, BranchesTell
<1>3. fjRun # "succeeded"
  <2>1. fjDriver.at \in {"script", "await"}
    BY DEF SingleScriptEnds, ForkScriptEnds
  <2> QED BY <2>1 DEF ForkInv, ForkDriving, ForkTypes
<1>4. /\ fjJoined' = fjJoined /\ fjJoin' = fjJoin /\ fjBranch' = fjBranch
  BY DEF SingleScriptEnds, ForkScriptEnds
<1>5. /\ fjScript' \in [ForkScripts -> ForkRows] /\ fjEffects' \in [ForkScripts -> SUBSET Nat]
      /\ \A x \in ForkScripts \ {n} :
           fjScript'[x] = fjScript[x] /\ fjEffects'[x] = fjEffects[x]
      /\ fjScript'[n].status # "none" /\ fjRun' \in {fjRun, "failed"} /\ ScriptEffects'
  BY <1>1, <1>2, ScriptEnd
<1>6. /\ fjDriver' \in ForkDriverSet /\ fjDriver'.active \subseteq fjDriver.active \ {n}
      /\ fjDriver'.at \in {"loop", "settling", "returned", "fork"}
      /\ fjDriver'.at = "settling" => fjDriver'.active = {}
  <2>1. CASE fjDriver' \in {DriverAt("loop"), DriverAt("settling"), DriverAt("returned")}
    BY <2>1, ForkDriverAt, SMT
  <2>2. CASE fjDriver' = [fjDriver EXCEPT !.at = "fork", !.active = @ \ {n}]
    BY <2>2 DEF ForkInv, ForkTypes, ForkDriverSet
  <2> QED BY <1>1, <2>1, <2>2
<1>7. \A x \in fjDriver'.active : fjScript'[x].status = "started"
  BY <1>5, <1>6 DEF ForkInv, ForkTypes, ForkDriverSet, ForkDriving
<1>8. ~FinallyFailed(n)
  BY <1>2 DEF FinallyFailed
<1> QED BY <1>2, <1>3, <1>4, <1>5, <1>6, <1>7, <1>8, ScriptMoves

LEMMA StartForkScriptsKeeps ==
  ASSUME ForkInv, StartForkScripts
  PROVE  ForkInv'
<1> USE ForkScriptSet
<1>1. /\ fjDriver.at = "start" /\ fjRun' = fjRun /\ fjJoined' = fjJoined /\ fjJoin' = fjJoin
      /\ fjBranch' = fjBranch /\ fjRun # "succeeded"
  BY DEF StartForkScripts, ForkInv, ForkDriving
<1>2. CASE /\ UNCHANGED <<fjScript, fjEffects>>
           /\ \/ fjDriver' \in {DriverAt("fork"), DriverAt("settling"), DriverAt("returned")}
              \/ fjDriver' = [fjDriver EXCEPT !.at = "await"]
  <2>1. /\ fjDriver' \in ForkDriverSet /\ fjDriver'.active \subseteq fjDriver.active
        /\ fjDriver'.at \in {"fork", "settling", "returned", "await"}
        /\ fjDriver'.at = "settling" => fjDriver'.active = {}
    <3>1. CASE fjDriver' \in {DriverAt("fork"), DriverAt("settling"), DriverAt("returned")}
      BY <3>1, ForkDriverAt, SMT
    <3>2. CASE fjDriver' = [fjDriver EXCEPT !.at = "await"]
      BY <3>2 DEF ForkInv, ForkTypes, ForkDriverSet
    <3> QED BY <1>2, <3>1, <3>2
  <2> QED BY <1>1, <1>2, <2>1 DEF ForkInv, ForkTypes, ScriptEffects, Startable, ForkDriving,
          BranchesTell, FinallyFailed, SuccessIsWhole
<1>3. CASE \E n \in fjDriver.todo :
             /\ fjRun = "running" /\ StartScript(n)
             /\ fjDriver' = [fjDriver EXCEPT !.todo = @ \ {n}, !.active = @ \cup {n}]
  <2>1. PICK n \in fjDriver.todo :
          /\ StartScript(n)
          /\ fjDriver' = [fjDriver EXCEPT !.todo = @ \ {n}, !.active = @ \cup {n}]
    BY <1>3
  <2>2. n \in ForkScripts /\ Startable(n) /\ (n = Main => fjJoin = "succeeded")
    BY <1>1 DEF ForkInv, ForkTypes, ForkDriverSet, ForkDriving
  <2>3. /\ fjDriver' \in ForkDriverSet /\ fjDriver'.at = "start"
        /\ fjDriver'.active = fjDriver.active \cup {n} /\ fjDriver'.todo = fjDriver.todo \ {n}
    BY <1>1, <2>1, <2>2 DEF ForkInv, ForkTypes, ForkDriverSet
  <2>4. /\ fjScript' \in [ForkScripts -> ForkRows] /\ fjEffects' \in [ForkScripts -> SUBSET Nat]
        /\ \A x \in ForkScripts \ {n} :
             fjScript'[x] = fjScript[x] /\ fjEffects'[x] = fjEffects[x]
        /\ fjScript'[n].status = "started" /\ fjScript[n].status # "succeeded"
        /\ ~FinallyFailed(n) /\ ScriptEffects'
    BY <2>1, <2>2, ScriptStart
  <2>5. \A x \in fjDriver'.active : fjScript'[x].status = "started"
    BY <2>3, <2>4 DEF ForkInv, ForkTypes, ForkDriverSet, ForkDriving
  <2> QED BY <1>1, <2>2, <2>3, <2>4, <2>5, ScriptMoves
<1> QED BY <1>2, <1>3 DEF StartForkScripts

LEMMA SettleForkCancellationKeeps ==
  ASSUME ForkInv, SettleForkCancellation
  PROVE  ForkInv'
<1> USE ForkScriptSet
<1>1. /\ fjDriver.at = "settling" /\ fjRun = "cancelling" /\ fjJoined' = fjJoined
  BY DEF SettleForkCancellation
<1>2. CASE /\ \E n \in ForkScripts : fjScript[n].status = "started" /\ FailScript(n, "cancelled")
           /\ UNCHANGED <<fjJoin, fjBranch, fjDriver>> /\ fjDriver.active = {}
  <2>1. PICK n \in ForkScripts : fjScript[n].status = "started" /\ FailScript(n, "cancelled")
    BY <1>2
  <2>2. /\ fjScript' \in [ForkScripts -> ForkRows] /\ fjEffects' \in [ForkScripts -> SUBSET Nat]
        /\ \A x \in ForkScripts \ {n} :
             fjScript'[x] = fjScript[x] /\ fjEffects'[x] = fjEffects[x]
        /\ fjScript'[n].status # "none" /\ fjRun' \in {fjRun, "failed"} /\ ScriptEffects'
    BY <2>1, ScriptFailure
  <2>3. ~FinallyFailed(n) /\ (n = Main => fjJoin = "succeeded")
    BY <2>1 DEF FinallyFailed, ForkInv, BranchesTell
  <2>4. fjDriver' \in ForkDriverSet /\ fjDriver'.at = "settling" /\ fjDriver'.active = {}
    BY <1>1, <1>2 DEF ForkInv, ForkTypes
  <2> QED BY <1>1, <1>2, <2>1, <2>2, <2>3, <2>4, ScriptMoves
<1>3. CASE /\ Unsettled # {} /\ fjBranch' = [fjBranch EXCEPT ![Min(Unsettled)] = "cancelled"]
           /\ UNCHANGED <<fjRun, fjJoin, fjScript, fjEffects, fjDriver>>
  <2> DEFINE b == Min(Unsettled)
  <2>1. b \in Unsettled
    BY <1>3, MinIsMember DEF Unsettled
  <2>2. b \in ForkBranches /\ fjBranch[b] = "open"
    BY <2>1 DEF Unsettled
  <2> HIDE DEF b
  <2>3. fjBranch' = [fjBranch EXCEPT ![b] = "cancelled"]
    BY <1>3 DEF b
  <2>4. /\ fjBranch' \in [ForkBranches -> {"open", "succeeded", "failed", "cancelled"}]
        /\ \A x \in ForkBranches \ {b} : fjBranch'[x] = fjBranch[x]
    BY <2>2, <2>3 DEF ForkInv, ForkTypes
  <2>5. ForkDriving'
    BY <1>1, <1>3 DEF ForkInv, ForkDriving
  <2>6. BranchesTell'
    <3>1. fjJoin = "succeeded" => \A x \in fjJoined : fjBranch'[x] = "succeeded"
      BY <2>2, <2>4 DEF ForkInv, BranchesTell, ForkTypes
    <3> QED BY <1>1, <1>3, <3>1 DEF ForkInv, BranchesTell
  <2> QED BY <1>1, <1>3, <2>4, <2>5, <2>6 DEF ForkInv, ForkTypes, ScriptEffects, Startable,
          SuccessIsWhole
<1>4. CASE /\ UNCHANGED <<fjRun, fjBranch, fjScript, fjEffects>> /\ fjJoin = "pending"
           /\ \/ /\ fjJoin' = IF fjJoined = {} THEN "succeeded" ELSE "cancelled"
                 /\ UNCHANGED fjDriver
              \/ fjDriver' = DriverAt("returned") /\ UNCHANGED fjJoin
  <2>1. /\ fjDriver' \in ForkDriverSet /\ fjDriver'.active \subseteq fjDriver.active
        /\ fjDriver'.at \in {"returned", "settling"}
        /\ fjDriver'.at = "settling" => fjDriver'.active = {}
    BY <1>1, <1>4, ForkDriverAt DEF ForkInv, ForkTypes, ForkDriving
  <2>2. BranchesTell'
    BY <1>1, <1>4 DEF ForkInv, BranchesTell, FinallyFailed
  <2> QED BY <1>1, <1>4, <2>1, <2>2 DEF ForkInv, ForkTypes, ScriptEffects, Startable, ForkDriving,
          SuccessIsWhole
<1>5. CASE /\ fjRun' = "cancelled" /\ fjDriver' = DriverAt("returned")
           /\ UNCHANGED <<fjJoin, fjBranch, fjScript, fjEffects>>
  BY <1>1, <1>5, ForkDriverAt DEF ForkInv, ForkTypes, ScriptEffects, Startable, ForkDriving,
     BranchesTell, FinallyFailed, SuccessIsWhole
<1>6. fjDriver.active = {}
  BY <1>1 DEF ForkInv, ForkDriving
<1> QED BY <1>2, <1>3, <1>4, <1>5, <1>6 DEF SettleForkCancellation

LEMMA ForkStepKeeps ==
  ASSUME ForkInv, [ForkNext]_fjVars
  PROVE  ForkInv'
<1>1. CASE UNCHANGED fjVars
  BY <1>1 DEF fjVars, ForkInv, ForkTypes, ScriptEffects, Startable, ForkDriving, BranchesTell,
     Unsettled, FinallyFailed, SuccessIsWhole
<1> QED BY <1>1, RetryComesDueKeeps, DeadlinePassesKeeps, SettleForkTimeoutKeeps, OpenForkKeeps,
        EnterForkKeeps, RunSingleScriptKeeps, ScriptEndKeeps, SettleWorkflowKeeps, LeaveLoopKeeps,
        ForkPassKeeps, SettleBranchKeeps, SettleJoinKeeps, FinishForkKeeps,
        StartForkScriptsKeeps, SettleForkCancellationKeeps, RequestForkCancellationKeeps,
        CrashForkProcessKeeps, RecoverForkRunKeeps, ResumeForkRunKeeps
        DEF ForkNext

LEMMA ForkInitially == ForkInit => ForkInv
<1> USE ForkScriptSet
<1> SUFFICES ASSUME ForkInit PROVE ForkInv
  OBVIOUS
<1>1. fjJoined \subseteq ForkBranches
  <2>1. ForkBranches \subseteq Nat /\ ForkBranches # {}
    BY ForkAssumption DEF ForkBranches
  <2>2. Min(ForkBranches) \in ForkBranches
    BY <2>1, MinIsMember
  <2> QED BY <2>2 DEF ForkInit
<1>2. ForkTypes
  BY <1>1, ForkDriverAt DEF ForkInit, ForkTypes, ForkRows, NotAttempted
<1>3. ScriptEffects /\ ForkDriving
  BY ForkDriverAt DEF ForkInit, ScriptEffects, Startable, ForkDriving, NotAttempted
<1>4. BranchesTell /\ SuccessIsWhole
  BY <1>1 DEF ForkInit, BranchesTell, SuccessIsWhole, NotAttempted
<1> QED BY <1>2, <1>3, <1>4 DEF ForkInv

LEMMA ForkInvariance == ForkSpec => []ForkInv
  BY ForkInitially, ForkStepKeeps, PTL DEF ForkSpec

(***************************************************************************)
(* A run with a fork succeeds only as a whole, for forks of every width    *)
(* and join: a branch that did not succeed either has a script that failed *)
(* for good, which the settlement of the workflow sees, or was closed by a *)
(* run that was already ending (execute_fork, engine.workflow-settlement). *)
(***************************************************************************)
THEOREM ForkSuccessWhole == ForkSpec => []SuccessIsWhole
<1>1. ForkInv => SuccessIsWhole
  BY DEF ForkInv
<1> QED BY <1>1, ForkInvariance, PTL

(***************************************************************************)
(* The main route runs only behind joined branches that durably succeeded, *)
(* and no script of a fork is executed again after an attempt that is not  *)
(* known to have thrown: what the driver chose to start is still startable *)
(* when it is started, and a recovery schedules nothing (execute_fork,     *)
(* recover_run).                                                           *)
(***************************************************************************)
THEOREM ForkScriptsRunOnce == ForkSpec => []ForkRunsOnce
<1>1. ForkInv => ForkRunsOnce
  <2> SUFFICES ASSUME ForkInv PROVE ForkRunsOnce
    OBVIOUS
  <2> USE ForkScriptSet DEF ForkInv
  <2>1. fjScript[Main].attempt > 0 => \A b \in fjJoined : fjBranch[b] = "succeeded"
    BY DEF ScriptEffects, BranchesTell
  <2>2. ASSUME NEW n \in ForkScripts PROVE Cardinality(fjEffects[n]) <= 1
    <3>1. fjEffects[n] = {} \/ fjEffects[n] = {fjScript[n].attempt}
      BY DEF ScriptEffects
    <3>2. Cardinality({fjScript[n].attempt}) = 1 /\ Cardinality({}) = 0
      BY FS_Singleton, FS_EmptySet
    <3> QED BY <3>1, <3>2
  <2> QED BY <2>1, <2>2 DEF ForkRunsOnce
<1> QED BY <1>1, ForkInvariance, PTL



-----------------------------------------------------------------------------
(* Artifacts. *)

ArtifactRowSet ==
  [id : Nat, op : ArtifactOps, run : ArtifactRuns, content : Contents,
   status : {"available", "corrupt"}, expires : Nat]

TaskRows ==
  [phase : {"idle", "started", "writing", "staged", "published"},
   input : PutInputs \cup {0}, content : Contents \cup {NoContent},
   cancelled : BOOLEAN, waited : BOOLEAN]

TransferRows ==
  [status : {"none", "started", "succeeded", "failed"},
   input : PutInputs \cup Contents \cup {0}, id : Nat]

ArtifactTypes ==
  /\ arPlan \in ArtifactPlans
  /\ arTask \in [ArtifactOps -> TaskRows]
  /\ arTransfer \in [ArtifactOps -> TransferRows]
  /\ arRows \subseteq ArtifactRowSet
  /\ arRuns \in [ArtifactRuns -> {"live", "ended"}]
  /\ arUse \in [ArtifactRuns -> [by : {"none", "read", "review"}, id : Nat]]
  /\ arNow \in Nat /\ arIssued \in Nat
  /\ \A a \in arAnswers :
       /\ a.op \in ArtifactOps /\ a.id \in Nat
       /\ a = [op |-> a.op, id |-> a.id, content |-> a.content]

(* Identities are never given out twice. *)
IdentitiesUnique ==
  /\ \A x \in arRows : x.id \in 1..arIssued
  /\ \A x, y \in arRows : x.id = y.id => x.content = y.content /\ x.run = y.run

(* A transfer under way has the row it began, a settled one its artifact.  *)
TransfersTell ==
  \A op \in ArtifactOps :
    /\ arTask[op].phase \in {"started", "staged", "published"} => arTransfer[op].status = "started"
    /\ arTask[op].phase \in {"staged", "published"} => arTask[op].content \in Contents
    /\ arTask[op].phase = "writing" => arRuns[Owner(op)] = "live"
    /\ IF arTransfer[op].status = "succeeded"
         THEN /\ arTransfer[op].id \in 1..arIssued
              /\ \A x \in arRows : x.id = arTransfer[op].id => x.run = Owner(op)
         ELSE arTransfer[op].id = NoArtifact

(* What was answered is still what the key is settled with, until the run  *)
(* has ended and its rows have expired.                                    *)
AnswersTell ==
  \A a \in arAnswers :
    /\ \/ arTransfer[a.op].status = "succeeded" /\ arTransfer[a.op].id = a.id
       \/ arTransfer[a.op].status = "none" /\ arRuns[Owner(a.op)] = "ended"
    /\ a.id \in 1..arIssued
    /\ \A x \in arRows : x.id = a.id => x.content = a.content
    /\ arRuns[Owner(a.op)] = "live" =>
         \E x \in arRows : x.id = a.id /\ x.content = a.content

(* All answers of one key are the same. *)
AnswersOnce ==
  \A a, b \in arAnswers : a.op = b.op => a.id = b.id /\ a.content = b.content

(* A review is opened on a record that stands while its run goes on. *)
PinsTell ==
  /\ arPins \subseteq Identities
  /\ \A r \in ArtifactRuns : arUse[r].by = "review" =>
       arRuns[r] = "live" /\ \E x \in arRows : x.id = arUse[r].id /\ x.run = r

ArtifactInv ==
  /\ ArtifactTypes /\ IdentitiesUnique /\ TransfersTell
  /\ AnswersTell /\ AnswersOnce /\ PinsTell

LEMMA OwnersAreRuns ==
  ASSUME arPlan \in ArtifactPlans, NEW op \in ArtifactOps
  PROVE  Owner(op) \in ArtifactRuns
  BY DEF Owner, ArtifactRuns

(* The tables of the invariant; a step that leaves them alone keeps it. *)
ArtifactTables ==
  <<arPlan, arTask, arTransfer, arRows, arRuns, arUse, arPins, arNow, arIssued, arAnswers>>

LEMMA QuietArtifactStep ==
  ASSUME ArtifactInv, UNCHANGED ArtifactTables
  PROVE  ArtifactInv'
  BY DEF ArtifactTables, ArtifactInv, ArtifactTypes, IdentitiesUnique, TransfersTell,
     AnswersTell, AnswersOnce, PinsTell, Identities, Owner

LEMMA StartPutKeeps ==
  ASSUME ArtifactInv, NEW op \in ArtifactOps, NEW i \in PutInputs, StartPut(op, i)
  PROVE  ArtifactInv'
<1> USE OwnersAreRuns, ArtifactLimits DEF ArtifactInv
<1>1. ArtifactTypes'
  BY DEF StartPut, OutsideTransfers, MayBeginTransfer, IdleTask, Serving, ArtifactTypes, TaskRows, TransferRows, ArtifactRowSet, NoArtifact
<1>2. IdentitiesUnique'
  BY DEF StartPut, OutsideTransfers, MayBeginTransfer, IdleTask, Serving, ArtifactTypes, ArtifactRowSet,
     IdentitiesUnique
<1>3. TransfersTell'
  BY DEF StartPut, OutsideTransfers, MayBeginTransfer, IdleTask, Serving, ArtifactTypes, TaskRows,
     TransferRows, ArtifactRowSet, IdentitiesUnique, TransfersTell, NoArtifact, Owner
<1>4. AnswersTell'
  BY DEF StartPut, OutsideTransfers, MayBeginTransfer, IdleTask, Serving, ArtifactTypes, TaskRows,
     TransferRows, ArtifactRowSet, IdentitiesUnique, TransfersTell, AnswersTell, NoArtifact, Owner
<1>5. PinsTell'
  BY DEF StartPut, OutsideTransfers, MayBeginTransfer, IdleTask, Serving, ArtifactTypes, ArtifactRowSet,
     IdentitiesUnique, PinsTell, Identities
<1>6. AnswersOnce'
  BY DEF StartPut, OutsideTransfers, Tables, Others, AnswersOnce
<1> QED BY <1>1, <1>2, <1>3, <1>4, <1>5, <1>6

LEMMA RepeatPutKeeps ==
  ASSUME ArtifactInv, NEW op \in ArtifactOps, NEW i \in PutInputs, NEW c \in arPlan.contents, RepeatPut(op, i, c)
  PROVE  ArtifactInv'
<1> USE OwnersAreRuns, ArtifactLimits DEF ArtifactInv
<1>1. ArtifactTypes'
  BY DEF RepeatPut, OutsideTransfers, SettledArtifact, Answer, ArtifactTypes, TaskRows, TransferRows, ArtifactRowSet, NoArtifact
<1>2. IdentitiesUnique'
  BY DEF RepeatPut, OutsideTransfers, SettledArtifact, Answer, ArtifactTypes, ArtifactRowSet,
     IdentitiesUnique
<1>3. TransfersTell'
  BY DEF RepeatPut, OutsideTransfers, SettledArtifact, Answer, ArtifactTypes, TaskRows,
     TransferRows, ArtifactRowSet, IdentitiesUnique, TransfersTell, NoArtifact, Owner
<1>4. AnswersTell'
  BY DEF RepeatPut, OutsideTransfers, SettledArtifact, Answer, ArtifactTypes, TaskRows,
     TransferRows, ArtifactRowSet, IdentitiesUnique, TransfersTell, AnswersTell, NoArtifact, Owner
<1>5. PinsTell'
  BY DEF RepeatPut, OutsideTransfers, SettledArtifact, Answer, ArtifactTypes, ArtifactRowSet,
     IdentitiesUnique, PinsTell, Identities
<1>6. AnswersOnce'
  <2>1. PICK x \in arRows : /\ arTransfer[op].status = "succeeded" /\ x.id = arTransfer[op].id
                            /\ x.content = c
                            /\ arAnswers' = arAnswers \cup {[op |-> op, id |-> x.id, content |-> c]}
    BY DEF RepeatPut, SettledArtifact, Answer
  <2>2. \A a \in arAnswers : a.op = op => a.id = x.id /\ a.content = c
    BY <2>1 DEF RepeatPut, AnswersTell
  <2> QED BY <2>1, <2>2 DEF AnswersOnce
<1> QED BY <1>1, <1>2, <1>3, <1>4, <1>5, <1>6

LEMMA StagePutKeeps ==
  ASSUME ArtifactInv, NEW op \in ArtifactOps, NEW c \in arPlan.contents, StagePut(op, c)
  PROVE  ArtifactInv'
<1> USE OwnersAreRuns, ArtifactLimits DEF ArtifactInv
<1>a. arTask' \in [ArtifactOps -> TaskRows]
  <2> DEFINE row == [arTask[op] EXCEPT !.phase = "staged", !.content = c]
  <2>0. arTask[op] \in TaskRows /\ c \in Contents
    BY DEF ArtifactTypes
  <2>1. row \in TaskRows
    BY <2>0 DEF TaskRows
  <2>2. arTask' = [arTask EXCEPT ![op] = row]
    BY DEF StagePut, ArtifactTypes
  <2> HIDE DEF row
  <2> QED BY <2>1, <2>2 DEF ArtifactTypes
<1>1. ArtifactTypes'
  BY <1>a DEF StagePut, OutsideTransfers, ArtifactTypes
<1>2. IdentitiesUnique'
  BY DEF StagePut, OutsideTransfers, ArtifactTypes, ArtifactRowSet,
     IdentitiesUnique
<1>3. TransfersTell'
  BY DEF StagePut, OutsideTransfers, ArtifactTypes, TaskRows,
     TransferRows, ArtifactRowSet, IdentitiesUnique, TransfersTell, NoArtifact, Owner
<1>4. AnswersTell'
  BY DEF StagePut, OutsideTransfers, ArtifactTypes, TaskRows,
     TransferRows, ArtifactRowSet, IdentitiesUnique, TransfersTell, AnswersTell, NoArtifact, Owner
<1>5. PinsTell'
  BY DEF StagePut, OutsideTransfers, ArtifactTypes, ArtifactRowSet,
     IdentitiesUnique, PinsTell, Identities
<1>6. AnswersOnce'
  BY DEF StagePut, OutsideTransfers, Tables, Others, AnswersOnce
<1> QED BY <1>1, <1>2, <1>3, <1>4, <1>5, <1>6

LEMMA FinishOutputKeeps ==
  ASSUME ArtifactInv, NEW op \in ArtifactOps, NEW c \in arPlan.contents, FinishOutput(op, c)
  PROVE  ArtifactInv'
<1> USE OwnersAreRuns, ArtifactLimits DEF ArtifactInv
<1>x. c \in Contents /\ arTask[op].phase = "writing" /\ arRuns[Owner(op)] = "live"
  BY DEF FinishOutput, ArtifactTypes, TransfersTell
<1>y. \/ /\ arTransfer[op].status = "none"
         /\ arTransfer' = [arTransfer EXCEPT ![op] = [status |-> "started", input |-> c,
                                                      id |-> NoArtifact]]
         /\ arTask' = [arTask EXCEPT ![op].phase = "staged", ![op].content = c,
                                     ![op].waited = TRUE]
         /\ arAnswers' = arAnswers
      \/ /\ arTask' = [arTask EXCEPT ![op] = IdleTask] /\ arTransfer' = arTransfer
         /\ \/ arAnswers' = arAnswers
            \/ \E a \in SettledArtifact(op, c, c) : Answer(op, a.id, c)
  BY DEF FinishOutput, MayBeginTransfer
<1>z. /\ arPlan' = arPlan /\ arRuns' = arRuns /\ arUse' = arUse /\ arNow' = arNow
      /\ arRows' = arRows /\ arIssued' = arIssued /\ arPins' = arPins
  BY DEF FinishOutput, OutsideTransfers
<1>a. arTask' \in [ArtifactOps -> TaskRows]
  <2> DEFINE row == [arTask[op] EXCEPT !.phase = "staged", !.content = c, !.waited = TRUE]
  <2>0. arTask[op] \in TaskRows
    BY DEF ArtifactTypes
  <2>1. row \in TaskRows /\ IdleTask \in TaskRows
    BY <1>x, <2>0 DEF TaskRows, IdleTask
  <2>2. arTask' = [arTask EXCEPT ![op] = row] \/ arTask' = [arTask EXCEPT ![op] = IdleTask]
    BY <1>y DEF ArtifactTypes
  <2> HIDE DEF row
  <2> QED BY <2>1, <2>2 DEF ArtifactTypes
<1>b. arTransfer' \in [ArtifactOps -> TransferRows]
  <2> DEFINE row == [status |-> "started", input |-> c, id |-> NoArtifact]
  <2>1. row \in TransferRows
    BY <1>x DEF TransferRows, NoArtifact
  <2>2. arTransfer' = arTransfer \/ arTransfer' = [arTransfer EXCEPT ![op] = row]
    BY <1>y
  <2> HIDE DEF row
  <2> QED BY <2>1, <2>2 DEF ArtifactTypes
<1>c. \A a \in arAnswers' \ arAnswers :
        /\ a.op = op /\ a.id \in Nat /\ a.content = c
        /\ a = [op |-> a.op, id |-> a.id, content |-> a.content]
        /\ arTransfer'[op].status = "succeeded" /\ arTransfer'[op].id = a.id
        /\ \E x \in arRows : x.id = a.id /\ x.content = c
  BY <1>y DEF SettledArtifact, Answer, ArtifactTypes, ArtifactRowSet
<1>1. ArtifactTypes'
  BY <1>a, <1>b, <1>c, <1>z DEF ArtifactTypes
<1>2. IdentitiesUnique'
  BY DEF FinishOutput, OutsideTransfers, MayBeginTransfer, SettledArtifact, Answer, IdleTask, ArtifactTypes, ArtifactRowSet,
     IdentitiesUnique
<1>3. TransfersTell'
  <2> SUFFICES ASSUME NEW o \in ArtifactOps
               PROVE  /\ arTask'[o].phase \in {"started", "staged", "published"} =>
                           arTransfer'[o].status = "started"
                      /\ arTask'[o].phase \in {"staged", "published"} =>
                           arTask'[o].content \in Contents
                      /\ arTask'[o].phase = "writing" => arRuns[Owner(o)] = "live"
                      /\ IF arTransfer'[o].status = "succeeded"
                           THEN /\ arTransfer'[o].id \in 1..arIssued
                                /\ \A x \in arRows : x.id = arTransfer'[o].id => x.run = Owner(o)
                           ELSE arTransfer'[o].id = NoArtifact
    BY <1>z DEF TransfersTell, Owner
  <2>1. arTask \in [ArtifactOps -> TaskRows] /\ arTransfer \in [ArtifactOps -> TransferRows]
    BY DEF ArtifactTypes
  <2>2. CASE o # op
    <3>1. arTask'[o] = arTask[o] /\ arTransfer'[o] = arTransfer[o]
      BY <1>y, <2>1, <2>2
    <3> QED BY <3>1 DEF TransfersTell
  <2>3. CASE o = op /\ arTransfer' = arTransfer /\ arTask' = [arTask EXCEPT ![op] = IdleTask]
    <3>1. arTask'[o].phase = "idle" /\ arTransfer'[o] = arTransfer[o]
      BY <2>1, <2>3 DEF IdleTask
    <3> QED BY <3>1 DEF TransfersTell
  <2>4. CASE /\ o = op
             /\ arTransfer' = [arTransfer EXCEPT ![op] = [status |-> "started", input |-> c,
                                                          id |-> NoArtifact]]
             /\ arTask' = [arTask EXCEPT ![op].phase = "staged", ![op].content = c,
                                         ![op].waited = TRUE]
    <3>1. /\ arTask'[o].phase = "staged" /\ arTask'[o].content = c
          /\ arTransfer'[o].status = "started" /\ arTransfer'[o].id = NoArtifact
      BY <2>1, <2>4 DEF TaskRows
    <3> QED BY <1>x, <3>1
  <2> QED BY <1>y, <2>2, <2>3, <2>4
<1>4. AnswersTell'
  <2> SUFFICES ASSUME NEW a \in arAnswers'
               PROVE  /\ \/ arTransfer'[a.op].status = "succeeded" /\ arTransfer'[a.op].id = a.id
                         \/ arTransfer'[a.op].status = "none" /\ arRuns[Owner(a.op)] = "ended"
                      /\ a.id \in 1..arIssued
                      /\ \A x \in arRows : x.id = a.id => x.content = a.content
                      /\ arRuns[Owner(a.op)] = "live" =>
                           \E x \in arRows : x.id = a.id /\ x.content = a.content
    BY <1>z DEF AnswersTell, Owner
  <2>1. CASE a \in arAnswers
    <3>1. a.op \in ArtifactOps
      BY <2>1 DEF ArtifactTypes
    <3>2. arTransfer'[a.op] = arTransfer[a.op]
      BY <1>x, <1>y, <2>1, <3>1 DEF AnswersTell, ArtifactTypes
    <3> QED BY <2>1, <3>2 DEF AnswersTell
  <2>2. CASE a \notin arAnswers
    BY <1>c, <2>2 DEF IdentitiesUnique
  <2> QED BY <2>1, <2>2
<1>5. PinsTell'
  BY DEF FinishOutput, OutsideTransfers, MayBeginTransfer, SettledArtifact, Answer, IdleTask, ArtifactTypes, ArtifactRowSet,
     IdentitiesUnique, PinsTell, Identities
<1>6. AnswersOnce'
  <2>1. \A a \in arAnswers : a.op = op =>
          \A b \in arAnswers' \ arAnswers : b.id = a.id /\ b.content = a.content
    <3> SUFFICES ASSUME NEW a \in arAnswers, a.op = op, NEW b \in arAnswers' \ arAnswers
                 PROVE  b.id = a.id /\ b.content = a.content
      OBVIOUS
    <3>1. arTransfer' = arTransfer
      BY <1>y
    <3>2. arTransfer[op].id = a.id /\ \A x \in arRows : x.id = a.id => x.content = a.content
      BY <1>x DEF AnswersTell
    <3> QED BY <1>c, <3>1, <3>2
  <2>2. \A a, b \in arAnswers' \ arAnswers : a.id = b.id /\ a.content = b.content
    BY <1>c
  <2> QED BY <1>c, <2>1, <2>2 DEF AnswersOnce
<1> QED BY <1>1, <1>2, <1>3, <1>4, <1>5, <1>6

LEMMA PublishBlobKeeps ==
  ASSUME ArtifactInv, NEW op \in ArtifactOps, PublishBlob(op)
  PROVE  ArtifactInv'
<1> USE OwnersAreRuns, ArtifactLimits DEF ArtifactInv
<1>a. arTask' \in [ArtifactOps -> TaskRows]
  <2> DEFINE row == [arTask[op] EXCEPT !.phase = "published"]
  <2>0. arTask[op] \in TaskRows
    BY DEF ArtifactTypes
  <2>1. row \in TaskRows
    BY <2>0 DEF TaskRows
  <2>2. arTask' = [arTask EXCEPT ![op] = row]
    BY DEF PublishBlob, ArtifactTypes
  <2> HIDE DEF row
  <2> QED BY <2>1, <2>2 DEF ArtifactTypes
<1>1. ArtifactTypes'
  BY <1>a DEF PublishBlob, OutsideTransfers, ArtifactTypes
<1>2. IdentitiesUnique'
  BY DEF PublishBlob, OutsideTransfers, ArtifactTypes, ArtifactRowSet,
     IdentitiesUnique
<1>3. TransfersTell'
  BY DEF PublishBlob, OutsideTransfers, ArtifactTypes, TaskRows,
     TransferRows, ArtifactRowSet, IdentitiesUnique, TransfersTell, NoArtifact, Owner
<1>4. AnswersTell'
  BY DEF PublishBlob, OutsideTransfers, ArtifactTypes, TaskRows,
     TransferRows, ArtifactRowSet, IdentitiesUnique, TransfersTell, AnswersTell, NoArtifact, Owner
<1>5. PinsTell'
  BY DEF PublishBlob, OutsideTransfers, ArtifactTypes, ArtifactRowSet,
     IdentitiesUnique, PinsTell, Identities
<1>6. AnswersOnce'
  BY DEF PublishBlob, OutsideTransfers, Tables, Others, AnswersOnce
<1> QED BY <1>1, <1>2, <1>3, <1>4, <1>5, <1>6

LEMMA CommitTransferKeeps ==
  ASSUME ArtifactInv, NEW op \in ArtifactOps, CommitTransfer(op)
  PROVE  ArtifactInv'
<1> USE OwnersAreRuns, ArtifactLimits DEF ArtifactInv
<1> DEFINE new == arIssued + 1
           content == arTask[op].content
           artifact == [id |-> new, op |-> op, run |-> Owner(op), content |-> content,
                        status |-> "available", expires |-> arNow + 1]
           answer == [op |-> op, id |-> new, content |-> content]
<1>a. arTask' \in [ArtifactOps -> TaskRows]
  BY DEF CommitTransfer, IdleTask, ArtifactTypes, TaskRows
<1>b. arTransfer' \in [ArtifactOps -> TransferRows]
  <2> DEFINE row == [arTransfer[op] EXCEPT !.status = "succeeded", !.id = new]
  <2>0. arTransfer[op] \in TransferRows /\ new \in Nat
    BY DEF ArtifactTypes
  <2>1. row \in TransferRows
    BY <2>0 DEF TransferRows
  <2>2. arTransfer' = [arTransfer EXCEPT ![op] = row]
    BY DEF CommitTransfer, ArtifactTypes
  <2> HIDE DEF row
  <2> QED BY <2>1, <2>2 DEF ArtifactTypes
<1>c. arRows' = arRows \cup {artifact} /\ artifact \in ArtifactRowSet
  BY DEF CommitTransfer, ArtifactTypes, ArtifactRowSet, TransfersTell
<1>d. /\ arAnswers' \in {arAnswers, arAnswers \cup {answer}}
      /\ answer.op = op /\ answer.id = new /\ new \in Nat
      /\ answer = [op |-> answer.op, id |-> answer.id, content |-> answer.content]
  BY DEF CommitTransfer, Answer, ArtifactTypes
<1>e. arIssued' = new
  BY DEF CommitTransfer
<1> HIDE DEF artifact, answer, new, content
<1>1. ArtifactTypes'
  BY <1>a, <1>b, <1>c, <1>d, <1>e DEF CommitTransfer, OutsideTransfers, ArtifactTypes
<1> USE DEF artifact, answer, new, content
<1>2. IdentitiesUnique'
  BY DEF CommitTransfer, OutsideTransfers, Answer, IdleTask, ArtifactTypes, ArtifactRowSet,
     IdentitiesUnique
<1>3. TransfersTell'
  BY DEF CommitTransfer, OutsideTransfers, Answer, IdleTask, ArtifactTypes, TaskRows,
     TransferRows, ArtifactRowSet, IdentitiesUnique, TransfersTell, NoArtifact, Owner
<1>4. AnswersTell'
  BY DEF CommitTransfer, OutsideTransfers, Answer, IdleTask, ArtifactTypes, TaskRows,
     TransferRows, ArtifactRowSet, IdentitiesUnique, TransfersTell, AnswersTell, NoArtifact, Owner
<1>5. PinsTell'
  BY DEF CommitTransfer, OutsideTransfers, Answer, IdleTask, ArtifactTypes, ArtifactRowSet,
     IdentitiesUnique, PinsTell, Identities
<1>6. AnswersOnce'
  <2>1. \A a \in arAnswers : a.op # op
    BY DEF CommitTransfer, TransfersTell, AnswersTell
  <2> HIDE DEF artifact, answer, new, content
  <2> QED BY <1>d, <2>1 DEF AnswersOnce
<1> QED BY <1>1, <1>2, <1>3, <1>4, <1>5, <1>6

LEMMA FailTransferKeeps ==
  ASSUME ArtifactInv, NEW op \in ArtifactOps, FailTransfer(op)
  PROVE  ArtifactInv'
<1> USE OwnersAreRuns, ArtifactLimits DEF ArtifactInv
<1>a. arTask' \in [ArtifactOps -> TaskRows]
  BY DEF FailTransfer, IdleTask, ArtifactTypes, TaskRows
<1>b. arTransfer' \in [ArtifactOps -> TransferRows]
  <2> DEFINE row == [arTransfer[op] EXCEPT !.status = IF @ = "started" THEN "failed" ELSE @]
  <2>1. row \in TransferRows
    BY DEF ArtifactTypes, TransferRows
  <2>2. arTransfer' = arTransfer \/ arTransfer' = [arTransfer EXCEPT ![op] = row]
    BY DEF FailTransfer, SettleFailure, ArtifactTypes
  <2> HIDE DEF row
  <2> QED BY <2>1, <2>2 DEF ArtifactTypes
<1>1. ArtifactTypes'
  BY <1>a, <1>b DEF FailTransfer, OutsideTransfers, ArtifactTypes
<1>2. IdentitiesUnique'
  BY DEF FailTransfer, OutsideTransfers, SettleFailure, IdleTask, ArtifactTypes, ArtifactRowSet,
     IdentitiesUnique
<1>3. TransfersTell'
  BY DEF FailTransfer, OutsideTransfers, SettleFailure, IdleTask, ArtifactTypes, TaskRows,
     TransferRows, ArtifactRowSet, IdentitiesUnique, TransfersTell, NoArtifact, Owner
<1>4. AnswersTell'
  BY DEF FailTransfer, OutsideTransfers, SettleFailure, IdleTask, ArtifactTypes, TaskRows,
     TransferRows, ArtifactRowSet, IdentitiesUnique, TransfersTell, AnswersTell, NoArtifact, Owner
<1>5. PinsTell'
  BY DEF FailTransfer, OutsideTransfers, SettleFailure, IdleTask, ArtifactTypes, ArtifactRowSet,
     IdentitiesUnique, PinsTell, Identities
<1>6. AnswersOnce'
  BY DEF FailTransfer, OutsideTransfers, Tables, Others, AnswersOnce
<1> QED BY <1>1, <1>2, <1>3, <1>4, <1>5, <1>6

LEMMA GiveUpPutKeeps ==
  ASSUME ArtifactInv, NEW op \in ArtifactOps, GiveUpPut(op)
  PROVE  ArtifactInv'
<1> USE OwnersAreRuns, ArtifactLimits DEF ArtifactInv
<1>a. arTask' \in [ArtifactOps -> TaskRows]
  <2> DEFINE row == [arTask[op] EXCEPT !.waited = FALSE, !.cancelled = TRUE]
  <2>0. arTask[op] \in TaskRows
    BY DEF ArtifactTypes
  <2>1. row \in TaskRows
    BY <2>0 DEF TaskRows
  <2>2. arTask' = [arTask EXCEPT ![op] = row]
    BY DEF GiveUpPut, ArtifactTypes
  <2> HIDE DEF row
  <2> QED BY <2>1, <2>2 DEF ArtifactTypes
<1>1. ArtifactTypes'
  BY <1>a DEF GiveUpPut, OutsideTransfers, ArtifactTypes
<1>2. IdentitiesUnique'
  BY DEF GiveUpPut, OutsideTransfers, ArtifactTypes, ArtifactRowSet,
     IdentitiesUnique
<1>3. TransfersTell'
  BY DEF GiveUpPut, OutsideTransfers, ArtifactTypes, TaskRows,
     TransferRows, ArtifactRowSet, IdentitiesUnique, TransfersTell, NoArtifact, Owner
<1>4. AnswersTell'
  BY DEF GiveUpPut, OutsideTransfers, ArtifactTypes, TaskRows,
     TransferRows, ArtifactRowSet, IdentitiesUnique, TransfersTell, AnswersTell, NoArtifact, Owner
<1>5. PinsTell'
  BY DEF GiveUpPut, OutsideTransfers, ArtifactTypes, ArtifactRowSet,
     IdentitiesUnique, PinsTell, Identities
<1>6. AnswersOnce'
  BY DEF GiveUpPut, OutsideTransfers, Tables, Others, AnswersOnce
<1> QED BY <1>1, <1>2, <1>3, <1>4, <1>5, <1>6

LEMMA BeginOutputKeeps ==
  ASSUME ArtifactInv, NEW op \in ArtifactOps, BeginOutput(op)
  PROVE  ArtifactInv'
<1> USE OwnersAreRuns, ArtifactLimits DEF ArtifactInv
<1>a. arTask' \in [ArtifactOps -> TaskRows]
  <2> DEFINE row == [arTask[op] EXCEPT !.phase = "writing"]
  <2>0. arTask[op] \in TaskRows
    BY DEF ArtifactTypes
  <2>1. row \in TaskRows
    BY <2>0 DEF TaskRows
  <2>2. arTask' = [arTask EXCEPT ![op] = row]
    BY DEF BeginOutput, ArtifactTypes
  <2> HIDE DEF row
  <2> QED BY <2>1, <2>2 DEF ArtifactTypes
<1>1. ArtifactTypes'
  BY <1>a DEF BeginOutput, OutsideTransfers, ArtifactTypes
<1>2. IdentitiesUnique'
  BY DEF BeginOutput, OutsideTransfers, ArtifactTypes, ArtifactRowSet,
     IdentitiesUnique
<1>3. TransfersTell'
  BY DEF BeginOutput, OutsideTransfers, ArtifactTypes, TaskRows,
     TransferRows, ArtifactRowSet, IdentitiesUnique, TransfersTell, NoArtifact, Owner
<1>4. AnswersTell'
  BY DEF BeginOutput, OutsideTransfers, ArtifactTypes, TaskRows,
     TransferRows, ArtifactRowSet, IdentitiesUnique, TransfersTell, AnswersTell, NoArtifact, Owner
<1>5. PinsTell'
  BY DEF BeginOutput, OutsideTransfers, ArtifactTypes, ArtifactRowSet,
     IdentitiesUnique, PinsTell, Identities
<1>6. AnswersOnce'
  BY DEF BeginOutput, OutsideTransfers, Tables, Others, AnswersOnce
<1> QED BY <1>1, <1>2, <1>3, <1>4, <1>5, <1>6

LEMMA DropOutputKeeps ==
  ASSUME ArtifactInv, NEW op \in ArtifactOps, DropOutput(op)
  PROVE  ArtifactInv'
<1> USE OwnersAreRuns, ArtifactLimits DEF ArtifactInv
<1>1. ArtifactTypes'
  BY DEF DropOutput, OutsideTransfers, IdleTask, ArtifactTypes, TaskRows, TransferRows, ArtifactRowSet, NoArtifact
<1>2. IdentitiesUnique'
  BY DEF DropOutput, OutsideTransfers, IdleTask, ArtifactTypes, ArtifactRowSet,
     IdentitiesUnique
<1>3. TransfersTell'
  BY DEF DropOutput, OutsideTransfers, IdleTask, ArtifactTypes, TaskRows,
     TransferRows, ArtifactRowSet, IdentitiesUnique, TransfersTell, NoArtifact, Owner
<1>4. AnswersTell'
  BY DEF DropOutput, OutsideTransfers, IdleTask, ArtifactTypes, TaskRows,
     TransferRows, ArtifactRowSet, IdentitiesUnique, TransfersTell, AnswersTell, NoArtifact, Owner
<1>5. PinsTell'
  BY DEF DropOutput, OutsideTransfers, IdleTask, ArtifactTypes, ArtifactRowSet,
     IdentitiesUnique, PinsTell, Identities
<1>6. AnswersOnce'
  BY DEF DropOutput, OutsideTransfers, Tables, Others, AnswersOnce
<1> QED BY <1>1, <1>2, <1>3, <1>4, <1>5, <1>6

LEMMA AuthorizeUseKeeps ==
  ASSUME ArtifactInv, NEW r \in ArtifactRuns, NEW by \in arPlan.uses, NEW id \in Identities, AuthorizeUse(r, by, id)
  PROVE  ArtifactInv'
<1> USE OwnersAreRuns, ArtifactLimits DEF ArtifactInv
<1>1. ArtifactTypes'
  BY DEF AuthorizeUse, OutsideTransfers, ReferenceVerified, Authorized, Tables, ArtifactTypes, TaskRows, TransferRows, ArtifactRowSet, NoArtifact
<1>2. IdentitiesUnique'
  BY DEF AuthorizeUse, OutsideTransfers, ReferenceVerified, Authorized, Tables, ArtifactTypes, ArtifactRowSet,
     IdentitiesUnique
<1>3. TransfersTell'
  BY DEF AuthorizeUse, OutsideTransfers, ReferenceVerified, Authorized, Tables, ArtifactTypes, TaskRows,
     TransferRows, ArtifactRowSet, IdentitiesUnique, TransfersTell, NoArtifact, Owner
<1>4. AnswersTell'
  BY DEF AuthorizeUse, OutsideTransfers, ReferenceVerified, Authorized, Tables, ArtifactTypes, TaskRows,
     TransferRows, ArtifactRowSet, IdentitiesUnique, TransfersTell, AnswersTell, NoArtifact, Owner
<1>5. PinsTell'
  BY DEF AuthorizeUse, OutsideTransfers, ReferenceVerified, Authorized, Tables, ArtifactTypes, ArtifactRowSet,
     IdentitiesUnique, PinsTell, Identities
<1>6. AnswersOnce'
  BY DEF AuthorizeUse, OutsideTransfers, Tables, Others, AnswersOnce
<1> QED BY <1>1, <1>2, <1>3, <1>4, <1>5, <1>6

LEMMA MaterializeKeeps ==
  ASSUME ArtifactInv, NEW r \in ArtifactRuns, Materialize(r)
  PROVE  ArtifactInv'
<1> USE OwnersAreRuns, ArtifactLimits DEF ArtifactInv
<1>1. ArtifactTypes'
  BY DEF Materialize, OutsideTransfers, NoUse, Tables, ArtifactTypes, TaskRows, TransferRows, ArtifactRowSet, NoArtifact
<1>2. IdentitiesUnique'
  BY DEF Materialize, OutsideTransfers, NoUse, Tables, ArtifactTypes, ArtifactRowSet,
     IdentitiesUnique
<1>3. TransfersTell'
  BY DEF Materialize, OutsideTransfers, NoUse, Tables, ArtifactTypes, TaskRows,
     TransferRows, ArtifactRowSet, IdentitiesUnique, TransfersTell, NoArtifact, Owner
<1>4. AnswersTell'
  BY DEF Materialize, OutsideTransfers, NoUse, Tables, ArtifactTypes, TaskRows,
     TransferRows, ArtifactRowSet, IdentitiesUnique, TransfersTell, AnswersTell, NoArtifact, Owner
<1>5. PinsTell'
  BY DEF Materialize, OutsideTransfers, NoUse, Tables, ArtifactTypes, ArtifactRowSet,
     IdentitiesUnique, PinsTell, Identities
<1>6. AnswersOnce'
  BY DEF Materialize, OutsideTransfers, Tables, Others, AnswersOnce
<1> QED BY <1>1, <1>2, <1>3, <1>4, <1>5, <1>6

LEMMA PinReviewKeeps ==
  ASSUME ArtifactInv, NEW r \in ArtifactRuns, PinReview(r)
  PROVE  ArtifactInv'
<1> USE OwnersAreRuns, ArtifactLimits DEF ArtifactInv
<1>1. ArtifactTypes'
  BY DEF PinReview, OutsideTransfers, NoUse, Tables, ArtifactTypes, TaskRows, TransferRows, ArtifactRowSet, NoArtifact
<1>2. IdentitiesUnique'
  BY DEF PinReview, OutsideTransfers, NoUse, Tables, ArtifactTypes, ArtifactRowSet,
     IdentitiesUnique
<1>3. TransfersTell'
  BY DEF PinReview, OutsideTransfers, NoUse, Tables, ArtifactTypes, TaskRows,
     TransferRows, ArtifactRowSet, IdentitiesUnique, TransfersTell, NoArtifact, Owner
<1>4. AnswersTell'
  BY DEF PinReview, OutsideTransfers, NoUse, Tables, ArtifactTypes, TaskRows,
     TransferRows, ArtifactRowSet, IdentitiesUnique, TransfersTell, AnswersTell, NoArtifact, Owner
<1>5. PinsTell'
  BY DEF PinReview, OutsideTransfers, NoUse, Tables, ArtifactTypes, ArtifactRowSet,
     IdentitiesUnique, PinsTell, Identities
<1>6. AnswersOnce'
  BY DEF PinReview, OutsideTransfers, Tables, Others, AnswersOnce
<1> QED BY <1>1, <1>2, <1>3, <1>4, <1>5, <1>6

LEMMA EndRunKeeps ==
  ASSUME ArtifactInv, NEW r \in ArtifactRuns, EndRun(r)
  PROVE  ArtifactInv'
<1> USE OwnersAreRuns, ArtifactLimits DEF ArtifactInv
<1>1. ArtifactTypes'
  BY DEF EndRun, OutsideTransfers, NoUse, Tables, ArtifactTypes, TaskRows, TransferRows, ArtifactRowSet, NoArtifact
<1>2. IdentitiesUnique'
  BY DEF EndRun, OutsideTransfers, NoUse, Tables, ArtifactTypes, ArtifactRowSet,
     IdentitiesUnique
<1>3. TransfersTell'
  BY DEF EndRun, OutsideTransfers, NoUse, Tables, ArtifactTypes, TaskRows,
     TransferRows, ArtifactRowSet, IdentitiesUnique, TransfersTell, NoArtifact, Owner
<1>4. AnswersTell'
  BY DEF EndRun, OutsideTransfers, NoUse, Tables, ArtifactTypes, TaskRows,
     TransferRows, ArtifactRowSet, IdentitiesUnique, TransfersTell, AnswersTell, NoArtifact, Owner
<1>5. PinsTell'
  BY DEF EndRun, OutsideTransfers, NoUse, Tables, ArtifactTypes, ArtifactRowSet,
     IdentitiesUnique, PinsTell, Identities
<1>6. AnswersOnce'
  BY DEF EndRun, OutsideTransfers, Tables, Others, AnswersOnce
<1> QED BY <1>1, <1>2, <1>3, <1>4, <1>5, <1>6

LEMMA ReleasePinKeeps ==
  ASSUME ArtifactInv, NEW id \in arPins, ReleasePin(id)
  PROVE  ArtifactInv'
<1> USE OwnersAreRuns, ArtifactLimits DEF ArtifactInv
<1>1. ArtifactTypes'
  BY DEF ReleasePin, OutsideTransfers, Tables, ArtifactTypes, TaskRows, TransferRows, ArtifactRowSet, NoArtifact
<1>2. IdentitiesUnique'
  BY DEF ReleasePin, OutsideTransfers, Tables, ArtifactTypes, ArtifactRowSet,
     IdentitiesUnique
<1>3. TransfersTell'
  BY DEF ReleasePin, OutsideTransfers, Tables, ArtifactTypes, TaskRows,
     TransferRows, ArtifactRowSet, IdentitiesUnique, TransfersTell, NoArtifact, Owner
<1>4. AnswersTell'
  BY DEF ReleasePin, OutsideTransfers, Tables, ArtifactTypes, TaskRows,
     TransferRows, ArtifactRowSet, IdentitiesUnique, TransfersTell, AnswersTell, NoArtifact, Owner
<1>5. PinsTell'
  BY DEF ReleasePin, OutsideTransfers, Tables, ArtifactTypes, ArtifactRowSet,
     IdentitiesUnique, PinsTell, Identities
<1>6. AnswersOnce'
  BY DEF ReleasePin, OutsideTransfers, Tables, Others, AnswersOnce
<1> QED BY <1>1, <1>2, <1>3, <1>4, <1>5, <1>6

LEMMA ScrubBlobKeeps ==
  ASSUME ArtifactInv, NEW c \in Contents, ScrubBlob(c)
  PROVE  ArtifactInv'
<1> USE DEF ArtifactInv
<1>1. /\ \A y \in arRows' : \E x \in arRows :
           /\ y \in ArtifactRowSet
           /\ y.id = x.id /\ y.run = x.run /\ y.content = x.content
      /\ \A x \in arRows : \E y \in arRows' :
           y.id = x.id /\ y.run = x.run /\ y.content = x.content
  <2> DEFINE image(a) == IF a.content = c /\ ~Verified(c) THEN [a EXCEPT !.status = "corrupt"] ELSE a
  <2>1. \A x \in arRows : /\ image(x) \in ArtifactRowSet /\ image(x).id = x.id
                          /\ image(x).run = x.run /\ image(x).content = x.content
    BY DEF ArtifactTypes, ArtifactRowSet
  <2>2. arRows' = {image(a) : a \in arRows}
    BY DEF ScrubBlob
  <2> HIDE DEF image
  <2> QED BY <2>1, <2>2
<1>2. /\ arPlan' = arPlan /\ arTask' = arTask /\ arTransfer' = arTransfer /\ arRuns' = arRuns
      /\ arUse' = arUse /\ arNow' = arNow /\ arIssued' = arIssued /\ arAnswers' = arAnswers
      /\ arPins' = arPins
  BY DEF ScrubBlob, Others
<1>3. ArtifactTypes'
  BY <1>1, <1>2 DEF ArtifactTypes
<1>4. IdentitiesUnique'
  BY <1>1, <1>2 DEF IdentitiesUnique
<1>5. TransfersTell'
  BY <1>1, <1>2 DEF TransfersTell, Owner
<1>6. AnswersTell'
  BY <1>1, <1>2 DEF AnswersTell, Owner
<1>7. PinsTell'
  BY <1>1, <1>2 DEF PinsTell, Identities
<1>8. AnswersOnce'
  BY <1>2 DEF AnswersOnce
<1> QED BY <1>3, <1>4, <1>5, <1>6, <1>7, <1>8

LEMMA DeleteExpiredKeeps ==
  ASSUME ArtifactInv, DeleteExpired
  PROVE  ArtifactInv'
<1> USE OwnersAreRuns, ArtifactLimits DEF ArtifactInv
<1>1. ArtifactTypes'
  BY DEF DeleteExpired, OutsideTransfers, RetentionCandidates, Others, NoTransfer, ArtifactTypes, TaskRows, TransferRows, ArtifactRowSet, NoArtifact
<1>2. IdentitiesUnique'
  BY DEF DeleteExpired, OutsideTransfers, RetentionCandidates, Others, NoTransfer, ArtifactTypes, ArtifactRowSet,
     IdentitiesUnique
<1>3. TransfersTell'
  BY DEF DeleteExpired, OutsideTransfers, RetentionCandidates, Others, NoTransfer, ArtifactTypes, TaskRows,
     TransferRows, ArtifactRowSet, IdentitiesUnique, TransfersTell, NoArtifact, Owner
<1>4. AnswersTell'
  BY DEF DeleteExpired, OutsideTransfers, RetentionCandidates, Others, NoTransfer, ArtifactTypes, TaskRows,
     TransferRows, ArtifactRowSet, IdentitiesUnique, TransfersTell, AnswersTell, NoArtifact, Owner
<1>5. PinsTell'
  BY DEF DeleteExpired, OutsideTransfers, RetentionCandidates, Others, NoTransfer, ArtifactTypes, ArtifactRowSet,
     IdentitiesUnique, PinsTell, Identities
<1>6. AnswersOnce'
  BY DEF DeleteExpired, OutsideTransfers, Tables, Others, AnswersOnce
<1> QED BY <1>1, <1>2, <1>3, <1>4, <1>5, <1>6

LEMMA CrashArtifactHostKeeps ==
  ASSUME ArtifactInv, CrashArtifactHost
  PROVE  ArtifactInv'
<1> USE OwnersAreRuns, ArtifactLimits DEF ArtifactInv
<1>1. ArtifactTypes'
  BY DEF CrashArtifactHost, OutsideTransfers, IdleTask, NoUse, ArtifactTypes, TaskRows, TransferRows, ArtifactRowSet, NoArtifact
<1>2. IdentitiesUnique'
  BY DEF CrashArtifactHost, OutsideTransfers, IdleTask, NoUse, ArtifactTypes, ArtifactRowSet,
     IdentitiesUnique
<1>3. TransfersTell'
  BY DEF CrashArtifactHost, OutsideTransfers, IdleTask, NoUse, ArtifactTypes, TaskRows,
     TransferRows, ArtifactRowSet, IdentitiesUnique, TransfersTell, NoArtifact, Owner
<1>4. AnswersTell'
  BY DEF CrashArtifactHost, OutsideTransfers, IdleTask, NoUse, ArtifactTypes, TaskRows,
     TransferRows, ArtifactRowSet, IdentitiesUnique, TransfersTell, AnswersTell, NoArtifact, Owner
<1>5. PinsTell'
  BY DEF CrashArtifactHost, OutsideTransfers, IdleTask, NoUse, ArtifactTypes, ArtifactRowSet,
     IdentitiesUnique, PinsTell, Identities
<1>6. AnswersOnce'
  BY DEF CrashArtifactHost, OutsideTransfers, Tables, Others, AnswersOnce
<1> QED BY <1>1, <1>2, <1>3, <1>4, <1>5, <1>6

LEMMA PassArtifactTimeKeeps ==
  ASSUME ArtifactInv, PassArtifactTime
  PROVE  ArtifactInv'
<1> USE OwnersAreRuns, ArtifactLimits DEF ArtifactInv
<1>1. ArtifactTypes'
  BY DEF PassArtifactTime, OutsideTransfers, Tables, ArtifactTypes, TaskRows, TransferRows, ArtifactRowSet, NoArtifact
<1>2. IdentitiesUnique'
  BY DEF PassArtifactTime, OutsideTransfers, Tables, ArtifactTypes, ArtifactRowSet,
     IdentitiesUnique
<1>3. TransfersTell'
  BY DEF PassArtifactTime, OutsideTransfers, Tables, ArtifactTypes, TaskRows,
     TransferRows, ArtifactRowSet, IdentitiesUnique, TransfersTell, NoArtifact, Owner
<1>4. AnswersTell'
  BY DEF PassArtifactTime, OutsideTransfers, Tables, ArtifactTypes, TaskRows,
     TransferRows, ArtifactRowSet, IdentitiesUnique, TransfersTell, AnswersTell, NoArtifact, Owner
<1>5. PinsTell'
  BY DEF PassArtifactTime, OutsideTransfers, Tables, ArtifactTypes, ArtifactRowSet,
     IdentitiesUnique, PinsTell, Identities
<1>6. AnswersOnce'
  BY DEF PassArtifactTime, OutsideTransfers, Tables, Others, AnswersOnce
<1> QED BY <1>1, <1>2, <1>3, <1>4, <1>5, <1>6

LEMMA ArtifactStepKeeps ==
  ASSUME ArtifactInv, [ArtifactsNext]_arVars
  PROVE  ArtifactInv'
<1>1. CASE \/ UNCHANGED arVars
           \/ \E r \in ArtifactRuns : EndAttempt(r)
           \/ \E dry \in BOOLEAN : OpenStore(dry)
           \/ \E c \in Contents : InspectBlob(c) \/ DeleteBlob(c) \/ DamageBlob(c)
           \/ PlanRetention \/ AdvanceSweep
  <2>1. UNCHANGED ArtifactTables
    BY <1>1 DEF arVars, EndAttempt, OpenStore, InspectBlob, DeleteBlob, DamageBlob,
       PlanRetention, AdvanceSweep, Tables, Others, ArtifactTables
  <2> QED BY <2>1, QuietArtifactStep
<1> QED BY <1>1, StartPutKeeps, RepeatPutKeeps, StagePutKeeps, FinishOutputKeeps, PublishBlobKeeps,
        CommitTransferKeeps, FailTransferKeeps, GiveUpPutKeeps, BeginOutputKeeps,
        DropOutputKeeps, AuthorizeUseKeeps, MaterializeKeeps, PinReviewKeeps,
        EndRunKeeps, ReleasePinKeeps,         ScrubBlobKeeps,         DeleteExpiredKeeps, CrashArtifactHostKeeps,
        PassArtifactTimeKeeps
        DEF ArtifactsNext

LEMMA ArtifactsInitially == ArtifactsInit => ArtifactInv
<1> SUFFICES ASSUME ArtifactsInit PROVE ArtifactInv
  OBVIOUS
<1>1. ArtifactTypes
  BY DEF ArtifactsInit, ArtifactTypes, TaskRows, TransferRows, IdleTask, NoTransfer, NoUse, NoArtifact
<1>2. IdentitiesUnique /\ AnswersTell /\ AnswersOnce /\ PinsTell
  BY DEF ArtifactsInit, IdentitiesUnique, AnswersTell, AnswersOnce, PinsTell, NoUse
<1>3. TransfersTell
  BY DEF ArtifactsInit, TransfersTell, IdleTask, NoTransfer
<1> QED BY <1>1, <1>2, <1>3 DEF ArtifactInv

(***************************************************************************)
(* A reference answered to a put names the bytes the call offered, is the  *)
(* only one its operation key ever gets, and stands as long as its run     *)
(* goes on or a review pins it, for any number of runs, keys, repeats,     *)
(* crashes and maintenances: a key is settled once while its run lives,    *)
(* and only the rows of ended, unpinned runs are deleted (transfer.rs put, *)
(* maintenance.rs artifact_retention_candidates).                          *)
(***************************************************************************)
THEOREM AnsweredReferencesStand == ArtifactsSpec => []ReferencesStand
<1>1. ArtifactInv => ReferencesStand
  <2> SUFFICES ASSUME ArtifactInv PROVE ReferencesStand
    OBVIOUS
  <2> USE DEF ArtifactInv
  <2>1. ASSUME NEW a \in arAnswers, NEW b \in arAnswers, a.op = b.op
        PROVE  a = b
    <3>1. a.id = b.id /\ a.content = b.content
      BY <2>1 DEF AnswersOnce
    <3> QED BY <2>1, <3>1 DEF ArtifactTypes
  <2>2. ASSUME NEW a \in arAnswers, arRuns[Owner(a.op)] = "live" \/ a.id \in arPins
        PROVE  \E x \in arRows : x.id = a.id /\ x.content = a.content
    BY <2>2 DEF AnswersTell, PinsTell, Identities
  <2> QED BY <2>1, <2>2 DEF ReferencesStand
<1> QED BY <1>1, ArtifactsInitially, ArtifactStepKeeps, PTL DEF ArtifactsSpec

-----------------------------------------------------------------------------
(* Deliveries and emitted events. *)

DeliverySet == UNION DeliverySets
EventIds == Nat \cup {d.id : d \in DeliverySet}
EventPayloads == EmittedPayloads \cup {d.payload : d \in DeliverySet}
EventRunSet ==
  [sub : DOMAIN EventOf, source : {"event", "whatsapp", "run"}, id : EventIds,
   payload : EventPayloads, depth : Nat, state : {"queued", "running", "ended"}]
OutcomeSet == [run : Nat, duplicate : BOOLEAN]
HandlerSet ==
  [at : {"idle", "admitting", "admitted"}, rest : SUBSET DOMAIN EventOf,
   pending : OutcomeSet, accepted : SUBSET OutcomeSet]
EmissionSet ==
  [payload : EmittedPayloads, rest : SUBSET DOMAIN EventOf, retries : {0, 1}]

EventTables ==
  /\ eaRuns \in [DOMAIN eaRuns -> EventRunSet]
  /\ eaHost \in {"down", "prepared", "active"}
  /\ eaDriven \in [DOMAIN eaRuns -> Int]
  /\ Deliveries \subseteq DeliverySet /\ eaHandler \in [Deliveries -> HandlerSet]
  /\ eaEmission \in [DOMAIN eaRuns -> EmissionSet \cup {<<>>}]
  /\ eaHost = "active" =>
       \A n \in DOMAIN eaRuns : eaRuns[n].state = "running" => eaEmission[n] \in EmissionSet

(* They are numbered by admission. *)
EventSequences ==
  /\ eaRuns \in Seq(EventRunSet) /\ eaChannel \in Seq(OutcomeSet)
  /\ eaDriven \in Seq(Int) /\ Len(eaDriven) = Len(eaRuns)
  /\ eaEmission \in Seq(EmissionSet \cup {<<>>}) /\ Len(eaEmission) = Len(eaRuns)

(* The outcome that makes its holder dispatch run n. *)
Fresh(n) == [run |-> n, duplicate |-> FALSE]

(* An outcome of a delivery names a run of this very delivery. *)
NamesRunOf(o, d) ==
  /\ o = [run |-> o.run, duplicate |-> o.duplicate]
  /\ o.run \in DOMAIN eaRuns
  /\ eaRuns[o.run].source = d.channel
  /\ eaRuns[o.run].id = d.id /\ eaRuns[o.run].payload = d.payload

OutcomesTell ==
  /\ \A d \in Deliveries :
       /\ eaHandler[d].at = "admitted" => NamesRunOf(eaHandler[d].pending, d)
       /\ eaHandler[d].at # "admitted" => eaHandler[d].pending = NoOutcome
       /\ \A o \in eaHandler[d].accepted : NamesRunOf(o, d)
  /\ \A i \in DOMAIN eaChannel :
       /\ eaChannel[i] = [run |-> eaChannel[i].run, duplicate |-> eaChannel[i].duplicate]
       /\ eaChannel[i].run \in DOMAIN eaRuns /\ eaRuns[eaChannel[i].run].source = "run"
  /\ \A a \in eaAnswers :
       /\ a.run \in DOMAIN eaRuns
       /\ eaRuns[a.run].id = a.delivery.id /\ eaRuns[a.run].payload = a.delivery.payload

(* Only one holder ever dispatches a run. *)
PendingOnce ==
  \A n \in DOMAIN eaRuns :
    /\ \A d, e \in Deliveries :
         eaHandler[d].pending = Fresh(n) /\ eaHandler[e].pending = Fresh(n) => d = e
    /\ \A i, j \in DOMAIN eaChannel :
         eaChannel[i] = Fresh(n) /\ eaChannel[j] = Fresh(n) => i = j

(* A host that is not active has nothing under way. *)
HostAtRest ==
  /\ eaHost # "active" =>
       /\ \A n \in DOMAIN eaRuns : eaDriven[n] = 0
       /\ eaChannel = <<>>
       /\ \A d \in Deliveries : eaHandler[d] = HandlerIdle
  /\ eaHost = "prepared" => /\ eaRecovered = QueuedRuns
                            /\ \A n \in DOMAIN eaRuns : eaRuns[n].state # "running"

(* A source identity has one run per subscriber. *)
IdentitiesBound ==
  \A m, n \in DOMAIN eaRuns :
    /\ eaRuns[m].sub = eaRuns[n].sub /\ eaRuns[m].id = eaRuns[n].id
    /\ eaRuns[m].source = eaRuns[n].source
    => m = n

ParentsKnown ==
  \A n \in DOMAIN eaRuns : eaRuns[n].source = "run" => eaRuns[n].id \in DOMAIN eaRuns

EventInv ==
  /\ EventTables /\ EventSequences /\ OutcomesTell /\ PendingOnce /\ HostAtRest /\ IdentitiesBound
  /\ ParentsKnown /\ LineageNeverRepeats /\ QueuedRunsDrivenOnce

(* The fields of a run that no step changes. *)
SameRun(n) ==
  /\ eaRuns'[n].sub = eaRuns[n].sub /\ eaRuns'[n].source = eaRuns[n].source
  /\ eaRuns'[n].id = eaRuns[n].id /\ eaRuns'[n].payload = eaRuns[n].payload
  /\ eaRuns'[n].depth = eaRuns[n].depth

RunsKept == \A n \in DOMAIN eaRuns : n \in DOMAIN eaRuns' /\ SameRun(n)

(* A set of old runs holds its parents before a step exactly if it does after. *)
LEMMA OldParents ==
  ASSUME ParentsKnown, RunsKept
  PROVE  /\ \A runs \in SUBSET DOMAIN eaRuns : HoldsParents(runs) <=> HoldsParents(runs)'
         /\ \A runs : runs = DOMAIN eaRuns => HoldsParents(runs)'
         /\ \A runs \in SUBSET DOMAIN eaRuns' :
              HoldsParents(runs)' => HoldsParents(runs \cap DOMAIN eaRuns)
<1> USE DEF RunsKept, SameRun, ParentsKnown
<1>1. ASSUME NEW runs \in SUBSET DOMAIN eaRuns
      PROVE  HoldsParents(runs) <=> HoldsParents(runs)'
  BY DEF HoldsParents
<1>2. ASSUME NEW runs, runs = DOMAIN eaRuns
      PROVE  HoldsParents(runs)'
  BY <1>2 DEF HoldsParents
<1>3. ASSUME NEW runs \in SUBSET DOMAIN eaRuns', HoldsParents(runs)'
      PROVE  HoldsParents(runs \cap DOMAIN eaRuns)
  BY <1>3 DEF HoldsParents
<1> QED BY <1>1, <1>2, <1>3

(* What is admitted later changes no lineage. *)
LEMMA LineageStands ==
  ASSUME ParentsKnown, RunsKept, NEW n \in DOMAIN eaRuns
  PROVE  LineageOf(n)' = LineageOf(n)
<1>1. /\ eaRuns'[n].source = eaRuns[n].source /\ eaRuns'[n].id = eaRuns[n].id
      /\ eaRuns[n].source = "run" => eaRuns[n].id \in DOMAIN eaRuns
      /\ DOMAIN eaRuns \subseteq DOMAIN eaRuns'
  BY DEF RunsKept, SameRun, ParentsKnown
<1>2. ASSUME NEW m \in LineageOf(n)' PROVE m \in LineageOf(n)
  <2>1. m \in DOMAIN eaRuns
    BY <1>1, <1>2, OldParents DEF LineageOf
  <2>2. ASSUME NEW runs \in SUBSET DOMAIN eaRuns,
               eaRuns[n].source = "run" => eaRuns[n].id \in runs, HoldsParents(runs)
        PROVE  m \in runs
    BY <1>1, <1>2, <2>2, OldParents DEF LineageOf
  <2> QED BY <2>1, <2>2 DEF LineageOf
<1>3. ASSUME NEW m \in LineageOf(n) PROVE m \in LineageOf(n)'
  <2>1. m \in DOMAIN eaRuns'
    BY <1>1, <1>3 DEF LineageOf
  <2>2. ASSUME NEW runs \in SUBSET DOMAIN eaRuns',
               eaRuns'[n].source = "run" => eaRuns'[n].id \in runs, HoldsParents(runs)'
        PROVE  m \in runs
    <3>1. HoldsParents(runs \cap DOMAIN eaRuns)
      BY <2>2, OldParents
    <3>2. eaRuns[n].source = "run" => eaRuns[n].id \in runs \cap DOMAIN eaRuns
      BY <1>1, <2>2
    <3>3. m \in runs \cap DOMAIN eaRuns
      BY <1>3, <3>1, <3>2 DEF LineageOf
    <3> QED BY <3>3
  <2> QED BY <2>1, <2>2 DEF LineageOf
<1> QED BY <1>2, <1>3

LEMMA AncestorsAre ==
  ASSUME ParentsKnown, NEW n \in DOMAIN eaRuns
  PROVE  Ancestors(n) = LineageOf(n) \cup {n}
<1>1. ASSUME NEW m \in Ancestors(n), m # n PROVE m \in LineageOf(n)
  <2>1. ASSUME NEW runs \in SUBSET DOMAIN eaRuns,
               eaRuns[n].source = "run" => eaRuns[n].id \in runs, HoldsParents(runs)
        PROVE  m \in runs
    <3>1. HoldsParents(runs \cup {n})
      BY <2>1 DEF HoldsParents
    <3>2. m \in runs \cup {n}
      BY <1>1, <3>1 DEF Ancestors
    <3> QED BY <1>1, <3>2
  <2> QED BY <1>1, <2>1 DEF LineageOf, Ancestors
<1>2. ASSUME NEW m \in LineageOf(n) PROVE m \in Ancestors(n)
  <2>1. ASSUME NEW runs \in SUBSET DOMAIN eaRuns, n \in runs, HoldsParents(runs)
        PROVE  m \in runs
    <3>1. eaRuns[n].source = "run" => eaRuns[n].id \in runs
      BY <2>1 DEF HoldsParents
    <3> QED BY <1>2, <2>1, <3>1 DEF LineageOf
  <2> QED BY <1>2, <2>1 DEF LineageOf, Ancestors
<1>3. n \in Ancestors(n)
  BY DEF Ancestors
<1> QED BY <1>1, <1>2, <1>3

(* The lineage of a run that has just been emitted. *)
LEMMA NewLineage ==
  ASSUME ParentsKnown, RunsKept, NEW k \in DOMAIN eaRuns', eaRuns'[k].source = "run",
         eaRuns'[k].id \in DOMAIN eaRuns
  PROVE  LineageOf(k)' = Ancestors(eaRuns'[k].id)
<1> DEFINE p == eaRuns'[k].id
<1>1. DOMAIN eaRuns \subseteq DOMAIN eaRuns' /\ p \in DOMAIN eaRuns
  BY DEF RunsKept
<1>2. ASSUME NEW m \in LineageOf(k)' PROVE m \in Ancestors(p)
  <2>1. m \in DOMAIN eaRuns
    BY <1>1, <1>2, OldParents DEF LineageOf
  <2>2. ASSUME NEW runs \in SUBSET DOMAIN eaRuns, p \in runs, HoldsParents(runs)
        PROVE  m \in runs
    BY <1>1, <1>2, <2>2, OldParents DEF LineageOf
  <2> QED BY <2>1, <2>2 DEF Ancestors
<1>3. ASSUME NEW m \in Ancestors(p) PROVE m \in LineageOf(k)'
  <2>1. m \in DOMAIN eaRuns'
    BY <1>1, <1>3 DEF Ancestors
  <2>2. ASSUME NEW runs \in SUBSET DOMAIN eaRuns', p \in runs, HoldsParents(runs)'
        PROVE  m \in runs
    <3>1. HoldsParents(runs \cap DOMAIN eaRuns)
      BY <2>2, OldParents
    <3>2. m \in runs \cap DOMAIN eaRuns
      BY <1>1, <1>3, <2>2, <3>1 DEF Ancestors
    <3> QED BY <3>2
  <2> QED BY <2>1, <2>2 DEF LineageOf
<1> QED BY <1>2, <1>3

(* A step that admits nothing keeps what is known of families of runs. *)
LEMMA FamiliesKept ==
  ASSUME IdentitiesBound, ParentsKnown, LineageNeverRepeats,
         RunsKept, DOMAIN eaRuns' = DOMAIN eaRuns
  PROVE  IdentitiesBound' /\ ParentsKnown' /\ LineageNeverRepeats'
<1>1. IdentitiesBound' /\ ParentsKnown'
  BY DEF IdentitiesBound, ParentsKnown, RunsKept, SameRun
<1>2. ASSUME NEW n \in DOMAIN eaRuns
      PROVE  /\ \A m \in LineageOf(n)' : eaRuns'[m].sub # eaRuns'[n].sub
             /\ Cardinality(LineageOf(n)') = eaRuns'[n].depth
  <2>1. LineageOf(n)' = LineageOf(n) /\ LineageOf(n) \subseteq DOMAIN eaRuns
    BY LineageStands DEF LineageOf
  <2> QED BY <2>1 DEF LineageNeverRepeats, RunsKept, SameRun
<1> QED BY <1>1, <1>2 DEF LineageNeverRepeats

(* The runs after a step that admitted r. *)
Admitted(r) ==
  /\ Len(eaRuns') = Len(eaRuns) + 1 /\ eaRuns' \in Seq(EventRunSet)
  /\ \A n \in DOMAIN eaRuns : eaRuns'[n] = eaRuns[n]
  /\ eaRuns'[Len(eaRuns) + 1] = r

LEMMA FamiliesGrow ==
  ASSUME eaRuns \in Seq(EventRunSet), IdentitiesBound, ParentsKnown, LineageNeverRepeats,
         NEW r \in EventRunSet, Admitted(r), OccurrenceOf(r.sub, r.source, r.id) = {},
         \/ r.source # "run" /\ r.depth = 0
         \/ /\ r.source = "run" /\ r.id \in DOMAIN eaRuns
            /\ r.depth = eaRuns[r.id].depth + 1
            /\ \A m \in Ancestors(r.id) : eaRuns[m].sub # r.sub
  PROVE  IdentitiesBound' /\ ParentsKnown' /\ LineageNeverRepeats' /\ RunsKept
<1>0. PICK k : k = Len(eaRuns) + 1
  OBVIOUS
<1>1. /\ DOMAIN eaRuns = 1..Len(eaRuns) /\ DOMAIN eaRuns' = DOMAIN eaRuns \cup {k}
      /\ k \notin DOMAIN eaRuns /\ eaRuns'[k] = r
      /\ \A n \in DOMAIN eaRuns : eaRuns'[n] = eaRuns[n]
  BY <1>0 DEF Admitted
<1>2. RunsKept
  BY <1>1 DEF RunsKept, SameRun
<1>3. IdentitiesBound'
  BY <1>1 DEF IdentitiesBound, OccurrenceOf
<1>4. ParentsKnown'
  BY <1>1 DEF ParentsKnown
<1>5. ASSUME NEW n \in DOMAIN eaRuns
      PROVE  /\ \A m \in LineageOf(n)' : eaRuns'[m].sub # eaRuns'[n].sub
             /\ Cardinality(LineageOf(n)') = eaRuns'[n].depth
  <2>1. LineageOf(n)' = LineageOf(n) /\ LineageOf(n) \subseteq DOMAIN eaRuns
    BY <1>2, LineageStands DEF LineageOf
  <2> QED BY <1>1, <2>1 DEF LineageNeverRepeats
<1>6. CASE r.source # "run" /\ r.depth = 0
  <2>1. HoldsParents({})'
    BY DEF HoldsParents
  <2>2. LineageOf(k)' = {}
    BY <1>1, <1>6, <2>1 DEF LineageOf
  <2>3. Cardinality(LineageOf(k)') = 0
    BY <2>2, FS_EmptySet
  <2> QED BY <1>1, <1>3, <1>4, <1>2, <1>5, <1>6, <2>2, <2>3 DEF LineageNeverRepeats
<1>7. CASE /\ r.source = "run" /\ r.id \in DOMAIN eaRuns
           /\ r.depth = eaRuns[r.id].depth + 1
           /\ \A m \in Ancestors(r.id) : eaRuns[m].sub # r.sub
  <2> DEFINE L == LineageOf(r.id)
  <2>1. LineageOf(k)' = L \cup {r.id}
    BY <1>1, <1>2, <1>7, NewLineage, AncestorsAre
  <2>2. L \subseteq DOMAIN eaRuns /\ r.id \notin L /\ Cardinality(L) = eaRuns[r.id].depth
    BY <1>7 DEF LineageNeverRepeats, LineageOf
  <2>3. IsFiniteSet(L)
    <3>1. Len(eaRuns) \in Nat
      OBVIOUS
    <3>2. IsFiniteSet(1..Len(eaRuns))
      BY <3>1, InitialSegmentFinite, Zenon
    <3>3. L \subseteq 1..Len(eaRuns)
      BY <1>1, <2>2
    <3> QED BY <3>2, <3>3, FS_Subset, Zenon
  <2> HIDE DEF L
  <2>4. Cardinality(L \cup {r.id}) = Cardinality(L) + 1
    BY <2>2, <2>3, FS_AddElement
  <2>5. \A m \in L \cup {r.id} : m \in DOMAIN eaRuns /\ eaRuns[m].sub # r.sub
    BY <1>7, <2>2, AncestorsAre DEF L
  <2> QED BY <1>1, <1>2, <1>3, <1>4, <1>5, <1>7, <2>1, <2>2, <2>4, <2>5 DEF LineageNeverRepeats
<1> QED BY <1>6, <1>7

LEMMA SequenceGrows ==
  ASSUME NEW S, NEW q \in Seq(S), NEW e \in S
  PROVE  /\ Append(q, e) \in Seq(S) /\ Len(Append(q, e)) = Len(q) + 1
         /\ DOMAIN q = 1..Len(q) /\ DOMAIN Append(q, e) = DOMAIN q \cup {Len(q) + 1}
         /\ \A n \in DOMAIN q : Append(q, e)[n] = q[n]
         /\ Append(q, e)[Len(q) + 1] = e
  OBVIOUS

LEMMA SequenceIsFunction ==
  ASSUME NEW T, NEW q \in Seq(T)
  PROVE  q \in [DOMAIN q -> T]
  OBVIOUS

LEMMA SequenceAgain ==
  ASSUME NEW T, NEW k \in Nat, NEW f \in [1..k -> T]
  PROVE  f \in Seq(T) /\ Len(f) = k
  OBVIOUS

(* A step that admits nothing leaves the numbering alone. *)
LEMMA SequencesKept ==
  ASSUME EventTables, EventSequences, EventTables', DOMAIN eaRuns' = DOMAIN eaRuns,
         eaChannel' \in Seq(OutcomeSet)
  PROVE  EventSequences'
<1>s. DOMAIN eaRuns = 1..Len(eaRuns) /\ Len(eaRuns) \in Nat
  BY DEF EventSequences
<1>0. /\ eaRuns' \in [1..Len(eaRuns) -> EventRunSet] /\ eaDriven' \in [1..Len(eaRuns) -> Int]
      /\ eaEmission' \in [1..Len(eaRuns) -> EmissionSet \cup {<<>>}]
  BY <1>s DEF EventTables
<1>1. eaRuns' \in Seq(EventRunSet) /\ Len(eaRuns') = Len(eaRuns)
  BY <1>s, <1>0, SequenceAgain
<1>2. eaDriven' \in Seq(Int) /\ Len(eaDriven') = Len(eaRuns)
  BY <1>s, <1>0, SequenceAgain
<1>3. eaEmission' \in Seq(EmissionSet \cup {<<>>}) /\ Len(eaEmission') = Len(eaRuns)
  BY <1>s, <1>0, SequenceAgain
<1> QED BY <1>1, <1>2, <1>3 DEF EventSequences

LEMMA DeliveriesAre ==
  ASSUME EventTables, NEW d \in Deliveries
  PROVE  /\ d.channel \in {"event", "whatsapp"} /\ d.id \in EventIds /\ d.payload \in EventPayloads
         /\ eaHandler[d] \in HandlerSet
  BY EventAssumption DEF EventTables, EventIds, EventPayloads, DeliverySet, Deliveries

LEMMA HandlerMoves ==
  ASSUME EventTables, NEW d \in Deliveries, NEW row \in HandlerSet,
         eaHandler' = [eaHandler EXCEPT ![d] = row]
  PROVE  /\ Deliveries' = Deliveries /\ eaHandler' \in [Deliveries -> HandlerSet]
         /\ eaHandler'[d] = row /\ \A e \in Deliveries : e # d => eaHandler'[e] = eaHandler[e]
  BY DEF EventTables, Deliveries

(* What a verdict says of the occurrence. *)
LEMMA VerdictTells ==
  ASSUME IdentitiesBound, NEW s, NEW source, NEW id, NEW payload
  PROVE  /\ AdmissionVerdict(s, source, id, payload) = "new" => OccurrenceOf(s, source, id) = {}
         /\ AdmissionVerdict(s, source, id, payload) = "duplicate" =>
              /\ OccurrenceOf(s, source, id) # {}
              /\ \A n \in OccurrenceOf(s, source, id) : eaRuns[n].payload = payload
<1>1. \A m, n \in OccurrenceOf(s, source, id) : m = n
  BY DEF OccurrenceOf, IdentitiesBound
<1>2. ASSUME AdmissionVerdict(s, source, id, payload) = "new"
      PROVE  OccurrenceOf(s, source, id) = {}
  BY <1>1, <1>2 DEF AdmissionVerdict
<1>3. ASSUME AdmissionVerdict(s, source, id, payload) = "duplicate"
      PROVE  /\ OccurrenceOf(s, source, id) # {}
             /\ \A n \in OccurrenceOf(s, source, id) : eaRuns[n].payload = payload
  BY <1>1, <1>3 DEF AdmissionVerdict
<1> QED BY <1>2, <1>3

(* A queued run whose tasks and pending dispatches are left alone. *)
LEMMA DrivenKept ==
  ASSUME QueuedRunsDrivenOnce, eaHost' = "active" => eaHost = "active",
         \A n \in QueuedRuns' : eaRuns'[n].source # "whatsapp" =>
           /\ n \in QueuedRuns /\ eaRuns[n].source # "whatsapp"
           /\ eaDriven'[n] = eaDriven[n]
           /\ (DispatchPending(n)' <=> DispatchPending(n))
  PROVE  QueuedRunsDrivenOnce'
  BY DEF QueuedRunsDrivenOnce

(* What every step of a handler that admits nothing keeps. *)
HandlerStepHolds(d) ==
  /\ EventTables' /\ EventSequences' /\ PendingOnce' /\ HostAtRest'
  /\ IdentitiesBound' /\ ParentsKnown' /\ LineageNeverRepeats'
  /\ eaAnswers' = eaAnswers => OutcomesTell'
  /\ \A n \in DOMAIN eaRuns : eaHandler[d].pending # Fresh(n) =>
       (DispatchPending(n)' <=> DispatchPending(n))

(* What the steps on handlers leave alone, and what follows of it. *)
LEMMA HandlerStepKeeps ==
  ASSUME EventInv, NEW d \in Deliveries, NEW row \in HandlerSet,
         eaHandler' = [eaHandler EXCEPT ![d] = row], eaHost = "active",
         UNCHANGED <<eaRuns, eaHost, eaChannel, eaEmission>>,
         eaDriven' \in [DOMAIN eaRuns -> Int],
         row.at = "admitted" => NamesRunOf(row.pending, d),
         row.at # "admitted" => row.pending = NoOutcome,
         \A n \in DOMAIN eaRuns : row.pending # Fresh(n),
         \A o \in row.accepted : NamesRunOf(o, d)
  PROVE  HandlerStepHolds(d)
<1> USE DEF EventInv
<1>1. /\ Deliveries' = Deliveries /\ eaHandler' \in [Deliveries -> HandlerSet]
      /\ eaHandler'[d] = row /\ \A e \in Deliveries : e # d => eaHandler'[e] = eaHandler[e]
  BY HandlerMoves
<1>2. EventTables'
  BY <1>1 DEF EventTables
<1>3. EventSequences'
  BY <1>2, SequencesKept DEF EventSequences
<1>5. PendingOnce'
  <2>1. \A n \in DOMAIN eaRuns : eaHandler'[d].pending # Fresh(n)
    BY <1>1
  <2>2. ASSUME NEW n \in DOMAIN eaRuns, NEW e \in Deliveries, NEW f \in Deliveries,
               eaHandler'[e].pending = Fresh(n), eaHandler'[f].pending = Fresh(n)
        PROVE  e = f
    BY <1>1, <2>1, <2>2 DEF PendingOnce
  <2> QED BY <1>1, <2>2 DEF PendingOnce, Fresh
<1>6. HostAtRest'
  BY DEF HostAtRest
<1>7. RunsKept /\ DOMAIN eaRuns' = DOMAIN eaRuns
  BY DEF RunsKept, SameRun
<1>8. IdentitiesBound' /\ ParentsKnown' /\ LineageNeverRepeats'
  BY <1>7, FamiliesKept
<1>9. ASSUME eaAnswers' = eaAnswers PROVE OutcomesTell'
  <2>1. ASSUME NEW e \in Deliveries
        PROVE  /\ eaHandler'[e].at = "admitted" => NamesRunOf(eaHandler'[e].pending, e)
               /\ eaHandler'[e].at # "admitted" => eaHandler'[e].pending = NoOutcome
               /\ \A o \in eaHandler'[e].accepted : NamesRunOf(o, e)
    BY <1>1 DEF OutcomesTell
  <2> QED BY <1>1, <1>9, <2>1 DEF OutcomesTell, NamesRunOf
<1>10. ASSUME NEW n \in DOMAIN eaRuns, eaHandler[d].pending # Fresh(n)
       PROVE  DispatchPending(n)' <=> DispatchPending(n)
  BY <1>1, <1>10 DEF DispatchPending, Fresh
<1> QED BY <1>2, <1>3, <1>5, <1>6, <1>8, <1>9, <1>10 DEF HandlerStepHolds

(* An outcome makes its holder dispatch unless it is a duplicate. *)
LEMMA FreshIs ==
  ASSUME NEW o \in OutcomeSet, NEW n
  PROVE  o = Fresh(n) <=> o.run = n /\ ~o.duplicate
<1>1. o = [run |-> o.run, duplicate |-> o.duplicate] /\ o.duplicate \in BOOLEAN
  BY DEF OutcomeSet
<1>2. ASSUME o.run = n, ~o.duplicate PROVE o = Fresh(n)
  BY <1>1, <1>2 DEF Fresh
<1>3. ASSUME o = Fresh(n) PROVE o.run = n /\ ~o.duplicate
  BY <1>3 DEF Fresh
<1> QED BY <1>2, <1>3

(* A handler that is under way belongs to an active host. *)
LEMMA HandlerActive ==
  ASSUME EventInv, NEW d \in Deliveries
  PROVE  /\ eaHandler[d].at # "idle" => eaHost = "active"
         /\ eaHandler[d].at # "admitted" => eaHandler[d].pending = NoOutcome
         /\ \A n \in DOMAIN eaRuns : NoOutcome # Fresh(n)
  BY DEF EventInv, HostAtRest, HandlerIdle, OutcomesTell, NoOutcome, Fresh, EventSequences

LEMMA ReceiveDeliveryKeeps ==
  ASSUME EventInv, NEW d \in Deliveries, ReceiveDelivery(d)
  PROVE  EventInv'
<1> DEFINE row == [HandlerIdle EXCEPT !.at = "admitting", !.rest = Subscribers(d.event)]
<1>1. row \in HandlerSet /\ row.pending = NoOutcome /\ row.at = "admitting" /\ row.accepted = {}
  BY DEF HandlerIdle, NoOutcome, HandlerSet, OutcomeSet, Subscribers
<1>2. /\ eaHandler' = [eaHandler EXCEPT ![d] = row] /\ eaHost = "active"
      /\ UNCHANGED <<eaRuns, eaHost, eaChannel, eaEmission, eaDriven, eaAnswers>>
      /\ eaHandler[d].pending = NoOutcome
  BY HandlerActive DEF ReceiveDelivery
<1>3. eaDriven' \in [DOMAIN eaRuns -> Int]
  BY <1>2 DEF EventInv, EventTables
<1> HIDE DEF row
<1>4. HandlerStepHolds(d)
  BY <1>1, <1>2, <1>3, HandlerStepKeeps, HandlerActive
<1>5. QueuedRunsDrivenOnce'
  BY <1>2, <1>4, DrivenKept, HandlerActive DEF HandlerStepHolds, EventInv, QueuedRuns
<1> QED BY <1>2, <1>4, <1>5 DEF HandlerStepHolds, EventInv

LEMMA RefusedDeliveryKeeps ==
  ASSUME EventInv, NEW d \in Deliveries, eaHandler[d].at = "admitting", RefusedDelivery(d)
  PROVE  EventInv'
<1> DEFINE rest == eaHandler[d].rest
           row == IF d.channel = "whatsapp" THEN HandlerIdle
                  ELSE [eaHandler[d] EXCEPT !.rest = rest \ {Min(rest)}]
<1>0. eaHandler[d] \in HandlerSet
  BY DeliveriesAre DEF EventInv
<1>1. /\ row \in HandlerSet /\ row.at # "admitted" /\ row.pending = NoOutcome
      /\ row.accepted \subseteq eaHandler[d].accepted
  BY <1>0, HandlerActive DEF HandlerIdle, NoOutcome, HandlerSet, OutcomeSet
<1>2. /\ eaHandler' = [eaHandler EXCEPT ![d] = row] /\ eaHost = "active"
      /\ UNCHANGED <<eaRuns, eaHost, eaChannel, eaEmission, eaDriven, eaAnswers>>
      /\ eaHandler[d].pending = NoOutcome
  BY <1>0, HandlerActive DEF RefusedDelivery, HandlerSet
<1>3. eaDriven' \in [DOMAIN eaRuns -> Int]
  BY <1>2 DEF EventInv, EventTables
<1>4. \A o \in row.accepted : NamesRunOf(o, d)
  BY <1>1 DEF EventInv, OutcomesTell
<1> HIDE DEF row
<1>5. HandlerStepHolds(d)
  BY <1>1, <1>2, <1>3, <1>4, HandlerStepKeeps, HandlerActive
<1>6. QueuedRunsDrivenOnce'
  BY <1>2, <1>5, DrivenKept, HandlerActive DEF HandlerStepHolds, EventInv, QueuedRuns
<1> QED BY <1>2, <1>5, <1>6 DEF HandlerStepHolds, EventInv

LEMMA SettleDeliveryKeeps ==
  ASSUME EventInv, NEW d \in Deliveries, SettleDelivery(d)
  PROVE  EventInv'
<1> DEFINE h == eaHandler[d]
           row == [h EXCEPT !.at = "admitting", !.pending = NoOutcome,
                            !.accepted = h.accepted \cup {h.pending}]
           now == ToDispatch(IF d.channel = "event" THEN {h.pending} ELSE {})
<1>0. eaHandler[d] \in HandlerSet /\ d.channel \in {"event", "whatsapp"} /\ h.at = "admitted"
  BY DeliveriesAre DEF EventInv, SettleDelivery
<1>1. /\ row \in HandlerSet /\ row.at = "admitting" /\ row.pending = NoOutcome
      /\ row.accepted = h.accepted \cup {h.pending}
  BY <1>0 DEF NoOutcome, HandlerSet, OutcomeSet
<1>2. /\ eaHandler' = [eaHandler EXCEPT ![d] = row] /\ eaHost = "active"
      /\ UNCHANGED <<eaRuns, eaHost, eaChannel, eaEmission, eaAnswers>>
      /\ eaDriven' = Driving(eaDriven, now)
  BY <1>0, HandlerActive DEF SettleDelivery, HandlerSet
<1>3. /\ eaDriven' \in [DOMAIN eaRuns -> Int]
      /\ \A n \in DOMAIN eaRuns : eaDriven'[n] = eaDriven[n] + (IF n \in now THEN 1 ELSE 0)
  BY <1>2 DEF EventInv, EventTables, Driving
<1>4. NamesRunOf(h.pending, d) /\ \A o \in row.accepted : NamesRunOf(o, d)
  BY <1>0, <1>1 DEF EventInv, OutcomesTell
<1>5. \A n \in DOMAIN eaRuns : n \in now <=> d.channel = "event" /\ h.pending = Fresh(n)
  <2>1. h.pending \in OutcomeSet
    BY <1>0 DEF HandlerSet
  <2>2. \A n : n \in now <=> d.channel = "event" /\ h.pending.run = n /\ ~h.pending.duplicate
    BY <1>0 DEF ToDispatch
  <2> QED BY <2>1, <2>2, FreshIs
<1> HIDE DEF row, now
<1>6. HandlerStepHolds(d)
  BY <1>1, <1>2, <1>3, <1>4, HandlerStepKeeps, HandlerActive
<1>7. QueuedRunsDrivenOnce'
  <2> SUFFICES ASSUME NEW n \in QueuedRuns, eaRuns[n].source # "whatsapp"
               PROVE  eaDriven'[n] = IF DispatchPending(n)' THEN 0 ELSE 1
    BY <1>2 DEF QueuedRunsDrivenOnce, QueuedRuns
  <2>0. n \in DOMAIN eaRuns /\ eaDriven[n] = IF DispatchPending(n) THEN 0 ELSE 1
    BY <1>2 DEF EventInv, QueuedRunsDrivenOnce, QueuedRuns
  <2>1. CASE h.pending # Fresh(n)
    BY <1>3, <1>5, <1>6, <2>0, <2>1 DEF HandlerStepHolds
  <2>2. CASE h.pending = Fresh(n)
    <3>1. d.channel = "event" /\ eaRuns[n].source = "event"
      BY <1>0, <1>4, <2>2 DEF NamesRunOf, Fresh
    <3>2. DispatchPending(n)
      BY <2>2 DEF DispatchPending, Fresh
    <3>3. \A e \in Deliveries : eaHandler'[e].pending # Fresh(n)
      <4>1. /\ eaHandler'[d].pending = NoOutcome /\ NoOutcome # Fresh(n)
            /\ \A e \in Deliveries : e # d => eaHandler'[e] = eaHandler[e]
        BY <1>1, <1>2, <2>0, HandlerMoves, HandlerActive DEF EventInv
      <4>2. \A e \in Deliveries : eaHandler[e].pending = Fresh(n) => e = d
        BY <2>0, <2>2 DEF EventInv, PendingOnce
      <4> QED BY <4>1, <4>2
    <3>4. \A i \in DOMAIN eaChannel : eaChannel[i] # Fresh(n)
      BY <3>1 DEF EventInv, OutcomesTell, Fresh
    <3>5. Deliveries' = Deliveries
      BY <1>1, <1>2, HandlerMoves DEF EventInv
    <3>6. ~DispatchPending(n)'
      BY <1>2, <3>3, <3>4, <3>5 DEF DispatchPending, Fresh
    <3> QED BY <1>3, <1>5, <2>0, <2>2, <3>1, <3>2, <3>6
  <2> QED BY <2>1, <2>2
<1> QED BY <1>2, <1>6, <1>7 DEF HandlerStepHolds, EventInv

LEMMA AnswerDeliveryKeeps ==
  ASSUME EventInv, NEW d \in Deliveries, AnswerDelivery(d)
  PROVE  EventInv'
<1> DEFINE h == eaHandler[d]
           now == IF d.channel = "whatsapp" THEN ToDispatch(h.accepted) ELSE {}
<1>0. eaHandler[d] \in HandlerSet /\ h.at = "admitting" /\ h.pending = NoOutcome
  BY DeliveriesAre, HandlerActive DEF EventInv, AnswerDelivery
<1>1. HandlerIdle \in HandlerSet /\ HandlerIdle.at = "idle" /\ HandlerIdle.pending = NoOutcome
      /\ HandlerIdle.accepted = {}
  BY DEF NoOutcome, HandlerIdle, HandlerSet, OutcomeSet
<1>2. /\ eaHandler' = [eaHandler EXCEPT ![d] = HandlerIdle] /\ eaHost = "active"
      /\ UNCHANGED <<eaRuns, eaHost, eaChannel, eaEmission>>
      /\ eaDriven' = Driving(eaDriven, now)
      /\ eaAnswers' = eaAnswers \cup {[delivery |-> d, run |-> o.run] : o \in h.accepted}
  BY <1>0, HandlerActive DEF AnswerDelivery
<1>3. /\ eaDriven' \in [DOMAIN eaRuns -> Int]
      /\ \A n \in DOMAIN eaRuns : eaDriven'[n] = eaDriven[n] + (IF n \in now THEN 1 ELSE 0)
  BY <1>2 DEF EventInv, EventTables, Driving
<1>4. \A o \in h.accepted : NamesRunOf(o, d)
  BY DEF EventInv, OutcomesTell
<1>5. \A n \in DOMAIN eaRuns : n \in now => eaRuns[n].source = "whatsapp"
  BY <1>4 DEF ToDispatch, NamesRunOf
<1> HIDE DEF now
<1>6. HandlerStepHolds(d)
  BY <1>1, <1>2, <1>3, HandlerStepKeeps, HandlerActive
<1>7. QueuedRunsDrivenOnce'
  <2>1. \A n \in QueuedRuns' : eaRuns'[n].source # "whatsapp" =>
          /\ n \in QueuedRuns /\ eaRuns[n].source # "whatsapp"
          /\ eaDriven'[n] = eaDriven[n]
          /\ (DispatchPending(n)' <=> DispatchPending(n))
    <3> SUFFICES ASSUME NEW n \in QueuedRuns, eaRuns[n].source # "whatsapp"
                 PROVE  eaDriven'[n] = eaDriven[n] /\ (DispatchPending(n)' <=> DispatchPending(n))
      BY <1>2 DEF QueuedRuns
    <3>1. n \in DOMAIN eaRuns /\ eaDriven[n] \in Int
      BY DEF QueuedRuns, EventInv, EventTables
    <3>2. h.pending # Fresh(n)
      BY <1>0, <3>1, HandlerActive
    <3> QED BY <1>3, <1>5, <1>6, <3>1, <3>2 DEF HandlerStepHolds
  <2> QED BY <1>2, <2>1, DrivenKept DEF EventInv
<1>8. OutcomesTell'
  <2>1. ASSUME NEW a \in eaAnswers'
        PROVE  /\ a.run \in DOMAIN eaRuns
               /\ eaRuns[a.run].id = a.delivery.id /\ eaRuns[a.run].payload = a.delivery.payload
    BY <1>2, <1>4 DEF EventInv, OutcomesTell, NamesRunOf
  <2>2. ASSUME NEW e \in Deliveries
        PROVE  /\ eaHandler'[e].at = "admitted" => NamesRunOf(eaHandler'[e].pending, e)
               /\ eaHandler'[e].at # "admitted" => eaHandler'[e].pending = NoOutcome
               /\ \A o \in eaHandler'[e].accepted : NamesRunOf(o, e)
    BY <1>1, <1>2, HandlerMoves DEF EventInv, OutcomesTell
  <2>3. Deliveries' = Deliveries
    BY <1>1, <1>2, HandlerMoves DEF EventInv
  <2>4. \A i \in DOMAIN eaChannel :
          /\ eaChannel[i] = [run |-> eaChannel[i].run, duplicate |-> eaChannel[i].duplicate]
          /\ eaChannel[i].run \in DOMAIN eaRuns /\ eaRuns[eaChannel[i].run].source = "run"
    BY DEF EventInv, OutcomesTell
  <2> QED BY <1>2, <2>1, <2>2, <2>3, <2>4 DEF OutcomesTell, NamesRunOf
<1> QED BY <1>2, <1>6, <1>7, <1>8 DEF HandlerStepHolds, EventInv

(* A step of a run that leaves the queued runs and who is to drive them    *)
(* alone.                                                                  *)
LEMMA RunStepKeeps ==
  ASSUME EventInv, eaHost = "active", UNCHANGED <<eaHost, eaChannel, eaHandler, eaAnswers>>,
         DOMAIN eaRuns' = DOMAIN eaRuns, RunsKept,
         eaRuns' \in [DOMAIN eaRuns -> EventRunSet], eaDriven' \in [DOMAIN eaRuns -> Int],
         eaEmission' \in [DOMAIN eaRuns -> EmissionSet \cup {<<>>}],
         \A m \in DOMAIN eaRuns :
           /\ eaRuns'[m].state = "running" => eaEmission'[m] \in EmissionSet
           /\ eaRuns'[m].state = "queued" => eaRuns[m].state = "queued" /\ eaDriven'[m] = eaDriven[m]
  PROVE  EventInv'
<1> USE DEF EventInv
<1>1. EventTables'
  BY DEF EventTables, Deliveries
<1>2. EventSequences'
  BY <1>1, SequencesKept DEF EventSequences
<1>3. OutcomesTell'
  <2>1. \A n \in DOMAIN eaRuns : /\ n \in DOMAIN eaRuns' /\ eaRuns'[n].source = eaRuns[n].source
                                 /\ eaRuns'[n].id = eaRuns[n].id
                                 /\ eaRuns'[n].payload = eaRuns[n].payload
    BY DEF RunsKept, SameRun
  <2>2. ASSUME NEW d \in Deliveries
        PROVE  /\ eaHandler[d].at = "admitted" => NamesRunOf(eaHandler[d].pending, d)'
               /\ eaHandler[d].at # "admitted" => eaHandler[d].pending = NoOutcome
               /\ \A o \in eaHandler[d].accepted : NamesRunOf(o, d)'
    BY <2>1 DEF OutcomesTell, NamesRunOf
  <2>3. \A i \in DOMAIN eaChannel :
          /\ eaChannel[i] = [run |-> eaChannel[i].run, duplicate |-> eaChannel[i].duplicate]
          /\ eaChannel[i].run \in DOMAIN eaRuns'
          /\ eaRuns'[eaChannel[i].run].source = "run"
    BY <2>1 DEF OutcomesTell
  <2>4. \A a \in eaAnswers :
          /\ a.run \in DOMAIN eaRuns'
          /\ eaRuns'[a.run].id = a.delivery.id /\ eaRuns'[a.run].payload = a.delivery.payload
    BY <2>1 DEF OutcomesTell
  <2> QED BY <2>2, <2>3, <2>4 DEF OutcomesTell, Deliveries
<1>4. PendingOnce' /\ HostAtRest'
  BY DEF PendingOnce, HostAtRest, Fresh, Deliveries
<1>5. IdentitiesBound' /\ ParentsKnown' /\ LineageNeverRepeats'
  BY FamiliesKept
<1>6. \A m : DispatchPending(m)' <=> DispatchPending(m)
  BY DEF DispatchPending, Deliveries
<1>7. QueuedRunsDrivenOnce'
  BY <1>6, DrivenKept DEF QueuedRuns, RunsKept, SameRun
<1> QED BY <1>1, <1>2, <1>3, <1>4, <1>5, <1>7

LEMMA StartEventRunKeeps ==
  ASSUME EventInv, NEW n \in DOMAIN eaRuns, StartEventRun(n)
  PROVE  EventInv'
<1> DEFINE row == [eaRuns[n] EXCEPT !.state = "running"]
           subs == Subscribers(EmitsOf[eaRuns[n].sub])
<1>0. /\ eaRuns \in [DOMAIN eaRuns -> EventRunSet] /\ eaDriven \in [DOMAIN eaRuns -> Int]
      /\ eaEmission \in [DOMAIN eaRuns -> EmissionSet \cup {<<>>}]
  BY DEF EventInv, EventTables
<1>1. eaHost = "active"
  BY <1>0 DEF StartEventRun, EventInv, HostAtRest
<1>2. PICK p \in EmittedPayloads :
        eaEmission' = [eaEmission EXCEPT ![n] = [payload |-> p, rest |-> subs, retries |-> 1]]
  BY DEF StartEventRun
<1>3. [payload |-> p, rest |-> subs, retries |-> 1] \in EmissionSet
  BY DEF EmissionSet, Subscribers
<1>4. /\ row \in EventRunSet /\ row.state = "running" /\ row.sub = eaRuns[n].sub
      /\ row.source = eaRuns[n].source /\ row.id = eaRuns[n].id
      /\ row.payload = eaRuns[n].payload /\ row.depth = eaRuns[n].depth
  BY <1>0 DEF EventRunSet
<1>5. eaRuns' = [eaRuns EXCEPT ![n] = row]
  BY <1>0 DEF StartEventRun
<1> HIDE DEF row, subs
<1>6. DOMAIN eaRuns' = DOMAIN eaRuns /\ eaRuns' \in [DOMAIN eaRuns -> EventRunSet] /\ RunsKept
  BY <1>0, <1>4, <1>5 DEF RunsKept, SameRun
<1>7. /\ eaEmission' \in [DOMAIN eaRuns -> EmissionSet \cup {<<>>}]
      /\ eaEmission'[n] \in EmissionSet
      /\ \A m \in DOMAIN eaRuns : m # n => eaEmission'[m] = eaEmission[m] /\ eaRuns'[m] = eaRuns[m]
      /\ eaRuns'[n].state = "running"
  BY <1>0, <1>2, <1>3, <1>4, <1>5
<1>8. \A m \in DOMAIN eaRuns :
        /\ eaRuns'[m].state = "running" => eaEmission'[m] \in EmissionSet
        /\ eaRuns'[m].state = "queued" => eaRuns[m].state = "queued" /\ eaDriven'[m] = eaDriven[m]
  BY <1>1, <1>7 DEF StartEventRun, EventInv, EventTables
<1>9. UNCHANGED <<eaHost, eaChannel, eaHandler, eaAnswers, eaDriven>>
  BY DEF StartEventRun
<1> QED BY <1>0, <1>1, <1>6, <1>7, <1>8, <1>9, RunStepKeeps

LEMMA RetryEmissionKeeps ==
  ASSUME EventInv, NEW n \in DOMAIN eaRuns, RetryEmission(n)
  PROVE  EventInv'
<1> DEFINE subs == Subscribers(EmitsOf[eaRuns[n].sub])
<1>0. /\ eaRuns \in [DOMAIN eaRuns -> EventRunSet] /\ eaDriven \in [DOMAIN eaRuns -> Int]
      /\ eaEmission \in [DOMAIN eaRuns -> EmissionSet \cup {<<>>}]
  BY DEF EventInv, EventTables
<1>1. eaHost = "active"
  BY DEF RetryEmission
<1>2. PICK p \in EmittedPayloads :
        eaEmission' = [eaEmission EXCEPT ![n] = [payload |-> p, rest |-> subs, retries |-> 0]]
  BY DEF RetryEmission
<1>3. [payload |-> p, rest |-> subs, retries |-> 0] \in EmissionSet
  BY DEF EmissionSet, Subscribers
<1> HIDE DEF subs
<1>4. UNCHANGED <<eaRuns, eaHost, eaChannel, eaHandler, eaAnswers, eaDriven>>
  BY DEF RetryEmission
<1>5. RunsKept
  BY <1>4 DEF RunsKept, SameRun
<1>6. /\ eaEmission' \in [DOMAIN eaRuns -> EmissionSet \cup {<<>>}]
      /\ eaEmission'[n] \in EmissionSet
      /\ \A m \in DOMAIN eaRuns : m # n => eaEmission'[m] = eaEmission[m]
  BY <1>0, <1>2, <1>3
<1>7. \A m \in DOMAIN eaRuns :
        /\ eaRuns'[m].state = "running" => eaEmission'[m] \in EmissionSet
        /\ eaRuns'[m].state = "queued" => eaRuns[m].state = "queued" /\ eaDriven'[m] = eaDriven[m]
  BY <1>1, <1>4, <1>6 DEF EventInv, EventTables
<1> QED BY <1>0, <1>1, <1>4, <1>5, <1>6, <1>7, RunStepKeeps

LEMMA EndEventRunKeeps ==
  ASSUME EventInv, NEW n \in DOMAIN eaRuns, EndEventRun(n)
  PROVE  EventInv'
<1> DEFINE row == [eaRuns[n] EXCEPT !.state = "ended"]
<1>0. /\ eaRuns \in [DOMAIN eaRuns -> EventRunSet] /\ eaDriven \in [DOMAIN eaRuns -> Int]
      /\ eaEmission \in [DOMAIN eaRuns -> EmissionSet \cup {<<>>}]
  BY DEF EventInv, EventTables
<1>1. eaHost = "active"
  BY DEF EndEventRun
<1>2. /\ row \in EventRunSet /\ row.state = "ended" /\ row.sub = eaRuns[n].sub
      /\ row.source = eaRuns[n].source /\ row.id = eaRuns[n].id
      /\ row.payload = eaRuns[n].payload /\ row.depth = eaRuns[n].depth
  BY <1>0 DEF EventRunSet
<1>3. eaRuns' = [eaRuns EXCEPT ![n] = row]
  BY <1>0 DEF EndEventRun
<1> HIDE DEF row
<1>4. DOMAIN eaRuns' = DOMAIN eaRuns /\ eaRuns' \in [DOMAIN eaRuns -> EventRunSet] /\ RunsKept
  BY <1>0, <1>2, <1>3 DEF RunsKept, SameRun
<1>5. /\ eaEmission' \in [DOMAIN eaRuns -> EmissionSet \cup {<<>>}]
      /\ eaDriven' \in [DOMAIN eaRuns -> Int]
      /\ \A m \in DOMAIN eaRuns : m # n =>
           eaEmission'[m] = eaEmission[m] /\ eaRuns'[m] = eaRuns[m] /\ eaDriven'[m] = eaDriven[m]
      /\ eaRuns'[n].state = "ended"
  <2>1. /\ eaEmission' \in [DOMAIN eaRuns -> EmissionSet \cup {<<>>}]
        /\ \A m \in DOMAIN eaRuns : m # n => eaEmission'[m] = eaEmission[m]
    BY <1>0 DEF EndEventRun
  <2>2. /\ eaDriven' \in [DOMAIN eaRuns -> Int]
        /\ \A m \in DOMAIN eaRuns : m # n => eaDriven'[m] = eaDriven[m]
    BY <1>0 DEF EndEventRun
  <2> QED BY <1>0, <1>2, <1>3, <2>1, <2>2
<1>6. \A m \in DOMAIN eaRuns :
        /\ eaRuns'[m].state = "running" => eaEmission'[m] \in EmissionSet
        /\ eaRuns'[m].state = "queued" => eaRuns[m].state = "queued" /\ eaDriven'[m] = eaDriven[m]
  BY <1>1, <1>5 DEF EventInv, EventTables
<1>7. UNCHANGED <<eaHost, eaChannel, eaHandler, eaAnswers>>
  BY DEF EndEventRun
<1> QED BY <1>1, <1>4, <1>5, <1>6, <1>7, RunStepKeeps

LEMMA IdleTaskEndsKeeps ==
  ASSUME EventInv, NEW n \in DOMAIN eaRuns, IdleTaskEnds(n)
  PROVE  EventInv'
<1>0. /\ eaRuns \in [DOMAIN eaRuns -> EventRunSet] /\ eaDriven \in [DOMAIN eaRuns -> Int]
      /\ eaEmission \in [DOMAIN eaRuns -> EmissionSet \cup {<<>>}]
  BY DEF EventInv, EventTables
<1>1. eaHost = "active"
  BY <1>0 DEF IdleTaskEnds, EventInv, HostAtRest
<1>2. UNCHANGED <<eaRuns, eaHost, eaChannel, eaHandler, eaEmission, eaAnswers>>
  BY DEF IdleTaskEnds
<1>3. RunsKept
  BY <1>2 DEF RunsKept, SameRun
<1>4. /\ eaDriven' \in [DOMAIN eaRuns -> Int]
      /\ \A m \in DOMAIN eaRuns : m # n => eaDriven'[m] = eaDriven[m]
  BY <1>0 DEF IdleTaskEnds
<1>5. eaRuns[n].state # "queued"
  BY DEF IdleTaskEnds
<1>6. \A m \in DOMAIN eaRuns :
        /\ eaRuns'[m].state = "running" => eaEmission'[m] \in EmissionSet
        /\ eaRuns'[m].state = "queued" => eaRuns[m].state = "queued" /\ eaDriven'[m] = eaDriven[m]
  BY <1>1, <1>2, <1>4, <1>5 DEF EventInv, EventTables
<1> QED BY <1>0, <1>1, <1>2, <1>3, <1>4, <1>6, RunStepKeeps

LEMMA DispatchEmittedKeeps ==
  ASSUME EventInv, DispatchEmitted
  PROVE  EventInv'
<1> DEFINE o == eaChannel[1]
           now == ToDispatch({o})
<1>1. /\ eaChannel \in Seq(OutcomeSet) /\ DOMAIN eaChannel = 1..Len(eaChannel)
      /\ 1 \in DOMAIN eaChannel /\ o \in OutcomeSet /\ Head(eaChannel) = o
      /\ eaChannel' \in Seq(OutcomeSet) /\ DOMAIN eaChannel' = 1..(Len(eaChannel) - 1)
      /\ \A i \in DOMAIN eaChannel' : i + 1 \in DOMAIN eaChannel /\ eaChannel'[i] = eaChannel[i + 1]
      /\ Len(eaChannel) \in Nat
  BY DEF DispatchEmitted, EventInv, EventSequences
<1>2. /\ eaHost = "active" /\ UNCHANGED <<eaRuns, eaHost, eaHandler, eaEmission, eaAnswers, eaRecovered>>
      /\ eaDriven' = Driving(eaDriven, now)
  BY <1>1 DEF DispatchEmitted
<1>3. /\ eaDriven' \in [DOMAIN eaRuns -> Int]
      /\ \A n \in DOMAIN eaRuns : eaDriven'[n] = eaDriven[n] + (IF n \in now THEN 1 ELSE 0)
  BY <1>2 DEF EventInv, EventTables, Driving
<1>4. \A n \in DOMAIN eaRuns : n \in now <=> o = Fresh(n)
  <2>1. \A n : n \in now <=> o.run = n /\ ~o.duplicate
    BY DEF ToDispatch
  <2> QED BY <1>1, <2>1, FreshIs
<1> HIDE DEF o, now
<1>5. EventTables'
  BY <1>2, <1>3 DEF EventInv, EventTables, Deliveries
<1>6. EventSequences'
  BY <1>1, <1>2, <1>5, SequencesKept DEF EventInv
<1>7. OutcomesTell'
  BY <1>1, <1>2 DEF EventInv, OutcomesTell, NamesRunOf, Deliveries
<1>8. PendingOnce'
  <2>1. ASSUME NEW n \in DOMAIN eaRuns, NEW i \in DOMAIN eaChannel', NEW j \in DOMAIN eaChannel',
               eaChannel'[i] = Fresh(n), eaChannel'[j] = Fresh(n)
        PROVE  i = j
    <3>1. i + 1 = j + 1
      BY <1>1, <2>1 DEF EventInv, PendingOnce
    <3> QED BY <1>1, <3>1
  <2> QED BY <1>2, <2>1 DEF EventInv, PendingOnce, Fresh, Deliveries
<1>9. HostAtRest'
  BY <1>2 DEF HostAtRest
<1>10. IdentitiesBound' /\ ParentsKnown' /\ LineageNeverRepeats'
  <2>1. RunsKept /\ DOMAIN eaRuns' = DOMAIN eaRuns
    BY <1>2 DEF RunsKept, SameRun
  <2> QED BY <2>1, FamiliesKept DEF EventInv
<1>11. QueuedRunsDrivenOnce'
  <2> SUFFICES ASSUME NEW n \in QueuedRuns, eaRuns[n].source # "whatsapp"
               PROVE  eaDriven'[n] = IF DispatchPending(n)' THEN 0 ELSE 1
    BY <1>2 DEF QueuedRunsDrivenOnce, QueuedRuns
  <2>0. n \in DOMAIN eaRuns /\ eaDriven[n] = IF DispatchPending(n) THEN 0 ELSE 1
    BY <1>2 DEF EventInv, QueuedRunsDrivenOnce, QueuedRuns
  <2>1. CASE o # Fresh(n)
    <3>1. DispatchPending(n)' <=> DispatchPending(n)
      <4>1. \A i \in DOMAIN eaChannel : eaChannel[i] = Fresh(n) => i - 1 \in DOMAIN eaChannel'
        BY <1>1, <2>1 DEF o
      <4>2. \A i \in DOMAIN eaChannel : eaChannel[i] = Fresh(n) => eaChannel'[i - 1] = Fresh(n)
        BY <1>1, <4>1
      <4>3. (\E i \in DOMAIN eaChannel : eaChannel[i] = Fresh(n))
              <=> (\E i \in DOMAIN eaChannel' : eaChannel'[i] = Fresh(n))
        BY <1>1, <4>1, <4>2
      <4> QED BY <1>2, <4>3 DEF DispatchPending, Deliveries, Fresh
    <3> QED BY <1>3, <1>4, <2>0, <2>1, <3>1
  <2>2. CASE o = Fresh(n)
    <3>1. eaRuns[n].source = "run" /\ DispatchPending(n)
      <4>1. eaChannel[1] = Fresh(n) /\ 1 \in DOMAIN eaChannel
        BY <1>1, <2>2 DEF o
      <4>2. Fresh(n).run = n
        BY DEF Fresh
      <4>3. eaRuns[eaChannel[1].run].source = "run"
        BY <4>1 DEF EventInv, OutcomesTell
      <4>4. DispatchPending(n)
        BY <4>1 DEF DispatchPending, Fresh
      <4> QED BY <4>1, <4>2, <4>3, <4>4
    <3>2. \A i \in DOMAIN eaChannel' : eaChannel'[i] # Fresh(n)
      <4>1. \A i \in DOMAIN eaChannel : eaChannel[i] = Fresh(n) => i = 1
        BY <1>1, <2>0, <2>2 DEF EventInv, PendingOnce, o
      <4>2. \A i \in DOMAIN eaChannel' : i + 1 # 1
        BY <1>1
      <4> QED BY <1>1, <4>1, <4>2
    <3>3. \A e \in Deliveries : eaHandler[e].pending # Fresh(n)
      <4> SUFFICES ASSUME NEW e \in Deliveries, eaHandler[e].pending = Fresh(n) PROVE FALSE
        OBVIOUS
      <4>1. eaHandler[e].pending # NoOutcome
        BY <2>0, HandlerActive
      <4>2. eaRuns[n].source = e.channel
        BY <4>1 DEF EventInv, OutcomesTell, NamesRunOf, Fresh
      <4> QED BY <3>1, <4>2, DeliveriesAre DEF EventInv
    <3>4. ~DispatchPending(n)'
      BY <1>2, <3>2, <3>3 DEF DispatchPending, Deliveries, Fresh
    <3> QED BY <1>3, <1>4, <2>0, <2>2, <3>1, <3>4
  <2> QED BY <2>1, <2>2
<1> QED BY <1>5, <1>6, <1>7, <1>8, <1>9, <1>10, <1>11 DEF EventInv

LEMMA CrashEventHostKeeps ==
  ASSUME EventInv, CrashEventHost
  PROVE  EventInv'
<1>1. /\ eaHost' = "down" /\ eaChannel' = <<>> /\ UNCHANGED <<eaRuns, eaAnswers>>
      /\ Deliveries' = Deliveries /\ eaHandler' = [d \in Deliveries |-> HandlerIdle]
  BY DEF CrashEventHost, Deliveries
<1>2. /\ eaDriven' = [n \in DOMAIN eaRuns |-> 0]
      /\ eaEmission' = [n \in DOMAIN eaRuns |-> <<>>]
  BY DEF CrashEventHost, EventInv, EventTables
<1>3. HandlerIdle \in HandlerSet /\ HandlerIdle.pending = NoOutcome /\ HandlerIdle.at = "idle"
      /\ HandlerIdle.accepted = {}
  BY DEF NoOutcome, HandlerIdle, HandlerSet, OutcomeSet
<1>4. EventTables'
  BY <1>1, <1>2, <1>3 DEF EventInv, EventTables
<1>5. EventSequences'
  BY <1>1, <1>4, SequencesKept DEF EventInv
<1>6. OutcomesTell'
  BY <1>1, <1>3 DEF EventInv, OutcomesTell
<1>7. PendingOnce'
  <2>1. \A n \in DOMAIN eaRuns : NoOutcome # Fresh(n)
    BY DEF NoOutcome, Fresh, EventInv, EventSequences
  <2> QED BY <1>1, <1>3, <2>1 DEF PendingOnce, Fresh
<1>8. HostAtRest'
  BY <1>1, <1>2 DEF HostAtRest
<1>9. IdentitiesBound' /\ ParentsKnown' /\ LineageNeverRepeats'
  <2>1. RunsKept /\ DOMAIN eaRuns' = DOMAIN eaRuns
    BY <1>1 DEF RunsKept, SameRun
  <2> QED BY <2>1, FamiliesKept DEF EventInv
<1>10. QueuedRunsDrivenOnce'
  BY <1>1 DEF QueuedRunsDrivenOnce
<1> QED BY <1>4, <1>5, <1>6, <1>7, <1>8, <1>9, <1>10 DEF EventInv

LEMMA PrepareEventHostKeeps ==
  ASSUME EventInv, PrepareEventHost
  PROVE  EventInv'
<1> DEFINE kept(n) == IF eaRuns[n].state = "running" THEN [eaRuns[n] EXCEPT !.state = "ended"]
                      ELSE eaRuns[n]
<1>1. /\ eaHost' = "prepared" /\ eaRecovered' = QueuedRuns /\ eaHost = "down"
      /\ UNCHANGED <<eaDriven, eaChannel, eaHandler, eaEmission, eaAnswers>>
  BY DEF PrepareEventHost
<1>2. \A n \in DOMAIN eaRuns :
        /\ kept(n) \in EventRunSet /\ kept(n).sub = eaRuns[n].sub
        /\ kept(n).source = eaRuns[n].source /\ kept(n).id = eaRuns[n].id
        /\ kept(n).payload = eaRuns[n].payload /\ kept(n).depth = eaRuns[n].depth
        /\ kept(n).state # "running"
        /\ kept(n).state = "queued" <=> eaRuns[n].state = "queued"
  <2> SUFFICES ASSUME NEW n \in DOMAIN eaRuns
               PROVE  /\ kept(n) \in EventRunSet /\ kept(n).sub = eaRuns[n].sub
                      /\ kept(n).source = eaRuns[n].source /\ kept(n).id = eaRuns[n].id
                      /\ kept(n).payload = eaRuns[n].payload /\ kept(n).depth = eaRuns[n].depth
                      /\ kept(n).state # "running"
                      /\ kept(n).state = "queued" <=> eaRuns[n].state = "queued"
    OBVIOUS
  <2>1. eaRuns[n] \in EventRunSet
    BY DEF EventInv, EventTables
  <2> QED BY <2>1 DEF EventRunSet
<1>3. eaRuns' = [n \in DOMAIN eaRuns |-> kept(n)]
  BY DEF PrepareEventHost
<1> HIDE DEF kept
<1>4. /\ RunsKept /\ DOMAIN eaRuns' = DOMAIN eaRuns /\ eaRuns' \in [DOMAIN eaRuns -> EventRunSet]
      /\ QueuedRuns' = QueuedRuns /\ \A n \in DOMAIN eaRuns : eaRuns'[n].state # "running"
  BY <1>2, <1>3 DEF RunsKept, SameRun, QueuedRuns
<1>5. EventTables'
  BY <1>1, <1>4 DEF EventInv, EventTables, Deliveries
<1>6. EventSequences'
  BY <1>1, <1>4, <1>5, SequencesKept DEF EventInv, EventSequences
<1>7. OutcomesTell'
  <2>1. \A n \in DOMAIN eaRuns : /\ n \in DOMAIN eaRuns' /\ eaRuns'[n].source = eaRuns[n].source
                                 /\ eaRuns'[n].id = eaRuns[n].id
                                 /\ eaRuns'[n].payload = eaRuns[n].payload
    BY <1>4 DEF RunsKept, SameRun
  <2>2. /\ \A d \in Deliveries : eaHandler[d] = HandlerIdle
        /\ eaChannel = <<>>
    BY <1>1 DEF EventInv, HostAtRest
  <2>3. HandlerIdle.pending = NoOutcome /\ HandlerIdle.at = "idle" /\ HandlerIdle.accepted = {}
    BY DEF HandlerIdle
  <2>4. \A a \in eaAnswers :
          /\ a.run \in DOMAIN eaRuns'
          /\ eaRuns'[a.run].id = a.delivery.id /\ eaRuns'[a.run].payload = a.delivery.payload
    BY <2>1 DEF EventInv, OutcomesTell
  <2> QED BY <1>1, <2>2, <2>3, <2>4 DEF OutcomesTell, Deliveries
<1>8. PendingOnce'
  BY <1>1, <1>4 DEF EventInv, PendingOnce, Fresh, Deliveries
<1>9. HostAtRest'
  BY <1>1, <1>4 DEF EventInv, HostAtRest, Deliveries
<1>10. IdentitiesBound' /\ ParentsKnown' /\ LineageNeverRepeats'
  BY <1>4, FamiliesKept DEF EventInv
<1>11. QueuedRunsDrivenOnce'
  BY <1>1 DEF QueuedRunsDrivenOnce
<1> QED BY <1>5, <1>6, <1>7, <1>8, <1>9, <1>10, <1>11 DEF EventInv

LEMMA ActivateEventHostKeeps ==
  ASSUME EventInv, ActivateEventHost
  PROVE  EventInv'
<1>1. /\ eaHost = "prepared" /\ eaHost' = "active" /\ eaRecovered = QueuedRuns
      /\ UNCHANGED <<eaRuns, eaChannel, eaHandler, eaEmission, eaAnswers>>
      /\ eaDriven' = Driving(eaDriven, QueuedRuns)
      /\ eaChannel = <<>> /\ \A d \in Deliveries : eaHandler[d] = HandlerIdle
      /\ \A n \in DOMAIN eaRuns : eaDriven[n] = 0 /\ eaRuns[n].state # "running"
  BY DEF ActivateEventHost, EventInv, HostAtRest
<1>2. /\ eaDriven' \in [DOMAIN eaRuns -> Int]
      /\ \A n \in QueuedRuns : eaDriven'[n] = 1
  <2>1. DOMAIN eaDriven = DOMAIN eaRuns /\ QueuedRuns \subseteq DOMAIN eaRuns
    BY DEF EventInv, EventTables, QueuedRuns
  <2>2. eaDriven' = [n \in DOMAIN eaRuns |-> IF n \in QueuedRuns THEN 1 ELSE 0]
    BY <1>1, <2>1 DEF Driving
  <2> QED BY <2>1, <2>2
<1>3. EventTables'
  BY <1>1, <1>2 DEF EventInv, EventTables, Deliveries
<1>4. EventSequences'
  BY <1>1, <1>3, SequencesKept DEF EventInv, EventSequences
<1>5. OutcomesTell' /\ PendingOnce'
  BY <1>1 DEF EventInv, OutcomesTell, PendingOnce, NamesRunOf, Fresh, Deliveries
<1>6. HostAtRest'
  BY <1>1 DEF HostAtRest
<1>7. IdentitiesBound' /\ ParentsKnown' /\ LineageNeverRepeats'
  <2>1. RunsKept /\ DOMAIN eaRuns' = DOMAIN eaRuns
    BY <1>1 DEF RunsKept, SameRun
  <2> QED BY <2>1, FamiliesKept DEF EventInv
<1>8. QueuedRunsDrivenOnce'
  <2>1. ASSUME NEW n \in QueuedRuns PROVE ~DispatchPending(n)'
    <3>1. n \in DOMAIN eaRuns /\ HandlerIdle.pending = NoOutcome /\ NoOutcome # Fresh(n)
      BY DEF HandlerIdle, NoOutcome, Fresh, QueuedRuns, EventInv, EventSequences
    <3> QED BY <1>1, <3>1 DEF DispatchPending, Deliveries, Fresh
  <2> QED BY <1>1, <1>2, <2>1 DEF QueuedRunsDrivenOnce, QueuedRuns
<1> QED BY <1>3, <1>4, <1>5, <1>6, <1>7, <1>8 DEF EventInv

(* What is known of the outcome of an accepted occurrence. *)
OutcomeSays(v, o, s, source, id, payload) ==
  \/ /\ v = "new" /\ o = Fresh(Len(eaRuns) + 1) /\ OccurrenceOf(s, source, id) = {}
  \/ /\ v = "duplicate" /\ o = [run |-> o.run, duplicate |-> TRUE]
     /\ o.run \in DOMAIN eaRuns /\ eaRuns[o.run].source = source
     /\ eaRuns[o.run].id = id /\ eaRuns[o.run].payload = payload

LEMMA OutcomeTells ==
  ASSUME EventInv, NEW s, NEW source, NEW id, NEW payload, NEW v, NEW o,
         v = AdmissionVerdict(s, source, id, payload), Accepted(v),
         o = OutcomeOf(v, s, source, id)
  PROVE  OutcomeSays(v, o, s, source, id, payload)
<1>1. CASE v = "new"
  <2>1. OccurrenceOf(s, source, id) = {}
    BY <1>1, VerdictTells DEF EventInv
  <2>2. o = Fresh(Len(eaRuns) + 1)
    BY <1>1 DEF OutcomeOf, Fresh
  <2> QED BY <1>1, <2>1, <2>2 DEF OutcomeSays
<1>2. CASE v = "duplicate"
  <2>1. /\ OccurrenceOf(s, source, id) # {}
        /\ \A n \in OccurrenceOf(s, source, id) : eaRuns[n].payload = payload
    BY <1>2, VerdictTells DEF EventInv
  <2>2. o = [run |-> CHOOSE n \in OccurrenceOf(s, source, id) : TRUE, duplicate |-> TRUE]
    BY <1>2 DEF OutcomeOf
  <2>3. o.run \in OccurrenceOf(s, source, id)
    BY <2>1, <2>2
  <2>4. o = [run |-> o.run, duplicate |-> TRUE]
    BY <2>2
  <2> QED BY <1>2, <2>1, <2>3, <2>4 DEF OccurrenceOf, OutcomeSays
<1> QED BY <1>1, <1>2 DEF Accepted

(* The tables after an admission. *)
LEMMA TablesGrow ==
  ASSUME EventInv, eaHost = "active", eaHost' = eaHost, NEW r \in EventRunSet, r.state = "queued",
         NEW em \in [DOMAIN eaRuns -> EmissionSet \cup {<<>>}],
         \A n \in DOMAIN eaRuns : eaRuns[n].state = "running" => em[n] \in EmissionSet,
         eaRuns' = Append(eaRuns, r), eaDriven' = Append(eaDriven, 0), eaEmission' = Append(em, <<>>),
         eaHandler' \in [Deliveries -> HandlerSet], eaChannel' \in Seq(OutcomeSet),
         NEW k, k = Len(eaRuns) + 1
  PROVE  /\ EventTables' /\ EventSequences' /\ HostAtRest' /\ Admitted(r)
         /\ DOMAIN eaRuns' = DOMAIN eaRuns \cup {k} /\ k \notin DOMAIN eaRuns
         /\ eaRuns'[k] = r /\ eaDriven'[k] = 0
         /\ \A n \in DOMAIN eaRuns : eaRuns'[n] = eaRuns[n] /\ eaDriven'[n] = eaDriven[n]
         /\ Deliveries' = Deliveries
<1> USE DEF EventInv
<1>1. /\ eaRuns \in Seq(EventRunSet) /\ eaDriven \in Seq(Int) /\ Len(eaDriven) = Len(eaRuns)
      /\ DOMAIN eaRuns = 1..Len(eaRuns) /\ Len(eaRuns) \in Nat
  BY DEF EventSequences
<1>2. /\ eaRuns' \in Seq(EventRunSet) /\ Len(eaRuns') = k /\ DOMAIN eaRuns' = DOMAIN eaRuns \cup {k}
      /\ k \notin DOMAIN eaRuns /\ eaRuns'[k] = r
      /\ \A n \in DOMAIN eaRuns : eaRuns'[n] = eaRuns[n]
  BY <1>1, SequenceGrows
<1>3. /\ eaDriven' \in Seq(Int) /\ Len(eaDriven') = k /\ eaDriven'[k] = 0
      /\ DOMAIN eaDriven' = DOMAIN eaRuns'
      /\ \A n \in DOMAIN eaRuns : eaDriven'[n] = eaDriven[n]
  BY <1>1, <1>2, SequenceGrows
<1>4. em \in Seq(EmissionSet \cup {<<>>}) /\ Len(em) = Len(eaRuns)
  BY <1>1, SequenceAgain
<1>5. /\ eaEmission' \in Seq(EmissionSet \cup {<<>>}) /\ Len(eaEmission') = k
      /\ DOMAIN eaEmission' = DOMAIN eaRuns'
      /\ \A n \in DOMAIN eaRuns : eaEmission'[n] = em[n]
  BY <1>1, <1>2, <1>4, SequenceGrows
<1>6. Deliveries' = Deliveries
  BY DEF Deliveries
<1>7. EventTables'
  <2>1. eaRuns' \in [DOMAIN eaRuns' -> EventRunSet]
    BY <1>2, SequenceIsFunction
  <2>2. eaDriven' \in [DOMAIN eaRuns' -> Int]
    BY <1>3, SequenceIsFunction
  <2>3. eaEmission' \in [DOMAIN eaRuns' -> EmissionSet \cup {<<>>}]
    BY <1>5, SequenceIsFunction
  <2>4. \A n \in DOMAIN eaRuns' : eaRuns'[n].state = "running" => eaEmission'[n] \in EmissionSet
    BY <1>2, <1>5
  <2> QED BY <1>6, <2>1, <2>2, <2>3, <2>4 DEF EventTables
<1>8. EventSequences'
  BY <1>2, <1>3, <1>5 DEF EventSequences
<1>9. HostAtRest'
  BY DEF HostAtRest
<1> QED BY <1>2, <1>3, <1>6, <1>7, <1>8, <1>9 DEF Admitted

(* No one holds an outcome of a run that is not yet there. *)
LEMMA NothingAhead ==
  ASSUME EventInv, NEW k, k \notin DOMAIN eaRuns, k # 0
  PROVE  /\ \A e \in Deliveries : eaHandler[e].pending # Fresh(k)
         /\ \A i \in DOMAIN eaChannel : eaChannel[i] # Fresh(k)
<1>1. ASSUME NEW o, o = Fresh(k) PROVE o.run = k
  BY <1>1 DEF Fresh
<1>2. NoOutcome.run = 0
  BY DEF NoOutcome
<1>3. ASSUME NEW e \in Deliveries, eaHandler[e].pending = Fresh(k) PROVE FALSE
  BY <1>1, <1>2, <1>3 DEF EventInv, OutcomesTell, NamesRunOf
<1>4. ASSUME NEW i \in DOMAIN eaChannel, eaChannel[i] = Fresh(k) PROVE FALSE
  BY <1>1, <1>4 DEF EventInv, OutcomesTell
<1> QED BY <1>3, <1>4

LEMMA OutcomesGrow ==
  ASSUME EventInv, RunsKept, Deliveries' = Deliveries, eaAnswers' = eaAnswers,
         \A d \in Deliveries : \/ eaHandler'[d] = eaHandler[d]
                               \/ /\ eaHandler'[d].at = "admitted"
                                  /\ NamesRunOf(eaHandler[d].pending, d)'
                                  /\ eaHandler'[d].accepted = eaHandler[d].accepted,
         \A i \in DOMAIN eaChannel' :
           \/ i \in DOMAIN eaChannel /\ eaChannel'[i] = eaChannel[i]
           \/ /\ eaChannel'[i] = [run |-> eaChannel'[i].run, duplicate |-> eaChannel'[i].duplicate]
              /\ eaChannel'[i].run \in DOMAIN eaRuns' /\ eaRuns'[eaChannel'[i].run].source = "run"
  PROVE  OutcomesTell'
<1>1. \A n \in DOMAIN eaRuns : /\ n \in DOMAIN eaRuns' /\ eaRuns'[n].source = eaRuns[n].source
                               /\ eaRuns'[n].id = eaRuns[n].id
                               /\ eaRuns'[n].payload = eaRuns[n].payload
  BY DEF RunsKept, SameRun
<1>2. ASSUME NEW d \in Deliveries
      PROVE  /\ eaHandler'[d].at = "admitted" => NamesRunOf(eaHandler[d].pending, d)'
             /\ eaHandler'[d].at # "admitted" => eaHandler'[d].pending = NoOutcome
             /\ \A o \in eaHandler'[d].accepted : NamesRunOf(o, d)'
  <2>1. \A o \in eaHandler[d].accepted : NamesRunOf(o, d)'
    BY <1>1 DEF EventInv, OutcomesTell, NamesRunOf
  <2>2. CASE eaHandler'[d] = eaHandler[d]
    <3>1. eaHandler[d].at # "admitted" => eaHandler[d].pending = NoOutcome
      BY DEF EventInv, OutcomesTell
    <3>2. eaHandler[d].at = "admitted" => NamesRunOf(eaHandler[d].pending, d)'
      BY <1>1, <2>2 DEF EventInv, OutcomesTell, NamesRunOf
    <3> QED BY <2>1, <2>2, <3>1, <3>2
  <2>3. CASE /\ eaHandler'[d].at = "admitted" /\ NamesRunOf(eaHandler[d].pending, d)'
             /\ eaHandler'[d].accepted = eaHandler[d].accepted
    BY <2>1, <2>3
  <2> QED BY <2>2, <2>3
<1>3. \A i \in DOMAIN eaChannel' :
        /\ eaChannel'[i] = [run |-> eaChannel'[i].run, duplicate |-> eaChannel'[i].duplicate]
        /\ eaChannel'[i].run \in DOMAIN eaRuns' /\ eaRuns'[eaChannel'[i].run].source = "run"
  BY <1>1 DEF EventInv, OutcomesTell
<1>4. \A a \in eaAnswers :
        /\ a.run \in DOMAIN eaRuns'
        /\ eaRuns'[a.run].id = a.delivery.id /\ eaRuns'[a.run].payload = a.delivery.payload
  BY <1>1 DEF EventInv, OutcomesTell
<1> QED BY <1>2, <1>3, <1>4 DEF OutcomesTell

LEMMA AdmitDeliveryKeeps ==
  ASSUME EventInv, NEW d \in Deliveries, AdmitDelivery(d)
  PROVE  EventInv'
<1> DEFINE h == eaHandler[d]
<1>1. PICK s : s = Min(h.rest)
  OBVIOUS
<1>2. PICK v : v = AdmissionVerdict(s, d.channel, d.id, d.payload)
  OBVIOUS
<1>3. PICK o : o = OutcomeOf(v, s, d.channel, d.id)
  OBVIOUS
<1>4. h \in HandlerSet /\ h.at = "admitting" /\ h.rest # {} /\ h.pending = NoOutcome
      /\ eaHost = "active" /\ \A n \in DOMAIN eaRuns : NoOutcome # Fresh(n)
  BY DeliveriesAre, HandlerActive DEF AdmitDelivery, EventInv
<1>5. s \in h.rest /\ s \in DOMAIN EventOf
  BY <1>1, <1>4, MinIsMember, EventAssumption DEF HandlerSet
<1>6. CASE ~Accepted(v)
  <2>1. RefusedDelivery(d)
    BY <1>1, <1>2, <1>6 DEF AdmitDelivery
  <2> QED BY <1>4, <2>1, RefusedDeliveryKeeps
<1>7. CASE Accepted(v)
  <2> DEFINE row == [h EXCEPT !.at = "admitted", !.rest = h.rest \ {s}, !.pending = o]
             r == [sub |-> s, source |-> d.channel, id |-> d.id, payload |-> d.payload,
                   depth |-> 0, state |-> "queued"]
  <2>1. /\ CommitOccurrence(v, s, d.channel, d.id, d.payload, 0)
        /\ eaDriven' = IF v = "new" THEN Append(eaDriven, 0) ELSE eaDriven
        /\ eaHandler' = [eaHandler EXCEPT ![d] = row]
        /\ UNCHANGED <<eaHost, eaChannel, eaAnswers>>
    BY <1>1, <1>2, <1>3, <1>4, <1>7 DEF AdmitDelivery, HandlerSet, EventInv, EventTables
  <2>2. \/ /\ v = "new" /\ o = Fresh(Len(eaRuns) + 1) /\ OccurrenceOf(s, d.channel, d.id) = {}
        \/ /\ v = "duplicate" /\ o = [run |-> o.run, duplicate |-> TRUE]
           /\ o.run \in DOMAIN eaRuns /\ eaRuns[o.run].source = d.channel
           /\ eaRuns[o.run].id = d.id /\ eaRuns[o.run].payload = d.payload
    <3>1. OutcomeSays(v, o, s, d.channel, d.id, d.payload)
      BY <1>2, <1>3, <1>7, OutcomeTells
    <3> QED BY <3>1 DEF OutcomeSays
  <2>3. o \in OutcomeSet
    <3>1. DOMAIN eaRuns \subseteq Nat /\ Len(eaRuns) + 1 \in Nat
      BY DEF EventInv, EventSequences
    <3>2. \A k \in Nat : Fresh(k) \in OutcomeSet /\ [run |-> k, duplicate |-> TRUE] \in OutcomeSet
      BY DEF OutcomeSet, Fresh
    <3> QED BY <2>2, <3>1, <3>2
  <2>4. /\ row \in HandlerSet /\ row.at = "admitted" /\ row.pending = o
        /\ row.accepted = h.accepted
    BY <1>4, <2>3 DEF HandlerSet
  <2>5. /\ r \in EventRunSet /\ r.state = "queued" /\ r.source = d.channel /\ r.id = d.id
        /\ r.payload = d.payload /\ r.sub = s /\ r.depth = 0 /\ d.channel # "run"
    BY <1>5, DeliveriesAre DEF EventInv, EventRunSet
  <2>6. v = "new" => eaRuns' = Append(eaRuns, r) /\ eaEmission' = Append(eaEmission, <<>>)
    BY <2>1 DEF CommitOccurrence
  <2>7. v # "new" => UNCHANGED <<eaRuns, eaEmission, eaDriven>>
    BY <2>1 DEF CommitOccurrence
  <2> HIDE DEF row, r
  <2>8. /\ Deliveries' = Deliveries /\ eaHandler' \in [Deliveries -> HandlerSet]
        /\ eaHandler'[d] = row /\ \A e \in Deliveries : e # d => eaHandler'[e] = eaHandler[e]
    BY <2>1, <2>4, HandlerMoves DEF EventInv
  <2>9. CASE v = "duplicate"
    <3>1. \A n \in DOMAIN eaRuns : o # Fresh(n)
      BY <2>2, <2>9 DEF Fresh
    <3>2. NamesRunOf(row.pending, d)
      BY <2>2, <2>4, <2>9 DEF NamesRunOf
    <3>3. \A p \in row.accepted : NamesRunOf(p, d)
      BY <2>4 DEF EventInv, OutcomesTell
    <3>4. eaDriven' \in [DOMAIN eaRuns -> Int]
      BY <2>7, <2>9 DEF EventInv, EventTables
    <3>5. HandlerStepHolds(d)
      BY <1>4, <2>1, <2>4, <2>7, <2>9, <3>1, <3>2, <3>3, <3>4, HandlerStepKeeps
    <3>6. QueuedRunsDrivenOnce'
      BY <1>4, <2>1, <2>7, <2>9, <3>5, DrivenKept DEF HandlerStepHolds, EventInv, QueuedRuns
    <3> QED BY <2>1, <3>5, <3>6 DEF HandlerStepHolds, EventInv
  <2>10. CASE v = "new"
    <3>0. PICK k : k = Len(eaRuns) + 1
      OBVIOUS
    <3>1. /\ eaEmission \in [DOMAIN eaRuns -> EmissionSet \cup {<<>>}]
          /\ \A n \in DOMAIN eaRuns : eaRuns[n].state = "running" => eaEmission[n] \in EmissionSet
          /\ eaChannel' \in Seq(OutcomeSet)
      BY <1>4, <2>1 DEF EventInv, EventTables, EventSequences
    <3>2. /\ EventTables' /\ EventSequences' /\ HostAtRest' /\ Admitted(r)
          /\ DOMAIN eaRuns' = DOMAIN eaRuns \cup {k} /\ k \notin DOMAIN eaRuns
          /\ eaRuns'[k] = r /\ eaDriven'[k] = 0
          /\ \A n \in DOMAIN eaRuns : eaRuns'[n] = eaRuns[n] /\ eaDriven'[n] = eaDriven[n]
      BY <1>4, <2>1, <2>5, <2>6, <2>8, <2>10, <3>0, <3>1, TablesGrow
    <3>3. IdentitiesBound' /\ ParentsKnown' /\ LineageNeverRepeats' /\ RunsKept
      BY <2>2, <2>5, <2>10, <3>2, FamiliesGrow DEF EventInv, EventSequences
    <3>4. o = Fresh(k) /\ k # 0
      BY <2>2, <2>10, <3>0 DEF EventInv, EventSequences
    <3>5. OutcomesTell'
      <4>1. /\ o = [run |-> o.run, duplicate |-> o.duplicate] /\ o.run = k
        BY <3>4 DEF Fresh
      <4>2. NamesRunOf(eaHandler[d].pending, d)'
        BY <2>4, <2>5, <2>8, <3>2, <4>1 DEF NamesRunOf
      <4>3. \A e \in Deliveries : \/ eaHandler'[e] = eaHandler[e]
                                  \/ /\ eaHandler'[e].at = "admitted"
                                     /\ NamesRunOf(eaHandler[e].pending, e)'
                                     /\ eaHandler'[e].accepted = eaHandler[e].accepted
        BY <2>4, <2>8, <4>2
      <4> QED BY <2>1, <2>8, <3>3, <4>3, OutcomesGrow
    <3>6. /\ \A e \in Deliveries : eaHandler[e].pending # Fresh(k)
          /\ \A i \in DOMAIN eaChannel : eaChannel[i] # Fresh(k)
      BY <3>2, <3>4, NothingAhead
    <3>7. \A n \in DOMAIN eaRuns : Fresh(k) # Fresh(n)
      BY <3>2 DEF Fresh
    <3>8. PendingOnce'
      <4> SUFFICES ASSUME NEW n \in DOMAIN eaRuns'
                   PROVE  /\ \A e, f \in Deliveries :
                               eaHandler'[e].pending = Fresh(n) /\ eaHandler'[f].pending = Fresh(n)
                               => e = f
                          /\ \A i, j \in DOMAIN eaChannel :
                               eaChannel[i] = Fresh(n) /\ eaChannel[j] = Fresh(n) => i = j
        BY <2>1, <2>8 DEF PendingOnce, Fresh
      <4>1. CASE n = k
        BY <2>8, <3>6, <4>1
      <4>2. CASE n # k
        BY <2>4, <2>8, <3>2, <3>4, <3>7, <4>2 DEF EventInv, PendingOnce
      <4> QED BY <4>1, <4>2
    <3>9. QueuedRunsDrivenOnce'
      <4> SUFFICES ASSUME NEW n \in DOMAIN eaRuns', eaRuns'[n].state = "queued",
                          eaRuns'[n].source # "whatsapp"
                   PROVE  eaDriven'[n] = IF DispatchPending(n)' THEN 0 ELSE 1
        BY DEF QueuedRunsDrivenOnce, QueuedRuns
      <4>1. CASE n = k
        <5>1. DispatchPending(n)'
          BY <2>4, <2>8, <3>4, <4>1 DEF DispatchPending, Fresh
        <5> QED BY <3>2, <4>1, <5>1
      <4>2. CASE n # k
        <5>1. n \in DOMAIN eaRuns /\ n \in QueuedRuns /\ eaRuns[n].source # "whatsapp"
          BY <3>2, <4>2 DEF QueuedRuns
        <5>2. DispatchPending(n)' <=> DispatchPending(n)
          BY <1>4, <2>1, <2>4, <2>8, <3>4, <3>7, <5>1 DEF DispatchPending, Fresh
        <5> QED BY <1>4, <3>2, <5>1, <5>2 DEF EventInv, QueuedRunsDrivenOnce
      <4> QED BY <4>1, <4>2
    <3> QED BY <3>2, <3>3, <3>5, <3>8, <3>9 DEF EventInv
  <2> QED BY <2>2, <2>9, <2>10
<1> QED BY <1>6, <1>7

LEMMA EmissionTells ==
  ASSUME EventInv, NEW n \in DOMAIN eaRuns, NEW s, NEW payload, NEW v,
         v = EmissionVerdict(n, s, payload), Accepted(v)
  PROVE  /\ v = AdmissionVerdict(s, "run", n, payload)
         /\ \A m \in Ancestors(n) : eaRuns[m].sub # s
<1>1. eaRuns[n].depth + 1 \in Nat /\ MaxEventDepth \in Nat
  BY EventAssumption DEF EventInv, EventTables, EventRunSet
<1>2. v \in {"new", "duplicate"}
  BY DEF Accepted
<1>3. eaRuns[n].depth + 1 <= MaxEventDepth
  <2> DEFINE depth == eaRuns[n].depth + 1
  <2> SUFFICES ASSUME ~(depth <= MaxEventDepth) PROVE FALSE
    OBVIOUS
  <2>1. depth > MaxEventDepth
    BY <1>1
  <2>2. v = "depth exceeded"
    <3> HIDE DEF depth
    <3> QED BY <2>1 DEF EmissionVerdict, depth
  <2> QED BY <1>2, <2>2
<1>4. \A m \in Ancestors(n) : eaRuns[m].sub # s
  BY <1>1, <1>2, <1>3 DEF EmissionVerdict
<1> QED BY <1>1, <1>2, <1>3, <1>4 DEF EmissionVerdict

(* The channel with one outcome more. *)
LEMMA ChannelGrows ==
  ASSUME EventInv, NEW o \in OutcomeSet, eaChannel' = Append(eaChannel, o)
  PROVE  /\ eaChannel' \in Seq(OutcomeSet)
         /\ \E last : /\ last \notin DOMAIN eaChannel
                      /\ DOMAIN eaChannel' = DOMAIN eaChannel \cup {last}
                      /\ eaChannel'[last] = o
                      /\ \A i \in DOMAIN eaChannel : eaChannel'[i] = eaChannel[i]
<1>1. eaChannel \in Seq(OutcomeSet) /\ DOMAIN eaChannel = 1..Len(eaChannel) /\ Len(eaChannel) \in Nat
  BY DEF EventInv, EventSequences
<1>2. Len(eaChannel) + 1 \notin DOMAIN eaChannel
  BY <1>1
<1> QED BY <1>1, <1>2, SequenceGrows

LEMMA EmitEventKeeps ==
  ASSUME EventInv, NEW n \in DOMAIN eaRuns, EmitEvent(n)
  PROVE  EventInv'
<1> DEFINE e == eaEmission[n]
           moved == [eaEmission EXCEPT ![n].rest = @ \ {Min(e.rest)}]
<1>1. PICK s : s = Min(e.rest)
  OBVIOUS
<1>2. PICK v : v = EmissionVerdict(n, s, e.payload)
  OBVIOUS
<1>3. PICK o : o = OutcomeOf(v, s, "run", n)
  OBVIOUS
<1>4. /\ eaHost = "active" /\ eaRuns[n].state = "running" /\ e.rest # {}
      /\ UNCHANGED <<eaHost, eaHandler, eaAnswers>>
  BY DEF EmitEvent
<1>5. e \in EmissionSet /\ eaEmission \in [DOMAIN eaRuns -> EmissionSet \cup {<<>>}]
  BY <1>4 DEF EventInv, EventTables
<1>6. s \in DOMAIN EventOf
  BY <1>1, <1>4, <1>5, MinIsMember, EventAssumption DEF EmissionSet
<1>7. /\ moved \in [DOMAIN eaRuns -> EmissionSet \cup {<<>>}]
      /\ \A m \in DOMAIN eaRuns : eaRuns[m].state = "running" => moved[m] \in EmissionSet
  <2> DEFINE row == [e EXCEPT !.rest = e.rest \ {Min(e.rest)}]
  <2>1. row \in EmissionSet
    BY <1>5 DEF EmissionSet
  <2>2. moved = [eaEmission EXCEPT ![n] = row]
    BY <1>5
  <2>3. \A m \in DOMAIN eaRuns : eaRuns[m].state = "running" => eaEmission[m] \in EmissionSet
    BY <1>4 DEF EventInv, EventTables
  <2> HIDE DEF row, moved
  <2> QED BY <1>5, <2>1, <2>2, <2>3
<1>8. CASE ~Accepted(v)
  <2>1. eaEmission' = moved /\ UNCHANGED <<eaRuns, eaDriven, eaChannel>>
    BY <1>1, <1>2, <1>8 DEF EmitEvent
  <2>2. RunsKept
    BY <2>1 DEF RunsKept, SameRun
  <2>3. /\ eaRuns \in [DOMAIN eaRuns -> EventRunSet] /\ eaDriven \in [DOMAIN eaRuns -> Int]
    BY DEF EventInv, EventTables
  <2> HIDE DEF moved
  <2> QED BY <1>4, <1>7, <2>1, <2>2, <2>3, RunStepKeeps
<1>9. CASE Accepted(v)
  <2> DEFINE r == [sub |-> s, source |-> "run", id |-> n, payload |-> e.payload,
                   depth |-> eaRuns[n].depth + 1, state |-> "queued"]
  <2>1. /\ eaRuns' = IF v = "new" THEN Append(eaRuns, r) ELSE eaRuns
        /\ eaEmission' = IF v = "new" THEN Append(moved, <<>>) ELSE moved
        /\ eaDriven' = IF v = "new" THEN Append(eaDriven, 0) ELSE eaDriven
        /\ eaChannel' = Append(eaChannel, o)
    BY <1>1, <1>2, <1>3, <1>9 DEF EmitEvent
  <2>2. /\ v = AdmissionVerdict(s, "run", n, e.payload)
        /\ \A m \in Ancestors(n) : eaRuns[m].sub # s
    BY <1>2, <1>9, EmissionTells
  <2>3. \/ /\ v = "new" /\ o = Fresh(Len(eaRuns) + 1) /\ OccurrenceOf(s, "run", n) = {}
        \/ /\ v = "duplicate" /\ o = [run |-> o.run, duplicate |-> TRUE]
           /\ o.run \in DOMAIN eaRuns /\ eaRuns[o.run].source = "run"
    <3>1. OutcomeSays(v, o, s, "run", n, e.payload)
      BY <1>3, <1>9, <2>2, OutcomeTells
    <3> QED BY <3>1 DEF OutcomeSays
  <2>4. o \in OutcomeSet
    <3>1. DOMAIN eaRuns \subseteq Nat /\ Len(eaRuns) + 1 \in Nat
      BY DEF EventInv, EventSequences
    <3>2. \A k \in Nat : Fresh(k) \in OutcomeSet /\ [run |-> k, duplicate |-> TRUE] \in OutcomeSet
      BY DEF OutcomeSet, Fresh
    <3> QED BY <2>3, <3>1, <3>2
  <2>5. /\ r \in EventRunSet /\ r.state = "queued" /\ r.source = "run" /\ r.id = n
        /\ r.sub = s /\ r.depth = eaRuns[n].depth + 1
    <3>1. n \in EventIds /\ e.payload \in EventPayloads /\ eaRuns[n].depth \in Nat
      BY <1>5 DEF EventInv, EventTables, EventSequences, EventRunSet, EmissionSet, EventIds, EventPayloads
    <3> QED BY <1>6, <3>1 DEF EventRunSet
  <2>6. PICK last : /\ last \notin DOMAIN eaChannel
                    /\ DOMAIN eaChannel' = DOMAIN eaChannel \cup {last}
                    /\ eaChannel'[last] = o
                    /\ \A i \in DOMAIN eaChannel : eaChannel'[i] = eaChannel[i]
    BY <2>1, <2>4, ChannelGrows
  <2>7. eaChannel' \in Seq(OutcomeSet)
    BY <2>1, <2>4, ChannelGrows
  <2>8. Deliveries' = Deliveries /\ eaHandler \in [Deliveries -> HandlerSet]
    BY <1>4 DEF EventInv, EventTables, Deliveries
  <2> HIDE DEF r, moved
  <2>9. CASE v = "duplicate"
    <3>1. UNCHANGED <<eaRuns, eaDriven>> /\ eaEmission' = moved
      BY <2>1, <2>9
    <3>2. EventTables'
      BY <1>4, <1>7, <2>8, <3>1 DEF EventInv, EventTables
    <3>3. EventSequences'
      BY <2>7, <3>1, <3>2, SequencesKept DEF EventInv
    <3>4. RunsKept /\ DOMAIN eaRuns' = DOMAIN eaRuns
      BY <3>1 DEF RunsKept, SameRun
    <3>5. IdentitiesBound' /\ ParentsKnown' /\ LineageNeverRepeats'
      BY <3>4, FamiliesKept DEF EventInv
    <3>6. HostAtRest'
      BY <1>4 DEF HostAtRest
    <3>7. o = [run |-> o.run, duplicate |-> o.duplicate] /\ o.run \in DOMAIN eaRuns
          /\ eaRuns[o.run].source = "run" /\ \A m : o # Fresh(m)
      BY <2>3, <2>9 DEF Fresh
    <3>8. OutcomesTell'
      BY <1>4, <2>6, <2>8, <3>1, <3>4, <3>7, OutcomesGrow
    <3>9. PendingOnce'
      <4>1. ASSUME NEW m \in DOMAIN eaRuns, NEW i \in DOMAIN eaChannel', NEW j \in DOMAIN eaChannel',
                   eaChannel'[i] = Fresh(m), eaChannel'[j] = Fresh(m)
            PROVE  i = j
        BY <2>6, <3>7, <4>1 DEF EventInv, PendingOnce
      <4> QED BY <1>4, <2>8, <3>1, <4>1 DEF EventInv, PendingOnce, Fresh
    <3>10. \A m : DispatchPending(m)' <=> DispatchPending(m)
      <4> SUFFICES ASSUME NEW m PROVE DispatchPending(m)' <=> DispatchPending(m)
        OBVIOUS
      <4>1. (\E i \in DOMAIN eaChannel' : eaChannel'[i] = Fresh(m))
              <=> (\E i \in DOMAIN eaChannel : eaChannel[i] = Fresh(m))
        BY <2>6, <3>7
      <4> QED BY <1>4, <2>8, <4>1 DEF DispatchPending, Fresh
    <3>11. QueuedRunsDrivenOnce'
      BY <1>4, <3>1, <3>10, DrivenKept DEF EventInv, QueuedRuns
    <3> QED BY <3>2, <3>3, <3>5, <3>6, <3>8, <3>9, <3>11 DEF EventInv
  <2>10. CASE v = "new"
    <3>0. PICK k : k = Len(eaRuns) + 1
      OBVIOUS
    <3>1. eaRuns' = Append(eaRuns, r) /\ eaEmission' = Append(moved, <<>>)
          /\ eaDriven' = Append(eaDriven, 0)
      BY <2>1, <2>10
    <3>2. /\ EventTables' /\ EventSequences' /\ HostAtRest' /\ Admitted(r)
          /\ DOMAIN eaRuns' = DOMAIN eaRuns \cup {k} /\ k \notin DOMAIN eaRuns
          /\ eaRuns'[k] = r /\ eaDriven'[k] = 0
          /\ \A m \in DOMAIN eaRuns : eaRuns'[m] = eaRuns[m] /\ eaDriven'[m] = eaDriven[m]
      BY <1>4, <1>7, <2>5, <2>7, <2>8, <3>0, <3>1, TablesGrow
    <3>3. IdentitiesBound' /\ ParentsKnown' /\ LineageNeverRepeats' /\ RunsKept
      BY <2>2, <2>3, <2>5, <2>10, <3>2, FamiliesGrow DEF EventInv, EventSequences
    <3>4. o = Fresh(k) /\ k # 0
      BY <2>3, <2>10, <3>0 DEF EventInv, EventSequences
    <3>5. OutcomesTell'
      <4>1. /\ o = [run |-> o.run, duplicate |-> o.duplicate] /\ o.run = k
        BY <3>4 DEF Fresh
      <4> QED BY <1>4, <2>5, <2>6, <2>8, <3>2, <3>3, <4>1, OutcomesGrow
    <3>6. /\ \A f \in Deliveries : eaHandler[f].pending # Fresh(k)
          /\ \A i \in DOMAIN eaChannel : eaChannel[i] # Fresh(k)
      BY <3>2, <3>4, NothingAhead
    <3>7. \A m \in DOMAIN eaRuns : Fresh(k) # Fresh(m)
      BY <3>2 DEF Fresh
    <3>8. PendingOnce'
      <4> SUFFICES ASSUME NEW m \in DOMAIN eaRuns'
                   PROVE  /\ \A f, g \in Deliveries :
                               eaHandler[f].pending = Fresh(m) /\ eaHandler[g].pending = Fresh(m)
                               => f = g
                          /\ \A i, j \in DOMAIN eaChannel' :
                               eaChannel'[i] = Fresh(m) /\ eaChannel'[j] = Fresh(m) => i = j
        BY <1>4, <2>8 DEF PendingOnce, Fresh
      <4>1. CASE m = k
        BY <2>6, <3>4, <3>6, <4>1
      <4>2. CASE m # k
        <5>1. m \in DOMAIN eaRuns
          BY <3>2, <4>2
        <5> QED BY <2>6, <3>4, <3>7, <5>1 DEF EventInv, PendingOnce
      <4> QED BY <4>1, <4>2
    <3>9. QueuedRunsDrivenOnce'
      <4> SUFFICES ASSUME NEW m \in DOMAIN eaRuns', eaRuns'[m].state = "queued",
                          eaRuns'[m].source # "whatsapp"
                   PROVE  eaDriven'[m] = IF DispatchPending(m)' THEN 0 ELSE 1
        BY DEF QueuedRunsDrivenOnce, QueuedRuns
      <4>1. CASE m = k
        <5>1. DispatchPending(m)'
          BY <2>6, <3>4, <4>1 DEF DispatchPending, Fresh
        <5> QED BY <3>2, <4>1, <5>1
      <4>2. CASE m # k
        <5>1. m \in DOMAIN eaRuns /\ m \in QueuedRuns /\ eaRuns[m].source # "whatsapp"
          BY <3>2, <4>2 DEF QueuedRuns
        <5>2. (\E i \in DOMAIN eaChannel' : eaChannel'[i] = Fresh(m))
                <=> (\E i \in DOMAIN eaChannel : eaChannel[i] = Fresh(m))
          BY <2>6, <3>4, <3>7, <5>1
        <5>3. DispatchPending(m)' <=> DispatchPending(m)
          BY <1>4, <2>8, <5>2 DEF DispatchPending, Fresh
        <5> QED BY <1>4, <3>2, <5>1, <5>3 DEF EventInv, QueuedRunsDrivenOnce
      <4> QED BY <4>1, <4>2
    <3> QED BY <3>2, <3>3, <3>5, <3>8, <3>9 DEF EventInv
  <2> QED BY <2>3, <2>9, <2>10
<1> QED BY <1>8, <1>9

LEMMA EventStepKeeps ==
  ASSUME EventInv, [EventNext]_eaVars
  PROVE  EventInv'
<1>1. CASE UNCHANGED eaVars
  <2>1. UNCHANGED <<eaRuns, eaHost, eaRecovered, eaDriven, eaChannel, eaHandler, eaEmission, eaAnswers>>
    BY <1>1 DEF eaVars
  <2>2. EventTables' /\ EventSequences' /\ HostAtRest'
    BY <2>1 DEF EventInv, EventTables, EventSequences, HostAtRest, Deliveries, QueuedRuns
  <2>3. OutcomesTell' /\ PendingOnce'
    BY <2>1 DEF EventInv, OutcomesTell, PendingOnce, NamesRunOf, Fresh, Deliveries
  <2>4. RunsKept /\ DOMAIN eaRuns' = DOMAIN eaRuns
    BY <2>1 DEF RunsKept, SameRun
  <2>5. IdentitiesBound' /\ ParentsKnown' /\ LineageNeverRepeats'
    BY <2>4, FamiliesKept DEF EventInv
  <2>6. QueuedRunsDrivenOnce'
    BY <2>1 DEF EventInv, QueuedRunsDrivenOnce, QueuedRuns, DispatchPending, Deliveries
  <2> QED BY <2>2, <2>3, <2>5, <2>6 DEF EventInv
<1>2. CASE \E d \in Deliveries : StoreRefusesDelivery(d)
  <2>1. PICK d \in Deliveries : eaHandler[d].at = "admitting" /\ RefusedDelivery(d)
    BY <1>2 DEF StoreRefusesDelivery
  <2> QED BY <2>1, RefusedDeliveryKeeps
<1> QED BY <1>1, <1>2, ReceiveDeliveryKeeps, AdmitDeliveryKeeps, SettleDeliveryKeeps,
        AnswerDeliveryKeeps, StartEventRunKeeps, EmitEventKeeps, RetryEmissionKeeps,
        EndEventRunKeeps, IdleTaskEndsKeeps, DispatchEmittedKeeps, CrashEventHostKeeps,
        PrepareEventHostKeeps, ActivateEventHostKeeps
        DEF EventNext

LEMMA EventsInitially == EventInit => EventInv
<1> SUFFICES ASSUME EventInit PROVE EventInv
  OBVIOUS
<1>1. PICK ds \in DeliverySets : eaHandler = [d \in ds |-> HandlerIdle]
  BY DEF EventInit
<1>2. /\ eaRuns = <<>> /\ eaHost = "down" /\ eaDriven = <<>> /\ eaChannel = <<>>
      /\ eaEmission = <<>> /\ eaAnswers = {}
  BY DEF EventInit
<1>3. HandlerIdle \in HandlerSet /\ HandlerIdle.pending = NoOutcome /\ HandlerIdle.at = "idle"
      /\ HandlerIdle.accepted = {}
  BY DEF NoOutcome, HandlerIdle, HandlerSet, OutcomeSet
<1>4. DOMAIN eaRuns = {} /\ DOMAIN eaDriven = {} /\ DOMAIN eaEmission = {} /\ DOMAIN eaChannel = {}
  BY <1>2
<1>5. Deliveries = ds /\ Deliveries \subseteq DeliverySet /\ eaHandler \in [Deliveries -> HandlerSet]
  BY <1>1, <1>3 DEF Deliveries, DeliverySet
<1>6. EventTables
  BY <1>2, <1>4, <1>5 DEF EventTables
<1>7. EventSequences
  BY <1>2 DEF EventSequences
<1>8. OutcomesTell /\ HostAtRest
  BY <1>1, <1>2, <1>3, <1>4, <1>5 DEF OutcomesTell, HostAtRest
<1>9. PendingOnce /\ IdentitiesBound /\ ParentsKnown /\ LineageNeverRepeats /\ QueuedRunsDrivenOnce
  BY <1>2, <1>4 DEF PendingOnce, IdentitiesBound, ParentsKnown, LineageNeverRepeats,
     QueuedRunsDrivenOnce
<1> QED BY <1>6, <1>7, <1>8, <1>9 DEF EventInv

LEMMA EventInvariance == EventSpec => []EventInv
  BY EventsInitially, EventStepKeeps, PTL DEF EventSpec

(***************************************************************************)
(* However deliveries are repeated, raced or cut short by crashes, an      *)
(* accepted answer names the run of that very delivery, a delivery has one *)
(* run per subscriber, and no chain of emitted events, however long, comes *)
(* back to a subscriber of its own lineage: for any subscribers,           *)
(* deliveries and bounds (admit_trigger_occurrence_in_transaction,         *)
(* admit_internal_event_occurrence).                                       *)
(***************************************************************************)
THEOREM AdmissionsAreHonest == EventSpec => []AdmissionsHonest
<1>1. EventInv => AdmissionsHonest
  BY DEF EventInv, AdmissionsHonest, AcceptedAnswersHonest, OutcomesTell, IdentitiesBound
<1> QED BY <1>1, EventInvariance, PTL

(***************************************************************************)
(* While a host is active every queued run that an event or a script       *)
(* admitted has one task that drives it or one on its way: the holder of   *)
(* the outcome that is no duplicate, or the list of the preparation        *)
(* (dispatch_run, recover_undispatched_trigger_runs).                      *)
(***************************************************************************)
THEOREM QueuedRunsAreDriven == EventSpec => []QueuedRunsDrivenOnce
<1>1. EventInv => QueuedRunsDrivenOnce
  BY DEF EventInv
<1> QED BY <1>1, EventInvariance, PTL

=============================================================================
