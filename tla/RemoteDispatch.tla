---------------------------- MODULE RemoteDispatch ----------------------------
(***************************************************************************)
(* Remote execution of script attempts.  The coordinator keeps one row per *)
(* dispatch (remote_dispatch/transactions.rs), a queue in memory           *)
(* (remote_transport.rs) and the worker sessions in memory                 *)
(* (remote_coordinator.rs).  A worker polls, journals what it accepts,     *)
(* starts and ends (remote_worker_journal/), and reports each fact with a  *)
(* request whose answer it awaits (woml-cli/src/remote-worker.ts).  A      *)
(* request that is in flight outlives the worker that sent it.             *)
(***************************************************************************)
EXTENDS Integers, Sequences, FiniteSets, SequencesExt

CONSTANTS
  Dispatches,     \* script attempts placed on the target
  RemoteWorkers,  \* workers of the target
  SlotsPerWorker, \* capacity of a worker session
  MaxSessions,    \* bound on worker sessions
  MaxCoordinatorRestarts  \* bound on restarts of the coordinator

Nobody == "nobody"   \* NULL in the columns of a worker or a dispatch

ASSUME RemoteAssumption ==
  /\ IsFiniteSet(Dispatches) /\ IsFiniteSet(RemoteWorkers)
  /\ Nobody \notin Dispatches \cup RemoteWorkers
  /\ SlotsPerWorker \in Nat \ {0}
  /\ MaxSessions \in Nat /\ MaxCoordinatorRestarts \in Nat

VARIABLES
  rdRow,       \* woml_remote_dispatches
  rdQueue,     \* transport.pending
  rdPackages,  \* transport.packages
  rdFacts,     \* transport.terminals
  rdSessions,  \* sessions of the coordinator, in order of establishment
  rdJournal,   \* woml_worker_dispatches of each worker
  rdWorker,    \* where each worker is in its loop
  rdWire,      \* requests in flight
  rdExecuted,  \* how often the script of a dispatch began to run
  rdRestarts

rdVars == <<rdRow, rdQueue, rdPackages, rdFacts, rdSessions, rdJournal,
            rdWorker, rdWire, rdExecuted, rdRestarts>>

-----------------------------------------------------------------------------
(* State. *)

WorkerOutcomes == {"succeeded", "failed", "cancelled"}

RowStates == {"absent", "requested", "offered", "accepted", "started",
              "cancel_requested", "ambiguous", "abandoned"} \cup WorkerOutcomes

\* `due`: COALESCE(last_heartbeat_at, accepted_at, offer_expires_at) has come.
NoRow == [state |-> "absent", worker |-> Nobody, session |-> 0, due |-> FALSE,
          digest |-> "none"]

NoEntry == [state |-> "absent", session |-> 0]

JournalStates == {"absent", "accepted", "started", "ambiguous"} \cup WorkerOutcomes

WorkerSteps == {"down", "idle", "polling", "offered", "prepared", "accepting",
                "accepted", "journalled", "starting", "running", "executing",
                "ended", "reporting"}

Stopped == [at |-> "down", session |-> 0, dispatch |-> Nobody]

Requests ==
  [kind : {"poll", "accepted", "started", "terminal"}, worker : RemoteWorkers,
   session : 1..MaxSessions, dispatch : Dispatches \cup {Nobody},
   detail : WorkerOutcomes \cup {"in_time", "late"}]

RemoteTypeOK ==
  /\ rdRow \in [Dispatches -> [state : RowStates, worker : RemoteWorkers \cup {Nobody},
                               session : 0..MaxSessions, due : BOOLEAN,
                               digest : WorkerOutcomes \cup {"none", "evidence"}]]
  /\ rdQueue \in Seq(Dispatches) /\ IsInjective(rdQueue)
  /\ rdPackages \subseteq Dispatches /\ ToSet(rdQueue) \subseteq rdPackages
  /\ rdFacts \subseteq Dispatches
  /\ rdSessions \in Seq([worker : RemoteWorkers, open : BOOLEAN,
                         active : 0..SlotsPerWorker])
  /\ Len(rdSessions) <= MaxSessions
  /\ rdJournal \in [RemoteWorkers -> [Dispatches -> [state : JournalStates,
                                                     session : 0..MaxSessions]]]
  /\ rdWorker \in [RemoteWorkers -> [at : WorkerSteps, session : 0..MaxSessions,
                                     dispatch : Dispatches \cup {Nobody}]]
  /\ rdWire \subseteq Requests
  /\ rdExecuted \in [Dispatches -> Nat]
  /\ rdRestarts \in 0..MaxCoordinatorRestarts

RemoteInit ==
  /\ rdRow = [d \in Dispatches |-> NoRow]
  /\ rdQueue = <<>> /\ rdPackages = {} /\ rdFacts = {}
  /\ rdSessions = <<>>
  /\ rdJournal = [w \in RemoteWorkers |-> [d \in Dispatches |-> NoEntry]]
  /\ rdWorker = [w \in RemoteWorkers |-> Stopped]
  /\ rdWire = {}
  /\ rdExecuted = [d \in Dispatches |-> 0]
  /\ rdRestarts = 0

coordinatorMemory == <<rdQueue, rdPackages, rdFacts>>

-----------------------------------------------------------------------------
(* The coordinator: dispatch rows and the queue. *)

(* enqueue: the row is requested once; the package is queued unless the    *)
(* transport already holds it.                                             *)
EnqueueDispatch(d) ==
  LET row == IF rdRow[d].state = "absent"
               THEN [NoRow EXCEPT !.state = "requested"] ELSE rdRow[d]
  IN
  /\ d \notin rdPackages
  /\ rdRow' = [rdRow EXCEPT ![d] = row]
  /\ rdPackages' = rdPackages \cup {d}
  /\ rdQueue' = IF row.state = "requested" THEN Append(rdQueue, d) ELSE rdQueue
  /\ UNCHANGED <<rdFacts, rdSessions, rdJournal, rdWorker, rdWire, rdExecuted, rdRestarts>>

(* bound_dispatch_without_offer: the row belongs to this worker session. *)
Bound(q) == rdRow[q.dispatch].worker = q.worker /\ rdRow[q.dispatch].session = q.session

(* accept_remote_dispatch compares the expiry of the offer with the time at *)
(* which the worker sent the request; an accepted row is due from then on. *)
CanAccept(q) ==
  /\ Bound(q)
  /\ \/ rdRow[q.dispatch].state = "accepted"
     \/ rdRow[q.dispatch].state = "offered" /\ q.detail = "in_time"

(* start_remote_dispatch, through bound_state_transition. *)
CanStart(q) == Bound(q) /\ rdRow[q.dispatch].state \in {"accepted", "started"}

(* terminal_remote_dispatch, and the fact that the transport keeps. *)
SameTerminal(q) ==
  rdRow[q.dispatch].state = q.detail /\ rdRow[q.dispatch].digest = q.detail

CanEnd(q) ==
  /\ Bound(q)
  /\ \/ SameTerminal(q)
     \/ rdRow[q.dispatch].state \in {"started", "cancel_requested", "ambiguous"}
  /\ q.dispatch \notin rdFacts

Accepted(r) == [r EXCEPT !.state = "accepted", !.due = TRUE]
Begun(r) == [r EXCEPT !.state = "started"]
Ended(r, outcome) == [r EXCEPT !.state = outcome, !.digest = outcome]

\* Fault of mark_lost: what was accepted is offered again.
LostAcceptedRetried(r) ==
  IF r.state \in {"offered", "accepted", "started"} /\ r.due
    THEN [NoRow EXCEPT !.state = "requested"] ELSE r

(* mark_lost_remote_dispatches: an expired offer may be offered again; an  *)
(* accepted dispatch may have run and is ambiguous.                        *)
LostRow(r) ==
  CASE r.state = "offered" /\ r.due -> [NoRow EXCEPT !.state = "requested"]
    [] r.state \in {"accepted", "started", "cancel_requested"} /\ r.due ->
         [r EXCEPT !.state = "ambiguous"]
    [] OTHER -> r

MaintainDispatches ==
  LET rows == [d \in Dispatches |-> LostRow(rdRow[d])]
      again == {d \in rdPackages : rdRow[d].state = "offered" /\ rows[d].state = "requested"}
  IN
  /\ rows # rdRow
  /\ rdRow' = rows
  /\ rdQueue' = rdQueue \o SetToSeq(again \ ToSet(rdQueue))
  /\ UNCHANGED <<rdPackages, rdFacts, rdSessions, rdJournal, rdWorker, rdWire,
                 rdExecuted, rdRestarts>>

OfferExpires(d) ==
  /\ rdRow[d].state \in {"offered", "cancel_requested"} /\ ~rdRow[d].due
  /\ rdRow' = [rdRow EXCEPT ![d].due = TRUE]
  /\ UNCHANGED <<coordinatorMemory, rdSessions, rdJournal, rdWorker, rdWire,
                 rdExecuted, rdRestarts>>

RequestDispatchCancel(d) ==
  /\ rdRow[d].state \in {"offered", "accepted", "started"}
  /\ rdRow' = [rdRow EXCEPT ![d].state = "cancel_requested"]
  /\ UNCHANGED <<coordinatorMemory, rdSessions, rdJournal, rdWorker, rdWire,
                 rdExecuted, rdRestarts>>

(* reconcile_remote_dispatch: the operator settles an ambiguous dispatch. *)
ReconcileDispatch(d) ==
  /\ rdRow[d].state = "ambiguous"
  /\ \/ rdRow' = [rdRow EXCEPT ![d].state = "abandoned"]
     \/ rdRow' = [rdRow EXCEPT ![d].state = "failed", ![d].digest = "evidence"]
  /\ UNCHANGED <<coordinatorMemory, rdSessions, rdJournal, rdWorker, rdWire,
                 rdExecuted, rdRestarts>>

(* The process ends: queue, sessions and connections are gone. *)
RestartCoordinator ==
  /\ rdRestarts < MaxCoordinatorRestarts
  /\ rdRestarts' = rdRestarts + 1
  /\ rdQueue' = <<>> /\ rdPackages' = {} /\ rdFacts' = {}
  /\ rdSessions' = [s \in DOMAIN rdSessions |-> [rdSessions[s] EXCEPT !.open = FALSE]]
  /\ rdWire' = {}
  /\ UNCHANGED <<rdRow, rdJournal, rdWorker, rdExecuted>>

-----------------------------------------------------------------------------
(* The coordinator: sessions and requests. *)

(* A session ends after 60 seconds without a request (expire). *)
ExpireSession(s) ==
  /\ rdSessions[s].open
  /\ rdSessions' = [rdSessions EXCEPT ![s].open = FALSE]
  /\ UNCHANGED <<rdRow, coordinatorMemory, rdJournal, rdWorker, rdWire, rdExecuted,
                 rdRestarts>>

(* The worker that sent q still waits for its answer. *)
Waiting(q) ==
  LET u == rdWorker[q.worker] IN
  /\ u.session = q.session
  /\ u.at = CASE q.kind = "poll" -> "polling"
              [] q.kind = "accepted" -> "accepting"
              [] q.kind = "started" -> "starting"
              [] q.kind = "terminal" -> "reporting"

\* The answer to q moves the waiting worker to step `at`; an error ends it.
Answer(q, at, d) ==
  rdWorker' = IF Waiting(q)
                THEN [rdWorker EXCEPT ![q.worker] =
                        IF at = "down" THEN Stopped
                        ELSE [@ EXCEPT !.at = at, !.dispatch = d]]
                ELSE rdWorker

Session(q) == rdSessions[q.session]
HasSlot(q) == Session(q).active < SlotsPerWorker

(* A poll reserves a slot and takes the first queued dispatch. *)
OfferNext(q) ==
  /\ q.kind = "poll" /\ Session(q).open /\ HasSlot(q) /\ rdQueue # <<>>
  /\ rdRow' = [rdRow EXCEPT ![Head(rdQueue)] =
                 [state |-> "offered", worker |-> q.worker, session |-> q.session,
                  due |-> FALSE, digest |-> "none"]]
  /\ rdQueue' = Tail(rdQueue)
  /\ rdSessions' = [rdSessions EXCEPT ![q.session].active = @ + 1]
  /\ Answer(q, "offered", Head(rdQueue))
  /\ UNCHANGED <<rdPackages, rdFacts>>

NothingToOffer(q) ==
  /\ q.kind = "poll" /\ Session(q).open /\ HasSlot(q) /\ rdQueue = <<>>
  /\ Answer(q, "idle", Nobody)
  /\ UNCHANGED <<rdRow, coordinatorMemory, rdSessions>>

(* dispatch_fact with accept or start. *)
RecordFact(q) ==
  /\ Session(q).open
  /\ \/ /\ q.kind = "accepted" /\ CanAccept(q)
        /\ rdRow' = [rdRow EXCEPT ![q.dispatch] = Accepted(@)]
        /\ Answer(q, "accepted", q.dispatch)
     \/ /\ q.kind = "started" /\ CanStart(q)
        /\ rdRow' = [rdRow EXCEPT ![q.dispatch] = Begun(@)]
        /\ Answer(q, "running", q.dispatch)
  /\ UNCHANGED <<coordinatorMemory, rdSessions>>

(* transport.terminal, and only then release_dispatch. *)
RecordTerminal(q) ==
  /\ q.kind = "terminal" /\ Session(q).open /\ CanEnd(q)
  /\ rdRow' = [rdRow EXCEPT ![q.dispatch] = Ended(@, q.detail)]
  /\ rdFacts' = rdFacts \cup {q.dispatch}
  /\ rdPackages' = rdPackages \ {q.dispatch}
  /\ rdSessions' = [rdSessions EXCEPT ![q.session].active = IF @ = 0 THEN 0 ELSE @ - 1]
  /\ Answer(q, "idle", Nobody)
  /\ UNCHANGED rdQueue

Admissible(q) ==
  /\ Session(q).open
  /\ CASE q.kind = "poll" -> HasSlot(q)
       [] q.kind = "accepted" -> CanAccept(q)
       [] q.kind = "started" -> CanStart(q)
       [] q.kind = "terminal" -> CanEnd(q)

Refuse(q) ==
  /\ ~Admissible(q)
  /\ Answer(q, "down", Nobody)
  /\ UNCHANGED <<rdRow, coordinatorMemory, rdSessions>>

(* handle_connection serves a request in flight. *)
Serve(q) ==
  /\ OfferNext(q) \/ NothingToOffer(q) \/ RecordFact(q) \/ RecordTerminal(q) \/ Refuse(q)
  /\ rdWire' = rdWire \ {q}
  /\ UNCHANGED <<rdJournal, rdExecuted, rdRestarts>>

-----------------------------------------------------------------------------
(* The worker. *)

workerOnly == <<rdRow, coordinatorMemory, rdRestarts>>

EstablishSession(w) ==
  /\ rdWorker[w].at = "down" /\ Len(rdSessions) < MaxSessions
  /\ rdSessions' = Append(rdSessions, [worker |-> w, open |-> TRUE, active |-> 0])
  /\ rdWorker' = [rdWorker EXCEPT ![w] =
                    [at |-> "idle", session |-> Len(rdSessions) + 1, dispatch |-> Nobody]]
  /\ UNCHANGED <<workerOnly, rdJournal, rdWire, rdExecuted>>

\* Sends the request that belongs to the worker's step.
SendRequest(w) ==
  LET u == rdWorker[w]
      send(kind, next, detail) ==
        /\ rdWire' = rdWire \cup {[kind |-> kind, worker |-> w, session |-> u.session,
                                   dispatch |-> u.dispatch, detail |-> detail]}
        /\ rdWorker' = [rdWorker EXCEPT ![w].at = next]
  IN
  /\ \/ u.at = "idle" /\ send("poll", "polling", "in_time")
     \/ /\ u.at = "prepared"
        /\ send("accepted", "accepting", IF rdRow[u.dispatch].due THEN "late" ELSE "in_time")
     \/ u.at = "journalled" /\ send("started", "starting", "in_time")
     \/ u.at = "ended" /\ send("terminal", "reporting", rdJournal[w][u.dispatch].state)
  /\ UNCHANGED <<workerOnly, rdSessions, rdJournal, rdExecuted>>

(* prepare_woml_remote_attempt: an attempt whose fate is unknown is never  *)
(* prepared again; an ended one is only reported.                          *)
PrepareAttempt(w) ==
  LET d == rdWorker[w].dispatch
      entry == rdJournal[w][d]
  IN
  /\ rdWorker[w].at = "offered"
  /\ rdJournal' = IF entry.state = "absent"
                    THEN [rdJournal EXCEPT ![w][d].state = "accepted"] ELSE rdJournal
  /\ rdWorker' = [rdWorker EXCEPT ![w] =
                    CASE entry.state \in {"absent", "accepted"} -> [@ EXCEPT !.at = "prepared"]
                      [] entry.state \in WorkerOutcomes -> [@ EXCEPT !.at = "ended"]
                      [] OTHER -> Stopped]
  /\ UNCHANGED <<workerOnly, rdSessions, rdWire, rdExecuted>>

(* start_woml_remote_attempt: the start is journalled before it is told. *)
StartAttempt(w) ==
  LET d == rdWorker[w].dispatch IN
  /\ rdWorker[w].at = "accepted" /\ rdJournal[w][d].state = "accepted"
  /\ rdJournal' = [rdJournal EXCEPT ![w][d] = [state |-> "started",
                                               session |-> rdWorker[w].session]]
  /\ rdWorker' = [rdWorker EXCEPT ![w].at = "journalled"]
  /\ UNCHANGED <<workerOnly, rdSessions, rdWire, rdExecuted>>

(* execute_with_cancellation_mode, prestarted: only the session that       *)
(* journalled the start hands the script to a host.                        *)
ExecuteAttempt(w) ==
  LET d == rdWorker[w].dispatch IN
  /\ rdWorker[w].at = "running"
  /\ rdJournal[w][d] = [state |-> "started", session |-> rdWorker[w].session]
  /\ rdExecuted' = [rdExecuted EXCEPT ![d] = @ + 1]
  /\ rdWorker' = [rdWorker EXCEPT ![w].at = "executing"]
  /\ UNCHANGED <<workerOnly, rdSessions, rdJournal, rdWire>>

CompleteAttempt(w, outcome) ==
  LET d == rdWorker[w].dispatch IN
  /\ rdWorker[w].at = "executing" /\ rdJournal[w][d].state = "started"
  /\ rdJournal' = [rdJournal EXCEPT ![w][d].state = outcome]
  /\ rdWorker' = [rdWorker EXCEPT ![w].at = "ended"]
  /\ UNCHANGED <<workerOnly, rdSessions, rdWire, rdExecuted>>

(* The worker process ends: a crash, a host that is lost, or a request     *)
(* that times out while it is in flight.                                   *)
WorkerStops(w) ==
  /\ rdWorker[w].at # "down"
  /\ rdWorker' = [rdWorker EXCEPT ![w] = Stopped]
  /\ UNCHANGED <<workerOnly, rdSessions, rdJournal, rdWire, rdExecuted>>

ShutdownWorker(w) ==
  /\ rdWorker[w].at = "idle" /\ rdSessions[rdWorker[w].session].open
  /\ rdSessions' = [rdSessions EXCEPT ![rdWorker[w].session].open = FALSE]
  /\ rdWorker' = [rdWorker EXCEPT ![w] = Stopped]
  /\ UNCHANGED <<workerOnly, rdJournal, rdWire, rdExecuted>>

(* WorkerJournalV1::recover. *)
RecoverJournal(w) ==
  /\ rdWorker[w].at = "down"
  /\ \E d \in Dispatches : rdJournal[w][d].state = "started"
  /\ rdJournal' = [rdJournal EXCEPT ![w] =
                     [d \in Dispatches |-> IF @[d].state = "started"
                                             THEN [@[d] EXCEPT !.state = "ambiguous"] ELSE @[d]]]
  /\ UNCHANGED <<workerOnly, rdSessions, rdWorker, rdWire, rdExecuted>>

RemoteNext ==
  \/ MaintainDispatches \/ RestartCoordinator
  \/ \E d \in Dispatches : \/ EnqueueDispatch(d) \/ OfferExpires(d)
                           \/ RequestDispatchCancel(d) \/ ReconcileDispatch(d)
  \/ \E s \in DOMAIN rdSessions : ExpireSession(s)
  \/ \E q \in rdWire : Serve(q)
  \/ \E w \in RemoteWorkers :
       \/ EstablishSession(w) \/ SendRequest(w) \/ PrepareAttempt(w) \/ StartAttempt(w)
       \/ ExecuteAttempt(w) \/ WorkerStops(w) \/ ShutdownWorker(w) \/ RecoverJournal(w)
       \/ \E outcome \in WorkerOutcomes : CompleteAttempt(w, outcome)

RemoteSpec == RemoteInit /\ [][RemoteNext]_rdVars

-----------------------------------------------------------------------------
(* Properties. *)

(* The script of a dispatch runs at most once, over all workers, sessions, *)
(* expired offers, late requests and restarts of either side; and an       *)
(* outcome that the coordinator records is the one that a worker's journal *)
(* holds (mark_lost_remote_dispatches, prepare_woml_remote_attempt,        *)
(* terminal_remote_dispatch).                                              *)
RemoteRunsOnce ==
  \A d \in Dispatches :
    /\ rdExecuted[d] <= 1
    /\ rdRow[d].digest \in WorkerOutcomes =>
         rdRow[d].worker # Nobody /\ rdJournal[rdRow[d].worker][d].state = rdRow[d].digest

(* What the coordinator has settled stays settled: no late fact of a       *)
(* worker, lost row or operator changes an ended dispatch, and an          *)
(* ambiguous one is never offered again (terminal_remote_dispatch,         *)
(* reconcile_remote_dispatch).                                             *)
SettledDispatchesStand ==
  [][\A d \in Dispatches :
       /\ rdRow[d].state \in WorkerOutcomes \cup {"abandoned"} => rdRow'[d] = rdRow[d]
       /\ rdRow[d].state = "ambiguous" =>
            rdRow'[d].state \in {"ambiguous", "abandoned"} \cup WorkerOutcomes]_rdVars

=============================================================================
