--------------------------- MODULE OperationalOutput ---------------------------
(***************************************************************************)
(* The operational output of runs: the bounded store that scripts, streamed*)
(* processes and remote workers append records to, its pruning and its     *)
(* recovery; the runtime's hub that feeds a follower from it; and a client *)
(* that replays the store, follows the hub and reconnects.                 *)
(*                                                                         *)
(* Run "local" has one attempt whose script also streams a process; run    *)
(* "remote" has one attempt at a worker that sends its records again.      *)
(* Each run has one lane (one attempt), both belong to one workflow.       *)
(***************************************************************************)
EXTENDS Integers, Sequences, FiniteSets, FiniteSetsExt, SequencesExt

CONSTANTS
  MaxAttemptBytes, MaxRunBytes, MaxStoreBytes,   \* budgets of the store
  MaxStreamBytes,    \* the process policy's budget of one streamed process
  HubPageSize, HubPages, QueueSize,   \* 250, 4 and 256 in the code
  ReplayPageSize,    \* 1000 in the code
  WriterPlans,       \* the script's acts in order, the worker's number of
                     \* records and, a bound, the largest sequence
  MaxOutputFaults    \* a bound

ASSUME OutputLimits ==
  /\ {MaxAttemptBytes, MaxRunBytes, MaxStoreBytes, MaxStreamBytes} \subseteq Nat
  /\ MaxAttemptBytes > 0 /\ MaxRunBytes >= MaxAttemptBytes /\ MaxStoreBytes >= MaxRunBytes
  /\ {HubPageSize, HubPages, QueueSize, ReplayPageSize} \subseteq Nat \ {0}
  /\ MaxOutputFaults \in Nat
  /\ \A p \in WriterPlans :
       /\ p.acts \in Seq({"log", "progress", "stream", "chunk", "exit"})
       /\ p.records \in Nat /\ p.most \in Nat

VARIABLES
  ooStore,     \* the tables of the output database
  ooHistory,   \* every record ever appended
  ooHost,      \* the script host's view of the local attempt
  ooHub,       \* the runtime's hub and its one follower
  ooReader,    \* the client
  ooFaults     \* crashes and cut connections so far

ooVars == <<ooStore, ooHistory, ooHost, ooHub, ooReader, ooFaults>>

OutputRuns == {"local", "remote"}
Lane(run) == run
RunScope == "run"

-----------------------------------------------------------------------------
(* The store.                                                              *)

RunRow(state, bytes, first, last) ==
  [state |-> state, bytes |-> bytes, first |-> first, last |-> last]

NoRunRow == RunRow("none", 0, 0, 0)

OutputInit ==
  /\ ooStore = [records |-> {}, next |-> 1, runs |-> [r \in OutputRuns |-> NoRunRow],
                pruned |-> 0, prunedRuns |-> [r \in OutputRuns |-> 0],
                remote |-> <<>>, progress |-> [value |-> 0, seq |-> 0, status |-> "none"]]
  /\ ooHistory = {}
  /\ ooHost \in {[phase |-> IF p.acts = <<>> THEN "done" ELSE "running",
                  plan |-> p.acts, records |-> p.records, most |-> p.most,
                  settled |-> IF p.acts = <<>> THEN {"local"} ELSE {},
                  emitted |-> FALSE, latest |-> 0,
                  stream |-> "none", streamBytes |-> 0, streamTruncated |-> FALSE] :
                 p \in WriterPlans}
  /\ ooHub = [waking |-> FALSE, fresh |-> TRUE, open |-> FALSE, cursor |-> 0,
              flushing |-> FALSE, pages |-> 0, queue |-> <<>>]
  /\ ooReader \in {[subject |-> s, mode |-> "replay", cursor |-> 0, shown |-> <<>>,
                    gap |-> 0, ended |-> FALSE, ahead |-> {}, passed |-> {}] :
                   s \in OutputRuns \cup {"workflow"}}
  /\ ooReader.subject = "remote" => ooHost.records > 0
  /\ ooReader.subject = "local" => ooHost.plan # <<>>
  /\ ooFaults = 0

\* What a writer offers: its run, its scope (the attempt or the whole run),
\* and for a record of a worker its number in the worker's stream.
Draft(run, scope, kind, bytes, value, remote) ==
  [run |-> run, scope |-> scope, kind |-> kind, bytes |-> bytes, value |-> value,
   remote |-> remote]

Accounted(records) == MapThenSumSet(LAMBDA x : x.bytes, records)

OfLane(st, d) == {x \in st.records : x.run = d.run /\ x.scope = d.scope}

OverBudget(st, d) ==
  /\ d.kind = "output"
  /\ \/ Accounted(OfLane(st, d)) + d.bytes > MaxAttemptBytes
     \/ st.runs[d.run].bytes + d.bytes > MaxRunBytes
     \/ MapThenSumSet(LAMBDA r : st.runs[r].bytes, OutputRuns) + d.bytes > MaxStoreBytes

Markers(st, d) == {x.seq : x \in {y \in OfLane(st, d) : y.kind = "truncated"}}

\* Only a closing record of the whole run ends the run's output.
UpdateRunAccounting(st, x) ==
  LET row == st.runs[x.run]
  IN  [st EXCEPT
        !.runs[x.run] = RunRow(IF x.kind = "closed" /\ x.scope = RunScope THEN "closed" ELSE "active",
                               row.bytes + x.bytes,
                               IF row.state = "none" THEN x.seq ELSE row.first, x.seq),
        !.progress.status = IF x.kind = "closed" /\ x.run = "local" /\ @ # "none"
                            THEN "closed" ELSE @]

UpdateProgressProjection(st, x) ==
  IF x.kind # "progress" THEN st
  ELSE [st EXCEPT !.progress = [value |-> x.value, seq |-> x.seq, status |-> "active"]]

RememberRemote(st, d, seq) ==
  IF d.remote = 0 THEN st ELSE [st EXCEPT !.remote = Append(@, seq)]

RecordOf(st, d) ==
  [seq |-> st.next, run |-> d.run, scope |-> d.scope, value |-> d.value,
   kind |-> IF OverBudget(st, d) THEN "truncated" ELSE d.kind,
   bytes |-> IF OverBudget(st, d) THEN 0 ELSE d.bytes]

Insert(st, x) ==
  UpdateProgressProjection(
    UpdateRunAccounting([st EXCEPT !.records = @ \cup {x}, !.next = @ + 1], x), x)

AppendResult(outcome, st, added) == [outcome |-> outcome, store |-> st, added |-> added]

\* One append: a resent record of a worker is recognised first, a closed run
\* takes nothing, and output over a budget leaves one marker per lane.
AppendBounded(st, d) ==
  CASE d.remote > 0 /\ d.remote <= Len(st.remote) -> AppendResult("duplicate", st, {})
    [] d.remote > Len(st.remote) + 1 -> AppendResult("refused", st, {})
    [] OTHER ->
         IF st.runs[d.run].state = "closed" THEN AppendResult("refused", st, {})
         ELSE IF OverBudget(st, d) /\ Markers(st, d) # {}
         THEN AppendResult("dropped", RememberRemote(st, d, Min(Markers(st, d))), {})
         ELSE LET x == RecordOf(st, d)
              IN  AppendResult(x.kind, RememberRemote(Insert(st, x), d, x.seq), {x})

\* A page of one run, or of every run, after a cursor; records that pruning
\* removed behind the cursor are reported as a gap.
PrunedThrough(st, subject) ==
  IF subject \in OutputRuns THEN st.prunedRuns[subject] ELSE st.pruned

InScope(x, subject) == subject \in OutputRuns => x.run = subject

\* A slip: the page ends at the newest record of its scope.
NextAfterLatest(records, from, latest) == latest

NextAfter(records, from, latest) == IF records = <<>> THEN from ELSE Last(records).seq

ReadPage(st, subject, after, limit) ==
  LET pruned  == PrunedThrough(st, subject)
      scope   == {x \in st.records : InScope(x, subject)}
      latest  == Max({x.seq : x \in scope} \cup {pruned})
      from    == IF subject \in OutputRuns THEN Max({after, pruned}) ELSE after
      ahead   == {x \in scope : x.seq > from}
      records == [i \in 1..Min({limit, Cardinality(ahead)}) |->
                    CHOOSE x \in ahead : Cardinality({y \in ahead : y.seq <= x.seq}) = i]
      next    == NextAfter(records, from, latest)
  IN  [records |-> records, next |-> next, more |-> next < latest,
       gap |-> IF after < pruned THEN pruned ELSE 0]

PruneTerminal(st, run) ==
  [st EXCEPT !.records = {x \in @ : x.run # run}, !.runs[run] = NoRunRow,
             !.remote = IF run = "remote" THEN <<>> ELSE @,
             !.progress = IF run = "local" THEN [value |-> 0, seq |-> 0, status |-> "none"] ELSE @,
             !.prunedRuns[run] = Max({@, st.runs[run].last}),
             !.pruned = Max({@, st.runs[run].last})]

-----------------------------------------------------------------------------
(* Writers.                                                                *)

Room == ooStore.next <= ooHost.most

\* An append's transaction, and the wakeup the store reports for it.
Appended(d) ==
  LET done == AppendBounded(ooStore, d)
  IN  /\ Room
      /\ ooStore' = done.store
      /\ ooHistory' = ooHistory \cup done.added
      /\ ooHub' = IF done.added = {} THEN ooHub
                  ELSE [ooHub EXCEPT !.waking = TRUE]

LocalDraft(kind, bytes, value) == Draft("local", Lane("local"), kind, bytes, value, 0)

\* The script's next act.
NextAct(act) == ooHost.phase = "running" /\ ooHost.plan # <<>> /\ Head(ooHost.plan) = act

\* A console record of the script.
WriteScriptOutput ==
  /\ NextAct("log")
  /\ Appended(LocalDraft("output", 1, 0))
  /\ ooHost' = [ooHost EXCEPT !.emitted = TRUE, !.plan = Tail(@)]
  /\ UNCHANGED <<ooReader, ooFaults>>

\* A progress report: within the cadence it only moves the latest snapshot.
CoalesceProgress(value) ==
  /\ ooStore.progress.status # "none" /\ ooStore.runs["local"].state # "closed"
  /\ ooStore' = [ooStore EXCEPT !.progress.value = value, !.progress.status = "active"]
  /\ ooHub' = [ooHub EXCEPT !.waking = @ \/ ooHub.fresh]
  /\ UNCHANGED ooHistory

ReportProgress ==
  LET value == ooHost.latest + 1
  IN  /\ NextAct("progress")
      /\ CoalesceProgress(value) \/ Appended(LocalDraft("progress", 0, value))
      /\ ooHost' = [ooHost EXCEPT !.emitted = TRUE, !.latest = value, !.plan = Tail(@)]
      /\ UNCHANGED <<ooReader, ooFaults>>

\* A streamed process: its own budget first, then the store's.  A record the
\* store drops fails the process.
StartStream ==
  /\ NextAct("stream") /\ ooHost.stream # "open"
  /\ ooHost' = [ooHost EXCEPT !.stream = "open", !.plan = Tail(@),
                              !.streamBytes = 0, !.streamTruncated = FALSE]
  /\ UNCHANGED <<ooStore, ooHistory, ooHub, ooReader, ooFaults>>

AppendProcessOutput ==
  LET over == ooHost.streamBytes + 1 > MaxStreamBytes
      d    == LocalDraft(IF over THEN "truncated" ELSE "output", IF over THEN 0 ELSE 1, 0)
  IN  /\ NextAct("chunk") /\ ooHost.stream = "open"
      /\ IF ooHost.streamTruncated
         THEN /\ ooHost' = [ooHost EXCEPT !.plan = Tail(@)]
              /\ UNCHANGED <<ooStore, ooHistory, ooHub>>
         ELSE /\ Appended(d)
              /\ ooHost' = IF AppendBounded(ooStore, d).outcome \in {"dropped", "refused"}
                           THEN [ooHost EXCEPT !.stream = "failed", !.plan = <<>>]
                           ELSE [ooHost EXCEPT !.streamTruncated = over, !.plan = Tail(@),
                                               !.streamBytes = IF over THEN @ ELSE @ + 1]
      /\ UNCHANGED <<ooReader, ooFaults>>

CloseProcessStream ==
  /\ NextAct("exit") /\ ooHost.stream = "open"
  /\ Appended(LocalDraft("closed", 0, 0))
  /\ ooHost' = [ooHost EXCEPT !.stream = "closed", !.plan = Tail(@)]
  /\ UNCHANGED <<ooReader, ooFaults>>

\* The script completes (or its host fails): the newest progress report is
\* appended whatever the cadence, then the attempt's lane is closed.
CompleteScript ==
  /\ ooHost.phase = "running" /\ ooHost.plan = <<>>
  /\ IF ooHost.latest = 0 THEN UNCHANGED <<ooStore, ooHistory, ooHub>>
     ELSE Appended(LocalDraft("progress", 0, ooHost.latest))
  /\ ooHost' = [ooHost EXCEPT !.phase = "flushed"]
  /\ UNCHANGED <<ooReader, ooFaults>>

CloseAttempt ==
  /\ ooHost.phase = "flushed"
  /\ IF ooHost.emitted THEN Appended(LocalDraft("closed", 0, ooHost.latest))
     ELSE UNCHANGED <<ooStore, ooHistory, ooHub>>
  /\ ooHost' = [ooHost EXCEPT !.phase = "done"]
  /\ UNCHANGED <<ooReader, ooFaults>>

\* The worker's records, also one it sent before, or one ahead of the next.
IngestRemoteOutput(n) ==
  /\ n <= ooHost.records
  /\ Appended(Draft("remote", Lane("remote"), "output", 1, 0, n))
  /\ UNCHANGED <<ooHost, ooReader, ooFaults>>

\* The run has ended: the driver closes its output.
SettleOperationalRun(run) ==
  /\ IF run = "local" THEN ooHost.phase \in {"done", "dead"} ELSE ooHost.records > 0
  /\ run \notin ooHost.settled
  /\ Appended(Draft(run, RunScope, "closed", 0, 0, 0))
  /\ ooHost' = [ooHost EXCEPT !.settled = @ \cup {run}]
  /\ UNCHANGED <<ooReader, ooFaults>>

\* An operator prunes runs that ended before the retention's cutoff.
PruneRun(run) ==
  /\ ooStore.runs[run].state = "closed"
  /\ ooStore' = PruneTerminal(ooStore, run)
  /\ UNCHANGED <<ooHistory, ooHost, ooHub, ooReader, ooFaults>>

\* Recovery (of a run taken over, or of every run when a process of an older
\* model starts on the same store) closes lanes that have no closing record.
RecoverInterruptedStream(run) ==
  LET lane == {x \in ooStore.records : x.run = run /\ x.scope = Lane(run)}
  IN  /\ ooStore.runs[run].state = "active" /\ lane # {}
      /\ \A x \in lane : x.kind # "closed"
      /\ Appended(Draft(run, Lane(run), "closed", 0, 0, 0))
      /\ UNCHANGED <<ooHost, ooReader, ooFaults>>

-----------------------------------------------------------------------------
(* The hub.                                                                *)

Event(kind, cursor, gap, x) == [kind |-> kind, cursor |-> cursor, gap |-> gap, record |-> x]
NoRecord == [kind |-> "none"]

\* The wakeups reach the hub as one.  The hub ignores a sequence it already
\* knows of, which a coalesced report repeats: it counts only for a fresh hub.
NotifyHub ==
  /\ ooHub.waking /\ ~(ooHub.flushing /\ ooHub.pages > 0)
  /\ ooHub' = [ooHub EXCEPT !.waking = FALSE, !.fresh = FALSE, !.flushing = @ \/ ooHub.open]
  /\ UNCHANGED <<ooStore, ooHistory, ooHost, ooReader, ooFaults>>

\* What fits of a page's events; the first one that does not ends the stream.
Enqueue(hub, events) ==
  LET free == QueueSize - Len(hub.queue)
  IN  [hub EXCEPT !.queue = @ \o SubSeq(events, 1, Min({free, Len(events)})),
                  !.open = Len(events) <= free]

PageEvents(page) ==
  (IF page.gap = 0 THEN <<>> ELSE <<Event("gap", page.next, page.gap, NoRecord)>>)
  \o [i \in 1..Len(page.records) |->
        Event("record", page.records[i].seq, 0, page.records[i])]

\* One page of a flush; a flush ends with the last page or after HubPages.
FlushPage ==
  LET page  == ReadPage(ooStore, ooReader.subject, ooHub.cursor, HubPageSize)
      hub   == Enqueue(ooHub, PageEvents(page))
      again == hub.open /\ page.more /\ ooHub.pages + 1 < HubPages
  IN  /\ ooHub.open /\ ooHub.flushing
      /\ ooHub' = [hub EXCEPT !.cursor = IF hub.open THEN Max({@, page.next}) ELSE @,
                              !.flushing = again,
                              !.pages = IF again THEN @ + 1 ELSE 0]
      /\ UNCHANGED <<ooStore, ooHistory, ooHost, ooReader, ooFaults>>

Heartbeat ==
  /\ ooHub.open /\ ~ooHub.flushing /\ ooHub.cursor > ooReader.cursor
  /\ ooHub' = Enqueue(ooHub, <<Event("heartbeat", ooHub.cursor, 0, NoRecord)>>)
  /\ UNCHANGED <<ooStore, ooHistory, ooHost, ooReader, ooFaults>>

\* The runtime stops serving: the follower gets a last event and is removed.
CloseStreams ==
  /\ ooHub.open /\ ~ooHub.flushing /\ ooFaults < MaxOutputFaults
  /\ ooHub' = [Enqueue(ooHub, <<Event("closed", ooHub.cursor, 0, NoRecord)>>)
                 EXCEPT !.open = FALSE]
  /\ ooFaults' = ooFaults + 1
  /\ UNCHANGED <<ooStore, ooHistory, ooHost, ooReader>>

-----------------------------------------------------------------------------
(* The client.                                                             *)

\* A run's reader stops at a closing record, whatever its scope.
EndsReading(x) == ooReader.subject \in OutputRuns /\ x.kind = "closed"

Sequences(records) == [i \in 1..Len(records) |-> records[i].seq]

\* One page of the replay from the state file.
ReplayPage ==
  LET page  == ReadPage(ooStore, ooReader.subject, ooReader.cursor, ReplayPageSize)
      next  == Max({ooReader.cursor, page.next})
      ended == ooReader.ended \/ \E i \in 1..Len(page.records) : EndsReading(page.records[i])
  IN  /\ ooReader.mode = "replay"
      /\ ooReader' = [ooReader EXCEPT
            !.cursor = next, !.shown = @ \o Sequences(page.records),
            !.gap = Max({@, page.gap}), !.ended = ended,
            !.mode = IF page.more /\ next > ooReader.cursor THEN "replay"
                     ELSE IF ended THEN "done" ELSE "connect"]
      /\ UNCHANGED <<ooStore, ooHistory, ooHost, ooHub, ooFaults>>

\* The client asks for the stream after its cursor.
Connect ==
  /\ ooReader.mode = "connect" /\ ~ooHub.open /\ ooHub.queue = <<>>
  /\ ooReader' = [ooReader EXCEPT !.mode = "follow"]
  /\ ooHub' = [ooHub EXCEPT !.open = TRUE, !.cursor = ooReader.cursor,
                            !.flushing = TRUE, !.pages = 0]
  /\ UNCHANGED <<ooStore, ooHistory, ooHost, ooFaults>>

\* A gap event moves the cursor to the end of its page before the records of
\* the page arrive, and the client tells its user only what was pruned.  The
\* model keeps the sequences in between: those announced on this connection
\* (ahead), and those a connection ended before showing (passed).
Announced(e) == IF e.kind = "gap" THEN (e.gap + 1)..e.cursor ELSE {}

ShownTo(rd) == {rd.shown[i] : i \in 1..Len(rd.shown)}

Disconnected(rd, mode) ==
  [rd EXCEPT !.mode = mode, !.ahead = {}, !.passed = @ \cup (rd.ahead \ ShownTo(rd))]

ReceiveEvent ==
  LET e == Head(ooHub.queue)
      ended == e.kind = "record" /\ EndsReading(e.record)
  IN  /\ ooReader.mode = "follow" /\ ooHub.queue # <<>>
      /\ LET rd == [ooReader EXCEPT
                      !.cursor = Max({@, e.cursor}),
                      !.shown = IF e.kind = "record" THEN Append(@, e.record.seq) ELSE @,
                      !.gap = IF e.kind = "gap" THEN Max({@, e.gap}) ELSE @,
                      !.ahead = @ \cup Announced(e), !.ended = ended]
         IN  ooReader' = IF ended THEN Disconnected(rd, "done") ELSE rd
      /\ ooHub' = [ooHub EXCEPT !.queue = IF ended THEN <<>> ELSE Tail(@),
                                !.open = IF ended THEN FALSE ELSE @,
                                !.flushing = IF ended THEN FALSE ELSE @]
      /\ UNCHANGED <<ooStore, ooHistory, ooHost, ooFaults>>

\* The hub closed the stream and the client has read what was queued.
StreamEnded ==
  /\ ooReader.mode = "follow" /\ ~ooHub.open /\ ooHub.queue = <<>>
  /\ ooReader' = Disconnected(ooReader, "replay")
  /\ UNCHANGED <<ooStore, ooHistory, ooHost, ooHub, ooFaults>>

NoFollower(hub) == [hub EXCEPT !.open = FALSE, !.flushing = FALSE, !.pages = 0, !.queue = <<>>]

\* The connection is cut: what is on its way is lost.
CutConnection ==
  /\ ooReader.mode = "follow" /\ ooFaults < MaxOutputFaults
  /\ ooHub' = NoFollower(ooHub)
  /\ ooReader' = Disconnected(ooReader, "replay")
  /\ ooFaults' = ooFaults + 1
  /\ UNCHANGED <<ooStore, ooHistory, ooHost>>

\* The runtime dies and starts again.
CrashRuntime ==
  /\ ooFaults < MaxOutputFaults
  /\ ooHost' = [ooHost EXCEPT !.phase = IF @ = "done" THEN "done" ELSE "dead",
                              !.stream = IF @ = "open" THEN "failed" ELSE @]
  /\ ooHub' = [NoFollower(ooHub) EXCEPT !.waking = FALSE, !.fresh = TRUE]
  /\ ooReader' = IF ooReader.mode = "follow" THEN Disconnected(ooReader, "replay") ELSE ooReader
  /\ ooFaults' = ooFaults + 1
  /\ UNCHANGED <<ooStore, ooHistory>>

OutputNext ==
  \/ WriteScriptOutput \/ AppendProcessOutput
  \/ ReportProgress \/ StartStream \/ CloseProcessStream \/ CompleteScript \/ CloseAttempt
  \/ \E n \in 1..(Len(ooStore.remote) + 2) : IngestRemoteOutput(n)
  \/ \E run \in OutputRuns :
       SettleOperationalRun(run) \/ PruneRun(run) \/ RecoverInterruptedStream(run)
  \/ NotifyHub \/ FlushPage \/ Heartbeat \/ ReplayPage \/ Connect \/ ReceiveEvent \/ StreamEnded
  \/ CloseStreams \/ CutConnection \/ CrashRuntime

OutputSpec == OutputInit /\ [][OutputNext]_ooVars

-----------------------------------------------------------------------------
(***************************************************************************)
(* The tables agree with each other: what a run's row accounts for is what *)
(* its retained records hold, within the budgets, and one marker per lane  *)
(* that the store itself wrote stands for all it dropped.                  *)
(***************************************************************************)
OutputRowsOK ==
  /\ \A run \in OutputRuns :
       LET own == {x \in ooStore.records : x.run = run}
       IN  /\ (ooStore.runs[run].state = "none") = (own = {})
           /\ Accounted(own) = ooStore.runs[run].bytes
           /\ ooStore.runs[run].bytes <= MaxRunBytes
           /\ own # {} => ooStore.runs[run].last = Max({x.seq : x \in own})
  /\ ooStore.pruned = Max({ooStore.prunedRuns[run] : run \in OutputRuns})
  /\ Accounted(ooStore.records) <= MaxStoreBytes

(***************************************************************************)
(* What a reader is shown is complete up to its cursor                     *)
(* (docs/woml-streaming-output-and-progress.md, "reconnecting from the last*)
(* seen cursor avoids duplicate presentation"), but for the records a gap  *)
(* event passed over.  Through pages, full queues, cut connections,        *)
(* restarts and pruning, records are shown in order and at most once.      *)
(* Every record at or before the cursor was shown, lies in a gap the       *)
(* reader was told of, is on its way on an open stream, or was announced   *)
(* by a gap event whose stream ended before it came (log-follower.ts moves *)
(* the cursor to the event's page end and reports only what was pruned).   *)
(* And a reader that saw the script close its attempt knows as much of the *)
(* newest progress the script reported.                                    *)
(***************************************************************************)
ReadersMissNothing ==
  LET OnItsWay(n) ==
        /\ ooReader.mode = "follow" /\ n \in ooReader.ahead
        /\ ooHub.open => \E i \in 1..Len(ooHub.queue) :
                           ooHub.queue[i].kind = "record" /\ ooHub.queue[i].cursor = n
      Known(n) ==
        \/ n \in ShownTo(ooReader) \/ n <= ooReader.gap
        \/ n \in ooReader.passed \/ OnItsWay(n)
  IN  /\ \A i, j \in 1..Len(ooReader.shown) :
           i < j => ooReader.shown[i] < ooReader.shown[j]
      /\ \A x \in ooHistory :
           InScope(x, ooReader.subject) /\ x.seq <= ooReader.cursor => Known(x.seq)
      /\ \A x \in ooHistory :
           x.kind = "closed" /\ x.value > 0 /\ x.seq \in ShownTo(ooReader) =>
             \E y \in ooHistory : y.kind = "progress" /\ y.value = x.value /\ Known(y.seq)
===============================================================================
