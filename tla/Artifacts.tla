------------------------------- MODULE Artifacts -------------------------------
(***************************************************************************)
(* Durable artifacts: the transfers that publish a file's bytes under      *)
(* their digest and then commit a logical record, the output of a streamed *)
(* process published the same way, reads that copy the bytes for one       *)
(* attempt, review pins, and the maintenance that expires, scrubs and      *)
(* collects while all of that goes on.                                     *)
(*                                                                         *)
(* Bytes and rows are not one transaction: arFiles is the backend's        *)
(* directory, the other tables are the database's.  arWriter is the        *)
(* transfer whose write transaction is open, which keeps every other       *)
(* writing transaction out.                                                *)
(***************************************************************************)
EXTENDS Integers, FiniteSets, FiniteSetsExt

CONSTANTS
  ArtifactOps,        \* operation keys
  OutputOps,          \* those that publish a streamed process's output
  ArtifactPlans,      \* the run of each key, the bytes it may find, the uses made of
                      \* an artifact
  Contents,           \* digests of bytes
  ContentSize,        \* their sizes
  PutInputs,          \* inputs a script may call with
  MaxTransfers,       \* concurrent transfers of the host
  ArtifactRunBytes,   \* quota of a run
  ArtifactStoreBytes, \* quota of the store
  MaxArtifactTime, MaxArtifactFaults   \* bounds

ASSUME ArtifactLimits ==
  /\ OutputOps \subseteq ArtifactOps
  /\ MaxTransfers > 0
  /\ \A c \in Contents : ContentSize[c] > 0
  /\ \A p \in ArtifactPlans : p.contents \subseteq Contents /\ p.uses \subseteq {"read", "review"}

VARIABLES
  arPlan,      \* the plan of this behaviour
  arTask,      \* the blocking task of each key
  arTransfer,  \* woml_artifact_transfers
  arRows,      \* woml_artifacts with its provenance, access and retention rows
  arBlobRows,  \* woml_artifact_blobs
  arFiles,     \* the blob files of the backend
  arStages,    \* the keys whose staging file exists
  arWriter,    \* the key whose write transaction is open
  arRuns,      \* the status of the runs
  arPins,      \* identities pinned by an unresolved review
  arUse,       \* what each run has had authorized and is about to use
  arCopies,    \* materialized files: run and identity
  arSweep,     \* the host's opening of the store and its maintenance
  arNow,       \* time
  arIssued,    \* identities handed out so far
  arAnswers,   \* references answered to callers
  arFaults     \* crashes and disk faults so far

arVars == <<arPlan, arTask, arTransfer, arRows, arBlobRows, arFiles, arStages, arWriter,
            arRuns, arPins, arUse, arCopies, arSweep, arNow, arIssued, arAnswers, arFaults>>

ArtifactRuns == UNION {{p.run[op] : op \in ArtifactOps} : p \in ArtifactPlans}
Owner(op) == arPlan.run[op]
NoWriter == "none"
NoArtifact == 0
NoContent == "none"

NoUse == [by |-> "none", id |-> NoArtifact]

IdleTask == [phase |-> "idle", input |-> 0, content |-> NoContent,
             cancelled |-> FALSE, waited |-> FALSE]

NoTransfer == [status |-> "none", input |-> 0, id |-> NoArtifact]

IdleSweep == [phase |-> "idle", startup |-> FALSE, dry |-> FALSE, now |-> 0,
              todo |-> {}, doomed |-> {}]

Serving == ~arSweep.startup

ArtifactsInit ==
  /\ arPlan \in ArtifactPlans
  /\ arTask = [op \in ArtifactOps |-> IdleTask]
  /\ arTransfer = [op \in ArtifactOps |-> NoTransfer]
  /\ arRows = {} /\ arBlobRows = {} /\ arStages = {}
  /\ arFiles = [c \in Contents |-> "absent"]
  /\ arWriter = NoWriter
  /\ arRuns = [r \in ArtifactRuns |-> "live"]
  /\ arPins = {} /\ arCopies = {}
  /\ arUse = [r \in ArtifactRuns |-> NoUse]
  /\ arSweep = IdleSweep
  /\ arNow = 0 /\ arIssued = 0 /\ arFaults = 0
  /\ arAnswers = {}

\* The tables and files no transfer's step of its own task writes.
OutsideTransfers == <<arPlan, arRuns, arPins, arUse, arCopies, arSweep, arNow, arFaults>>

-----------------------------------------------------------------------------
(* Transfers.                                                              *)

Present == {c \in Contents : arFiles[c] # "absent"}

Verified(c) == arFiles[c] = "good"

Bytes(contents) == MapThenSumSet(LAMBDA c : ContentSize[c], contents)

RunBytes(run) ==
  MapThenSumSet(LAMBDA a : ContentSize[a.content],
                {a \in arRows : a.run = run /\ a.status = "available"})

\* Bytes shared with a stored blob count once for the store, always for the run.
QuotaAllows(run, c) ==
  /\ RunBytes(run) + ContentSize[c] <= ArtifactRunBytes
  /\ c \notin arBlobRows => Bytes(arBlobRows) + ContentSize[c] <= ArtifactStoreBytes

Answer(op, id, c) == arAnswers' = arAnswers \cup {[op |-> op, id |-> id, content |-> c]}

\* What the settlement of a key answers a repeated call with this input whose
\* source holds these bytes.
SettledArtifact(op, input, c) ==
  {a \in arRows : /\ arTransfer[op].status = "succeeded" /\ arTransfer[op].input = input
                  /\ a.id = arTransfer[op].id /\ a.status = "available" /\ a.content = c}

\* A transfer that was begun is never taken up again, whatever became of it.
MayBeginTransfer(op) == arTransfer[op].status = "none"

\* The call of a script: its transfer row, and the task that carries it out.
StartPut(op, input) ==
  /\ Serving /\ op \notin OutputOps /\ arRuns[Owner(op)] = "live"
  /\ arTask[op].phase = "idle" /\ MayBeginTransfer(op)
  /\ Cardinality({o \in ArtifactOps \ OutputOps : arTask[o].phase # "idle"}) < MaxTransfers
  /\ arWriter = NoWriter
  /\ arTransfer' = [arTransfer EXCEPT ![op] = [status |-> "started", input |-> input, id |-> NoArtifact]]
  /\ arTask' = [arTask EXCEPT ![op] = [IdleTask EXCEPT !.phase = "started", !.input = input,
                                                       !.waited = TRUE]]
  /\ UNCHANGED <<arRows, arBlobRows, arFiles, arStages, arWriter, arIssued, arAnswers, OutsideTransfers>>

\* A repeated call reads the source again; without an answer it fails and
\* changes nothing.
RepeatPut(op, input, c) ==
  /\ Serving /\ op \notin OutputOps /\ arRuns[Owner(op)] = "live"
  /\ ~MayBeginTransfer(op) /\ ~arTask[op].waited /\ arWriter = NoWriter
  /\ \E a \in SettledArtifact(op, input, c) : Answer(op, a.id, c)
  /\ UNCHANGED <<arTask, arTransfer, arRows, arBlobRows, arFiles, arStages, arWriter,
                 arIssued, OutsideTransfers>>

\* begin_stage and read_source: the bytes found in the source, whatever
\* earlier attempts wrote there.
StagePut(op, c) ==
  /\ arTask[op].phase = "started" /\ op \notin OutputOps /\ ~arTask[op].cancelled
  /\ arStages' = arStages \cup {op}
  /\ arTask' = [arTask EXCEPT ![op].phase = "staged", ![op].content = c]
  /\ UNCHANGED <<arTransfer, arRows, arBlobRows, arFiles, arWriter, arIssued, arAnswers, OutsideTransfers>>

\* The settlement of a failed transfer (failed, cancelled or interrupted):
\* only a started row is closed.
SettleFailure(op) ==
  arTransfer' = [arTransfer EXCEPT ![op].status = IF @ = "started" THEN "failed" ELSE @]

\* Why a transfer fails: reading the source failed, was refused or saw it
\* change, or the token was cancelled; or, once staged, the quota, a staging
\* file that is gone, or damaged bytes under the digest.
TransferFails(op) ==
  LET c == arTask[op].content IN
  \/ arTask[op].cancelled
  \/ arTask[op].phase = "started"
  \/ /\ arTask[op].phase = "staged"
     /\ ~QuotaAllows(Owner(op), c) \/ op \notin arStages \/ arFiles[c] = "bad"

\* A transfer fails; the output of a process leaves its row started.
FailTransfer(op) ==
  /\ arTask[op].phase \in {"started", "staged"} /\ arWriter = NoWriter
  /\ TransferFails(op)
  /\ IF op \in OutputOps THEN UNCHANGED arTransfer ELSE SettleFailure(op)
  /\ arTask' = [arTask EXCEPT ![op] = IdleTask]
  /\ arStages' = arStages \ {op}
  /\ UNCHANGED <<arRows, arBlobRows, arFiles, arWriter, arIssued, arAnswers, OutsideTransfers>>

\* Inside the open transaction: quotas, then the bytes are linked under
\* their digest, or found there and verified.
PublishBlob(op) ==
  LET c == arTask[op].content IN
  /\ arTask[op].phase = "staged" /\ arWriter = NoWriter /\ ~arTask[op].cancelled
  /\ QuotaAllows(Owner(op), c)
  /\ op \in arStages
  /\ arFiles[c] # "bad"
  /\ arFiles' = [arFiles EXCEPT ![c] = "good"]
  /\ arStages' = arStages \ {op}
  /\ arWriter' = op
  /\ arTask' = [arTask EXCEPT ![op].phase = "published"]
  /\ UNCHANGED <<arTransfer, arRows, arBlobRows, arIssued, arAnswers, OutsideTransfers>>

\* The rows of the artifact and the settlement of its key commit together;
\* a caller that gave up is not there to be answered.
CommitTransfer(op) ==
  LET c == arTask[op].content
      id == arIssued + 1 IN
  /\ arTask[op].phase = "published"
  /\ arBlobRows' = arBlobRows \cup {c}
  /\ arRows' = arRows \cup {[id |-> id, op |-> op, run |-> Owner(op), content |-> c,
                            status |-> "available", expires |-> arNow + 1]}
  /\ arTransfer' = [arTransfer EXCEPT ![op].status = "succeeded", ![op].id = id]
  /\ arIssued' = id
  /\ arWriter' = NoWriter
  /\ arTask' = [arTask EXCEPT ![op] = IdleTask]
  /\ IF arTask[op].waited THEN Answer(op, id, c) ELSE UNCHANGED arAnswers
  /\ UNCHANGED <<arFiles, arStages, OutsideTransfers>>

\* The transfer timeout, or the end of the attempt: the caller is told, the
\* token is cancelled, and the blocking task goes on until it looks at it.
GiveUpPut(op) ==
  /\ arTask[op].waited /\ op \notin OutputOps
  /\ arTask' = [arTask EXCEPT ![op].waited = FALSE, ![op].cancelled = TRUE]
  /\ UNCHANGED <<arTransfer, arRows, arBlobRows, arFiles, arStages, arWriter, arIssued,
                 arAnswers, OutsideTransfers>>

\* A streamed process's writer stages what exceeds the inline budget.
BeginOutput(op) ==
  /\ Serving /\ op \in OutputOps /\ arRuns[Owner(op)] = "live" /\ arTask[op].phase = "idle"
  /\ arStages' = arStages \cup {op}
  /\ arTask' = [arTask EXCEPT ![op].phase = "writing"]
  /\ UNCHANGED <<arTransfer, arRows, arBlobRows, arFiles, arWriter, arIssued, arAnswers,
                 OutsideTransfers>>

\* The stream closes without publishing: nothing was cut off, or the writer
\* met its limit or a known secret.
DropOutput(op) ==
  /\ arTask[op].phase = "writing"
  /\ arTask' = [arTask EXCEPT ![op] = IdleTask]
  /\ arStages' = arStages \ {op}
  /\ UNCHANGED <<arTransfer, arRows, arBlobRows, arFiles, arWriter, arIssued, arAnswers,
                 OutsideTransfers>>

\* The stream closes and publishes: the key is the invocation's, its input
\* the bytes.  A second stream of the invocation is answered by the first's
\* settlement; a quota refusal leaves no row.
FinishOutput(op, c) ==
  /\ arTask[op].phase = "writing" /\ arWriter = NoWriter
  /\ IF MayBeginTransfer(op) /\ QuotaAllows(Owner(op), c)
       THEN /\ arTransfer' = [arTransfer EXCEPT ![op] = [status |-> "started", input |-> c,
                                                         id |-> NoArtifact]]
            /\ arTask' = [arTask EXCEPT ![op].phase = "staged", ![op].content = c,
                                        ![op].waited = TRUE]
            /\ UNCHANGED <<arStages, arAnswers>>
       ELSE /\ arTask' = [arTask EXCEPT ![op] = IdleTask]
            /\ arStages' = arStages \ {op}
            /\ IF SettledArtifact(op, c, c) = {} THEN UNCHANGED arAnswers
                 ELSE \E a \in SettledArtifact(op, c, c) : Answer(op, a.id, c)
            /\ UNCHANGED arTransfer
  /\ UNCHANGED <<arRows, arBlobRows, arFiles, arWriter, arIssued, OutsideTransfers>>

-----------------------------------------------------------------------------
(* Reads, reviews and the ends of runs.                                    *)

Tables == <<arPlan, arTask, arTransfer, arRows, arBlobRows, arFiles, arStages, arWriter,
            arIssued, arAnswers>>

\* Same-run grant, available and not expired.
Authorized(run, id) ==
  \E a \in arRows : /\ a.id = id /\ a.run = run /\ a.status = "available"
                     /\ a.expires > arNow

ContentOf(id) == (CHOOSE a \in arRows : a.id = id).content

\* What a head, a read, a review and policy evidence all ask for first.
ReferenceVerified(run, id) == Authorized(run, id) /\ Verified(ContentOf(id))

\* The bytes are digested again while they are copied.
CopyVerified(id) == \E a \in arRows : a.id = id /\ Verified(a.content)

\* A read copies for its attempt, a review pins: both only after the
\* reference was authorized and its bytes verified ...
AuthorizeUse(run, by, id) ==
  /\ Serving /\ arRuns[run] = "live" /\ arUse[run] = NoUse
  /\ ReferenceVerified(run, id)
  /\ IF by = "read" THEN [run |-> run, id |-> id] \notin arCopies ELSE id \notin arPins
  /\ arUse' = [arUse EXCEPT ![run] = [by |-> by, id |-> id]]
  /\ UNCHANGED <<Tables, arRuns, arPins, arCopies, arSweep, arNow, arFaults>>

\* ... the copy digests what it copies, also when its attempt is over ...
Materialize(run) ==
  LET id == arUse[run].id IN
  /\ arUse[run].by = "read"
  /\ arUse' = [arUse EXCEPT ![run] = NoUse]
  /\ arCopies' = IF CopyVerified(id)
                   THEN arCopies \cup {[run |-> run, id |-> id]} ELSE arCopies
  /\ UNCHANGED <<Tables, arRuns, arPins, arSweep, arNow, arFaults>>

\* ... and the transaction that opens the review of a live run pins it.
PinReview(run) ==
  /\ arUse[run].by = "review" /\ arRuns[run] = "live" /\ arWriter = NoWriter
  /\ arPins' = arPins \cup {arUse[run].id}
  /\ arUse' = [arUse EXCEPT ![run] = NoUse]
  /\ UNCHANGED <<Tables, arRuns, arCopies, arSweep, arNow, arFaults>>

ReleasePin(id) ==
  /\ id \in arPins /\ arWriter = NoWriter
  /\ arPins' = arPins \ {id}
  /\ UNCHANGED <<Tables, arRuns, arUse, arCopies, arSweep, arNow, arFaults>>

\* The attempt ends: its materialized files go, a copy still being made stays.
EndAttempt(run) ==
  /\ \E x \in arCopies : x.run = run
  /\ arCopies' = {x \in arCopies : x.run # run}
  /\ UNCHANGED <<Tables, arRuns, arPins, arUse, arSweep, arNow, arFaults>>

\* The run ends with its last attempt; a transfer nobody waits for may go on.
EndRun(run) ==
  /\ Serving /\ arRuns[run] = "live" /\ arWriter = NoWriter
  /\ \A op \in ArtifactOps : Owner(op) = run => ~arTask[op].waited /\ arTask[op].phase # "writing"
  /\ arRuns' = [arRuns EXCEPT ![run] = "ended"]
  /\ arCopies' = {x \in arCopies : x.run # run}
  /\ arUse' = [arUse EXCEPT ![run] = IF @.by = "read" THEN @ ELSE NoUse]
  /\ UNCHANGED <<Tables, arPins, arSweep, arNow, arFaults>>

-----------------------------------------------------------------------------
(* Opening the store, maintenance, and faults.                             *)

Others == <<arPlan, arTask, arIssued, arAnswers, arWriter, arRuns, arPins, arUse,
            arNow, arFaults>>

\* Every opening, at startup and for each maintenance, planned ones too,
\* empties the materializations and the staging directory, then looks at
\* every blob.
OpenStore(dry) ==
  /\ arSweep.phase = "idle" /\ arWriter = NoWriter
  /\ arSweep.startup => ~dry
  /\ arCopies' = {} /\ arStages' = {}
  /\ arSweep' = [arSweep EXCEPT !.phase = "opening", !.dry = dry, !.now = arNow,
                                !.todo = arPlan.contents]
  /\ UNCHANGED <<arTransfer, arRows, arBlobRows, arFiles, Others>>

\* One blob of the listing: without a row it is to be removed.  The listing
\* and the look at its entry are one step: a blob published in between is
\* looked at here and left alone by the code.
InspectBlob(c) ==
  /\ arSweep.phase \in {"opening", "collecting"} /\ c \in arSweep.todo /\ arSweep.doomed = {}
  /\ arSweep' = [arSweep EXCEPT !.todo = @ \ {c},
                                !.doomed = {c} \cap (Present \ arBlobRows)]
  /\ UNCHANGED <<arTransfer, arRows, arBlobRows, arFiles, arStages, arCopies, Others>>

\* The removal follows the look, and the deletion follows the commit.
DeleteBlob(c) ==
  /\ c \in arSweep.doomed
  /\ arFiles' = [arFiles EXCEPT ![c] = "absent"]
  /\ arSweep' = [arSweep EXCEPT !.doomed = @ \ {c}]
  /\ UNCHANGED <<arTransfer, arRows, arBlobRows, arStages, arCopies, Others>>

\* A plausible fault: the runs that may still use an artifact are forgotten.
ExpiredUnpinned(now) == {a \in arRows : a.expires <= now /\ a.id \notin arPins}

RetentionCandidates(now) ==
  {a \in arRows : a.expires <= now /\ a.id \notin arPins /\ arRuns[a.run] = "ended"}

\* The plan; a dry run ends with it.
PlanRetention ==
  /\ arSweep.phase = "planning"
  /\ arSweep' = CASE arSweep.dry -> IdleSweep
                   [] ~arSweep.dry /\ RetentionCandidates(arSweep.now) # {} ->
                        [arSweep EXCEPT !.phase = "pruning"]
                   [] OTHER -> [arSweep EXCEPT !.phase = "scrubbing", !.todo = arBlobRows]
  /\ UNCHANGED <<arTransfer, arRows, arBlobRows, arFiles, arStages, arCopies, Others>>

\* The transaction reads the candidates again and deletes their rows, the
\* settlements of their keys, and the blob rows nothing refers to any more.
DeleteExpired ==
  LET gone == RetentionCandidates(arSweep.now)
      kept == arRows \ gone
      loose == {a.content : a \in gone} \ {a.content : a \in kept} IN
  /\ arSweep.phase = "pruning" /\ arWriter = NoWriter
  /\ arRows' = kept
  /\ arTransfer' = [op \in ArtifactOps |->
                      IF arTransfer[op].id \in {a.id : a \in gone} THEN NoTransfer
                      ELSE arTransfer[op]]
  /\ arBlobRows' = arBlobRows \ loose
  /\ arSweep' = [arSweep EXCEPT !.phase = "deleting", !.doomed = loose]
  /\ UNCHANGED <<arFiles, arStages, arCopies, Others>>

\* A blob that fails verification marks its artifacts corrupt.  The bytes are
\* read and the rows updated in one step.
ScrubBlob(c) ==
  /\ arSweep.phase = "scrubbing" /\ c \in arSweep.todo /\ arWriter = NoWriter
  /\ arRows' = {IF a.content = c /\ ~Verified(c) THEN [a EXCEPT !.status = "corrupt"] ELSE a :
                  a \in arRows}
  /\ arSweep' = [arSweep EXCEPT !.todo = @ \ {c}]
  /\ UNCHANGED <<arTransfer, arBlobRows, arFiles, arStages, arCopies, Others>>

\* The next part, once one is through.
AdvanceSweep ==
  /\ arSweep.todo = {} /\ arSweep.doomed = {}
  /\ arSweep' =
       CASE arSweep.phase = "opening" /\ arSweep.startup -> IdleSweep
         [] arSweep.phase = "opening" /\ ~arSweep.startup ->
              [arSweep EXCEPT !.phase = "planning"]
         [] arSweep.phase = "deleting" ->
              [arSweep EXCEPT !.phase = "scrubbing", !.todo = arBlobRows]
         [] arSweep.phase = "scrubbing" ->
              [arSweep EXCEPT !.phase = "collecting", !.todo = arPlan.contents]
         [] arSweep.phase = "collecting" -> IdleSweep
         [] OTHER -> arSweep
  /\ UNCHANGED <<arTransfer, arRows, arBlobRows, arFiles, arStages, arCopies, Others>>

\* A crash of the host rolls the open transaction back and keeps the files.
CrashArtifactHost ==
  /\ arFaults < MaxArtifactFaults /\ Serving
  /\ arFaults' = arFaults + 1
  /\ arTask' = [op \in ArtifactOps |-> IdleTask]
  /\ arWriter' = NoWriter
  /\ arUse' = [r \in ArtifactRuns |-> NoUse]
  /\ arSweep' = [IdleSweep EXCEPT !.startup = TRUE]
  /\ UNCHANGED <<arPlan, arTransfer, arRows, arBlobRows, arFiles, arStages, arRuns, arPins,
                 arCopies, arNow, arIssued, arAnswers>>

\* The disk damages a blob.
DamageBlob(c) ==
  /\ arFaults < MaxArtifactFaults /\ arFiles[c] = "good"
  /\ arFaults' = arFaults + 1
  /\ arFiles' = [arFiles EXCEPT ![c] = "bad"]
  /\ UNCHANGED <<arPlan, arTask, arTransfer, arRows, arBlobRows, arStages, arWriter, arRuns, arPins,
                 arUse, arCopies, arSweep, arNow, arIssued, arAnswers>>

PassArtifactTime ==
  /\ arNow < MaxArtifactTime
  /\ arNow' = arNow + 1
  /\ UNCHANGED <<Tables, arRuns, arPins, arUse, arCopies, arSweep, arFaults>>

Identities == {a.id : a \in arRows}

ArtifactsNext ==
  \/ \E op \in ArtifactOps, i \in PutInputs : StartPut(op, i)
  \/ \E op \in ArtifactOps, i \in PutInputs, c \in arPlan.contents : RepeatPut(op, i, c)
  \/ \E op \in ArtifactOps, c \in arPlan.contents : StagePut(op, c) \/ FinishOutput(op, c)
  \/ \E op \in ArtifactOps : \/ PublishBlob(op) \/ CommitTransfer(op) \/ FailTransfer(op)
                              \/ GiveUpPut(op)
                              \/ BeginOutput(op) \/ DropOutput(op)
  \/ \E r \in ArtifactRuns, by \in arPlan.uses, id \in Identities :
       AuthorizeUse(r, by, id)
  \/ \E r \in ArtifactRuns : Materialize(r) \/ PinReview(r) \/ EndAttempt(r) \/ EndRun(r)
  \/ \E id \in arPins : ReleasePin(id)
  \/ \E dry \in BOOLEAN : OpenStore(dry)
  \/ \E c \in Contents : InspectBlob(c) \/ DeleteBlob(c) \/ ScrubBlob(c) \/ DamageBlob(c)
  \/ PlanRetention \/ DeleteExpired \/ AdvanceSweep \/ CrashArtifactHost \/ PassArtifactTime

ArtifactsSpec == ArtifactsInit /\ [][ArtifactsNext]_arVars

-----------------------------------------------------------------------------
(***************************************************************************)
(* Types: the rows, the directory and the parts of a maintenance.          *)
(***************************************************************************)
ArtifactRowsOK ==
  /\ \A op \in ArtifactOps :
       arTask[op].phase \in {"idle", "started", "writing", "staged", "published"}
  /\ \A a \in arRows : a.status \in {"available", "corrupt"} /\ a.content \in arBlobRows
  /\ arFiles \in [Contents -> {"absent", "good", "bad"}]
  /\ arWriter = NoWriter \/ arTask[arWriter].phase = "published"

(***************************************************************************)
(* A reference answered to a put names the bytes that call offered, every  *)
(* answer for one operation key is the same reference, and as long as its  *)
(* run goes on or a review pins it the record stands: across timeouts with *)
(* the transfer still running, repeated attempts, crashes and maintenance. *)
(* (transfer.rs put and maintenance.rs artifact_retention_candidates.)     *)
(***************************************************************************)
ReferencesStand ==
  /\ \A a, b \in arAnswers : a.op = b.op => a = b
  /\ \A a \in arAnswers :
       arRuns[Owner(a.op)] = "live" \/ a.id \in arPins =>
         \E x \in arRows : x.id = a.id /\ x.content = a.content

(***************************************************************************)
(* Physical bytes are deleted only when no record refers to them: every    *)
(* available artifact has a blob.  (local.rs cleanup_startup and           *)
(* maintenance.rs; violated: looking and removing are two steps.)          *)
(***************************************************************************)
BytesRemain ==
  \A a \in arRows : a.status = "available" => arFiles[a.content] # "absent"

(***************************************************************************)
(* A path handed to a script stays until its attempt ends or the host      *)
(* crashes.  (store.rs open_with_startup_cleanup; violated by every        *)
(* maintenance, planned ones too.)                                         *)
(***************************************************************************)
CopiesLastTheAttempt ==
  [][arSweep.phase = "idle" /\ arSweep'.phase = "opening" /\ ~arSweep.startup
       => arCopies' = arCopies]_arVars
===============================================================================
