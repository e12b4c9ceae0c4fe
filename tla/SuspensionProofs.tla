-------------------------- MODULE SuspensionProofs --------------------------
(***************************************************************************)
(* Proofs about the components that suspend a run, for any reviewers,      *)
(* directories, waits, signals, clocks and limits.                         *)
(***************************************************************************)
EXTENDS RichApprovals, DurableWaits, FiniteSetTheorems, WellFoundedInduction,
        TLAPS

-----------------------------------------------------------------------------
(* RichApprovals: an approved review has the quorum of its directory. *)

(* A vote carries the roles of its voter in the pinned version, and the    *)
(* voter was eligible; nobody votes before the review exists.              *)
VotesPinned ==
  \A p \in Reviewers : votes[p].decision # "none" =>
    /\ rvRow.status # "absent"
    /\ votes[p].roles = RolesIn[rvRow.version][p]
    /\ Eligible(votes[p].roles)

(* A rejection settles the review at once. *)
NoRejectionStands ==
  rvRow.status \in {"pending", "approved"}
    => \A p \in Reviewers : votes[p].decision # "rejected"

(* A pending review holds its run back: only the run timeout ends the run  *)
(* and leaves the review behind.                                           *)
PendingParksRun ==
  rvRow.status = "pending" => rvRun.status \in {"Waiting", "Cancelling", "Failed"}

(* The row, the request and the pins agree. *)
RowsAgree ==
  /\ rvRow.status = rvRequest
  /\ rvPinned <=> rvRow.status = "pending"

ReviewTypes ==
  /\ rvRun \in RunProjections
  /\ rvRow \in [status : ReviewStatuses, version : DirectoryVersions]
  /\ votes \in [Reviewers -> [decision : {"none", "approved", "rejected"},
                              roles : SUBSET ReviewRoles]]
  /\ active \in DirectoryVersions
  /\ rvPinned \in BOOLEAN

ReviewInv ==
  /\ ReviewTypes
  /\ RowsAgree
  /\ VotesPinned
  /\ NoRejectionStands
  /\ rvRow.status = "approved" => Quorum(votes)
  /\ PendingParksRun

(* The events of the run control that a review meets. *)
LEMMA ReviewFolds ==
  ASSUME NEW p \in RunProjections
  PROVE  /\ RunCancellationRequested(p) \in RunProjections
         /\ RunCancellationRequested(p).status = "Cancelling"
         /\ \A s \in RunStatuses : /\ [p EXCEPT !.status = s] \in RunProjections
                                   /\ [p EXCEPT !.status = s].status = s
         /\ RunTimeoutReached(p) \in RunProjections
         /\ \A o \in BusinessOutcomes :
              /\ RunFinalized(RunOutcomeDecided(p, o)) \in RunProjections
              /\ RunFinalized(RunOutcomeDecided(p, o)).status = o
BY DEF RunProjections, RunStatuses, BusinessOutcomes, RunCancellationRequested,
       RunTimeoutReached, RunFinalized, RunOutcomeDecided

(* A vote is recorded with the pinned roles; it settles the review exactly *)
(* when it rejects or completes the quorum.                                *)
LEMMA RecordStep ==
  ASSUME ReviewInv, NEW p \in Reviewers, NEW decision \in {"approved", "rejected"},
         RecordDecision(p, decision)
  PROVE  ReviewInv'
<1> USE DEF ReviewInv
<1> DEFINE roles == RolesIn[rvRow.version][p]
           vote == [decision |-> decision, roles |-> roles]
           vs == [votes EXCEPT ![p] = vote]
<1>1. /\ rvRow.status = "pending" /\ rvRun.status = "Waiting"
      /\ rvRow.version \in snapshots /\ Eligible(roles)
      /\ votes' = vs /\ UNCHANGED active
  BY DEF RecordDecision, ResolveReviewer
<1>2. roles \in SUBSET ReviewRoles
  BY ReviewAssumption DEF ReviewTypes
<1>3. vs \in [Reviewers -> [decision : {"none", "approved", "rejected"},
                            roles : SUBSET ReviewRoles]]
  BY <1>2 DEF ReviewTypes
<1>4. \A q \in Reviewers : vs[q] = IF q = p THEN vote ELSE votes[q]
  BY DEF ReviewTypes
<1>5. /\ [rvRun EXCEPT !.status = "Running"] \in RunProjections
      /\ [rvRun EXCEPT !.status = "Running"].status = "Running"
  BY ReviewFolds DEF ReviewTypes, RunStatuses
<1>6. VotesPinned' \/ rvRow'.version # rvRow.version \/ rvRow'.status = "absent"
  <2> HIDE DEF vs
  <2> QED BY <1>1, <1>4 DEF VotesPinned
<1>7. CASE /\ decision = "rejected" /\ SettleReview("rejected")
           /\ rvRun' = [rvRun EXCEPT !.status = "Running"]
  <2>1. /\ rvRow' = [rvRow EXCEPT !.status = "rejected"]
        /\ rvRow'.status = "rejected" /\ rvRow'.version = rvRow.version
        /\ rvRequest' = "rejected" /\ rvPinned' = FALSE
    BY <1>7 DEF SettleReview, ReviewTypes
  <2>2. ReviewTypes'
    BY <2>1, <1>1, <1>3, <1>5, <1>7 DEF ReviewTypes, ReviewStatuses
  <2>3. RowsAgree' /\ NoRejectionStands' /\ PendingParksRun' /\ VotesPinned'
    BY <2>1, <1>6 DEF RowsAgree, NoRejectionStands, PendingParksRun
  <2> QED BY <2>1, <2>2, <2>3
<1>8. CASE /\ decision = "approved" /\ Quorum(vs) /\ SettleReview("approved")
           /\ rvRun' = [rvRun EXCEPT !.status = "Running"]
  <2>1. /\ rvRow' = [rvRow EXCEPT !.status = "approved"]
        /\ rvRow'.status = "approved" /\ rvRow'.version = rvRow.version
        /\ rvRequest' = "approved" /\ rvPinned' = FALSE
    BY <1>8 DEF SettleReview, ReviewTypes
  <2>2. ReviewTypes'
    BY <2>1, <1>1, <1>3, <1>5, <1>8 DEF ReviewTypes, ReviewStatuses
  <2>3. NoRejectionStands'
    BY <1>1, <1>4, <1>8 DEF NoRejectionStands
  <2>4. RowsAgree' /\ PendingParksRun' /\ VotesPinned'
    BY <2>1, <1>6 DEF RowsAgree, PendingParksRun
  <2>5. Quorum(votes')
    BY <1>1, <1>8
  <2> QED BY <2>2, <2>3, <2>4, <2>5 DEF Quorum, Approvals, Represented
<1>9. CASE /\ decision = "approved"
           /\ UNCHANGED <<rvRow, rvRequest, rvPinned, rvRun>>
  <2>1. ReviewTypes'
    BY <1>1, <1>3, <1>9 DEF ReviewTypes
  <2>2. NoRejectionStands'
    BY <1>1, <1>4, <1>9 DEF NoRejectionStands
  <2>3. RowsAgree' /\ PendingParksRun' /\ VotesPinned'
    BY <1>1, <1>6, <1>9 DEF RowsAgree, PendingParksRun
  <2> QED BY <2>1, <2>2, <2>3, <1>1, <1>9
<1> QED BY <1>7, <1>8, <1>9 DEF RecordDecision, ResolveReviewer

(* A step that records no vote and neither creates nor approves a review. *)
LEMMA NoVoteStep ==
  ASSUME ReviewInv, UNCHANGED votes, rvRun' \in RunProjections,
         active' \in DirectoryVersions,
         \/ /\ UNCHANGED <<rvRow, rvRequest, rvPinned>>
            /\ rvRow.status = "pending"
                 => rvRun'.status \in {"Waiting", "Cancelling", "Failed"}
         \/ \E s \in {"expired", "cancelled"} :
              SettleReview(s) /\ rvRow.status = "pending"
  PROVE  ReviewInv'
<1>1. CASE /\ UNCHANGED <<rvRow, rvRequest, rvPinned>>
           /\ rvRow.status = "pending"
                => rvRun'.status \in {"Waiting", "Cancelling", "Failed"}
  BY <1>1 DEF ReviewInv, ReviewTypes, RowsAgree, VotesPinned,
              NoRejectionStands, PendingParksRun, Quorum, Approvals, Represented
<1>2. ASSUME NEW s \in {"expired", "cancelled"}, SettleReview(s),
             rvRow.status = "pending"
      PROVE  ReviewInv'
  <2>1. /\ rvRow' \in [status : ReviewStatuses, version : DirectoryVersions]
        /\ rvRow'.status = s /\ rvRow'.version = rvRow.version
        /\ rvRequest' = s /\ rvPinned' = FALSE
    BY <1>2 DEF SettleReview, ReviewInv, ReviewTypes, ReviewStatuses
  <2> QED BY <2>1, <1>2 DEF ReviewInv, ReviewTypes, RowsAgree, VotesPinned,
             NoRejectionStands, PendingParksRun
<1> QED BY <1>1, <1>2

(* The review is created with the active version and without votes. *)
LEMMA CreateStep ==
  ASSUME ReviewInv, CreateRichApproval
  PROVE  ReviewInv'
<1>1. /\ rvRow' = [status |-> "pending", version |-> active]
      /\ rvRequest' = "pending" /\ rvPinned' = TRUE
      /\ rvRun' = [rvRun EXCEPT !.status = "Waiting"]
      /\ UNCHANGED <<votes, active>> /\ rvRow.status = "absent"
  BY DEF CreateRichApproval
<1>2. /\ rvRun' \in RunProjections /\ rvRun'.status = "Waiting"
  BY <1>1, ReviewFolds DEF ReviewInv, ReviewTypes, RunStatuses
<1>3. ReviewTypes'
  BY <1>1, <1>2 DEF ReviewInv, ReviewTypes, ReviewStatuses
<1>4. \A p \in Reviewers : votes[p].decision = "none"
  BY <1>1 DEF ReviewInv, VotesPinned
<1> QED BY <1>1, <1>2, <1>3, <1>4 DEF ReviewInv, RowsAgree, VotesPinned,
           NoRejectionStands, PendingParksRun

(* Every step preserves the invariant. *)
LEMMA ReviewStep ==
  ASSUME ReviewInv, [RichApprovalsNext]_rvVars
  PROVE  ReviewInv'
<1>0. /\ rvRun \in RunProjections /\ active \in DirectoryVersions
      /\ rvRow.status = "pending"
           => rvRun.status \in {"Waiting", "Cancelling", "Failed"}
  BY DEF ReviewInv, ReviewTypes, PendingParksRun
<1>1. CASE UNCHANGED rvVars
  BY <1>0, <1>1, NoVoteStep DEF rvVars
<1>2. CASE CreateRichApproval
  BY <1>2, CreateStep
<1>3. CASE ExpireReview
  <2>1. [rvRun EXCEPT !.status = "Running"] \in RunProjections
    BY <1>0, ReviewFolds DEF RunStatuses
  <2>2. rvRun' \in RunProjections
    BY <2>1, <1>3, ReviewFolds DEF ExpireReview, BusinessOutcomes
  <2> QED BY <2>2, <1>0, <1>3, NoVoteStep DEF ExpireReview
<1>4. CASE RequestReviewCancellation
  <2>1. rvRun' \in RunProjections /\ rvRun'.status = "Cancelling"
    BY <1>0, <1>4, ReviewFolds DEF RequestReviewCancellation
  <2> QED BY <2>1, <1>0, <1>4, NoVoteStep DEF RequestReviewCancellation
<1>5. CASE SettleReviewCancellation
  <2>1. rvRun' \in RunProjections
    BY <1>0, <1>5, ReviewFolds DEF SettleReviewCancellation, BusinessOutcomes
  <2> QED BY <2>1, <1>0, <1>5, NoVoteStep DEF SettleReviewCancellation,
             CancelledReview
<1>6. CASE ReviewRunTimeout
  <2>1. rvRun' \in RunProjections /\ rvRun'.status = "Failed"
    BY <1>0, <1>6, ReviewFolds DEF ReviewRunTimeout, BusinessOutcomes
  <2> QED BY <2>1, <1>0, <1>6, NoVoteStep DEF ReviewRunTimeout
<1>7. CASE ContinueAfterReview
  <2>1. rvRun' \in RunProjections /\ rvRow.status # "pending"
    BY <1>0, <1>7, ReviewFolds DEF ContinueAfterReview, BusinessOutcomes
  <2> QED BY <2>1, <1>0, <1>7, NoVoteStep DEF ContinueAfterReview
<1>8. CASE ReviewTick
  BY <1>0, <1>8, NoVoteStep DEF ReviewTick
<1>9. CASE \E v \in DirectoryVersions : ReloadDirectory(v) \/ RestartDirectory(v)
  BY <1>0, <1>9, NoVoteStep DEF ReloadDirectory, RestartDirectory
<1>10. CASE \E p \in Reviewers, decision \in {"approved", "rejected"} :
              RecordDecision(p, decision)
  BY <1>10, RecordStep
<1> QED BY <1>1, <1>2, <1>3, <1>4, <1>5, <1>6, <1>7, <1>8, <1>9, <1>10
           DEF RichApprovalsNext

(* However the directory is reloaded, restarted or evicted, and however    *)
(* votes, expiry, cancellation and the run timeout interleave: the row,    *)
(* the request and the pins of a review agree, it is approved only by      *)
(* enough eligible reviewers with the roles of the pinned version and      *)
(* without a rejection, and it is settled before a cancelled or successful *)
(* run ends (record_rich_approval_identity_decision).                      *)
THEOREM ReviewSoundness == RichApprovalsSpec => []ReviewConsistent
<1>1. RichApprovalsInit => ReviewInv
  <2> SUFFICES ASSUME RichApprovalsInit PROVE ReviewInv
    OBVIOUS
  <2>1. rvRun \in RunProjections /\ rvRun.status = "Running"
    BY DEF RichApprovalsInit, EmptyProjection, RunProjections, RunStatuses
  <2>2. votes \in [Reviewers -> [decision : {"none", "approved", "rejected"},
                                 roles : SUBSET ReviewRoles]]
    BY DEF RichApprovalsInit, NoVote
  <2>3. \A p \in Reviewers : votes[p].decision = "none"
    BY DEF RichApprovalsInit, NoVote
  <2>4. /\ rvRow \in [status : ReviewStatuses, version : DirectoryVersions]
        /\ rvRow.status = "absent" /\ active \in DirectoryVersions
        /\ rvRequest = "absent" /\ rvPinned = FALSE
    BY DEF RichApprovalsInit, ReviewStatuses
  <2> QED BY <2>1, <2>2, <2>3, <2>4 DEF ReviewInv, ReviewTypes, RowsAgree,
             VotesPinned, NoRejectionStands, PendingParksRun
<1>2. ReviewInv /\ [RichApprovalsNext]_rvVars => ReviewInv'
  BY ReviewStep
<1>3. ReviewInv => ReviewConsistent
  <2> SUFFICES ASSUME ReviewInv PROVE ReviewConsistent
    OBVIOUS
  <2>1. ReviewSettlesOnce
    BY DEF ReviewInv, RowsAgree, PendingParksRun, ReviewSettlesOnce
  <2>2. QuorumSound
    <3> SUFFICES ASSUME rvRow.status = "approved" PROVE QuorumSound
      BY DEF QuorumSound
    <3>1. \A p \in Approvals(votes) :
            /\ p \in Reviewers /\ Eligible(votes[p].roles)
            /\ votes[p].roles = RolesIn[rvRow.version][p]
      BY DEF ReviewInv, VotesPinned, Approvals
    <3>2. Represented(votes)
            = UNION {RolesIn[rvRow.version][p] : p \in Approvals(votes)}
      BY <3>1 DEF Represented
    <3>3. /\ Cardinality(Approvals(votes)) >= RequiredApprovals
          /\ RequiredRoles \subseteq Represented(votes)
          /\ \A p \in Reviewers : votes[p].decision # "rejected"
      BY DEF ReviewInv, Quorum, NoRejectionStands
    <3> QED BY <3>1, <3>2, <3>3 DEF QuorumSound
  <2> QED BY <2>1, <2>2 DEF ReviewConsistent
<1> QED BY <1>1, <1>2, <1>3, PTL DEF RichApprovalsSpec

-----------------------------------------------------------------------------
(* DurableWaits: every receipt of a signal is accounted for. *)

(* A decided run carries its outcome. *)
WaitRunRows ==
  {run \in [projection : RunProjections,
            hook : {"none", "requested", "completed"}, next : Nat \ {0}] :
     run.projection.status = "Finalizing"
       => run.projection.outcome \in BusinessOutcomes}

WaitRowSet ==
  [state : WaitStates, deadline : Nat \cup {NoDeadline},
   by : SignalKeys \cup {"timer", NoKey}]

Receipts ==
  [present : {TRUE}, request : SignalRequests, received : Nat, consumed : BOOLEAN]

WaitTypes ==
  /\ waitRuns \in [WaitRuns -> WaitRunRows]
  /\ waitRows \in [WaitRuns -> [WaitIds -> WaitRowSet]]
  /\ waitSignals \in [SignalKeys -> {NoSignal} \cup Receipts]
  /\ waitDrivers \in [WaitRuns -> [pc : {"idle", "registering", "settling"},
                                   at : Nat]]
  /\ waitScans \in [WaitSchedulers -> [batch : Seq(WaitRuns \X WaitIds), at : Nat]]
  /\ waitClock \in Nat

(* A driver that registers or settles a wait is at one. *)
DriversAtWait ==
  \A r \in WaitRuns : waitDrivers[r].pc # "idle" => AtWait(r)

ReceiptFor(k, r, w) ==
  /\ waitSignals[k].present
  /\ waitSignals[k].request.run = r
  /\ waitSignals[k].request.wait = w

(* SignalAppliedOnce and NoSignalIgnored, receipt by receipt; an open wait *)
(* was resolved by nobody and only signal waits have receipts.             *)
ReceiptsApplied ==
  \A r \in WaitRuns, w \in WaitIds, k \in SignalKeys :
    ReceiptFor(k, r, w) /\ waitSignals[k].consumed <=> waitRows[r][w].by = k

ReceiptsSeen ==
  \A r \in WaitRuns, w \in WaitIds, k \in SignalKeys :
    waitRows[r][w].state = "registered" /\ ReceiptFor(k, r, w)
      => waitSignals[k].consumed

OpenUnresolved ==
  \A r \in WaitRuns, w \in WaitIds :
    waitRows[r][w].state \in {"absent", "registered"} => waitRows[r][w].by = NoKey

ReceiptsOfSignals ==
  \A k \in SignalKeys : waitSignals[k].present
    => WaitKind[waitSignals[k].request.wait] = "signal"

Accounts ==
  /\ OpenUnresolved
  /\ ReceiptsOfSignals
  /\ ReceiptsApplied
  /\ ReceiptsSeen
  /\ EarlyReceiptsBounded

WaitInv ==
  /\ WaitTypes
  /\ DriversAtWait
  /\ Accounts

(* A nonempty set of naturals has a least element. *)
LEMMA LeastNatural ==
  ASSUME NEW S \in SUBSET Nat, S # {}
  PROVE  \E n \in S : \A m \in S : n <= m
<1>1. \E n \in S : \A m \in S : ~(<<m, n>> \in OpToRel(<, Nat))
  BY WFMin, NatLessThanWellFounded, Zenon
<1>2. PICK n \in S : \A m \in S : ~(<<m, n>> \in OpToRel(<, Nat))
  BY <1>1
<1>3. ASSUME NEW m \in S PROVE n <= m
  <2>1. ~(<<m, n>> \in {ss \in Nat \X Nat : ss[1] < ss[2]})
    BY <1>2 DEF OpToRel
  <2>2. m \in Nat /\ n \in Nat
    OBVIOUS
  <2> QED BY <2>1, <2>2
<1> QED BY <1>3

(* A registration that finds no earliest receipt finds no receipt: ordered *)
(* by their instant and then by their identity, some receipt comes first.  *)
LEMMA EarliestExists ==
  ASSUME WaitTypes, NEW r \in WaitRuns, NEW w \in WaitIds, EarlyFor(r, w) # {}
  PROVE  EarliestSignal(r, w) # {}
<1> DEFINE E == EarlyFor(r, w)
           T == {waitSignals[k].received : k \in E}
<1>1. \A k \in E : k \in SignalKeys /\ waitSignals[k].received \in Nat
                   /\ SignalRank[k] \in Nat
  <2> SUFFICES ASSUME NEW k \in E
               PROVE  k \in SignalKeys /\ waitSignals[k].received \in Nat
                      /\ SignalRank[k] \in Nat
    OBVIOUS
  <2>1. k \in SignalKeys /\ waitSignals[k].present
    BY DEF EarlyFor, PendingSignals
  <2>2. waitSignals[k] \in {NoSignal} \cup Receipts
    BY <2>1 DEF WaitTypes
  <2>3. waitSignals[k] \in Receipts
    BY <2>1, <2>2 DEF NoSignal
  <2> QED BY <2>1, <2>3, WaitAssumption DEF Receipts
<1>2. PICK t \in T : \A u \in T : t <= u
  <2>1. T \in SUBSET Nat /\ T # {}
    BY <1>1
  <2> HIDE DEF T
  <2> QED BY <2>1, LeastNatural
<1> DEFINE F == {k \in E : waitSignals[k].received = t}
           R == {SignalRank[k] : k \in F}
<1>3. PICK n \in R : \A m \in R : n <= m
  <2>1. R \in SUBSET Nat /\ R # {}
    BY <1>1, <1>2
  <2> HIDE DEF R
  <2> QED BY <2>1, LeastNatural
<1>4. PICK k \in F : SignalRank[k] = n
  BY <1>3
<1>5. ASSUME NEW l \in E PROVE EarlierSignal(k, l)
  <2>1. t <= waitSignals[l].received /\ t \in Nat
    BY <1>1, <1>2
  <2>2. waitSignals[l].received = t => SignalRank[k] <= SignalRank[l]
    BY <1>3, <1>4
  <2> QED BY <2>1, <2>2, <1>1, <1>4 DEF EarlierSignal
<1> QED BY <1>4, <1>5 DEF EarliestSignal

(* The wait a driver works on is one of its run. *)
LEMMA CurrentIsWait ==
  ASSUME WaitTypes, NEW r \in WaitRuns, AtWait(r)
  PROVE  CurrentWait(r) \in WaitIds
<1>1. waitRuns[r].next \in Nat \ {0}
  BY DEF WaitTypes, WaitRunRows
<1>2. waitRuns[r].next \in DOMAIN WaitOrder
  BY <1>1, WaitAssumption DEF AtWait
<1> QED BY <1>2 DEF CurrentWait, WaitIds

-----------------------------------------------------------------------------
(* What the steps do to rows and receipts. *)

(* Holders of receipts: a run that gets none holds no more. *)
LEMMA HoldsNoMore ==
  ASSUME EarlyReceiptsBounded, NEW r \in WaitRuns,
         \A k \in SignalKeys :
           waitSignals'[k].present /\ ~waitSignals'[k].consumed
             /\ waitSignals'[k].request.run = r
           => waitSignals[k].present /\ ~waitSignals[k].consumed
              /\ waitSignals[k].request.run = r
  PROVE  Cardinality(PendingSignals(r)') <= EarlyLimit
<1>1. PendingSignals(r)' \subseteq PendingSignals(r)
  BY DEF PendingSignals
<1>2. IsFiniteSet(PendingSignals(r))
  <2>1. PendingSignals(r) \subseteq SignalKeys
    BY DEF PendingSignals
  <2> QED BY <2>1, WaitAssumption, FS_Subset
<1>3. /\ IsFiniteSet(PendingSignals(r)')
      /\ Cardinality(PendingSignals(r)') <= Cardinality(PendingSignals(r))
  BY <1>1, <1>2, FS_Subset
<1>4. /\ Cardinality(PendingSignals(r)) \in Nat
      /\ Cardinality(PendingSignals(r)') \in Nat
  BY <1>2, <1>3, FS_CardinalityType
<1>5. Cardinality(PendingSignals(r)) <= EarlyLimit
  BY DEF EarlyReceiptsBounded
<1> QED BY <1>3, <1>4, <1>5, WaitAssumption

(* No row and no receipt changes. *)
LEMMA RowsUntouched ==
  ASSUME Accounts, UNCHANGED <<waitRows, waitSignals>>
  PROVE  Accounts'
BY DEF Accounts, OpenUnresolved, ReceiptsOfSignals, ReceiptsApplied,
       ReceiptsSeen, ReceiptFor, EarlyReceiptsBounded, PendingSignals

(* Open waits are registered without receipts, or close without one. *)
LEMMA RowsClose ==
  ASSUME WaitTypes, Accounts, UNCHANGED waitSignals,
         \A r \in WaitRuns, w \in WaitIds :
           \/ waitRows'[r][w] = waitRows[r][w]
           \/ /\ waitRows[r][w].state \in {"absent", "registered"}
              /\ waitRows'[r][w].by \in {NoKey, "timer"}
              /\ waitRows'[r][w].state \in {"absent", "registered"}
                   => waitRows'[r][w].by = NoKey
              /\ waitRows'[r][w].state = "registered" => EarlyFor(r, w) = {}
  PROVE  Accounts'
<1> USE DEF Accounts
<1>0. \A k \in SignalKeys : k \notin {NoKey, "timer"}
  BY WaitAssumption DEF NoKey
<1>1. OpenUnresolved'
  BY DEF OpenUnresolved
<1>2. ReceiptsOfSignals'
  BY DEF ReceiptsOfSignals
<1>3. ReceiptsApplied'
  BY <1>0 DEF ReceiptsApplied, OpenUnresolved, ReceiptFor
<1>4. ReceiptsSeen'
  <2> SUFFICES ASSUME NEW r \in WaitRuns, NEW w \in WaitIds, NEW k \in SignalKeys,
                      waitRows'[r][w].state = "registered",
                      ReceiptFor(k, r, w)'
               PROVE  waitSignals[k].consumed
    BY DEF ReceiptsSeen
  <2>1. ReceiptFor(k, r, w)
    BY DEF ReceiptFor
  <2>2. CASE waitRows'[r][w] = waitRows[r][w]
    BY <2>1, <2>2 DEF ReceiptsSeen
  <2>3. CASE EarlyFor(r, w) = {}
    BY <2>1, <2>3 DEF EarlyFor, PendingSignals, ReceiptFor
  <2> QED BY <2>2, <2>3
<1>5. EarlyReceiptsBounded'
  BY DEF EarlyReceiptsBounded, PendingSignals
<1> QED BY <1>1, <1>2, <1>3, <1>4, <1>5

(* A receipt resolves an open wait and is consumed with it. *)
LEMMA ReceiptResolves ==
  ASSUME WaitTypes, Accounts, NEW k \in SignalKeys,
         NEW r \in WaitRuns, NEW w \in WaitIds,
         NEW x \in Receipts, NEW y \in WaitRowSet,
         waitRows[r][w].state \in {"absent", "registered"},
         waitSignals' = [waitSignals EXCEPT ![k] = x],
         waitRows' = [waitRows EXCEPT ![r][w] = y],
         x.present, x.consumed, x.request.run = r, x.request.wait = w,
         WaitKind[w] = "signal", y.state = "satisfied", y.by = k,
         ~waitSignals[k].present \/ ~waitSignals[k].consumed
  PROVE  Accounts'
<1> USE DEF Accounts
<1>0. NoKey \notin SignalKeys
  BY WaitAssumption DEF NoKey
<1>1. /\ waitSignals'[k] = x
      /\ \A l \in SignalKeys : l # k => waitSignals'[l] = waitSignals[l]
      /\ waitRows'[r][w] = y
      /\ \A q \in WaitRuns, v \in WaitIds :
           <<q, v>> # <<r, w>> => waitRows'[q][v] = waitRows[q][v]
      /\ waitRows[r][w].by = NoKey
  BY DEF WaitTypes, OpenUnresolved
<1>2. OpenUnresolved'
  BY <1>1 DEF OpenUnresolved
<1>3. ReceiptsOfSignals'
  BY <1>1 DEF ReceiptsOfSignals
<1>4. ReceiptsApplied'
  <2> SUFFICES ASSUME NEW q \in WaitRuns, NEW v \in WaitIds, NEW l \in SignalKeys
               PROVE  (ReceiptFor(l, q, v)' /\ waitSignals'[l].consumed)
                        <=> waitRows'[q][v].by = l
    BY DEF ReceiptsApplied
  <2>1. CASE l = k
    <3>1. <<q, v>> # <<r, w>> => waitRows[q][v].by # k
      BY DEF ReceiptsApplied, ReceiptFor
    <3> QED BY <3>1, <2>1, <1>1 DEF ReceiptFor
  <2>2. CASE l # k
    <3>1. ReceiptFor(l, q, v)' <=> ReceiptFor(l, q, v)
      BY <2>2, <1>1 DEF ReceiptFor
    <3>2. ReceiptFor(l, q, v) /\ waitSignals[l].consumed <=> waitRows[q][v].by = l
      BY DEF ReceiptsApplied
    <3> QED BY <3>1, <3>2, <2>2, <1>0, <1>1
  <2> QED BY <2>1, <2>2
<1>5. ReceiptsSeen'
  BY <1>1 DEF ReceiptsSeen, ReceiptFor
<1>6. EarlyReceiptsBounded'
  <2> SUFFICES ASSUME NEW q \in WaitRuns
               PROVE  Cardinality(PendingSignals(q)') <= EarlyLimit
    BY DEF EarlyReceiptsBounded
  <2> QED BY <1>1, HoldsNoMore
<1> QED BY <1>2, <1>3, <1>4, <1>5, <1>6

(* A receipt is held for a wait that is not registered yet. *)
LEMMA ReceiptHeld ==
  ASSUME WaitTypes, Accounts, NEW k \in SignalKeys, NEW q \in SignalRequests,
         NEW t \in Nat, FreshKey(k), HoldEarlySignal(k, q, t),
         WaitKind[q.wait] = "signal"
  PROVE  Accounts'
<1> USE DEF Accounts
<1> DEFINE x == SignalRow(q, t)
<1>0. /\ q.run \in WaitRuns /\ q.wait \in WaitIds
      /\ NoKey \notin SignalKeys /\ IsFiniteSet(SignalKeys) /\ EarlyLimit \in Nat
  BY WaitAssumption DEF NoKey
<1>1. /\ waitSignals'[k] = x
      /\ \A l \in SignalKeys : l # k => waitSignals'[l] = waitSignals[l]
      /\ UNCHANGED waitRows
      /\ x.present /\ ~x.consumed /\ x.request = q
      /\ waitRows[q.run][q.wait].state = "absent"
      /\ ~waitSignals[k].present
  BY DEF HoldEarlySignal, SignalRow, WaitTypes, FreshKey
<1> HIDE DEF x
<1>2. OpenUnresolved'
  BY <1>1 DEF OpenUnresolved
<1>3. ReceiptsOfSignals'
  BY <1>1 DEF ReceiptsOfSignals
<1>4. ReceiptsApplied'
  BY <1>1 DEF ReceiptsApplied, ReceiptFor
<1>5. ReceiptsSeen'
  BY <1>1 DEF ReceiptsSeen, ReceiptFor
<1>6. EarlyReceiptsBounded'
  <2> SUFFICES ASSUME NEW r \in WaitRuns
               PROVE  Cardinality(PendingSignals(r)') <= EarlyLimit
    BY DEF EarlyReceiptsBounded
  <2>1. CASE r # q.run
    BY <2>1, <1>1, HoldsNoMore
  <2>2. CASE r = q.run
    <3> DEFINE P == PendingSignals(r)
    <3>1. PendingSignals(r)' \subseteq P \cup {k}
      BY <1>1 DEF PendingSignals
    <3>2. IsFiniteSet(P)
      <4>1. P \subseteq SignalKeys
        BY DEF PendingSignals
      <4> QED BY <4>1, <1>0, FS_Subset
    <3>3. Cardinality(P) \in Nat /\ Cardinality(P) < EarlyLimit
      BY <3>2, <2>2, FS_CardinalityType DEF HoldEarlySignal, EarlyCapacity
    <3> HIDE DEF P
    <3>4. /\ IsFiniteSet(P \cup {k})
          /\ \/ Cardinality(P \cup {k}) = Cardinality(P)
             \/ Cardinality(P \cup {k}) = Cardinality(P) + 1
      BY <3>2, FS_AddElement, Zenon
    <3>5. /\ Cardinality(PendingSignals(r)') <= Cardinality(P \cup {k})
          /\ IsFiniteSet(PendingSignals(r)')
      BY <3>1, <3>4, FS_Subset
    <3>6. Cardinality(PendingSignals(r)') \in Nat
      BY <3>5, FS_CardinalityType
    <3> QED BY <3>3, <3>4, <3>5, <3>6, <1>0
  <2> QED BY <2>1, <2>2
<1> QED BY <1>2, <1>3, <1>4, <1>5, <1>6

-----------------------------------------------------------------------------
(* What the steps do to the runs. *)

(* Every event of a run keeps its row well formed and its position. *)
LEMMA RunMoves ==
  ASSUME NEW run \in WaitRunRows, NEW r
  PROVE  /\ \A s \in {"Running", "Waiting"} :
              /\ SetWaitStatus(run, s) \in WaitRunRows
              /\ SetWaitStatus(run, s).next = run.next
         /\ \A o \in BusinessOutcomes :
              /\ DecideWaitRun(r, run, o) \in WaitRunRows
              /\ DecideWaitRun(r, run, o).next = run.next
              /\ [run EXCEPT !.projection = RunOutcomeDecided(@, o)] \in WaitRunRows
              /\ [run EXCEPT !.projection = RunOutcomeDecided(@, o)].next = run.next
         /\ WithHook(r, run) \in WaitRunRows /\ WithHook(r, run).next = run.next
         /\ [run EXCEPT !.projection = RunCancellationRequested(@)] \in WaitRunRows
         /\ [run EXCEPT !.projection = RunCancellationRequested(@)].next = run.next
         /\ [run EXCEPT !.projection = RunTimeoutReached(@)] \in WaitRunRows
         /\ [run EXCEPT !.projection = RunTimeoutReached(@)].next = run.next
<1> USE DEF WaitRunRows, RunProjections, RunStatuses, BusinessOutcomes
<1>1. \A s \in {"Running", "Waiting"} :
        /\ SetWaitStatus(run, s) \in WaitRunRows
        /\ SetWaitStatus(run, s).next = run.next
  BY DEF SetWaitStatus
<1>2. \A o \in BusinessOutcomes :
        /\ [run EXCEPT !.projection = RunOutcomeDecided(@, o)] \in WaitRunRows
        /\ [run EXCEPT !.projection = RunOutcomeDecided(@, o)].next = run.next
  BY DEF RunOutcomeDecided
<1>3. ASSUME NEW x \in WaitRunRows
      PROVE  WithHook(r, x) \in WaitRunRows /\ WithHook(r, x).next = x.next
  BY <1>3 DEF WithHook
<1>4. \A o \in BusinessOutcomes :
        /\ DecideWaitRun(r, run, o) \in WaitRunRows
        /\ DecideWaitRun(r, run, o).next = run.next
  <2> TAKE o \in BusinessOutcomes
  <2> DEFINE x == [run EXCEPT !.projection = RunOutcomeDecided(@, o)]
  <2>1. x \in WaitRunRows /\ x.next = run.next
    BY <1>2
  <2>2. DecideWaitRun(r, run, o) = WithHook(r, x)
    BY DEF DecideWaitRun
  <2> HIDE DEF x
  <2> QED BY <2>1, <2>2, <1>3
<1>5. /\ [run EXCEPT !.projection = RunCancellationRequested(@)] \in WaitRunRows
      /\ [run EXCEPT !.projection = RunCancellationRequested(@)].next = run.next
  BY DEF RunCancellationRequested
<1>6. /\ [run EXCEPT !.projection = RunTimeoutReached(@)] \in WaitRunRows
      /\ [run EXCEPT !.projection = RunTimeoutReached(@)].next = run.next
  BY DEF RunTimeoutReached
<1> QED BY <1>1, <1>2, <1>3, <1>4, <1>5, <1>6

(* One run changes without moving on; rows and receipts stay accounted. *)
LEMMA RunStepInv ==
  ASSUME WaitInv, NEW r \in WaitRuns, NEW run \in WaitRunRows,
         run.next = waitRuns[r].next,
         waitRuns' = [waitRuns EXCEPT ![r] = run],
         waitRows' \in [WaitRuns -> [WaitIds -> WaitRowSet]],
         waitSignals' \in [SignalKeys -> {NoSignal} \cup Receipts],
         \/ UNCHANGED waitDrivers
         \/ waitDrivers' = [waitDrivers EXCEPT ![r] = IdleDriver]
         \/ /\ waitDrivers[r].pc # "idle"
            /\ waitDrivers' = [waitDrivers EXCEPT ![r].pc = "settling"],
         waitScans' \in [WaitSchedulers -> [batch : Seq(WaitRuns \X WaitIds),
                                            at : Nat]],
         UNCHANGED waitClock, Accounts'
  PROVE  WaitInv'
<1>1. waitRuns' \in [WaitRuns -> WaitRunRows]
  BY DEF WaitInv, WaitTypes
<1>2. /\ waitDrivers' \in [WaitRuns -> [pc : {"idle", "registering", "settling"},
                                        at : Nat]]
      /\ \A q \in WaitRuns : waitDrivers'[q].pc # "idle"
                             => waitDrivers[q].pc # "idle"
  <2>0. waitDrivers \in [WaitRuns -> [pc : {"idle", "registering", "settling"},
                                      at : Nat]]
    BY DEF WaitInv, WaitTypes
  <2>1. CASE UNCHANGED waitDrivers
    BY <2>0, <2>1
  <2>2. CASE waitDrivers' = [waitDrivers EXCEPT ![r] = IdleDriver]
    BY <2>0, <2>2 DEF IdleDriver
  <2>3. CASE /\ waitDrivers[r].pc # "idle"
             /\ waitDrivers' = [waitDrivers EXCEPT ![r].pc = "settling"]
    BY <2>0, <2>3
  <2> QED BY <2>1, <2>2, <2>3
<1>3. \A q \in WaitRuns : waitRuns'[q].next = waitRuns[q].next
  BY DEF WaitInv, WaitTypes
<1>4. WaitTypes'
  BY <1>1, <1>2 DEF WaitInv, WaitTypes
<1>5. DriversAtWait'
  BY <1>2, <1>3 DEF WaitInv, DriversAtWait, AtWait
<1> QED BY <1>4, <1>5 DEF WaitInv

(* A row of a known wait is replaced by a well-formed one. *)
LEMMA RowReplaced ==
  ASSUME WaitTypes, NEW r \in WaitRuns, NEW w \in WaitIds, NEW y \in WaitRowSet
  PROVE  [waitRows EXCEPT ![r][w] = y] \in [WaitRuns -> [WaitIds -> WaitRowSet]]
BY DEF WaitTypes

(* The settlement of a registered wait by its timer or its timeout. *)
LEMMA SettleWaitInv ==
  ASSUME WaitInv, NEW r \in WaitRuns, NEW w \in WaitIds, NEW at,
         SettleTimerWait(r, w, at) \/ SettleSignalWaitTimeout(r, w, at),
         UNCHANGED <<waitSignals, waitClock>>,
         waitDrivers' \in {waitDrivers, [waitDrivers EXCEPT ![r] = IdleDriver]},
         waitScans' \in [WaitSchedulers -> [batch : Seq(WaitRuns \X WaitIds),
                                            at : Nat]]
  PROVE  WaitInv' /\ WaitOutcomeKept
<1>0. /\ WaitTypes /\ Accounts /\ waitRuns[r] \in WaitRunRows
      /\ waitRows[r][w] \in WaitRowSet
  BY DEF WaitInv, WaitTypes
<1>1. PICK y \in WaitRowSet :
        /\ waitRows' = [waitRows EXCEPT ![r][w] = y]
        /\ y.state \in {"satisfied", "timed_out"} /\ y.by \in {NoKey, "timer"}
  <2>1. waitRows[r][w].by = NoKey
    BY <1>0 DEF Accounts, OpenUnresolved, SettleTimerWait,
       SettleSignalWaitTimeout, CanWaitResolved
  <2>2. CASE SettleTimerWait(r, w, at)
    <3> DEFINE y == [waitRows[r][w] EXCEPT !.state = "satisfied", !.by = "timer"]
    <3>1. y \in WaitRowSet /\ y.state = "satisfied" /\ y.by = "timer"
      BY <1>0 DEF WaitRowSet, WaitStates
    <3>2. waitRows' = [waitRows EXCEPT ![r][w] = y]
      BY <2>2 DEF SettleTimerWait
    <3> HIDE DEF y
    <3> QED BY <3>1, <3>2
  <2>3. CASE SettleSignalWaitTimeout(r, w, at)
    <3> DEFINE y == [waitRows[r][w] EXCEPT !.state = "timed_out"]
    <3>1. y \in WaitRowSet /\ y.state = "timed_out" /\ y.by = NoKey
      BY <2>1, <1>0 DEF WaitRowSet, WaitStates
    <3>2. waitRows' = [waitRows EXCEPT ![r][w] = y]
      BY <2>3, <1>0 DEF SettleSignalWaitTimeout, WaitTypes
    <3> HIDE DEF y
    <3> QED BY <3>1, <3>2
  <2> QED BY <2>2, <2>3
<1>2. waitRows' \in [WaitRuns -> [WaitIds -> WaitRowSet]]
  BY <1>0, <1>1, RowReplaced
<1>3. /\ waitRows[r][w].state = "registered" /\ waitRows'[r][w] = y
      /\ \A q \in WaitRuns, v \in WaitIds :
           <<q, v>> # <<r, w>> => waitRows'[q][v] = waitRows[q][v]
  BY <1>0, <1>1 DEF WaitTypes, SettleTimerWait, SettleSignalWaitTimeout,
     CanWaitResolved
<1>4. Accounts'
  BY <1>0, <1>1, <1>3, RowsClose
<1>5. PICK run \in WaitRunRows : /\ run.next = waitRuns[r].next
                                 /\ waitRuns' = [waitRuns EXCEPT ![r] = run]
  <2>1. /\ SetWaitStatus(waitRuns[r], "Running") \in WaitRunRows
        /\ SetWaitStatus(waitRuns[r], "Running").next = waitRuns[r].next
    BY <1>0, RunMoves
  <2>2. CASE waitRuns' = [waitRuns EXCEPT ![r] = SetWaitStatus(@, "Running")]
    BY <2>1, <2>2, <1>0 DEF WaitTypes
  <2>3. CASE waitRuns' = [waitRuns EXCEPT ![r] =
               DecideWaitRun(r, SetWaitStatus(@, "Running"), "Failed")]
    <3> DEFINE x == SetWaitStatus(waitRuns[r], "Running")
    <3>1. /\ DecideWaitRun(r, x, "Failed") \in WaitRunRows
          /\ DecideWaitRun(r, x, "Failed").next = x.next
      <4> HIDE DEF x
      <4> QED BY <2>1, RunMoves DEF BusinessOutcomes, x
    <3> QED BY <3>1, <2>1, <2>3, <1>0 DEF WaitTypes
  <2> QED BY <2>2, <2>3 DEF SettleTimerWait, SettleSignalWaitTimeout
<1>6. WaitInv'
  BY <1>2, <1>4, <1>5, <1>0, RunStepInv DEF WaitTypes
<1>7. WaitOutcomeKept
  BY <1>3 DEF WaitOutcomeKept
<1> QED BY <1>6, <1>7

(* A wait is registered, or an early receipt resolves it at once. *)
LEMMA RegisterInv ==
  ASSUME WaitInv, NEW r \in WaitRuns, RegisterDurableWait(r)
  PROVE  WaitInv' /\ WaitOutcomeKept
<1> DEFINE w == CurrentWait(r)
           at == waitDrivers[r].at
           row == [AbsentWait EXCEPT !.state = "registered",
                                     !.deadline = WaitDeadline(w, at)]
           early == IF WaitKind[w] = "signal" THEN EarliestSignal(r, w) ELSE {}
<1>0. /\ WaitTypes /\ Accounts /\ waitRuns[r] \in WaitRunRows
      /\ waitDrivers[r].pc = "registering" /\ waitRows[r][w].state = "absent"
      /\ UNCHANGED <<waitScans, waitClock>> /\ at \in Nat
  BY DEF WaitInv, WaitTypes, RegisterDurableWait, CanWaitRegistered
<1>1. w \in WaitIds
  BY <1>0, CurrentIsWait DEF WaitInv, DriversAtWait
<1>2. /\ row \in WaitRowSet /\ row.state = "registered" /\ row.by = NoKey
  <2>1. WaitDeadline(w, at) \in Nat \cup {NoDeadline}
    BY <1>0, <1>1, WaitAssumption DEF WaitDeadline
  <2> QED BY <2>1 DEF AbsentWait, WaitRowSet, WaitStates
<1> HIDE DEF row
<1>3. CASE /\ early = {}
           /\ waitRows' = [waitRows EXCEPT ![r][w] = row]
           /\ waitRuns' = [waitRuns EXCEPT ![r] = SetWaitStatus(@, "Waiting")]
           /\ waitDrivers' = [waitDrivers EXCEPT ![r] =
                IF WaitKind[w] = "timer" /\ row.deadline <= at
                THEN [@ EXCEPT !.pc = "settling"] ELSE IdleDriver]
           /\ UNCHANGED waitSignals
  <2>1. EarlyFor(r, w) = {}
    <3>1. CASE WaitKind[w] = "signal"
      BY <3>1, <1>3, <1>0, <1>1, EarliestExists
    <3>2. CASE WaitKind[w] # "signal"
      BY <3>2, <1>0 DEF Accounts, ReceiptsOfSignals, EarlyFor, PendingSignals
    <3> QED BY <3>1, <3>2
  <2>2. /\ waitRows' \in [WaitRuns -> [WaitIds -> WaitRowSet]]
        /\ waitRows'[r][w] = row
        /\ \A q \in WaitRuns, v \in WaitIds :
             <<q, v>> # <<r, w>> => waitRows'[q][v] = waitRows[q][v]
    BY <1>0, <1>1, <1>2, <1>3, RowReplaced DEF WaitTypes
  <2>3. Accounts'
    BY <2>1, <2>2, <1>0, <1>2, <1>3, RowsClose
  <2>4. /\ SetWaitStatus(waitRuns[r], "Waiting") \in WaitRunRows
        /\ SetWaitStatus(waitRuns[r], "Waiting").next = waitRuns[r].next
        /\ waitRuns' = [waitRuns EXCEPT ![r] = SetWaitStatus(waitRuns[r], "Waiting")]
    BY <1>0, <1>3, RunMoves DEF WaitTypes
  <2>5. \/ waitDrivers' = [waitDrivers EXCEPT ![r] = IdleDriver]
        \/ /\ waitDrivers[r].pc # "idle"
           /\ waitDrivers' = [waitDrivers EXCEPT ![r].pc = "settling"]
    BY <1>0, <1>3 DEF WaitTypes
  <2>6. WaitInv'
    <3>1. PICK run \in WaitRunRows : /\ run.next = waitRuns[r].next
                                     /\ waitRuns' = [waitRuns EXCEPT ![r] = run]
      BY <2>4
    <3>2. /\ waitSignals' \in [SignalKeys -> {NoSignal} \cup Receipts]
          /\ waitScans' \in [WaitSchedulers -> [batch : Seq(WaitRuns \X WaitIds),
                                                at : Nat]]
      BY <1>0, <1>3 DEF WaitTypes
    <3> QED BY <3>1, <3>2, <2>2, <2>3, <2>5, <1>0, RunStepInv
  <2>7. WaitOutcomeKept
    BY <2>2, <1>0 DEF WaitOutcomeKept
  <2> QED BY <2>6, <2>7
<1>4. ASSUME NEW k \in early,
             waitRows' = [waitRows EXCEPT ![r][w] =
               [row EXCEPT !.state = "satisfied", !.by = k]],
             waitSignals' = ConsumeSignal(k),
             waitDrivers' = [waitDrivers EXCEPT ![r] = IdleDriver],
             UNCHANGED waitRuns
      PROVE  WaitInv' /\ WaitOutcomeKept
  <2>1. /\ WaitKind[w] = "signal" /\ k \in SignalKeys
        /\ waitSignals[k].present /\ ~waitSignals[k].consumed
        /\ waitSignals[k].request.run = r /\ waitSignals[k].request.wait = w
    BY <1>4 DEF EarliestSignal, EarlyFor, PendingSignals
  <2>2. waitSignals[k] \in Receipts
    BY <2>1, <1>0 DEF WaitTypes, NoSignal
  <2>3. PICK x \in Receipts :
          /\ waitSignals' = [waitSignals EXCEPT ![k] = x]
          /\ x.present /\ x.consumed /\ x.request = waitSignals[k].request
    <3> DEFINE x == [waitSignals[k] EXCEPT !.consumed = TRUE]
    <3>1. x \in Receipts /\ x.present /\ x.consumed
          /\ x.request = waitSignals[k].request
      BY <2>2 DEF Receipts
    <3>2. waitSignals' = [waitSignals EXCEPT ![k] = x]
      BY <1>4, <1>0 DEF ConsumeSignal, WaitTypes
    <3> HIDE DEF x
    <3> QED BY <3>1, <3>2
  <2>4. PICK y \in WaitRowSet :
          /\ waitRows' = [waitRows EXCEPT ![r][w] = y]
          /\ y.state = "satisfied" /\ y.by = k
    <3> DEFINE y == [row EXCEPT !.state = "satisfied", !.by = k]
    <3>1. y \in WaitRowSet /\ y.state = "satisfied" /\ y.by = k
      BY <2>1, <1>2 DEF WaitRowSet, WaitStates
    <3> QED BY <3>1, <1>4
  <2>5. Accounts'
    <3>1. x.request.run = r /\ x.request.wait = w
      BY <2>1, <2>3
    <3>2. waitRows[r][w].state \in {"absent", "registered"}
      BY <1>0
    <3> HIDE DEF w
    <3> QED BY <3>1, <3>2, <2>1, <2>3, <2>4, <1>0, <1>1, ReceiptResolves, Zenon
  <2>6. /\ waitRows' \in [WaitRuns -> [WaitIds -> WaitRowSet]]
        /\ waitSignals' \in [SignalKeys -> {NoSignal} \cup Receipts]
    BY <2>1, <2>3, <2>4, <1>0, <1>1, RowReplaced DEF WaitTypes
  <2>7. waitRuns' = [waitRuns EXCEPT ![r] = waitRuns[r]]
    BY <1>0, <1>4 DEF WaitTypes
  <2>8. WaitInv'
    BY <2>5, <2>6, <2>7, <1>0, <1>4, RunStepInv DEF WaitTypes
  <2>9. WaitOutcomeKept
    BY <2>4, <1>0, <1>1 DEF WaitOutcomeKept, WaitTypes
  <2> QED BY <2>8, <2>9
<1> QED BY <1>3, <1>4 DEF RegisterDurableWait, row

(* A signal is held for its wait or resolves it. *)
LEMMA AdmitInv ==
  ASSUME WaitInv, NEW k \in SignalKeys, NEW q \in SignalRequests,
         AdmitExternalSignal(k, q)
  PROVE  WaitInv' /\ WaitOutcomeKept
<1>0. /\ WaitTypes /\ Accounts /\ q.run \in WaitRuns /\ q.wait \in WaitIds
      /\ waitRuns[q.run] \in WaitRunRows /\ waitRows[q.run][q.wait] \in WaitRowSet
      /\ FreshKey(k) /\ WaitKind[q.wait] = "signal"
      /\ UNCHANGED <<waitDrivers, waitScans, waitClock>>
  BY WaitAssumption DEF WaitInv, WaitTypes, AdmitExternalSignal, TargetOpen
<1>1. PICK delay \in 0..SignalDelay :
        /\ delay <= waitClock
        /\ \/ HoldEarlySignal(k, q, waitClock - delay)
           \/ ResolveBySignal(k, q, waitClock - delay)
  BY DEF AdmitExternalSignal
<1> DEFINE t == waitClock - delay
<1>2. t \in Nat
  BY <1>0, <1>1, WaitAssumption DEF WaitTypes
<1>3. SignalRow(q, t) \in Receipts
  BY <1>2 DEF SignalRow, Receipts
<1> HIDE DEF t
<1>4. CASE HoldEarlySignal(k, q, t)
  <2>1. /\ waitSignals' \in [SignalKeys -> {NoSignal} \cup Receipts]
        /\ UNCHANGED <<waitRuns, waitRows>>
    BY <1>0, <1>3, <1>4 DEF HoldEarlySignal, WaitTypes
  <2>2. Accounts'
    BY <1>0, <1>2, <1>4, ReceiptHeld
  <2> QED BY <2>1, <2>2, <1>0 DEF WaitInv, WaitTypes, DriversAtWait, AtWait,
             WaitOutcomeKept
<1>5. CASE ResolveBySignal(k, q, t)
  <2>1. PICK x \in Receipts :
          /\ waitSignals' = [waitSignals EXCEPT ![k] = x]
          /\ x.present /\ x.consumed /\ x.request = q
    <3> DEFINE x == [SignalRow(q, t) EXCEPT !.consumed = TRUE]
    <3>1. x \in Receipts /\ x.present /\ x.consumed /\ x.request = q
      BY <1>2 DEF Receipts, SignalRow
    <3>2. waitSignals' = [waitSignals EXCEPT ![k] = x]
      BY <1>5 DEF ResolveBySignal
    <3> HIDE DEF x
    <3> QED BY <3>1, <3>2
  <2>2. PICK y \in WaitRowSet :
          /\ waitRows' = [waitRows EXCEPT ![q.run][q.wait] = y]
          /\ y.state = "satisfied" /\ y.by = k
    <3> DEFINE y == [waitRows[q.run][q.wait] EXCEPT !.state = "satisfied", !.by = k]
    <3>1. y \in WaitRowSet /\ y.state = "satisfied" /\ y.by = k
      BY <1>0 DEF WaitRowSet, WaitStates
    <3>2. waitRows' = [waitRows EXCEPT ![q.run][q.wait] = y]
      BY <1>5 DEF ResolveBySignal
    <3> HIDE DEF y
    <3> QED BY <3>1, <3>2
  <2>3. waitRows[q.run][q.wait].state = "registered"
    BY <1>5 DEF ResolveBySignal, CanWaitResolved
  <2>4. Accounts'
    <3>1. x.request.run = q.run /\ x.request.wait = q.wait
      BY <2>1
    <3>2. /\ ~waitSignals[k].present
          /\ waitRows[q.run][q.wait].state \in {"absent", "registered"}
      BY <2>3, <1>0 DEF FreshKey
    <3> QED BY <3>1, <3>2, <2>1, <2>2, <2>3, <1>0, ReceiptResolves, Zenon
  <2>5. /\ waitRows' \in [WaitRuns -> [WaitIds -> WaitRowSet]]
        /\ waitSignals' \in [SignalKeys -> {NoSignal} \cup Receipts]
    BY <2>1, <2>2, <1>0, RowReplaced DEF WaitTypes
  <2>6. /\ SetWaitStatus(waitRuns[q.run], "Running") \in WaitRunRows
        /\ SetWaitStatus(waitRuns[q.run], "Running").next = waitRuns[q.run].next
        /\ waitRuns' = [waitRuns EXCEPT ![q.run] =
                          SetWaitStatus(waitRuns[q.run], "Running")]
    BY <1>0, <1>5, RunMoves DEF ResolveBySignal, WaitTypes
  <2>7. WaitInv'
    BY <2>4, <2>5, <2>6, <1>0, RunStepInv DEF WaitTypes
  <2>8. WaitOutcomeKept
    BY <2>2, <2>3, <1>0 DEF WaitOutcomeKept, WaitTypes
  <2> QED BY <2>7, <2>8
<1> QED BY <1>1, <1>4, <1>5 DEF t

(* A batch holds due waits, and a scheduler settles, skips or gives up its *)
(* first one.                                                              *)
LEMMA SchedulerInv ==
  ASSUME WaitInv, NEW s \in WaitSchedulers,
         SettleNext(s) \/ \E kind \in {"timer", "signal"} : ScanDueWaits(s, kind)
  PROVE  WaitInv' /\ WaitOutcomeKept
<1> DEFINE Scans == [WaitSchedulers -> [batch : Seq(WaitRuns \X WaitIds), at : Nat]]
<1>0. /\ WaitTypes /\ Accounts /\ waitScans \in Scans
      /\ waitScans[s].batch \in Seq(WaitRuns \X WaitIds)
  BY DEF WaitInv, WaitTypes
<1>1. ASSUME UNCHANGED <<waitRuns, waitRows, waitSignals, waitDrivers, waitClock>>,
             waitScans' \in Scans
      PROVE  WaitInv' /\ WaitOutcomeKept
  <2>1. Accounts'
    BY <1>0, <1>1, RowsUntouched
  <2> QED BY <2>1, <1>1 DEF WaitInv, WaitTypes, DriversAtWait, AtWait,
             WaitOutcomeKept
<1>2. ASSUME NEW kind \in {"timer", "signal"}, ScanDueWaits(s, kind)
      PROVE  WaitInv' /\ WaitOutcomeKept
  <2> DEFINE due == DueWaits(kind)
  <2>1. PICK batch \in DueBatch(kind) :
          waitScans' = [waitScans EXCEPT ![s] = [batch |-> batch, at |-> waitClock]]
    BY <1>2 DEF ScanDueWaits
  <2>2. IsFiniteSet(WaitIds)
    <3>1. /\ DOMAIN WaitOrder = 1..Len(WaitOrder) /\ Len(WaitOrder) \in Nat
      BY WaitAssumption
    <3>2. IsFiniteSet(DOMAIN WaitOrder)
      BY <3>1, FS_Interval
    <3>3. WaitOrder \in Surjection(DOMAIN WaitOrder, WaitIds)
      BY WaitAssumption DEF Surjection, WaitIds
    <3> QED BY <3>2, <3>3, FS_Surjection
  <2>3. due \subseteq WaitRuns \X WaitIds
    BY DEF DueWaits
  <2>4. IsFiniteSet(due)
    <3>1. IsFiniteSet(WaitRuns \X WaitIds)
      BY <2>2, WaitAssumption, FS_Product
    <3> QED BY <3>1, <2>3, FS_Subset
  <2>5. Cardinality(due) \in Nat
    BY <2>4, FS_CardinalityType
  <2>6. batch \in [1..Cardinality(due) -> due]
    BY <2>1 DEF DueBatch
  <2> HIDE DEF due
  <2>7. batch \in Seq(WaitRuns \X WaitIds)
    <3>1. batch \in [1..Cardinality(due) -> WaitRuns \X WaitIds]
      BY <2>3, <2>6
    <3> QED BY <3>1, <2>5
  <2>8. waitScans' \in Scans
    BY <2>1, <2>7, <1>0 DEF WaitTypes
  <2> QED BY <2>8, <1>1, <1>2 DEF ScanDueWaits
<1>3. CASE SettleNext(s)
  <2> DEFINE d == Head(waitScans[s].batch)
             at == waitScans[s].at
  <2>1. /\ d \in WaitRuns \X WaitIds
        /\ Tail(waitScans[s].batch) \in Seq(WaitRuns \X WaitIds)
    BY <1>0, <1>3 DEF SettleNext
  <2>2. /\ [waitScans EXCEPT ![s].batch = Tail(@)] \in Scans
        /\ [waitScans EXCEPT ![s] = IdleScan] \in Scans
    <3>1. [waitScans EXCEPT ![s].batch = Tail(@)] \in Scans
      <4> DEFINE b == Tail(waitScans[s].batch)
                 x == [waitScans[s] EXCEPT !.batch = b]
      <4>1. x \in [batch : Seq(WaitRuns \X WaitIds), at : Nat]
        <5>1. b \in Seq(WaitRuns \X WaitIds)
          BY <2>1
        <5> HIDE DEF b
        <5> QED BY <5>1, <1>0
      <4>2. [waitScans EXCEPT ![s] = x] \in Scans
        <5> HIDE DEF x
        <5> QED BY <4>1, <1>0
      <4>3. [waitScans EXCEPT ![s].batch = Tail(@)] = [waitScans EXCEPT ![s] = x]
        BY <1>0
      <4> QED BY <4>2, <4>3
    <3>2. IdleScan \in [batch : Seq(WaitRuns \X WaitIds), at : Nat]
      BY DEF IdleScan
    <3> QED BY <3>1, <3>2, <1>0
  <2>3. waitScans' \in Scans /\ UNCHANGED <<waitSignals, waitDrivers, waitClock>>
    BY <2>2, <1>3 DEF SettleNext
  <2>4. CASE SettleDueWait(d[1], d[2], at)
    <3>1. /\ d[1] \in WaitRuns /\ d[2] \in WaitIds
          /\ \/ SettleTimerWait(d[1], d[2], at)
             \/ SettleSignalWaitTimeout(d[1], d[2], at)
      BY <2>1, <2>4 DEF SettleDueWait
    <3>2. waitDrivers' \in {waitDrivers, [waitDrivers EXCEPT ![d[1]] = IdleDriver]}
      BY <2>3
    <3> QED BY <3>1, <3>2, <2>3, SettleWaitInv
  <2>5. CASE UNCHANGED <<waitRuns, waitRows>>
    BY <2>3, <2>5, <1>1
  <2> QED BY <2>4, <2>5, <1>3 DEF SettleNext
<1> QED BY <1>2, <1>3

(* Cancellation closes registered waits only. *)
LEMMA CancelWaitInv ==
  ASSUME WaitInv, NEW r \in WaitRuns, RequestWaitCancellation(r)
  PROVE  WaitInv' /\ WaitOutcomeKept
<1> DEFINE c == [waitRuns[r] EXCEPT !.projection = RunCancellationRequested(@)]
<1>0. /\ WaitTypes /\ Accounts /\ waitRuns[r] \in WaitRunRows
      /\ waitRuns \in [WaitRuns -> WaitRunRows]
      /\ UNCHANGED <<waitSignals, waitDrivers, waitScans, waitClock>>
  BY DEF WaitInv, WaitTypes, RequestWaitCancellation
<1>1. c \in WaitRunRows /\ c.next = waitRuns[r].next
  BY <1>0, RunMoves
<1>2. PICK run \in WaitRunRows : /\ run.next = waitRuns[r].next
                                 /\ waitRuns' = [waitRuns EXCEPT ![r] = run]
  <2>1. waitRuns' \in {[waitRuns EXCEPT ![r] = DecideWaitRun(r, c, "Cancelled")],
                       [waitRuns EXCEPT ![r] = WithHook(r, c)]}
    BY DEF RequestWaitCancellation
  <2>2. /\ DecideWaitRun(r, c, "Cancelled") \in WaitRunRows
        /\ DecideWaitRun(r, c, "Cancelled").next = c.next
        /\ WithHook(r, c) \in WaitRunRows /\ WithHook(r, c).next = c.next
    <3> HIDE DEF c
    <3> QED BY <1>1, RunMoves DEF BusinessOutcomes
  <2> HIDE DEF c
  <2> QED BY <2>1, <2>2, <1>1
<1>3. /\ waitRows' \in [WaitRuns -> [WaitIds -> WaitRowSet]]
      /\ \A q \in WaitRuns, w \in WaitIds :
           \/ waitRows'[q][w] = waitRows[q][w]
           \/ /\ waitRows[q][w].state = "registered"
              /\ waitRows'[q][w].by = waitRows[q][w].by
              /\ waitRows'[q][w].state = "cancelled"
  <2>1. CASE waitRows' = waitRows
    BY <2>1, <1>0 DEF WaitTypes
  <2>2. CASE waitRows' = ClosedWaits(r)
    <3> DEFINE y(w) == IF waitRows[r][w].state = "registered"
                       THEN [waitRows[r][w] EXCEPT !.state = "cancelled"]
                       ELSE waitRows[r][w]
    <3>1. \A w \in WaitIds :
            /\ y(w) \in WaitRowSet
            /\ \/ y(w) = waitRows[r][w]
               \/ /\ waitRows[r][w].state = "registered"
                  /\ y(w).by = waitRows[r][w].by /\ y(w).state = "cancelled"
      <4> TAKE w \in WaitIds
      <4>1. waitRows[r][w] \in WaitRowSet
        BY <1>0 DEF WaitTypes
      <4>2. /\ [waitRows[r][w] EXCEPT !.state = "cancelled"] \in WaitRowSet
            /\ [waitRows[r][w] EXCEPT !.state = "cancelled"].by = waitRows[r][w].by
            /\ [waitRows[r][w] EXCEPT !.state = "cancelled"].state = "cancelled"
        BY <4>1 DEF WaitRowSet, WaitStates
      <4> QED BY <4>1, <4>2
    <3>2. waitRows' = [waitRows EXCEPT ![r] = [w \in WaitIds |-> y(w)]]
      BY <2>2, <1>0 DEF ClosedWaits, WaitTypes
    <3> HIDE DEF y
    <3> QED BY <3>1, <3>2, <1>0 DEF WaitTypes
  <2> QED BY <2>1, <2>2 DEF RequestWaitCancellation
<1>4. Accounts'
  <2>1. \A q \in WaitRuns, w \in WaitIds :
          waitRows[q][w].state = "registered" => waitRows[q][w].by = NoKey
    BY <1>0 DEF Accounts, OpenUnresolved
  <2>2. \A q \in WaitRuns, w \in WaitIds :
          \/ waitRows'[q][w] = waitRows[q][w]
          \/ /\ waitRows[q][w].state \in {"absent", "registered"}
             /\ waitRows'[q][w].by \in {NoKey, "timer"}
             /\ waitRows'[q][w].state \in {"absent", "registered"}
                  => waitRows'[q][w].by = NoKey
             /\ waitRows'[q][w].state = "registered" => EarlyFor(q, w) = {}
    BY <2>1, <1>3
  <2> QED BY <2>2, <1>0, RowsClose
<1>5. WaitInv'
  <2>1. /\ waitSignals' \in [SignalKeys -> {NoSignal} \cup Receipts]
        /\ waitScans' \in [WaitSchedulers -> [batch : Seq(WaitRuns \X WaitIds),
                                              at : Nat]]
    BY <1>0 DEF WaitTypes
  <2> QED BY <2>1, <1>0, <1>2, <1>3, <1>4, RunStepInv
<1>6. WaitOutcomeKept
  BY <1>3 DEF WaitOutcomeKept
<1> QED BY <1>5, <1>6

(* The steps of run control and of the run loop that settle no wait. *)
LEMMA ControlInv ==
  ASSUME WaitInv, NEW r \in WaitRuns,
         \/ ReadRegistrationClock(r) \/ RegistrationRefused(r)
         \/ ContinueWaitRun(r) \/ SettleCancellingWaitRun(r)
         \/ SettleWaitRunTimeout(r) \/ FinalizeWaitRun(r)
  PROVE  WaitInv' /\ WaitOutcomeKept
<1>0. /\ WaitTypes /\ Accounts /\ waitRuns[r] \in WaitRunRows
      /\ waitRuns \in [WaitRuns -> WaitRunRows]
      /\ waitDrivers \in [WaitRuns -> [pc : {"idle", "registering", "settling"},
                                       at : Nat]]
      /\ DriversAtWait /\ waitClock \in Nat
  BY DEF WaitInv, WaitTypes
<1>1. UNCHANGED <<waitRows, waitSignals, waitScans, waitClock>>
  BY DEF ReadRegistrationClock, RegistrationRefused, ContinueWaitRun,
     SettleCancellingWaitRun, SettleWaitRunTimeout, FinalizeWaitRun
<1>2. Accounts'
  BY <1>0, <1>1, RowsUntouched
<1>3. WaitOutcomeKept
  BY <1>1 DEF WaitOutcomeKept
<1>4. ASSUME waitRuns' \in [WaitRuns -> WaitRunRows],
             waitDrivers' \in [WaitRuns -> [pc : {"idle", "registering", "settling"},
                                            at : Nat]],
             DriversAtWait'
      PROVE  WaitInv'
  BY <1>0, <1>1, <1>2, <1>4 DEF WaitInv, WaitTypes
<1>5. CASE ReadRegistrationClock(r)
  BY <1>0, <1>3, <1>4, <1>5 DEF ReadRegistrationClock, DriversAtWait, AtWait
<1>6. CASE RegistrationRefused(r)
  BY <1>0, <1>3, <1>4, <1>6 DEF RegistrationRefused, DriversAtWait, AtWait,
     IdleDriver
<1>7. ASSUME NEW run \in WaitRunRows, UNCHANGED waitDrivers,
             waitRuns' = [waitRuns EXCEPT ![r] = run],
             run.next = waitRuns[r].next \/ waitDrivers[r].pc = "idle"
      PROVE  WaitInv'
  BY <1>0, <1>4, <1>7 DEF DriversAtWait, AtWait
<1>8. CASE ContinueWaitRun(r)
  <2>1. [waitRuns[r] EXCEPT !.next = @ + 1] \in WaitRunRows
    BY <1>0 DEF WaitRunRows
  <2>2. DecideWaitRun(r, waitRuns[r], "Succeeded") \in WaitRunRows
    BY <1>0, RunMoves DEF BusinessOutcomes
  <2>3. CASE AtWait(r)
    <3> DEFINE run == [waitRuns[r] EXCEPT !.next = @ + 1]
    <3>1. waitRuns' = [waitRuns EXCEPT ![r] = run]
      BY <2>3, <1>8 DEF ContinueWaitRun
    <3> HIDE DEF run
    <3> QED BY <3>1, <2>1, <1>3, <1>7, <1>8 DEF ContinueWaitRun, run
  <2>4. CASE ~AtWait(r)
    <3>1. waitRuns' = [waitRuns EXCEPT ![r] =
                         DecideWaitRun(r, waitRuns[r], "Succeeded")]
      BY <2>4, <1>8, <1>0 DEF ContinueWaitRun
    <3> QED BY <3>1, <2>2, <1>3, <1>7, <1>8 DEF ContinueWaitRun
  <2> QED BY <2>3, <2>4
<1>9. CASE SettleCancellingWaitRun(r)
  <2> DEFINE run == [waitRuns[r] EXCEPT
                       !.projection = RunOutcomeDecided(@, "Cancelled")]
  <2>1. run \in WaitRunRows /\ run.next = waitRuns[r].next
    BY <1>0, RunMoves DEF BusinessOutcomes
  <2>2. waitRuns' = [waitRuns EXCEPT ![r] = run] /\ UNCHANGED waitDrivers
    BY <1>9 DEF SettleCancellingWaitRun
  <2> HIDE DEF run
  <2> QED BY <2>1, <2>2, <1>3, <1>7
<1>10. CASE SettleWaitRunTimeout(r)
  <2> DEFINE x == [waitRuns[r] EXCEPT !.projection = RunTimeoutReached(@)]
  <2>1. x \in WaitRunRows /\ x.next = waitRuns[r].next
    BY <1>0, RunMoves
  <2>2. /\ waitRuns' = [waitRuns EXCEPT ![r] = DecideWaitRun(r, x, "Failed")]
        /\ UNCHANGED waitDrivers
    BY <1>10 DEF SettleWaitRunTimeout
  <2> HIDE DEF x
  <2>3. /\ DecideWaitRun(r, x, "Failed") \in WaitRunRows
        /\ DecideWaitRun(r, x, "Failed").next = x.next
    BY <2>1, RunMoves DEF BusinessOutcomes
  <2> QED BY <2>1, <2>2, <2>3, <1>3, <1>7
<1>11. CASE FinalizeWaitRun(r)
  <2>1. PICK run \in WaitRunRows :
          waitRuns' = [waitRuns EXCEPT ![r] = run] /\ run.next = waitRuns[r].next
    <3> DEFINE x == [waitRuns[r] EXCEPT !.hook = "completed"]
               y == [waitRuns[r] EXCEPT !.projection = RunFinalized(@)]
    <3>1. x \in WaitRunRows /\ x.next = waitRuns[r].next
      BY <1>0 DEF WaitRunRows
    <3>2. y \in WaitRunRows /\ y.next = waitRuns[r].next
      BY <1>0, <1>11 DEF WaitRunRows, FinalizeWaitRun, WaitStatus, RunFinalized,
         RunProjections, RunStatuses, BusinessOutcomes
    <3>3. waitRuns' \in {[waitRuns EXCEPT ![r] = x], [waitRuns EXCEPT ![r] = y]}
      BY <1>11 DEF FinalizeWaitRun
    <3> HIDE DEF x, y
    <3> QED BY <3>1, <3>2, <3>3
  <2> QED BY <2>1, <1>3, <1>7, <1>11 DEF FinalizeWaitRun
<1> QED BY <1>5, <1>6, <1>8, <1>9, <1>10, <1>11

(* The driver that settles its own timer, and the process around it. *)
LEMMA ProcessInv ==
  ASSUME WaitInv,
         \/ \E r \in WaitRuns : SettleAtRegistration(r)
         \/ RestartWaitProcess \/ WaitTick \/ UNCHANGED waitVars
  PROVE  WaitInv' /\ WaitOutcomeKept
<1>0. WaitTypes /\ Accounts /\ DriversAtWait /\ waitClock \in Nat
  BY DEF WaitInv, WaitTypes
<1>1. ASSUME NEW r \in WaitRuns, SettleAtRegistration(r)
      PROVE  WaitInv' /\ WaitOutcomeKept
  <2> DEFINE w == CurrentWait(r)
             at == waitDrivers[r].at
  <2>1. w \in WaitIds
    BY <1>0, <1>1, CurrentIsWait DEF SettleAtRegistration, DriversAtWait
  <2>2. /\ UNCHANGED <<waitSignals, waitClock>>
        /\ waitDrivers' = [waitDrivers EXCEPT ![r] = IdleDriver]
        /\ waitScans' \in [WaitSchedulers -> [batch : Seq(WaitRuns \X WaitIds),
                                              at : Nat]]
    BY <1>0, <1>1 DEF SettleAtRegistration, WaitTypes
  <2>3. CASE SettleTimerWait(r, w, at)
    <3> HIDE DEF w, at
    <3> QED BY <2>1, <2>2, <2>3, SettleWaitInv
  <2>4. CASE UNCHANGED <<waitRuns, waitRows>>
    <3>1. Accounts'
      BY <2>2, <2>4, <1>0, RowsUntouched
    <3> QED BY <3>1, <2>2, <2>4, <1>0 DEF WaitInv, WaitTypes, DriversAtWait,
               AtWait, IdleDriver, WaitOutcomeKept
  <2> QED BY <2>3, <2>4, <1>1 DEF SettleAtRegistration
<1>2. CASE RestartWaitProcess \/ WaitTick \/ UNCHANGED waitVars
  <2>1. UNCHANGED <<waitRuns, waitRows, waitSignals>>
    BY <1>2 DEF RestartWaitProcess, WaitTick, waitVars
  <2>2. Accounts' /\ WaitOutcomeKept
    BY <2>1, <1>0, RowsUntouched DEF WaitOutcomeKept
  <2>3. CASE RestartWaitProcess
    <3>1. /\ IdleScan \in [batch : Seq(WaitRuns \X WaitIds), at : Nat]
          /\ IdleDriver \in [pc : {"idle", "registering", "settling"}, at : Nat]
          /\ IdleDriver.pc = "idle"
      BY DEF IdleScan, IdleDriver
    <3> QED BY <3>1, <2>1, <2>2, <2>3, <1>0 DEF RestartWaitProcess, WaitInv,
               WaitTypes, DriversAtWait
  <2>4. CASE WaitTick
    BY <2>1, <2>2, <2>4, <1>0 DEF WaitTick, WaitInv, WaitTypes, DriversAtWait,
       AtWait
  <2>5. CASE UNCHANGED waitVars
    BY <2>1, <2>2, <2>5, <1>0 DEF waitVars, WaitInv, WaitTypes, DriversAtWait,
       AtWait
  <2> QED BY <2>3, <2>4, <2>5, <1>2
<1> QED BY <1>1, <1>2

(* Every step preserves the invariant and every settled wait. *)
LEMMA WaitStep ==
  ASSUME WaitInv, [WaitsNext]_waitVars
  PROVE  WaitInv' /\ WaitOutcomeKept
<1>1. ASSUME NEW r \in WaitRuns,
             \/ ReadRegistrationClock(r) \/ RegisterDurableWait(r)
             \/ RegistrationRefused(r) \/ SettleAtRegistration(r)
             \/ ContinueWaitRun(r) \/ RequestWaitCancellation(r)
             \/ SettleCancellingWaitRun(r) \/ SettleWaitRunTimeout(r)
             \/ FinalizeWaitRun(r)
      PROVE  WaitInv' /\ WaitOutcomeKept
  BY <1>1, RegisterInv, CancelWaitInv, ControlInv, ProcessInv
<1> QED BY <1>1, AdmitInv, SchedulerInv, ProcessInv DEF WaitsNext

(* The invariant holds initially: no wait is registered, no signal is in. *)
LEMMA WaitInit ==
  ASSUME WaitsInit
  PROVE  WaitInv
<1> DEFINE run == [projection |-> RunExecutionStarted(RunAdmitted(EmptyProjection)),
                   hook |-> "none", next |-> 1]
<1>1. run \in WaitRunRows
  <2> DEFINE admitted == RunAdmitted(EmptyProjection)
  <2>1. EmptyProjection \in RunProjections
    BY DEF EmptyProjection, RunProjections, RunStatuses
  <2>2. admitted \in RunProjections
    BY <2>1 DEF RunAdmitted, RunProjections, RunStatuses
  <2> HIDE DEF admitted
  <2>3. /\ RunExecutionStarted(admitted) \in RunProjections
        /\ RunExecutionStarted(admitted).status = "Running"
    BY <2>2 DEF RunExecutionStarted, RunProjections, RunStatuses
  <2> QED BY <2>3 DEF WaitRunRows, admitted
<1>2. waitRuns \in [WaitRuns -> WaitRunRows]
  BY <1>1 DEF WaitsInit
<1>3. /\ AbsentWait \in WaitRowSet /\ AbsentWait.by = NoKey
      /\ AbsentWait.state = "absent" /\ ~NoSignal.present
      /\ IdleScan \in [batch : Seq(WaitRuns \X WaitIds), at : Nat]
      /\ IdleDriver \in [pc : {"idle", "registering", "settling"}, at : Nat]
      /\ IdleDriver.pc = "idle"
  BY DEF AbsentWait, WaitRowSet, WaitStates, NoSignal, IdleScan, IdleDriver
<1>4. /\ waitRows = [r \in WaitRuns |-> [w \in WaitIds |-> AbsentWait]]
      /\ waitSignals = [k \in SignalKeys |-> NoSignal]
      /\ waitDrivers = [r \in WaitRuns |-> IdleDriver]
      /\ waitScans = [s \in WaitSchedulers |-> IdleScan]
      /\ waitClock = 0
  BY DEF WaitsInit
<1>5. WaitTypes
  BY <1>2, <1>3, <1>4 DEF WaitTypes
<1>6. DriversAtWait
  BY <1>3, <1>4 DEF DriversAtWait
<1>7. /\ OpenUnresolved /\ ReceiptsOfSignals /\ ReceiptsSeen
  BY <1>3, <1>4 DEF OpenUnresolved, ReceiptsOfSignals, ReceiptsSeen, ReceiptFor
<1>8. ReceiptsApplied
  <2>1. NoKey \notin SignalKeys
    BY WaitAssumption DEF NoKey
  <2> QED BY <2>1, <1>3, <1>4 DEF ReceiptsApplied, ReceiptFor
<1>9. EarlyReceiptsBounded
  <2>1. \A r \in WaitRuns : PendingSignals(r) = {}
    BY <1>3, <1>4 DEF PendingSignals
  <2>2. Cardinality({}) = 0 /\ EarlyLimit \in Nat
    BY FS_EmptySet, WaitAssumption
  <2> QED BY <2>1, <2>2 DEF EarlyReceiptsBounded
<1> QED BY <1>5, <1>6, <1>7, <1>8, <1>9 DEF WaitInv, Accounts

(* The invariant holds in every reachable state. *)
THEOREM WaitInvariance == WaitsSpec => []WaitInv
<1>1. WaitsInit => WaitInv
  BY WaitInit
<1>2. WaitInv /\ [WaitsNext]_waitVars => WaitInv'
  BY WaitStep
<1> QED BY <1>1, <1>2, PTL DEF WaitsSpec

(* Whatever order admission, registration, settlement, timeouts,           *)
(* cancellation and restarts come in: a wait that a signal resolved has    *)
(* exactly one consumed receipt, a registered wait passes no receipt over  *)
(* (register_durable_wait_atomically against                               *)
(* admit_external_signal_atomically), and a run never holds more receipts  *)
(* than the limit.                                                         *)
THEOREM SignalAccounting == WaitsSpec => []SignalsAccounted
<1>1. WaitInv => SignalsAccounted
  <2> SUFFICES ASSUME WaitInv PROVE SignalsAccounted
    OBVIOUS
  <2> USE DEF WaitInv, Accounts
  <2>1. SignalAppliedOnce
    BY DEF ReceiptsApplied, ReceiptFor, SignalAppliedOnce
  <2>2. NoSignalIgnored
    BY DEF ReceiptsSeen, ReceiptFor, NoSignalIgnored, EarlyFor, PendingSignals
  <2> QED BY <2>1, <2>2 DEF SignalsAccounted
<1> QED BY <1>1, WaitInvariance, PTL

(* The first outcome of a wait stands: a signal, a timer, a timeout or a   *)
(* cancellation that comes second changes neither its state nor its        *)
(* winner.                                                                 *)
THEOREM WaitOutcomesStand == WaitsSpec => [][WaitOutcomeKept]_waitVars
<1>1. WaitInv /\ [WaitsNext]_waitVars => [WaitOutcomeKept]_waitVars
  BY WaitStep
<1> QED BY <1>1, WaitInvariance, PTL DEF WaitsSpec

=============================================================================
