---------------------------- MODULE RichApprovals ----------------------------
(***************************************************************************)
(* Rich approvals: a run waits until enough reviewers of an operator-owned *)
(* directory approve one immutable review                                  *)
(* (durable/transactions/rich_approvals.rs, rich_approval.rs).  The review *)
(* row, the votes, the artifact pins and the events of the run change in   *)
(* one transaction.  The directory lives in memory, several versions at a  *)
(* time, and an identity is resolved through the version that the review   *)
(* pinned.                                                                 *)
(***************************************************************************)
EXTENDS Integers, FiniteSets, RunFold

CONSTANTS
  Reviewers,         \* principals of the directory
  ReviewRoles,       \* roles
  DirectoryVersions, \* versions of the directory document
  RolesIn,           \* roles of each principal in each version
  RequiredApprovals, \* required_approvals of the descriptor
  RequiredRoles,     \* required_roles of the descriptor
  RetainedVersions,  \* REVIEWER_DIRECTORY_RETAINED_VERSIONS
  ReviewDue,         \* time at which the review is overdue
  ReviewOnTimeout,   \* "reject" or "fail"
  MaxReviewTime,     \* bound on the clock
  MaxReviewRestarts  \* bound on restarts of the process

ASSUME ReviewAssumption ==
  /\ IsFiniteSet(Reviewers) /\ IsFiniteSet(DirectoryVersions)
  /\ RolesIn \in [DirectoryVersions -> [Reviewers -> SUBSET ReviewRoles]]
  /\ RequiredApprovals \in Nat \ {0} /\ RequiredRoles \subseteq ReviewRoles
  /\ RetainedVersions \in Nat \ {0}
  /\ ReviewDue \in Nat /\ MaxReviewTime \in Nat /\ MaxReviewRestarts \in Nat
  /\ ReviewOnTimeout \in {"reject", "fail"}

VARIABLES
  rvRun,     \* projection of the run
  rvRequest, \* status of the request in the projection
  rvRow,     \* woml_approval_reviews: status and directory version
  votes,     \* woml_approval_reviewer_decisions, with the roles of the voter
  rvPinned,  \* the artifact pins of the review are held
  snapshots, \* directory versions in memory
  active,    \* the active one
  rvClock,
  rvRestarts

rvVars == <<rvRun, rvRequest, rvRow, votes, rvPinned, snapshots, active,
            rvClock, rvRestarts>>

-----------------------------------------------------------------------------
(* State. *)

NoVote == [decision |-> "none", roles |-> {}]

ReviewStatuses == {"absent", "pending", "approved", "rejected", "expired",
                   "cancelled"}

RichApprovalsTypeOK ==
  /\ rvRun \in RunProjections
  /\ rvRequest \in ReviewStatuses
  /\ rvRow \in [status : ReviewStatuses, version : DirectoryVersions]
  /\ votes \in [Reviewers -> [decision : {"none", "approved", "rejected"},
                              roles : SUBSET ReviewRoles]]
  /\ rvPinned \in BOOLEAN
  /\ active \in snapshots /\ snapshots \subseteq DirectoryVersions
  /\ Cardinality(snapshots) <= RetainedVersions
  /\ rvClock \in 0..MaxReviewTime
  /\ rvRestarts \in 0..MaxReviewRestarts

RichApprovalsInit ==
  /\ rvRun = [EmptyProjection EXCEPT !.status = "Running", !.started = TRUE]
  /\ rvRequest = "absent"
  /\ \E v \in DirectoryVersions :
       /\ rvRow = [status |-> "absent", version |-> v]
       /\ active = v
       /\ snapshots = {v}
  /\ votes = [p \in Reviewers |-> NoVote]
  /\ rvPinned = FALSE
  /\ rvClock = 0
  /\ rvRestarts = 0

-----------------------------------------------------------------------------
(* The directory. *)

(* reviewer_is_eligible. *)
Eligible(roles) == RequiredRoles = {} \/ roles \cap RequiredRoles # {}

(* validate_requirements: the version can satisfy the descriptor. *)
CanSatisfy(v) ==
  /\ Cardinality({p \in Reviewers : RolesIn[v][p] # {} /\ Eligible(RolesIn[v][p])})
       >= RequiredApprovals
  /\ \A role \in RequiredRoles : \E p \in Reviewers : role \in RolesIn[v][p]

(* The retained versions after one more became active: versions other than *)
(* the active one are dropped until the limit holds.                       *)
Retained(v) ==
  LET all == snapshots \cup {v} IN
  IF Cardinality(all) <= RetainedVersions THEN {all}
  ELSE {kept \in SUBSET all : v \in kept /\ Cardinality(kept) = RetainedVersions}

ReloadDirectory(v) ==
  /\ active # v
  /\ active' = v
  /\ snapshots' \in Retained(v)
  /\ UNCHANGED <<rvRun, rvRequest, rvRow, votes, rvPinned, rvClock, rvRestarts>>

(* The next process loads the current document only.  That a version names *)
(* one content is what operators keep to: the code refuses another content *)
(* only while that version is in memory, and the row of a review has the   *)
(* name alone.                                                             *)
RestartDirectory(v) ==
  /\ rvRestarts < MaxReviewRestarts
  /\ rvRestarts' = rvRestarts + 1
  /\ active' = v
  /\ snapshots' = {v}
  /\ UNCHANGED <<rvRun, rvRequest, rvRow, votes, rvPinned, rvClock>>

-----------------------------------------------------------------------------
(* The request. *)

(* request_approval_wait and create_rich_approval_request: the active      *)
(* version, if it can satisfy the descriptor, is pinned with the artifacts *)
(* of the review.                                                          *)
CreateRichApproval ==
  /\ rvRun.status = "Running" /\ rvRow.status = "absent"
  /\ CanSatisfy(active)
  /\ rvRow' = [status |-> "pending", version |-> active]
  /\ rvRequest' = "pending"
  /\ rvPinned' = TRUE
  /\ rvRun' = [rvRun EXCEPT !.status = "Waiting"]
  /\ UNCHANGED <<votes, snapshots, active, rvClock, rvRestarts>>

-----------------------------------------------------------------------------
(* Votes. *)

Approvals(vs) == {p \in Reviewers : vs[p].decision = "approved"}

Represented(vs) == UNION {vs[p].roles : p \in Approvals(vs)}

(* rich_quorum_state and the terminal decision of a vote. *)
Quorum(vs) ==
  /\ Cardinality(Approvals(vs)) >= RequiredApprovals
  /\ RequiredRoles \subseteq Represented(vs)

(* settle_rich_review_row: one pending row is settled and its pins are     *)
(* released with it.                                                       *)
SettleReview(status) ==
  /\ rvRow' = [rvRow EXCEPT !.status = status]
  /\ rvRequest' = status
  /\ rvPinned' = FALSE

(* Fault: the identity is resolved through the active directory. *)
ResolveThroughActive(p) == RolesIn[active][p]

(* resolve: the roles of an identity in the pinned version; {} is an       *)
(* unknown reviewer.                                                       *)
ResolveReviewer(p) ==
  IF rvRow.version \in snapshots THEN RolesIn[rvRow.version][p] ELSE {}

(* record_rich_approval_identity_decision.  A repeated vote is idempotent, *)
(* a contradicting one conflicts, both without a change; the fold refuses  *)
(* a vote unless the run waits.                                            *)
RecordDecision(p, decision) ==
  LET roles == ResolveReviewer(p)
      vs == [votes EXCEPT ![p] = [decision |-> decision, roles |-> roles]] IN
  /\ rvRow.status = "pending" /\ votes[p] = NoVote
  /\ rvRow.version \in snapshots \* else StaleDirectory
  /\ roles # {} /\ Eligible(roles)
  /\ rvRun.status = "Waiting"
  /\ votes' = vs
  /\ \/ /\ decision = "rejected"
        /\ SettleReview("rejected")
        /\ rvRun' = [rvRun EXCEPT !.status = "Running"]
     \/ /\ decision = "approved" /\ Quorum(vs)
        /\ SettleReview("approved")
        /\ rvRun' = [rvRun EXCEPT !.status = "Running"]
     \/ /\ decision = "approved" /\ ~Quorum(vs)
        /\ UNCHANGED <<rvRow, rvRequest, rvPinned, rvRun>>
  /\ UNCHANGED <<snapshots, active, rvClock, rvRestarts>>

-----------------------------------------------------------------------------
(* Settlement without a vote. *)

(* settle_rich_approval_without_vote after the deadline. *)
ExpireReview ==
  /\ rvRow.status = "pending" /\ rvRun.status = "Waiting"
  /\ rvClock >= ReviewDue
  /\ SettleReview("expired")
  /\ LET running == [rvRun EXCEPT !.status = "Running"] IN
     rvRun' = IF ReviewOnTimeout = "fail"
              THEN RunFinalized(RunOutcomeDecided(running, "Failed"))
              ELSE running
  /\ UNCHANGED <<votes, snapshots, active, rvClock, rvRestarts>>

RequestReviewCancellation ==
  /\ CanRunCancellationRequested(rvRun)
  /\ rvRun' = RunCancellationRequested(rvRun)
  /\ UNCHANGED <<rvRequest, rvRow, votes, rvPinned, snapshots, active, rvClock,
                 rvRestarts>>

(* Fault: the cancelled run leaves its review open. *)
CancelReviewOpen == UNCHANGED <<rvRow, rvRequest, rvPinned>>

CancelledReview ==
  IF rvRow.status = "pending" THEN SettleReview("cancelled")
  ELSE UNCHANGED <<rvRow, rvRequest, rvPinned>>

(* settle_cancelling_run closes the review before it decides the outcome;  *)
(* the two transactions have no other step of this run between them.       *)
SettleReviewCancellation ==
  /\ rvRun.status = "Cancelling"
  /\ CancelledReview
  /\ rvRun' = RunFinalized(RunOutcomeDecided(rvRun, "Cancelled"))
  /\ UNCHANGED <<votes, snapshots, active, rvClock, rvRestarts>>

(* settle_run_timeout knows nothing of the review. *)
ReviewRunTimeout ==
  /\ CanRunTimeoutReached(rvRun)
  /\ rvRun' = RunFinalized(RunOutcomeDecided(RunTimeoutReached(rvRun), "Failed"))
  /\ UNCHANGED <<rvRequest, rvRow, votes, rvPinned, snapshots, active, rvClock,
                 rvRestarts>>

ContinueAfterReview ==
  /\ rvRun.status = "Running" /\ rvRow.status # "absent"
  /\ rvRun' = RunFinalized(RunOutcomeDecided(rvRun, "Succeeded"))
  /\ UNCHANGED <<rvRequest, rvRow, votes, rvPinned, snapshots, active, rvClock,
                 rvRestarts>>

ReviewTick ==
  /\ rvClock < MaxReviewTime
  /\ rvClock' = rvClock + 1
  /\ UNCHANGED <<rvRun, rvRequest, rvRow, votes, rvPinned, snapshots, active,
                 rvRestarts>>

RichApprovalsNext ==
  \/ CreateRichApproval \/ ExpireReview
  \/ RequestReviewCancellation \/ SettleReviewCancellation
  \/ ReviewRunTimeout \/ ContinueAfterReview \/ ReviewTick
  \/ \E v \in DirectoryVersions : ReloadDirectory(v) \/ RestartDirectory(v)
  \/ \E p \in Reviewers, decision \in {"approved", "rejected"} :
       RecordDecision(p, decision)

RichApprovalsSpec == RichApprovalsInit /\ [][RichApprovalsNext]_rvVars

-----------------------------------------------------------------------------
(* Properties. *)

(* A review is approved only by enough distinct reviewers, none of whom    *)
(* rejects, with the roles that the pinned directory version gives them,   *)
(* however often the directory was reloaded meanwhile                      *)
(* (record_rich_approval_identity_decision).                               *)
QuorumSound ==
  rvRow.status = "approved" =>
    LET roles(p) == RolesIn[rvRow.version][p] IN
    /\ Cardinality(Approvals(votes)) >= RequiredApprovals
    /\ RequiredRoles \subseteq UNION {roles(p) : p \in Approvals(votes)}
    /\ \A p \in Approvals(votes) : Eligible(roles(p))
    /\ \A p \in Reviewers : votes[p].decision # "rejected"

(* The row, the projected request and the pins always tell the same story, *)
(* and a review is settled before a cancelled or a successful run ends     *)
(* ("Exactly one terminal result wins").                                   *)
ReviewSettlesOnce ==
  /\ rvRow.status = rvRequest
  /\ rvPinned <=> rvRow.status = "pending"
  /\ rvRun.status \in {"Cancelled", "Succeeded"} => rvRow.status # "pending"

(***************************************************************************)
(* A review tells one story: the row, the request and the pins agree, and  *)
(* it is approved only by the quorum of the directory version it is pinned *)
(* to.                                                                     *)
(***************************************************************************)
ReviewConsistent == QuorumSound /\ ReviewSettlesOnce

=============================================================================
