------------------------- MODULE InfrastructurePolicy -------------------------
(***************************************************************************)
(* The operator's infrastructure policy: a bundle of rules a run is pinned *)
(* to when it is first driven, evaluated before every protected effect of  *)
(* the run against evidence the engine holds (votes on plan reviews, the   *)
(* artifacts pinned by them, lock leases), and a deny-only overlay the     *)
(* operator may add at any restart.                                        *)
(*                                                                         *)
(* A rule's matchers are the set of operations they match.  Operations are *)
(* records of a name, an effect class, whether an adapter covers them and  *)
(* whether it finds all the facts it needs in their input.  Time is a      *)
(* counter of Tick steps.                                                  *)
(***************************************************************************)
EXTENDS Naturals, FiniteSets

CONSTANTS
  PolicyRuns,        \* runs under enforcement
  PolicyOperations,  \* records [name, effect, covered, complete]
  PolicyHosts,       \* the configurations an operator may start the runtime with
  BallotOf,          \* per run: the pairs <<review, reviewer>> that may approve
  RoleOf,
  QuorumOf,          \* votes that approve a review
  MaxEvidence,       \* references one evaluation reads (128 in the code)
  CallsOf,           \* per run: bound on its calls
  MaxPolicyTime, MaxPolicyRestarts

NoBundle == [env |-> "none"]

EffectClasses == {"read", "idempotent-write", "unsafe-write"}

ASSUME PolicyAssumption ==
  /\ MaxEvidence \in Nat /\ MaxPolicyTime \in Nat /\ CallsOf \in [PolicyRuns -> Nat]
  /\ MaxPolicyRestarts \in Nat
  /\ \A r \in PolicyRuns : IsFiniteSet(BallotOf[r])
  /\ \A op \in PolicyOperations : op.effect \in EffectClasses
  /\ \A h \in PolicyHosts : h.policy # NoBundle =>
       /\ h.policy.defaults \in [EffectClasses -> {"allow", "deny"}]
       /\ \A rule \in h.policy.rules :
            rule.decision \in {"allow", "deny"} /\ \A q \in rule.requires : q.span \in Nat

VARIABLES
  ipHost,       \* the options of the running process
  ipBound,      \* per run: the pinned bundle, or NoBundle
  ipVotes,      \* per run: the reviewers' approving decisions
  ipPins,       \* per run: the intact artifacts pinned by its reviews
  ipLease,      \* expiry of the lock lease the run holds, 0 for none
  ipCall,       \* per run: the capability call under way
  ipCalls,      \* per run: calls made so far
  ipDecisions,  \* per run: recorded policy decisions
  ipEffects,    \* protected effects that were dispatched
  ipNow, ipRestarts

ipVars == <<ipHost, ipBound, ipVotes, ipPins, ipLease, ipCall, ipCalls,
            ipDecisions, ipEffects, ipNow, ipRestarts>>

-----------------------------------------------------------------------------
(* What the runtime accepts as a configuration.                            *)

RequirementValid(q) ==
  CASE q.kind = "approval" -> q.minimum \in 1..20 /\ q.span > 0
    [] q.kind = "artifacts" -> q.minimum \in 1..32
    [] q.kind = "lock" -> q.span > 0
    [] q.kind = "window" -> q.minimum < q.span

BundleValid(b) ==
  \A rule \in b.rules :
    /\ rule.ops # {}
    /\ rule.decision = "deny" => rule.requires = {}
    /\ \A q \in rule.requires : RequirementValid(q)

SignatureTrusted(b, trust) ==
  IF b.signer = "none" THEN ~trust.required ELSE b.signer \in trust.keys \ trust.revoked

DenyOnly(b) ==
  /\ \A e \in EffectClasses : b.defaults[e] = "allow"
  /\ \A rule \in b.rules : rule.decision = "deny" /\ rule.requires = {}

HostAccepted(h) ==
  /\ h.policy # NoBundle => BundleValid(h.policy) /\ SignatureTrusted(h.policy, h.trust)
  /\ h.overlay # NoBundle =>
       /\ BundleValid(h.overlay) /\ SignatureTrusted(h.overlay, h.trust)
       /\ DenyOnly(h.overlay)
       /\ h.policy # NoBundle /\ h.policy.env = h.overlay.env

Enforced(h) == h.required \/ h.policy # NoBundle \/ h.overlay # NoBundle

-----------------------------------------------------------------------------
(* Evidence: what the stores hold about one run.                           *)

Approved(r, v) == Cardinality({d \in ipVotes[r] : d.review = v}) >= QuorumOf[v]

Evidence(kind, review, principal, issued, expires) ==
  [kind |-> kind, review |-> review, principal |-> principal,
   issued |-> issued, expires |-> expires]

EvidenceSnapshot(r) ==
  {Evidence("approval", d.review, d.principal, d.at, MaxPolicyTime + 1) :
     d \in {v \in ipVotes[r] : Approved(r, v.review)}}
  \cup {Evidence("artifact", v, "none", ipNow, MaxPolicyTime + 1) :
          v \in {w \in ipPins[r] : Approved(r, w)}}
  \cup (IF ipLease[r] > ipNow THEN {Evidence("lock", "none", "none", 0, ipLease[r])} ELSE {})

EvidenceOfRun(r) == EvidenceSnapshot(r)

ReviewDigests(evidence) == {e.review : e \in {x \in evidence : x.kind # "lock"}}

\* The digest the operation is bound to: only an unambiguous one counts.
BoundReview(evidence) ==
  IF Cardinality(ReviewDigests(evidence)) = 1
  THEN CHOOSE v \in ReviewDigests(evidence) : TRUE ELSE "none"

-----------------------------------------------------------------------------
(* Evaluation.                                                             *)

EvidenceInScope(e, now) == e.issued <= now /\ e.expires > now

Counted(q, kind, evidence, now) ==
  {e \in evidence : /\ e.kind = kind /\ EvidenceInScope(e, now)
                    /\ q.bind => BoundReview(evidence) # "none"
                                 /\ e.review = BoundReview(evidence)}

ApprovalsFor(q, evidence, now) ==
  {e.principal : e \in {x \in Counted(q, "approval", evidence, now) : now - x.issued <= q.span}}

RequirementMet(q, evidence, now) ==
  CASE q.kind = "approval" ->
         LET principals == ApprovalsFor(q, evidence, now)
         IN  Cardinality(principals) >= q.minimum
             /\ q.roles \subseteq {RoleOf[p] : p \in principals}
    [] q.kind = "artifacts" -> Cardinality(Counted(q, "artifact", evidence, now)) >= q.minimum
    [] q.kind = "lock" ->
         \E e \in evidence : /\ e.kind = "lock" /\ EvidenceInScope(e, now)
                             /\ e.expires >= now + q.span
    [] q.kind = "window" -> now \in q.minimum..q.span

\* The trusted description of a call, which rules are matched against.
Covered(op) == op.covered
MetadataComplete(op) == op.complete
Described(op) == Covered(op) /\ MetadataComplete(op)

Matching(b, op) == {rule \in b.rules : op.name \in rule.ops}

BudgetExhausted(evidence) == Cardinality(evidence) > MaxEvidence
DefaultFor(b, effect) == b.defaults[effect]

Evaluate(b, op, env, evidence, now) ==
  LET matching == Matching(b, op)
      allows   == {rule \in matching : rule.decision = "allow"}
  IN  CASE env # b.env -> "deny"
        [] env = b.env /\ BudgetExhausted(evidence) -> "deny"
        [] OTHER ->
             IF \E rule \in matching : rule.decision = "deny" THEN "deny"
             ELSE IF allows = {} THEN DefaultFor(b, op.effect)
             ELSE IF \A rule \in allows : \A q \in rule.requires : RequirementMet(q, evidence, now)
                  THEN "allow" ELSE "unsatisfied"

\* The overlay reads no evidence; a denial that names no rule is refused by
\* the event contract, and the call ends in an error.
OverlayVerdict(h, op, env) ==
  IF h.overlay = NoBundle \/ Evaluate(h.overlay, op, env, {}, ipNow) # "deny" THEN "neutral"
  ELSE IF h.overlay.env = env THEN "deny" ELSE "error"

Decision(call, outcome) == [call |-> call, outcome |-> outcome]
UnsupportedDecision(call) == Decision(call, "deny")

ApplyOverlay(base, verdict) == IF verdict = "neutral" THEN base ELSE verdict

-----------------------------------------------------------------------------
(* Actions.                                                                *)

NoPolicyCall == [phase |-> "idle"]

PolicyInit ==
  /\ ipHost \in {h \in PolicyHosts : HostAccepted(h)}
  /\ ipBound = [r \in PolicyRuns |-> NoBundle]
  /\ ipVotes = [r \in PolicyRuns |-> {}]
  /\ ipPins = [r \in PolicyRuns |-> {}]
  /\ ipLease = [r \in PolicyRuns |-> 0]
  /\ ipCall = [r \in PolicyRuns |-> NoPolicyCall]
  /\ ipCalls = [r \in PolicyRuns |-> 0]
  /\ ipDecisions = [r \in PolicyRuns |-> {}]
  /\ ipEffects = {}
  /\ ipNow = 1 /\ ipRestarts = 0

\* The operator restarts the runtime with other options; calls are lost.
RestartHost(h) ==
  /\ HostAccepted(h) /\ h # ipHost /\ ipRestarts < MaxPolicyRestarts
  /\ ipHost' = h /\ ipRestarts' = ipRestarts + 1
  /\ ipCall' = [r \in PolicyRuns |-> NoPolicyCall]
  /\ UNCHANGED <<ipBound, ipVotes, ipPins, ipLease, ipCalls, ipDecisions, ipEffects, ipNow>>

\* A slip: the newest bundle replaces the pinned one.
RepinBundle(r) == ipHost.policy

PinnedBundle(r) == IF ipBound[r] = NoBundle THEN ipHost.policy ELSE ipBound[r]

\* A drive goes on only under the bundle the run is pinned to, or, on a
\* host without a bundle, under whatever it is pinned to.
MayDrive(r) ==
  IF ipHost.policy # NoBundle THEN PinnedBundle(r) = ipHost.policy
  ELSE ipHost.required => ipBound[r] # NoBundle

BindRun(r) ==
  /\ CallsOf[r] > 0 \* a run that makes no call is not driven
  /\ ipHost.policy # NoBundle /\ MayDrive(r) /\ ipBound[r] # PinnedBundle(r)
  /\ ipBound' = [ipBound EXCEPT ![r] = PinnedBundle(r)]
  /\ UNCHANGED <<ipHost, ipVotes, ipPins, ipLease, ipCall, ipCalls, ipDecisions,
                 ipEffects, ipNow, ipRestarts>>

\* The first half of a managed call: read the pinned bundle, collect the
\* evidence and decide.  Without a descriptor the denial is recorded at once.
EvaluateCall(r, op) ==
  /\ MayDrive(r) /\ (ipHost.policy # NoBundle => ipBound[r] # NoBundle)
  /\ op.name # "fetch" /\ ipCall[r] = NoPolicyCall /\ ipCalls[r] < CallsOf[r]
  /\ ipCalls' = [ipCalls EXCEPT ![r] = @ + 1]
  /\ IF ipBound[r] = NoBundle
     THEN /\ ipCall' = IF Enforced(ipHost) THEN ipCall
                       ELSE [ipCall EXCEPT ![r] =
                               [phase |-> "decided", op |-> op, outcome |-> "unchecked",
                                at |-> ipNow, overlay |-> NoBundle]]
          /\ UNCHANGED ipDecisions
     ELSE IF ~Described(op)
     THEN /\ ipDecisions' = [ipDecisions EXCEPT ![r] =
                               @ \cup {UnsupportedDecision(ipCalls[r] + 1)}]
          /\ UNCHANGED ipCall
     ELSE LET base    == Evaluate(ipBound[r], op, ipBound[r].env, EvidenceOfRun(r), ipNow)
              verdict == OverlayVerdict(ipHost, op, ipBound[r].env)
          IN  /\ ipCall' = [ipCall EXCEPT ![r] =
                              [phase |-> "decided", op |-> op, at |-> ipNow,
                               outcome |-> ApplyOverlay(base, verdict),
                               overlay |-> ipHost.overlay]]
              /\ UNCHANGED ipDecisions
  /\ UNCHANGED <<ipHost, ipBound, ipVotes, ipPins, ipLease, ipEffects, ipNow, ipRestarts>>

MayDispatch(outcome) == outcome \in {"allow", "unchecked"}

\* The second half, under the store lock again: record the decision, then
\* start and dispatch the operation or fail the call.
DispatchCall(r) ==
  LET call == ipCall[r]
  IN  /\ call.phase = "decided"
      /\ ipCall' = [ipCall EXCEPT ![r] = NoPolicyCall]
      /\ ipDecisions' =
           IF call.outcome \in {"unchecked", "error"} THEN ipDecisions
           ELSE [ipDecisions EXCEPT ![r] = @ \cup {Decision(ipCalls[r], call.outcome)}]
      /\ ipEffects' =
           IF MayDispatch(call.outcome)
           THEN ipEffects \cup {[run |-> r, call |-> ipCalls[r], op |-> call.op, at |-> call.at,
                                 overlay |-> call.overlay, bundle |-> ipBound[r],
                                 sent |-> ipNow, lease |-> ipLease[r]]}
           ELSE ipEffects
      /\ UNCHANGED <<ipHost, ipBound, ipVotes, ipPins, ipLease, ipCalls, ipNow, ipRestarts>>

\* The call is cancelled between its two halves: nothing is recorded.
CancelCall(r) ==
  /\ ipCall[r].phase = "decided"
  /\ ipCall' = [ipCall EXCEPT ![r] = NoPolicyCall]
  /\ UNCHANGED <<ipHost, ipBound, ipVotes, ipPins, ipLease, ipCalls, ipDecisions,
                 ipEffects, ipNow, ipRestarts>>

\* The script's own fetch: blocked whenever a policy is required or pinned.
NativeFetch(r, op) ==
  /\ MayDrive(r) /\ (ipHost.policy # NoBundle => ipBound[r] # NoBundle)
  /\ op.name = "fetch" /\ ipCall[r] = NoPolicyCall /\ ipCalls[r] < CallsOf[r]
  /\ ipCalls' = [ipCalls EXCEPT ![r] = @ + 1]
  /\ IF Enforced(ipHost) \/ ipBound[r] # NoBundle
     THEN /\ ipDecisions' = IF ipBound[r] = NoBundle THEN ipDecisions
                            ELSE [ipDecisions EXCEPT ![r] =
                                    @ \cup {UnsupportedDecision(ipCalls[r] + 1)}]
          /\ UNCHANGED ipEffects
     ELSE /\ ipEffects' = ipEffects \cup
               {[run |-> r, call |-> ipCalls[r] + 1, op |-> op, at |-> ipNow,
                 overlay |-> NoBundle, bundle |-> NoBundle,
                 sent |-> ipNow, lease |-> ipLease[r]]}
          /\ UNCHANGED ipDecisions
  /\ UNCHANGED <<ipHost, ipBound, ipVotes, ipPins, ipLease, ipCall, ipNow, ipRestarts>>

\* A bound: time passes and votes are cast only while a call is left or under
\* way, those of a run that makes no call only at the first instant, and a
\* run's own artifacts and lease change while it has one left.
CallsRemain == \E r \in PolicyRuns : ipCalls[r] < CallsOf[r] \/ ipCall[r] # NoPolicyCall

\* A reviewer approves a pending review, which pins its artifact.
VoteOnReview(r, v, p) ==
  /\ CallsRemain /\ ~Approved(r, v) /\ (CallsOf[r] = 0 => ipNow = 1)
  /\ \A d \in ipVotes[r] : d.review # v \/ d.principal # p
  /\ ipVotes' = [ipVotes EXCEPT ![r] = @ \cup {[review |-> v, principal |-> p, at |-> ipNow]}]
  /\ ipPins' = [ipPins EXCEPT ![r] = @ \cup {v}]
  /\ UNCHANGED <<ipHost, ipBound, ipLease, ipCall, ipCalls, ipDecisions, ipEffects,
                 ipNow, ipRestarts>>

\* A pinned artifact no longer verifies: it gives no evidence.
LoseArtifact(r, v) ==
  /\ ipCalls[r] < CallsOf[r] /\ Approved(r, v)
  /\ ipPins' = [ipPins EXCEPT ![r] = @ \ {v}]
  /\ UNCHANGED <<ipHost, ipBound, ipVotes, ipLease, ipCall, ipCalls, ipDecisions,
                 ipEffects, ipNow, ipRestarts>>

\* The run takes the lease of the one lock.
TakeLease(r) ==
  /\ ipCalls[r] < CallsOf[r] /\ \A s \in PolicyRuns : ipLease[s] <= ipNow
  /\ ipNow < MaxPolicyTime
  /\ ipLease' = [ipLease EXCEPT ![r] = ipNow + 2]
  /\ UNCHANGED <<ipHost, ipBound, ipVotes, ipPins, ipCall, ipCalls, ipDecisions,
                 ipEffects, ipNow, ipRestarts>>

PolicyTick ==
  /\ CallsRemain /\ ipNow < MaxPolicyTime /\ ipNow' = ipNow + 1
  /\ UNCHANGED <<ipHost, ipBound, ipVotes, ipPins, ipLease, ipCall, ipCalls,
                 ipDecisions, ipEffects, ipRestarts>>

PolicyNext ==
  \/ \E h \in PolicyHosts : RestartHost(h)
  \/ PolicyTick
  \/ \E r \in PolicyRuns :
       \/ BindRun(r) \/ DispatchCall(r) \/ CancelCall(r) \/ TakeLease(r)
       \/ \E op \in PolicyOperations : EvaluateCall(r, op) \/ NativeFetch(r, op)
       \/ \E v \in ipPins[r] : LoseArtifact(r, v)
       \/ \E b \in BallotOf[r] : VoteOnReview(r, b[1], b[2])

PolicySpec == PolicyInit /\ [][PolicyNext]_ipVars

-----------------------------------------------------------------------------
(***************************************************************************)
(* The rows and the calls have their types.                                *)
(***************************************************************************)
PolicyRowsOK ==
  /\ ipHost \in PolicyHosts /\ ipNow \in 1..MaxPolicyTime
  /\ \A r \in PolicyRuns :
       /\ ipCall[r].phase \in {"idle", "decided"} /\ ipCalls[r] \in 0..CallsOf[r]
       /\ \A d \in ipDecisions[r] : d.call <= ipCalls[r]
                                    /\ d.outcome \in {"allow", "deny", "unsatisfied"}

\* Every principal needed by an approval requirement had voted in this run,
\* on one of its approved reviews, early enough and not too early.
VotedFor(q, r, at) ==
  \E votes \in SUBSET {d \in ipVotes[r] : d.at <= at /\ at - d.at <= q.span} :
    /\ Cardinality({d.principal : d \in votes}) >= q.minimum
    /\ q.roles \subseteq {RoleOf[d.principal] : d \in votes}
    /\ q.bind => Cardinality({d.review : d \in votes}) = 1

(***************************************************************************)
(* An effect of a run that is pinned to a bundle was allowed by that very  *)
(* bundle, with a recorded decision: no deny rule of the bundle or of the  *)
(* overlay in force named it, every allow rule that did had its reviewers' *)
(* votes, cast in this run and young enough, its window was open, and an   *)
(* operation without an allow rule fell under an allowing default.  Where  *)
(* a rule required a lease with some time left, the operation started      *)
(* under the lease, unless it started when that time had passed: nothing   *)
(* looks at the lease again between the evaluation and the start.  No      *)
(* restart with another bundle, lost artifact or vote of another run       *)
(* changes that.  (capability/authority.rs, execute)                       *)
(***************************************************************************)
EffectsWereAllowed ==
  \A e \in ipEffects :
    e.bundle # NoBundle =>
      LET allows == {rule \in Matching(e.bundle, e.op) : rule.decision = "allow"}
      IN  /\ ipBound[e.run] = e.bundle
          /\ Decision(e.call, "allow") \in ipDecisions[e.run]
          /\ Matching(e.bundle, e.op) = allows
          /\ e.overlay # NoBundle => Matching(e.overlay, e.op) = {}
          /\ allows = {} => e.bundle.defaults[e.op.effect] = "allow"
          /\ \A rule \in allows : \A q \in rule.requires :
               /\ q.kind = "approval" => VotedFor(q, e.run, e.at)
               /\ q.kind = "window" => e.at \in q.minimum..q.span
               /\ q.kind = "lock" /\ e.sent < e.at + q.span => e.sent < e.lease
===============================================================================
