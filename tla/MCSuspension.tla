----------------------------- MODULE MCSuspension -----------------------------
(***************************************************************************)
(* The components that suspend a run (durable waits, workflow calls,       *)
(* approvals with their notifications, and plan reviews) and the policy    *)
(* that lets its calls pass on such evidence, for TLC.  They share no      *)
(* state here: every behaviour belongs to the one component in focus, so   *)
(* that the state spaces add up instead of multiplying.                    *)
(***************************************************************************)
EXTENDS MCDurableWaits, MCWorkflowCalls, ApprovalNotifications, RichApprovals,
        InfrastructurePolicy

VARIABLE focus

\* v2 moves a role to another reviewer, v3 removes two reviewers.
MCRolesIn ==
  [v \in DirectoryVersions |->
     [p \in Reviewers |->
        CASE p = "a" -> IF v = "v2" THEN {"ops", "sec"} ELSE {"ops"}
          [] p = "b" -> IF v = "v3" THEN {} ELSE {"sec"}
          [] OTHER -> IF v = "v1" THEN {"ops"} ELSE {}]]

PolicyOperation(name, effect, covered, complete) ==
  [name |-> name, effect |-> effect, covered |-> covered, complete |-> complete]

MCPolicyOperations ==
  {PolicyOperation("query", "read", TRUE, TRUE), PolicyOperation("run", "unsafe-write", TRUE, TRUE),
   PolicyOperation("send", "unsafe-write", TRUE, FALSE),
   PolicyOperation("fetch", "unsafe-write", FALSE, FALSE)}

Requires(kind, minimum, roles, bind, span) ==
  [kind |-> kind, minimum |-> minimum, roles |-> roles, bind |-> bind, span |-> span]

PolicyRule(ops, decision, requires) ==
  [ops |-> ops, decision |-> decision, requires |-> requires]

PolicyBundle(env, read, write, rules, signer) ==
  [env |-> env, rules |-> rules, signer |-> signer,
   defaults |-> [e \in EffectClasses |-> IF e = "read" THEN read ELSE write]]

TwoApprovals ==
  PolicyBundle("prod", "allow", "deny",
    {PolicyRule({"run"}, "allow", {Requires("approval", 2, {"ops"}, TRUE, 1)}),
     PolicyRule({"query"}, "allow", {Requires("window", 1, {}, FALSE, 2)})}, "key")

ArtifactAndLock ==
  PolicyBundle("prod", "deny", "allow",
    {PolicyRule({"run"}, "allow", {Requires("artifacts", 1, {}, TRUE, 1),
                                   Requires("lock", 1, {}, FALSE, 1)}),
     PolicyRule({"query", "run"}, "allow", {Requires("approval", 1, {}, FALSE, 2)})}, "none")

StopRunsIn(env) ==
  PolicyBundle(env, "allow", "allow", {PolicyRule({"run"}, "deny", {})}, "key")

PolicyHost(p, o, required) ==
  [policy |-> p, overlay |-> o, required |-> required,
   trust |-> [required |-> FALSE, keys |-> {"key", "old"}, revoked |-> {"old"}]]

\* No policy, a required one, two bundles, an overlay; and two configurations
\* the runtime refuses (an overlay of another environment, a revoked key).
MCPolicyHosts ==
  {PolicyHost(NoBundle, NoBundle, FALSE), PolicyHost(NoBundle, NoBundle, TRUE),
   PolicyHost(TwoApprovals, NoBundle, TRUE), PolicyHost(ArtifactAndLock, NoBundle, FALSE),
   PolicyHost(TwoApprovals, StopRunsIn("prod"), TRUE),
   PolicyHost(TwoApprovals, StopRunsIn("staging"), TRUE),
   PolicyHost([ArtifactAndLock EXCEPT !.signer = "old"], NoBundle, TRUE)}

\* Run p asks two reviewers and one; run q, which makes no calls, one.
MCBallotOf ==
  [r \in PolicyRuns |-> IF r = "p" THEN {<<"a", "x">>, <<"a", "y">>, <<"b", "x">>}
                        ELSE {<<"b", "x">>}]
MCQuorumOf == [v \in {"a", "b"} |-> IF v = "a" THEN 2 ELSE 1]
MCRoleOf == [p \in {"x", "y"} |-> IF p = "x" THEN "ops" ELSE "dev"]
MCCallsOf == [r \in PolicyRuns |-> IF r = "p" THEN 1 ELSE 0]

SuspensionInit ==
  /\ focus \in {"waits", "calls", "approvals", "reviews", "policy"}
  /\ WaitsInit /\ CallsInit /\ ApprovalsInit /\ RichApprovalsInit /\ PolicyInit
  /\ focus # "policy" => ipHost = PolicyHost(NoBundle, NoBundle, FALSE)
  /\ focus # "approvals" => apRun.expands
  /\ focus # "reviews" => active = "v1"

WaitsStep ==
  /\ focus = "waits" /\ WaitsNext
  /\ UNCHANGED <<focus, callVars, apVars, rvVars, ipVars>>

CallsStep ==
  /\ focus = "calls" /\ CallsNext
  /\ UNCHANGED <<focus, waitVars, apVars, rvVars, ipVars>>

ApprovalsStep ==
  /\ focus = "approvals" /\ ApprovalsNext
  /\ UNCHANGED <<focus, waitVars, callVars, rvVars, ipVars>>

ReviewsStep ==
  /\ focus = "reviews" /\ RichApprovalsNext
  /\ UNCHANGED <<focus, waitVars, callVars, apVars, ipVars>>

PolicyStep ==
  /\ focus = "policy" /\ PolicyNext
  /\ UNCHANGED <<focus, waitVars, callVars, apVars, rvVars>>

SuspensionNext == WaitsStep \/ CallsStep \/ ApprovalsStep \/ ReviewsStep \/ PolicyStep

(***************************************************************************)
(* Types: the rows, projections and drivers of the components.             *)
(***************************************************************************)
SuspensionTypeOK ==
  CASE focus = "waits" -> WaitsTypeOK
    [] focus = "calls" -> CallsTypeOK
    [] focus = "approvals" -> ApprovalsTypeOK
    [] focus = "reviews" -> RichApprovalsTypeOK
    [] focus = "policy" -> PolicyRowsOK

(***************************************************************************)
(* What settled a suspension stands: the outcome of a wait and the         *)
(* decision of an approval are the first that committed, and later         *)
(* signals, timers, timeouts, votes and cancellations change neither (the  *)
(* settlements of DurableWaits and ApprovalNotifications).                 *)
(***************************************************************************)
SettlementsStand ==
  [][WaitOutcomeKept /\ FirstDecisionKept]_<<waitVars, apVars>>
===============================================================================
