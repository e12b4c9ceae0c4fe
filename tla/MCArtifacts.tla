------------------------------ MODULE MCArtifacts ------------------------------
(***************************************************************************)
(* Plans of the artifact store for TLC.                                    *)
(***************************************************************************)
EXTENDS Artifacts

ArtifactPlan(shared, contents, uses) ==
  [run |-> [op \in ArtifactOps |-> IF op = "p" \/ shared THEN "r1" ELSE "r2"],
   contents |-> contents, uses |-> uses]

\* The same bytes published by two runs, reviewed or read; and two transfers
\* of one run whose bytes meet the quotas.
MCArtifactPlans ==
  {ArtifactPlan(FALSE, {"x"}, {"review"}), ArtifactPlan(FALSE, {"x"}, {"read"}),
   ArtifactPlan(TRUE, {"x", "y"}, {})}

MCContentSize == [c \in Contents |-> IF c = "x" THEN 1 ELSE 2]
===============================================================================
