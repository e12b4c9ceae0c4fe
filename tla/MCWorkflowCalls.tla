---------------------------- MODULE MCWorkflowCalls ----------------------------
(* Values of the constants of WorkflowCalls for TLC. *)
EXTENDS WorkflowCalls

\* A calls B; B calls A (a cycle) and C; C calls D (too deep).
MCCallTargets ==
  [w \in CallWorkflows |->
     CASE w = "A" -> {"B"} [] w = "B" -> {"A", "C"} \cap CallWorkflows
       [] w = "C" -> {"D"} [] OTHER -> {}]

\* A retried step of A may call with another payload than before.
MCPayloadsOf ==
  [w \in CallWorkflows |-> IF w = "A" THEN CallPayloads ELSE {"x"}]

\* One process serves B, another none of these workflows.
MCProcessTargets == {{"B"}, {}}

MCOneCall == [w \in CallWorkflows |-> IF w = "A" THEN {"B"} ELSE {}]
================================================================================
