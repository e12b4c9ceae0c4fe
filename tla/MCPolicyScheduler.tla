------------------------- MODULE MCPolicyScheduler -------------------------
(***************************************************************************)
(* Small instances of PolicyScheduler: runs p1, p2 and p3 of workflow w    *)
(* and run q1 of workflow v, which shares w's lane.                        *)
(***************************************************************************)
EXTENDS PolicyScheduler, TLC

CONSTANTS p1, p2, p3, q1, w, v

MCWorkflowOf == [r \in Runs |-> IF r = q1 THEN v ELSE w]

MCRunRank == [r \in Runs |->
  CASE r = p1 -> 1 [] r = p2 -> 2 [] r = p3 -> 3 [] r = q1 -> 4]

MCLane == [x \in Workflows |-> "lane"]

One == [x \in Workflows |-> 1]

Two == [x \in Workflows |-> 2]

DriverSymmetry == Permutations(Drivers)

Absent == [x \in Workflows |-> 0]

=============================================================================
