---------------------------- MODULE MCLockLeases ----------------------------
(***************************************************************************)
(* Small instances of LockLeases: run r1 enters two lock scopes one after  *)
(* the other, run r2 enters one, and a script of r2 opens a session.       *)
(***************************************************************************)
EXTENDS LockLeases, TLC

CONSTANTS r1, r2, a1, a2, b1, s1

MCRunOf == (a1 :> r1 @@ a2 :> r1 @@ b1 :> r2 @@ s1 :> r2)

MCRunOfSubset == [e \in Acquisitions |-> MCRunOf[e]]

=============================================================================
