---------------------------- MODULE MCDurableWaits ----------------------------
(* Values of the constants of DurableWaits for TLC. *)
EXTENDS DurableWaits

CONSTANTS r1, r2, sig, tim, k1, k2, k3

MCWaitOrder == <<sig, tim>>

MCWaitKind == [w \in WaitIds |-> IF w = sig THEN "signal" ELSE "timer"]

MCWaitLength == [w \in WaitIds |-> IF w = WaitOrder[1] THEN 1 ELSE 0]

MCOnTimeout == [w \in WaitIds |-> "fail"]

MCSignalRequests == {[run |-> r1, wait |-> sig]}

MCSignalRank == [k \in SignalKeys |-> CASE k = k1 -> 1 [] k = k2 -> 2 [] OTHER -> 3]

MCWaitRank ==
  [d \in WaitRuns \X WaitIds |->
     (IF d[1] = r1 THEN 0 ELSE 2) + (IF d[2] = WaitOrder[1] THEN 0 ELSE 1)]
===============================================================================
