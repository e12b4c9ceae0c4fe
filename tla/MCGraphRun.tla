------------------------------ MODULE MCGraphRun ------------------------------
(***************************************************************************)
(* Sources for GraphRun: every construct around every construct, alone, or *)
(* between steps, and every pair of constructs in sequence.                *)
(***************************************************************************)
EXTENDS GraphRun

Leaves == {"step", "wait", "parallel", "parallel-wait", "waits", "early-reader"}
Frames == {"choose", "branch", "control", "switch", "silent-switch", "approval", "rejection",
           "lock", "saga", "loop", "fork", "fork-one", "fork-all"}
Shapes == Leaves \cup Frames
DeepShapes == {"step", "parallel", "control", "approval", "fork-one"}

TestedArms(kinds, results) ==
  [a \in 1..2 |-> Arm(kinds[a], Payload, results[a])]
Spoken == <<"when", "otherwise">>
Matched == <<"case", "default">>

LeafOf(shape) ==
  CASE shape = "wait" -> WaitItem(Payload)
    [] shape = "parallel" -> ParallelItem(<<StepItem, StepItem>>)
    [] shape = "parallel-wait" -> ParallelItem(<<StepItem, WaitItem(Payload)>>)
    [] shape = "waits" -> ParallelItem(<<WaitItem(Payload), WaitItem(Payload)>>)
    [] shape = "early-reader" -> ParallelItem(<<StepItem, WaitItem(<<3>>)>>)
    [] OTHER -> StepItem

\* The frame at p around the item that Inner gives for its place.
FrameOf(shape, p, Inner(_)) ==
  CASE shape = "choose" ->
         ResultChoiceItem(<< <<StepItem, Inner(At(p, 1, 2))>>, <<StepItem, Inner(At(p, 2, 2))>> >>,
                          TestedArms(Spoken, <<At(p, 1, 1), At(p, 2, 1)>>), "choose")
    [] shape = "branch" ->
         ResultChoiceItem(<< <<Inner(At(p, 1, 1))>>, <<StepItem>> >>,
                          TestedArms(Spoken, <<At(p, 1, 1), At(p, 2, 1)>>), "branch")
    [] shape = "control" ->
         ControlChoiceItem(<< <<Inner(At(p, 1, 1))>>, <<Inner(At(p, 2, 1))>> >>,
                           TestedArms(Spoken, <<Absent, Absent>>))
    [] shape = "switch" ->
         SwitchItem(<< <<StepItem, Inner(At(p, 1, 2))>>, <<StepItem>> >>,
                    TestedArms(Matched, <<At(p, 1, 1), At(p, 2, 1)>>), TRUE, Payload)
    [] shape = "silent-switch" ->
         SwitchItem(<< <<StepItem>>, <<Inner(At(p, 2, 1))>> >>,
                    TestedArms(Matched, <<Absent, Absent>>), FALSE, Payload)
    [] shape = "approval" -> ApprovalItem(<<Inner(At(p, 1, 1))>>, <<>>)
    [] shape = "rejection" -> ApprovalItem(<<StepItem>>, <<Inner(At(p, 2, 1))>>)
    [] shape = "lock" -> LockItem(<<Inner(At(p, 1, 1))>>)
    [] shape = "saga" -> SagaItem(<<StepItem, Inner(At(p, 1, 2))>>)
    [] shape = "loop" -> ForEachItem(<<Inner(At(p, 1, 1))>>, Payload)
    [] shape = "fork" ->
         ForkItem(<< <<Inner(At(p, 1, 1))>>, <<StepItem, StepItem>> >>, {})
    [] shape = "fork-one" ->
         ForkItem(<< <<StepItem, Inner(At(p, 1, 2))>>, <<StepItem>> >>, {1})
    [] shape = "fork-all" ->
         ForkItem(<< <<StepItem, Inner(At(p, 1, 2))>>, <<StepItem>> >>, {1, 2})

Simple(shape, p) ==
  LET Inner(q) == StepItem IN
  IF shape \in Leaves THEN LeafOf(shape) ELSE FrameOf(shape, p, Inner)

Nested(shape, p, within) ==
  LET Inner(q) == Simple(within, q) IN FrameOf(shape, p, Inner)

Deep(shape, p, middle, within) ==
  LET Inner(q) == Nested(middle, q, within) IN FrameOf(shape, p, Inner)

\* A choice that reads the output of any item before it.
Reading(ref) ==
  ControlChoiceItem(<< <<StepItem>>, <<StepItem>> >>,
                    <<Arm("when", ref, Absent), Arm("otherwise", Payload, Absent)>>)

Pairs == {<<StepItem, Simple(x, <<2>>), Simple(y, <<3>>)>> : x \in Shapes, y \in Shapes}
NestedAfter == {<<StepItem, Nested(x, <<2>>, y)>> : x \in Frames, y \in Shapes}
NestedBefore == {<<Nested(x, <<1>>, y), StepItem>> : x \in Frames, y \in Shapes}
DeeplyNested ==
  {<<Deep(x, <<1>>, y, z), StepItem>> : x \in Frames, y \in Frames, z \in DeepShapes}
Readers ==
  UNION {{<<StepItem, Nested(x, <<2>>, y), Reading(ref), StepItem>> :
            ref \in FlowOutputIds(<<StepItem, Nested(x, <<2>>, y)>>, <<>>)} :
         x \in Frames, y \in {"step", "parallel"} \cup Frames}

SourceFlows ==
  {<<Simple(x, <<1>>)>> : x \in Shapes} \cup Pairs \cup NestedAfter \cup NestedBefore
    \cup DeeplyNested \cup Readers

\* Every source with a trigger, and the short ones also without.
AllPrograms ==
  {[flow |-> s, triggered |-> TRUE] : s \in SourceFlows}
  \cup {[flow |-> s, triggered |-> FALSE] : s \in NestedAfter}
===============================================================================
