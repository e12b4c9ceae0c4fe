------------------------------- MODULE GraphRun -------------------------------
(***************************************************************************)
(* From a workflow source to the end of one of its runs: the compiler      *)
(* accepts and lowers the source, the engine inspects the model, and the   *)
(* run loop drives the graph by what is ready (engine/readiness.rs,        *)
(* runtime/scheduling/run_loop.rs, runtime/control_flow/forks.rs).         *)
(*                                                                         *)
(* A drive of the run loop is one driver; it returns when the run is       *)
(* suspended and another drive begins when the suspension is settled.      *)
(* Scripts succeed here and locks are free: failures belong to ForkJoin,   *)
(* ParallelGroup and SagaCorrection, contention to LockLeases, the suspen- *)
(* sions themselves to DurableWaits and ApprovalNotifications.  A parallel *)
(* group and a loop run in one step.                                       *)
(***************************************************************************)
EXTENDS ModelValidation

CONSTANT Programs   \* sources: [flow, triggered]

VARIABLES
  program,   \* the source
  model,     \* the compiled model
  phase,     \* of the source or of the run
  driver,    \* where the drive of the run stands
  context,   \* paths whose output is published
  done,      \* control nodes whose completion is recorded
  chosen,    \* edges selected by choices and decisions
  started,   \* scripts with an attempt that is not settled
  awaiting,  \* the node the run is suspended at
  ran        \* how often each script ended

vars == <<program, model, phase, driver, context, done, chosen, started, awaiting, ran>>

Away == [at |-> "away", fork |-> 0, active |-> {}]
Looping == [at |-> "loop", fork |-> 0, active |-> {}]
Nobody == <<"nobody", <<>>>>

-----------------------------------------------------------------------------
(* Readiness. *)

Selected(tag, p) == \E id \in chosen : id[1] = tag /\ id[2] = p

EdgeActive(e) ==
  CASE e.id[1] \in {"decision", "decision-join"} ->
         <<"decision", e.id[2], e.id[3], e.id[4]>> \in chosen
    [] e.id[1] \in {"choice-arm", "choice-arm-join"} ->
         IF Selected("choice-arm", e.id[2])
         THEN <<"choice-arm", e.id[2], e.id[3], e.id[4]>> \in chosen
         ELSE e.id[1] = "choice-arm-join" /\ e.id[4] \in {"otherwise", "default"}
    [] e.id[1] = "branch-arm" -> e.id \in chosen
    [] OTHER -> TRUE

ActiveEdges == {e \in EdgeSet(model) : EdgeActive(e)}
ActiveNodes == Route(ActiveEdges, {model.entry}, {}, {})

MarkedRoles == {"saga-open", "saga-commit", "for-each-open", "fork-open", "fork-join",
                "fork-branch-terminal", "parallel-start", "parallel-join", "lock-acquire",
                "lock-release"}

RECURSIVE NodeComplete(_)
NodeComplete(n) ==
  CASE Role(n) \in MarkedRoles -> n \in done
    [] Role(n) = "choice-select" -> Selected("choice-arm", n[2])
    [] Role(n) = "branch-select" -> Selected("branch-arm", n[2])
    [] Role(n) = "choice-join" ->
         /\ Selected("choice-arm", n[2])
         /\ \E e \in ToSet(Incoming(model, n)) : EdgeActive(e) /\ NodeComplete(e.from)
    [] Role(n) = "approval-join" ->
         \E e \in ToSet(Incoming(model, n)) : EdgeActive(e) /\ NodeComplete(e.from)
    [] OTHER -> n # Settlement /\ n[2] \in context

SettlementCanDecide == model.main[2] \in context

\* Fault: the readiness of a node forgets its open attempt.
ForgetsAttempts(n, active) ==
  /\ n \in active /\ ~NodeComplete(n)
  /\ n = Settlement => SettlementCanDecide
  /\ \A e \in ToSet(Incoming(model, n)) :
       e.from \in active /\ EdgeActive(e) => NodeComplete(e.from)
\* Fault: a node also waits for edges of arms that were not selected.
WaitsForEveryEdge(n, active) ==
  /\ n \in active /\ ~NodeComplete(n)
  /\ n = Settlement => SettlementCanDecide
  /\ n \notin started
  /\ \A e \in ToSet(Incoming(model, n)) : NodeComplete(e.from)

CandidateReady(n, active) ==
  /\ n \in active /\ ~NodeComplete(n)
  /\ n = Settlement => SettlementCanDecide
  /\ n \notin started
  /\ \A e \in ToSet(Incoming(model, n)) :
       e.from \in active /\ EdgeActive(e) => NodeComplete(e.from)

\* The ready nodes in the order of the graph; none unless the run is running.
Ready ==
  LET active == ActiveNodes
      IsReady(n) == CandidateReady(n, active)
  IN  IF phase = "running" THEN SelectSeq(model.nodes, IsReady) ELSE <<>>

\* A group is found by a child and executed with its ready scripts.
GroupOf(n) == IF \E e \in EdgeSet(model) : e.to = n /\ e.id[1] = "child"
              THEN (CHOOSE e \in EdgeSet(model) : e.to = n /\ e.id[1] = "child").id[2]
              ELSE Absent
ChildrenOf(p) == ToSet(Targets(Outgoing(model, <<"parallel-start", p>>)))

ForkAt(p) == CHOOSE fork \in ToSet(model.forks) : fork.path = p
RouteOf(fork, b) ==
  Route(EdgeSet(model), {fork.branches[b].entry}, {fork.branches[b].terminal}, {})
RoutesOf(fork) == UNION {RouteOf(fork, b) : b \in 1..Len(fork.branches)}
BranchSettled(fork, b) == fork.branches[b].terminal \in done
EveryBranchSettled(fork) == \A b \in 1..Len(fork.branches) : BranchSettled(fork, b)

\* The forks a drive enters: opened, not joined, and with something to do.
ForkWithWork(fork, ready) ==
  /\ fork.open \in done /\ fork.join \notin done
  /\ \/ ToSet(ready) \cap (RoutesOf(fork) \cup {fork.join}) # {}
     \/ EveryBranchSettled(fork)
ReadyForks(ready) == SelectSeq(model.forks, LAMBDA fork : ForkWithWork(fork, ready))

-----------------------------------------------------------------------------
(* The source becomes a model. *)

Init ==
  /\ program \in Programs
  /\ model = <<>> /\ phase = "source" /\ driver = Away
  /\ context = {} /\ done = {} /\ chosen = {} /\ started = {}
  /\ awaiting = Nobody /\ ran = EmptyBag

\* An exception that is no diagnostic leaves the compiler as "thrown".
CompileVerdict ==
  IF ~Accepted(program) THEN "rejected"
  ELSE IF LegacyLoweringThrows(program.flow) THEN "thrown" ELSE "compiled"

Compile ==
  /\ phase = "source"
  /\ phase' = CompileVerdict
  /\ model' = IF CompileVerdict = "compiled" THEN Model(program.flow) ELSE model
  /\ UNCHANGED <<program, driver, context, done, chosen, started, awaiting, ran>>

\* The engine inspects the model before it admits and drives a run of it.
Load ==
  /\ phase = "compiled"
  /\ phase' = IF Loads(model) THEN "running" ELSE "refused"
  /\ driver' = IF phase' = "running" THEN Looping ELSE driver
  /\ UNCHANGED <<program, model, context, done, chosen, started, awaiting, ran>>

-----------------------------------------------------------------------------
(* The handlers of single nodes, in the run loop and in a branch alike.    *)

RECURSIVE ItemAt(_, _)
ItemAt(flow, p) ==
  IF Len(p) = 1 THEN flow[p[1]]
  ELSE ItemAt(flow[p[1]].flows[p[2]], SubSeq(p, 3, Len(p)))

Resolves(ref) == ref = Payload \/ ref \in context

Record(n) == done' = done \cup {n} /\ UNCHANGED <<context, chosen, started, ran>>
Publish(p) == context' = context \cup {p} /\ UNCHANGED <<done, chosen, started, ran>>
NothingRecorded == UNCHANGED <<context, done, chosen, started, ran>>

Running == phase' = "running" /\ UNCHANGED <<driver, awaiting>>
Ends(end) == phase' = end /\ driver' = Away /\ UNCHANGED awaiting
Stalls == Ends("stalled") /\ NothingRecorded
Suspends(n) ==
  phase' = "waiting" /\ driver' = Away /\ awaiting' = n /\ NothingRecorded

\* A wait is registered and suspends the run, or is due at once; one whose
\* instant or correlation cannot be read stalls it.
Registers(n) ==
  IF Resolves(ItemAt(program.flow, n[2]).ref)
  THEN Suspends(n) \/ (Publish(n[2]) /\ Running)
  ELSE Stalls

Tested(item, a) == Resolves(item.ref) /\ \A b \in 1..a : Resolves(item.arms[b].test)

\* The arms are tested in order; a test that reads nothing ends the drive.
SelectArm(n, tag, unread) ==
  LET item == ItemAt(program.flow, n[2])
  IN  \/ \E a \in 1..Len(item.arms) :
           /\ Tested(item, a)
           /\ chosen' = chosen \cup {<<tag, n[2], a, item.arms[a].kind>>}
           /\ UNCHANGED <<context, done, started, ran>> /\ Running
      \/ ~Tested(item, Len(item.arms)) /\ Ends(unread) /\ NothingRecorded

SelectedResult(n, tag) ==
  ItemAt(program.flow, n[2]).arms[(CHOOSE id \in chosen : id[1] = tag /\ id[2] = n[2])[3]].result

PublishResult(n, tag, unread) ==
  IF Resolves(SelectedResult(n, tag))
  THEN /\ Publish(n[2])
       /\ IF n = model.main /\ model.version < 13 THEN Ends("succeeded") ELSE Running
  ELSE Ends(unread) /\ NothingRecorded

\* A free lock is granted at once; its release publishes its result.
AcquireLock(n) == Record(n) /\ Running
ReleaseLock(n) ==
  /\ done' = done \cup {n} /\ context' = context \cup {n[2]}
  /\ UNCHANGED <<chosen, started, ran>> /\ Running

\* The scripts of a group that are ready, and the group once all its children are.
ExecuteGroup(p, ready) ==
  LET scripts == {n \in ChildrenOf(p) \cap ToSet(ready) : Role(n) = "step"}
      outputs == context \cup {n[2] : n \in scripts}
  IN  /\ context' = outputs /\ ran' = ran (+) SetToBag(scripts)
      /\ done' = IF \A n \in ChildrenOf(p) : n[2] \in outputs
                 THEN done \cup {<<"parallel-join", p>>} ELSE done
      /\ UNCHANGED <<chosen, started>>

-----------------------------------------------------------------------------
(* The run loop. *)

LoopTurn(ready) ==
  LET first == Head(ready)
      Waits(n) == Role(n) = "wait"
  IN  IF ready = <<>> THEN IF ReadyForks(ready) # <<>> THEN "fork" ELSE "nothing"
      ELSE IF Role(first) \in {"lock-acquire", "lock-release"} THEN "lock"
      ELSE IF GroupOf(first) # Absent
        THEN IF \A n \in ToSet(ready) : GroupOf(n) = GroupOf(first) THEN "group" ELSE "stall"
      ELSE IF \E n \in ToSet(ready) : Waits(n) THEN "wait"
      ELSE IF ReadyForks(ready) # <<>> THEN "fork"
      ELSE IF Len(ready) # 1 THEN "stall" ELSE "node"

InLoop(turn, ready) == driver.at = "loop" /\ phase = "running" /\ LoopTurn(ready) = turn

EnterFork ==
  LET ready == Ready IN
  /\ InLoop("fork", ready)
  /\ driver' = [at |-> "fork", fork |-> Head(ReadyForks(ready)).path, active |-> {}]
  /\ NothingRecorded /\ UNCHANGED <<program, model, phase, awaiting>>

\* Nothing is ready: only a legacy approval at the end of the flow may end the run.
FindNothing ==
  LET ready == Ready IN
  /\ InLoop("nothing", ready)
  /\ IF model.version < 13 /\ Role(model.main) = "approval-join" /\ NodeComplete(model.main)
     THEN Ends("succeeded") /\ NothingRecorded ELSE Stalls
  /\ UNCHANGED <<program, model>>

LoopLock ==
  LET ready == Ready IN
  /\ InLoop("lock", ready)
  /\ IF Role(Head(ready)) = "lock-acquire" THEN AcquireLock(Head(ready))
     ELSE ReleaseLock(Head(ready))
  /\ UNCHANGED <<program, model>>

StallOnUnrelated ==
  LET ready == Ready IN InLoop("stall", ready) /\ Stalls /\ UNCHANGED <<program, model>>

(* A group: its waits are registered first.  A wait that is not due at once *)
(* suspends the run, so the next registration or the first script is        *)
(* refused and the drive ends in an error.                                  *)
LoopGroup ==
  LET ready == Ready
      p == GroupOf(Head(ready))
      waits == SelectSeq(ready, LAMBDA n : Role(n) = "wait")
  IN  /\ InLoop("group", ready)
      /\ IF waits = <<>> THEN ExecuteGroup(p, ready) /\ Running
         ELSE Registers(Head(waits))
      /\ UNCHANGED <<program, model>>

LoopWait ==
  LET ready == Ready
      n == Head(SelectSeq(ready, LAMBDA w : Role(w) = "wait"))
  IN  InLoop("wait", ready) /\ Registers(n) /\ UNCHANGED <<program, model>>

LoopNode ==
  LET ready == Ready
      n == Head(ready)
      last == n = model.main /\ model.version < 13
  IN  /\ InLoop("node", ready)
      /\ CASE Role(n) \in {"saga-open", "saga-commit", "fork-open", "parallel-start"} ->
                Record(n) /\ Running
           [] Role(n) = "saga-result" ->
                LET saga == CHOOSE s \in ToSet(model.sagas) : s.result = n IN
                IF saga.bodyResult[2] \in context THEN Publish(n[2]) /\ Running ELSE Stalls
           [] Role(n) = "for-each-open" ->
                /\ done' = done \cup {n} /\ context' = context \cup {n[2]}
                /\ UNCHANGED <<chosen, started, ran>> /\ Running
           [] Role(n) = "branch-select" -> SelectArm(n, "branch-arm", "failed")
           [] Role(n) = "choice-select" -> SelectArm(n, "choice-arm", "failed")
           [] Role(n) = "branch-result" -> PublishResult(n, "branch-arm", "failed")
           [] Role(n) = "choice-result" -> PublishResult(n, "choice-arm", "failed")
           [] Role(n) = "approval-wait" -> Suspends(n)
           [] Role(n) = "step" ->
                /\ context' = context \cup {n[2]} /\ ran' = ran (+) SetToBag({n})
                /\ UNCHANGED <<done, chosen, started>>
                /\ IF last THEN Ends("succeeded") ELSE Running
           [] n = Settlement -> Ends("succeeded") /\ NothingRecorded
           [] OTHER -> Stalls
      /\ UNCHANGED <<program, model>>

-----------------------------------------------------------------------------
(* The coordinator of a fork. *)

Coordinated == ForkAt(driver.fork)
OwnerOf(n) ==
  IF \E f \in 1..Len(model.forks) : n \in RoutesOf(model.forks[f])
  THEN model.forks[CHOOSE f \in 1..Len(model.forks) : n \in RoutesOf(model.forks[f])].path
  ELSE <<>>

\* Nodes a branch completes without a script, in the order of the pass.
PureRoles == {"lock-acquire", "lock-release", "wait", "parallel-start", "choice-select",
              "branch-select", "branch-result", "choice-result"}
Pure(n) ==
  /\ n \in RoutesOf(Coordinated)
  /\ \/ Role(n) \in PureRoles
     \/ Role(n) = "approval-wait" /\ driver.active = {}
PureReady(ready) == SelectSeq(ready, Pure)

\* A group that lies in one branch runs only while no script is active.
BranchGroup(n) ==
  /\ GroupOf(n) # Absent /\ driver.active = {}
  /\ \E b \in 1..Len(Coordinated.branches) :
       ChildrenOf(GroupOf(n)) \subseteq RouteOf(Coordinated, b)

\* One script per branch of this fork and one of the main route.
MayLaunch(n) ==
  /\ Role(n) = "step"
  /\ \/ /\ OwnerOf(n) = driver.fork
        /\ \A b \in 1..Len(Coordinated.branches) :
             n \in RouteOf(Coordinated, b) =>
               /\ ~BranchSettled(Coordinated, b)
               /\ driver.active \cap RouteOf(Coordinated, b) = {}
     \/ OwnerOf(n) = <<>> /\ \A m \in driver.active : OwnerOf(m) # <<>>

\* The scripts the pass starts, each seen by the ones after it.
Launched(ready) ==
  FoldLeft(LAMBDA acc, n :
             IF MayLaunch(n) /\ \A m \in acc :
                  IF OwnerOf(n) = <<>> THEN OwnerOf(m) # <<>>
                  ELSE \A b \in 1..Len(Coordinated.branches) :
                         ~({n, m} \subseteq RouteOf(Coordinated, b))
             THEN acc \cup {n} ELSE acc,
           {}, ready)

ReadyTerminals(ready) ==
  {b \in 1..Len(Coordinated.branches) : Coordinated.branches[b].terminal \in ToSet(ready)}
JoinSettles ==
  /\ Coordinated.join \notin done
  /\ \A b \in ToSet(Coordinated.joined) : BranchSettled(Coordinated, b)

ForkTurn(ready) ==
  IF ReadyTerminals(ready) # {} THEN "settle"
  ELSE IF JoinSettles THEN "join"
  ELSE IF EveryBranchSettled(Coordinated) /\ driver.active = {} THEN "leave"
  ELSE IF PureReady(ready) # <<>> THEN "pure"
  ELSE IF \E n \in ToSet(ready) : BranchGroup(n) THEN "group"
  ELSE IF Launched(ready) # {} THEN "launch"
  ELSE IF driver.active # {} THEN "await" ELSE "stall"

InFork(turn, ready) == driver.at = "fork" /\ phase = "running" /\ ForkTurn(ready) = turn

SettleBranches ==
  LET ready == Ready IN
  /\ InFork("settle", ready)
  /\ done' = done \cup {Coordinated.branches[b].terminal : b \in ReadyTerminals(ready)}
  /\ UNCHANGED <<program, model, phase, driver, context, chosen, started, awaiting, ran>>

SettleJoin ==
  LET ready == Ready IN
  InFork("join", ready) /\ Record(Coordinated.join) /\ Running /\ UNCHANGED <<program, model>>

LeaveFork ==
  LET ready == Ready IN
  /\ InFork("leave", ready)
  /\ driver' = Looping
  /\ NothingRecorded /\ UNCHANGED <<program, model, phase, awaiting>>

(* The wait of a branch suspends the run while the pass goes on: another    *)
(* registration, selection or script of the same pass is refused and ends   *)
(* the drive, and so is the success of a script that was active.            *)
BranchWait(n, ready) ==
  \/ ~Resolves(ItemAt(program.flow, n[2]).ref) /\ Stalls
  \/ Resolves(ItemAt(program.flow, n[2]).ref) /\ Publish(n[2]) /\ Running
  \/ /\ Resolves(ItemAt(program.flow, n[2]).ref)
     /\ phase' = "waiting" /\ awaiting' = n /\ NothingRecorded
     /\ driver' = IF \/ Tail(PureReady(ready)) # <<>>
                     \/ \E m \in ToSet(ready) : BranchGroup(m)
                     \/ Launched(ready) # {}
                     \/ driver.active = {}
                  THEN Away ELSE driver

PureNode ==
  LET ready == Ready
      n == Head(PureReady(ready))
  IN  /\ InFork("pure", ready)
      /\ CASE Role(n) = "lock-acquire" -> AcquireLock(n)
           [] Role(n) = "lock-release" -> ReleaseLock(n)
           [] Role(n) = "parallel-start" -> Record(n) /\ Running
           [] Role(n) = "approval-wait" -> Suspends(n)
           [] Role(n) = "wait" -> BranchWait(n, ready)
           [] Role(n) = "branch-select" -> SelectArm(n, "branch-arm", "stalled")
           [] Role(n) = "choice-select" -> SelectArm(n, "choice-arm", "failed")
           [] Role(n) = "branch-result" -> PublishResult(n, "branch-arm", "stalled")
           [] Role(n) = "choice-result" -> PublishResult(n, "choice-arm", "stalled")
      /\ UNCHANGED <<program, model>>

GroupInBranch ==
  LET ready == Ready IN
  /\ InFork("group", ready)
  /\ ExecuteGroup(GroupOf(CHOOSE n \in ToSet(ready) : BranchGroup(n)), ready)
  /\ Running /\ UNCHANGED <<program, model>>

LaunchScripts ==
  LET ready == Ready IN
  /\ InFork("launch", ready)
  /\ driver' = [driver EXCEPT !.active = @ \cup Launched(ready)]
  /\ started' = started \cup Launched(ready)
  /\ UNCHANGED <<program, model, phase, context, done, chosen, awaiting, ran>>

\* A script of a branch, or of the main route beside it, ends.
CompleteScript(n) ==
  /\ n \in driver.active /\ phase = "running"
  /\ ForkTurn(Ready) = "await"
  /\ context' = context \cup {n[2]} /\ ran' = ran (+) SetToBag({n})
  /\ started' = started \ {n}
  /\ driver' = [driver EXCEPT !.active = @ \ {n}]
  /\ UNCHANGED <<program, model, phase, done, chosen, awaiting>>

(* The same while the run is suspended by a wait of another branch: the     *)
(* success is refused, the drive ends and the attempt stays open.           *)
LoseScript(n) ==
  /\ n \in driver.active /\ phase = "waiting"
  /\ ran' = ran (+) SetToBag({n})
  /\ driver' = Away
  /\ UNCHANGED <<program, model, phase, context, done, chosen, started, awaiting>>

StallInFork ==
  LET ready == Ready IN InFork("stall", ready) /\ Stalls /\ UNCHANGED <<program, model>>

-----------------------------------------------------------------------------
(* The suspension is settled, after the drive that met it has returned, and *)
(* the run is driven again.                                                 *)

Resume(n) ==
  /\ phase = "waiting" /\ driver = Away /\ n = awaiting
  /\ phase' = "running" /\ driver' = Looping /\ awaiting' = Nobody
  /\ context' = context \cup {n[2]}
  /\ UNCHANGED <<program, model, done, started, ran>>

WakeWait(n) == Role(n) = "wait" /\ Resume(n) /\ UNCHANGED chosen

Decide(n, d) ==
  /\ Role(n) = "approval-wait" /\ Resume(n)
  /\ chosen' = chosen \cup {<<"decision", n[2], d, <<"approved", "rejected">>[d]>>}

Next ==
  \/ Compile \/ Load
  \/ EnterFork \/ FindNothing \/ LoopLock \/ StallOnUnrelated \/ LoopGroup \/ LoopWait
  \/ LoopNode
  \/ SettleBranches \/ SettleJoin \/ LeaveFork \/ PureNode \/ GroupInBranch
  \/ LaunchScripts \/ StallInFork
  \/ \E n \in driver.active : CompleteScript(n) \/ LoseScript(n)
  \/ WakeWait(awaiting)
  \/ \E d \in 1..2 : Decide(awaiting, d)

Spec == Init /\ [][Next]_vars

-----------------------------------------------------------------------------
(* Sources the compiler accepts although they do not run. *)

RECURSIVE Within(_, _)
\* The items of a flow, and of the flows nested in it, of the given kinds.
Within(flow, kinds) ==
  UNION {(IF flow[k].kind \in kinds THEN {flow[k]} ELSE {})
           \cup UNION {Within(flow[k].flows[f], kinds) : f \in 1..Len(flow[k].flows)} :
         k \in 1..Len(flow)}
Inside(item, kinds) == UNION {Within(item.flows[f], kinds) : f \in 1..Len(item.flows)}

\* A wait that only stands in parallel groups is not seen by the choice of a model.
HiddenWait(flow) == ParallelWait(flow) /\ ModelVersion(flow) < 17
\* Bodies of loops with constructs that only the main graph executes.
RichLoopBody(flow) ==
  \E loop \in Within(flow, {"forEach"}) :
    Inside(loop, {"wait", "lock", "saga", "branch"}) # {}
\* Forks in two arms of a choice with a result meet in the settlement.
ForksInArms(flow) ==
  \E choice \in Within(flow, {"branch"}) :
    \E a, b \in 1..Len(choice.flows) :
      a # b /\ Within(choice.flows[a], {"fork"}) # {} /\ Within(choice.flows[b], {"fork"}) # {}

\* The settlement is ready beside a last choice without a result.
SilentEnd(flow) ==
  /\ Within(flow, {"fork"}) # {}
  /\ \E k \in 1..Len(flow) :
       /\ flow[k].kind \in {"controlChoice", "switch"} /\ ~flow[k].valued
       /\ \A l \in (k + 1)..Len(flow) : ~Valued(flow[l])
RECURSIVE LateGroup(_)
\* A parallel group that another item precedes.
LateGroup(flow) ==
  \E k \in 1..Len(flow) :
    \/ k > 1 /\ Within(<<flow[k]>>, {"parallel"}) # {}
    \/ \E f \in 1..Len(flow[k].flows) : LateGroup(flow[k].flows[f])
\* Constructs no coordinator of a fork drives, or drives only undisturbed: a
\* group that becomes ready while the script of a sibling is active.
BusyBranch(flow) ==
  \E fork \in Within(flow, {"fork"}) :
    \/ Inside(fork, {"saga", "forEach", "wait"}) # {}
    \/ \E b \in 1..Len(fork.flows) : LateGroup(fork.flows[b])
    \/ Inside(fork, {"approval"}) # {} /\ fork.joined # 1..Len(fork.flows)
\* Nobody completes a group without scripts, or reads a later output.
WaitingGroup(flow) ==
  \E group \in Within(flow, {"parallel"}) :
    \/ \A c \in 1..Len(group.flows[1]) : group.flows[1][c].kind = "wait"
    \/ \E c \in 1..Len(group.flows[1]) : group.flows[1][c].ref # Payload

-----------------------------------------------------------------------------
(* Properties. *)

(* Every source the compiler accepts becomes a model the engine loads,     *)
(* except for three constructions the two sides disagree about: compiler.ts *)
(* lowers it, model/validation.rs inspects it anew.                         *)
AcceptedSourcesLoad ==
  phase \in {"refused", "thrown"} =>
    HiddenWait(program.flow) \/ RichLoopBody(program.flow) \/ ForksInArms(program.flow)

(* A run whose scripts succeed reaches its end: at no point does the run    *)
(* loop find several unrelated nodes ready, or none, except in the sources  *)
(* that mix a fork with what its coordinator does not drive.                *)
RunsReachTheirEnd ==
  phase = "stalled" =>
    SilentEnd(program.flow) \/ BusyBranch(program.flow) \/ WaitingGroup(program.flow)

(* Dominance survives the lowering and the schedule: the outputs that       *)
(* contextVisibility promises a script are published before it is ready,    *)
(* and no test, result or subject of a choice reads an output that is not.  *)
PromisedOutputsPublished ==
  phase = "running" =>
    /\ \A v \in ToSet(model.visibility) :
         v.node \in ToSet(Ready) \cup driver.active => v.ids \subseteq context
    /\ \A n \in ToSet(Ready) :
         /\ Role(n) \in {"branch-select", "choice-select"} =>
              LET item == ItemAt(program.flow, n[2]) IN Tested(item, Len(item.arms))
         /\ Role(n) = "branch-result" => Resolves(SelectedResult(n, "branch-arm"))
         /\ Role(n) = "choice-result" => Resolves(SelectedResult(n, "choice-arm"))

\* The scripts a source runs under the selections that were made.
RECURSIVE Executed(_, _)
Executed(flow, base) ==
  UNION {LET item == flow[k]
             p == Append(base, k)
             Taken(f) ==
               CASE item.kind \in ChoiceKinds -> \E id \in chosen : id[2] = p /\ id[3] = f
                 [] item.kind = "approval" -> \E id \in chosen : id[2] = p /\ id[3] = f
                 [] OTHER -> item.kind # "forEach"
         IN  IF item.kind = "step" THEN {<<"step", p>>}
             ELSE UNION {Executed(item.flows[f], Append(p, f)) :
                           f \in {g \in 1..Len(item.flows) : Taken(g)}}
         : k \in 1..Len(flow)}

(* A successful run ran the steps of its source, each once: every branch of *)
(* every fork, joined or not, only the arms that were selected, and no      *)
(* script again whose success a suspension of the run refused to record.    *)
SuccessRanTheSource ==
  phase = "succeeded" => ran = SetToBag(Executed(program.flow, <<>>))

(***************************************************************************)
(* A run of an accepted source ends as it is written: it reaches an end,   *)
(* except where the shapes named above keep it from it, and a success      *)
(* means that exactly the scripts the source asks for were run.            *)
(***************************************************************************)
RunsEndAsWritten == RunsReachTheirEnd /\ SuccessRanTheSource
===============================================================================
