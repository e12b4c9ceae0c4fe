--------------------------- MODULE WorkflowCompiler ---------------------------
(***************************************************************************)
(* The compiler of workflow sources (woml/src/compiler.ts): which flows of *)
(* items it accepts and the graph it lowers them to.                       *)
(*                                                                         *)
(* An item is a record: its kind, the flows nested in it (arms, branches,  *)
(* bodies, or the children of a parallel group) and what the kind needs    *)
(* besides.  The structural identity of an item is its path: the item k of *)
(* the flow f nested in the item at p is at p \o <<f, k>>.  The node of an *)
(* item is <<role, path>>, where the role stands for the handler.          *)
(* Left out: scripts, retry policies, time limits, texts of tests, and the *)
(* model versions that differ in none of the constructs below.             *)
(***************************************************************************)
EXTENDS Integers, Sequences, SequencesExt

\* References to a context: the payload, or the output of the item at a path.
Payload == <<>>
Absent == <<-1>>

-----------------------------------------------------------------------------
(* Source items. *)

Item(kind, flows) ==
  [kind |-> kind, flows |-> flows, arms |-> <<>>, joined |-> {},
   valued |-> FALSE, spelled |-> kind, ref |-> Payload]

StepItem == Item("step", <<>>)
WaitItem(ref) == [Item("wait", <<>>) EXCEPT !.ref = ref]
ParallelItem(children) == Item("parallel", <<children>>)
ApprovalItem(approved, rejected) == Item("approval", <<approved, rejected>>)
LockItem(flow) == Item("lock", <<flow>>)
SagaItem(flow) == Item("saga", <<flow>>)
ForEachItem(flow, ref) == [Item("forEach", <<flow>>) EXCEPT !.ref = ref]
ForkItem(branches, joined) == [Item("fork", branches) EXCEPT !.joined = joined]

\* An arm: how it is introduced, what it tests and the result it names.
Arm(kind, test, result) == [kind |-> kind, test |-> test, result |-> result]

\* <choose id> and, in its older spelling, <branch>.
ResultChoiceItem(flows, arms, spelled) ==
  [Item("branch", flows) EXCEPT !.arms = arms, !.valued = TRUE, !.spelled = spelled]
ControlChoiceItem(flows, arms) == [Item("controlChoice", flows) EXCEPT !.arms = arms]
SwitchItem(flows, arms, valued, ref) ==
  [Item("switch", flows) EXCEPT !.arms = arms, !.valued = valued, !.ref = ref]

\* Paths of the items of the nested flow f of the item at p.
At(p, f, k) == p \o <<f, k>>

\* The flows the searches below descend into: a parallel group keeps its
\* children apart.
NestedFlows(item) == IF item.kind = "parallel" THEN <<>> ELSE item.flows

ChoiceKinds == {"branch", "controlChoice", "switch"}

-----------------------------------------------------------------------------
(* What the frontend accepts. *)

RootContext == [fork |-> FALSE, loop |-> FALSE, lock |-> FALSE, saga |-> FALSE]

InnerContext(item, context) ==
  [fork |-> context.fork \/ item.kind = "fork",
   loop |-> context.loop \/ item.kind = "forEach",
   lock |-> context.lock \/ item.kind = "lock",
   saga |-> context.saga \/ item.kind = "saga"]

\* Items that publish a value under their own identity.
Valued(item) ==
  \/ item.kind \in {"step", "wait", "lock", "saga", "branch", "approval", "forEach"}
  \/ item.kind = "switch" /\ item.valued

ArmKinds(item) ==
  IF item.kind = "switch" THEN <<"case", "default">> ELSE <<"when", "otherwise">>

\* One or more tested arms and one final arm without a test.
ValidArmOrder(item) ==
  LET n == Len(item.arms) IN
  /\ n >= 2 /\ n = Len(item.flows)
  /\ \A a \in 1..(n - 1) : item.arms[a].kind = ArmKinds(item)[1]
  /\ item.arms[n].kind = ArmKinds(item)[2]

\* An arm names a result exactly when its choice has an identity.
ValidArm(item, a) ==
  /\ (item.arms[a].result # Absent) = item.valued
  /\ item.flows[a] # <<>>

ValidChoice(item) ==
  ValidArmOrder(item) /\ \A a \in 1..Len(item.arms) : ValidArm(item, a)

\* A fork inside a saga leaves no branch behind.
SagaForkJoins(item, context) == context.saga => item.joined = 1..Len(item.flows)

ValidFork(item, context) ==
  /\ ~context.loop /\ ~context.fork
  /\ item.flows # <<>> /\ \A b \in 1..Len(item.flows) : item.flows[b] # <<>>
  /\ item.joined \subseteq 1..Len(item.flows)
  /\ SagaForkJoins(item, context)

ValidParallel(item) ==
  /\ item.flows[1] # <<>>
  /\ \A k \in 1..Len(item.flows[1]) : item.flows[1][k].kind \in {"step", "wait"}

ValidLock(item, context) == ~context.lock /\ item.flows[1] # <<>>

ValidSaga(item, context) ==
  /\ ~context.saga /\ item.flows[1] # <<>>
  /\ \E k \in 1..Len(item.flows[1]) : Valued(item.flows[1][k])

ValidForEach(item, context) == ~context.loop /\ item.flows[1] # <<>>

RECURSIVE ValidFlowItem(_, _)
ValidFlowItem(item, context) ==
  /\ item.kind = "branch" /\ context.fork => item.spelled # "branch"
  /\ item.kind \in ChoiceKinds => ValidChoice(item)
  /\ item.kind = "fork" => ValidFork(item, context)
  /\ item.kind = "parallel" => ValidParallel(item)
  /\ item.kind = "lock" => ValidLock(item, context)
  /\ item.kind = "saga" => ValidSaga(item, context)
  /\ item.kind = "forEach" => ValidForEach(item, context)
  /\ item.kind = "approval" => ~context.loop
  /\ \A f \in 1..Len(item.flows) : \A k \in 1..Len(item.flows[f]) :
       ValidFlowItem(item.flows[f][k], InnerContext(item, context))

-----------------------------------------------------------------------------
(* References: which outputs a place of the source may name. *)

RECURSIVE FlowOutputIds(_, _)
FlowOutputIds(flow, base) ==
  UNION {LET item == flow[k]
             p == Append(base, k)
         IN  (IF Valued(item) THEN {p} ELSE {})
               \cup (IF item.kind = "lock" THEN {}
                     ELSE UNION {FlowOutputIds(item.flows[f], Append(p, f)) :
                                   f \in 1..Len(item.flows)})
         : k \in 1..Len(flow)}

ReferenceAvailable(ref, available) == ref = Payload \/ ref \in available

\* Fault: the outputs of every branch are taken for available.
OutputsOfAllBranches(item, p, after) ==
  UNION {FlowOutputIds(item.flows[b], Append(p, b)) \cap after[b] : b \in 1..Len(item.flows)}

\* The outputs of the joined branches of a fork; after[b] is what branch b
\* guarantees.
JoinedOutputs(item, p, after) ==
  UNION {FlowOutputIds(item.flows[b], Append(p, b)) \cap after[b] : b \in item.joined}

(* The outputs available after a flow that begins with `available`, and    *)
(* whether every reference in it is available where it stands.             *)
RECURSIVE ReferencesOf(_, _, _)
ReferencesOf(flow, base, available) ==
  LET Visit(acc, k) ==
        LET item == flow[k]
            p == Append(base, k)
            inner == [f \in 1..Len(item.flows) |->
                        ReferencesOf(item.flows[f], Append(p, f),
                          IF item.kind = "approval"
                            THEN acc.available \cup {p} ELSE acc.available)]
            arms == \A a \in 1..Len(item.arms) :
                      /\ ReferenceAvailable(item.arms[a].test, acc.available)
                      /\ item.valued =>
                           ReferenceAvailable(item.arms[a].result, inner[a].available)
            after == [b \in 1..Len(item.flows) |-> inner[b].available]
        IN  IF item.kind = "parallel"
            THEN [acc EXCEPT !.available = @ \cup {At(p, 1, c) : c \in 1..Len(item.flows[1])}]
            ELSE [available |-> acc.available
                    \cup (IF Valued(item) THEN {p} ELSE {})
                    \cup (IF item.kind = "fork" THEN JoinedOutputs(item, p, after) ELSE {}),
                  ok |-> /\ acc.ok /\ ReferenceAvailable(item.ref, acc.available) /\ arms
                         /\ \A f \in 1..Len(item.flows) : inner[f].ok]
  IN  FoldLeftDomain(Visit, [available |-> available, ok |-> TRUE], flow)

ReferencesAvailable(flow) == ReferencesOf(flow, <<>>, {}).ok

-----------------------------------------------------------------------------
(* Constructs that decide the version of the model and its profile. *)

\* Fault: constructs are only looked for in the main flow.
HasKindInMain(flow, kind) == \E k \in 1..Len(flow) : flow[k].kind = kind

RECURSIVE HasKind(_, _)
HasKind(flow, kind) ==
  \E k \in 1..Len(flow) :
    \/ flow[k].kind = kind
    \/ \E f \in 1..Len(NestedFlows(flow[k])) : HasKind(NestedFlows(flow[k])[f], kind)

ModelVersion(flow) ==
  IF HasKind(flow, "saga") THEN 19
  ELSE IF HasKind(flow, "lock") THEN 18
  ELSE IF HasKind(flow, "wait") THEN 17
  ELSE IF HasKind(flow, "forEach") THEN 16
  ELSE IF HasKind(flow, "switch") THEN 14
  ELSE IF HasKind(flow, "fork") \/ HasKind(flow, "controlChoice") THEN 13
  ELSE 12

StructuredGraph(flow) == ModelVersion(flow) >= 13

ValidTerminal(flow) ==
  LET last == flow[Len(flow)] IN
  /\ last.kind # "parallel"
  /\ last.kind = "fork" =>
       \E k \in 1..(Len(flow) - 1) : flow[k].kind \in {"step", "branch", "approval"}

ValidSteps(flow) ==
  /\ flow # <<>>
  /\ \A k \in 1..Len(flow) : ValidFlowItem(flow[k], RootContext)
  /\ ReferencesAvailable(flow)
  /\ ValidTerminal(flow)

\* A workflow without triggers is only called, and may not be suspended.
ValidCallee(program) ==
  ~program.triggered =>
    ~HasKind(program.flow, "approval") /\ ~HasKind(program.flow, "wait")

HasMainResult(flow) ==
  \E k \in 1..Len(flow) :
    flow[k].kind \in {"step", "wait", "lock", "saga", "branch", "approval", "forEach"}

Accepted(program) ==
  /\ ValidSteps(program.flow)
  /\ ValidCallee(program)
  /\ StructuredGraph(program.flow) => HasMainResult(program.flow)

-----------------------------------------------------------------------------
(* Lowering.  A fragment has one entry and one exit; what it declares      *)
(* besides its nodes and edges is collected beside it.                     *)

NoDeclarations ==
  [forks |-> <<>>, choices |-> <<>>, loops |-> <<>>, locks |-> <<>>, sagas |-> <<>>,
   waits |-> <<>>, visibility |-> <<>>, owned |-> <<>>]

Declare(a, b) == [field \in DOMAIN a |-> a[field] \o b[field]]
DeclareAll(fragments) ==
  FoldLeft(LAMBDA acc, fragment : Declare(acc, fragment.declared), NoDeclarations, fragments)

Nodes(fragments) == FlattenSeq([f \in 1..Len(fragments) |-> fragments[f].nodes])
Edges(fragments) == FlattenSeq([f \in 1..Len(fragments) |-> fragments[f].edges])

Edge(id, from, to) == [id |-> id, from |-> from, to |-> to]
AlwaysEdge(from, to) == Edge(<<"to", from, to>>, from, to)

\* The node whose output is published under the identity of an item.
ResultRole(item) ==
  CASE item.kind = "branch" -> "branch-result"
    [] item.kind = "switch" -> "choice-result"
    [] item.kind = "approval" -> "approval-wait"
    [] item.kind = "lock" -> "lock-result"
    [] item.kind = "saga" -> "saga-result"
    [] item.kind = "forEach" -> "for-each-result"
    [] OTHER -> item.kind
NoResult == <<"none", <<>>>>

LowerStep(p, visible) ==
  [entry |-> <<"step", p>>, exit |-> <<"step", p>>, nodes |-> << <<"step", p>> >>,
   edges |-> <<>>, visible |-> visible \cup {p}, last |-> <<"step", p>>,
   declared |-> [NoDeclarations EXCEPT !.visibility =
                   << [node |-> <<"step", p>>, ids |-> visible] >>]]

LowerWait(item, p, visible) ==
  [entry |-> <<"wait", p>>, exit |-> <<"wait", p>>, nodes |-> << <<"wait", p>> >>,
   edges |-> <<>>, visible |-> visible \cup {p}, last |-> <<"wait", p>>,
   declared |-> [NoDeclarations EXCEPT !.waits =
                   << [node |-> <<"wait", p>>, ref |-> item.ref] >>]]

LowerParallel(item, p, visible) ==
  LET start == <<"parallel-start", p>>
      join == <<"parallel-join", p>>
      children == [c \in 1..Len(item.flows[1]) |->
        IF item.flows[1][c].kind = "step" THEN LowerStep(At(p, 1, c), visible)
        ELSE LowerWait(item.flows[1][c], At(p, 1, c), visible)]
  IN  [entry |-> start, exit |-> join,
       nodes |-> <<start>> \o Nodes(children) \o <<join>>,
       edges |-> [c \in 1..Len(children) |->
                    Edge(<<"child", p, c>>, start, children[c].entry)]
                 \o Edges(children)
                 \o [c \in 1..Len(children) |->
                       Edge(<<"child-join", p, c>>, children[c].exit, join)],
       visible |-> visible \cup {At(p, 1, c) : c \in 1..Len(children)},
       last |-> NoResult,
       declared |-> DeclareAll(children)]

\* Arms of a choice: the edges that select them and the edges that join them.
ArmEdges(tag, item, p, selector, arms) ==
  [a \in 1..Len(arms) |->
     Edge(<<tag, p, a, item.arms[a].kind>>, selector, arms[a].entry)]

LowerResultChoice(item, p, visible, arms) ==
  LET selector == <<"branch-select", p>>
      result == <<"branch-result", p>>
  IN  [entry |-> selector, exit |-> result,
       nodes |-> <<selector>> \o Nodes(arms) \o <<result>>,
       edges |-> ArmEdges("branch-arm", item, p, selector, arms) \o Edges(arms)
                 \o [a \in 1..Len(arms) |-> AlwaysEdge(arms[a].exit, result)],
       visible |-> visible \cup {p}, last |-> result,
       declared |-> DeclareAll(arms)]

\* A control-only choice, and a switch with or without a result.
LowerControlChoice(item, p, visible, arms) ==
  LET selector == <<"choice-select", p>>
      join == <<"choice-join", p>>
      result == IF item.valued THEN << <<"choice-result", p>> >> ELSE <<>>
  IN  [entry |-> selector,
       exit |-> IF item.valued THEN result[1] ELSE join,
       nodes |-> <<selector>> \o Nodes(arms) \o <<join>> \o result,
       edges |-> ArmEdges("choice-arm", item, p, selector, arms) \o Edges(arms)
                 \o [a \in 1..Len(arms) |->
                       Edge(<<"choice-arm-join", p, a, item.arms[a].kind>>,
                            arms[a].exit, join)]
                 \o [r \in 1..Len(result) |-> AlwaysEdge(join, result[r])],
       visible |-> IF item.valued THEN visible \cup {p} ELSE visible,
       last |-> IF item.valued THEN result[1] ELSE NoResult,
       declared |-> Declare(DeclareAll(arms), [NoDeclarations EXCEPT !.choices =
         << [path |-> p, selector |-> selector, join |-> join, result |-> result,
             arms |-> [a \in 1..Len(arms) |-> <<"choice-arm", p, a, item.arms[a].kind>>]] >>])]

LowerApproval(item, p, visible, arms) ==
  LET wait == <<"approval-wait", p>>
      join == <<"approval-join", p>>
      decisions == <<"approved", "rejected">>
      present == SelectSeq(<<1, 2>>, LAMBDA d : item.flows[d] # <<>>)
      armsPresent == [i \in 1..Len(present) |-> arms[present[i]]]
  IN  [entry |-> wait, exit |-> join,
       nodes |-> <<wait>> \o Nodes(armsPresent) \o <<join>>,
       edges |-> [d \in 1..2 |->
                    Edge(<<"decision", p, d, decisions[d]>>, wait,
                         IF item.flows[d] = <<>> THEN join ELSE arms[d].entry)]
                 \o Edges(armsPresent)
                 \o [i \in 1..Len(present) |->
                       Edge(<<"decision-join", p, present[i], decisions[present[i]]>>,
                            arms[present[i]].exit, join)],
       visible |-> visible \cup {p}, last |-> wait,
       declared |-> DeclareAll(armsPresent)]

LowerFork(item, p, visible, branches) ==
  LET open == <<"fork-open", p>>
      join == <<"fork-join", p>>
      terminal(b) == <<"fork-branch-terminal", Append(p, b)>>
      joined == SelectSeq([b \in 1..Len(branches) |-> b], LAMBDA b : b \in item.joined)
      after == [b \in 1..Len(branches) |-> branches[b].visible]
  IN  [entry |-> open, exit |-> join,
       nodes |-> <<open>>
                 \o FlattenSeq([b \in 1..Len(branches) |-> Append(branches[b].nodes, terminal(b))])
                 \o <<join>>,
       edges |-> [b \in 1..Len(branches) |->
                    Edge(<<"fork-branch", p, b>>, open, branches[b].entry)]
                 \o FlattenSeq([b \in 1..Len(branches) |->
                      Append(branches[b].edges,
                             Edge(<<"fork-terminal", p, b>>, branches[b].exit, terminal(b)))])
                 \o (IF joined = <<>> THEN << Edge(<<"fork-join", p, 0>>, open, join) >>
                     ELSE [j \in 1..Len(joined) |->
                             Edge(<<"fork-join", p, joined[j]>>, terminal(joined[j]), join)]),
       visible |-> visible \cup JoinedOutputs(item, p, after),
       last |-> NoResult,
       declared |-> Declare(DeclareAll(branches), [NoDeclarations EXCEPT
         !.forks = << [path |-> p, open |-> open, join |-> join, joined |-> joined,
                       branches |-> [b \in 1..Len(branches) |->
                         [entry |-> branches[b].entry, terminal |-> terminal(b)]]] >>,
         !.owned = [b \in 1..Len(branches) |-> terminal(b)]])]

(* The body of a loop is a graph of its own, lowered with nothing visible; *)
(* its waits, locks and sagas are declared outside.                        *)
LowerForEach(item, p, visible, body) ==
  LET open == <<"for-each-open", p>>
      result == <<"for-each-result", p>>
  IN  [entry |-> open, exit |-> result, nodes |-> <<open, result>>,
       edges |-> <<AlwaysEdge(open, result)>>,
       visible |-> visible \cup {p}, last |-> result,
       declared |-> [NoDeclarations EXCEPT
         !.waits = body.declared.waits, !.locks = body.declared.locks,
         !.sagas = body.declared.sagas,
         !.loops = << [path |-> p, open |-> open, result |-> result, outer |-> visible,
                       entry |-> body.entry, exit |-> body.exit, nodes |-> body.nodes,
                       edges |-> body.edges, choices |-> body.declared.choices,
                       visibility |-> body.declared.visibility] >>]]

\* The frame of nodes a lock or a saga puts around its body.
Framed(open, body, close, result) ==
  [nodes |-> <<open>> \o body.nodes \o <<close, result>>,
   edges |-> <<AlwaysEdge(open, body.entry)>> \o body.edges
             \o <<AlwaysEdge(body.exit, close), AlwaysEdge(close, result)>>]

LowerLock(item, p, visible, body) ==
  LET acquire == <<"lock-acquire", p>>
      release == <<"lock-release", p>>
      result == <<"lock-result", p>>
      frame == Framed(acquire, body, release, result)
  IN  [entry |-> acquire, exit |-> result, nodes |-> frame.nodes, edges |-> frame.edges,
       visible |-> visible \cup {p}, last |-> result,
       declared |-> Declare(body.declared, [NoDeclarations EXCEPT !.locks =
         << [path |-> p, acquire |-> acquire, release |-> release, result |-> result,
             entry |-> body.entry, exit |-> body.exit, outer |-> visible] >>])]

LowerSaga(item, p, visible, body) ==
  LET open == <<"saga-open", p>>
      commit == <<"saga-commit", p>>
      result == <<"saga-result", p>>
      frame == Framed(open, body, commit, result)
  IN  [entry |-> open, exit |-> result, nodes |-> frame.nodes, edges |-> frame.edges,
       visible |-> visible \cup {p}, last |-> result,
       declared |-> Declare(body.declared, [NoDeclarations EXCEPT !.sagas =
         << [path |-> p, open |-> open, commit |-> commit, result |-> result,
             entry |-> body.entry, exit |-> body.exit, bodyResult |-> body.last,
             outer |-> visible] >>])]

NoFragment ==
  [entry |-> NoResult, exit |-> NoResult, nodes |-> <<>>, edges |-> <<>>, visible |-> {},
   last |-> NoResult, declared |-> NoDeclarations]

RECURSIVE LowerFlow(_, _, _)

\* Every nested flow is lowered with what is visible where its item stands.
LowerFlowItem(item, p, visible) ==
  LET inside == CASE item.kind = "approval" -> visible \cup {p}
                  [] item.kind = "forEach" -> {}
                  [] OTHER -> visible
      flows == [f \in 1..Len(item.flows) |->
                  IF item.kind = "parallel" THEN NoFragment
                  ELSE LowerFlow(item.flows[f], Append(p, f), inside)]
  IN  CASE item.kind = "step" -> LowerStep(p, visible)
        [] item.kind = "wait" -> LowerWait(item, p, visible)
        [] item.kind = "parallel" -> LowerParallel(item, p, visible)
        [] item.kind = "branch" -> LowerResultChoice(item, p, visible, flows)
        [] item.kind \in {"controlChoice", "switch"} ->
             LowerControlChoice(item, p, visible, flows)
        [] item.kind = "approval" -> LowerApproval(item, p, visible, flows)
        [] item.kind = "fork" -> LowerFork(item, p, visible, flows)
        [] item.kind = "forEach" -> LowerForEach(item, p, visible, flows[1])
        [] item.kind = "lock" -> LowerLock(item, p, visible, flows[1])
        [] item.kind = "saga" -> LowerSaga(item, p, visible, flows[1])

LowerFlow(flow, base, visible) ==
  LET Follow(acc, k) ==
        LET fragment == LowerFlowItem(flow[k], Append(base, k), acc.visible) IN
        [entry |-> IF k = 1 THEN fragment.entry ELSE acc.entry,
         exit |-> fragment.exit,
         nodes |-> acc.nodes \o fragment.nodes,
         edges |-> acc.edges
                   \o (IF k = 1 THEN <<>> ELSE <<AlwaysEdge(acc.exit, fragment.entry)>>)
                   \o fragment.edges,
         visible |-> fragment.visible,
         last |-> IF fragment.last = NoResult THEN acc.last ELSE fragment.last,
         declared |-> Declare(acc.declared, fragment.declared)]
  IN  FoldLeftDomain(Follow, [NoFragment EXCEPT !.visible = visible], flow)

-----------------------------------------------------------------------------
(* The compiled model. *)

Settlement == <<"workflow-settlement", <<>>>>

(* A legacy model is the fragment itself.  A structured one ends in the    *)
(* settlement, which waits for the main route and every owned branch; the  *)
(* collections of later profiles are left out of earlier ones.             *)
Model(flow) ==
  LET fragment == LowerFlow(flow, <<>>, {})
      version == ModelVersion(flow)
      owned == fragment.declared.owned
      Only(since, collection) == IF version >= since THEN collection ELSE <<>>
  IN  [version |-> version,
       entry |-> fragment.entry,
       nodes |-> fragment.nodes \o (IF version >= 13 THEN <<Settlement>> ELSE <<>>),
       edges |-> fragment.edges
         \o (IF version >= 13
             THEN << Edge(<<"settle", fragment.exit>>, fragment.exit, Settlement) >>
                    \o [t \in 1..Len(owned) |->
                          Edge(<<"settle", owned[t]>>, owned[t], Settlement)]
             ELSE <<>>),
       main |-> IF version >= 13 THEN fragment.last ELSE fragment.exit,
       owned |-> owned,
       forks |-> fragment.declared.forks,
       choices |-> fragment.declared.choices,
       visibility |-> Only(13, fragment.declared.visibility),
       loops |-> Only(16, fragment.declared.loops),
       waits |-> Only(17, fragment.declared.waits),
       locks |-> Only(18, fragment.declared.locks),
       sagas |-> Only(19, fragment.declared.sagas)]

\* lowerParallel of the legacy profile throws on a durable wait.
RECURSIVE ParallelWait(_)
ParallelWait(flow) ==
  \E k \in 1..Len(flow) :
    \/ flow[k].kind = "parallel"
         /\ \E c \in 1..Len(flow[k].flows[1]) : flow[k].flows[1][c].kind = "wait"
    \/ \E f \in 1..Len(NestedFlows(flow[k])) : ParallelWait(NestedFlows(flow[k])[f])

LegacyLoweringThrows(flow) == ~StructuredGraph(flow) /\ ParallelWait(flow)
===============================================================================
