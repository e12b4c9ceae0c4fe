---------------------------- MODULE ModelValidation ----------------------------
(***************************************************************************)
(* The engine's inspection of a compiled model before it runs it           *)
(* (woml-engine/src/model/validation.rs and the contract of each           *)
(* construct).  The engine trusts nothing the compiler says: it finds the  *)
(* routes of every construct again in the graph.                           *)
(* Left out: the forms of identifiers, expressions, policies and scripts.  *)
(***************************************************************************)
EXTENDS WorkflowCompiler

Role(node) == node[1]
NodeSet(m) == ToSet(m.nodes)
EdgeSet(m) == ToSet(m.edges)
Outgoing(m, n) == SelectSeq(m.edges, LAMBDA e : e.from = n)
Incoming(m, n) == SelectSeq(m.edges, LAMBDA e : e.to = n)
WithRole(m, roles) == {n \in NodeSet(m) : Role(n) \in roles}
Distinct(s) == \A i, j \in 1..Len(s) : s[i] = s[j] => i = j
Sources(edges) == [i \in 1..Len(edges) |-> edges[i].from]
Targets(edges) == [i \in 1..Len(edges) |-> edges[i].to]
Ids(edges) == [i \in 1..Len(edges) |-> edges[i].id]

\* Nodes on a route from `frontier` that goes on past no node of `stops`.
RECURSIVE Route(_, _, _, _)
Route(edges, frontier, stops, seen) ==
  LET next == {e.to : e \in {x \in edges : x.from \in frontier \ stops}} \ (seen \cup frontier)
  IN  IF next = {} THEN seen \cup frontier
      ELSE Route(edges, next, stops, seen \cup frontier)

RouteFrom(m, node, stops) == Route(EdgeSet(m), {node}, stops, {})

-----------------------------------------------------------------------------
(* The graph itself; a body of a loop is inspected the same way. *)

ValidGraph(m) ==
  /\ Distinct(m.nodes) /\ Distinct(Ids(m.edges))
  /\ \A e \in EdgeSet(m) : e.from \in NodeSet(m) /\ e.to \in NodeSet(m)
  /\ m.entry \in NodeSet(m) /\ Incoming(m, m.entry) = <<>>
  /\ RouteFrom(m, m.entry, {}) = NodeSet(m)
  /\ \A e \in EdgeSet(m) : e.from \notin RouteFrom(m, e.to, {})
  /\ \E terminal \in NodeSet(m) :
       \A n \in NodeSet(m) : Outgoing(m, n) = <<>> <=> n = terminal

\* The first model version that executes a node of each role.
HandlerSince(role) ==
  CASE role = "step" -> 1
    [] role \in {"branch-select", "branch-result"} -> 2
    [] role \in {"parallel-start", "parallel-join"} -> 3
    [] role \in {"approval-wait", "approval-join"} -> 4
    [] role = "choice-result" -> 14
    [] role \in {"for-each-open", "for-each-result"} -> 16
    [] role = "wait" -> 17
    [] role \in {"lock-acquire", "lock-release", "lock-result"} -> 18
    [] role \in {"saga-open", "saga-commit", "saga-result"} -> 19
    [] OTHER -> 13

MayJoin == {"branch-result", "parallel-join", "fork-join", "choice-join",
            "workflow-settlement", "approval-join"}
MaySplit == {"branch-select", "parallel-start", "fork-open", "fork-branch-terminal",
             "choice-select", "approval-wait"}

\* What the bounded iteration runtime executes inside a loop.
LoopBodyRoles == {"step", "choice-select", "choice-join", "choice-result",
                  "parallel-start", "parallel-join"}

ExecutableProfile(m) ==
  /\ \A n \in NodeSet(m) :
       /\ m.version >= HandlerSince(Role(n))
       /\ Len(Incoming(m, n)) > 1 => Role(n) \in MayJoin
       /\ Len(Outgoing(m, n)) > 1 => Role(n) \in MaySplit
  /\ \A l \in 1..Len(m.loops) : \A n \in NodeSet(m.loops[l]) : Role(n) \in LoopBodyRoles

-----------------------------------------------------------------------------
(* The contracts of the constructs. *)

ArmsInOrder(edges, tag, p, kinds) ==
  /\ Len(edges) >= 2
  /\ \A a \in 1..Len(edges) :
       edges[a].id = <<tag, p, a, IF a = Len(edges) THEN kinds[2] ELSE kinds[1]>>

\* The arms of a result choice: disjoint routes, each with one join.
BranchContract(m) ==
  \A selector \in WithRole(m, {"branch-select"}) :
    LET p == selector[2]
        result == <<"branch-result", p>>
        arms == Outgoing(m, selector)
        joins == Incoming(m, result)
        routes == [a \in 1..Len(arms) |-> RouteFrom(m, arms[a].to, {result})]
    IN  /\ ArmsInOrder(arms, "branch-arm", p, <<"when", "otherwise">>)
        /\ result \in NodeSet(m) /\ Len(joins) = Len(arms)
        /\ \A a \in 1..Len(arms) :
             /\ result \in routes[a]
             /\ \A b \in 1..(a - 1) : routes[a] \cap routes[b] \subseteq {result}
        /\ \A j \in 1..Len(joins) :
             \E a \in 1..Len(arms) :
               /\ joins[j].from \in routes[a]
               /\ \A b \in 1..Len(arms) \ {a} : joins[j].from \notin routes[b]

ParallelContract(m) ==
  \A start \in WithRole(m, {"parallel-start"}) :
    LET join == <<"parallel-join", start[2]>>
        children == Targets(Outgoing(m, start))
    IN  /\ children # <<>> /\ Distinct(children)
        /\ Sources(Incoming(m, join)) = children
        /\ Outgoing(m, join) # <<>>
        /\ \A c \in ToSet(children) :
             /\ Role(c) = "step" \/ (m.version >= 17 /\ Role(c) = "wait")
             /\ Sources(Incoming(m, c)) = <<start>> /\ Targets(Outgoing(m, c)) = <<join>>

ApprovalContract(m) ==
  \A wait \in WithRole(m, {"approval-wait"}) :
    LET join == <<"approval-join", wait[2]>>
        routes == Outgoing(m, wait)
        joins == Incoming(m, join)
    IN  /\ Ids(routes) = << <<"decision", wait[2], 1, "approved">>,
                            <<"decision", wait[2], 2, "rejected">> >>
        /\ \A d \in 1..2 :
             routes[d].to # join <=>
               \E j \in 1..Len(joins) :
                 /\ joins[j].from # wait
                 /\ joins[j].id = <<"decision-join", wait[2], d, routes[d].id[4]>>
        /\ \A j \in 1..Len(joins) : joins[j].id[1] \in {"decision", "decision-join"}

\* The route of a branch stops at its terminal and at neither join nor settlement.
BranchRoute(m, fork, b) ==
  Route({e \in EdgeSet(m) : e.to \notin {fork.join, Settlement}},
        {fork.branches[b].entry}, {fork.branches[b].terminal}, {})

ForkContract(m) ==
  /\ \A f \in 1..Len(m.forks) :
       LET fork == m.forks[f]
           width == 1..Len(fork.branches)
       IN  /\ width # {}
           /\ \A b \in width :
                /\ Sources(Incoming(m, fork.branches[b].entry)) = <<fork.open>>
                /\ fork.branches[b].terminal \in BranchRoute(m, fork, b)
                /\ \A g \in 1..f : \A c \in 1..Len(m.forks[g].branches) :
                     g < f \/ c < b =>
                       BranchRoute(m, fork, b) \cap BranchRoute(m, m.forks[g], c) = {}
           /\ Sources(Incoming(m, fork.join)) =
                IF fork.joined = <<>> THEN <<fork.open>>
                ELSE [j \in 1..Len(fork.joined) |-> fork.branches[fork.joined[j]].terminal]
  /\ WithRole(m, {"fork-open", "fork-join", "fork-branch-terminal"})
       = UNION {{m.forks[f].open, m.forks[f].join}
                  \cup {m.forks[f].branches[b].terminal : b \in 1..Len(m.forks[f].branches)} :
                f \in 1..Len(m.forks)}

ChoiceKindsOf(choice) ==
  IF choice.arms[1][4] = "case" THEN <<"case", "default">> ELSE <<"when", "otherwise">>

ChoiceContract(m) ==
  /\ \A c \in 1..Len(m.choices) :
       LET choice == m.choices[c]
           joins == Incoming(m, choice.join)
       IN  /\ ArmsInOrder(Outgoing(m, choice.selector), "choice-arm", choice.path,
                          ChoiceKindsOf(choice))
           /\ Ids(Outgoing(m, choice.selector)) = choice.arms
           /\ Len(joins) = Len(choice.arms)
           /\ \A a \in 1..Len(joins) :
                joins[a].id = <<"choice-arm-join", choice.path, a, choice.arms[a][4]>>
           /\ \A r \in 1..Len(choice.result) :
                Sources(Incoming(m, choice.result[r])) = <<choice.join>>
  /\ WithRole(m, {"choice-select", "choice-join", "choice-result"})
       = UNION {{m.choices[c].selector, m.choices[c].join} \cup ToSet(m.choices[c].result) :
                c \in 1..Len(m.choices)}

\* Every script is described once, in the order of the graph.
VisibilityContract(m, known) ==
  /\ [v \in 1..Len(m.visibility) |-> m.visibility[v].node]
       = SelectSeq(m.nodes, LAMBDA n : Role(n) = "step")
  /\ \A v \in 1..Len(m.visibility) : m.visibility[v].ids \subseteq known

\* Paths that are nodes of their own in the graph.
PublicPaths(m) ==
  {n[2] : n \in WithRole(m, {"step", "wait", "branch-result", "choice-result", "parallel-join",
                             "approval-wait", "lock-result", "saga-result",
                             "for-each-result"})}

SettlementContract(m) ==
  LET sources == Sources(Incoming(m, Settlement)) IN
  /\ Settlement \in NodeSet(m) /\ Outgoing(m, Settlement) = <<>>
  /\ m.main \in NodeSet(m)
  /\ m.owned = FlattenSeq([f \in 1..Len(m.forks) |->
                 [b \in 1..Len(m.forks[f].branches) |-> m.forks[f].branches[b].terminal]])
  /\ Len(sources) = Len(m.owned) + 1
  /\ Len(SelectSeq(sources, LAMBDA n : n \notin ToSet(m.owned))) = 1

\* Left out: the references of items, conditions and results, which read what
\* the compiler resolved, and the contract of branches inside a body.
LoopContract(m) ==
  /\ m.version = 16 => m.loops # <<>>
  /\ \A l \in 1..Len(m.loops) :
       LET loop == m.loops[l]
           boundary == {e \in EdgeSet(m) : e.from = loop.open \/ e.to = loop.result}
       IN  /\ loop.outer \subseteq PublicPaths(m)
           /\ \E e \in boundary : boundary = {e} /\ e.from = loop.open /\ e.to = loop.result
           /\ ValidGraph(loop) /\ Outgoing(loop, loop.exit) = <<>>
           /\ NodeSet(loop) \cap NodeSet(m) = {}
           /\ \A n \in NodeSet(loop) :
                \/ Role(n) \in LoopBodyRoles
                \/ Role(n) \in {"branch-select", "branch-result", "lock-acquire",
                                "lock-release", "lock-result"}
           /\ ChoiceContract(loop)
           /\ VisibilityContract(loop, PublicPaths(loop) \ loop.outer)
  /\ WithRole(m, {"for-each-open", "for-each-result"})
       = UNION {{m.loops[l].open, m.loops[l].result} : l \in 1..Len(m.loops)}

\* Nodes of the graph and of the bodies of its loops.
OwnedNodes(m) ==
  NodeSet(m) \cup UNION {NodeSet(m.loops[l]) : l \in 1..Len(m.loops)}

WaitContract(m) ==
  m.version >= 17 =>
    /\ m.version = 17 => m.waits # <<>>
    /\ Distinct(m.waits)
    /\ {n \in OwnedNodes(m) : Role(n) = "wait"} = {m.waits[w].node : w \in 1..Len(m.waits)}

LockContract(m) ==
  m.version >= 18 =>
    /\ \A l \in 1..Len(m.locks) :
         LET lock == m.locks[l]
             owned == {lock.acquire, lock.release, lock.result, lock.entry, lock.exit}
         IN  owned \subseteq NodeSet(m) \/ \E b \in 1..Len(m.loops) : owned \subseteq NodeSet(m.loops[b])
    /\ {n \in OwnedNodes(m) : Role(n) \in {"lock-acquire", "lock-release", "lock-result"}}
         = UNION {{m.locks[l].acquire, m.locks[l].release, m.locks[l].result} :
                  l \in 1..Len(m.locks)}

\* The nodes of a saga are looked for in the graph alone.
SagaContract(m) ==
  m.version >= 19 =>
    /\ m.sagas # <<>>
    /\ \A s \in 1..Len(m.sagas) :
         {m.sagas[s].open, m.sagas[s].commit, m.sagas[s].result, m.sagas[s].entry,
          m.sagas[s].exit, m.sagas[s].bodyResult} \subseteq NodeSet(m)
    /\ WithRole(m, {"saga-open", "saga-commit", "saga-result"})
         = UNION {{m.sagas[s].open, m.sagas[s].commit, m.sagas[s].result} :
                  s \in 1..Len(m.sagas)}

Loads(m) ==
  /\ ValidGraph(m)
  /\ BranchContract(m) /\ ParallelContract(m) /\ ApprovalContract(m)
  /\ m.version >= 13 =>
       /\ ForkContract(m) /\ ChoiceContract(m)
       /\ VisibilityContract(m, PublicPaths(m)) /\ SettlementContract(m)
  /\ m.version >= 16 => LoopContract(m)
  /\ WaitContract(m) /\ LockContract(m) /\ SagaContract(m)
  /\ ExecutableProfile(m)
===============================================================================
