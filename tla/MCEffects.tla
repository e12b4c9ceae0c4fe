------------------------------- MODULE MCEffects -------------------------------
(***************************************************************************)
(* The components that execute effects which must not be repeated (remote  *)
(* dispatches, mutations of durable state, corrections of a saga, the      *)
(* iterations of a loop, and lifecycle hooks), and the output they leave    *)
(* behind, for TLC.  They share no state here: every behaviour belongs to  *)
(* the one component in focus.                                             *)
(***************************************************************************)
EXTENDS RemoteDispatch, DurableState, SagaCorrection, ForEachLoops, Lifecycle,
        OperationalOutput

VARIABLE focus

StateCall(op, key, amount, guard) ==
  [op |-> op, key |-> key, amount |-> amount, guard |-> guard]

ScriptsOf(p, q) == [r \in StateRuns |-> IF r = "p" THEN p ELSE q]

\* A guarded write against a delete; a counter that is deleted and claimed
\* again; a claim against a counter and the key limit.
MCStateScripts ==
  {ScriptsOf(<<StateCall("get", "k", 0, "none"), StateCall("set", "k", 1, "seen")>>,
             <<StateCall("delete", "k", 0, "none")>>),
   ScriptsOf(<<StateCall("increment", "k", 1, "none"), StateCall("delete", "k", 0, "none"),
               StateCall("set_if_absent", "k", 1, "none")>>,
             <<>>),
   ScriptsOf(<<StateCall("set_if_absent", "k", 1, "none")>>,
             <<StateCall("increment", "k", 1, "none"), StateCall("set", "m", 1, "none")>>)}

MCStateAttempts == [r \in StateRuns |-> IF r = "p" THEN 2 ELSE 1]

HookDefinition(declared, kinds, wait, reusable, attempts) ==
  [hooks |-> [e \in declared |-> kinds], wait |-> wait, reusable |-> reusable,
   attempts |-> attempts]

\* Hooks of the run, of the step and of a reusable step, with and without a
\* wait behind the step; a hook of two actions; and no hook at all.
MCHookDefinitions ==
  {HookDefinition(RunEvents, <<k>>, w, {}, 1) : k \in {"script", "notify"}, w \in BOOLEAN}
  \cup {HookDefinition(StepEvents \cup {"RunComplete"}, <<"script">>, w, r, 2) :
           w \in BOOLEAN, r \in {{}, ReusableHooks}}
  \cup {HookDefinition({"StepSuccess"}, <<"notify">>, TRUE, {}, 1),
        HookDefinition({"RunSuccess", "RunFailure"}, <<"custom", "script">>, FALSE,
                       {"OnComplete"}, 1),
        HookDefinition({}, <<>>, FALSE, {"OnError"}, 2)}

OutputPlan(acts, records, most) == [acts |-> acts, records |-> records, most |-> most]

\* Progress within and without the cadence; two processes streamed in one
\* attempt; a worker's records; both runs; and, for the other components, none.
MCWriterPlans ==
  {OutputPlan(<<"log", "progress", "progress">>, 0, 7),
   OutputPlan(<<"stream", "chunk", "chunk", "exit", "stream", "chunk", "chunk">>, 0, 8),
   OutputPlan(<<>>, 2, 4), OutputPlan(<<"log">>, 1, 4), OutputPlan(<<>>, 0, 0)}

EffectsInit ==
  /\ focus \in {"remote", "state", "saga", "loop", "hooks", "output"}
  /\ RemoteInit /\ StateInit /\ SagaInit /\ LoopInit /\ HookInit
  /\ OutputInit
  /\ focus # "output" => ooHost.most = 0 /\ ooReader.subject = "workflow"
  /\ focus = "output" => ooHost.most > 0
  /\ ooHost.plan # <<>> /\ ooHost.records > 0 => ooReader.subject = "workflow"
  /\ focus # "hooks" => lcDef = CHOOSE d \in HookDefinitions : TRUE
  /\ focus # "state" => stCalls = CHOOSE s \in StateScripts : TRUE
  /\ focus # "loop" => feSchema = "v16"

RemoteStep ==
  /\ focus = "remote" /\ RemoteNext
  /\ UNCHANGED <<focus, stVars, sgVars, feVars, lcVars, ooVars>>

StateStep ==
  /\ focus = "state" /\ StateNext
  /\ UNCHANGED <<focus, rdVars, sgVars, feVars, lcVars, ooVars>>

SagaStep ==
  /\ focus = "saga" /\ SagaNext
  /\ UNCHANGED <<focus, rdVars, stVars, feVars, lcVars, ooVars>>

LoopStep ==
  /\ focus = "loop" /\ LoopNext
  /\ UNCHANGED <<focus, rdVars, stVars, sgVars, lcVars, ooVars>>

HookStep ==
  /\ focus = "hooks" /\ HookNext
  /\ UNCHANGED <<focus, rdVars, stVars, sgVars, feVars, ooVars>>

OutputStep ==
  /\ focus = "output" /\ OutputNext
  /\ UNCHANGED <<focus, rdVars, stVars, sgVars, feVars, lcVars>>

EffectsNext ==
  RemoteStep \/ StateStep \/ SagaStep \/ LoopStep \/ HookStep \/ OutputStep

(***************************************************************************)
(* Types: the rows, histories and drivers of the components.               *)
(***************************************************************************)
EffectsTypeOK ==
  CASE focus = "remote" -> RemoteTypeOK
    [] focus = "state" -> StateTypeOK
    [] focus = "saga" -> SagaTypeOK
    [] focus = "loop" -> LoopTypeOK
    [] focus = "hooks" -> LifecycleTypeOK
    [] focus = "output" -> OutputRowsOK
===============================================================================
