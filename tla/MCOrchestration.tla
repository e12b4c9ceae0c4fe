---------------------------- MODULE MCOrchestration ----------------------------
(***************************************************************************)
(* The components that admit runs (timed triggers, deliveries and internal *)
(* events), those that split a run into concurrent parts (forks and        *)
(* parallel groups), and the store of the artifacts they hand on, for TLC. *)
(* They share no state here: every behaviour belongs to the one component  *)
(* in focus.                                                               *)
(***************************************************************************)
EXTENDS ForkJoin, ParallelGroup, TimedTriggers, MCEventAdmission, MCArtifacts

VARIABLE focus

\* Two hosts with different definitions of one workflow.
MCDeployed == [h \in Hosts |-> IF h = "a" THEN {1} ELSE {2}]

OrchestrationInit ==
  /\ focus \in {"fork", "group", "timed", "event", "artifact"}
  /\ ForkInit /\ GroupInit /\ TimedInit /\ EventInit /\ ArtifactsInit
  /\ focus # "fork" => fjJoined = {}
  /\ focus # "group" => pgPolicy = "wait-all"
  /\ focus # "timed" => ttKind = "interval" /\ ttMissed = "skip"
  /\ focus # "event" => DOMAIN eaHandler = CHOOSE ds \in DeliverySets : TRUE
  /\ focus # "artifact" => arPlan = CHOOSE p \in ArtifactPlans : TRUE

ForkStep ==
  /\ focus = "fork" /\ ForkNext
  /\ UNCHANGED <<focus, pgVars, ttVars, eaVars, arVars>>

GroupStep ==
  /\ focus = "group" /\ GroupNext
  /\ UNCHANGED <<focus, fjVars, ttVars, eaVars, arVars>>

TimedStep ==
  /\ focus = "timed" /\ TimedNext
  /\ UNCHANGED <<focus, fjVars, pgVars, eaVars, arVars>>

EventStep ==
  /\ focus = "event" /\ EventNext
  /\ UNCHANGED <<focus, fjVars, pgVars, ttVars, arVars>>

ArtifactStep ==
  /\ focus = "artifact" /\ ArtifactsNext
  /\ UNCHANGED <<focus, fjVars, pgVars, ttVars, eaVars>>

OrchestrationNext == ForkStep \/ GroupStep \/ TimedStep \/ EventStep \/ ArtifactStep

(***************************************************************************)
(* Types: the rows, projections and drivers of the components.             *)
(***************************************************************************)
OrchestrationTypeOK ==
  CASE focus = "fork" -> ForkTypeOK
    [] focus = "group" -> GroupTypeOK
    [] focus = "timed" -> TimedTypeOK
    [] focus = "event" -> EventTypeOK
    [] focus = "artifact" -> ArtifactRowsOK
===============================================================================
