----------------------------- MODULE MCWorkflow -----------------------------
(* Small instances of WorkflowSystem and of WorkflowEngine.  A behaviour is  *)
(* one of a single part: event delivery with the engine its handlers start   *)
(* executions in, or the engine on its own, with asynchronous executions,    *)
(* definitions of every kind and callers that start and control executions  *)
(* at will.                                                                  *)
EXTENDS WorkflowSystem

CONSTANTS e1, h1, h2, w1, w2

VARIABLE part

OneEvent == {e1}
TwoHandlers == <<h1, h2>>
TwoWorkers == {w1, w2}
FirstApplies == {<<e1, h1>>}

\* Bound: executions that handlers start; a handler that may start no more can
\* still fail.
SystemExecutions == 2

EveryDefinition == {"importable", "unresolvable", "handlerless"}

Alone == INSTANCE WorkflowEngine WITH
  Definitions <- EveryDefinition, EngineAsync <- TRUE

PartsInit == part \in {"system", "engine"} /\ Init

PartsNext ==
  /\ UNCHANGED part
  /\ \/ part = "system" /\ Next /\ Len(execs') <= SystemExecutions
     \/ part = "engine" /\ Alone!EngineNext /\ UNCHANGED <<deliveryVars, faults>>

\* In the engine's part no step of the delivery is enabled that is fair, in the
\* system's no message is queued and no handler runs on its own: the fairness of
\* each part speaks of that part alone.
PartsSpec ==
  /\ PartsInit /\ [][PartsNext]_<<vars, part>>
  /\ Fairness /\ Alone!EngineFairness
=============================================================================
