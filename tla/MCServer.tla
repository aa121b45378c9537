------------------------------ MODULE MCServer ------------------------------
(* server.hpp on small instances: the start of the pool in some behaviours,  *)
(* a loop with its connections in the others.                               *)
EXTENDS Server, LoopThreads

CONSTANT Phases

(* values of Causes: the first connection may be ended by anything, those     *)
(* that have its descriptor after it by their peers; Shutdown and FIN       *)
AnythingThenFin == [c \in Conns |-> IF c = 1 THEN Reasons ELSE {"fin"}]
FinAndApp       == [c \in Conns |-> {"fin", "app"}]

ASSUME PhasesAssumption == Phases \subseteq {"start", "serve"}

VARIABLE phase

serverVars == <<phase, vars, poolVars>>

ServerInit ==
  /\ phase \in Phases /\ Init /\ LoopThreadsInit
  /\ phase = "serve" => lock = [k \in LoopIds |-> "none"]

StartSteps == phase = "start" /\ LoopThreadsNext /\ UNCHANGED <<phase, vars>>
ServeSteps == phase = "serve" /\ Next /\ UNCHANGED <<phase, poolVars>>

ServerSpec == ServerInit /\ [][StartSteps \/ ServeSteps]_serverVars

(* The threads of the start run. *)
StartSpec ==
  /\ ServerSpec
  /\ WF_poolVars(phase = "start" /\ MainStep)
  /\ \A k \in LoopIds : WF_poolVars(phase = "start" /\ RoutineStep(k))
=============================================================================
