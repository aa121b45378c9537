------------------------------ MODULE MCTimers ------------------------------
(* The timers of both servers on small instances: those of a SubReactor in  *)
(* some behaviours, the wheel of server.hpp in the others.                  *)
EXTENDS Timers, TimerWheel

CONSTANT Parts      \* subset of {"set", "wheel"}

ASSUME PartsAssumption == Parts \subseteq {"set", "wheel"}

VARIABLE part

allVars == <<part, vars, timerWheelVars>>

AllTimersInit == part \in Parts /\ Init /\ WheelInit

SetSteps == part = "set" /\ Next /\ UNCHANGED <<part, timerWheelVars>>
WheelSteps == part = "wheel" /\ WheelNext /\ UNCHANGED <<part, vars>>

(* Time passes, the reactor is scheduled, a call that has begun ends.  No    *)
(* fairness is assumed of the wheel, whose properties are invariants.       *)
AllTimersSpec ==
  /\ AllTimersInit /\ [][SetSteps \/ WheelSteps]_allVars
  /\ WF_vars(part = "set" /\ Tick)
  /\ WF_vars(part = "set" /\ ReactorStep)
  /\ \A t \in Callers : WF_vars(part = "set" /\ registerInsert(t))
=============================================================================
