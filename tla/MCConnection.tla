---------------------------- MODULE MCConnection ----------------------------
(* What one connection of the muduo library meets, on small instances: the  *)
(* acceptor that gives it to a sub-reactor (an int of four bits, started    *)
(* far from and just before the two places where the index jumps), its send *)
(* buffer byte by byte with payloads of up to MaxLen, its sends, writes and *)
(* closes, and the example server.  A behaviour is about one of them; the   *)
(* others stay as they start.                                              *)
EXTENDS SimpleBuffer, Connection, MainReactor, CubeServer

CONSTANTS
  Parts,            \* subset of {"bytes", "units", "accept", "cube"}
  MaxLen

ASSUME PartsAssumption ==
  Parts \subseteq {"bytes", "units", "accept", "cube"} /\ MaxLen \in Nat

SomePayloads == UNION {[1..n -> Bytes] : n \in 0..MaxLen}
SomeStarts == {-8, -3, 0, 5}

VARIABLE part

allVars == <<part, vars, connVars, mainVars, cubeVars>>

LifeInit ==
  /\ part \in Parts
  /\ Init /\ ConnInit /\ MainInit /\ CubeInit
  /\ part # "accept" => next_sub_idx_ = 0

ByteSteps == part = "bytes" /\ Next /\ UNCHANGED <<part, connVars, mainVars, cubeVars>>
UnitSteps == part = "units" /\ ConnNext /\ UNCHANGED <<part, vars, mainVars, cubeVars>>
AcceptSteps == part = "accept" /\ MainNext /\ UNCHANGED <<part, vars, connVars, cubeVars>>
CubeSteps == part = "cube" /\ CubeNext /\ UNCHANGED <<part, vars, connVars, mainVars>>

(* A call of send that has started goes on, the reactors handle what is     *)
(* there, and the peer reads.  Nobody has to call send or close, and no     *)
(* client has to come or to reset.                                         *)
LifeSpec ==
  /\ LifeInit /\ [][ByteSteps \/ UnitSteps \/ AcceptSteps \/ CubeSteps]_allVars
  /\ \A t \in Senders : SF_connVars(part = "units" /\ SendSteps(t))
  /\ SF_connVars(part = "units" /\ ReactorSteps)
  /\ WF_connVars(part = "units" /\ PeerReads)
  /\ WF_mainVars(part = "accept" /\ MainLoop)
=============================================================================
