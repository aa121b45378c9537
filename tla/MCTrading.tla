----------------------------- MODULE MCTrading ------------------------------
(* The programs of ihs on small instances: the pipeline in some behaviours,  *)
(* a session of a FIX client or the receiver of packets in the others.      *)
EXTENDS Trading, Fix42, FixSession, PacketReceiver

VARIABLE part

allVars == <<part, tradingVars, fixVars, sessionVars, packetVars>>

(* the order of the buffers in the pool does not matter *)
TradeInit ==
  /\ part \in {"pipeline", "fix42", "fix42_a", "packets"}
  /\ TradingInit /\ FixInit /\ SessionInit /\ PacketInit
  /\ free_list = CHOOSE s \in [1..Cardinality(Buffers) -> Buffers] :
                   \A i, j \in DOMAIN s : s[i] = s[j] => i = j

PipelineSteps ==
  part = "pipeline" /\ TradingNext /\ UNCHANGED <<part, fixVars, sessionVars, packetVars>>
Fix42Steps ==
  part = "fix42" /\ FixNext /\ UNCHANGED <<part, tradingVars, sessionVars, packetVars>>
SessionSteps ==
  part = "fix42_a" /\ SessionNext /\ UNCHANGED <<part, tradingVars, fixVars, packetVars>>
PacketSteps ==
  part = "packets" /\ PacketNext /\ UNCHANGED <<part, tradingVars, fixVars, sessionVars>>

(* All threads run and the clock goes on; the user need not type q, the       *)
(* applications need not call, the counterparties may be silent, datagrams   *)
(* need not come.                                                           *)
TradeSpec ==
  /\ TradeInit /\ [][PipelineSteps \/ Fix42Steps \/ SessionSteps \/ PacketSteps]_allVars
  /\ WF_tradingVars(part = "pipeline" /\ MainDoes)
  /\ \A t \in Modules \cup PoolThreads : WF_tradingVars(part = "pipeline" /\ ThreadStep(t))
  /\ WF_fixVars(part = "fix42" /\ ReceiveStep)
  /\ WF_fixVars(part = "fix42" /\ HeartbeatStep)
  /\ \A t \in SessionThreads : WF_sessionVars(part = "fix42_a" /\ ThreadSteps(t))
  /\ WF_packetVars(part = "packets" /\ MainStep)
  /\ \A w \in Workers : WF_packetVars(part = "packets" /\ WorkerStep(w))
=============================================================================
