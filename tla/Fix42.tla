------------------------------- MODULE Fix42 --------------------------------
(***************************************************************************)
(* FIX42Protocol of ihs/src/fix42.cpp: one application thread calls the    *)
(* interface, receiveLoop and heartbeatLoop are threads of the session.    *)
(*                                                                         *)
(* Every message sent passes three steps: the flags are tested, the number *)
(* is taken under mutex_ (createBaseMessage), the message is serialized    *)
(* and sent without it.  The handlers of processReceivedMessage hold       *)
(* mutex_; stopHeartbeatTimer joins the heartbeat thread, and the LOGOUT   *)
(* handler calls it with the mutex.  A message is its type and number;     *)
(* serialize and the checksum are left out.                                *)
(*                                                                         *)
(* receiveLoop cuts what it receives at every SOH, the end of a field, and *)
(* validateMessage wants eight fields: Framing = "field" is the code,      *)
(* Framing = "message" what its comment says it extracts (a whole          *)
(* message), under which the handlers can be checked.                      *)
(***************************************************************************)
EXTENDS Integers, Sequences, FiniteSets

CONSTANTS
  Framing,          \* "field" or "message"
  MaxCalls,         \* bound: messages the application sends
  MaxBeats,         \* bound: heartbeats
  MaxInbound        \* bound: messages of the counterparty

ASSUME Fix42Assumption ==
  /\ Framing \in {"field", "message"}
  /\ MaxCalls \in Nat /\ MaxBeats \in Nat /\ MaxInbound \in Nat

VARIABLES
  is_connected_, is_logged_on_, heartbeat_running_,
  mutex_,           \* the thread that holds it, or "none"
  sender_msg_seq_num_,
  fpc,              \* fpc[t]: where a thread is; "none" has not begun
  msg,              \* msg[t]: what t is going to send: its type and number
  wire,             \* what has been sent
  lost,             \* numbers of messages that could not be sent
  inbound,          \* what the counterparty has sent and nobody has received
  peer,             \* "up" or "closed"
  calls, beats, received,
  answered          \* history: the counterparty has accepted a logon

fixVars == <<is_connected_, is_logged_on_, heartbeat_running_, mutex_, sender_msg_seq_num_,
             fpc, msg, wire, lost, inbound, peer, calls, beats, received, answered>>

flags == <<is_connected_, is_logged_on_, heartbeat_running_>>
world == <<inbound, peer, received, answered>>
FixThreads == {"app", "receive", "heartbeat"}
NoMsg == [type |-> "none", num |-> 0]

FixInit ==
  /\ is_connected_ = FALSE /\ is_logged_on_ = FALSE /\ heartbeat_running_ = FALSE
  /\ mutex_ = "none"
  /\ sender_msg_seq_num_ = 1
  /\ fpc = [t \in FixThreads |-> IF t = "app" THEN "idle" ELSE "none"]
  /\ msg = [t \in FixThreads |-> NoMsg]
  /\ wire = <<>> /\ lost = {} /\ inbound = <<>> /\ peer = "up"
  /\ calls = 0 /\ beats = 0 /\ received = 0 /\ answered = FALSE

Jump(t, l) == fpc' = [fpc EXCEPT ![t] = l]

-----------------------------------------------------------------------------
(* Sending.                                                                *)

(* Bug: the number is read, and counted up only by the next reader. *)
createBaseMessage_Peeks(t) ==
  /\ fpc[t] = "number" /\ mutex_ = "none"
  /\ msg' = [msg EXCEPT ![t].num = sender_msg_seq_num_]
  /\ sender_msg_seq_num_' = IF t = "heartbeat" THEN sender_msg_seq_num_
                            ELSE sender_msg_seq_num_ + 1
  /\ Jump(t, "send")
  /\ UNCHANGED <<flags, mutex_, wire, lost, calls, beats, world>>

(* createBaseMessage, getNextSenderMsgSeqNum *)
createBaseMessage(t) ==
  /\ fpc[t] = "number" /\ mutex_ = "none"
  /\ msg' = [msg EXCEPT ![t].num = sender_msg_seq_num_]
  /\ sender_msg_seq_num_' = sender_msg_seq_num_ + 1
  /\ Jump(t, "send")
  /\ UNCHANGED <<flags, mutex_, wire, lost, calls, beats, world>>

(* where a thread goes on after sending *)
Resume(t) == CASE t = "receive" -> "recv" [] t = "heartbeat" -> "loop"
               [] OTHER -> IF msg[t].type = "LAST" THEN "stop" ELSE "idle"

(* sendMessage: nothing without a connection; send may fail. *)
sendMessage(t) ==
  /\ fpc[t] = "send"
  /\ \/ is_connected_ /\ wire' = Append(wire, msg[t]) /\ UNCHANGED lost
     \/ lost' = lost \cup {msg[t].num} /\ UNCHANGED wire
  /\ msg' = [msg EXCEPT ![t] = NoMsg]
  /\ Jump(t, Resume(t))
  /\ UNCHANGED <<flags, mutex_, sender_msg_seq_num_, calls, beats, world>>

-----------------------------------------------------------------------------
(* The application.                                                        *)

connect ==
  /\ fpc["app"] = "idle" /\ fpc["receive"] = "none"
  /\ is_connected_' = TRUE
  /\ Jump("receive", "recv")
  /\ UNCHANGED <<is_logged_on_, heartbeat_running_, mutex_, sender_msg_seq_num_, msg, wire,
                 lost, calls, beats, world>>

(* logon, logout, sendLimitOrder, cancelOrder *)
Call(type) ==
  /\ fpc["app"] = "idle" /\ calls < MaxCalls
  /\ is_connected_ /\ (type # "LOGON" => is_logged_on_)
  /\ calls' = calls + 1
  /\ msg' = [msg EXCEPT !["app"].type = type]
  /\ Jump("app", "number")
  /\ UNCHANGED <<flags, mutex_, sender_msg_seq_num_, wire, lost, beats, world>>

(* disconnect: a logout first, if logged on; then the timer; then the socket *)
(* is closed; then the receive thread is joined.                           *)
disconnect ==
  \/ /\ fpc["app"] = "idle" /\ is_connected_
     /\ msg' = [msg EXCEPT !["app"].type = IF is_logged_on_ THEN "LAST" ELSE "none"]
     /\ Jump("app", IF is_logged_on_ THEN "number" ELSE "stop")
     /\ UNCHANGED flags
  \/ /\ fpc["app"] = "stop"
     /\ heartbeat_running_' = FALSE
     /\ Jump("app", IF heartbeat_running_ THEN "join" ELSE "close")
     /\ UNCHANGED <<is_connected_, is_logged_on_, msg>>
  \/ /\ fpc["app"] = "join" /\ fpc["heartbeat"] \in {"none", "ended"}
     /\ fpc' = [fpc EXCEPT !["app"] = "close", !["heartbeat"] = "none"]
     /\ UNCHANGED <<flags, msg>>
  \/ /\ fpc["app"] = "close"
     /\ is_connected_' = FALSE
     /\ Jump("app", "wait")
     /\ UNCHANGED <<is_logged_on_, heartbeat_running_, msg>>
  \/ /\ fpc["app"] = "wait" /\ fpc["receive"] = "ended"
     /\ fpc' = [fpc EXCEPT !["app"] = "done"]
     /\ UNCHANGED <<flags, msg>>

Disconnect42 ==
  disconnect /\ UNCHANGED <<mutex_, sender_msg_seq_num_, wire, lost, calls, beats, world>>

-----------------------------------------------------------------------------
(* The receive thread.                                                     *)

ReceiveUnchanged == UNCHANGED <<sender_msg_seq_num_, wire, lost, calls, beats, received, answered>>

(* deserialize: the fields of what was cut off, one or a message's *)
RequiredFields == {"BeginString", "BodyLength", "MsgType", "SenderCompID", "TargetCompID",
                   "MsgSeqNum", "SendingTime", "CheckSum"}
deserialize == IF Framing = "message" THEN RequiredFields ELSE {"BeginString"}

(* validateMessage: all the required fields are there; their values are right *)
Valid == RequiredFields \subseteq deserialize

(* The loop's test; recv, which a descriptor closed meanwhile does not wake;  *)
(* what is cut off, piece by piece without another test; the end of the       *)
(* stream.                                                                  *)
receiveLoop ==
  /\ \/ /\ fpc["receive"] = "recv"
        /\ Jump("receive", IF is_connected_ THEN "blocked" ELSE "ended")
        /\ UNCHANGED <<inbound, msg, flags>>
     \/ /\ fpc["receive"] \in {"recv", "blocked"} /\ inbound # <<>>
        /\ inbound' = Tail(inbound)
        /\ msg' = [msg EXCEPT !["receive"].type = IF Valid THEN Head(inbound) ELSE @]
        /\ Jump("receive", IF Valid THEN "process" ELSE "recv")
        /\ UNCHANGED flags
     \/ /\ fpc["receive"] = "blocked" /\ inbound = <<>> /\ peer = "closed"
        /\ is_connected_' = FALSE /\ is_logged_on_' = FALSE
        /\ Jump("receive", "ended")
        /\ UNCHANGED <<inbound, msg, heartbeat_running_>>
  /\ UNCHANGED <<mutex_, peer>> /\ ReceiveUnchanged

(* LOGON: logged on, and a heartbeat thread unless one runs. *)
OnLogon ==
  /\ is_logged_on_' = TRUE /\ heartbeat_running_' = TRUE
  /\ fpc' = [fpc EXCEPT !["receive"] = "recv",
                        !["heartbeat"] = IF heartbeat_running_ THEN @ ELSE "loop"]
  /\ UNCHANGED <<is_connected_, mutex_>>

(* LOGOUT: the heartbeat thread is joined with the mutex held. *)
OnLogout ==
  /\ is_logged_on_' = FALSE /\ heartbeat_running_' = FALSE
  /\ mutex_' = IF heartbeat_running_ THEN "receive" ELSE "none"
  /\ Jump("receive", IF heartbeat_running_ THEN "joining" ELSE "recv")
  /\ UNCHANGED is_connected_

(* processReceivedMessage: under the mutex, but for the answer to a test. *)
processReceivedMessage ==
  /\ fpc["receive"] = "process" /\ mutex_ = "none"
  /\ LET type == msg["receive"].type IN
     CASE type = "LOGON"  -> OnLogon
       [] type = "LOGOUT" -> OnLogout
       [] type = "TEST"   -> Jump("receive", "number") /\ UNCHANGED <<flags, mutex_>>
       [] OTHER           -> Jump("receive", "recv") /\ UNCHANGED <<flags, mutex_>>
  /\ msg' = [msg EXCEPT !["receive"].type = IF @ = "TEST" THEN "HEARTBEAT" ELSE "none"]
  /\ UNCHANGED <<inbound, peer>> /\ ReceiveUnchanged

joinHeartbeat ==
  /\ fpc["receive"] = "joining" /\ fpc["heartbeat"] \in {"none", "ended"}
  /\ fpc' = [fpc EXCEPT !["receive"] = "recv", !["heartbeat"] = "none"]
  /\ mutex_' = "none"
  /\ UNCHANGED <<flags, msg, inbound, peer>> /\ ReceiveUnchanged

-----------------------------------------------------------------------------
(* heartbeatLoop: the interval passes, the flags are tested, it sends.       *)
heartbeatLoop ==
  /\ fpc["heartbeat"] \in {"loop", "slept"}
  /\ IF fpc["heartbeat"] = "loop"
       THEN /\ Jump("heartbeat", IF heartbeat_running_ THEN "slept" ELSE "ended")
            /\ UNCHANGED <<msg, beats>>
       ELSE IF is_connected_ /\ is_logged_on_ /\ beats < MaxBeats
       THEN /\ beats' = beats + 1
            /\ msg' = [msg EXCEPT !["heartbeat"].type = "HEARTBEAT"]
            /\ Jump("heartbeat", "number")
       ELSE Jump("heartbeat", "loop") /\ UNCHANGED <<msg, beats>>
  /\ UNCHANGED <<flags, mutex_, sender_msg_seq_num_, wire, lost, calls, world>>

-----------------------------------------------------------------------------
(* external: the counterparty answers a logon once, sends what it likes once *)
(* it has, and may close                                                   *)
Counterparty ==
  /\ peer = "up" /\ fpc["receive"] # "none"
  /\ \/ /\ ~answered /\ \E i \in DOMAIN wire : wire[i].type = "LOGON"
        /\ answered' = TRUE
        /\ inbound' = Append(inbound, "LOGON")
        /\ UNCHANGED <<peer, received>>
     \/ /\ answered /\ received < MaxInbound
        /\ received' = received + 1
        /\ \E type \in {"TEST", "REPORT", "LOGOUT"} : inbound' = Append(inbound, type)
        /\ UNCHANGED <<peer, answered>>
     \/ peer' = "closed" /\ UNCHANGED <<inbound, received, answered>>
  /\ UNCHANGED <<flags, mutex_, sender_msg_seq_num_, fpc, msg, wire, lost, calls, beats>>

ReceiveStep == receiveLoop \/ processReceivedMessage \/ joinHeartbeat
               \/ createBaseMessage("receive") \/ sendMessage("receive")
HeartbeatStep == heartbeatLoop \/ createBaseMessage("heartbeat") \/ sendMessage("heartbeat")
AppStep == Disconnect42 \/ createBaseMessage("app") \/ sendMessage("app")

FixNext ==
  \/ connect \/ \E type \in {"LOGON", "ORDER", "LOGOUT"} : Call(type)
  \/ AppStep \/ ReceiveStep \/ HeartbeatStep \/ Counterparty

FixSpec == FixInit /\ [][FixNext]_fixVars

-----------------------------------------------------------------------------
(* Properties.                                                             *)

(* Three threads take numbers: none is given to two messages and none is     *)
(* forgotten.  Each is on the wire once, in the hand of one thread, or was   *)
(* lost with a message that could not be sent.                              *)
NumbersAccounted ==
  /\ \A n \in 1..(sender_msg_seq_num_ - 1) :
        Cardinality({i \in DOMAIN wire : wire[i].num = n})
          + Cardinality({t \in FixThreads : fpc[t] = "send" /\ msg[t].num = n})
          + (IF n \in lost THEN 1 ELSE 0) = 1
  /\ \A i \in DOMAIN wire : wire[i].num < sender_msg_seq_num_

(* A logon the counterparty accepts logs the session on, while the           *)
(* connection lasts; no order is sent before.  The loop is to "extract the    *)
(* complete message" (fix42.cpp:660).                                       *)
LogonCompletes ==
  (\E i \in DOMAIN inbound : inbound[i] = "LOGON") ~> (is_logged_on_ \/ ~is_connected_)

(* The LOGOUT handler returns: the heartbeat thread it joins, with mutex_     *)
(* held (fix42.cpp:386-388), ends.                                          *)
LogoutEnds == fpc["receive"] = "joining" ~> fpc["receive"] # "joining"
=============================================================================
