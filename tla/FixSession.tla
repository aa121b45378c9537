----------------------------- MODULE FixSession -----------------------------
(***************************************************************************)
(* FixSession of ihs/src/fix42_a.cpp with its subclass TradingSession: the *)
(* application's thread, a thread that receives and one that processes.    *)
(*                                                                         *)
(* sendMessage holds socketMutex_ from the number to the end of send, and  *)
(* counts up only what was sent in full.  disconnect takes no lock, wakes  *)
(* nobody and joins both threads; onLogout calls it in the processing      *)
(* thread, whose join of itself throws and is caught by processThreadFunc. *)
(* As in module Fix42 the code cuts at every SOH, so that parseFixMessage  *)
(* throws for every piece: WholeMessages = FALSE.  What the fields hold is *)
(* left out.                                                               *)
(***************************************************************************)
EXTENDS Integers, Sequences

CONSTANTS
  WholeMessages,    \* whether a piece is a message (the code: FALSE)
  MaxRequests,      \* bound: orders and cancel requests
  MaxFromServer     \* bound: messages of the server

ASSUME FixSessionAssumption ==
  /\ WholeMessages \in BOOLEAN /\ MaxRequests \in Nat /\ MaxFromServer \in Nat

VARIABLES
  state_,           \* SessionState
  sockfd_,          \* whether it is a descriptor (not -1)
  run,              \* running_ of the session
  msgSeqNum_,
  socketMutex_,     \* holder, or "none"
  spc,              \* spc[t]: where a thread is
  out42,            \* out42[t]: the number and type t is sending
  then,             \* then[t]: where t goes on after sending
  sent,             \* messages sent in full: numbers
  arriving,         \* sent by the server, not received
  messageQueue_,
  requests, served,
  accepted         \* history: the server has answered the logon

sessionVars == <<state_, sockfd_, run, msgSeqNum_, socketMutex_, spc, out42, then, sent,
                 arriving, messageQueue_, requests, served, accepted>>
sending == <<msgSeqNum_, socketMutex_, out42, sent>>
server == <<arriving, served, accepted>>

SessionThreads == {"app", "recv", "process"}

SessionInit ==
  /\ state_ = "DISCONNECTED" /\ sockfd_ = FALSE /\ run = FALSE
  /\ msgSeqNum_ = 1 /\ socketMutex_ = "none"
  /\ spc = [t \in SessionThreads |-> IF t = "app" THEN "idle" ELSE "none"]
  /\ out42 = [t \in SessionThreads |-> 0]
  /\ then = [t \in SessionThreads |-> "idle"]
  /\ sent = <<>> /\ arriving = <<>> /\ messageQueue_ = <<>>
  /\ requests = 0 /\ served = 0 /\ accepted = FALSE

Move(t, l) == spc' = [spc EXCEPT ![t] = l]

-----------------------------------------------------------------------------
(* sendMessage.                                                            *)

(* Bug: the number is taken before the lock. *)
BuildMessage_Unlocked(t) ==
  /\ spc[t] = "build"
  /\ socketMutex_' = t
  /\ IF sockfd_
       THEN Move(t, "transmit") /\ out42' = [out42 EXCEPT ![t] = msgSeqNum_]
       ELSE Move(t, then[t]) /\ UNCHANGED out42
  /\ UNCHANGED <<state_, sockfd_, run, msgSeqNum_, then, sent, messageQueue_, requests, server>>

(* the lock, the test of the descriptor, the text with its number *)
BuildMessage(t) ==
  /\ spc[t] = "build" /\ socketMutex_ = "none"
  /\ IF sockfd_
       THEN /\ Move(t, "transmit") /\ socketMutex_' = t
            /\ out42' = [out42 EXCEPT ![t] = msgSeqNum_]
       ELSE Move(t, then[t]) /\ UNCHANGED <<socketMutex_, out42>>
  /\ UNCHANGED <<state_, sockfd_, run, msgSeqNum_, then, sent, messageQueue_, requests, server>>

(* send, which may fail or send a part; the number is used up if it did not *)
Transmit(t) ==
  /\ spc[t] = "transmit"
  /\ \/ /\ sockfd_
        /\ sent' = Append(sent, out42[t])
        /\ msgSeqNum_' = msgSeqNum_ + 1
     \/ UNCHANGED <<sent, msgSeqNum_>>
  /\ socketMutex_' = "none"
  /\ Move(t, then[t])
  /\ UNCHANGED <<state_, sockfd_, run, out42, then, messageQueue_, requests, server>>

-----------------------------------------------------------------------------
(* connect (it succeeds), startMessageProcessing, sendLogon *)
Connect ==
  /\ spc["app"] = "idle" /\ state_ = "DISCONNECTED" /\ spc["recv"] = "none"
  /\ sockfd_' = TRUE /\ state_' = "LOGGING_IN" /\ run' = TRUE
  /\ spc' = [app |-> "build", recv |-> "recv", process |-> "process"]
  /\ then' = [then EXCEPT !["app"] = "idle"]
  /\ UNCHANGED <<sending, messageQueue_, requests, server>>

(* sendNewOrderSingle, sendOrderCancelRequest *)
Request ==
  /\ spc["app"] = "idle" /\ state_ = "LOGGED_IN" /\ requests < MaxRequests
  /\ requests' = requests + 1
  /\ then' = [then EXCEPT !["app"] = "idle"]
  /\ Move("app", "build")
  /\ UNCHANGED <<state_, sockfd_, run, sending, messageQueue_, server>>

(* The application calls disconnect. *)
CallDisconnect ==
  /\ spc["app"] = "idle" /\ spc["recv"] # "none"
  /\ Move("app", "disconnect")
  /\ UNCHANGED <<state_, sockfd_, run, then, sending, messageQueue_, requests, server>>

(* disconnect of thread t: a logout if logged in, the descriptor, the flags,  *)
(* the two joins; the processing thread cannot join itself.                 *)
Disconnecting(t) ==
  \/ /\ spc[t] = "disconnect"
     /\ IF sockfd_ /\ state_ = "LOGGED_IN"
          THEN Move(t, "build") /\ then' = [then EXCEPT ![t] = "close"]
          ELSE Move(t, "close") /\ UNCHANGED then
     /\ UNCHANGED <<state_, sockfd_, run>>
  \/ /\ spc[t] = "close"
     /\ sockfd_' = FALSE /\ state_' = "DISCONNECTED" /\ run' = FALSE
     /\ Move(t, "joins") /\ UNCHANGED then
  \/ /\ spc[t] = "joins" /\ spc["recv"] = "ended"
     /\ t = "process" \/ spc["process"] = "ended"
     /\ Move(t, IF t = "process" THEN "process" ELSE "done")
     /\ UNCHANGED <<state_, sockfd_, run, then>>

DisconnectStep(t) ==
  Disconnecting(t) /\ UNCHANGED <<sending, messageQueue_, requests, server>>

-----------------------------------------------------------------------------
(* queueCV_.notify_one *)
Notified == [spc EXCEPT !["process"] = IF @ = "waiting" THEN "process" ELSE @]

(* receiveThreadFunc: the test of running_; recv, which fails at once without *)
(* a descriptor, and which a descriptor closed meanwhile does not wake; then   *)
(* all that has arrived.  The end of the stream is an error to it.            *)
receiveThreadFunc ==
  \/ /\ spc["recv"] = "recv"
     /\ Move("recv", IF ~run THEN "ended" ELSE IF sockfd_ THEN "blocked" ELSE "recv")
     /\ UNCHANGED <<arriving, messageQueue_>>
  \/ /\ spc["recv"] = "blocked" /\ arriving # <<>>
     /\ messageQueue_' = messageQueue_ \o arriving
     /\ arriving' = <<>>
     /\ spc' = [Notified EXCEPT !["recv"] = "recv"]

ReceiveStep_a ==
  receiveThreadFunc
    /\ UNCHANGED <<state_, sockfd_, run, then, sending, requests, served, accepted>>

(* processThreadFunc: the wait, then a message; parseFixMessage throws unless *)
(* it is whole.                                                             *)
processThreadFunc ==
  /\ spc["process"] = "process"
  /\ \/ /\ ~run
        /\ Move("process", "ended") /\ UNCHANGED messageQueue_
     \/ /\ run /\ messageQueue_ = <<>>
        /\ Move("process", "waiting") /\ UNCHANGED messageQueue_
     \/ /\ messageQueue_ # <<>>
        /\ messageQueue_' = Tail(messageQueue_)
        /\ Move("process", IF WholeMessages THEN Head(messageQueue_) ELSE "process")
  /\ UNCHANGED <<state_, sockfd_, run, then, sending, requests, server>>

(* handleMessage: a logon is tested and applied in two steps; a logout calls *)
(* onLogout, which disconnects; a report changes nothing.                   *)
handleMessage ==
  \/ /\ spc["process"] = "LOGON"
     /\ Move("process", IF state_ = "LOGGING_IN" THEN "logged" ELSE "process")
     /\ UNCHANGED state_
  \/ /\ spc["process"] = "logged"
     /\ state_' = "LOGGED_IN"
     /\ Move("process", "process")
  \/ /\ spc["process"] \in {"LOGOUT", "REPORT"}
     /\ Move("process", IF spc["process"] = "LOGOUT" THEN "disconnect" ELSE "process")
     /\ UNCHANGED state_

HandleStep ==
  handleMessage /\ UNCHANGED <<sockfd_, run, then, sending, messageQueue_, requests, server>>

-----------------------------------------------------------------------------
(* external: the server answers the logon, then sends what it likes *)
FromServer ==
  /\ served < MaxFromServer /\ Len(sent) > 0
  /\ served' = served + 1
  /\ accepted' = TRUE
  /\ arriving' \in IF accepted THEN {Append(arriving, m) : m \in {"REPORT", "LOGOUT"}}
                   ELSE {Append(arriving, "LOGON")}
  /\ UNCHANGED <<state_, sockfd_, run, then, spc, sending, messageQueue_, requests>>

ThreadSteps(t) ==
  \/ BuildMessage(t) \/ Transmit(t) \/ DisconnectStep(t)
  \/ t = "recv" /\ ReceiveStep_a
  \/ t = "process" /\ (processThreadFunc \/ HandleStep)

SessionNext ==
  \/ Connect \/ Request \/ CallDisconnect \/ FromServer
  \/ \E t \in SessionThreads : ThreadSteps(t)

SessionSpec == SessionInit /\ [][SessionNext]_sessionVars

-----------------------------------------------------------------------------
(* Properties.                                                             *)

(* The server sees the numbers 1, 2, 3 and so on, in order, whichever thread *)
(* sends (orders, and logouts of both threads) and whichever send fails.     *)
WireInOrder == \A i \in DOMAIN sent : sent[i] = i

(* disconnect returns: both threads end (fix42_a.cpp:154). *)
DisconnectReturns == spc["app"] = "disconnect" ~> spc["app"] = "done"
=============================================================================
