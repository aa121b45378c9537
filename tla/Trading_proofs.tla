--------------------------- MODULE Trading_proofs ---------------------------
(***************************************************************************)
(* Proofs about the clients and the receiver of ihs: FixSession, Fix42 and *)
(* PacketReceiver.                                                         *)
(***************************************************************************)
EXTENDS FixSession, Fix42, PacketReceiver, FiniteSetTheorems, SequenceTheorems, TLAPS

-----------------------------------------------------------------------------
(* FixSession.                                                             *)

ServerMessages == {"LOGON", "LOGOUT", "REPORT"}

SessionPcs == ServerMessages \cup {"idle", "none", "build", "transmit", "disconnect", "close",
                "joins", "done", "recv", "blocked", "ended", "process", "waiting", "logged"}

SessionTypeOK ==
  /\ msgSeqNum_ \in Nat
  /\ spc \in [SessionThreads -> SessionPcs]
  /\ out42 \in [SessionThreads -> Nat]
  /\ then \in [SessionThreads -> {"idle", "close"}]
  /\ sent \in Seq(Nat)
  /\ arriving \in Seq(ServerMessages) /\ messageQueue_ \in Seq(ServerMessages)

(* Who transmits holds socketMutex_, and the number of the message in its   *)
(* hand is still the next one.                                             *)
HolderTransmits ==
  \A t \in SessionThreads :
     spc[t] = "transmit" => socketMutex_ = t /\ out42[t] = msgSeqNum_

(* The next number is that of the next message on the wire. *)
NextIsNew == msgSeqNum_ = Len(sent) + 1

SessionInv == SessionTypeOK /\ HolderTransmits /\ NextIsNew /\ WireInOrder

(* A new session has sent nothing. *)
LEMMA SessionInitInv == SessionInit => SessionInv
  BY DEF SessionInit, SessionInv, SessionTypeOK, HolderTransmits, NextIsNew, WireInOrder,
         SessionThreads, SessionPcs, ServerMessages

(* sendMessage: the test, the number and the send, by any thread. *)
LEMMA SendInv ==
  ASSUME SessionInv, NEW t \in SessionThreads, BuildMessage(t) \/ Transmit(t)
  PROVE  SessionInv'
  <1> USE DEF SessionInv, SessionTypeOK, HolderTransmits, NextIsNew, WireInOrder, Move, SessionPcs,
              ServerMessages
  <1>1. CASE BuildMessage(t)
    <2>1. msgSeqNum_' = msgSeqNum_ /\ sent' = sent /\ then' = then /\ messageQueue_' = messageQueue_
          /\ arriving' = arriving
      BY <1>1 DEF BuildMessage, server
    <2>2. CASE sockfd_
      <3>1. \A u \in SessionThreads : spc[u] # "transmit"
        BY <1>1 DEF BuildMessage, SessionThreads
      <3>2. /\ spc' = [spc EXCEPT ![t] = "transmit"] /\ socketMutex_' = t
            /\ out42' = [out42 EXCEPT ![t] = msgSeqNum_]
        BY <1>1, <2>2 DEF BuildMessage
      <3>3. SessionTypeOK'
        BY <2>1, <3>2
      <3>4. HolderTransmits'
        BY <2>1, <3>1, <3>2
      <3>5. QED
        BY <2>1, <3>3, <3>4
    <2>3. CASE ~sockfd_
      BY <1>1, <2>1, <2>3 DEF BuildMessage
    <2>4. QED
      BY <2>2, <2>3
  <1>2. CASE Transmit(t)
    <2>1. socketMutex_ = t /\ out42[t] = msgSeqNum_
      BY <1>2 DEF Transmit
    <2>2. spc' \in [SessionThreads -> SessionPcs] /\ \A u \in SessionThreads : spc'[u] # "transmit"
      BY <1>2, <2>1 DEF Transmit
    <2>3. UNCHANGED <<out42, then, messageQueue_, arriving>>
      BY <1>2 DEF Transmit, server
    <2>4. CASE sent' = Append(sent, out42[t]) /\ msgSeqNum_' = msgSeqNum_ + 1
      <3>1. sent' \in Seq(Nat) /\ Len(sent') = Len(sent) + 1 /\ DOMAIN sent' = 1..Len(sent')
        BY <2>1, <2>4
      <3>2. \A i \in 1..Len(sent) : sent'[i] = i
        BY <2>1, <2>4
      <3>3. sent'[Len(sent) + 1] = Len(sent) + 1
        BY <2>1, <2>4
      <3>4. WireInOrder'
        BY <3>1, <3>2, <3>3
      <3>5. QED
        BY <2>2, <2>3, <2>4, <3>1, <3>4
    <2>5. CASE UNCHANGED <<sent, msgSeqNum_>>
      BY <2>2, <2>3, <2>5
    <2>6. QED
      BY <1>2, <2>4, <2>5 DEF Transmit
  <1>3. QED
    BY <1>1, <1>2

(* The application's calls and disconnect: nobody gets to "transmit". *)
LEMMA SessionCallInv ==
  ASSUME SessionInv,
         Connect \/ Request \/ CallDisconnect \/ \E t \in SessionThreads : DisconnectStep(t)
  PROVE  SessionInv'
  <1> USE DEF SessionInv, SessionTypeOK, HolderTransmits, NextIsNew, WireInOrder, Move, SessionPcs, ServerMessages,
              sending, server, SessionThreads
  <1>1. CASE Connect
    BY <1>1 DEF Connect
  <1>2. CASE Request
    BY <1>2 DEF Request
  <1>3. CASE CallDisconnect
    BY <1>3 DEF CallDisconnect
  <1>4. ASSUME NEW t \in SessionThreads, DisconnectStep(t) PROVE SessionInv'
    BY <1>4 DEF DisconnectStep, Disconnecting
  <1>5. QED
    BY <1>1, <1>2, <1>3, <1>4

(* The receiving and the processing thread, and the server. *)
LEMMA SessionReceiveInv ==
  ASSUME SessionInv, ReceiveStep_a \/ processThreadFunc \/ HandleStep \/ FromServer
  PROVE  SessionInv'
  <1> USE DEF SessionInv, SessionTypeOK, HolderTransmits, NextIsNew, WireInOrder, Move, SessionPcs, ServerMessages,
              sending, server, SessionThreads
  <1>1. CASE ReceiveStep_a
    <2>1. UNCHANGED <<msgSeqNum_, socketMutex_, out42, sent, then>>
      BY <1>1 DEF ReceiveStep_a
    <2>2. arriving' \in Seq(ServerMessages) /\ messageQueue_' \in Seq(ServerMessages)
      <3> HIDE DEF ServerMessages
      <3>1. messageQueue_ \o arriving \in Seq(ServerMessages) /\ <<>> \in Seq(ServerMessages)
        BY ConcatProperties
      <3>2. QED
        BY <1>1, <3>1 DEF ReceiveStep_a, receiveThreadFunc
    <2>3. spc' \in [SessionThreads -> SessionPcs]
      BY <1>1 DEF ReceiveStep_a, receiveThreadFunc, Notified
    <2>4. \A t \in SessionThreads : spc'[t] = "transmit" => spc[t] = "transmit"
      BY <1>1 DEF ReceiveStep_a, receiveThreadFunc, Notified
    <2>5. QED
      BY <2>1, <2>2, <2>3, <2>4
  <1>2. CASE processThreadFunc
    <2>1. messageQueue_ # <<>> => /\ Head(messageQueue_) \in ServerMessages
                                  /\ Tail(messageQueue_) \in Seq(ServerMessages)
      OBVIOUS
    <2>2. messageQueue_' \in Seq(ServerMessages)
      BY <1>2, <2>1 DEF processThreadFunc
    <2>3. UNCHANGED <<msgSeqNum_, socketMutex_, out42, sent, then, arriving>>
      BY <1>2 DEF processThreadFunc
    <2>4. \E l \in SessionPcs \ {"transmit"} : Move("process", l)
      BY <1>2, <2>1 DEF processThreadFunc
    <2>5. QED
      BY <2>2, <2>3, <2>4
  <1>3. CASE HandleStep
    BY <1>3 DEF HandleStep, handleMessage
  <1>4. CASE FromServer
    <2>1. arriving' \in Seq(ServerMessages)
      <3>1. \A m \in ServerMessages : Append(arriving, m) \in Seq(ServerMessages)
        OBVIOUS
      <3>2. \E m \in ServerMessages : arriving' = Append(arriving, m)
        BY <1>4 DEF FromServer
      <3>3. QED
        BY <3>1, <3>2
    <2>2. QED
      BY <1>4, <2>1 DEF FromServer
  <1>5. QED
    BY <1>1, <1>2, <1>3, <1>4

(* The numbers on the wire of a FixSession are 1, 2, 3, ... whichever threads *)
(* call sendMessage and whichever sends fail: socketMutex_ spans the number  *)
(* and the send.                                                           *)
THEOREM SessionWireInOrder == SessionSpec => []WireInOrder
  <1>1. SessionInv /\ [SessionNext]_sessionVars => SessionInv'
    <2> SUFFICES ASSUME SessionInv, [SessionNext]_sessionVars PROVE SessionInv'
      OBVIOUS
    <2>1. CASE UNCHANGED sessionVars
      BY <2>1 DEF sessionVars, SessionInv, SessionTypeOK, HolderTransmits, NextIsNew,
                  WireInOrder
    <2>2. CASE SessionNext
      BY <2>2, SendInv, SessionCallInv, SessionReceiveInv DEF SessionNext, ThreadSteps
    <2>3. QED
      BY <2>1, <2>2
  <1>2. SessionInv => WireInOrder
    BY DEF SessionInv
  <1>3. QED
    BY SessionInitInv, <1>1, <1>2, PTL DEF SessionSpec

-----------------------------------------------------------------------------
(* PacketReceiver.                                                         *)

Has(s, b) == \E i \in DOMAIN s : s[i] = b

(* push at the back of a queue, of a buffer that is not in it *)
LEMMA HasAppend ==
  ASSUME NEW S, NEW s \in Seq(S), NEW x \in S
  PROVE  /\ Append(s, x) \in Seq(S)
         /\ \A b : Has(Append(s, x), b) <=> Has(s, b) \/ b = x
         /\ IsInjective(s) /\ ~Has(s, x) => IsInjective(Append(s, x))
  BY AppendProperties DEF Has, IsInjective

(* pop at the front of a queue without duplicates *)
LEMMA HasTail ==
  ASSUME NEW S, NEW s \in Seq(S), s # <<>>
  PROVE  /\ Tail(s) \in Seq(S) /\ Head(s) \in S
         /\ Len(Tail(s)) = Len(s) - 1
         /\ \A b : Has(s, b) <=> Has(Tail(s), b) \/ b = Head(s)
         /\ IsInjective(s) => IsInjective(Tail(s)) /\ ~Has(Tail(s), Head(s))
  <1>1. PICK n \in Nat : Len(s) = n /\ n >= 1
    OBVIOUS
  <1>2. /\ Tail(s) \in Seq(S) /\ Len(Tail(s)) = n - 1 /\ Head(s) = s[1] /\ Head(s) \in S
        /\ DOMAIN s = 1..n /\ DOMAIN Tail(s) = 1..(n - 1)
        /\ \A i \in 1..(n - 1) : Tail(s)[i] = s[i + 1]
    BY <1>1
  <1>3. \A b : Has(s, b) <=> Has(Tail(s), b) \/ b = Head(s)
    <2> SUFFICES ASSUME NEW b PROVE Has(s, b) <=> Has(Tail(s), b) \/ b = Head(s)
      OBVIOUS
    <2>1. ASSUME NEW i \in 1..n, s[i] = b, i # 1 PROVE Has(Tail(s), b)
      <3>1. i - 1 \in 1..(n - 1) /\ Tail(s)[i - 1] = s[i]
        BY <1>1, <1>2, <2>1
      <3>2. QED
        BY <1>2, <2>1, <3>1 DEF Has
    <2>2. ASSUME NEW i \in 1..(n - 1), Tail(s)[i] = b PROVE Has(s, b)
      BY <1>1, <1>2, <2>2 DEF Has
    <2>3. 1 \in 1..n
      BY <1>1
    <2>4. QED
      BY <1>2, <2>1, <2>2, <2>3 DEF Has
  <1>4. IsInjective(s) => IsInjective(Tail(s)) /\ ~Has(Tail(s), Head(s))
    BY <1>1, <1>2 DEF Has, IsInjective
  <1>5. QED
    BY <1>1, <1>2, <1>3, <1>4

PacketTypeOK ==
  /\ free_list \in Seq(Buffers)
  /\ queues \in [Workers -> Seq(Buffers)]
  /\ \A w \in Workers : Len(queues[w]) < QueueSize
  /\ mpc \in {"epoll", "acquire", "recvfrom", "push", "join", "end"}
  /\ buf \in Buffers \cup {NoBuffer}
  /\ worker_index \in Workers
  /\ packet \in [Workers -> Buffers \cup {NoBuffer}]

(* The main thread has a buffer in its hand between acquire and push. *)
HandFollowsPc == buf \in Buffers <=> mpc \in {"recvfrom", "push"}

(* No queue has a buffer twice. *)
NoDuplicates == IsInjective(free_list) /\ \A w \in Workers : IsInjective(queues[w])

(* A buffer is in the pool, in the main thread's hand, in a queue or in a     *)
(* worker's hand, in no two of them at a time.                              *)
Somewhere(b) ==
  Has(free_list, b) \/ buf = b \/ \E w \in Workers : Has(queues[w], b) \/ packet[w] = b
PoolApart(b) ==
  Has(free_list, b) => buf # b /\ \A w \in Workers : ~Has(queues[w], b) /\ packet[w] # b
HandApart(b) ==
  buf = b => \A w \in Workers : ~Has(queues[w], b) /\ packet[w] # b
WorkersApart(b) ==
  \A v, w \in Workers :
     /\ Has(queues[v], b) => packet[w] # b
     /\ Has(queues[v], b) /\ Has(queues[w], b) => v = w
     /\ packet[v] = b /\ packet[w] = b => v = w
OnePlace ==
  \A b \in Buffers : Somewhere(b) /\ PoolApart(b) /\ HandApart(b) /\ WorkersApart(b)

PacketInv == PacketTypeOK /\ HandFollowsPc /\ NoDuplicates /\ OnePlace

(* The pool starts with every buffer, once. *)
LEMMA PacketInitInv == PacketInit => PacketInv
  <1> SUFFICES ASSUME PacketInit PROVE PacketInv
    OBVIOUS
  <1> USE PacketReceiverAssumption
  <1> DEFINE n == Cardinality(Buffers)
  <1>1. n \in Nat
    BY FS_CardinalityType
  <1>2. free_list \in Injection(1..n, Buffers)
    BY DEF PacketInit, Injection, IsInjective
  <1>3. IsFiniteSet(1..n) /\ Cardinality(1..n) = n
    BY <1>1, FS_Interval
  <1>4. free_list \in Surjection(1..n, Buffers)
    BY <1>2, <1>3, FS_Injection
  <1>5. free_list \in Seq(Buffers)
    BY <1>1, <1>2 DEF Injection
  <1>6. \A b \in Buffers : Has(free_list, b)
    BY <1>4 DEF Surjection, Has
  <1>7. PacketTypeOK /\ HandFollowsPc
    BY <1>5 DEF PacketInit, PacketTypeOK, HandFollowsPc, Workers
  <1>8. NoDuplicates
    BY <1>2 DEF PacketInit, NoDuplicates, Injection, IsInjective
  <1>9. \A w \in Workers : \A b \in Buffers : ~Has(queues[w], b) /\ packet[w] # b /\ buf # b
    BY DEF PacketInit, Has
  <1>10. OnePlace
    BY <1>6, <1>9 DEF OnePlace, Somewhere, PoolApart, HandApart, WorkersApart, PacketInit
  <1>11. QED
    BY <1>7, <1>8, <1>10 DEF PacketInv

(* acquire: a buffer of the pool goes into the main thread's hand. *)
LEMMA AcquireInv == ASSUME PacketInv, Acquire PROVE PacketInv'
  <1> USE PacketReceiverAssumption DEF PacketInv
  <1>1. CASE free_list = <<>>
    BY <1>1 DEF Acquire, PacketTypeOK, HandFollowsPc, NoDuplicates, OnePlace, Somewhere,
                PoolApart, HandApart, WorkersApart
  <1>2. CASE free_list # <<>>
    <2>1. /\ buf' = Head(free_list) /\ free_list' = Tail(free_list) /\ mpc' = "recvfrom"
          /\ UNCHANGED <<queues, worker_index, packet>>
      BY <1>2 DEF Acquire
    <2>2. /\ free_list' \in Seq(Buffers) /\ buf' \in Buffers
          /\ \A b : Has(free_list, b) <=> Has(free_list', b) \/ b = buf'
          /\ IsInjective(free_list') /\ ~Has(free_list', buf')
      BY <1>2, <2>1, HasTail DEF PacketTypeOK, NoDuplicates
    <2>3. PacketTypeOK' /\ HandFollowsPc' /\ NoDuplicates'
      BY <2>1, <2>2 DEF PacketTypeOK, HandFollowsPc, NoDuplicates
    <2>4. buf = NoBuffer
      BY DEF Acquire, PacketTypeOK, HandFollowsPc
    <2>5. OnePlace'
      BY <2>1, <2>2, <2>4, Zenon
         DEF OnePlace, Somewhere, PoolApart, HandApart, WorkersApart
    <2>6. QED
      BY <2>3, <2>5
  <1>3. QED
    BY <1>1, <1>2

(* recvfrom: the buffer stays, or goes back to the pool. *)
LEMMA RecvfromInv == ASSUME PacketInv, Recvfrom PROVE PacketInv'
  <1> USE PacketReceiverAssumption DEF PacketInv
  <1>1. CASE mpc' = "push" /\ UNCHANGED <<free_list, buf>>
    BY <1>1 DEF Recvfrom, PacketTypeOK, HandFollowsPc, NoDuplicates, OnePlace, Somewhere,
                PoolApart, HandApart, WorkersApart
  <1>2. CASE /\ mpc' \in {"acquire", "epoll"}
             /\ free_list' = Append(free_list, buf) /\ buf' = NoBuffer
    <2>1. UNCHANGED <<queues, worker_index, packet>> /\ buf \in Buffers
      BY DEF Recvfrom, HandFollowsPc
    <2>2. ~Has(free_list, buf)
      BY <2>1 DEF OnePlace, PoolApart
    <2>3. /\ free_list' \in Seq(Buffers)
          /\ \A b : Has(free_list', b) <=> Has(free_list, b) \/ b = buf
          /\ IsInjective(free_list')
      BY <1>2, <2>1, <2>2, HasAppend DEF PacketTypeOK, NoDuplicates
    <2>4. PacketTypeOK' /\ HandFollowsPc' /\ NoDuplicates'
      BY <1>2, <2>1, <2>3 DEF PacketTypeOK, HandFollowsPc, NoDuplicates
    <2>5. OnePlace'
      BY <1>2, <2>1, <2>3, Zenon
         DEF OnePlace, Somewhere, PoolApart, HandApart, WorkersApart
    <2>6. QED
      BY <2>4, <2>5
  <1>3. QED
    BY <1>1, <1>2 DEF Recvfrom

(* The turn stays among the workers. *)
LEMMA NextWorkerType == ASSUME worker_index \in Workers PROVE NextWorker \in Workers
  BY PacketReceiverAssumption DEF Workers, NextWorker

(* push: the buffer goes into the queue whose turn it is, or stays. *)
LEMMA DispatchInv == ASSUME PacketInv, Dispatch PROVE PacketInv'
  <1> USE PacketReceiverAssumption DEF PacketInv
  <1>0. worker_index' \in Workers /\ worker_index \in Workers
    BY NextWorkerType DEF Dispatch, PacketTypeOK
  <1>1. CASE Len(queues[worker_index]) = QueueSize - 1
    BY <1>0, <1>1 DEF Dispatch, PacketTypeOK, HandFollowsPc, NoDuplicates, OnePlace, Somewhere,
                PoolApart, HandApart, WorkersApart
  <1>2. CASE Len(queues[worker_index]) # QueueSize - 1
    <2> DEFINE q == queues[worker_index]
    <2>1. /\ queues' = [queues EXCEPT ![worker_index] = Append(q, buf)]
          /\ mpc' = "acquire" /\ buf' = NoBuffer
          /\ UNCHANGED <<free_list, packet>> /\ buf \in Buffers
      BY <1>2 DEF Dispatch, HandFollowsPc
    <2>2. ~Has(q, buf)
      BY <1>0, <2>1 DEF OnePlace, HandApart
    <2>3. q \in Seq(Buffers) /\ Len(q) < QueueSize - 1
      BY <1>0, <1>2 DEF PacketTypeOK
    <2>4. /\ Append(q, buf) \in Seq(Buffers) /\ IsInjective(Append(q, buf))
          /\ \A b : Has(Append(q, buf), b) <=> Has(q, b) \/ b = buf
      BY <1>0, <2>1, <2>2, <2>3, HasAppend DEF NoDuplicates
    <2>5. /\ \A w \in Workers : queues'[w] = IF w = worker_index THEN Append(q, buf) ELSE queues[w]
          /\ queues' \in [Workers -> Seq(Buffers)]
      BY <1>0, <2>1, <2>4 DEF PacketTypeOK
    <2>6. PacketTypeOK'
      <3>1. Len(Append(q, buf)) < QueueSize
        BY <2>1, <2>3
      <3>2. QED
        BY <1>0, <2>1, <2>5, <3>1 DEF PacketTypeOK
    <2>7. HandFollowsPc' /\ NoDuplicates'
      BY <2>1, <2>4, <2>5 DEF HandFollowsPc, NoDuplicates
    <2>8. \A w \in Workers : \A b :
             Has(queues'[w], b) <=> Has(queues[w], b) \/ (w = worker_index /\ b = buf)
      BY <2>4, <2>5
    <2>9. OnePlace'
      <3> SUFFICES ASSUME NEW b \in Buffers
                   PROVE  (Somewhere(b) /\ PoolApart(b) /\ HandApart(b) /\ WorkersApart(b))'
        BY DEF OnePlace
      <3>1. Somewhere(b) /\ PoolApart(b) /\ HandApart(b) /\ WorkersApart(b)
        BY DEF OnePlace
      <3>2. Somewhere(b)'
        BY <1>0, <2>1, <2>8, <3>1, Zenon DEF Somewhere
      <3>3. PoolApart(b)' /\ HandApart(b)'
        BY <2>1, <2>8, <3>1 DEF PoolApart, HandApart
      <3>4. WorkersApart(b)'
        BY <2>1, <2>8, <3>1 DEF HandApart, WorkersApart
      <3>5. QED
        BY <3>2, <3>3, <3>4
    <2>10. QED
      BY <2>6, <2>7, <2>9
  <1>3. QED
    BY <1>1, <1>2

(* A worker takes a packet off its queue. *)
LEMMA PopInv == ASSUME PacketInv, NEW w \in Workers, WorkerPop(w) PROVE PacketInv'
  <1> USE PacketReceiverAssumption DEF PacketInv
  <1> DEFINE q == queues[w]
  <1>1. q \in Seq(Buffers) /\ q # <<>> /\ Len(q) < QueueSize /\ packet[w] = NoBuffer
    BY DEF WorkerPop, PacketTypeOK
  <1>2. /\ Tail(q) \in Seq(Buffers) /\ Head(q) \in Buffers /\ IsInjective(Tail(q))
        /\ Len(Tail(q)) < QueueSize
        /\ \A b : Has(q, b) <=> Has(Tail(q), b) \/ b = Head(q)
        /\ ~Has(Tail(q), Head(q))
    BY <1>1, HasTail DEF NoDuplicates
  <1>3. /\ queues' \in [Workers -> Seq(Buffers)]
        /\ \A v \in Workers : queues'[v] = IF v = w THEN Tail(q) ELSE queues[v]
        /\ packet' \in [Workers -> Buffers \cup {NoBuffer}]
        /\ \A v \in Workers : packet'[v] = IF v = w THEN Head(q) ELSE packet[v]
        /\ UNCHANGED <<free_list, mpc, buf, worker_index>>
    BY <1>2 DEF WorkerPop, PacketTypeOK
  <1>4. PacketTypeOK' /\ HandFollowsPc' /\ NoDuplicates'
    BY <1>2, <1>3 DEF PacketTypeOK, HandFollowsPc, NoDuplicates
  <1>5. \A v \in Workers : \A b :
           /\ Has(queues[v], b) <=> Has(queues'[v], b) \/ (v = w /\ b = Head(q))
           /\ v = w /\ b = Head(q) => ~Has(queues'[v], b)
    BY <1>2, <1>3
  <1>6. \A v \in Workers : \A b \in Buffers :
           packet'[v] = b <=> packet[v] = b \/ (v = w /\ b = Head(q))
    BY <1>1, <1>3
  <1>7. Has(q, Head(q))
    BY <1>2
  <1>8. OnePlace'
    <2> SUFFICES ASSUME NEW b \in Buffers
                 PROVE  (Somewhere(b) /\ PoolApart(b) /\ HandApart(b) /\ WorkersApart(b))'
      BY DEF OnePlace
    <2>1. Somewhere(b) /\ PoolApart(b) /\ HandApart(b) /\ WorkersApart(b)
      BY DEF OnePlace
    <2>2. Somewhere(b)'
      BY <1>3, <1>5, <1>6, <2>1, Zenon DEF Somewhere
    <2>3. PoolApart(b)' /\ HandApart(b)'
      BY <1>3, <1>5, <1>6, <1>7, <2>1, Zenon DEF PoolApart, HandApart
    <2>4. WorkersApart(b)'
      BY <1>5, <1>6, <1>7, <2>1 DEF WorkersApart
    <2>5. QED
      BY <2>2, <2>3, <2>4
  <1>9. QED
    BY <1>4, <1>8

(* A worker gives the buffer in its hand back to the pool. *)
LEMMA ReleaseInv == ASSUME PacketInv, NEW w \in Workers, WorkerRelease(w) PROVE PacketInv'
  <1> USE PacketReceiverAssumption DEF PacketInv
  <1>1. packet[w] \in Buffers
    BY DEF WorkerRelease, PacketTypeOK
  <1>2. ~Has(free_list, packet[w])
    BY <1>1 DEF OnePlace, PoolApart
  <1>3. /\ free_list' \in Seq(Buffers) /\ IsInjective(free_list')
        /\ \A b : Has(free_list', b) <=> Has(free_list, b) \/ b = packet[w]
    BY <1>1, <1>2, HasAppend DEF WorkerRelease, PacketTypeOK, NoDuplicates
  <1>4. /\ packet' \in [Workers -> Buffers \cup {NoBuffer}]
        /\ \A v \in Workers : packet'[v] = IF v = w THEN NoBuffer ELSE packet[v]
        /\ UNCHANGED <<queues, mpc, buf, worker_index>>
    BY DEF WorkerRelease, PacketTypeOK
  <1>5. PacketTypeOK' /\ HandFollowsPc' /\ NoDuplicates'
    BY <1>3, <1>4 DEF PacketTypeOK, HandFollowsPc, NoDuplicates
  <1>6. \A v \in Workers : \A b \in Buffers : packet'[v] = b <=> packet[v] = b /\ v # w
    BY <1>4
  <1>7. OnePlace'
    <2> SUFFICES ASSUME NEW b \in Buffers
                 PROVE  (Somewhere(b) /\ PoolApart(b) /\ HandApart(b) /\ WorkersApart(b))'
      BY DEF OnePlace
    <2>1. Somewhere(b) /\ PoolApart(b) /\ HandApart(b) /\ WorkersApart(b)
      BY DEF OnePlace
    <2>2. Somewhere(b)'
      BY <1>3, <1>4, <1>6, <2>1, Zenon DEF Somewhere
    <2>3. PoolApart(b)'
      BY <1>3, <1>4, <1>6, <2>1 DEF PoolApart, HandApart, WorkersApart
    <2>4. HandApart(b)' /\ WorkersApart(b)'
      BY <1>4, <1>6, <2>1 DEF HandApart, WorkersApart
    <2>5. QED
      BY <2>2, <2>3, <2>4
  <1>8. QED
    BY <1>5, <1>7

(* No other step moves a buffer. *)
LEMMA PacketRestInv ==
  ASSUME PacketInv,
         \/ Datagram \/ EpollWait \/ JoinWorkers \/ UNCHANGED packetVars
         \/ \E w \in Workers : WorkerEnd(w)
  PROVE  PacketInv'
  <1>1. /\ UNCHANGED <<free_list, queues, buf, worker_index, packet>>
        /\ \/ mpc' = mpc
           \/ mpc \in {"epoll", "join"} /\ mpc' \in {"acquire", "join", "end"}
    BY DEF Datagram, EpollWait, JoinWorkers, WorkerEnd, packetVars
  <1>2. QED
    BY <1>1 DEF PacketInv, PacketTypeOK, HandFollowsPc, NoDuplicates, OnePlace, Somewhere,
                PoolApart, HandApart, WorkersApart

(* A set with one element has cardinality 1, one without any has 0. *)
LEMMA CardinalityOne ==
  ASSUME NEW S
  PROVE  /\ S = {} => Cardinality(S) = 0
         /\ \A x \in S : (\A y \in S : y = x) => Cardinality(S) = 1
  <1>1. ASSUME NEW x \in S, \A y \in S : y = x PROVE Cardinality(S) = 1
    <2>1. S = {x}
      BY <1>1
    <2>2. QED
      BY <2>1, FS_Singleton
  <1>2. QED
    BY <1>1, FS_EmptySet

(* In one place in the sense of OnePlace is held once in that of Holders. *)
LEMMA OnePlaceOneHolder == PacketInv => OneHolder
  <1> SUFFICES ASSUME PacketInv, NEW b \in Buffers PROVE Holders(b) = 1
    BY DEF OneHolder
  <1> USE PacketReceiverAssumption
  <1> DEFINE Free == {i \in DOMAIN free_list : free_list[i] = b}
             Taken == {w \in DOMAIN packet : packet[w] = b}
             Queued == {x \in Workers \X (1..QueueSize) :
                          x[2] <= Len(queues[x[1]]) /\ queues[x[1]][x[2]] = b}
             InHand == IF buf = b THEN 1 ELSE 0
  <1>0. Holders(b) = Cardinality(Free) + InHand + Cardinality(Taken) + Cardinality(Queued)
    BY DEF Holders, Count
  <1>1. Somewhere(b) /\ PoolApart(b) /\ HandApart(b) /\ WorkersApart(b)
    BY DEF PacketInv, OnePlace
  <1>2. /\ ~Has(free_list, b) => Cardinality(Free) = 0
        /\ Has(free_list, b) => Cardinality(Free) = 1
    <2>1. ~Has(free_list, b) => Free = {}
      BY DEF Has
    <2>2. Has(free_list, b) => \E i \in Free : \A j \in Free : j = i
      BY DEF Has, PacketInv, NoDuplicates, IsInjective
    <2>3. QED
      BY <2>1, <2>2, CardinalityOne
  <1>3. DOMAIN packet = Workers
    BY DEF PacketInv, PacketTypeOK
  <1>4. /\ (\A w \in Workers : packet[w] # b) => Cardinality(Taken) = 0
        /\ (\E w \in Workers : packet[w] = b) => Cardinality(Taken) = 1
    <2>1. (\A w \in Workers : packet[w] # b) => Taken = {}
      BY <1>3
    <2>2. (\E w \in Workers : packet[w] = b) => \E v \in Taken : \A w \in Taken : w = v
      BY <1>1, <1>3 DEF WorkersApart
    <2>3. QED
      BY <2>1, <2>2, CardinalityOne
  <1>5. /\ (\A w \in Workers : ~Has(queues[w], b)) => Cardinality(Queued) = 0
        /\ (\E w \in Workers : Has(queues[w], b)) => Cardinality(Queued) = 1
    <2>0. \A w \in Workers : /\ DOMAIN queues[w] = 1..Len(queues[w])
                             /\ Len(queues[w]) \in Nat /\ Len(queues[w]) < QueueSize
                             /\ IsInjective(queues[w])
      BY DEF PacketInv, PacketTypeOK, NoDuplicates
    <2>1. ASSUME NEW x \in Queued PROVE Has(queues[x[1]], b)
      <3>1. x[1] \in Workers /\ x[2] \in DOMAIN queues[x[1]] /\ queues[x[1]][x[2]] = b
        BY <2>0
      <3>2. QED
        BY <3>1 DEF Has
    <2>2. ASSUME NEW w \in Workers, Has(queues[w], b)
          PROVE  \E x \in Queued : \A y \in Queued : y = x
      <3>1. PICK i \in DOMAIN queues[w] : queues[w][i] = b
        BY <2>2 DEF Has
      <3>2. <<w, i>> \in Queued
        BY <2>0, <3>1
      <3>3. ASSUME NEW y \in Queued PROVE y = <<w, i>>
        <4>1. y[1] = w
          BY <1>1, <2>1, <2>2 DEF WorkersApart
        <4>2. y[2] \in DOMAIN queues[w] /\ queues[w][y[2]] = b
          BY <2>0, <4>1
        <4>3. y[2] = i
          BY <2>0, <3>1, <4>2 DEF IsInjective
        <4>4. QED
          BY <4>1, <4>3
      <3>4. QED
        BY <3>2, <3>3
    <2>3. (\A w \in Workers : ~Has(queues[w], b)) => Queued = {}
      BY <2>1
    <2>4. QED
      BY <2>2, <2>3, CardinalityOne
  <1> HIDE DEF Free, Taken, Queued
  <1>6. QED
    BY <1>0, <1>1, <1>2, <1>4, <1>5
       DEF Somewhere, PoolApart, HandApart, WorkersApart

(* No buffer is leaked, duplicated or shared, for any number of buffers and  *)
(* workers and any size of the queues: on every path of the receive loop a  *)
(* buffer is in the pool, the loop's hand, a queue or a worker's hand.      *)
THEOREM PacketOneHolder == PacketSpec => []OneHolder
  <1>1. PacketInv /\ [PacketNext]_packetVars => PacketInv'
    BY AcquireInv, RecvfromInv, DispatchInv, PopInv, ReleaseInv, PacketRestInv
       DEF PacketNext, MainStep, WorkerStep
  <1>2. QED
    BY PacketInitInv, <1>1, OnePlaceOneHolder, PTL DEF PacketSpec

-----------------------------------------------------------------------------
(* Fix42.                                                                  *)

Inbound == {"LOGON", "TEST", "REPORT", "LOGOUT"}
FixTypes == Inbound \cup {"none", "ORDER", "LAST", "HEARTBEAT"}
FixPcs == {"idle", "none", "number", "send", "stop", "join", "close", "wait", "done", "recv",
           "blocked", "ended", "process", "joining", "loop", "slept"}
Messages == [type : FixTypes, num : Nat]

FixTypeOK ==
  /\ sender_msg_seq_num_ \in Nat \ {0}
  /\ fpc \in [FixThreads -> FixPcs]
  /\ msg \in [FixThreads -> Messages]
  /\ wire \in Seq(Messages)
  /\ lost \in SUBSET Nat
  /\ inbound \in Seq(Inbound)

(* The counterparty's logon comes once, and before it is handled there is no *)
(* heartbeat thread that startHeartbeatTimer could replace in mid-send.     *)
LogonOnce ==
  /\ \A i, j \in DOMAIN inbound : inbound[i] = "LOGON" /\ inbound[j] = "LOGON" => i = j
  /\ Has(inbound, "LOGON") => msg["receive"].type # "LOGON"
  /\ Has(inbound, "LOGON") \/ msg["receive"].type = "LOGON" => answered
  /\ \/ Has(inbound, "LOGON") \/ msg["receive"].type = "LOGON" \/ ~answered
     => fpc["heartbeat"] = "none"

Given(n) == n \in 1..(sender_msg_seq_num_ - 1)
Sent(n) == \E i \in DOMAIN wire : wire[i].num = n
HandHas(t, n) == fpc[t] = "send" /\ msg[t].num = n

(* A number given out is on the wire, in a hand or lost; only these are. *)
EachSomewhere ==
  \A n \in Nat : Given(n) <=> Sent(n) \/ n \in lost \/ \E t \in FixThreads : HandHas(t, n)

(* No number is in two of these places or in one of them twice. *)
EachOnce ==
  /\ \A i, j \in DOMAIN wire : wire[i].num = wire[j].num => i = j
  /\ \A n \in Nat : Sent(n) => n \notin lost
  /\ \A t \in FixThreads : \A n \in Nat : HandHas(t, n) =>
        ~Sent(n) /\ n \notin lost /\ \A u \in FixThreads : HandHas(u, n) => u = t

FixInv == FixTypeOK /\ LogonOnce /\ EachSomewhere /\ EachOnce

(* Before the first message no number has been given out. *)
LEMMA FixInitInv == FixInit => FixInv
  <1> SUFFICES ASSUME FixInit PROVE FixInv
    OBVIOUS
  <1>1. FixTypeOK
    BY DEF FixInit, FixTypeOK, FixThreads, FixPcs, Messages, FixTypes, Inbound, NoMsg
  <1>2. LogonOnce
    BY DEF FixInit, LogonOnce, FixThreads, NoMsg, Has
  <1>3. EachSomewhere /\ EachOnce
    BY DEF FixInit, EachSomewhere, EachOnce, Given, Sent, HandHas, FixThreads
  <1>4. QED
    BY <1>1, <1>2, <1>3 DEF FixInv

(* A step that takes no number and sends nothing. *)
QuietNumbers ==
  /\ UNCHANGED <<sender_msg_seq_num_, wire, lost>>
  /\ \A t \in FixThreads : /\ fpc'[t] = "send" <=> fpc[t] = "send"
                           /\ fpc[t] = "send" => msg'[t].num = msg[t].num

(* Such a step keeps every number where it is. *)
LEMMA QuietInv ==
  ASSUME FixInv, QuietNumbers
  PROVE  EachSomewhere' /\ EachOnce'
  <1>1. \A n : /\ Given(n)' <=> Given(n)
               /\ Sent(n)' <=> Sent(n)
               /\ \A t \in FixThreads : HandHas(t, n)' <=> HandHas(t, n)
    BY DEF QuietNumbers, Given, Sent, HandHas
  <1>2. EachSomewhere'
    BY <1>1 DEF FixInv, EachSomewhere, QuietNumbers
  <1>3. EachOnce'
    BY <1>1 DEF FixInv, EachOnce, QuietNumbers
  <1>4. QED
    BY <1>2, <1>3

(* createBaseMessage: the next number goes into the hand of t. *)
LEMMA CreateInv ==
  ASSUME FixInv, NEW t \in FixThreads, createBaseMessage(t)
  PROVE  FixInv'
  <1> DEFINE next == sender_msg_seq_num_
  <1>0. FixTypeOK /\ next \in Nat \ {0} /\ fpc[t] = "number"
    BY DEF FixInv, FixTypeOK, createBaseMessage
  <1>1. /\ next' = next + 1
        /\ msg' = [msg EXCEPT ![t].num = next]
        /\ fpc' = [fpc EXCEPT ![t] = "send"]
        /\ UNCHANGED <<wire, lost, inbound, answered>>
    BY DEF createBaseMessage, Jump, world
  <1>2. msg' \in [FixThreads -> Messages]
    BY <1>0, <1>1 DEF FixTypeOK, Messages
  <1>3. FixTypeOK'
    BY <1>0, <1>1, <1>2 DEF FixTypeOK, FixPcs
  <1>4. LogonOnce'
    <2>1. msg'["receive"].type = msg["receive"].type
      BY <1>0, <1>1 DEF FixTypeOK, Messages, FixThreads
    <2>2. fpc["heartbeat"] = "none" => fpc'["heartbeat"] = "none"
      BY <1>0, <1>1 DEF FixTypeOK, FixThreads
    <2>3. QED
      BY <1>1, <2>1, <2>2 DEF FixInv, LogonOnce, Has
  <1>5. \A n \in Nat : /\ Given(n)' <=> Given(n) \/ n = next
                       /\ Sent(n)' <=> Sent(n)
                       /\ n = next => ~Given(n)
    BY <1>0, <1>1 DEF Given, Sent
  <1>6. \A u \in FixThreads : \A n \in Nat : HandHas(u, n)' <=> HandHas(u, n) \/ (u = t /\ n = next)
    BY <1>0, <1>1 DEF HandHas, FixTypeOK, Messages
  <1>7. EachSomewhere'
    BY <1>1, <1>5, <1>6 DEF FixInv, EachSomewhere
  <1>8. EachOnce'
    <2>1. ~Sent(next) /\ next \notin lost /\ \A u \in FixThreads : ~HandHas(u, next)
      BY <1>0, <1>5 DEF FixInv, EachSomewhere
    <2>2. QED
      BY <1>1, <1>5, <1>6, <2>1 DEF FixInv, EachOnce
  <1>9. QED
    BY <1>3, <1>4, <1>7, <1>8 DEF FixInv

(* sendMessage: the number in t's hand goes on the wire or is lost. *)
LEMMA SendMessageInv ==
  ASSUME FixInv, NEW t \in FixThreads, sendMessage(t)
  PROVE  FixInv'
  <1> DEFINE m == msg[t]
  <1>0. FixTypeOK /\ fpc[t] = "send" /\ m \in Messages /\ m.num \in Nat /\ HandHas(t, m.num)
    BY DEF FixInv, FixTypeOK, sendMessage, Messages, HandHas
  <1>1. /\ \/ wire' = Append(wire, m) /\ lost' = lost
           \/ lost' = lost \cup {m.num} /\ wire' = wire
        /\ msg' = [msg EXCEPT ![t] = NoMsg]
        /\ fpc' = [fpc EXCEPT ![t] = Resume(t)]
        /\ UNCHANGED <<sender_msg_seq_num_, inbound, answered>>
    BY DEF sendMessage, Jump, world
  <1>2. Resume(t) \in {"recv", "loop", "stop", "idle"}
    BY DEF Resume
  <1>3. FixTypeOK'
    <2>1. wire' \in Seq(Messages) /\ lost' \in SUBSET Nat
      <3>1. wire \in Seq(Messages) /\ lost \in SUBSET Nat
        BY <1>0 DEF FixTypeOK
      <3>2. Append(wire, m) \in Seq(Messages)
        BY <1>0, <3>1, AppendProperties
      <3>3. lost \cup {m.num} \in SUBSET Nat
        BY <1>0, <3>1
      <3>4. QED
        BY <1>1, <3>1, <3>2, <3>3
    <2>2. NoMsg \in Messages
      BY DEF NoMsg, Messages, FixTypes
    <2>3. QED
      BY <1>0, <1>1, <1>2, <2>1, <2>2 DEF FixTypeOK, FixPcs
  <1>4. LogonOnce'
    <2>1. msg'["receive"].type \in {"none", msg["receive"].type}
      <3>1. NoMsg.type = "none"
        BY DEF NoMsg
      <3>2. "receive" \in FixThreads
        BY DEF FixThreads
      <3>3. msg'["receive"] = IF t = "receive" THEN NoMsg ELSE msg["receive"]
        BY <1>0, <1>1, <3>2 DEF FixTypeOK
      <3>4. QED
        BY <3>1, <3>3
    <2>2. fpc["heartbeat"] = "none" => fpc'["heartbeat"] = "none"
      BY <1>0, <1>1 DEF FixTypeOK, FixThreads
    <2>3. QED
      BY <1>1, <2>1, <2>2 DEF FixInv, LogonOnce, Has
  <1>5. \A u \in FixThreads : \A n \in Nat : HandHas(u, n)' <=> HandHas(u, n) /\ u # t
    BY <1>0, <1>1, <1>2 DEF HandHas, FixTypeOK
  <1>6. \A n \in Nat : /\ Given(n)' <=> Given(n)
                       /\ Given(n) <=> Sent(n) \/ n \in lost \/ \E u \in FixThreads : HandHas(u, n)
                       /\ HandHas(t, n) <=> n = m.num
    BY <1>0, <1>1 DEF Given, HandHas, FixInv, EachSomewhere
  <1>7. CASE wire' = Append(wire, m) /\ lost' = lost
    <2>0. /\ wire \in Seq(Messages) /\ DOMAIN wire = 1..Len(wire) /\ Len(wire) \in Nat
          /\ DOMAIN wire' = 1..(Len(wire) + 1) /\ wire'[Len(wire) + 1] = m
          /\ \A i \in 1..Len(wire) : wire'[i] = wire[i]
      <3>1. wire \in Seq(Messages)
        BY <1>0 DEF FixTypeOK
      <3>2. QED
        BY <1>0, <1>7, <3>1, AppendProperties
    <2>1. \A n \in Nat : Sent(n)' <=> Sent(n) \/ n = m.num
      BY <2>0 DEF Sent
    <2>2. ~Sent(m.num)
      BY <1>0 DEF FixInv, EachOnce
    <2>3. \A i, j \in DOMAIN wire' : wire'[i].num = wire'[j].num => i = j
      BY <2>0, <2>2 DEF Sent, FixInv, EachOnce
    <2>4. EachSomewhere'
      BY <1>5, <1>6, <1>7, <2>1 DEF EachSomewhere
    <2>5. EachOnce'
      BY <1>0, <1>5, <1>6, <1>7, <2>1, <2>3 DEF FixInv, EachOnce
    <2>6. QED
      BY <1>3, <1>4, <2>4, <2>5 DEF FixInv
  <1>8. CASE lost' = lost \cup {m.num} /\ wire' = wire
    <2>1. \A n \in Nat : Sent(n)' <=> Sent(n)
      BY <1>8 DEF Sent
    <2>2. EachSomewhere'
      BY <1>5, <1>6, <1>8, <2>1 DEF EachSomewhere
    <2>3. EachOnce'
      BY <1>0, <1>5, <1>6, <1>8, <2>1 DEF FixInv, EachOnce
    <2>4. QED
      BY <1>3, <1>4, <2>2, <2>3 DEF FixInv
  <1>9. QED
    BY <1>1, <1>7, <1>8

(* A quiet step that keeps the types and LogonOnce keeps the invariant. *)
LEMMA QuietStepInv == ASSUME FixInv, FixTypeOK', LogonOnce', QuietNumbers PROVE FixInv'
  BY QuietInv DEF FixInv

(* What a thread of the session may change in a quiet step that does not     *)
(* touch inbound: its own place and the type of its own message.           *)
LEMMA OwnStepInv ==
  ASSUME FixInv, NEW t \in FixThreads, NEW l \in FixPcs \ {"send"}, NEW ty \in FixTypes,
         fpc[t] # "send", t = "heartbeat" => fpc[t] # "none",
         ty # "LOGON" \/ ty = msg[t].type,
         fpc' = [fpc EXCEPT ![t] = l],
         msg' = [msg EXCEPT ![t].type = ty],
         UNCHANGED <<sender_msg_seq_num_, wire, lost, inbound, answered>>
  PROVE  FixInv'
  <1>0. FixTypeOK
    BY DEF FixInv
  <1>1. msg' \in [FixThreads -> Messages]
    BY <1>0 DEF FixTypeOK, Messages
  <1>2. FixTypeOK'
    BY <1>0, <1>1 DEF FixTypeOK
  <1>3. LogonOnce'
    <2>1. msg'["receive"].type = "LOGON" => msg["receive"].type = "LOGON"
      BY <1>0 DEF FixTypeOK, FixThreads, Messages
    <2>2. fpc["heartbeat"] = "none" => fpc'["heartbeat"] = "none"
      BY <1>0 DEF FixTypeOK, FixThreads
    <2>3. QED
      BY <2>1, <2>2 DEF FixInv, LogonOnce, Has
  <1>4. QuietNumbers
    BY <1>0 DEF QuietNumbers, FixTypeOK, Messages
  <1>5. QED
    BY <1>2, <1>3, <1>4, QuietStepInv

(* The same for a step that leaves the message alone. *)
LEMMA OwnMoveInv ==
  ASSUME FixInv, NEW t \in FixThreads, NEW l \in FixPcs \ {"send"},
         fpc[t] # "send", t = "heartbeat" => fpc[t] # "none",
         fpc' = [fpc EXCEPT ![t] = l],
         UNCHANGED <<msg, sender_msg_seq_num_, wire, lost, inbound, answered>>
  PROVE  FixInv'
  <1>0. FixTypeOK
    BY DEF FixInv
  <1>1. FixTypeOK'
    BY <1>0 DEF FixTypeOK
  <1>2. LogonOnce'
    BY <1>0 DEF FixInv, LogonOnce, Has, FixTypeOK, FixThreads
  <1>3. QuietNumbers
    BY <1>0 DEF QuietNumbers, FixTypeOK
  <1>4. QED
    BY <1>1, <1>2, <1>3, QuietStepInv

(* And for one that joins the heartbeat thread, which has ended or never was. *)
LEMMA JoinInv ==
  ASSUME FixInv, NEW t \in {"app", "receive"}, NEW l \in FixPcs \ {"send"},
         fpc[t] # "send", fpc["heartbeat"] \in {"none", "ended"},
         fpc' = [fpc EXCEPT ![t] = l, !["heartbeat"] = "none"],
         UNCHANGED <<msg, sender_msg_seq_num_, wire, lost, inbound, answered>>
  PROVE  FixInv'
  <1>0. FixTypeOK
    BY DEF FixInv
  <1>1. FixTypeOK'
    BY <1>0 DEF FixTypeOK, FixThreads, FixPcs
  <1>2. LogonOnce'
    BY <1>0 DEF FixInv, LogonOnce, Has, FixTypeOK, FixThreads
  <1>3. QuietNumbers
    BY <1>0 DEF QuietNumbers, FixTypeOK, FixThreads
  <1>4. QED
    BY <1>1, <1>2, <1>3, QuietStepInv

(* The calls of the application. *)
LEMMA FixCallInv ==
  ASSUME FixInv,
         connect \/ Disconnect42 \/ \E type \in {"LOGON", "ORDER", "LOGOUT"} : Call(type)
  PROVE  FixInv'
  <1> USE DEF Jump, world, flags
  <1>0. {"app", "receive", "heartbeat"} = FixThreads /\ FixTypeOK
    BY DEF FixThreads, FixInv
  <1>1. CASE connect
    BY <1>0, <1>1, OwnMoveInv DEF connect, FixPcs
  <1>2. ASSUME NEW type \in {"LOGON", "ORDER", "LOGOUT"}, Call(type) PROVE FixInv'
    <2>1. msg' \in [FixThreads -> Messages]
      <3>1. type \in FixTypes
        BY DEF FixTypes, Inbound
      <3>2. msg' = [msg EXCEPT !["app"].type = type]
        BY <1>2 DEF Call
      <3>3. QED
        BY <1>0, <3>1, <3>2 DEF FixTypeOK, Messages
    <2>2. FixTypeOK'
      BY <1>0, <1>2, <2>1 DEF Call, FixTypeOK, FixPcs
    <2>3. LogonOnce'
      <3>1. msg'["receive"].type = msg["receive"].type /\ fpc'["heartbeat"] = fpc["heartbeat"]
        BY <1>0, <1>2 DEF Call, FixTypeOK
      <3>2. UNCHANGED <<inbound, answered>>
        BY <1>2 DEF Call
      <3>3. QED
        BY <3>1, <3>2 DEF FixInv, LogonOnce, Has
    <2>4. QuietNumbers
      BY <1>0, <1>2 DEF Call, QuietNumbers, FixTypeOK
    <2>5. QED
      BY <2>2, <2>3, <2>4, QuietStepInv
  <1>3. CASE Disconnect42
    <2>0. UNCHANGED <<sender_msg_seq_num_, wire, lost, inbound, answered>>
      BY <1>3 DEF Disconnect42
    <2>1. CASE /\ fpc["app"] = "idle" /\ is_connected_
               /\ msg' = [msg EXCEPT !["app"].type = IF is_logged_on_ THEN "LAST" ELSE "none"]
               /\ Jump("app", IF is_logged_on_ THEN "number" ELSE "stop")
      <3>1. PICK l \in FixPcs \ {"send"}, ty \in FixTypes \ {"LOGON"} :
              /\ fpc' = [fpc EXCEPT !["app"] = l] /\ msg' = [msg EXCEPT !["app"].type = ty]
        BY <2>1 DEF FixPcs, FixTypes, Inbound
      <3>2. QED
        BY <1>0, <2>0, <2>1, <3>1, OwnStepInv
    <2>2. CASE /\ fpc["app"] \in {"stop", "close"} /\ UNCHANGED msg
               /\ \E l \in {"join", "close", "wait"} : Jump("app", l)
      BY <1>0, <2>0, <2>2, OwnMoveInv DEF FixPcs
    <2>3. CASE /\ fpc["app"] = "join" /\ fpc["heartbeat"] \in {"none", "ended"}
               /\ fpc' = [fpc EXCEPT !["app"] = "close", !["heartbeat"] = "none"]
               /\ UNCHANGED msg
      BY <1>0, <2>0, <2>3, JoinInv DEF FixPcs
    <2>4. CASE /\ fpc["app"] = "wait" /\ UNCHANGED msg
               /\ fpc' = [fpc EXCEPT !["app"] = "done"]
      BY <1>0, <2>0, <2>4, OwnMoveInv DEF FixPcs
    <2>5. QED
      BY <1>3, <2>1, <2>2, <2>3, <2>4 DEF Disconnect42, disconnect
  <1>4. QED
    BY <1>1, <1>2, <1>3

(* receiveLoop: a message leaves inbound for the receiver's hand. *)
LEMMA ReceiveLoopInv == ASSUME FixInv, receiveLoop PROVE FixInv'
  <1> USE DEF Jump, flags, ReceiveUnchanged
  <1>0. {"app", "receive", "heartbeat"} = FixThreads /\ FixTypeOK
    BY DEF FixThreads, FixInv
  <1>1. CASE /\ fpc["receive"] \in {"recv", "blocked"} /\ UNCHANGED <<inbound, msg>>
             /\ \E l \in {"blocked", "ended"} : Jump("receive", l)
    BY <1>0, <1>1, OwnMoveInv DEF receiveLoop, FixPcs
  <1>2. CASE /\ fpc["receive"] \in {"recv", "blocked"} /\ inbound # <<>>
             /\ inbound' = Tail(inbound)
             /\ msg' = [msg EXCEPT !["receive"].type = IF Valid THEN Head(inbound) ELSE @]
             /\ Jump("receive", IF Valid THEN "process" ELSE "recv")
    <2>1. /\ inbound' \in Seq(Inbound) /\ Head(inbound) \in Inbound
          /\ Has(inbound, "LOGON") <=> Has(inbound', "LOGON") \/ "LOGON" = Head(inbound)
      BY <1>0, <1>2, HasTail DEF FixTypeOK
    <2>2. /\ msg' \in [FixThreads -> Messages] 
          /\ msg'["receive"].type \in {Head(inbound), msg["receive"].type}
          /\ \A t \in FixThreads : msg'[t].num = msg[t].num
      BY <1>0, <1>2, <2>1 DEF FixTypeOK, Messages, FixTypes
    <2>3. FixTypeOK'
      BY <1>0, <1>2, <2>1, <2>2 DEF receiveLoop, FixTypeOK, FixPcs
    <2>4. QuietNumbers
      BY <1>0, <1>2, <2>2 DEF receiveLoop, QuietNumbers, FixTypeOK
    <2>5. LogonOnce'
      <3>1. /\ inbound \in Seq(Inbound) /\ Len(inbound) \in Nat \ {0}
            /\ DOMAIN inbound = 1..Len(inbound) /\ DOMAIN inbound' = 1..(Len(inbound) - 1)
            /\ \A i \in 1..(Len(inbound) - 1) : inbound'[i] = inbound[i + 1]
            /\ Head(inbound) = inbound[1]
        BY <1>0, <1>2 DEF FixTypeOK
      <3>2. \A i, j \in DOMAIN inbound : inbound[i] = "LOGON" /\ inbound[j] = "LOGON" => i = j
        BY DEF FixInv, LogonOnce
      <3>3. \A i, j \in DOMAIN inbound' : inbound'[i] = "LOGON" /\ inbound'[j] = "LOGON" => i = j
        BY <3>1, <3>2
      <3>4. Head(inbound) = "LOGON" => ~Has(inbound', "LOGON")
        BY <3>1, <3>2 DEF Has
      <3>5. answered' = answered /\ fpc'["heartbeat"] = fpc["heartbeat"]
        BY <1>0, <1>2 DEF receiveLoop, FixTypeOK
      <3>6. QED
        BY <2>1, <2>2, <3>3, <3>4, <3>5 DEF FixInv, LogonOnce
    <2>6. QED
      BY <2>3, <2>4, <2>5, QuietStepInv
  <1>3. QED
    BY <1>1, <1>2 DEF receiveLoop

(* processReceivedMessage: a logon starts the heartbeat thread. *)
LEMMA ProcessInv == ASSUME FixInv, processReceivedMessage PROVE FixInv'
  <1> USE DEF Jump, flags, ReceiveUnchanged
  <1> DEFINE ty == IF msg["receive"].type = "TEST" THEN "HEARTBEAT" ELSE "none"
  <1>0. {"app", "receive", "heartbeat"} = FixThreads /\ FixTypeOK
    BY DEF FixThreads, FixInv
  <1>1. /\ fpc["receive"] = "process" /\ ty \in FixTypes \ {"LOGON"}
        /\ msg' = [msg EXCEPT !["receive"].type = ty]
        /\ UNCHANGED <<sender_msg_seq_num_, wire, lost, inbound, answered>>
    BY <1>0 DEF processReceivedMessage, FixTypeOK, FixTypes, Inbound
  <1>2. CASE msg["receive"].type = "LOGON"
    <2>1. fpc["heartbeat"] = "none" /\ ~Has(inbound, "LOGON") /\ answered
      BY <1>2 DEF FixInv, LogonOnce
    <2>2. fpc' = [fpc EXCEPT !["receive"] = "recv",
                             !["heartbeat"] = IF heartbeat_running_ THEN @ ELSE "loop"]
      BY <1>2 DEF processReceivedMessage, OnLogon
    <2>3. /\ msg' \in [FixThreads -> Messages] /\ msg'["receive"].type # "LOGON"
          /\ \A t \in FixThreads : msg'[t].num = msg[t].num
      BY <1>0, <1>1 DEF FixTypeOK, Messages, FixTypes
    <2>4. FixTypeOK'
      BY <1>0, <1>1, <2>2, <2>3 DEF FixTypeOK, FixPcs
    <2>5. LogonOnce'
      BY <1>1, <2>1, <2>3 DEF FixInv, LogonOnce, Has
    <2>6. QuietNumbers
      BY <1>0, <1>1, <2>1, <2>2, <2>3 DEF QuietNumbers, FixTypeOK
    <2>7. QED
      BY <2>4, <2>5, <2>6, QuietStepInv
  <1>3. CASE msg["receive"].type # "LOGON"
    <2>1. PICK l \in FixPcs \ {"send"} : fpc' = [fpc EXCEPT !["receive"] = l]
      BY <1>3 DEF processReceivedMessage, OnLogout, FixPcs
    <2>2. QED
      BY <1>0, <1>1, <2>1, OwnStepInv
  <1>4. QED
    BY <1>2, <1>3

(* The join in the LOGOUT handler, and the heartbeat thread's own steps. *)
LEMMA HeartbeatInv == ASSUME FixInv, joinHeartbeat \/ heartbeatLoop PROVE FixInv'
  <1> USE DEF Jump, world
  <1>0. {"app", "receive", "heartbeat"} = FixThreads
    BY DEF FixThreads
  <1>1. CASE joinHeartbeat
    BY <1>1, JoinInv DEF joinHeartbeat, FixPcs, ReceiveUnchanged
  <1>2. CASE heartbeatLoop
    <2>1. /\ UNCHANGED <<sender_msg_seq_num_, wire, lost, inbound, answered>>
          /\ fpc["heartbeat"] \in {"loop", "slept"}
      BY <1>2 DEF heartbeatLoop
    <2>2. CASE /\ msg' = [msg EXCEPT !["heartbeat"].type = "HEARTBEAT"]
               /\ Jump("heartbeat", "number")
      <3>1. "number" \in FixPcs \ {"send"} /\ "HEARTBEAT" \in FixTypes
        BY DEF FixPcs, FixTypes
      <3>2. QED
        BY <1>0, <2>1, <2>2, <3>1, OwnStepInv
    <2>3. CASE UNCHANGED msg /\ \E l \in {"slept", "ended", "loop"} : Jump("heartbeat", l)
      BY <1>0, <2>1, <2>3, OwnMoveInv DEF FixPcs
    <2>4. QED
      BY <1>2, <2>2, <2>3 DEF heartbeatLoop
  <1>3. QED
    BY <1>1, <1>2

(* The counterparty: it sends "LOGON" once. *)
LEMMA CounterpartyInv == ASSUME FixInv, Counterparty PROVE FixInv'
  <1>0. FixTypeOK /\ LogonOnce
    BY DEF FixInv
  <1>1. UNCHANGED <<sender_msg_seq_num_, fpc, msg, wire, lost>>
    BY DEF Counterparty
  <1>2. QuietNumbers
    BY <1>1 DEF QuietNumbers
  <1>3. CASE UNCHANGED <<inbound, answered>>
    <2>1. FixTypeOK' /\ LogonOnce'
      BY <1>0, <1>1, <1>3 DEF FixTypeOK, LogonOnce, Has
    <2>2. QED
      BY <1>2, <2>1, QuietStepInv
  <1>4. ASSUME NEW m \in Inbound, inbound' = Append(inbound, m), answered' = TRUE,
               m = "LOGON" => ~answered
        PROVE  FixInv'
    <2>1. /\ inbound \in Seq(Inbound) /\ inbound' \in Seq(Inbound)
          /\ Has(inbound', "LOGON") <=> Has(inbound, "LOGON") \/ "LOGON" = m
      BY <1>0, <1>4, HasAppend DEF FixTypeOK
    <2>2. FixTypeOK'
      BY <1>0, <1>1, <2>1 DEF FixTypeOK
    <2>3. /\ DOMAIN inbound = 1..Len(inbound) /\ Len(inbound) \in Nat
          /\ DOMAIN inbound' = 1..(Len(inbound) + 1) /\ inbound'[Len(inbound) + 1] = m
          /\ \A i \in 1..Len(inbound) : inbound'[i] = inbound[i]
      BY <1>4, <2>1, AppendProperties
    <2>4. m = "LOGON" => ~Has(inbound, "LOGON") /\ msg["receive"].type # "LOGON"
                         /\ fpc["heartbeat"] = "none"
      BY <1>0, <1>4 DEF LogonOnce
    <2>5. \A i, j \in DOMAIN inbound' : inbound'[i] = "LOGON" /\ inbound'[j] = "LOGON" => i = j
      BY <1>0, <2>3, <2>4 DEF LogonOnce, Has
    <2>6. LogonOnce'
      BY <1>0, <1>1, <1>4, <2>1, <2>4, <2>5 DEF LogonOnce
    <2>7. QED
      BY <1>2, <2>2, <2>6, QuietStepInv
  <1>5. QED
    BY <1>3, <1>4 DEF Counterparty, Inbound

(* Numbers in exactly one place count to 1 in the sense of NumbersAccounted. *)
LEMMA AccountedOnce == FixInv => NumbersAccounted
  <1> SUFFICES ASSUME FixInv PROVE NumbersAccounted
    OBVIOUS
  <1> USE DEF FixInv, FixTypeOK
  <1>1. ASSUME NEW n \in 1..(sender_msg_seq_num_ - 1)
        PROVE  Cardinality({i \in DOMAIN wire : wire[i].num = n})
                 + Cardinality({t \in FixThreads : fpc[t] = "send" /\ msg[t].num = n})
                 + (IF n \in lost THEN 1 ELSE 0) = 1
    <2> DEFINE W == {i \in DOMAIN wire : wire[i].num = n}
               H == {t \in FixThreads : fpc[t] = "send" /\ msg[t].num = n}
    <2>0. n \in Nat
      OBVIOUS
    <2>1. Sent(n) \/ n \in lost \/ \E t \in FixThreads : HandHas(t, n)
      BY <2>0 DEF EachSomewhere, Given
    <2>2. /\ Sent(n) => Cardinality(W) = 1
          /\ ~Sent(n) => Cardinality(W) = 0
      <3>1. ~Sent(n) => W = {}
        BY DEF Sent
      <3>2. Sent(n) => \E i \in W : \A j \in W : j = i
        BY DEF Sent, EachOnce
      <3>3. QED
        BY <3>1, <3>2, CardinalityOne
    <2>3. /\ (\E t \in FixThreads : HandHas(t, n)) => Cardinality(H) = 1
          /\ (\A t \in FixThreads : ~HandHas(t, n)) => Cardinality(H) = 0
      <3>1. (\A t \in FixThreads : ~HandHas(t, n)) => H = {}
        BY DEF HandHas
      <3>2. (\E t \in FixThreads : HandHas(t, n)) => \E t \in H : \A u \in H : u = t
        <4> SUFFICES ASSUME NEW t \in FixThreads, HandHas(t, n)
                     PROVE  t \in H /\ \A u \in H : u = t
          OBVIOUS
        <4>1. \A u \in FixThreads : HandHas(u, n) => u = t
          BY <2>0 DEF EachOnce
        <4>2. QED
          BY <4>1 DEF HandHas
      <3>3. QED
        BY <3>1, <3>2, CardinalityOne
    <2>4. /\ Sent(n) => n \notin lost
          /\ (\E t \in FixThreads : HandHas(t, n)) => ~Sent(n) /\ n \notin lost
      BY <2>0 DEF EachOnce
    <2> HIDE DEF W, H
    <2>5. Cardinality(W) + Cardinality(H) + (IF n \in lost THEN 1 ELSE 0) = 1
      BY <2>1, <2>2, <2>3, <2>4
    <2>6. QED
      BY <2>5 DEF W, H
  <1>2. ASSUME NEW i \in DOMAIN wire PROVE wire[i].num < sender_msg_seq_num_
    <2>0. wire[i] \in Messages
      OBVIOUS
    <2>1. wire[i].num \in Nat /\ Sent(wire[i].num)
      BY <2>0 DEF Sent, Messages
    <2>2. Given(wire[i].num)
      BY <2>1 DEF EachSomewhere
    <2>3. QED
      BY <2>1, <2>2 DEF Given
  <1>3. QED
    BY <1>1, <1>2 DEF NumbersAccounted

(* Whatever the three threads of FIX42Protocol do, no sequence number is     *)
(* given to two messages and none is skipped without a send having failed:   *)
(* mutex_ guards the number, though not the sending.                        *)
THEOREM FixNumbersAccounted == FixSpec => []NumbersAccounted
  <1>1. FixInv /\ [FixNext]_fixVars => FixInv'
    <2> SUFFICES ASSUME FixInv, [FixNext]_fixVars PROVE FixInv'
      OBVIOUS
    <2>0. {"app", "receive", "heartbeat"} = FixThreads
      BY DEF FixThreads
    <2>1. CASE UNCHANGED fixVars
      <3>1. FixTypeOK' /\ LogonOnce' /\ QuietNumbers
        BY <2>1 DEF fixVars, FixInv, FixTypeOK, LogonOnce, Has, QuietNumbers
      <3>2. QED
        BY <3>1, QuietStepInv
    <2>2. CASE FixNext
      BY <2>0, <2>2, CreateInv, SendMessageInv, FixCallInv, ReceiveLoopInv, ProcessInv,
         HeartbeatInv, CounterpartyInv
         DEF FixNext, AppStep, ReceiveStep, HeartbeatStep
    <2>3. QED
      BY <2>1, <2>2
  <1>2. QED
    BY FixInitInv, <1>1, AccountedOnce, PTL DEF FixSpec

=============================================================================
