-------------------------- MODULE SubReactor_proofs --------------------------
(***************************************************************************)
(* Proofs about SubReactor, for every set of descriptors and threads,      *)
(* every pipe and every read size that PipeAssumption allows.              *)
(***************************************************************************)
EXTENDS SubReactor, SequenceTheorems, TLAPS

(* What a vector used as a stack does to the set of its elements. *)

(* push_back adds exactly the pushed descriptor. *)
LEMMA ElemsAppend ==
  ASSUME NEW S, NEW s \in Seq(S), NEW x \in S
  PROVE  /\ Append(s, x) \in Seq(S)
         /\ Append(s, x) # <<>>
         /\ ToSet(Append(s, x)) = ToSet(s) \cup {x}
  BY AppendProperties DEF ToSet

(* back and pop_back split a non-empty vector into one element and the rest. *)
LEMMA ElemsFrontLast ==
  ASSUME NEW S, NEW s \in Seq(S), s # <<>>
  PROVE  /\ Front(s) \in Seq(S)
         /\ Last(s) \in S
         /\ Last(s) \in ToSet(s)
         /\ ToSet(Front(s)) \subseteq ToSet(s)
         /\ ToSet(s) \subseteq ToSet(Front(s)) \cup {Last(s)}
  <1>1. PICK n \in Nat : n = Len(s) /\ n >= 1
    OBVIOUS
  <1>2. Front(s) \in Seq(S) /\ Len(Front(s)) = n - 1
    BY <1>1 DEF Front
  <1>3. \A i \in 1..(n - 1) : Front(s)[i] = s[i]
    BY <1>1 DEF Front
  <1>4. QED
    BY <1>1, <1>2, <1>3 DEF ToSet, Last

(* The elements of a vector of descriptors are descriptors. *)
LEMMA ElemsType ==
  ASSUME NEW S, NEW s \in Seq(S)
  PROVE  ToSet(s) \subseteq S
  BY DEF ToSet

(* An empty vector has no elements. *)
LEMMA ElemsEmpty == ToSet(<<>>) = {}
  BY DEF ToSet

-----------------------------------------------------------------------------
(* The initial state satisfies the inductive invariant. *)
LEMMA InitIInv == Init => IInv
  <1> SUFFICES ASSUME Init PROVE IInv
    OBVIOUS
  <1> USE DEF Init
  <1>1. TypeOK
    <2>1. pipe \in 0..PipeCap /\ sends \in 0..MaxSends /\ sockEvents \in 0..MaxSockEvents
      BY PipeAssumption, BoundsAssumption
    <2>2. <<>> \in Seq(Fds)
      OBVIOUS
    <2>3. QED
      BY <2>1, <2>2, Zenon DEF TypeOK, ReactorPcs, CallerPcs, OwnerPcs
  <1>2. LocalsInScope /\ PipeBytesCovered
    BY PipeAssumption DEF LocalsInScope, PipeBytesCovered
  <1>3. NoLostAccept /\ NoLostSend
    BY DEF NoLostAccept, NoLostSend
  <1>4. OnlyShownIsDirty /\ NoStrandedData
    BY DEF OnlyShownIsDirty, NoStrandedData
  <1>5. QED
    BY <1>1, <1>2, <1>3, <1>4 DEF IInv

(* A write to the pipe never removes bytes or edges, and afterwards either  *)
(* the edge is on the ready list or the bytes that suppressed it were       *)
(* already there.                                                          *)
LEMMA WritePipeEffect ==
  ASSUME TypeOK, WritePipe
  PROVE  /\ pipe' \in 0..PipeCap
         /\ pipe' > 0
         /\ ready \subseteq ready'
         /\ ready' \in SUBSET {"pipe", "sock"}
         /\ \/ "pipe" \in ready'
            \/ pipe = PipeCap
            \/ ~EdgeOnEveryWrite /\ pipe > 0
         /\ pipe' = PipeCap \/ pipe < PipeCap
  <1> USE PipeAssumption DEF TypeOK
  <1>1. CASE pipe = PipeCap /\ UNCHANGED kernelVars
    BY <1>1 DEF kernelVars
  <1>2. CASE /\ pipe < PipeCap
             /\ pipe' = pipe + 1
             /\ ready' = IF EdgeOnEveryWrite \/ pipe = 0 THEN ready \cup {"pipe"} ELSE ready
    <2>1. pipe' \in 0..PipeCap /\ pipe' > 0
      BY <1>2
    <2>2. ready' = ready \cup {"pipe"} \/ (ready' = ready /\ ~(EdgeOnEveryWrite \/ pipe = 0))
      BY <1>2, Zenon
    <2>3. QED
      BY <1>2, <2>1, <2>2
  <1>3. QED
    BY <1>1, <1>2 DEF WritePipe

-----------------------------------------------------------------------------
(* Every step of the sub-reactor and of its callers keeps the types. *)
LEMMA NextType == ASSUME IInv, [Next]_vars PROVE TypeOK'
  <1> USE ThreadsAssumption, PipeAssumption, BoundsAssumption
      DEF kernelVars, mailboxVars, loopVars, connVars, callVars, countVars
  <1>0. TypeOK
    BY DEF IInv
  <1>1. ASSUME NEW fd \in Fds, enqueueNewConnection(fd) PROVE TypeOK'
    BY <1>0, <1>1, ElemsAppend DEF TypeOK, enqueueNewConnection, Callers, CallerPcs
  <1>2. ASSUME NEW t \in Callers, NEW fd \in Fds, send(t, fd) PROVE TypeOK'
    BY <1>0, <1>2 DEF TypeOK, send, CallerPcs
  <1>3. ASSUME NEW t \in Callers, enqueueSend(t) PROVE TypeOK'
    BY <1>0, <1>3, ElemsAppend DEF TypeOK, enqueueSend, CallerPcs, IInv, LocalsInScope
  <1>4. ASSUME NEW t \in Callers, Notify(t) PROVE TypeOK'
    <2>1. pipe' \in 0..PipeCap /\ ready' \in SUBSET {"pipe", "sock"}
      BY <1>0, <1>4, WritePipeEffect DEF Notify
    <2>2. sendMutex_' \in [Fds -> Callers \cup {None}]
      BY <1>0, <1>4 DEF TypeOK, Notify
    <2>3. cpc' \in [Callers -> CallerPcs] /\ cfd' \in [Callers -> Fds \cup {None}]
      BY <1>0, <1>4 DEF TypeOK, Notify, CallerPcs
    <2>4. QED
      BY <1>0, <1>4, <2>1, <2>2, <2>3 DEF TypeOK, Notify
  <1>5. ASSUME start PROVE TypeOK'
    BY <1>0, <1>5 DEF TypeOK, start, OwnerPcs, ReactorPcs
  <1>6. ASSUME stop PROVE TypeOK'
    BY <1>0, <1>6 DEF TypeOK, stop, OwnerPcs, ReactorPcs
  <1>7. ASSUME join PROVE TypeOK'
    BY <1>0, <1>7 DEF TypeOK, join, OwnerPcs, ReactorPcs
  <1>8. ASSUME stopNotify PROVE TypeOK'
    BY <1>0, <1>8, WritePipeEffect DEF TypeOK, stopNotify, OwnerPcs
  <1>9. ASSUME ThreadEntry PROVE TypeOK'
    BY <1>0, <1>9 DEF TypeOK, ThreadEntry, ReactorAt, ReactorPcs
  <1>10. ASSUME NEW S \in SUBSET {"pipe", "sock"}, doEpoll(S) PROVE TypeOK'
    BY <1>0, <1>10 DEF TypeOK, doEpoll, ReactorAt, ReactorPcs
  <1>11. ASSUME handleEventPipe PROVE TypeOK'
    BY <1>0, <1>11 DEF TypeOK, handleEventPipe, ReactorAt, ReactorPcs
  <1>12. ASSUME handlePipeRead PROVE TypeOK'
    BY <1>0, <1>12 DEF TypeOK, handlePipeRead, ReactorAt, ReactorPcs
  <1>13. ASSUME processNewConnections PROVE TypeOK'
    BY <1>0, <1>13 DEF TypeOK, processNewConnections, ReactorAt, ReactorPcs
  <1>14. ASSUME CreateConnection PROVE TypeOK'
    <2>0. Front(connBatch) \in Seq(Fds) /\ Last(connBatch) \in Fds
      BY <1>0, <1>14, ElemsFrontLast DEF TypeOK, CreateConnection
    <2>1. connBatch' \in Seq(Fds) /\ connectionMap_' \in SUBSET Fds
      BY <1>0, <1>14, <2>0 DEF TypeOK, CreateConnection
    <2>2. QED
      BY <1>0, <1>14, <2>1 DEF TypeOK, CreateConnection, ReactorPcs
  <1>15. ASSUME onAcceptedReturn PROVE TypeOK'
    BY <1>0, <1>15 DEF TypeOK, onAcceptedReturn, ReactorAt, ReactorPcs
  <1>16. ASSUME processSendQueue PROVE TypeOK'
    BY <1>0, <1>16 DEF TypeOK, processSendQueue, ReactorAt, ReactorPcs
  <1>17. ASSUME SwapSendQueue PROVE TypeOK'
    BY <1>0, <1>17 DEF TypeOK, SwapSendQueue, ReactorAt, ReactorPcs
  <1>18. ASSUME handleWrite PROVE TypeOK'
    BY <1>0, <1>18, ElemsFrontLast DEF TypeOK, handleWrite, ReactorAt, ReactorPcs
  <1>19. ASSUME handlePipeReturn PROVE TypeOK'
    BY <1>0, <1>19 DEF TypeOK, handlePipeReturn, ReactorAt, ReactorPcs
  <1>20. ASSUME handleEventSock PROVE TypeOK'
    BY <1>0, <1>20 DEF TypeOK, handleEventSock, ReactorAt, ReactorPcs
  <1>21. ASSUME onMessageReturn PROVE TypeOK'
    BY <1>0, <1>21 DEF TypeOK, onMessageReturn, ReactorAt, ReactorPcs
  <1>22. ASSUME NEW fd \in Fds, removeConnection(fd) PROVE TypeOK'
    BY <1>0, <1>22 DEF TypeOK, removeConnection, ReactorAt, ReactorPcs
  <1>23. ASSUME loopCheck PROVE TypeOK'
    BY <1>0, <1>23 DEF TypeOK, loopCheck, ReactorAt, ReactorPcs
  <1>24. ASSUME SockReady PROVE TypeOK'
    BY <1>0, <1>24 DEF TypeOK, SockReady
  <1>25. CASE UNCHANGED vars
    BY <1>0, <1>25 DEF TypeOK, vars
  <1>26. QED
    BY <1>1, <1>2, <1>3, <1>4, <1>5, <1>6, <1>7, <1>8, <1>9, <1>10, <1>11, <1>12, <1>13, <1>14, <1>15, <1>16, <1>17, <1>18, <1>19, <1>20, <1>21, <1>22, <1>23, <1>24, <1>25
    DEF Next, OwnerStep, ReactorStep
-----------------------------------------------------------------------------
(* A step leaves the loop's local state in its scope. *)
LEMMA NextLocals == ASSUME IInv, [Next]_vars PROVE LocalsInScope'
  <1> USE ThreadsAssumption, PipeAssumption
      DEF kernelVars, mailboxVars, loopVars, connVars, callVars, countVars, LocalsInScope, TypeOK, IInv
  <1>0. TypeOK
    BY DEF IInv
  <1>1. ASSUME NEW fd \in Fds, enqueueNewConnection(fd) PROVE LocalsInScope'
    BY <1>0, <1>1 DEF enqueueNewConnection
  <1>2. ASSUME NEW t \in Callers, NEW fd \in Fds, send(t, fd) PROVE LocalsInScope'
    BY <1>0, <1>2 DEF send
  <1>3. ASSUME NEW t \in Callers, enqueueSend(t) PROVE LocalsInScope'
    BY <1>0, <1>3 DEF enqueueSend
  <1>4. ASSUME NEW t \in Callers, Notify(t) PROVE LocalsInScope'
    BY <1>0, <1>4 DEF Notify
  <1>5. ASSUME start PROVE LocalsInScope'
    BY <1>0, <1>5 DEF start
  <1>6. ASSUME stop PROVE LocalsInScope'
    BY <1>0, <1>6 DEF stop
  <1>7. ASSUME join PROVE LocalsInScope'
    BY <1>0, <1>7 DEF join
  <1>8. ASSUME stopNotify PROVE LocalsInScope'
    BY <1>0, <1>8 DEF stopNotify
  <1>9. ASSUME ThreadEntry PROVE LocalsInScope'
    BY <1>0, <1>9 DEF ThreadEntry, ReactorAt
  <1>10. ASSUME NEW S \in SUBSET {"pipe", "sock"}, doEpoll(S) PROVE LocalsInScope'
    BY <1>0, <1>10 DEF doEpoll, ReactorAt
  <1>11. ASSUME handleEventPipe PROVE LocalsInScope'
    BY <1>0, <1>11 DEF handleEventPipe, ReactorAt
  <1>12. ASSUME handlePipeRead PROVE LocalsInScope'
    BY <1>0, <1>12 DEF handlePipeRead, ReactorAt
  <1>13. ASSUME processNewConnections PROVE LocalsInScope'
    BY <1>0, <1>13 DEF processNewConnections, ReactorAt
  <1>14. ASSUME CreateConnection PROVE LocalsInScope'
    BY <1>0, <1>14 DEF CreateConnection, ReactorAt
  <1>15. ASSUME onAcceptedReturn PROVE LocalsInScope'
    BY <1>0, <1>15 DEF onAcceptedReturn, ReactorAt
  <1>16. ASSUME processSendQueue PROVE LocalsInScope'
    BY <1>0, <1>16 DEF processSendQueue, ReactorAt
  <1>17. ASSUME SwapSendQueue PROVE LocalsInScope'
    BY <1>0, <1>17 DEF SwapSendQueue, ReactorAt
  <1>18. ASSUME handleWrite PROVE LocalsInScope'
    BY <1>0, <1>18 DEF handleWrite, ReactorAt
  <1>19. ASSUME handlePipeReturn PROVE LocalsInScope'
    BY <1>0, <1>19 DEF handlePipeReturn, ReactorAt
  <1>20. ASSUME handleEventSock PROVE LocalsInScope'
    BY <1>0, <1>20 DEF handleEventSock, ReactorAt
  <1>21. ASSUME onMessageReturn PROVE LocalsInScope'
    BY <1>0, <1>21 DEF onMessageReturn, ReactorAt
  <1>22. ASSUME NEW fd \in Fds, removeConnection(fd) PROVE LocalsInScope'
    BY <1>0, <1>22 DEF removeConnection, ReactorAt
  <1>23. ASSUME loopCheck PROVE LocalsInScope'
    BY <1>0, <1>23 DEF loopCheck, ReactorAt
  <1>24. ASSUME SockReady PROVE LocalsInScope'
    BY <1>0, <1>24 DEF SockReady
  <1>25. CASE UNCHANGED vars
    BY <1>0, <1>25 DEF vars
  <1>26. QED
    BY <1>1, <1>2, <1>3, <1>4, <1>5, <1>6, <1>7, <1>8, <1>9, <1>10, <1>11, <1>12, <1>13, <1>14, <1>15, <1>16, <1>17, <1>18, <1>19, <1>20, <1>21, <1>22, <1>23, <1>24, <1>25
    DEF Next, OwnerStep, ReactorStep

(* A step leaves no byte that could silence the next write uncovered. *)
LEMMA NextPipe == ASSUME IInv, [Next]_vars PROVE PipeBytesCovered'
  <1> USE ThreadsAssumption, PipeAssumption
      DEF kernelVars, mailboxVars, loopVars, connVars, callVars, countVars, PipeBytesCovered, IInv
  <1>0. TypeOK
    BY DEF IInv
  <1>1. ASSUME NEW fd \in Fds, enqueueNewConnection(fd) PROVE PipeBytesCovered'
    BY <1>0, <1>1 DEF enqueueNewConnection
  <1>2. ASSUME NEW t \in Callers, NEW fd \in Fds, send(t, fd) PROVE PipeBytesCovered'
    BY <1>0, <1>2 DEF send
  <1>3. ASSUME NEW t \in Callers, enqueueSend(t) PROVE PipeBytesCovered'
    BY <1>0, <1>3 DEF enqueueSend
  <1>4. ASSUME NEW t \in Callers, Notify(t) PROVE PipeBytesCovered'
    BY <1>0, <1>4, WritePipeEffect DEF Notify, TypeOK
  <1>5. ASSUME start PROVE PipeBytesCovered'
    BY <1>0, <1>5 DEF start, LocalsInScope
  <1>6. ASSUME stop PROVE PipeBytesCovered'
    BY <1>0, <1>6 DEF stop
  <1>7. ASSUME join PROVE PipeBytesCovered'
    BY <1>0, <1>7 DEF join
  <1>8. ASSUME stopNotify PROVE PipeBytesCovered'
    BY <1>0, <1>8, WritePipeEffect DEF stopNotify, TypeOK
  <1>9. ASSUME ThreadEntry PROVE PipeBytesCovered'
    BY <1>0, <1>9 DEF ThreadEntry, ReactorAt
  <1>10. ASSUME NEW S \in SUBSET {"pipe", "sock"}, doEpoll(S) PROVE PipeBytesCovered'
    BY <1>0, <1>10 DEF doEpoll, ReactorAt, LocalsInScope
  <1>11. ASSUME handleEventPipe PROVE PipeBytesCovered'
    BY <1>0, <1>11 DEF handleEventPipe, ReactorAt
  <1>12. ASSUME handlePipeRead PROVE PipeBytesCovered'
    BY <1>0, <1>12 DEF handlePipeRead, TypeOK
  <1>13. ASSUME processNewConnections PROVE PipeBytesCovered'
    BY <1>0, <1>13 DEF processNewConnections, ReactorAt
  <1>14. ASSUME CreateConnection PROVE PipeBytesCovered'
    BY <1>0, <1>14 DEF CreateConnection, ReactorAt
  <1>15. ASSUME onAcceptedReturn PROVE PipeBytesCovered'
    BY <1>0, <1>15 DEF onAcceptedReturn, ReactorAt
  <1>16. ASSUME processSendQueue PROVE PipeBytesCovered'
    BY <1>0, <1>16 DEF processSendQueue, ReactorAt
  <1>17. ASSUME SwapSendQueue PROVE PipeBytesCovered'
    BY <1>0, <1>17 DEF SwapSendQueue, ReactorAt
  <1>18. ASSUME handleWrite PROVE PipeBytesCovered'
    BY <1>0, <1>18 DEF handleWrite, ReactorAt
  <1>19. ASSUME handlePipeReturn PROVE PipeBytesCovered'
    BY <1>0, <1>19 DEF handlePipeReturn, ReactorAt
  <1>20. ASSUME handleEventSock PROVE PipeBytesCovered'
    BY <1>0, <1>20 DEF handleEventSock, ReactorAt
  <1>21. ASSUME onMessageReturn PROVE PipeBytesCovered'
    BY <1>0, <1>21 DEF onMessageReturn, ReactorAt
  <1>22. ASSUME NEW fd \in Fds, removeConnection(fd) PROVE PipeBytesCovered'
    BY <1>0, <1>22 DEF removeConnection, ReactorAt
  <1>23. ASSUME loopCheck PROVE PipeBytesCovered'
    BY <1>0, <1>23 DEF loopCheck, ReactorAt
  <1>24. ASSUME SockReady PROVE PipeBytesCovered'
    BY <1>0, <1>24 DEF SockReady
  <1>25. CASE UNCHANGED vars
    BY <1>0, <1>25 DEF vars
  <1>26. QED
    BY <1>1, <1>2, <1>3, <1>4, <1>5, <1>6, <1>7, <1>8, <1>9, <1>10, <1>11, <1>12, <1>13, <1>14, <1>15, <1>16, <1>17, <1>18, <1>19, <1>20, <1>21, <1>22, <1>23, <1>24, <1>25
    DEF Next, OwnerStep, ReactorStep

(* A step never leaves newConnections_ filled with no wakeup ahead. *)
LEMMA NextAccept == ASSUME IInv, [Next]_vars PROVE NoLostAccept'
  <1> USE ThreadsAssumption, PipeAssumption
      DEF kernelVars, mailboxVars, loopVars, connVars, callVars, countVars, NoLostAccept, WakeupPending, SomebodyNotifies, IInv
  <1>0. TypeOK
    BY DEF IInv
  <1>1. ASSUME NEW fd \in Fds, enqueueNewConnection(fd) PROVE NoLostAccept'
    <2>1. cpc'[Acceptor] = "notify" /\ Acceptor \in Callers
      BY <1>0, <1>1 DEF enqueueNewConnection, TypeOK, Callers
    <2>2. QED
      BY <2>1
  <1>2. ASSUME NEW t \in Callers, NEW fd \in Fds, send(t, fd) PROVE NoLostAccept'
    <2>1. \A u \in Callers : cpc[u] = "notify" => cpc'[u] = "notify"
      BY <1>0, <1>2 DEF send, TypeOK
    <2>2. QED
      BY <1>2, <2>1 DEF send
  <1>3. ASSUME NEW t \in Callers, enqueueSend(t) PROVE NoLostAccept'
    <2>1. cpc'[t] = "notify"
      BY <1>0, <1>3 DEF enqueueSend, TypeOK
    <2>2. QED
      BY <2>1
  <1>4. ASSUME NEW t \in Callers, Notify(t) PROVE NoLostAccept'
    <2>1. pipe' > 0 /\ ("pipe" \in ready' \/ "pipe" \in events \/ rpc = "read")
      BY <1>0, <1>4, WritePipeEffect DEF Notify, PipeBytesCovered
    <2>2. QED
      BY <1>4, <2>1 DEF Notify
  <1>5. ASSUME start PROVE NoLostAccept'
    BY <1>0, <1>5 DEF start, LocalsInScope
  <1>6. ASSUME stop PROVE NoLostAccept'
    BY <1>0, <1>6 DEF stop
  <1>7. ASSUME join PROVE NoLostAccept'
    BY <1>0, <1>7 DEF join
  <1>8. ASSUME stopNotify PROVE NoLostAccept'
    <2>1. pipe' > 0 /\ ("pipe" \in ready' \/ "pipe" \in events \/ rpc = "read")
      BY <1>0, <1>8, WritePipeEffect DEF stopNotify, PipeBytesCovered
    <2>2. QED
      BY <1>8, <2>1 DEF stopNotify
  <1>9. ASSUME ThreadEntry PROVE NoLostAccept'
    BY <1>0, <1>9 DEF ThreadEntry, ReactorAt
  <1>10. ASSUME NEW S \in SUBSET {"pipe", "sock"}, doEpoll(S) PROVE NoLostAccept'
    BY <1>0, <1>10 DEF doEpoll, ReactorAt, LocalsInScope, Reportable
  <1>11. ASSUME handleEventPipe PROVE NoLostAccept'
    BY <1>0, <1>11 DEF handleEventPipe, ReactorAt
  <1>12. ASSUME handlePipeRead PROVE NoLostAccept'
    BY <1>0, <1>12 DEF handlePipeRead, ReactorAt
  <1>13. ASSUME processNewConnections PROVE NoLostAccept'
    BY <1>0, <1>13 DEF processNewConnections, ReactorAt
  <1>14. ASSUME CreateConnection PROVE NoLostAccept'
    BY <1>0, <1>14 DEF CreateConnection, ReactorAt
  <1>15. ASSUME onAcceptedReturn PROVE NoLostAccept'
    BY <1>0, <1>15 DEF onAcceptedReturn, ReactorAt
  <1>16. ASSUME processSendQueue PROVE NoLostAccept'
    BY <1>0, <1>16 DEF processSendQueue, ReactorAt
  <1>17. ASSUME SwapSendQueue PROVE NoLostAccept'
    BY <1>0, <1>17 DEF SwapSendQueue, ReactorAt
  <1>18. ASSUME handleWrite PROVE NoLostAccept'
    BY <1>0, <1>18 DEF handleWrite, ReactorAt
  <1>19. ASSUME handlePipeReturn PROVE NoLostAccept'
    BY <1>0, <1>19 DEF handlePipeReturn, ReactorAt
  <1>20. ASSUME handleEventSock PROVE NoLostAccept'
    BY <1>0, <1>20 DEF handleEventSock, ReactorAt
  <1>21. ASSUME onMessageReturn PROVE NoLostAccept'
    BY <1>0, <1>21 DEF onMessageReturn, ReactorAt
  <1>22. ASSUME NEW fd \in Fds, removeConnection(fd) PROVE NoLostAccept'
    BY <1>0, <1>22 DEF removeConnection, ReactorAt
  <1>23. ASSUME loopCheck PROVE NoLostAccept'
    BY <1>0, <1>23 DEF loopCheck, ReactorAt
  <1>24. ASSUME SockReady PROVE NoLostAccept'
    BY <1>0, <1>24 DEF SockReady
  <1>25. CASE UNCHANGED vars
    BY <1>0, <1>25 DEF vars
  <1>26. QED
    BY <1>1, <1>2, <1>3, <1>4, <1>5, <1>6, <1>7, <1>8, <1>9, <1>10, <1>11, <1>12, <1>13, <1>14, <1>15, <1>16, <1>17, <1>18, <1>19, <1>20, <1>21, <1>22, <1>23, <1>24, <1>25
    DEF Next, OwnerStep, ReactorStep

(* A step never leaves sendQueue_ filled with no wakeup ahead. *)
LEMMA NextSend == ASSUME IInv, [Next]_vars PROVE NoLostSend'
  <1> USE ThreadsAssumption, PipeAssumption
      DEF kernelVars, mailboxVars, loopVars, connVars, callVars, countVars, NoLostSend, WakeupPending, SomebodyNotifies, IInv
  <1>0. TypeOK
    BY DEF IInv
  <1>1. ASSUME NEW fd \in Fds, enqueueNewConnection(fd) PROVE NoLostSend'
    <2>1. cpc'[Acceptor] = "notify" /\ Acceptor \in Callers
      BY <1>0, <1>1 DEF enqueueNewConnection, TypeOK, Callers
    <2>2. QED
      BY <2>1
  <1>2. ASSUME NEW t \in Callers, NEW fd \in Fds, send(t, fd) PROVE NoLostSend'
    <2>1. \A u \in Callers : cpc[u] = "notify" => cpc'[u] = "notify"
      BY <1>0, <1>2 DEF send, TypeOK
    <2>2. QED
      BY <1>2, <2>1 DEF send
  <1>3. ASSUME NEW t \in Callers, enqueueSend(t) PROVE NoLostSend'
    <2>1. cpc'[t] = "notify"
      BY <1>0, <1>3 DEF enqueueSend, TypeOK
    <2>2. QED
      BY <2>1
  <1>4. ASSUME NEW t \in Callers, Notify(t) PROVE NoLostSend'
    <2>1. pipe' > 0 /\ ("pipe" \in ready' \/ "pipe" \in events \/ rpc = "read")
      BY <1>0, <1>4, WritePipeEffect DEF Notify, PipeBytesCovered
    <2>2. QED
      BY <1>4, <2>1 DEF Notify
  <1>5. ASSUME start PROVE NoLostSend'
    BY <1>0, <1>5 DEF start, LocalsInScope
  <1>6. ASSUME stop PROVE NoLostSend'
    BY <1>0, <1>6 DEF stop
  <1>7. ASSUME join PROVE NoLostSend'
    BY <1>0, <1>7 DEF join
  <1>8. ASSUME stopNotify PROVE NoLostSend'
    <2>1. pipe' > 0 /\ ("pipe" \in ready' \/ "pipe" \in events \/ rpc = "read")
      BY <1>0, <1>8, WritePipeEffect DEF stopNotify, PipeBytesCovered
    <2>2. QED
      BY <1>8, <2>1 DEF stopNotify
  <1>9. ASSUME ThreadEntry PROVE NoLostSend'
    BY <1>0, <1>9 DEF ThreadEntry, ReactorAt
  <1>10. ASSUME NEW S \in SUBSET {"pipe", "sock"}, doEpoll(S) PROVE NoLostSend'
    BY <1>0, <1>10 DEF doEpoll, ReactorAt, LocalsInScope, Reportable
  <1>11. ASSUME handleEventPipe PROVE NoLostSend'
    BY <1>0, <1>11 DEF handleEventPipe, ReactorAt
  <1>12. ASSUME handlePipeRead PROVE NoLostSend'
    BY <1>0, <1>12 DEF handlePipeRead, ReactorAt
  <1>13. ASSUME processNewConnections PROVE NoLostSend'
    BY <1>0, <1>13 DEF processNewConnections, ReactorAt
  <1>14. ASSUME CreateConnection PROVE NoLostSend'
    BY <1>0, <1>14 DEF CreateConnection, ReactorAt
  <1>15. ASSUME onAcceptedReturn PROVE NoLostSend'
    BY <1>0, <1>15 DEF onAcceptedReturn, ReactorAt
  <1>16. ASSUME processSendQueue PROVE NoLostSend'
    BY <1>0, <1>16 DEF processSendQueue, ReactorAt
  <1>17. ASSUME SwapSendQueue PROVE NoLostSend'
    BY <1>0, <1>17 DEF SwapSendQueue, ReactorAt
  <1>18. ASSUME handleWrite PROVE NoLostSend'
    BY <1>0, <1>18 DEF handleWrite, ReactorAt
  <1>19. ASSUME handlePipeReturn PROVE NoLostSend'
    BY <1>0, <1>19 DEF handlePipeReturn, ReactorAt
  <1>20. ASSUME handleEventSock PROVE NoLostSend'
    BY <1>0, <1>20 DEF handleEventSock, ReactorAt
  <1>21. ASSUME onMessageReturn PROVE NoLostSend'
    BY <1>0, <1>21 DEF onMessageReturn, ReactorAt
  <1>22. ASSUME NEW fd \in Fds, removeConnection(fd) PROVE NoLostSend'
    BY <1>0, <1>22 DEF removeConnection, ReactorAt
  <1>23. ASSUME loopCheck PROVE NoLostSend'
    BY <1>0, <1>23 DEF loopCheck, ReactorAt
  <1>24. ASSUME SockReady PROVE NoLostSend'
    BY <1>0, <1>24 DEF SockReady
  <1>25. CASE UNCHANGED vars
    BY <1>0, <1>25 DEF vars
  <1>26. QED
    BY <1>1, <1>2, <1>3, <1>4, <1>5, <1>6, <1>7, <1>8, <1>9, <1>10, <1>11, <1>12, <1>13, <1>14, <1>15, <1>16, <1>17, <1>18, <1>19, <1>20, <1>21, <1>22, <1>23, <1>24, <1>25
    DEF Next, OwnerStep, ReactorStep

(* Only connections that onAccepted has shown get data in a step. *)
LEMMA NextShown == ASSUME IInv, [Next]_vars PROVE OnlyShownIsDirty'
  <1> USE ThreadsAssumption, PipeAssumption
      DEF kernelVars, mailboxVars, loopVars, connVars, callVars, countVars, OnlyShownIsDirty, Shown, IInv, TypeOK
  <1>0. TypeOK
    BY DEF IInv
  <1>1. ASSUME NEW fd \in Fds, enqueueNewConnection(fd) PROVE OnlyShownIsDirty'
    <2>1. ToSet(newConnections_') = ToSet(newConnections_) \cup {fd}
      BY <1>1, ElemsAppend DEF enqueueNewConnection
    <2>2. QED
      BY <1>1, <2>1 DEF enqueueNewConnection
  <1>2. ASSUME NEW t \in Callers, NEW fd \in Fds, send(t, fd) PROVE OnlyShownIsDirty'
    BY <1>0, <1>2 DEF send
  <1>3. ASSUME NEW t \in Callers, enqueueSend(t) PROVE OnlyShownIsDirty'
    BY <1>0, <1>3 DEF enqueueSend
  <1>4. ASSUME NEW t \in Callers, Notify(t) PROVE OnlyShownIsDirty'
    BY <1>0, <1>4 DEF Notify
  <1>5. ASSUME start PROVE OnlyShownIsDirty'
    BY <1>0, <1>5 DEF start
  <1>6. ASSUME stop PROVE OnlyShownIsDirty'
    BY <1>0, <1>6 DEF stop
  <1>7. ASSUME join PROVE OnlyShownIsDirty'
    BY <1>0, <1>7 DEF join
  <1>8. ASSUME stopNotify PROVE OnlyShownIsDirty'
    BY <1>0, <1>8 DEF stopNotify
  <1>9. ASSUME ThreadEntry PROVE OnlyShownIsDirty'
    BY <1>0, <1>9 DEF ThreadEntry, ReactorAt
  <1>10. ASSUME NEW S \in SUBSET {"pipe", "sock"}, doEpoll(S) PROVE OnlyShownIsDirty'
    BY <1>0, <1>10 DEF doEpoll, ReactorAt
  <1>11. ASSUME handleEventPipe PROVE OnlyShownIsDirty'
    BY <1>0, <1>11 DEF handleEventPipe, ReactorAt
  <1>12. ASSUME handlePipeRead PROVE OnlyShownIsDirty'
    BY <1>0, <1>12 DEF handlePipeRead, ReactorAt
  <1>13. ASSUME processNewConnections PROVE OnlyShownIsDirty'
    <2>1. ToSet(newConnections_') = {} /\ connBatch' = newConnections_
      BY <1>13, ElemsEmpty DEF processNewConnections
    <2>2. QED
      BY <1>13, <2>1 DEF processNewConnections
  <1>14. ASSUME CreateConnection PROVE OnlyShownIsDirty'
    <2>1. ToSet(connBatch') \subseteq ToSet(connBatch)
      BY <1>14, ElemsFrontLast DEF CreateConnection
    <2>2. QED
      BY <1>14, <2>1 DEF CreateConnection
  <1>15. ASSUME onAcceptedReturn PROVE OnlyShownIsDirty'
    BY <1>0, <1>15 DEF onAcceptedReturn, ReactorAt
  <1>16. ASSUME processSendQueue PROVE OnlyShownIsDirty'
    BY <1>0, <1>16 DEF processSendQueue, ReactorAt
  <1>17. ASSUME SwapSendQueue PROVE OnlyShownIsDirty'
    BY <1>0, <1>17 DEF SwapSendQueue, ReactorAt
  <1>18. ASSUME handleWrite PROVE OnlyShownIsDirty'
    <2>1. \A f \in Fds : dirty'[f] => dirty[f]
      BY <1>18 DEF handleWrite
    <2>2. QED
      BY <1>18, <2>1 DEF handleWrite
  <1>19. ASSUME handlePipeReturn PROVE OnlyShownIsDirty'
    BY <1>0, <1>19 DEF handlePipeReturn, ReactorAt
  <1>20. ASSUME handleEventSock PROVE OnlyShownIsDirty'
    BY <1>0, <1>20 DEF handleEventSock, ReactorAt
  <1>21. ASSUME onMessageReturn PROVE OnlyShownIsDirty'
    BY <1>0, <1>21 DEF onMessageReturn, ReactorAt
  <1>22. ASSUME NEW fd \in Fds, removeConnection(fd) PROVE OnlyShownIsDirty'
    BY <1>0, <1>22 DEF removeConnection, ReactorAt
  <1>23. ASSUME loopCheck PROVE OnlyShownIsDirty'
    BY <1>0, <1>23 DEF loopCheck, ReactorAt
  <1>24. ASSUME SockReady PROVE OnlyShownIsDirty'
    BY <1>0, <1>24 DEF SockReady
  <1>25. CASE UNCHANGED vars
    BY <1>0, <1>25 DEF vars
  <1>26. QED
    BY <1>1, <1>2, <1>3, <1>4, <1>5, <1>6, <1>7, <1>8, <1>9, <1>10, <1>11, <1>12, <1>13, <1>14, <1>15, <1>16, <1>17, <1>18, <1>19, <1>20, <1>21, <1>22, <1>23, <1>24, <1>25
    DEF Next, OwnerStep, ReactorStep

(* A step never separates a connection's data from the request to send it. *)
LEMMA NextStranded == ASSUME IInv, [Next]_vars PROVE NoStrandedData'
  <1> USE ThreadsAssumption, PipeAssumption
      DEF kernelVars, mailboxVars, loopVars, connVars, callVars, countVars, NoStrandedData, IInv, TypeOK
  <1>0. TypeOK
    BY DEF IInv
  <1>1. ASSUME NEW fd \in Fds, enqueueNewConnection(fd) PROVE NoStrandedData'
    <2>1. \A u \in Callers : cpc[u] = "push" => cpc'[u] = "push"
      BY <1>1 DEF enqueueNewConnection, Callers
    <2>2. QED
      BY <1>1, <2>1 DEF enqueueNewConnection
  <1>2. ASSUME NEW t \in Callers, NEW fd \in Fds, send(t, fd) PROVE NoStrandedData'
    <2>1. cpc'[t] = "push" /\ cfd'[t] = fd
      BY <1>2 DEF send
    <2>2. \A u \in Callers : cpc[u] = "push" => cpc'[u] = "push" /\ cfd'[u] = cfd[u]
      BY <1>2 DEF send
    <2>3. \A f \in Fds : dirty'[f] => dirty[f] \/ f = fd
      BY <1>2 DEF send
    <2>4. QED
      BY <1>2, <2>1, <2>2, <2>3 DEF send
  <1>3. ASSUME NEW t \in Callers, enqueueSend(t) PROVE NoStrandedData'
    <2>1. cfd[t] \in Fds
      BY <1>3 DEF enqueueSend, LocalsInScope
    <2>2. ToSet(sendQueue_') = ToSet(sendQueue_) \cup {cfd[t]}
      BY <1>3, <2>1, ElemsAppend DEF enqueueSend
    <2>3. \A u \in Callers : cpc[u] = "push" /\ u # t => cpc'[u] = "push"
      BY <1>3 DEF enqueueSend
    <2>4. QED
      BY <1>3, <2>2, <2>3 DEF enqueueSend
  <1>4. ASSUME NEW t \in Callers, Notify(t) PROVE NoStrandedData'
    <2>1. \A u \in Callers : cpc[u] = "push" => cpc'[u] = "push" /\ cfd'[u] = cfd[u]
      BY <1>4 DEF Notify
    <2>2. QED
      BY <1>4, <2>1 DEF Notify
  <1>5. ASSUME start PROVE NoStrandedData'
    BY <1>0, <1>5 DEF start
  <1>6. ASSUME stop PROVE NoStrandedData'
    BY <1>0, <1>6 DEF stop
  <1>7. ASSUME join PROVE NoStrandedData'
    BY <1>0, <1>7 DEF join
  <1>8. ASSUME stopNotify PROVE NoStrandedData'
    BY <1>0, <1>8 DEF stopNotify
  <1>9. ASSUME ThreadEntry PROVE NoStrandedData'
    BY <1>0, <1>9 DEF ThreadEntry, ReactorAt
  <1>10. ASSUME NEW S \in SUBSET {"pipe", "sock"}, doEpoll(S) PROVE NoStrandedData'
    BY <1>0, <1>10 DEF doEpoll, ReactorAt
  <1>11. ASSUME handleEventPipe PROVE NoStrandedData'
    BY <1>0, <1>11 DEF handleEventPipe, ReactorAt
  <1>12. ASSUME handlePipeRead PROVE NoStrandedData'
    BY <1>0, <1>12 DEF handlePipeRead, ReactorAt
  <1>13. ASSUME processNewConnections PROVE NoStrandedData'
    BY <1>0, <1>13 DEF processNewConnections, ReactorAt
  <1>14. ASSUME CreateConnection PROVE NoStrandedData'
    <2>1. Last(connBatch) \in ToSet(connBatch) /\ Last(connBatch) \in Fds
      BY <1>14, ElemsFrontLast DEF CreateConnection
    <2>2. ~dirty[Last(connBatch)]
      BY <2>1 DEF OnlyShownIsDirty, Shown
    <2>3. QED
      BY <1>14, <2>2 DEF CreateConnection
  <1>15. ASSUME onAcceptedReturn PROVE NoStrandedData'
    BY <1>0, <1>15 DEF onAcceptedReturn, ReactorAt
  <1>16. ASSUME processSendQueue PROVE NoStrandedData'
    BY <1>0, <1>16 DEF processSendQueue, ReactorAt
  <1>17. ASSUME SwapSendQueue PROVE NoStrandedData'
    <2>1. sendBatch = <<>>
      BY <1>17 DEF SwapSendQueue, ReactorAt, LocalsInScope
    <2>2. QED
      BY <1>17, <2>1, ElemsEmpty DEF SwapSendQueue
  <1>18. ASSUME handleWrite PROVE NoStrandedData'
    <2>1. /\ Last(sendBatch) \in Fds
          /\ ToSet(sendBatch) \subseteq ToSet(sendBatch') \cup {Last(sendBatch)}
      BY <1>18, ElemsFrontLast DEF handleWrite
    <2>2. \A f \in connectionMap_ : dirty'[f] => dirty[f] /\ f # Last(sendBatch)
      BY <1>18, <2>1 DEF handleWrite
    <2>3. QED
      BY <1>18, <2>1, <2>2 DEF handleWrite
  <1>19. ASSUME handlePipeReturn PROVE NoStrandedData'
    BY <1>0, <1>19 DEF handlePipeReturn, ReactorAt
  <1>20. ASSUME handleEventSock PROVE NoStrandedData'
    BY <1>0, <1>20 DEF handleEventSock, ReactorAt
  <1>21. ASSUME onMessageReturn PROVE NoStrandedData'
    BY <1>0, <1>21 DEF onMessageReturn, ReactorAt
  <1>22. ASSUME NEW fd \in Fds, removeConnection(fd) PROVE NoStrandedData'
    BY <1>0, <1>22 DEF removeConnection, ReactorAt
  <1>23. ASSUME loopCheck PROVE NoStrandedData'
    BY <1>0, <1>23 DEF loopCheck, ReactorAt
  <1>24. ASSUME SockReady PROVE NoStrandedData'
    BY <1>0, <1>24 DEF SockReady
  <1>25. CASE UNCHANGED vars
    BY <1>0, <1>25 DEF vars
  <1>26. QED
    BY <1>1, <1>2, <1>3, <1>4, <1>5, <1>6, <1>7, <1>8, <1>9, <1>10, <1>11, <1>12, <1>13, <1>14, <1>15, <1>16, <1>17, <1>18, <1>19, <1>20, <1>21, <1>22, <1>23, <1>24, <1>25
    DEF Next, OwnerStep, ReactorStep

-----------------------------------------------------------------------------
(* IInv holds in every reachable state. *)
LEMMA Invariance == Spec => []IInv
  <1>1. IInv /\ [Next]_vars => IInv'
    BY NextType, NextLocals, NextPipe, NextAccept, NextSend, NextShown, NextStranded DEF IInv
  <1>2. QED
    BY InitIInv, <1>1, PTL DEF Spec

(* Types are respected: in particular the pipe never holds more than it can *)
(* and what a caller pushes is a descriptor, whatever the interleaving of   *)
(* enqueueNewConnection, enqueueSend, stop and handlePipe.                  *)
THEOREM TypeCorrect == Spec => []TypeOK
  <1>1. IInv => TypeOK
    BY DEF IInv
  <1>2. QED
    BY Invariance, <1>1, PTL

(* No wakeup for newConnections_ is lost: with push-then-write in           *)
(* enqueueNewConnection and read-then-take in handlePipe, an accepted       *)
(* descriptor always has a wakeup of the loop ahead of it, even when the    *)
(* full pipe refuses the byte and even though one read may leave bytes.     *)
THEOREM NoLostAcceptHolds == Spec => []NoLostAccept
  <1>1. IInv => NoLostAccept
    BY DEF IInv
  <1>2. QED
    BY Invariance, <1>1, PTL

(* The same for enqueueSend and sendQueue_, which handlePipe takes last. *)
THEOREM NoLostSendHolds == Spec => []NoLostSend
  <1>1. IInv => NoLostSend
    BY DEF IInv
  <1>2. QED
    BY Invariance, <1>1, PTL

(* Bytes that could silence the next write always have a report or a read   *)
(* of handlePipe ahead: the fact on which the two theorems above rest.      *)
THEOREM PipeBytesCoveredHolds == Spec => []PipeBytesCovered
  <1>1. IInv => PipeBytesCovered
    BY DEF IInv
  <1>2. QED
    BY Invariance, <1>1, PTL

(* No interleaving of Connection::send with processSendQueue leaves data in *)
(* a sendBuffer_ without a request to send it.                             *)
THEOREM NoStrandedDataHolds == Spec => []NoStrandedData
  <1>1. IInv => NoStrandedData
    BY DEF IInv
  <1>2. QED
    BY Invariance, <1>1, PTL
=============================================================================
