-------------------------- MODULE Connection_proofs -------------------------
(***************************************************************************)
(* Proofs about the send side and the close of a Connection, the round     *)
(* robin of the MainReactor, and the frames of the example's CubeServer.   *)
(***************************************************************************)
EXTENDS Connection, MainReactor, CubeServer, SequenceTheorems, TLAPS

-----------------------------------------------------------------------------
(* Sequences.                                                              *)

(* The elements of a sequence stay when something is put behind it. *)
LEMMA ElemsConcat ==
  ASSUME NEW S, NEW a \in Seq(S), NEW b \in Seq(S)
  PROVE  ToSet(a) \subseteq ToSet(a \o b)
  <1>1. PICK n \in Nat, m \in Nat : n = Len(a) /\ DOMAIN a = 1..n /\ m = Len(b)
    BY LenProperties
  <1>2. DOMAIN (a \o b) = 1..(n + m) /\ \A i \in 1..n : (a \o b)[i] = a[i]
    BY <1>1
  <1>3. QED
    BY <1>1, <1>2 DEF ToSet

(* What stands in the first part of a sequence. *)
LEMMA ElemOfFirstPart ==
  ASSUME NEW S, NEW a \in Seq(S), NEW b \in Seq(S), NEW i \in 1..Len(a)
  PROVE  (a \o b)[i] \in ToSet(a)
  BY DEF ToSet

(* The smaller of two numbers. *)
LEMMA MinTwo ==
  ASSUME NEW a \in Int, NEW b \in Int
  PROVE  Min({a, b}) = IF a <= b THEN a ELSE b
  BY DEF Min

-----------------------------------------------------------------------------
(* Connection.                                                             *)

(* The numbers of units, more than Units: the bound on the calls of send     *)
(* does not matter here.                                                   *)
Data == Nat

SendTypeOK ==
  /\ sendBuffer_ \in Seq(Data) /\ accepted \in Seq(Data) /\ written \in Seq(Data)
  /\ inFlight \in 0..SndBuf
  /\ tpc \in [Senders -> {"idle", "lock", "enqueue"}]

(* sendMutex_ is held by the sender that has put its unit in the buffer, by  *)
(* the reactor while it writes, or by nobody.                              *)
LockHeld ==
  /\ \A t \in Senders : tpc[t] = "enqueue" => sendMutex_ = t
  /\ rpc = "write" => sendMutex_ = Reactor
  /\ \/ sendMutex_ = None
     \/ sendMutex_ = Reactor /\ rpc = "write"
     \/ sendMutex_ \in Senders /\ tpc[sendMutex_] = "enqueue"

(* Units carry the number of their place; those returned have been put in    *)
(* the buffer, and the one of a send that is about to return is the last.    *)
Numbered ==
  /\ \A i \in 1..Len(accepted) : accepted[i] = i
  /\ returned \subseteq 1..Len(accepted)
  /\ \A t \in Senders :
       tpc[t] = "enqueue" => Len(accepted) > 0 /\ Len(accepted) \notin returned

SendInv == SendTypeOK /\ LockHeld /\ Numbered /\ WireFollowsBuffer

ConnInv == SendInv /\ GracefulCloseKeepsData

(* Nothing is sent and nothing closed. *)
LEMMA ConnInitInv == ConnInit => ConnInv
  BY ConnectionAssumption
     DEF ConnInit, ConnInv, SendInv, SendTypeOK, LockHeld, Numbered, WireFollowsBuffer,
         GracefulCloseKeepsData

(* Connection::send, by any thread. *)
LEMMA SendKeeps ==
  ASSUME SendInv, NEW t \in Senders, send(t) \/ sendWrite(t) \/ sendReturn(t)
  PROVE  SendInv'
  <1> USE ConnectionAssumption DEF SendInv, SendTypeOK, closeVars, sockVars, bufferVars
  <1>1. CASE send(t)
    <2>1. /\ tpc' = [tpc EXCEPT ![t] = "lock"] /\ tpc[t] = "idle"
          /\ UNCHANGED <<sendBuffer_, accepted, written, returned, inFlight, sendMutex_, rpc>>
      BY <1>1 DEF send
    <2>2. QED
      BY <2>1 DEF LockHeld, Numbered, WireFollowsBuffer
  <1>2. CASE sendWrite(t)
    <2>0. PICK x \in Data : x = Len(accepted) + 1
      BY DEF Data
    <2>1. /\ sendBuffer_' = Append(sendBuffer_, x) /\ accepted' = Append(accepted, x)
          /\ tpc' = [tpc EXCEPT ![t] = "enqueue"] /\ tpc[t] = "lock"
          /\ sendMutex_ = None /\ sendMutex_' = t
          /\ UNCHANGED <<written, returned, inFlight, rpc>>
      BY <1>2, <2>0 DEF sendWrite
    <2>2. SendTypeOK'
      BY <2>1
    <2>3. WireFollowsBuffer'
      <3>1. written \in Seq(Data) /\ sendBuffer_ \in Seq(Data)
        OBVIOUS
      <3> HIDE DEF SendInv, SendTypeOK
      <3>3. Append(written \o sendBuffer_, x) = written \o Append(sendBuffer_, x)
        BY <3>1
      <3>2. QED
        BY <2>1, <3>3, Zenon DEF WireFollowsBuffer, SendInv
    <2>4. LockHeld'
      BY <2>1 DEF LockHeld
    <2>5. Numbered'
      <3>1. Len(accepted') = Len(accepted) + 1 /\ accepted'[Len(accepted) + 1] = x
            /\ \A i \in 1..Len(accepted) : accepted'[i] = accepted[i]
        BY <2>1, AppendProperties
      <3>2. Len(accepted) \in Nat /\ Len(accepted) + 1 \notin returned
        BY DEF Numbered
      <3>3. \A u \in Senders : tpc'[u] = "enqueue" => u = t
        BY <2>1 DEF LockHeld
      <3>4. QED
        BY <2>0, <2>1, <3>1, <3>2, <3>3 DEF Numbered
    <2>6. QED
      BY <2>2, <2>3, <2>4, <2>5
  <1>3. CASE sendReturn(t)
    <2>1. /\ tpc' = [tpc EXCEPT ![t] = "idle"] /\ tpc[t] = "enqueue"
          /\ sendMutex_ = t /\ sendMutex_' = None /\ returned' = returned \cup {Last(accepted)}
          /\ UNCHANGED <<sendBuffer_, accepted, written, inFlight, rpc>>
      BY <1>3 DEF sendReturn, LockHeld
    <2>2. Last(accepted) \in 1..Len(accepted)
      BY <2>1 DEF Last, Numbered
    <2>3. SendTypeOK' /\ WireFollowsBuffer' /\ LockHeld'
      BY <2>1 DEF WireFollowsBuffer, LockHeld
    <2>4. Numbered'
      BY <2>1, <2>2 DEF Numbered, LockHeld
    <2>5. QED
      BY <2>3, <2>4
  <1>4. QED
    BY <1>1, <1>2, <1>3

(* A write that takes n units moves them from the buffer to the wire. *)
LEMMA WriteChunkInv ==
  ASSUME SendInv, WriteChunk
  PROVE  SendInv' /\ ToSet(written) \subseteq ToSet(written')
  <1> USE ConnectionAssumption DEF SendInv, SendTypeOK, closeVars
  <1> DEFINE n == Taken(Min({Len(sendBuffer_), Chunk}))
  <1>1. n \in 1..Len(sendBuffer_) /\ inFlight + n <= SndBuf
    <2>1. n > 0
      BY DEF WriteChunk
    <2> DEFINE offered == Min({Len(sendBuffer_), Chunk})
    <2>2. Len(sendBuffer_) \in Nat /\ Chunk \in Nat \ {0} /\ SndBuf - inFlight \in Nat
      OBVIOUS
    <2>3. offered \in Nat /\ offered <= Len(sendBuffer_)
      <3>2. offered = IF Len(sendBuffer_) <= Chunk THEN Len(sendBuffer_) ELSE Chunk
        <4>1. ASSUME NEW i \in Int, NEW j \in Int PROVE Min({i, j}) = IF i <= j THEN i ELSE j
          BY MinTwo
        <4>2. Len(sendBuffer_) \in Int /\ Chunk \in Int
          BY <2>2
        <4>3. QED
          BY <4>1, <4>2
      <3>3. QED
        BY <2>2, <3>2
    <2> HIDE DEF offered
    <2>4. Taken(offered) = IF offered <= SndBuf - inFlight THEN offered ELSE SndBuf - inFlight
      BY <2>2, <2>3, MinTwo DEF Taken
    <2>6. n = Taken(offered)
      BY DEF offered
    <2> HIDE DEF n
    <2>5. QED
      BY <2>1, <2>2, <2>3, <2>4, <2>6
  <1>2. /\ written' = written \o SubSeq(sendBuffer_, 1, n)
        /\ sendBuffer_' = SubSeq(sendBuffer_, n + 1, Len(sendBuffer_))
        /\ inFlight' = inFlight + n
        /\ UNCHANGED <<accepted, returned, tpc>>
    BY DEF WriteChunk
  <1> HIDE DEF n
  <1>3. PICK p \in Seq(Data), r \in Seq(Data) :
          /\ p = SubSeq(sendBuffer_, 1, n) /\ r = SubSeq(sendBuffer_, n + 1, Len(sendBuffer_))
          /\ p \o r = sendBuffer_ /\ written \o p \in Seq(Data)
    <2>1. /\ SubSeq(sendBuffer_, 1, n) \in Seq(Data)
          /\ SubSeq(sendBuffer_, n + 1, Len(sendBuffer_)) \in Seq(Data)
      BY <1>1
    <2>2. SubSeq(sendBuffer_, 1, n) \o SubSeq(sendBuffer_, n + 1, Len(sendBuffer_)) = sendBuffer_
      BY <1>1
    <2>3. written \o SubSeq(sendBuffer_, 1, n) \in Seq(Data)
      BY <2>1
    <2>4. QED
      BY <2>1, <2>2, <2>3
  <1>4. (written \o p) \o r = written \o (p \o r)
    BY SMTT(20)
  <1>5. written' = written \o p /\ sendBuffer_' = r
    BY <1>2, <1>3, Zenon
  <1>6. SendTypeOK'
    BY <1>1, <1>2, <1>3, <1>5
  <1>7. WireFollowsBuffer'
    BY <1>2, <1>3, <1>4, <1>5, Zenon DEF WireFollowsBuffer
  <1>8. LockHeld' /\ Numbered'
    <2>1. rpc = "write" /\ ((rpc' = "idle" /\ sendMutex_' = None) \/ UNCHANGED <<rpc, sendMutex_>>)
      BY DEF WriteChunk, ReturnFromWrite
    <2>2. QED
      BY <1>2, <2>1 DEF LockHeld, Numbered
  <1>9. ToSet(written) \subseteq ToSet(written')
    BY <1>3, <1>5, ElemsConcat
  <1>10. QED
    BY <1>6, <1>7, <1>8, <1>9

(* close changes nothing that SendInv is about. *)
LEMMA CloseKeeps ==
  ASSUME SendInv, NEW force, NEW size, close(force, size)
  PROVE  SendInv'
  BY DEF close, SendInv, SendTypeOK, LockHeld, Numbered, WireFollowsBuffer, sockVars, bufferVars

(* With at most the unit of a sender that is inside it in the buffer, what   *)
(* has returned has been written.                                          *)
LEMMA ReturnedIsWritten ==
  ASSUME SendInv, NEW size \in SizesSeen, size = 0, rpc = "idle", ~TornSize
  PROVE  returned \subseteq ToSet(written)
  <1> USE ConnectionAssumption
  <1>1. /\ written \in Seq(Data) /\ sendBuffer_ \in Seq(Data) /\ accepted = written \o sendBuffer_
        /\ Len(written) \in Nat /\ Len(sendBuffer_) \in Nat
        /\ Len(accepted) = Len(written) + Len(sendBuffer_)
    BY DEF SendInv, SendTypeOK, WireFollowsBuffer
  <1>2. \/ Len(sendBuffer_) = 0
        \/ Len(sendBuffer_) = 1 /\ sendMutex_ # None
    BY <1>1 DEF SizesSeen
  <1>3. sendMutex_ # None => Len(accepted) \notin returned
    BY DEF SendInv, LockHeld, Numbered
  <1>4. ASSUME NEW r \in returned PROVE r \in 1..Len(written)
    <2>1. r \in 1..Len(accepted)
      BY DEF SendInv, Numbered
    <2>2. QED
      BY <1>1, <1>2, <1>3, <2>1
  <1>5. ASSUME NEW r \in returned PROVE r \in ToSet(written)
    <2>1. r \in 1..Len(written) /\ accepted[r] = r
      BY <1>1, <1>4 DEF SendInv, Numbered
    <2>2. QED
      BY <1>1, <2>1, ElemOfFirstPart
  <1>6. QED
    BY <1>5

(* close, whatever it sees: a close that goes through with nothing seen in   *)
(* the buffer has left nothing of a finished send behind.                   *)
LEMMA CloseGraceful ==
  ASSUME ConnInv, ~TornSize, NEW force \in BOOLEAN, NEW size \in SizesSeen, close(force, size)
  PROVE  GracefulCloseKeepsData'
  <1>1. /\ rpc = "idle" /\ written' = written /\ owed' = (IF force THEN {} ELSE returned)
        /\ closed_' => force \/ size = 0
    <2>1. rpc = "idle" /\ written' = written /\ owed' = (IF force THEN {} ELSE returned)
      BY DEF close, bufferVars
    <2>2. closed_' => force \/ size = 0
      BY Zenon DEF close
    <2>3. QED
      BY <2>1, <2>2
  <1>2. CASE force
    BY <1>1, <1>2 DEF GracefulCloseKeepsData
  <1>3. CASE ~force /\ size = 0
    <2>1. returned \subseteq ToSet(written)
      BY <1>1, <1>3, ReturnedIsWritten DEF ConnInv
    <2>2. QED
      BY <1>1, <1>3, <2>1 DEF GracefulCloseKeepsData
  <1>4. CASE ~force /\ size # 0
    BY <1>1, <1>4 DEF GracefulCloseKeepsData
  <1>5. QED
    BY <1>2, <1>3, <1>4

(* The other steps change neither the buffer nor what was written. *)
LEMMA ConnRestInv ==
  ASSUME SendInv,
         \/ handleWrite \/ sendBufferedData \/ WriteFails \/ PeerGoneNoticed
         \/ PeerReads \/ PeerResets \/ UNCHANGED connVars
  PROVE  SendInv'
  <1>1. UNCHANGED <<sendBuffer_, accepted, written, tpc, returned>>
    BY DEF handleWrite, sendBufferedData, WriteFails, PeerGoneNoticed, PeerReads, PeerResets,
           connVars, closeVars, sockVars, bufferVars
  <1>2. inFlight' \in 0..SndBuf
    BY ConnectionAssumption
       DEF handleWrite, sendBufferedData, WriteFails, PeerGoneNoticed, PeerReads, PeerResets,
           connVars, closeVars, sockVars, bufferVars, SendInv, SendTypeOK
  <1>3. LockHeld'
    BY <1>1, ConnectionAssumption
       DEF handleWrite, sendBufferedData, WriteFails, PeerGoneNoticed, PeerReads, PeerResets,
           ReturnFromWrite, connVars, SendInv, SendTypeOK, LockHeld
  <1>4. QED
    BY <1>1, <1>2, <1>3 DEF SendInv, SendTypeOK, WireFollowsBuffer, Numbered

(* Every step of a Connection keeps the send side's invariant. *)
LEMMA SendNextInv == SendInv /\ [ConnNext]_connVars => SendInv'
  BY SendKeeps, WriteChunkInv, CloseKeeps, ConnRestInv DEF ConnNext, SendSteps, ReactorSteps

(* Nothing takes units off the wire or makes a closed connection owe more;   *)
(* only close closes.                                                      *)
LEMMA ConnNextInv == ASSUME ~TornSize PROVE ConnInv /\ [ConnNext]_connVars => ConnInv'
  <1> SUFFICES ASSUME ConnInv, [ConnNext]_connVars PROVE ConnInv'
    OBVIOUS
  <1>1. SendInv'
    BY SendNextInv DEF ConnInv
  <1>2. GracefulCloseKeepsData'
    <2>1. CASE \E force \in {TRUE, ~GracefulClose}, size \in SizesSeen : close(force, size)
      <3>1. ASSUME NEW force \in {TRUE, ~GracefulClose} PROVE force \in BOOLEAN
        BY ConnectionAssumption
      <3>2. QED
        BY <2>1, <3>1, CloseGraceful
    <2>2. CASE WriteChunk
      <3>1. ToSet(written) \subseteq ToSet(written')
        BY <2>2, WriteChunkInv DEF ConnInv
      <3>2. closed_' = closed_ /\ owed' = owed
        BY <2>2 DEF WriteChunk, closeVars
      <3>3. QED
        BY <3>1, <3>2 DEF ConnInv, GracefulCloseKeepsData
    <2>3. CASE /\ ~\E force \in {TRUE, ~GracefulClose}, size \in SizesSeen : close(force, size)
               /\ ~WriteChunk
      <3>1. UNCHANGED <<written, closed_, owed>>
        BY <2>3 DEF ConnNext, SendSteps, ReactorSteps, send, sendWrite, sendReturn, handleWrite,
                    sendBufferedData, WriteFails, PeerGoneNoticed, PeerReads, PeerResets,
                    connVars, closeVars, sockVars, bufferVars
      <3>2. QED
        BY <3>1 DEF ConnInv, GracefulCloseKeepsData
    <2>4. QED
      BY <2>1, <2>2, <2>3
  <1>3. QED
    BY <1>1, <1>2 DEF ConnInv

(* For any senders, any size of a write and of the socket's buffer: what the *)
(* socket has taken, followed by the buffer, is what send was given.        *)
THEOREM ConnectionWireFollowsBuffer == ConnSpec => []WireFollowsBuffer
  <1>1. ConnInit => SendInv
    BY ConnInitInv DEF ConnInv
  <1>2. SendInv => WireFollowsBuffer
    BY DEF SendInv
  <1>3. QED
    BY <1>1, <1>2, SendNextInv, PTL DEF ConnSpec

(* A close that is not forced and closes at once has left nothing of a       *)
(* finished send behind, though it reads size() without the lock and another *)
(* sender may be inside the buffer: the size it sees may or may not count    *)
(* that sender's unit.  A torn size is excluded: with it the code loses      *)
(* data.                                                                   *)
THEOREM ConnectionGracefulClose == ASSUME ~TornSize PROVE ConnSpec => []GracefulCloseKeepsData
  <1>1. ConnInv => GracefulCloseKeepsData
    BY DEF ConnInv
  <1>2. ConnInv /\ [ConnNext]_connVars => ConnInv'
    BY ConnNextInv
  <1>3. QED
    BY ConnInitInv, <1>1, <1>2, PTL DEF ConnSpec

-----------------------------------------------------------------------------
(* The round robin of the MainReactor.                                     *)

(* A quotient and a remainder determine the result of %. *)
LEMMA RemainderIs ==
  ASSUME NEW p \in Nat \ {0}, NEW n \in Int, NEW q \in Int, NEW r \in 0..(p - 1),
         n = p * q + r
  PROVE  n % p = r
  OBVIOUS

(* The remainder of the next number: one more, or zero again. *)
LEMMA RemainderSucc ==
  ASSUME NEW p \in Nat \ {0}, NEW n \in Nat
  PROVE  (n + 1) % p = IF (n % p) + 1 = p THEN 0 ELSE (n % p) + 1
  <1>1. PICK q \in Int, r \in 0..(p - 1) : n = p * q + r /\ r = n % p
    OBVIOUS
  <1>2. CASE r + 1 = p
    <2> DEFINE k == q + 1
    <2>1. k \in Int /\ p * k = p * q + p
      OBVIOUS
    <2>2. PICK x \in Int, y \in Int : x = p * q /\ y = p * k
      BY <2>1
    <2> HIDE DEF k
    <2>3. n = x + r /\ y = x + p
      BY <1>1, <2>1, <2>2
    <2>4. n + 1 = y + 0
      BY <1>2, <2>3
    <2>5. n + 1 = p * k + 0
      BY <2>2, <2>4
    <2>6. 0 \in 0..(p - 1) /\ n + 1 \in Int
      OBVIOUS
    <2>7. (n + 1) % p = 0
      BY <2>1, <2>5, <2>6, RemainderIs
    <2>8. QED
      BY <2>7, <1>1, <1>2
  <1>3. CASE r + 1 # p
    <2>1. n + 1 = p * q + (r + 1)
      BY <1>1
    <2>2. r + 1 \in 0..(p - 1) /\ n + 1 \in Int
      BY <1>3
    <2>3. QED
      BY <2>1, <2>2, <1>1, <1>3, RemainderIs
  <1>4. QED
    BY <1>2, <1>3

(* the sub-reactor an index stands for *)
SubOf(i) == ToSize(i) % SubCount

(* s lies on the way round from a up to, and without, b *)
Passed(s, a, b) == IF a <= b THEN a <= s /\ s < b ELSE a <= s \/ s < b

(* The conversion to size_t keeps the numbers from 0 and moves the negative  *)
(* ones to the end.                                                        *)
LEMMA ToSizeValue ==
  ASSUME NEW i \in IntMin..IntMax
  PROVE  /\ ToSize(i) \in Nat
         /\ ToSize(i) = IF i < 0 THEN i + SizeModulus ELSE i
  <1>1. PICK m \in Nat \ {0} : m = SizeModulus /\ IntMax < m
    BY WidthsAssumption
  <1>2. i \in Int /\ i < m /\ -m <= i
    BY <1>1, WidthsAssumption
  <1>3. CASE i < 0
    <2>1. i % m = i + m
      BY <1>2, <1>3
    <2>2. QED
      BY <2>1, <1>1, <1>2, <1>3 DEF ToSize
  <1>4. CASE i >= 0
    <2>1. i % m = i
      BY <1>2, <1>4
    <2>2. QED
      BY <2>1, <1>1, <1>2, <1>4 DEF ToSize
  <1>5. QED
    BY <1>2, <1>3, <1>4

(* SubOf names a sub-reactor. *)
LEMMA SubOfType ==
  ASSUME NEW i \in IntMin..IntMax
  PROVE  SubOf(i) \in Subs
  <1>1. ToSize(i) \in Nat
    BY ToSizeValue
  <1>2. QED
    BY <1>1, MainReactorAssumption DEF SubOf, Subs

(* Where the index does not wrap, the next sub-reactor follows. *)
LEMMA SubOfSucc ==
  ASSUME NEW i \in IntMin..IntMax, i # IntMax, i # -1
  PROVE  /\ i + 1 \in IntMin..IntMax
         /\ SubOf(i + 1) = IF SubOf(i) + 1 = SubCount THEN 0 ELSE SubOf(i) + 1
  <1>1. i + 1 \in IntMin..IntMax
    BY WidthsAssumption
  <1>2. ToSize(i) \in Nat /\ ToSize(i + 1) = ToSize(i) + 1
    BY <1>1, ToSizeValue, WidthsAssumption
  <1>3. QED
    BY <1>1, <1>2, RemainderSucc, MainReactorAssumption DEF SubOf

(* Since the index last wrapped, at loads base, every sub-reactor was given  *)
(* m descriptors, and those passed since start one more.                   *)
RoundRobin(base, m, start) ==
  /\ \A s, t \in Subs : base[s] - base[t] <= wraps
  /\ \A s \in Subs :
       handed[s] = base[s] + m + (IF Passed(s, start, SubOf(next_sub_idx_)) THEN 1 ELSE 0)

(* The invariant behind Balanced. *)
MainInv ==
  /\ handed \in [Subs -> Nat] /\ wraps \in Nat
  /\ next_sub_idx_ \in IntMin..IntMax
  /\ \E base \in [Subs -> Nat], m \in Nat, start \in Subs : RoundRobin(base, m, start)

(* The first round starts where the index points, with equal loads. *)
LEMMA MainInitInv == MainInit => MainInv
  <1> SUFFICES ASSUME MainInit PROVE MainInv
    OBVIOUS
  <1>1. next_sub_idx_ \in IntMin..IntMax /\ handed = [s \in Subs |-> 0] /\ wraps = 0
    BY StartsAssumption DEF MainInit
  <1>2. PICK a : a = SubOf(next_sub_idx_) /\ a \in Subs
    BY <1>1, SubOfType
  <1>3. \A s \in Subs : ~Passed(s, a, a)
    BY <1>2, MainReactorAssumption DEF Passed, Subs
  <1>4. RoundRobin(handed, 0, a)
    BY <1>1, <1>2, <1>3 DEF RoundRobin
  <1>5. QED
    BY <1>1, <1>2, <1>4 DEF MainInv

(* dispatch keeps the loads on their way round, and starts a new round where *)
(* the index wraps.                                                        *)
LEMMA DispatchInv ==
  ASSUME MainInv, dispatch
  PROVE  MainInv'
  <1>1. PICK base \in [Subs -> Nat], m \in Nat, start \in Subs : RoundRobin(base, m, start)
    BY DEF MainInv
  <1>2. PICK a : a = SubOf(next_sub_idx_) /\ a \in Subs
    BY SubOfType DEF MainInv
  <1>3. /\ handed \in [Subs -> Nat] /\ wraps \in Nat /\ next_sub_idx_ \in IntMin..IntMax
        /\ handed' = [handed EXCEPT ![a] = @ + 1]
        /\ next_sub_idx_' = Increment(next_sub_idx_)
        /\ wraps' = IF next_sub_idx_ \in {IntMax, -1} THEN wraps + 1 ELSE wraps
    BY <1>2 DEF MainInv, dispatch, SubOf
  <1>4. handed' \in [Subs -> Nat] /\ wraps' \in Nat
    BY <1>2, <1>3
  <1>5. next_sub_idx_' \in IntMin..IntMax
    BY <1>3, WidthsAssumption DEF Increment
  <1>6. PICK b : b = SubOf(next_sub_idx_') /\ b \in Subs
    BY <1>5, SubOfType
  <1>7. /\ \A s, t \in Subs : base[s] - base[t] <= wraps
        /\ \A s \in Subs : handed[s] = base[s] + m + (IF Passed(s, start, a) THEN 1 ELSE 0)
    BY <1>1, <1>2 DEF RoundRobin
  <1>8. ~Passed(a, start, a)
    BY <1>2, MainReactorAssumption DEF Passed, Subs
  <1>9. \A s \in Subs :
          handed'[s] = base[s] + m + (IF s = a \/ Passed(s, start, a) THEN 1 ELSE 0)
    BY <1>2, <1>3, <1>7, <1>8
  <1>10. CASE next_sub_idx_ \in {IntMax, -1}
    <2>1. \A s, t \in Subs : handed'[s] - handed'[t] <= wraps'
      BY <1>3, <1>7, <1>9, <1>10
    <2>2. \A s \in Subs : ~Passed(s, b, b)
      BY <1>6, MainReactorAssumption DEF Passed, Subs
    <2>3. PICK base1 \in [Subs -> Nat] : base1 = handed'
      BY <1>4
    <2>4. RoundRobin(base1, 0, b)'
      BY <2>1, <2>2, <2>3, <1>4, <1>6 DEF RoundRobin
    <2>5. QED
      BY <2>4, <1>4, <1>5, <1>6 DEF MainInv
  <1>11. CASE next_sub_idx_ \notin {IntMax, -1}
    <2>1. b = IF a + 1 = SubCount THEN 0 ELSE a + 1
      BY <1>2, <1>3, <1>6, <1>11, SubOfSucc DEF Increment
    <2>2. wraps' = wraps
      BY <1>3, <1>11
    <2>3. CASE b = start
      <3>1. \A s \in Subs : (s = a \/ Passed(s, start, a)) /\ ~Passed(s, start, b)
        BY <2>1, <2>3, <1>2, MainReactorAssumption DEF Passed, Subs
      <3>2. RoundRobin(base, m + 1, start)'
        BY <3>1, <2>2, <1>6, <1>7, <1>9 DEF RoundRobin
      <3>3. QED
        BY <3>2, <1>4, <1>5 DEF MainInv
    <2>4. CASE b # start
      <3>1. ASSUME NEW s \in Subs PROVE (s = a \/ Passed(s, start, a)) <=> Passed(s, start, b)
        <4>1. SubCount \in Nat /\ a \in 0..(SubCount - 1) /\ start \in 0..(SubCount - 1)
              /\ s \in 0..(SubCount - 1)
          BY <1>2, MainReactorAssumption DEF Subs
        <4>2. CASE a + 1 = SubCount
          BY <2>1, <2>4, <4>1, <4>2 DEF Passed
        <4>3. CASE a + 1 # SubCount
          BY <2>1, <2>4, <4>1, <4>3 DEF Passed
        <4>4. QED
          BY <4>2, <4>3
      <3>2. RoundRobin(base, m, start)'
        BY <3>1, <2>2, <1>6, <1>7, <1>9 DEF RoundRobin
      <3>3. QED
        BY <3>2, <1>4, <1>5 DEF MainInv
    <2>5. QED
      BY <2>3, <2>4
  <1>12. QED
    BY <1>10, <1>11

(* No other step touches the loads. *)
LEMMA MainNextInv == MainInv /\ [MainNext]_mainVars => MainInv'
  <1> SUFFICES ASSUME MainInv, [MainNext]_mainVars PROVE MainInv'
    OBVIOUS
  <1>1. CASE UNCHANGED <<next_sub_idx_, handed, wraps>>
    BY <1>1 DEF MainInv, RoundRobin
  <1>2. CASE dispatch
    BY <1>2, DispatchInv
  <1>3. QED
    BY <1>1, <1>2 DEF MainNext, MainLoop, Arrive, doEpoll, accept, acceptFails, mainVars

(* For any number of sub-reactors, any widths of int and size_t and any      *)
(* start of the index: loads differ by one, and by one more for each wrap.  *)
THEOREM MainReactorBalanced == MainSpec => []Balanced
  <1>1. MainInv => Balanced
    <2> SUFFICES ASSUME MainInv, NEW s \in Subs, NEW t \in Subs
                 PROVE  handed[s] - handed[t] <= 1 + wraps
      BY DEF Balanced
    <2>1. PICK base \in [Subs -> Nat], m \in Nat, start \in Subs : RoundRobin(base, m, start)
      BY DEF MainInv
    <2>2. base[s] \in Nat /\ base[t] \in Nat /\ wraps \in Nat
      BY DEF MainInv
    <2>3. QED
      BY <2>1, <2>2 DEF RoundRobin
  <1>2. QED
    BY MainInitInv, MainNextInv, <1>1, PTL DEF MainSpec

-----------------------------------------------------------------------------
(* CubeServer.                                                             *)

FrameUnits == Clients \X Nat \X Nat \X Nat
Size(fs, k) == kHeaderLen + fs[k]
Unit(c, fs, k, i) == <<c, k, i, Size(fs, k)>>

(* fs are the sizes of c's frames.  Frame k is in line behind the first p    *)
(* units; behind it is the next frame or, after the last one, nothing.     *)
FrameAt(line, c, fs, k, p) ==
  /\ p + Size(fs, k) <= Len(line)
  /\ \A i \in 1..Size(fs, k) : line[p + i] = Unit(c, fs, k, i)
  /\ p + Size(fs, k) = Len(line) => k = Len(fs)
  /\ p + Size(fs, k) < Len(line) =>
       k < Len(fs) /\ line[p + Size(fs, k) + 1] = Unit(c, fs, k + 1, 1)

(* What is in line are the frames of c after the first r. *)
InLine(line, c, fs, r) ==
  /\ line = <<>> => r = Len(fs)
  /\ line # <<>> => r < Len(fs) /\ line[1] = Unit(c, fs, r + 1, 1)
  /\ \A j \in 1..Len(line) :
       \E k \in 1..Len(fs) : \E i \in 1..Size(fs, k) :
         i <= j /\ FrameAt(line, c, fs, k, j - i)

(* The bodies that answer the first r of them. *)
Body(c, fs, k) == SubSeq(encoder(c, k, fs[k]), kHeaderLen + 1, Size(fs, k))
Bodies(c, fs, r) == [k \in 1..r |-> Body(c, fs, k)]

CubeTypes ==
  /\ conns \subseteq Clients /\ handling \in conns \cup {NoClient}
  /\ stream \in [Clients -> Seq(FrameUnits)] /\ frames \in [Clients -> Seq(BodySizes)]
  /\ replies \in [Clients -> Seq(Seq(FrameUnits))]
  /\ buffer_ \in Seq(FrameUnits)

(* buffer_ and the stream of the connection that is there make one line,     *)
(* which begins with the first frame that has no answer.                   *)
Served(c) ==
  /\ Len(replies[c]) <= Len(frames[c])
  /\ replies[c] = Bodies(c, frames[c], Len(replies[c]))
  /\ c \in conns => InLine(buffer_ \o stream[c], c, frames[c], Len(replies[c]))
  /\ c \notin conns => stream[c] = <<>> /\ Len(replies[c]) = Len(frames[c])

CubeInv ==
  /\ CubeTypes
  /\ \A c \in conns : conns = {c}
  /\ conns = {} => buffer_ = <<>>
  /\ handling = NoClient => ~Complete(buffer_)
  /\ \A c \in Clients : Served(c)

(* A frame is a sequence of units, at least three. *)
LEMMA EncoderUnits ==
  ASSUME NEW c \in Clients, NEW k \in Nat, NEW body \in BodySizes
  PROVE  /\ encoder(c, k, body) \in Seq(FrameUnits)
         /\ Len(encoder(c, k, body)) = kHeaderLen + body /\ body \in Nat /\ body >= 1
         /\ \A i \in 1..(kHeaderLen + body) :
              encoder(c, k, body)[i] = <<c, k, i, kHeaderLen + body>>
  <1>1. body \in Nat /\ body >= 1
    BY CubeServerAssumption
  <1>2. \A i \in 1..(kHeaderLen + body) : <<c, k, i, kHeaderLen + body>> \in FrameUnits
    BY <1>1 DEF FrameUnits, kHeaderLen
  <1>3. kHeaderLen + body \in Nat
    BY <1>1 DEF kHeaderLen
  <1>4. encoder(c, k, body) \in [1..(kHeaderLen + body) -> FrameUnits]
    BY <1>2 DEF encoder
  <1>5. encoder(c, k, body) \in Seq(FrameUnits) /\ Len(encoder(c, k, body)) = kHeaderLen + body
    BY <1>3, <1>4
  <1>6. QED
    BY <1>1, <1>5 DEF encoder

(* The first frame in line is there to its last unit, and what comes after   *)
(* it begins with the next.                                                *)
LEMMA TakeFrame ==
  ASSUME NEW c \in Clients, NEW fs \in Seq(BodySizes), NEW r \in Nat, NEW line \in Seq(FrameUnits),
         line # <<>>, InLine(line, c, fs, r)
  PROVE  /\ r + 1 \in 1..Len(fs) /\ fs[r + 1] \in Nat /\ fs[r + 1] >= 1
         /\ Size(fs, r + 1) <= Len(line)
         /\ \A i \in 1..Size(fs, r + 1) : line[i] = Unit(c, fs, r + 1, i)
         /\ InLine(SubSeq(line, Size(fs, r + 1) + 1, Len(line)), c, fs, r + 1)
  <1> DEFINE n == Size(fs, r + 1)
             rest == SubSeq(line, n + 1, Len(line))
  <1>1. Len(fs) \in Nat /\ Len(line) \in Nat /\ Len(line) >= 1
    BY EmptySeq
  <1>2. \A k \in 1..Len(fs) : fs[k] \in Nat /\ fs[k] >= 1 /\ Size(fs, k) \in Nat /\ Size(fs, k) >= 3
    <2> SUFFICES ASSUME NEW k \in 1..Len(fs) PROVE fs[k] \in Nat /\ fs[k] >= 1
      BY DEF Size, kHeaderLen
    <2>1. fs[k] \in BodySizes
      BY <1>1
    <2>2. \A b \in BodySizes : b \in Nat /\ b >= 1
      BY CubeServerAssumption
    <2>3. QED
      BY <2>1, <2>2
  <1>3. r + 1 \in 1..Len(fs) /\ line[1] = Unit(c, fs, r + 1, 1)
    BY <1>1 DEF InLine
  <1>4. FrameAt(line, c, fs, r + 1, 0)
    <2> PICK k \in 1..Len(fs) : \E i \in 1..Size(fs, k) : i <= 1 /\ FrameAt(line, c, fs, k, 1 - i)
      BY <1>1 DEF InLine
    <2>1. PICK i \in 1..Size(fs, k) : i <= 1 /\ FrameAt(line, c, fs, k, 1 - i)
      OBVIOUS
    <2>2. i = 1 /\ 1 - i = 0
      BY <2>1, <1>2
    <2>3. line[0 + 1] = Unit(c, fs, k, 1)
      BY <2>1, <2>2, <1>2 DEF FrameAt
    <2>4. k = r + 1
      BY <2>3, <1>3 DEF Unit
    <2>5. QED
      BY <2>1, <2>2, <2>4
  <1>5. /\ n \in Nat /\ n >= 3 /\ n <= Len(line)
        /\ \A i \in 1..n : line[i] = Unit(c, fs, r + 1, i)
        /\ n = Len(line) => r + 1 = Len(fs)
        /\ n < Len(line) => r + 1 < Len(fs) /\ line[n + 1] = Unit(c, fs, r + 1 + 1, 1)
    BY <1>1, <1>2, <1>3, <1>4 DEF FrameAt
  <1> HIDE DEF n
  <1>6. /\ rest \in Seq(FrameUnits) /\ Len(rest) = Len(line) - n
        /\ \A j \in 1..(Len(line) - n) : rest[j] = line[n + j]
    BY <1>1, <1>5
  <1> HIDE DEF rest
  <1>7. ASSUME NEW j \in 1..Len(rest)
        PROVE  \E k \in 1..Len(fs) : \E i \in 1..Size(fs, k) : i <= j /\ FrameAt(rest, c, fs, k, j - i)
    <2>1. PICK q \in 1..Len(line) : q = n + j /\ q \in Nat /\ j \in Nat /\ j >= 1
      BY <1>1, <1>5, <1>6
    <2> PICK k \in 1..Len(fs) :
            \E i \in 1..Size(fs, k) : i <= q /\ FrameAt(line, c, fs, k, q - i)
      BY <2>1 DEF InLine
    <2>2. PICK i \in 1..Size(fs, k) : i <= q /\ FrameAt(line, c, fs, k, q - i)
      OBVIOUS
    <2>3. Size(fs, k) \in Nat /\ i \in Nat /\ i >= 1 /\ i <= Size(fs, k) /\ k \in Nat
      BY <2>2, <1>2
    <2>4. PICK p \in Nat : p = q - i /\ p + i = n + j
      BY <2>1, <2>2, <2>3, <1>5
    <2>5. FrameAt(line, c, fs, k, p) /\ \A m \in 1..Size(fs, k) : line[p + m] = Unit(c, fs, k, m)
      BY <2>2, <2>4 DEF FrameAt
    <2>6. i <= j
      <3>1. SUFFICES ASSUME i > j PROVE FALSE
        BY <2>1, <2>3
      <3>2. n - p \in 1..Size(fs, k) /\ n \in 1..n /\ p + (n - p) = n
        BY <3>1, <2>1, <2>3, <2>4, <1>5
      <3>3. Unit(c, fs, k, n - p) = Unit(c, fs, r + 1, n)
        BY <3>2, <2>5, <1>5
      <3>4. k = r + 1 /\ n - p = n /\ Size(fs, k) = n
        BY <3>3 DEF Unit, n
      <3>5. QED
        BY <3>4, <2>1, <2>3, <2>4, <1>5
    <2>7. PICK d \in Nat : d = j - i /\ p = n + d
      BY <2>1, <2>3, <2>4, <2>6, <1>5
    <2>8. FrameAt(rest, c, fs, k, d)
      <3>1. PICK z \in Nat, v \in Nat : z = Size(fs, k) /\ v = Len(rest) /\ Len(line) = n + v
        <4>1. Len(rest) \in Nat /\ Len(line) = n + Len(rest)
          BY <1>1, <1>5, <1>6
        <4>2. QED
          BY <4>1, <2>3
      <3>2. n \in Nat /\ \A m \in 1..v : rest[m] = line[n + m]
        BY <3>1, <1>5, <1>6
      <3>3. p + z <= n + v /\ d + z <= v
        BY <3>1, <3>2, <2>5, <2>7, SMTT(20) DEF FrameAt
      <3>4. ASSUME NEW m \in 1..z PROVE rest[d + m] = Unit(c, fs, k, m)
        <4>1. d + m \in 1..v /\ n + (d + m) = p + m
          BY <3>2, <3>3, <2>7
        <4>2. QED
          BY <4>1, <3>1, <3>2, <2>5
      <3>5. d + z = v => k = Len(fs)
        <4>1. d + z = v => p + z = n + v
          BY <3>2, <2>7
        <4>2. QED
          BY <4>1, <3>1, <2>5 DEF FrameAt
      <3>6. ASSUME d + z < v
            PROVE  k < Len(fs) /\ rest[d + z + 1] = Unit(c, fs, k + 1, 1)
        <4>1. d + z + 1 \in 1..v /\ n + (d + z + 1) = p + z + 1 /\ p + z < n + v
          BY <3>2, <3>6, <2>7
        <4>2. k < Len(fs) /\ line[p + z + 1] = Unit(c, fs, k + 1, 1)
          BY <4>1, <3>1, <2>5 DEF FrameAt
        <4>3. QED
          BY <4>1, <4>2, <3>2
      <3>7. QED
        BY <3>1, <3>3, <3>4, <3>5, <3>6 DEF FrameAt
    <2>9. QED
      BY <2>6, <2>7, <2>8
  <1>8. rest = <<>> => r + 1 = Len(fs)
    BY <1>1, <1>5, <1>6
  <1>9. rest # <<>> => r + 1 < Len(fs) /\ rest[1] = Unit(c, fs, (r + 1) + 1, 1)
    <2>1. ASSUME rest # <<>> PROVE n < Len(line) /\ 1 \in 1..(Len(line) - n)
      BY <2>1, <1>1, <1>5, <1>6, EmptySeq
    <2>2. QED
      BY <2>1, <1>5, <1>6
  <1>10. InLine(rest, c, fs, r + 1)
    BY <1>7, <1>8, <1>9 DEF InLine
  <1>11. QED
    BY <1>2, <1>3, <1>5, <1>10 DEF n, rest

(* Another frame behind the others. *)
LEMMA AddFrame ==
  ASSUME NEW c \in Clients, NEW fs \in Seq(BodySizes), NEW r \in Nat, r <= Len(fs),
         NEW line \in Seq(FrameUnits), InLine(line, c, fs, r), NEW body \in BodySizes
  PROVE  InLine(line \o encoder(c, Len(fs) + 1, body), c, Append(fs, body), r)
  <1> DEFINE new == encoder(c, Len(fs) + 1, body)
             all == line \o new
             gs == Append(fs, body)
             n == Len(line)
             h == kHeaderLen + body
  <1>1. Len(fs) \in Nat /\ n \in Nat /\ Len(fs) + 1 \in Nat
    OBVIOUS
  <1>2. \A b \in BodySizes : b \in Nat /\ b >= 1
    BY CubeServerAssumption
  <1>3. \A k \in 1..Len(fs) : Size(fs, k) \in Nat /\ Size(fs, k) >= 3
    <2> SUFFICES ASSUME NEW k \in 1..Len(fs) PROVE fs[k] \in Nat /\ fs[k] >= 1
      BY DEF Size, kHeaderLen
    <2>1. fs[k] \in BodySizes
      BY <1>1
    <2>2. QED
      BY <2>1, <1>2
  <1>4. h \in Nat /\ h >= 3
    BY <1>2 DEF kHeaderLen
  <1>5. /\ new \in Seq(FrameUnits) /\ Len(new) = h
        /\ \A i \in 1..h : new[i] = <<c, Len(fs) + 1, i, h>>
    BY <1>1, EncoderUnits
  <1>6. /\ gs \in Seq(BodySizes) /\ Len(gs) = Len(fs) + 1 /\ gs[Len(fs) + 1] = body
        /\ \A k \in 1..Len(fs) : gs[k] = fs[k]
    BY <1>1
  <1>7. Size(gs, Len(fs) + 1) = h /\ \A k \in 1..Len(fs) : Size(gs, k) = Size(fs, k)
    BY <1>6 DEF Size
  <1>8. \A i : Unit(c, gs, Len(fs) + 1, i) = <<c, Len(fs) + 1, i, h>>
    BY <1>7 DEF Unit
  <1>9. \A k \in 1..Len(fs) : \A i : Unit(c, gs, k, i) = Unit(c, fs, k, i)
    BY <1>7 DEF Unit
  <1> HIDE DEF new, gs, h
  <1>10. /\ Len(all) = n + h
         /\ \A j \in 1..n : all[j] = line[j]
         /\ \A i \in 1..h : all[n + i] = Unit(c, gs, Len(fs) + 1, i)
    <2>1. all \in Seq(FrameUnits) /\ Len(all) = n + h
      BY <1>1, <1>4, <1>5, ConcatProperties
    <2>2. \A j \in 1..n : all[j] = line[j]
      BY <1>1, <1>4, <1>5
    <2>3. \A i \in 1..h : all[n + i] = new[i]
      BY <1>1, <1>4, <1>5
    <2>4. QED
      BY <2>1, <2>2, <2>3, <1>5, <1>8
  <1> HIDE DEF all
  <1>11. FrameAt(all, c, gs, Len(fs) + 1, n)
    BY <1>1, <1>4, <1>6, <1>7, <1>10 DEF FrameAt
  <1>12. ASSUME NEW k \in 1..Len(fs), NEW p \in Nat, FrameAt(line, c, fs, k, p)
         PROVE  FrameAt(all, c, gs, k, p)
    <2>1. Size(gs, k) = Size(fs, k) /\ Size(fs, k) \in Nat /\ k \in Nat
      BY <1>1, <1>3, <1>7
    <2>2. p + Size(fs, k) <= n /\ p + Size(fs, k) < n + h
      BY <1>12, <2>1, <1>1, <1>4 DEF FrameAt
    <2>3. ASSUME NEW i \in 1..Size(fs, k) PROVE all[p + i] = Unit(c, gs, k, i)
      <3>1. p + i \in 1..n
        BY <2>1, <2>2, <1>1
      <3>2. line[p + i] = Unit(c, fs, k, i)
        BY <1>12 DEF FrameAt
      <3>3. QED
        BY <3>1, <3>2, <1>9, <1>10
    <2>4. k < Len(gs) /\ all[p + Size(fs, k) + 1] = Unit(c, gs, k + 1, 1)
      <3>1. CASE p + Size(fs, k) = n
        <4>1. k = Len(fs)
          BY <3>1, <1>12 DEF FrameAt
        <4>2. all[n + 1] = Unit(c, gs, Len(fs) + 1, 1)
          BY <1>4, <1>10
        <4>3. QED
          BY <3>1, <4>1, <4>2, <1>1, <1>6
      <3>2. CASE p + Size(fs, k) < n
        <4>1. k < Len(fs) /\ line[p + Size(fs, k) + 1] = Unit(c, fs, k + 1, 1)
          BY <3>2, <1>12 DEF FrameAt
        <4>2. p + Size(fs, k) + 1 \in 1..n /\ k + 1 \in 1..Len(fs)
          BY <3>2, <4>1, <2>1, <1>1
        <4>3. QED
          BY <4>1, <4>2, <2>1, <1>1, <1>6, <1>9, <1>10
      <3>3. QED
        BY <3>1, <3>2, <2>1, <2>2, <1>1
    <2>5. QED
      BY <2>1, <2>2, <2>3, <2>4, <1>1, <1>4, <1>10 DEF FrameAt
  <1>13. ASSUME NEW j \in 1..Len(all)
         PROVE  \E k \in 1..Len(gs) : \E i \in 1..Size(gs, k) : i <= j /\ FrameAt(all, c, gs, k, j - i)
    <2>1. CASE j \in 1..n
      <3> PICK k \in 1..Len(fs) : \E i \in 1..Size(fs, k) : i <= j /\ FrameAt(line, c, fs, k, j - i)
        BY <2>1 DEF InLine
      <3>1. PICK i \in 1..Size(fs, k) : i <= j /\ FrameAt(line, c, fs, k, j - i)
        OBVIOUS
      <3>2. j - i \in Nat /\ k \in 1..Len(gs) /\ i \in 1..Size(gs, k)
        BY <2>1, <3>1, <1>1, <1>3, <1>6, <1>7
      <3>3. FrameAt(all, c, gs, k, j - i)
        BY <3>1, <3>2, <1>12
      <3>4. QED
        BY <3>1, <3>2, <3>3
    <2>2. CASE j > n
      <3>1. PICK i \in 1..h : i = j - n /\ j - i = n /\ i <= j
        BY <2>2, <1>1, <1>4, <1>10
      <3>2. Len(fs) + 1 \in 1..Len(gs) /\ i \in 1..Size(gs, Len(fs) + 1)
        BY <1>1, <1>6, <1>7
      <3>3. FrameAt(all, c, gs, Len(fs) + 1, j - i)
        BY <3>1, <1>11
      <3>4. QED
        BY <3>1, <3>2, <3>3
    <2>3. QED
      BY <2>1, <2>2, <1>1, <1>4, <1>10
  <1>14. all # <<>> /\ r < Len(gs) /\ all[1] = Unit(c, gs, r + 1, 1)
    <2>1. all # <<>> /\ r < Len(gs)
      BY <1>1, <1>4, <1>6, <1>10
    <2>2. CASE n = 0
      <3>1. line = <<>> /\ r = Len(fs)
        BY <2>2, EmptySeq DEF InLine
      <3>2. QED
        BY <2>1, <2>2, <3>1, <1>4, <1>10
    <2>3. CASE n > 0
      <3>1. line # <<>> /\ r < Len(fs) /\ line[1] = Unit(c, fs, r + 1, 1)
        BY <2>3, EmptySeq DEF InLine
      <3>2. 1 \in 1..n /\ r + 1 \in 1..Len(fs)
        BY <2>3, <3>1, <1>1
      <3>3. QED
        BY <2>1, <3>1, <3>2, <1>9, <1>10
    <2>4. QED
      BY <2>2, <2>3, <1>1
  <1>15. InLine(all, c, gs, r)
    BY <1>13, <1>14 DEF InLine
  <1>16. QED
    BY <1>15 DEF all, new, gs

(* Buffer, stream and what comes after them. *)
LEMMA LineAssociative ==
  \A a, b, d \in Seq(FrameUnits) : (a \o b) \o d = a \o (b \o d)
  BY ConcatAssociative

(* Where TCP cuts the stream does not matter to the line. *)
LEMMA CutLine ==
  ASSUME NEW b \in Seq(FrameUnits), NEW s \in Seq(FrameUnits), NEW n \in 1..Len(s)
  PROVE  /\ SubSeq(s, 1, n) \in Seq(FrameUnits) /\ SubSeq(s, n + 1, Len(s)) \in Seq(FrameUnits)
         /\ (b \o SubSeq(s, 1, n)) \o SubSeq(s, n + 1, Len(s)) = b \o s
  <1> DEFINE x == SubSeq(s, 1, n)
             y == SubSeq(s, n + 1, Len(s))
  <1>1. Len(b) \in Nat /\ Len(s) \in Nat /\ n \in Nat
    OBVIOUS
  <1>2. x \in Seq(FrameUnits) /\ Len(x) = n /\ \A i \in 1..n : x[i] = s[i]
    BY <1>1
  <1>3. y \in Seq(FrameUnits) /\ Len(y) = Len(s) - n /\ \A i \in 1..(Len(s) - n) : y[i] = s[n + i]
    BY <1>1
  <1> HIDE DEF x, y
  <1>4. /\ x \o y \in Seq(FrameUnits) /\ Len(x \o y) = Len(s)
        /\ \A i \in 1..Len(s) : (x \o y)[i] = IF i <= n THEN x[i] ELSE y[i - n]
    <2>1. x \in Seq(FrameUnits) /\ y \in Seq(FrameUnits)
      BY <1>2, <1>3
    <2>2. /\ x \o y \in Seq(FrameUnits) /\ Len(x \o y) = Len(x) + Len(y)
          /\ \A i \in 1..(Len(x) + Len(y)) : (x \o y)[i] = IF i <= Len(x) THEN x[i] ELSE y[i - Len(x)]
      BY <2>1, ConcatProperties
    <2>3. Len(x) = n /\ Len(x) + Len(y) = Len(s)
      BY <1>1, <1>2, <1>3
    <2>4. QED
      BY <2>2, <2>3
  <1>5. ASSUME NEW i \in 1..Len(s) PROVE (x \o y)[i] = s[i]
    <2>1. CASE i <= n
      <3>1. i \in 1..n
        BY <2>1, <1>1
      <3>2. QED
        BY <2>1, <3>1, <1>2, <1>4
    <2>2. CASE i > n
      <3>1. (x \o y)[i] = y[i - n]
        BY <2>2, <1>1, <1>4
      <3>2. i - n \in 1..(Len(s) - n) /\ n + (i - n) = i
        BY <2>2, <1>1
      <3>3. QED
        BY <3>1, <3>2, <1>3
    <2>3. i <= n \/ i > n
      BY <1>1
    <2>4. QED
      BY <2>1, <2>2, <2>3
  <1>6. x \o y = s
    BY <1>4, <1>5, SeqEqual
  <1>7. (b \o x) \o y = b \o (x \o y)
    <2>1. x \in Seq(FrameUnits) /\ y \in Seq(FrameUnits)
      BY <1>2, <1>3
    <2>2. QED
      BY <2>1, LineAssociative
  <1>8. QED
    BY <1>2, <1>3, <1>6, <1>7 DEF x, y

(* Taking the front of the buffer takes it from the line. *)
LEMMA DropFront ==
  ASSUME NEW b \in Seq(FrameUnits), NEW s \in Seq(FrameUnits), NEW n \in Nat, n <= Len(b)
  PROVE  /\ SubSeq(b, n + 1, Len(b)) \in Seq(FrameUnits)
         /\ SubSeq(b, n + 1, Len(b)) \o s = SubSeq(b \o s, n + 1, Len(b \o s))
  <1> DEFINE x == SubSeq(b, n + 1, Len(b))
             l == b \o s
             y == SubSeq(l, n + 1, Len(l))
  <1>1. Len(b) \in Nat /\ Len(s) \in Nat
    OBVIOUS
  <1>2. x \in Seq(FrameUnits) /\ Len(x) = Len(b) - n /\ \A i \in 1..(Len(b) - n) : x[i] = b[n + i]
    BY <1>1
  <1>3. /\ l \in Seq(FrameUnits) /\ Len(l) = Len(b) + Len(s)
        /\ \A i \in 1..(Len(b) + Len(s)) :
             l[i] = IF i <= Len(b) THEN b[i] ELSE s[i - Len(b)]
    BY ConcatProperties
  <1> HIDE DEF x, l
  <1>4. /\ y \in Seq(FrameUnits) /\ Len(y) = Len(b) + Len(s) - n
        /\ \A i \in 1..(Len(b) + Len(s) - n) : y[i] = l[n + i]
    BY <1>1, <1>3
  <1> HIDE DEF y
  <1>5. /\ x \o s \in Seq(FrameUnits) /\ Len(x \o s) = Len(b) + Len(s) - n
        /\ \A i \in 1..(Len(b) - n + Len(s)) :
             (x \o s)[i] = IF i <= Len(b) - n THEN x[i] ELSE s[i - (Len(b) - n)]
    <2>1. x \in Seq(FrameUnits) /\ Len(x) = Len(b) - n
      BY <1>2
    <2>2. /\ x \o s \in Seq(FrameUnits) /\ Len(x \o s) = Len(x) + Len(s)
          /\ \A i \in 1..(Len(x) + Len(s)) : (x \o s)[i] = IF i <= Len(x) THEN x[i] ELSE s[i - Len(x)]
      BY <2>1, ConcatProperties
    <2>3. Len(x) + Len(s) = Len(b) + Len(s) - n
      BY <1>1, <2>1
    <2>4. QED
      BY <2>1, <2>2, <2>3
  <1>6. ASSUME NEW i \in 1..(Len(b) + Len(s) - n) PROVE (x \o s)[i] = y[i]
    <2>1. n + i \in 1..(Len(b) + Len(s)) /\ i \in 1..(Len(b) - n + Len(s))
      BY <1>1
    <2>2. CASE i <= Len(b) - n
      <3>1. i \in 1..(Len(b) - n) /\ n + i <= Len(b)
        BY <2>2, <1>1
      <3>2. QED
        BY <2>1, <2>2, <3>1, <1>2, <1>3, <1>4, <1>5
    <2>3. CASE ~(i <= Len(b) - n)
      <3>1. ~(n + i <= Len(b)) /\ n + i - Len(b) = i - (Len(b) - n)
        BY <2>3, <1>1
      <3>2. QED
        <4>1. (x \o s)[i] = s[i - (Len(b) - n)]
          BY <2>1, <2>3, <1>5
        <4>2. l[n + i] = s[n + i - Len(b)]
          BY <2>1, <3>1, <1>3
        <4>3. QED
          BY <3>1, <4>1, <4>2, <1>4
    <2>4. QED
      BY <2>2, <2>3
  <1>7. x \o s = y
    BY <1>4, <1>5, <1>6, SeqEqual
  <1>8. QED
    BY <1>2, <1>7 DEF x, y, l

(* What the decoder finds is the first frame that has no answer; if it      *)
(* finds none, the first unit still on its way is of that frame.           *)
LEMMA DecoderSees ==
  ASSUME NEW c \in Clients, NEW fs \in Seq(BodySizes), NEW r \in Nat,
         NEW b \in Seq(FrameUnits), NEW s \in Seq(FrameUnits), InLine(b \o s, c, fs, r)
  PROVE  /\ Complete(b) =>
              /\ b \o s # <<>> /\ b[2][4] = Size(fs, r + 1) /\ Size(fs, r + 1) <= Len(b)
              /\ SubSeq(b, kHeaderLen + 1, Size(fs, r + 1)) = Body(c, fs, r + 1)
         /\ ~Complete(b) =>
              IF s = <<>> THEN b = <<>> /\ r = Len(fs) ELSE Head(s)[2] = r + 1
  <1> DEFINE line == b \o s
             n == Size(fs, r + 1)
  <1>1. Len(b) \in Nat /\ Len(s) \in Nat
    OBVIOUS
  <1>2. /\ line \in Seq(FrameUnits) /\ Len(line) = Len(b) + Len(s)
        /\ \A i \in 1..Len(b) : line[i] = b[i]
        /\ \A i \in 1..Len(s) : line[Len(b) + i] = s[i]
    BY ConcatProperties
  <1>3. CASE line = <<>>
    <2>1. b = <<>> /\ s = <<>> /\ Len(b) = 0 /\ r = Len(fs)
      BY <1>1, <1>2, <1>3, EmptySeq DEF InLine
    <2>2. ~Complete(b)
      BY <2>1 DEF Complete, kHeaderLen
    <2>3. QED
      BY <2>1, <2>2
  <1>4. CASE line # <<>>
    <2>1. /\ r + 1 \in 1..Len(fs) /\ fs[r + 1] \in Nat /\ fs[r + 1] >= 1 /\ n <= Len(line)
          /\ \A i \in 1..n : line[i] = Unit(c, fs, r + 1, i)
      BY <1>2, <1>4, TakeFrame
    <2>2. n \in Nat /\ n >= 3
      BY <2>1 DEF Size, kHeaderLen
    <2>3. \A i \in 1..n : i <= Len(b) => b[i] = <<c, r + 1, i, n>>
      BY <1>1, <1>2, <2>1, <2>2 DEF Unit
    <2> HIDE DEF line, n
    <2>4. Complete(b) <=> n <= Len(b)
      <3>1. Len(b) >= 2 => b[1] = <<c, r + 1, 1, n>> /\ b[2] = <<c, r + 1, 2, n>>
        BY <1>1, <2>2, <2>3
      <3>2. Len(b) >= 2 => b[1][3] = 1 /\ b[2][3] = 2 /\ b[2][4] = n
        BY <3>1
      <3>3. QED
        BY <1>1, <2>2, <3>2 DEF Complete, kHeaderLen
    <2>5. ASSUME n <= Len(b)
          PROVE  b[2][4] = n /\ SubSeq(b, 3, n) = SubSeq(encoder(c, r + 1, fs[r + 1]), 3, n)
      <3>1. b[2] = <<c, r + 1, 2, n>>
        BY <1>1, <2>2, <2>3, <2>5, SMTT(20)
      <3> DEFINE e == encoder(c, r + 1, fs[r + 1])
      <3>2. fs[r + 1] \in BodySizes /\ kHeaderLen + fs[r + 1] = n
        BY <2>1 DEF Size, n
      <3>3. e \in Seq(FrameUnits) /\ Len(e) = n /\ \A i \in 1..n : e[i] = <<c, r + 1, i, n>>
        <4>1. r + 1 \in Nat
          OBVIOUS
        <4>2. QED
          BY <3>2, <4>1, EncoderUnits
      <3> HIDE DEF e
      <3>4. SubSeq(b, 3, n) \in Seq(FrameUnits) /\ SubSeq(e, 3, n) \in Seq(FrameUnits)
        BY <1>1, <2>2, <2>5, <3>3
      <3>5. /\ Len(SubSeq(b, 3, n)) = n - 2 /\ Len(SubSeq(e, 3, n)) = n - 2
            /\ \A i \in 1..(n - 2) : SubSeq(b, 3, n)[i] = b[2 + i] /\ SubSeq(e, 3, n)[i] = e[2 + i]
        BY <1>1, <2>2, <2>5, <3>3
      <3>6. ASSUME NEW i \in 1..(n - 2) PROVE b[2 + i] = e[2 + i]
        <4>1. 2 + i \in 1..n /\ 2 + i <= Len(b)
          BY <1>1, <2>2, <2>5
        <4>2. QED
          BY <4>1, <2>3, <3>3
      <3>7. SubSeq(b, 3, n) = SubSeq(e, 3, n)
        BY <3>4, <3>5, <3>6, SeqEqual
      <3>8. QED
        <4>1. b[2][4] = n
          BY <3>1
        <4>2. QED
          BY <4>1, <3>7 DEF e
    <2>6. ASSUME Len(b) < n PROVE s # <<>> /\ Head(s)[2] = r + 1
      <3>1. Len(s) >= 1 /\ Len(b) + 1 \in 1..n /\ 1 \in 1..Len(s)
        BY <1>1, <1>2, <2>1, <2>2, <2>6 DEF n, line
      <3>2. s[1] = Unit(c, fs, r + 1, Len(b) + 1)
        BY <3>1, <1>2, <2>1 DEF n, line
      <3>3. QED
        BY <3>1, <3>2 DEF Unit
    <2>7. Body(c, fs, r + 1) = SubSeq(encoder(c, r + 1, fs[r + 1]), 3, n)
      BY DEF Body, kHeaderLen, n
    <2>8. QED
      BY <1>1, <1>4, <2>2, <2>4, <2>5, <2>6, <2>7 DEF kHeaderLen, n, line
  <1>5. QED
    BY <1>3, <1>4

(* CubeInv gives the property. *)
LEMMA CubeInvAnswers == CubeInv => FramesAnswered
  <1> SUFFICES ASSUME CubeInv, handling = NoClient, NEW c \in Clients
               PROVE  replies[c] = Bodies(c, frames[c], whole(c))
    BY DEF FramesAnswered, Bodies, Body, Size
  <1>1. Served(c) /\ ~Complete(buffer_)
    BY DEF CubeInv
  <1>2. SUFFICES whole(c) = Len(replies[c])
    BY <1>1 DEF Served
  <1>3. /\ stream[c] \in Seq(FrameUnits) /\ frames[c] \in Seq(BodySizes) /\ buffer_ \in Seq(FrameUnits)
        /\ Len(replies[c]) \in Nat
    BY DEF CubeInv, CubeTypes
  <1>4. CASE c \notin conns
    BY <1>1, <1>4 DEF Served, whole
  <1>5. CASE c \in conns
    <2>1. IF stream[c] = <<>> THEN Len(replies[c]) = Len(frames[c])
          ELSE Head(stream[c])[2] = Len(replies[c]) + 1
      BY <1>1, <1>3, <1>5, DecoderSees DEF Served
    <2>2. QED
      BY <2>1, <1>3, SMTT(20) DEF whole
  <1>6. QED
    BY <1>4, <1>5

LEMMA CubeInitInv == CubeInit => CubeInv
  <1> SUFFICES ASSUME CubeInit PROVE CubeInv
    OBVIOUS
  <1>1. CubeTypes
    <2>1. <<>> \in Seq(FrameUnits) /\ <<>> \in Seq(BodySizes) /\ <<>> \in Seq(Seq(FrameUnits))
      BY EmptySeq
    <2>2. QED
      BY <2>1 DEF CubeInit, CubeTypes
  <1>2. ~Complete(buffer_)
    BY DEF CubeInit, Complete, kHeaderLen
  <1>3. ASSUME NEW c \in Clients PROVE Served(c)
    <2>1. stream[c] = <<>> /\ frames[c] = <<>> /\ replies[c] = <<>> /\ c \notin conns
      BY DEF CubeInit
    <2>2. Len(<<>>) = 0 /\ Bodies(c, <<>>, 0) = <<>>
      BY DEF Bodies
    <2>3. QED
      BY <2>1, <2>2 DEF Served
  <1>4. QED
    BY <1>1, <1>2, <1>3 DEF CubeInit, CubeInv

(* A connection that begins finds buffer_ empty. *)
LEMMA AcceptedInv ==
  ASSUME CubeInv, Orderly, NEW c \in Clients, onAccepted(c)
  PROVE  CubeInv'
  <1>1. /\ conns = {} /\ conns' = {c} /\ buffer_ = <<>>
        /\ UNCHANGED <<stream, frames, buffer_, handling, replies>>
    BY DEF CubeInv, onAccepted, streamVars
  <1>2. CubeTypes'
    BY <1>1 DEF CubeInv, CubeTypes
  <1>3. ~Complete(buffer_)'
    BY <1>1 DEF Complete, kHeaderLen
  <1>4. ASSUME NEW d \in Clients PROVE Served(d)'
    <2>1. /\ Served(d) /\ d \notin conns /\ stream[d] = <<>> /\ Len(replies[d]) = Len(frames[d])
      BY <1>1 DEF CubeInv, Served
    <2>2. buffer_ \o stream[d] = <<>>
      BY <1>1, <2>1
    <2>3. InLine(<<>>, d, frames[d], Len(replies[d]))
      BY <2>1 DEF InLine
    <2>4. QED
      BY <1>1, <2>1, <2>2, <2>3 DEF Served
  <1>5. QED
    BY <1>1, <1>2, <1>3, <1>4 DEF CubeInv

(* One that ends between frames leaves it empty. *)
LEMMA DisconnectedInv ==
  ASSUME CubeInv, Orderly, NEW c \in Clients, onDisconnected(c)
  PROVE  CubeInv'
  <1>1. /\ conns = {c} /\ conns' = {} /\ handling = NoClient /\ whole(c) = Len(frames[c])
        /\ UNCHANGED <<stream, frames, buffer_, handling, replies>>
    BY DEF CubeInv, onDisconnected, streamVars
  <1>2. /\ stream[c] \in Seq(FrameUnits) /\ frames[c] \in Seq(BodySizes) /\ buffer_ \in Seq(FrameUnits)
        /\ Len(replies[c]) \in Nat /\ Len(frames[c]) \in Nat
    BY DEF CubeInv, CubeTypes
  <1>3. Served(c) /\ ~Complete(buffer_)
    BY <1>1 DEF CubeInv
  <1>4. InLine(buffer_ \o stream[c], c, frames[c], Len(replies[c]))
    BY <1>1, <1>3 DEF Served
  <1>5. IF stream[c] = <<>> THEN buffer_ = <<>> /\ Len(replies[c]) = Len(frames[c])
        ELSE Head(stream[c])[2] = Len(replies[c]) + 1
    BY <1>2, <1>3, <1>4, DecoderSees, SMTT(20)
  <1>6. ASSUME stream[c] # <<>> PROVE Len(replies[c]) < Len(frames[c])
    <2>1. buffer_ \o stream[c] # <<>>
      <3>1. Len(buffer_ \o stream[c]) = Len(buffer_) + Len(stream[c])
        BY <1>2, ConcatProperties
      <3>2. Len(buffer_) \in Nat /\ Len(stream[c]) \in Nat /\ Len(stream[c]) # 0
        BY <1>2, <1>6, EmptySeq
      <3>3. QED
        BY <3>1, <3>2, EmptySeq
    <2>2. QED
      BY <2>1, <1>4 DEF InLine
  <1>7. stream[c] = <<>> /\ buffer_ = <<>> /\ Len(replies[c]) = Len(frames[c])
    BY <1>1, <1>2, <1>5, <1>6 DEF whole
  <1>8. CubeTypes'
    BY <1>1 DEF CubeInv, CubeTypes
  <1>9. ASSUME NEW d \in Clients PROVE Served(d)'
    <2>1. Served(d)
      BY DEF CubeInv
    <2>2. CASE d = c
      BY <2>1, <2>2, <1>1, <1>7 DEF Served
    <2>3. CASE d # c
      BY <2>1, <2>3, <1>1 DEF Served
    <2>4. QED
      BY <2>2, <2>3
  <1>10. QED
    BY <1>1, <1>3, <1>7, <1>8, <1>9 DEF CubeInv, Complete

(* Another frame is put behind the line; the answers stay what they are. *)
LEMMA SendsInv ==
  ASSUME CubeInv, NEW c \in Clients, ClientSends(c)
  PROVE  CubeInv'
  <1>1. PICK body \in BodySizes :
          /\ frames' = [frames EXCEPT ![c] = Append(@, body)]
          /\ stream' = [stream EXCEPT ![c] = @ \o encoder(c, Len(frames[c]) + 1, body)]
    BY DEF ClientSends
  <1>2. c \in conns /\ UNCHANGED <<conns, buffer_, handling, replies>>
    BY DEF ClientSends
  <1> DEFINE fs == frames[c]
             new == encoder(c, Len(fs) + 1, body)
  <1>3. /\ stream[c] \in Seq(FrameUnits) /\ fs \in Seq(BodySizes) /\ buffer_ \in Seq(FrameUnits)
        /\ Len(replies[c]) \in Nat /\ Len(fs) \in Nat /\ Len(fs) + 1 \in Nat
    BY DEF CubeInv, CubeTypes
  <1>4. new \in Seq(FrameUnits)
    BY <1>3, EncoderUnits
  <1>5. frames'[c] = Append(fs, body) /\ stream'[c] = stream[c] \o new
    BY <1>1 DEF CubeInv, CubeTypes
  <1> HIDE DEF new
  <1>6. Append(fs, body) \in Seq(BodySizes) /\ stream[c] \o new \in Seq(FrameUnits)
    BY <1>3, <1>4, ConcatProperties, AppendProperties
  <1>7. CubeTypes'
    BY <1>1, <1>2, <1>5, <1>6 DEF CubeInv, CubeTypes
  <1>8. Served(c)'
    <2>1. /\ Len(replies[c]) <= Len(fs) /\ replies[c] = Bodies(c, fs, Len(replies[c]))
          /\ InLine(buffer_ \o stream[c], c, fs, Len(replies[c]))
      BY <1>2 DEF CubeInv, Served
    <2>2. buffer_ \o stream[c] \in Seq(FrameUnits)
      BY <1>3, ConcatProperties
    <2>3. InLine((buffer_ \o stream[c]) \o new, c, Append(fs, body), Len(replies[c]))
      BY <2>1, <2>2, <1>3, AddFrame DEF new
    <2>4. (buffer_ \o stream[c]) \o new = buffer_ \o (stream[c] \o new)
      <3>1. buffer_ \in Seq(FrameUnits) /\ stream[c] \in Seq(FrameUnits) /\ new \in Seq(FrameUnits)
        BY <1>3, <1>4
      <3>2. QED
        BY <3>1, LineAssociative
    <2>5. Len(Append(fs, body)) = Len(fs) + 1 /\ \A k \in 1..Len(fs) : Append(fs, body)[k] = fs[k]
      BY <1>3, AppendProperties
    <2>6. \A k \in 1..Len(replies[c]) : Append(fs, body)[k] = fs[k]
      BY <2>1, <2>5, <1>3
    <2>7. Bodies(c, Append(fs, body), Len(replies[c])) = Bodies(c, fs, Len(replies[c]))
      BY <2>6 DEF Bodies, Body, Size
    <2>8. Len(replies[c]) <= Len(Append(fs, body))
      BY <2>1, <2>5, <1>3
    <2>9. QED
      BY <2>1, <2>3, <2>4, <2>7, <2>8, <1>2, <1>5 DEF Served
  <1>9. ASSUME NEW d \in Clients PROVE Served(d)'
    <2>1. CASE d # c
      <3>1. Served(d) /\ frames'[d] = frames[d] /\ stream'[d] = stream[d]
        BY <2>1, <1>1 DEF CubeInv, CubeTypes
      <3>2. QED
        BY <3>1, <1>2 DEF Served
    <2>2. QED
      BY <2>1, <1>8
  <1>10. QED
    BY <1>2, <1>7, <1>9 DEF CubeInv, Complete

(* A piece of the stream moves to buffer_. *)
LEMMA MessageInv ==
  ASSUME CubeInv, NEW c \in Clients, NEW n \in 1..Len(stream[c]), onMessage(c, n)
  PROVE  CubeInv'
  <1> DEFINE x == SubSeq(stream[c], 1, n)
             y == SubSeq(stream[c], n + 1, Len(stream[c]))
  <1>1. /\ c \in conns /\ handling' = c /\ buffer_' = buffer_ \o x
        /\ stream' = [stream EXCEPT ![c] = y] /\ UNCHANGED <<conns, frames, replies>>
    BY DEF onMessage
  <1>2. stream[c] \in Seq(FrameUnits) /\ buffer_ \in Seq(FrameUnits)
    BY DEF CubeInv, CubeTypes
  <1>3. /\ x \in Seq(FrameUnits) /\ y \in Seq(FrameUnits)
        /\ (buffer_ \o x) \o y = buffer_ \o stream[c]
    BY <1>2, CutLine
  <1> HIDE DEF x, y
  <1>4. buffer_ \o x \in Seq(FrameUnits)
    BY <1>2, <1>3, ConcatProperties
  <1>5. CubeTypes'
    BY <1>1, <1>3, <1>4 DEF CubeInv, CubeTypes
  <1>6. conns = {c} /\ c # NoClient /\ stream'[c] = y
    BY <1>1, CubeServerAssumption DEF CubeInv, CubeTypes
  <1>7. ASSUME NEW d \in Clients PROVE Served(d)'
    <2>1. Served(d)
      BY DEF CubeInv
    <2>2. CASE d = c
      BY <2>1, <2>2, <1>1, <1>3, <1>6 DEF Served
    <2>3. CASE d # c
      <3>1. stream'[d] = stream[d]
        BY <2>3, <1>1 DEF CubeInv, CubeTypes
      <3>2. QED
        BY <2>1, <2>3, <3>1, <1>1, <1>6 DEF Served
    <2>4. QED
      BY <2>2, <2>3
  <1>8. QED
    BY <1>1, <1>5, <1>6, <1>7 DEF CubeInv

(* One more answer. *)
LEMMA NextBody ==
  ASSUME NEW c, NEW fs, NEW sent \in Seq(Seq(FrameUnits)), NEW body \in Seq(FrameUnits),
         sent = Bodies(c, fs, Len(sent)),
         body = Body(c, fs, Len(sent) + 1)
  PROVE  Append(sent, body) = Bodies(c, fs, Len(sent) + 1)
  <1>1. PICK r \in Nat : r = Len(sent)
    BY LenProperties
  <1> DEFINE more == Append(sent, body)
  <1>2. sent = [k \in 1..r |-> Body(c, fs, k)] /\ body = Body(c, fs, r + 1)
    BY <1>1 DEF Bodies
  <1>3. more \in Seq(Seq(FrameUnits)) /\ Len(more) = r + 1
    BY <1>1, AppendProperties
  <1>4. more \in [1..(r + 1) -> Seq(FrameUnits)]
    BY <1>3, LenProperties
  <1>5. more[r + 1] = Body(c, fs, r + 1) /\ \A k \in 1..r : more[k] = Body(c, fs, k)
    <2>1. more[r + 1] = body /\ \A k \in 1..r : more[k] = sent[k]
      BY <1>1, AppendProperties
    <2>2. \A k \in 1..r : sent[k] = Body(c, fs, k)
      BY <1>2
    <2>3. QED
      BY <1>2, <2>1, <2>2
  <1> HIDE DEF more
  <1>6. \A k \in 1..(r + 1) : k \in 1..r \/ k = r + 1
    OBVIOUS
  <1>7. more = [k \in 1..(r + 1) |-> Body(c, fs, k)]
    BY <1>4, <1>5, <1>6
  <1>8. QED
    BY <1>1, <1>7 DEF Bodies, more

(* The first frame leaves the line, its body is the next answer. *)
LEMMA AnswerInv == ASSUME CubeInv, Answer PROVE CubeInv'
  <1>1. PICK c \in Clients : handling = c /\ conns = {c} /\ Complete(buffer_)
    BY DEF Answer, CubeInv, CubeTypes
  <1> DEFINE fs == frames[c]
             r == Len(replies[c])
             n == buffer_[2][4]
             body == SubSeq(buffer_, kHeaderLen + 1, n)
             rest == SubSeq(buffer_, n + 1, Len(buffer_))
  <1>2. /\ replies' = [replies EXCEPT ![c] = Append(@, body)] /\ buffer_' = rest
        /\ UNCHANGED <<conns, stream, frames, handling>>
    BY <1>1 DEF Answer
  <1>3. /\ stream[c] \in Seq(FrameUnits) /\ fs \in Seq(BodySizes) /\ buffer_ \in Seq(FrameUnits)
        /\ r \in Nat /\ Len(fs) \in Nat /\ replies[c] \in Seq(Seq(FrameUnits))
    BY DEF CubeInv, CubeTypes
  <1>4. Served(c) /\ InLine(buffer_ \o stream[c], c, fs, r)
    BY <1>1 DEF CubeInv, Served
  <1>5. /\ buffer_ \o stream[c] # <<>> /\ n = Size(fs, r + 1) /\ n <= Len(buffer_)
        /\ body = Body(c, fs, r + 1)
    <2>1. /\ buffer_ \o stream[c] # <<>> /\ n = Size(fs, r + 1) /\ Size(fs, r + 1) <= Len(buffer_)
          /\ SubSeq(buffer_, kHeaderLen + 1, Size(fs, r + 1)) = Body(c, fs, r + 1)
      <3>1. PICK s \in Seq(FrameUnits), b \in Seq(FrameUnits), gs \in Seq(BodySizes), k \in Nat :
              s = stream[c] /\ b = buffer_ /\ gs = frames[c] /\ k = Len(replies[c])
        BY <1>3
      <3>2. Complete(b) /\ InLine(b \o s, c, gs, k)
        BY <3>1, <1>1, <1>4
      <3>3. /\ b \o s # <<>> /\ b[2][4] = Size(gs, k + 1) /\ Size(gs, k + 1) <= Len(b)
            /\ SubSeq(b, kHeaderLen + 1, Size(gs, k + 1)) = Body(c, gs, k + 1)
        BY <3>2, DecoderSees
      <3>4. QED
        BY <3>1, <3>3
    <2> HIDE DEF n
    <2>2. QED
      BY <2>1
  <1> HIDE DEF n
  <1>6. buffer_ \o stream[c] \in Seq(FrameUnits)
    BY <1>3, ConcatProperties
  <1>7. /\ r + 1 \in 1..Len(fs) /\ fs[r + 1] \in Nat
        /\ InLine(SubSeq(buffer_ \o stream[c], n + 1, Len(buffer_ \o stream[c])), c, fs, r + 1)
    BY <1>3, <1>4, <1>5, <1>6, TakeFrame
  <1>8. n \in Nat /\ n >= 2
    <2>1. n = Size(fs, r + 1)
      BY <1>5
    <2>2. fs[r + 1] \in Nat
      BY <1>7
    <2>3. QED
      BY <2>1, <2>2 DEF Size, kHeaderLen
  <1>9. rest \in Seq(FrameUnits) /\ InLine(rest \o stream[c], c, fs, r + 1)
    BY <1>3, <1>5, <1>7, <1>8, DropFront
  <1>10. body \in Seq(FrameUnits)
    BY <1>3, <1>5, <1>8 DEF kHeaderLen
  <1> HIDE DEF rest, body
  <1>11. /\ replies'[c] = Append(replies[c], body) /\ Append(replies[c], body) \in Seq(Seq(FrameUnits))
         /\ Len(Append(replies[c], body)) = r + 1
    BY <1>2, <1>3, <1>10, AppendProperties DEF CubeInv, CubeTypes
  <1>12. CubeTypes'
    BY <1>2, <1>9, <1>11 DEF CubeInv, CubeTypes
  <1>13. Append(replies[c], body) = Bodies(c, fs, r + 1)
    <2>1. replies[c] = Bodies(c, fs, r)
      BY <1>4 DEF Served
    <2>2. QED
      BY <2>1, <1>3, <1>5, <1>10, NextBody
  <1>14. Served(c)'
    BY <1>1, <1>2, <1>3, <1>7, <1>9, <1>11, <1>13 DEF Served
  <1>15. ASSUME NEW d \in Clients PROVE Served(d)'
    <2>1. CASE d # c
      <3>1. Served(d) /\ d \notin conns /\ replies'[d] = replies[d]
        BY <2>1, <1>1, <1>2 DEF CubeInv, CubeTypes
      <3>2. QED
        BY <3>1, <1>2 DEF Served
    <2>2. QED
      BY <2>1, <1>14
  <1>16. QED
    BY <1>1, <1>2, <1>12, <1>15, CubeServerAssumption DEF CubeInv

LEMMA MessageReturnInv ==
  ASSUME CubeInv, onMessageReturn \/ UNCHANGED cubeVars
  PROVE  CubeInv'
  <1>1. UNCHANGED <<conns, stream, frames, buffer_, replies>>
    BY DEF onMessageReturn, cubeVars
  <1>2. handling' = NoClient => ~Complete(buffer_)
    BY DEF CubeInv, onMessageReturn, cubeVars
  <1>3. CubeTypes'
    BY <1>1 DEF CubeInv, CubeTypes, onMessageReturn, cubeVars
  <1>4. \A c \in Clients : Served(c)'
    BY <1>1 DEF CubeInv, Served
  <1>5. QED
    BY <1>1, <1>2, <1>3, <1>4 DEF CubeInv, Complete

LEMMA CubeNextInv == ASSUME Orderly PROVE CubeInv /\ [CubeNext]_cubeVars => CubeInv'
  BY AcceptedInv, DisconnectedInv, SendsInv, MessageInv, AnswerInv, MessageReturnInv DEF CubeNext

(* While connections follow one another, each ending between frames, a       *)
(* frame is answered by CubeServer as soon as its last unit has been         *)
(* handled, once, in order and with its own body, wherever TCP cuts the      *)
(* stream and however many clients and frames there are.                   *)
THEOREM CubeFramesAnswered == ASSUME Orderly PROVE CubeSpec => []FramesAnswered
  <1>1. CubeInit => CubeInv
    BY CubeInitInv
  <1>2. CubeInv /\ [CubeNext]_cubeVars => CubeInv'
    BY CubeNextInv
  <1>3. CubeInv => FramesAnswered
    BY CubeInvAnswers
  <1>4. QED
    BY <1>1, <1>2, <1>3, PTL DEF CubeSpec

=============================================================================
