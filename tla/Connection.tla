----------------------------- MODULE Connection -----------------------------
(***************************************************************************)
(* The send side and the close of one Connection                           *)
(* (muduo/src/Connection.cpp): threads of the application call send, the   *)
(* reactor's thread writes the buffer to a non-blocking socket whose send  *)
(* buffer may be full, and a callback may close the connection with data   *)
(* still to send.                                                          *)
(*                                                                         *)
(* Data are numbered units, one for each call of send.  The mailbox and    *)
(* the pipe between send and handleWrite are a count of entries here       *)
(* (module SubReactor has their races); the socket's receive side is       *)
(* module Connections.                                                     *)
(***************************************************************************)
EXTENDS Integers, Sequences, SequencesExt, FiniteSets, FiniteSetsExt

CONSTANTS
  Senders,          \* application threads
  Reactor,          \* the reactor's thread
  None,
  Chunk,            \* units one write may take (8 KiB)
  SndBuf,           \* units the socket's send buffer holds
  MaxSends,         \* bound: calls of send
  GracefulClose,    \* may the application call close(false)?
  TornSize          \* may size() take one of the buffer's two positions from
                    \* before compact and the other from after it?

ASSUME ConnectionAssumption ==
  /\ Reactor \notin Senders /\ None \notin Senders \cup {Reactor}
  /\ Chunk \in Nat \ {0} /\ SndBuf \in Nat \ {0} /\ MaxSends \in Nat
  /\ GracefulClose \in BOOLEAN /\ TornSize \in BOOLEAN

VARIABLES
  tryClose_,
  closed_,
  sendMutex_,       \* its holder
  sendBuffer_,      \* units to write, in order
  queued,           \* entries of this connection in sendQueue_
  inMap,            \* is it in connectionMap_ (and its descriptor open)?
  inFlight,         \* units in the socket's send buffer
  peerGone,         \* the peer has reset the connection
  blocked,          \* history: the last write of the buffer met a full socket
  rpc,              \* the reactor: "idle", "lock", "write"
  tpc,              \* tpc[t]: "idle", "lock", "enqueue"
  accepted,         \* history: units put in the buffer, in order
  written,          \* history: units the socket has taken, in order
  returned,         \* history: units whose send has returned
  owed              \* history: units a graceful close must not drop

closeVars  == <<tryClose_, closed_, inMap>>
sockVars   == <<inFlight, peerGone, blocked>>
bufferVars == <<sendBuffer_, accepted, written>>
connVars == <<closeVars, sockVars, bufferVars, sendMutex_, queued, rpc, tpc, returned, owed>>

Units == 1..MaxSends

ConnTypeOK ==
  /\ tryClose_ \in BOOLEAN /\ closed_ \in BOOLEAN /\ inMap \in BOOLEAN
  /\ sendMutex_ \in Senders \cup {Reactor, None}
  /\ sendBuffer_ \in Seq(Units)
  /\ queued \in 0..MaxSends
  /\ inFlight \in 0..SndBuf /\ peerGone \in BOOLEAN /\ blocked \in BOOLEAN
  /\ rpc \in {"idle", "lock", "write"}
  /\ tpc \in [Senders -> {"idle", "lock", "enqueue"}]
  /\ accepted \in Seq(Units) /\ written \in Seq(Units)
  /\ returned \subseteq Units /\ owed \subseteq Units

ConnInit ==
  /\ tryClose_ = FALSE /\ closed_ = FALSE /\ inMap = TRUE
  /\ sendMutex_ = None /\ sendBuffer_ = <<>>
  /\ queued = 0 /\ inFlight = 0 /\ peerGone = FALSE /\ blocked = FALSE
  /\ rpc = "idle" /\ tpc = [t \in Senders |-> "idle"]
  /\ accepted = <<>> /\ written = <<>>
  /\ returned = {} /\ owed = {}

-----------------------------------------------------------------------------
(* Connection::send.                                                       *)

(* tryClose_ is looked at before the lock is taken. *)
send(t) ==
  /\ tpc[t] = "idle"
  /\ ~tryClose_
  /\ Len(accepted) + Cardinality({s \in Senders : tpc[s] = "lock"}) < MaxSends
  /\ tpc' = [tpc EXCEPT ![t] = "lock"]
  /\ UNCHANGED <<closeVars, sockVars, bufferVars, sendMutex_, queued, rpc, returned, owed>>

(* The unit goes into the buffer under sendMutex_. *)
sendWrite(t) ==
  /\ tpc[t] = "lock"
  /\ sendMutex_ = None
  /\ sendMutex_' = t
  /\ sendBuffer_' = Append(sendBuffer_, Len(accepted) + 1)
  /\ accepted' = Append(accepted, Len(accepted) + 1)
  /\ tpc' = [tpc EXCEPT ![t] = "enqueue"]
  /\ UNCHANGED <<closeVars, sockVars, written, queued, rpc, returned, owed>>

(* Bug: the reactor is not told. *)
sendReturn_NoEnqueue(t) ==
  /\ tpc[t] = "enqueue"
  /\ returned' = returned \cup {Last(accepted)}
  /\ sendMutex_' = None
  /\ tpc' = [tpc EXCEPT ![t] = "idle"]
  /\ UNCHANGED <<closeVars, sockVars, bufferVars, queued, rpc, owed>>

(* enqueueSend, and the lock_guard's release. *)
sendReturn(t) ==
  /\ tpc[t] = "enqueue"
  /\ queued' = queued + 1
  /\ returned' = returned \cup {Last(accepted)}
  /\ sendMutex_' = None
  /\ tpc' = [tpc EXCEPT ![t] = "idle"]
  /\ UNCHANGED <<closeVars, sockVars, bufferVars, rpc, owed>>

-----------------------------------------------------------------------------
(* The reactor's thread.                                                   *)

(* An entry of sendQueue_: the connection is looked up by its descriptor. *)
handleWrite ==
  /\ rpc = "idle" /\ queued > 0
  /\ queued' = queued - 1
  /\ rpc' = IF inMap THEN "lock" ELSE "idle"
  /\ UNCHANGED <<closeVars, sockVars, bufferVars, sendMutex_, tpc, returned, owed>>

(* Nothing to send is only logged. *)
sendBufferedData ==
  /\ rpc = "lock" /\ sendMutex_ = None
  /\ \/ /\ sendBuffer_ = <<>>
        /\ rpc' = "idle" /\ UNCHANGED sendMutex_
     \/ /\ sendBuffer_ # <<>>
        /\ rpc' = "write" /\ sendMutex_' = Reactor
  /\ UNCHANGED <<closeVars, sockVars, bufferVars, queued, tpc, returned, owed>>

ReturnFromWrite == rpc' = "idle" /\ sendMutex_' = None

(* what write takes of the n units it is offered *)
Taken(n) == Min({n, SndBuf - inFlight})

(* Bug: advance is given what was offered, not what was taken. *)
WriteChunk_AdvanceOffered ==
  /\ rpc = "write" /\ ~peerGone
  /\ LET offered == Min({Len(sendBuffer_), Chunk})
         n == Taken(offered) IN
     /\ n > 0
     /\ written' = written \o SubSeq(sendBuffer_, 1, n)
     /\ inFlight' = inFlight + n
     /\ sendBuffer_' = SubSeq(sendBuffer_, offered + 1, Len(sendBuffer_))
  /\ \/ sendBuffer_' = <<>> /\ ReturnFromWrite
     \/ sendBuffer_' # <<>> /\ UNCHANGED <<rpc, sendMutex_>>
  /\ blocked' = FALSE
  /\ UNCHANGED <<closeVars, peerGone, accepted, queued, tpc, returned, owed>>

(* One turn of sendBufferedData's loop that writes something. *)
WriteChunk ==
  /\ rpc = "write" /\ ~peerGone
  /\ LET n == Taken(Min({Len(sendBuffer_), Chunk})) IN
     /\ n > 0
     /\ written' = written \o SubSeq(sendBuffer_, 1, n)
     /\ inFlight' = inFlight + n
     /\ sendBuffer_' = SubSeq(sendBuffer_, n + 1, Len(sendBuffer_))
  /\ \/ sendBuffer_' = <<>> /\ ReturnFromWrite
     \/ sendBuffer_' # <<>> /\ UNCHANGED <<rpc, sendMutex_>>
  /\ blocked' = FALSE
  /\ UNCHANGED <<closeVars, peerGone, accepted, queued, tpc, returned, owed>>

(* EAGAIN breaks the loop, any other error returns: both leave the rest in  *)
(* the buffer, with no EPOLLOUT asked for and no entry in sendQueue_.       *)
WriteFails ==
  /\ rpc = "write"
  /\ peerGone \/ inFlight = SndBuf
  /\ ReturnFromWrite
  /\ blocked' = ~peerGone
  /\ UNCHANGED <<closeVars, inFlight, peerGone, bufferVars, queued, tpc, returned, owed>>

(* What sendBuffer_.size() may say in close, which does not take the lock:  *)
(* while a sender has it, the size before its write or after it, and after  *)
(* a partial write, if the sender's moves the data, even 0: writePos_ from   *)
(* after compact less a readPos_ from before it.                           *)
SizesSeen ==
  IF sendMutex_ = None THEN {Len(sendBuffer_)}
  ELSE {Len(sendBuffer_) - 1, Len(sendBuffer_)}
         \cup (IF TornSize /\ written # <<>> THEN {0} ELSE {})

(* Bug: a close that is not forced looks like one that is. *)
close_Always(force, size) ==
  /\ rpc = "idle" /\ inMap /\ ~closed_
  /\ tryClose_' = TRUE
  /\ owed' = IF force THEN {} ELSE returned
  /\ closed_' = TRUE
  /\ inMap' = FALSE
  /\ UNCHANGED <<sockVars, bufferVars, sendMutex_, queued, rpc, tpc, returned>>

(* close(force), from a callback of the reactor on a connection that is     *)
(* not closed yet.  A close that is not forced and sees data only stops     *)
(* reading (disableReadEventAndShutdown).                                  *)
close(force, size) ==
  /\ rpc = "idle" /\ inMap /\ ~closed_
  /\ tryClose_' = TRUE
  /\ owed' = IF force THEN {} ELSE returned
  /\ \/ /\ ~force /\ size > 0
        /\ UNCHANGED <<closed_, inMap>>
     \/ /\ force \/ size = 0
        /\ closed_' = TRUE
        /\ inMap' = FALSE
  /\ UNCHANGED <<sockVars, bufferVars, sendMutex_, queued, rpc, tpc, returned>>

(* EPOLLHUP, which is watched to the end, or a failed read. *)
PeerGoneNoticed ==
  /\ rpc = "idle" /\ peerGone /\ inMap
  /\ inMap' = FALSE
  /\ UNCHANGED <<tryClose_, closed_, sockVars, bufferVars, sendMutex_, queued, rpc, tpc,
                 returned, owed>>

-----------------------------------------------------------------------------
(* The peer.                                                               *)

PeerReads ==
  /\ inFlight > 0
  /\ inFlight' = inFlight - 1
  /\ UNCHANGED <<closeVars, peerGone, blocked, bufferVars, sendMutex_, queued, rpc, tpc,
                 returned, owed>>

PeerResets ==
  /\ ~peerGone
  /\ peerGone' = TRUE
  /\ UNCHANGED <<closeVars, inFlight, blocked, bufferVars, sendMutex_, queued, rpc, tpc,
                 returned, owed>>

-----------------------------------------------------------------------------
SendSteps(t) == sendWrite(t) \/ sendReturn(t)
ReactorSteps == handleWrite \/ sendBufferedData \/ WriteChunk \/ WriteFails \/ PeerGoneNoticed

ConnNext ==
  \/ \E t \in Senders : send(t) \/ SendSteps(t)
  \/ ReactorSteps
  \/ \E force \in {TRUE, ~GracefulClose}, size \in SizesSeen : close(force, size)
  \/ PeerReads \/ PeerResets

ConnSpec == ConnInit /\ [][ConnNext]_connVars

-----------------------------------------------------------------------------
(* Properties.                                                             *)

(* The socket gets the units in the order in which send put them in the     *)
(* buffer, with none left out or repeated, however the writes are split;    *)
(* what it has not got is still in the buffer.                             *)
WireFollowsBuffer == accepted = written \o sendBuffer_

(* A close that is not forced and removes the connection at once loses       *)
(* nothing of a send that has returned, though it looks at sendBuffer_.size()*)
(* without sendMutex_, which is there to "protect sendBuffer_"               *)
(* (Connection.hpp:30): with another thread in send, size() may or may not   *)
(* count what that one is writing.  The code does not keep this when size()  *)
(* is torn.                                                                *)
GracefulCloseKeepsData == closed_ => owed \subseteq ToSet(written)

(* As long as the socket does not fill, what send has put in the buffer     *)
(* leaves it, however sends, writes and closes interleave.                 *)
DrainsUnlessBlocked ==
  (sendBuffer_ # <<>> /\ inMap) ~> (sendBuffer_ = <<>> \/ ~inMap \/ blocked)

(* What send has put in the buffer leaves it: send is asynchronous and the  *)
(* reactor writes for it ("async send thread-safe", Connection.hpp:12).     *)
BufferDrains == (sendBuffer_ # <<>> /\ inMap) ~> (sendBuffer_ = <<>> \/ ~inMap)

(* A connection whose close was put off (Connection.cpp:56, "Pending        *)
(* connection close") is closed in the end.                                *)
PendingCloseCompletes == tryClose_ ~> ~inMap

=============================================================================
