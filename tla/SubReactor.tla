----------------------------- MODULE SubReactor -----------------------------
(***************************************************************************)
(* One SubReactor of the muduo library: the edge-triggered event loop of a *)
(* worker thread and the two mailboxes through which other threads hand it *)
(* work (muduo/src/SubReactor.cpp, muduo/include/Reactor.hpp).             *)
(*                                                                         *)
(* A caller appends a descriptor to newConnections_ or to sendQueue_ and   *)
(* THEN writes one byte to a non-blocking pipe.  The loop is woken by the  *)
(* pipe, reads a bounded number of bytes and THEN takes both mailboxes.    *)
(* Every access that another thread can observe is one action:             *)
(*                                                                         *)
(*   - a push_back or a move of a mailbox is atomic because it is done     *)
(*     under a Spinlock (module Spinlock);                                 *)
(*   - a step of Connection::send holds the connection's sendMutex_;       *)
(*   - the pipe and epoll are the kernel's.  The pipe holds at most        *)
(*     PipeCap bytes and a write to a full pipe fails.  A descriptor is on *)
(*     epoll's ready list after an edge and until epoll_wait reports it;   *)
(*     epoll_wait reports it only if it is still readable.                 *)
(*                                                                         *)
(* Sockets and the timerfd are one source of events here, "sock": what     *)
(* their handlers do to the mailboxes is that a callback may call          *)
(* Connection::send and that a connection may be removed.  Modules         *)
(* Connections and Timers model those handlers themselves.                 *)
(***************************************************************************)
EXTENDS Integers, Sequences, SequencesExt

CONSTANTS
  Fds,              \* connection descriptors, each accepted once
  Senders,          \* application threads that call Connection::send
  Acceptor,         \* the main reactor's thread
  Reactor,          \* the sub-reactor's own thread
  None,             \* no thread, no descriptor
  PipeCap,          \* bytes the pipe holds (64 KiB on Linux)
  ReadChunk,        \* sizeof(buffer) of handlePipe (1024)
  EdgeOnEveryWrite, \* TRUE: every write to the pipe is an edge (Linux before
                    \* 5.5 and from 5.14); FALSE: only one to an empty pipe
  EarlyStop,        \* may stop() come before the thread has set isRunning_?
  MaxSends,         \* bound: calls of Connection::send
  MaxSockEvents     \* bound: events of sockets and of the timerfd

Callers == Senders \cup {Acceptor, Reactor}

ASSUME ThreadsAssumption ==
  /\ Acceptor \notin Senders
  /\ Reactor \notin Senders
  /\ Acceptor # Reactor
  /\ None \notin Callers
  /\ None \notin Fds

ASSUME PipeAssumption ==
  /\ PipeCap \in Nat \ {0}
  /\ ReadChunk \in Nat \ {0}
  /\ EdgeOnEveryWrite \in BOOLEAN
  /\ EdgeOnEveryWrite \/ ReadChunk >= PipeCap

ASSUME BoundsAssumption ==
  /\ EarlyStop \in BOOLEAN
  /\ MaxSends \in Nat
  /\ MaxSockEvents \in Nat

VARIABLES
  isRunning_,       \* the loop's flag
  pipe,             \* bytes in the pipe
  ready,            \* epoll's ready list: a subset of {"pipe", "sock"}
  events,           \* events reported to the loop and not yet handled
  newConnections_,  \* mailbox of accepted descriptors
  sendQueue_,       \* mailbox of descriptors with data to send
  connBatch,        \* processNewConnections' local vector
  sendBatch,        \* processSendQueue's local vector
  connectionMap_,   \* descriptors the reactor knows
  handed,           \* descriptors the acceptor has handed over
  dirty,            \* dirty[fd]: the connection's sendBuffer_ has data
  sendMutex_,       \* sendMutex_[fd]: its holder
  rpc,              \* where the reactor's thread is
  cpc,              \* cpc[t]: where t is in send or in an enqueue call
  cfd,              \* cfd[t]: the descriptor of that call
  ctl,              \* where the thread that owns the SubReactor is
  sends,            \* calls of Connection::send so far
  sockEvents        \* socket and timer events so far

kernelVars  == <<pipe, ready>>
mailboxVars == <<newConnections_, sendQueue_>>
loopVars    == <<isRunning_, rpc, events, connBatch, sendBatch>>
connVars    == <<connectionMap_, handed, dirty, sendMutex_>>
callVars    == <<cpc, cfd, ctl>>
countVars   == <<sends, sockEvents>>
vars == <<kernelVars, mailboxVars, loopVars, connVars, callVars, countVars>>

ReactorPcs == {"unstarted", "entry", "wait", "dispatch", "read", "swapConns",
               "conns", "onAccepted", "swapSends", "sends", "onMessage",
               "exited"}
CallerPcs == {"idle", "push", "notify"}
OwnerPcs  == {"new", "started", "stopping", "joining", "joined"}

TypeOK ==
  /\ isRunning_ \in BOOLEAN
  /\ pipe \in 0..PipeCap
  /\ ready \in SUBSET {"pipe", "sock"}
  /\ events \in SUBSET {"pipe", "sock"}
  /\ newConnections_ \in Seq(Fds)
  /\ sendQueue_ \in Seq(Fds)
  /\ connBatch \in Seq(Fds)
  /\ sendBatch \in Seq(Fds)
  /\ connectionMap_ \in SUBSET Fds
  /\ handed \in SUBSET Fds
  /\ dirty \in [Fds -> BOOLEAN]
  /\ sendMutex_ \in [Fds -> Callers \cup {None}]
  /\ rpc \in ReactorPcs
  /\ cpc \in [Callers -> CallerPcs]
  /\ cfd \in [Callers -> Fds \cup {None}]
  /\ ctl \in OwnerPcs
  /\ sends \in 0..MaxSends
  /\ sockEvents \in 0..MaxSockEvents

(* The SubReactor as its constructor leaves it: a pipe and a timerfd in     *)
(* epoll, empty mailboxes, no thread yet.                                  *)
Init ==
  /\ isRunning_ = FALSE
  /\ pipe = 0
  /\ ready = {}
  /\ events = {}
  /\ newConnections_ = <<>>
  /\ sendQueue_ = <<>>
  /\ connBatch = <<>>
  /\ sendBatch = <<>>
  /\ connectionMap_ = {}
  /\ handed = {}
  /\ dirty = [f \in Fds |-> FALSE]
  /\ sendMutex_ = [f \in Fds |-> None]
  /\ rpc = "unstarted"
  /\ cpc = [t \in Callers |-> "idle"]
  /\ cfd = [t \in Callers |-> None]
  /\ ctl = "new"
  /\ sends = 0
  /\ sockEvents = 0

-----------------------------------------------------------------------------
(* The kernel's side of write(pipeFds_[1], &ch, 1): a full pipe refuses the *)
(* byte (EAGAIN, which the callers only log), an accepted byte is an edge.  *)
WritePipe ==
  \/ /\ pipe < PipeCap
     /\ pipe' = pipe + 1
     /\ ready' = IF EdgeOnEveryWrite \/ pipe = 0 THEN ready \cup {"pipe"} ELSE ready
  \/ /\ pipe = PipeCap
     /\ UNCHANGED kernelVars

(* What epoll_wait may report: an entry of the ready list that is readable. *)
Reportable == {e \in ready : e = "pipe" => pipe > 0}

-----------------------------------------------------------------------------
(* Callers.                                                                *)

(* Bug: the descriptor is pushed but no byte is written. *)
enqueueNewConnection_NoByte(fd) ==
  /\ cpc[Acceptor] = "idle"
  /\ fd \notin handed
  /\ handed' = handed \cup {fd}
  /\ newConnections_' = Append(newConnections_, fd)
  /\ UNCHANGED <<kernelVars, sendQueue_, loopVars, connectionMap_, dirty,
                 sendMutex_, callVars, countVars>>

(* A fresh descriptor is pushed under connSpinlock_; the byte follows. *)
enqueueNewConnection(fd) ==
  /\ cpc[Acceptor] = "idle"
  /\ fd \notin handed
  /\ handed' = handed \cup {fd}
  /\ newConnections_' = Append(newConnections_, fd)
  /\ cpc' = [cpc EXCEPT ![Acceptor] = "notify"]
  /\ UNCHANGED <<kernelVars, sendQueue_, loopVars, connectionMap_, dirty,
                 sendMutex_, cfd, ctl, countVars>>

(* Only a callback lets the reactor's own thread call send. *)
MayCallSend(t) == t \in Senders \/ (t = Reactor /\ rpc \in {"onAccepted", "onMessage"})

(* A thread can name any connection that onAccepted has ever shown, the     *)
(* removed ones too: it holds a shared_ptr.                                *)
Shown == handed \ (ToSet(newConnections_) \cup ToSet(connBatch))

(* Connection::send takes sendMutex_ and fills the buffer. *)
send(t, fd) ==
  /\ MayCallSend(t)
  /\ cpc[t] = "idle"
  /\ sends < MaxSends
  /\ fd \in Shown
  /\ sendMutex_[fd] = None
  /\ sendMutex_' = [sendMutex_ EXCEPT ![fd] = t]
  /\ dirty' = [dirty EXCEPT ![fd] = TRUE]
  /\ cpc' = [cpc EXCEPT ![t] = "push"]
  /\ cfd' = [cfd EXCEPT ![t] = fd]
  /\ sends' = sends + 1
  /\ UNCHANGED <<kernelVars, mailboxVars, loopVars, connectionMap_, handed,
                 ctl, sockEvents>>

(* Bug: nothing is pushed when the mailbox already has an entry. *)
enqueueSend_OnlyFirst(t) ==
  /\ cpc[t] = "push"
  /\ sendQueue_' = IF sendQueue_ = <<>> THEN <<cfd[t]>> ELSE sendQueue_
  /\ cpc' = [cpc EXCEPT ![t] = "notify"]
  /\ UNCHANGED <<kernelVars, newConnections_, loopVars, connVars, cfd, ctl, countVars>>

(* enqueueSend, first half: push_back under sendSpinlock_. *)
enqueueSend(t) ==
  /\ cpc[t] = "push"
  /\ sendQueue_' = Append(sendQueue_, cfd[t])
  /\ cpc' = [cpc EXCEPT ![t] = "notify"]
  /\ UNCHANGED <<kernelVars, newConnections_, loopVars, connVars, cfd, ctl, countVars>>

(* Second half of both enqueue functions: the byte; send then returns and   *)
(* its lock_guard releases sendMutex_.                                     *)
Notify(t) ==
  /\ cpc[t] = "notify"
  /\ WritePipe
  /\ sendMutex_' = [f \in Fds |-> IF sendMutex_[f] = t THEN None ELSE sendMutex_[f]]
  /\ cpc' = [cpc EXCEPT ![t] = "idle"]
  /\ cfd' = [cfd EXCEPT ![t] = None]
  /\ UNCHANGED <<mailboxVars, loopVars, connectionMap_, handed, dirty, ctl, countVars>>

-----------------------------------------------------------------------------
(* The owner: start(), stop(), join().                                     *)

start ==
  /\ ctl = "new"
  /\ ctl' = "started"
  /\ rpc' = "entry"
  /\ UNCHANGED <<kernelVars, mailboxVars, isRunning_, events, connBatch, sendBatch,
                 connVars, cpc, cfd, countVars>>

stop ==
  /\ ctl = "started"
  /\ EarlyStop \/ rpc # "entry"
  /\ isRunning_' = FALSE
  /\ ctl' = "stopping"
  /\ UNCHANGED <<kernelVars, mailboxVars, rpc, events, connBatch, sendBatch,
                 connVars, cpc, cfd, countVars>>

(* Bug: stop() only clears the flag. *)
stopNotify_NoByte ==
  /\ ctl = "stopping"
  /\ ctl' = "joining"
  /\ UNCHANGED <<kernelVars, mailboxVars, loopVars, connVars, cpc, cfd, countVars>>

stopNotify ==
  /\ ctl = "stopping"
  /\ WritePipe
  /\ ctl' = "joining"
  /\ UNCHANGED <<mailboxVars, loopVars, connVars, cpc, cfd, countVars>>

join ==
  /\ ctl = "joining"
  /\ rpc = "exited"
  /\ ctl' = "joined"
  /\ UNCHANGED <<kernelVars, mailboxVars, loopVars, connVars, cpc, cfd, countVars>>

-----------------------------------------------------------------------------
(* The reactor's thread.  It stands still while a callback of its own is   *)
(* inside Connection::send.                                                *)

ReactorAt(pc) == rpc = pc /\ cpc[Reactor] = "idle"

(* The lambda of start(): the flag is set by the new thread, not by start. *)
ThreadEntry ==
  /\ ReactorAt("entry")
  /\ isRunning_' = TRUE
  /\ rpc' = "wait"
  /\ UNCHANGED <<kernelVars, mailboxVars, events, connBatch, sendBatch,
                 connVars, callVars, countVars>>

(* epoll_wait(-1) returns a non-empty part of what can be reported: at most *)
(* sixteen events, the size of events_.                                    *)
doEpoll(S) ==
  /\ ReactorAt("wait")
  /\ S # {} /\ S \subseteq Reportable
  /\ events' = S
  /\ ready' = ready \ S
  /\ rpc' = "dispatch"
  /\ UNCHANGED <<pipe, mailboxVars, isRunning_, connBatch, sendBatch,
                 connVars, callVars, countVars>>

handleEventPipe ==
  /\ ReactorAt("dispatch")
  /\ "pipe" \in events
  /\ events' = events \ {"pipe"}
  /\ rpc' = "read"
  /\ UNCHANGED <<kernelVars, mailboxVars, isRunning_, connBatch, sendBatch,
                 connVars, callVars, countVars>>

(* handlePipe reads once, at most ReadChunk bytes, before any mailbox. *)
handlePipeRead ==
  /\ ReactorAt("read")
  /\ pipe' = IF pipe > ReadChunk THEN pipe - ReadChunk ELSE 0
  /\ rpc' = "swapConns"
  /\ UNCHANGED <<ready, mailboxVars, isRunning_, events, connBatch, sendBatch,
                 connVars, callVars, countVars>>

processNewConnections ==
  /\ ReactorAt("swapConns")
  /\ connBatch' = newConnections_
  /\ newConnections_' = <<>>
  /\ rpc' = "conns"
  /\ UNCHANGED <<kernelVars, sendQueue_, isRunning_, events, sendBatch,
                 connVars, callVars, countVars>>

(* Bug: the loop ends after the first descriptor. *)
CreateConnection_OnlyOne ==
  /\ ReactorAt("conns")
  /\ connBatch # <<>>
  /\ connectionMap_' = connectionMap_ \cup {Last(connBatch)}
  /\ connBatch' = <<>>
  /\ rpc' = "onAccepted"
  /\ UNCHANGED <<kernelVars, mailboxVars, isRunning_, events, sendBatch,
                 handed, dirty, sendMutex_, callVars, countVars>>

(* One turn of the loop: the LAST descriptor of the batch is registered,    *)
(* entered in the map and shown to the application.                        *)
CreateConnection ==
  /\ ReactorAt("conns")
  /\ connBatch # <<>>
  /\ connectionMap_' = connectionMap_ \cup {Last(connBatch)}
  /\ connBatch' = Front(connBatch)
  /\ rpc' = "onAccepted"
  /\ UNCHANGED <<kernelVars, mailboxVars, isRunning_, events, sendBatch,
                 handed, dirty, sendMutex_, callVars, countVars>>

onAcceptedReturn ==
  /\ ReactorAt("onAccepted")
  /\ rpc' = "conns"
  /\ UNCHANGED <<kernelVars, mailboxVars, isRunning_, events, connBatch, sendBatch,
                 connVars, callVars, countVars>>

processSendQueue ==
  /\ ReactorAt("conns")
  /\ connBatch = <<>>
  /\ rpc' = "swapSends"
  /\ UNCHANGED <<kernelVars, mailboxVars, isRunning_, events, connBatch, sendBatch,
                 connVars, callVars, countVars>>

SwapSendQueue ==
  /\ ReactorAt("swapSends")
  /\ sendBatch' = sendQueue_
  /\ sendQueue_' = <<>>
  /\ rpc' = "sends"
  /\ UNCHANGED <<kernelVars, newConnections_, isRunning_, events, connBatch,
                 connVars, callVars, countVars>>

(* Bug: an unknown descriptor ends the loop instead of the turn. *)
handleWrite_Break ==
  /\ ReactorAt("sends")
  /\ sendBatch # <<>>
  /\ \/ /\ Last(sendBatch) \notin connectionMap_
        /\ sendBatch' = <<>>
        /\ UNCHANGED dirty
     \/ /\ Last(sendBatch) \in connectionMap_
        /\ sendMutex_[Last(sendBatch)] = None
        /\ sendBatch' = Front(sendBatch)
        /\ dirty' = [dirty EXCEPT ![Last(sendBatch)] = FALSE]
  /\ UNCHANGED <<kernelVars, mailboxVars, isRunning_, rpc, events, connBatch,
                 connectionMap_, handed, sendMutex_, callVars, countVars>>

(* One turn of the loop: an unknown descriptor is only logged; otherwise    *)
(* sendBufferedData empties the buffer under sendMutex_ (a socket that      *)
(* accepts less is module Connection's subject).                           *)
handleWrite ==
  /\ ReactorAt("sends")
  /\ sendBatch # <<>>
  /\ sendBatch' = Front(sendBatch)
  /\ \/ /\ Last(sendBatch) \notin connectionMap_
        /\ UNCHANGED dirty
     \/ /\ Last(sendBatch) \in connectionMap_
        /\ sendMutex_[Last(sendBatch)] = None
        /\ dirty' = [dirty EXCEPT ![Last(sendBatch)] = FALSE]
  /\ UNCHANGED <<kernelVars, mailboxVars, isRunning_, rpc, events, connBatch,
                 connectionMap_, handed, sendMutex_, callVars, countVars>>

(* Bug: the pipe is drained after the mailboxes have been taken. *)
handlePipeReturn_DrainAfter ==
  /\ ReactorAt("sends")
  /\ sendBatch = <<>>
  /\ pipe' = 0
  /\ rpc' = "dispatch"
  /\ UNCHANGED <<ready, mailboxVars, isRunning_, events, connBatch, sendBatch,
                 connVars, callVars, countVars>>

handlePipeReturn ==
  /\ ReactorAt("sends")
  /\ sendBatch = <<>>
  /\ rpc' = "dispatch"
  /\ UNCHANGED <<kernelVars, mailboxVars, isRunning_, events, connBatch, sendBatch,
                 connVars, callVars, countVars>>

(* A socket or the timer: its callback may call send ... *)
handleEventSock ==
  /\ ReactorAt("dispatch")
  /\ "sock" \in events
  /\ events' = events \ {"sock"}
  /\ rpc' = "onMessage"
  /\ UNCHANGED <<kernelVars, mailboxVars, isRunning_, connBatch, sendBatch,
                 connVars, callVars, countVars>>

(* ... or the connection is at its end and is removed. *)
removeConnection(fd) ==
  /\ ReactorAt("onMessage")
  /\ fd \in connectionMap_
  /\ connectionMap_' = connectionMap_ \ {fd}
  /\ rpc' = "dispatch"
  /\ UNCHANGED <<kernelVars, mailboxVars, isRunning_, events, connBatch, sendBatch,
                 handed, dirty, sendMutex_, callVars, countVars>>

onMessageReturn ==
  /\ ReactorAt("onMessage")
  /\ rpc' = "dispatch"
  /\ UNCHANGED <<kernelVars, mailboxVars, isRunning_, events, connBatch, sendBatch,
                 connVars, callVars, countVars>>

(* The end of a turn of Reactor::loop: the flag is read after the events.   *)
loopCheck ==
  /\ ReactorAt("dispatch")
  /\ events = {}
  /\ rpc' = IF isRunning_ THEN "wait" ELSE "exited"
  /\ UNCHANGED <<kernelVars, mailboxVars, isRunning_, events, connBatch, sendBatch,
                 connVars, callVars, countVars>>

(* The environment: a peer sends or closes, a timer expires. *)
SockReady ==
  /\ sockEvents < MaxSockEvents
  /\ connectionMap_ # {}
  /\ ready' = ready \cup {"sock"}
  /\ sockEvents' = sockEvents + 1
  /\ UNCHANGED <<pipe, mailboxVars, loopVars, connVars, callVars, sends>>

-----------------------------------------------------------------------------
ReactorStep ==
  \/ ThreadEntry
  \/ \E S \in SUBSET {"pipe", "sock"} : doEpoll(S)
  \/ handleEventPipe \/ handlePipeRead
  \/ processNewConnections \/ CreateConnection \/ onAcceptedReturn
  \/ processSendQueue \/ SwapSendQueue \/ handleWrite \/ handlePipeReturn
  \/ handleEventSock \/ onMessageReturn
  \/ \E fd \in Fds : removeConnection(fd)
  \/ loopCheck

OwnerStep == start \/ stop \/ stopNotify \/ join

Next ==
  \/ \E fd \in Fds : enqueueNewConnection(fd)
  \/ \E t \in Callers, fd \in Fds : send(t, fd)
  \/ \E t \in Callers : enqueueSend(t) \/ Notify(t)
  \/ OwnerStep
  \/ ReactorStep
  \/ SockReady

Spec == Init /\ [][Next]_vars

(* A call that has begun goes on, the reactor's thread is scheduled, and    *)
(* epoll_wait rotates its ready list, so the pipe is not passed over for    *)
(* ever.  Nobody has to call, to start or to stop.                         *)
doEpollPipe == \E S \in SUBSET {"pipe", "sock"} : "pipe" \in S /\ doEpoll(S)

Fairness ==
  /\ \A t \in Callers : WF_vars(enqueueSend(t) \/ Notify(t))
  /\ WF_vars(ReactorStep)
  /\ SF_vars(doEpollPipe)
  /\ SF_vars(handleWrite)
  /\ WF_vars(stopNotify)

FairSpec == Spec /\ Fairness

-----------------------------------------------------------------------------
(* Properties.                                                             *)

(* The reactor will look at the pipe again: an edge that epoll_wait can     *)
(* still report, or an event of this turn not yet handled.                 *)
WakeupPending == ("pipe" \in ready /\ pipe > 0) \/ "pipe" \in events

SomebodyNotifies == \E t \in Callers : cpc[t] = "notify"

(* No lost wakeup, newConnections_: whenever the mailbox holds a descriptor *)
(* there is a wakeup that will reach the loop, or the loop has not yet      *)
(* taken the mailbox in this turn, or the byte is still to be written.      *)
NoLostAccept ==
  newConnections_ # <<>> =>
     WakeupPending \/ SomebodyNotifies \/ rpc \in {"read", "swapConns"}

(* The same for sendQueue_, which handlePipe takes after newConnections_. *)
NoLostSend ==
  sendQueue_ # <<>> =>
     \/ WakeupPending \/ SomebodyNotifies
     \/ rpc \in {"read", "swapConns", "conns", "onAccepted", "swapSends"}

(* Why a byte that the full pipe refuses is not missed: bytes that cannot   *)
(* produce another edge always have a report or a read ahead of them.      *)
PipeBytesCovered ==
  pipe = PipeCap \/ (~EdgeOnEveryWrite /\ pipe > 0)
    => "pipe" \in ready \/ "pipe" \in events \/ rpc = "read"

(* The loop's local state lives only where the code keeps it: events while  *)
(* a turn is going on, the batch while processSendQueue runs; the thread    *)
(* exists from start() on; a caller about to push has its descriptor.      *)
LocalsInScope ==
  /\ events # {} => rpc \notin {"unstarted", "entry", "wait", "exited"}
  /\ sendBatch # <<>> => rpc = "sends"
  /\ ctl = "new" => rpc = "unstarted"
  /\ \A t \in Callers : cpc[t] = "push" => cfd[t] \in Fds

(* Only a connection that onAccepted has shown has data. *)
OnlyShownIsDirty == \A fd \in Fds : dirty[fd] => fd \in Shown

(* A connection that the reactor knows and whose sendBuffer_ has data is in *)
(* sendQueue_, in the batch being sent, or about to be pushed: no           *)
(* interleaving of send and processSendQueue leaves the data behind.       *)
NoStrandedData ==
  \A fd \in connectionMap_ :
     dirty[fd] => \/ fd \in ToSet(sendQueue_) \cup ToSet(sendBatch)
                  \/ \E t \in Callers : cpc[t] = "push" /\ cfd[t] = fd

(* The inductive invariant behind the three properties above. *)
IInv ==
  /\ TypeOK
  /\ LocalsInScope
  /\ PipeBytesCovered
  /\ NoLostAccept
  /\ NoLostSend
  /\ OnlyShownIsDirty
  /\ NoStrandedData

(* stop() is obeyed: the thread leaves its loop ("stop the sub-reactor",    *)
(* SubReactor.hpp:22, and join() returns).                                 *)
StopStops == ctl = "joining" ~> rpc = "exited"

(* Every descriptor handed over becomes a connection unless the reactor     *)
(* stops: the edge-triggered pipe never leaves one in the mailbox.         *)
ConnectionsServed ==
  \A fd \in Fds :
     fd \in ToSet(newConnections_) /\ rpc # "unstarted" ~> fd \in connectionMap_ \/ rpc = "exited"

(* Data given to send leaves the buffer unless the connection is removed or *)
(* the reactor stops.                                                      *)
DataFlushed ==
  \A fd \in Fds : dirty[fd] ~> ~dirty[fd] \/ fd \notin connectionMap_ \/ rpc = "exited"
=============================================================================
