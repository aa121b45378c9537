---------------------------- MODULE Connections ----------------------------
(***************************************************************************)
(* The connections of a SubReactor from accept to close: the kernel's      *)
(* descriptor table, epoll's edge-triggered registrations, connectionMap_, *)
(* and the handlers of one batch of events (muduo/src/SubReactor.cpp,      *)
(* handleEvent, handleRead, processNewConnections, removeConnection;       *)
(* muduo/src/Reactor.cpp, deleteEpollFd; muduo/src/Connection.cpp, close). *)
(*                                                                         *)
(* Events name DESCRIPTORS and the kernel reuses a descriptor as soon as   *)
(* it is closed, so a connection is a model value of its own here.  Peers  *)
(* send, finish or reset at any moment, between two reads of one handler   *)
(* too.  A unit of data is what one read of at most 8 KiB returns.         *)
(*                                                                         *)
(* The mailbox newConnections_ is one action here; module SubReactor has   *)
(* its races.  The send side of a connection is module Connection.         *)
(***************************************************************************)
EXTENDS Integers, Sequences, FiniteSets, SequencesExt

CONSTANTS
  Conns,            \* connections, each accepted at most once
  Fds,              \* the kernel's descriptors for them
  None,
  MaxData,          \* bound: units of data each peer sends
  MaxTimerEvents,   \* bound: events of the timerfd
  FinWithData,      \* may a FIN be reported together with unread data?
  CloseMidBatch     \* may a timer callback close a connection while other
                    \* events of the batch are still to be handled?

ASSUME ConnectionsAssumption ==
  /\ None \notin Conns /\ None \notin Fds
  /\ {"pipe", "timer"} \cap (Conns \cup Fds) = {}
  /\ MaxData \in Nat /\ MaxTimerEvents \in Nat
  /\ FinWithData \in BOOLEAN /\ CloseMidBatch \in BOOLEAN

VARIABLES
  owner,            \* owner[fd]: the connection behind an open descriptor
  unread,           \* unread[c]: units in the socket's receive queue
  sent,             \* sent[c]: units the peer has sent
  fin,              \* connections whose peer has finished
  rst,              \* connections whose peer has reset
  registered,       \* connections in the epoll set
  ready,            \* epoll's ready list: connections, "pipe", "timer"
  newConnections_,  \* mailbox of accepted descriptors
  connectionMap_,   \* connectionMap_[fd]: a connection or None
  accepted,         \* connections onAccepted has shown
  events,           \* the batch: descriptors, "pipe" and "timer" to handle
  hups,             \* descriptors of the batch whose FdWrapper has EPOLLHUP
  rpc,              \* where the reactor is
  cur,              \* the descriptor in hand, or None
  totalRead,        \* of handleRead
  delivered,        \* delivered[c]: units passed to onMessage
  disconnects,      \* disconnects[c]: calls of onDisconnected
  nullDisconnects,  \* calls of onDisconnected without a connection
  closedByApp,      \* connections on which close(true) was called
  timerEvents       \* events of the timerfd so far

peerVars  == <<sent, fin, rst>>
epollVars == <<registered, ready>>
tableVars == <<owner, newConnections_, connectionMap_, accepted>>
loopVars  == <<events, hups, rpc, cur, totalRead>>
appVars   == <<delivered, disconnects, nullDisconnects, closedByApp>>
vars == <<peerVars, unread, epollVars, tableVars, loopVars, appVars, timerEvents>>

TypeOK ==
  /\ owner \in [Fds -> Conns \cup {None}]
  /\ sent \in [Conns -> 0..MaxData] /\ unread \in [Conns -> 0..MaxData]
  /\ fin \subseteq Conns /\ rst \subseteq Conns
  /\ registered \subseteq Conns
  /\ ready \subseteq registered \cup {"pipe", "timer"}
  /\ newConnections_ \in Seq(Fds)
  /\ connectionMap_ \in [Fds -> Conns \cup {None}]
  /\ accepted \subseteq Conns
  /\ events \subseteq Fds \cup {"pipe", "timer"}
  /\ hups \subseteq Fds
  /\ rpc \in {"wait", "dispatch", "pipe", "timer", "reading", "hup"}
  /\ cur \in Fds \cup {None}
  /\ totalRead \in 0..MaxData
  /\ delivered \in [Conns -> 0..MaxData]
  /\ disconnects \in [Conns -> Nat] /\ nullDisconnects \in Nat
  /\ closedByApp \subseteq Conns
  /\ timerEvents \in 0..MaxTimerEvents

Init ==
  /\ owner = [f \in Fds |-> None]
  /\ unread = [c \in Conns |-> 0] /\ sent = [c \in Conns |-> 0]
  /\ fin = {} /\ rst = {} /\ registered = {} /\ ready = {}
  /\ newConnections_ = <<>>
  /\ connectionMap_ = [f \in Fds |-> None]
  /\ accepted = {}
  /\ events = {} /\ hups = {} /\ rpc = "wait" /\ cur = None /\ totalRead = 0
  /\ delivered = [c \in Conns |-> 0]
  /\ disconnects = [c \in Conns |-> 0] /\ nullDisconnects = 0
  /\ closedByApp = {}
  /\ timerEvents = 0

-----------------------------------------------------------------------------
(* The kernel and the peers.                                               *)

Open(c) == \E f \in Fds : owner[f] = c

(* a change of c's socket puts it on the ready list if epoll watches it *)
Edge(c) == ready' = IF c \in registered THEN ready \cup {c} ELSE ready

Readable(c) == unread[c] > 0 \/ c \in fin \cup rst

(* accept in the main reactor's thread, which takes any free descriptor,    *)
(* and the whole of enqueueNewConnection.                                  *)
Accept(c, fd) ==
  /\ owner[fd] = None
  /\ \A f \in Fds : owner[f] # c
  /\ c \notin accepted /\ c \notin fin \cup rst
  /\ owner' = [owner EXCEPT ![fd] = c]
  /\ newConnections_' = Append(newConnections_, fd)
  /\ ready' = ready \cup {"pipe"}
  /\ UNCHANGED <<peerVars, unread, registered, connectionMap_, accepted, loopVars,
                 appVars, timerEvents>>

PeerSends(c) ==
  /\ Open(c) /\ c \notin fin \cup rst
  /\ sent[c] < MaxData
  /\ sent' = [sent EXCEPT ![c] = @ + 1]
  /\ unread' = [unread EXCEPT ![c] = @ + 1]
  /\ Edge(c)
  /\ UNCHANGED <<fin, rst, registered, tableVars, loopVars, appVars, timerEvents>>

(* A FIN finds unread data, and no report of it under way, only if the      *)
(* environment allows that.                                                *)
PeerFinishes(c) ==
  /\ Open(c) /\ c \notin fin \cup rst
  /\ FinWithData \/ unread[c] = 0 \/ (c \in registered /\ c \notin ready)
  /\ fin' = fin \cup {c}
  /\ Edge(c)
  /\ UNCHANGED <<sent, rst, unread, registered, tableVars, loopVars, appVars, timerEvents>>

PeerResets(c) ==
  /\ Open(c) /\ c \notin rst
  /\ rst' = rst \cup {c}
  /\ Edge(c)
  /\ UNCHANGED <<sent, fin, unread, registered, tableVars, loopVars, appVars, timerEvents>>

TimerGoesOff ==
  /\ timerEvents < MaxTimerEvents
  /\ timerEvents' = timerEvents + 1
  /\ ready' = ready \cup {"timer"}
  /\ UNCHANGED <<peerVars, unread, registered, tableVars, loopVars, appVars>>

-----------------------------------------------------------------------------
(* The loop.                                                               *)

FdOf(c) == CHOOSE f \in Fds : owner[f] = c

(* epoll_wait looks again at each entry of the ready list it takes off and  *)
(* reports it only if there still is something to report.                  *)
doEpoll(S) ==
  /\ rpc = "wait"
  /\ S # {} /\ S \subseteq ready
  /\ LET readable == {c \in S \cap Conns : Readable(c)} IN
     /\ events' = (S \ Conns) \cup {FdOf(c) : c \in readable}
     /\ hups' = {FdOf(c) : c \in readable \cap rst}
  /\ ready' = ready \ S
  /\ rpc' = IF events' = {} THEN "wait" ELSE "dispatch"
  /\ UNCHANGED <<peerVars, unread, registered, tableVars, cur, totalRead, appVars,
                 timerEvents>>

(* The next turn of the loop over the batch. *)
NextEvent(pc) ==
  /\ rpc' = pc
  /\ UNCHANGED <<peerVars, unread, epollVars, tableVars, hups, cur, totalRead, appVars,
                 timerEvents>>

BatchDone == events = {} /\ rpc = "dispatch" /\ NextEvent("wait") /\ UNCHANGED events

handleEventPipe ==
  /\ rpc = "dispatch" /\ "pipe" \in events
  /\ events' = events \ {"pipe"}
  /\ NextEvent("pipe")

handleEventTimer ==
  /\ rpc = "dispatch" /\ "timer" \in events
  /\ events' = events \ {"timer"}
  /\ NextEvent("timer")

(* Bug: a hangup is handled where a read is due. *)
handleEventSocket_HupFirst(fd) ==
  /\ rpc = "dispatch" /\ fd \in events
  /\ events' = events \ {fd}
  /\ cur' = fd
  /\ totalRead' = 0
  /\ rpc' = IF connectionMap_[fd] = None \/ fd \in hups THEN "hup" ELSE "reading"
  /\ UNCHANGED <<hups, peerVars, unread, epollVars, tableVars, appVars, timerEvents>>

(* EPOLLIN is set in every report of a socket; an unknown descriptor ends   *)
(* handleRead, not handleEvent.                                            *)
handleEventSocket(fd) ==
  /\ rpc = "dispatch" /\ fd \in events
  /\ events' = events \ {fd}
  /\ cur' = fd
  /\ totalRead' = 0
  /\ rpc' = IF connectionMap_[fd] = None THEN "hup" ELSE "reading"
  /\ UNCHANGED <<hups, peerVars, unread, epollVars, tableVars, appVars, timerEvents>>

(* One turn of processNewConnections' loop: EPOLL_CTL_ADD, which reports a  *)
(* socket that is already readable, the map, onAccepted.                   *)
CreateConnection ==
  /\ rpc = "pipe" /\ newConnections_ # <<>>
  /\ LET fd == Last(newConnections_)  c == owner[fd] IN
     /\ newConnections_' = Front(newConnections_)
     /\ registered' = registered \cup {c}
     /\ ready' = IF Readable(c) THEN ready \cup {c} ELSE ready
     /\ connectionMap_' = [connectionMap_ EXCEPT ![fd] = c]
     /\ accepted' = accepted \cup {c}
  /\ UNCHANGED <<peerVars, unread, owner, loopVars, appVars, timerEvents>>

handlePipeReturn ==
  /\ rpc = "pipe" /\ newConnections_ = <<>>
  /\ NextEvent("dispatch") /\ UNCHANGED events

(* removeConnection: the map's entry, EPOLL_CTL_DEL and close, all three    *)
(* by descriptor.                                                          *)
removeConnection(fd) ==
  /\ connectionMap_' = [connectionMap_ EXCEPT ![fd] = None]
  /\ registered' = registered \ {owner[fd]}
  /\ ready' = ready \ {owner[fd]}
  /\ owner' = [owner EXCEPT ![fd] = None]
  /\ UNCHANGED <<newConnections_, accepted>>

(* spi_->onDisconnected(connectionMap_[fd], ...): operator[] makes a null   *)
(* entry for an unknown descriptor.                                        *)
onDisconnected(c) ==
  /\ disconnects' = IF c = None THEN disconnects ELSE [disconnects EXCEPT ![c] = @ + 1]
  /\ nullDisconnects' = nullDisconnects + (IF c = None THEN 1 ELSE 0)
  /\ UNCHANGED <<delivered, closedByApp>>

(* Bug: one read for each event. *)
handleReadChunk_Once ==
  /\ rpc = "reading"
  /\ LET c == connectionMap_[cur] IN
     /\ unread[c] > 0
     /\ unread' = [unread EXCEPT ![c] = @ - 1]
     /\ delivered' = [delivered EXCEPT ![c] = @ + 1]
  /\ totalRead' = totalRead + 1
  /\ rpc' = "hup"
  /\ UNCHANGED <<peerVars, epollVars, tableVars, events, hups, cur, disconnects,
                 nullDisconnects, closedByApp, timerEvents>>

(* handleRead: a read that returns data, and onMessage. *)
handleReadChunk ==
  /\ rpc = "reading"
  /\ LET c == connectionMap_[cur] IN
     /\ unread[c] > 0
     /\ unread' = [unread EXCEPT ![c] = @ - 1]
     /\ delivered' = [delivered EXCEPT ![c] = @ + 1]
  /\ totalRead' = totalRead + 1
  /\ UNCHANGED <<peerVars, epollVars, tableVars, events, hups, rpc, cur, disconnects,
                 nullDisconnects, closedByApp, timerEvents>>

(* Bug: deleteEpollFd clears a copy of the FdWrapper. *)
handleReadEnd_KeepsEvents ==
  /\ rpc = "reading" /\ unread[connectionMap_[cur]] = 0
  /\ \/ /\ totalRead = 0
        /\ onDisconnected(connectionMap_[cur])
        /\ removeConnection(cur)
     \/ /\ totalRead > 0
        /\ UNCHANGED <<epollVars, tableVars, appVars>>
  /\ rpc' = "hup"
  /\ UNCHANGED <<peerVars, unread, events, hups, cur, totalRead, timerEvents>>

(* handleRead after a read that returned 0 or -1: end of stream, an error   *)
(* or simply nothing more.  Only a handler that has read nothing tells      *)
(* them apart from the last, and removeConnection then clears the events    *)
(* of the FdWrapper in hand.                                               *)
handleReadEnd ==
  /\ rpc = "reading" /\ unread[connectionMap_[cur]] = 0
  /\ \/ /\ totalRead = 0
        /\ onDisconnected(connectionMap_[cur])
        /\ removeConnection(cur)
        /\ hups' = hups \ {cur}
     \/ /\ totalRead > 0
        /\ UNCHANGED <<epollVars, tableVars, hups, appVars>>
  /\ rpc' = "hup"
  /\ UNCHANGED <<peerVars, unread, events, cur, totalRead, timerEvents>>

(* The rest of handleEvent: EPOLLHUP. *)
handleEventHup ==
  /\ rpc = "hup"
  /\ \/ /\ cur \in hups
        /\ onDisconnected(connectionMap_[cur])
        /\ removeConnection(cur)
     \/ /\ cur \notin hups
        /\ UNCHANGED <<epollVars, tableVars, appVars>>
  /\ rpc' = "dispatch"
  /\ cur' = None
  /\ totalRead' = 0
  /\ UNCHANGED <<peerVars, unread, events, hups, timerEvents>>

(* A timer callback of the application calls close(true) on a connection it *)
(* knows and has seen neither closed nor disconnected.  closed_ is set, the *)
(* connection removed by the descriptor it was made with.                  *)
Connection_close(c) ==
  /\ rpc = "timer"
  /\ CloseMidBatch \/ events = {}
  /\ c \in accepted \ closedByApp /\ disconnects[c] = 0
  /\ \E fd \in Fds :
       /\ connectionMap_[fd] = c
       /\ removeConnection(fd)
  /\ closedByApp' = closedByApp \cup {c}
  /\ UNCHANGED <<peerVars, unread, loopVars, delivered, disconnects, nullDisconnects,
                 timerEvents>>

handleTimerReturn ==
  /\ rpc = "timer"
  /\ NextEvent("dispatch") /\ UNCHANGED events

-----------------------------------------------------------------------------
Peer(c) == PeerSends(c) \/ PeerFinishes(c) \/ PeerResets(c)

Handlers ==
  \/ \E S \in SUBSET ready : doEpoll(S)
  \/ BatchDone
  \/ handleEventPipe \/ handleEventTimer
  \/ \E fd \in events \cap Fds : handleEventSocket(fd)
  \/ CreateConnection \/ handlePipeReturn
  \/ handleReadChunk \/ handleReadEnd \/ handleEventHup
  \/ handleTimerReturn

Next ==
  \/ \E c \in Conns, fd \in Fds : Accept(c, fd)
  \/ \E c \in Conns : Peer(c)
  \/ TimerGoesOff
  \/ Handlers
  \/ \E c \in Conns : Connection_close(c)

Spec == Init /\ [][Next]_vars

(* The reactor's thread runs, and epoll_wait serves its ready list in       *)
(* order, so no entry waits for ever.  The peers and the application owe    *)
(* nothing.                                                                *)
FairSpec ==
  /\ Spec
  /\ WF_vars(Handlers)
  /\ \A c \in Conns : SF_vars(\E S \in SUBSET ready : c \in S /\ doEpoll(S))

-----------------------------------------------------------------------------
(* Properties.                                                             *)

InHand(c) == cur # None /\ connectionMap_[cur] = c

ReportedTo(c) == \E fd \in events \cap Fds : connectionMap_[fd] = c

(* connectionMap_, the descriptor table and the epoll set agree: a mapped   *)
(* descriptor is open and watched, and a watched socket is mapped.          *)
MapMatchesKernel ==
  /\ \A fd \in Fds : connectionMap_[fd] # None =>
       owner[fd] = connectionMap_[fd] /\ owner[fd] \in registered
  /\ \A c \in registered : \E fd \in Fds : connectionMap_[fd] = c

(* Edge-triggered epoll reports a socket once for each arrival, so what has *)
(* arrived on a connection in connectionMap_ must be on its way to a        *)
(* handler: unread data on the ready list, in the batch or in the read      *)
(* loop; a reset on the ready list or in an event that has EPOLLHUP.  What  *)
(* epoll watches is what the map knows.                                     *)
NoLostEdge ==
  /\ MapMatchesKernel
  /\ \A c \in registered :
    /\ unread[c] > 0 => c \in ready \/ ReportedTo(c) \/ InHand(c)
    /\ c \in rst => c \in ready \/ \E fd \in hups : connectionMap_[fd] = c

(* The application hears of the end of a connection at most once, not after *)
(* its own close, never about a null connection and only of one whose peer  *)
(* finished or reset, though events name reused descriptors: handleRead's   *)
(* removeConnection must keep the EPOLLHUP branch of the same event quiet.  *)
DisconnectedOnce ==
  /\ nullDisconnects = 0
  /\ \A c \in Conns : disconnects[c] + (IF c \in closedByApp THEN 1 ELSE 0) <= 1
  /\ \A c \in Conns : disconnects[c] > 0 => c \in fin \cup rst

(* When the application hears that a peer is gone, it has been given        *)
(* everything that peer sent: handleEvent reads before it looks at          *)
(* EPOLLHUP, and handleRead reads to the end.                              *)
NothingLostAtDisconnect ==
  \A c \in Conns : disconnects[c] > 0 => delivered[c] = sent[c]

(* A peer that has finished or reset is noticed: handleRead or the EPOLLHUP *)
(* branch closes the descriptor and takes the connection off the map.       *)
GoneIsNoticed ==
  \A c \in Conns : (c \in registered /\ c \in fin \cup rst) ~> c \notin registered

=============================================================================
