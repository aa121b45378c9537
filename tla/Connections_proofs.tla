------------------------- MODULE Connections_proofs -------------------------
(***************************************************************************)
(* Proofs about the receive path of a SubReactor: no edge of epoll is      *)
(* lost, the application hears of the end of a connection once, and it has *)
(* then been given all the data.  The application is assumed not to close  *)
(* connections from a timer callback in the middle of a batch              *)
(* (CloseMidBatch): the batch may then hold events of a descriptor that is *)
(* gone, or is another connection's by now.                                *)
(***************************************************************************)
EXTENDS Connections, SequenceTheorems, TLAPS

-----------------------------------------------------------------------------
(* The inductive invariant.                                                *)

ConnsTypes ==
  /\ owner \in [Fds -> Conns \cup {None}]
  /\ connectionMap_ \in [Fds -> Conns \cup {None}]
  /\ sent \in [Conns -> Nat] /\ unread \in [Conns -> Nat] /\ delivered \in [Conns -> Nat]
  /\ disconnects \in [Conns -> Nat]
  /\ fin \subseteq Conns /\ rst \subseteq Conns /\ registered \subseteq Conns
  /\ accepted \subseteq Conns /\ closedByApp \subseteq Conns
  /\ ready \subseteq registered \cup {"pipe", "timer"}
  /\ newConnections_ \in Seq(Fds)
  /\ events \subseteq Fds \cup {"pipe", "timer"} /\ hups \subseteq Fds
  /\ cur \in Fds \cup {None} /\ totalRead \in Nat

(* the loop: a descriptor is in hand while its event is handled, and no      *)
(* longer in the batch; the batch is empty when the loop waits.            *)
LoopState ==
  /\ rpc \in {"wait", "dispatch", "pipe", "timer", "reading", "hup"}
  /\ rpc = "wait" => events = {}
  /\ rpc \in {"reading", "hup"} <=> cur # None
  /\ cur # None => cur \notin events

(* the tables: a descriptor belongs to one connection, and connectionMap_    *)
(* agrees with the kernel and the epoll set                                *)
Tables ==
  /\ \A f, g \in Fds : owner[f] = owner[g] /\ owner[f] # None => f = g
  /\ \A f \in Fds : connectionMap_[f] # None =>
       /\ owner[f] = connectionMap_[f]
       /\ owner[f] \in registered /\ owner[f] \in accepted
  /\ \A c \in registered : \E f \in Fds : connectionMap_[f] = c

(* the mailbox holds open descriptors, each once, of connections not yet     *)
(* shown to the application                                                *)
MailboxFresh ==
  /\ \A i \in 1..Len(newConnections_) :
       owner[newConnections_[i]] # None /\ owner[newConnections_[i]] \notin accepted
  /\ \A i, j \in 1..Len(newConnections_) : newConnections_[i] = newConnections_[j] => i = j

(* what the batch says is still true when its turn comes *)
BatchTrue ==
  /\ \A f \in events \cap Fds : connectionMap_[f] # None /\ Readable(connectionMap_[f])
  /\ rpc = "reading" => /\ connectionMap_[cur] # None
                        /\ totalRead = 0 => Readable(connectionMap_[cur])
  /\ \A f \in hups : f \in events \/ f = cur =>
       connectionMap_[f] # None /\ connectionMap_[f] \in rst
  /\ rpc = "hup" /\ cur \in hups => unread[connectionMap_[cur]] = 0

(* NoLostEdge, with the handlers that will really look at the socket *)
EdgesKept ==
  \A c \in registered :
    /\ unread[c] > 0 =>
         c \in ready \/ ReportedTo(c) \/ (rpc = "reading" /\ connectionMap_[cur] = c)
    /\ c \in rst => c \in ready \/ \E f \in hups : (f \in events \/ f = cur) /\ connectionMap_[f] = c

(* units are neither made nor lost, and a connection whose end was reported  *)
(* or that was closed has no descriptor                                    *)
Ends ==
  /\ \A c \in Conns : delivered[c] + unread[c] = sent[c]
  /\ \A c \in Conns : c \in closedByApp \/ disconnects[c] > 0 =>
       c \in accepted /\ \A f \in Fds : owner[f] # c
  /\ DisconnectedOnce
  /\ NothingLostAtDisconnect

ConnsInv ==
  /\ ConnsTypes /\ LoopState /\ Tables /\ MailboxFresh
  /\ BatchTrue /\ EdgesKept /\ Ends

(* The invariant holds at the start. *)
LEMMA ConnsInitInv == Init => ConnsInv
  <1> SUFFICES ASSUME Init PROVE ConnsInv
    OBVIOUS
  <1>1. ConnsTypes /\ LoopState /\ Tables
    BY ConnectionsAssumption DEF Init, ConnsTypes, LoopState, Tables
  <1>2. MailboxFresh /\ BatchTrue /\ EdgesKept
    BY DEF Init, MailboxFresh, BatchTrue, EdgesKept
  <1>3. Ends
    BY DEF Init, Ends, DisconnectedOnce, NothingLostAtDisconnect
  <1>4. QED
    BY <1>1, <1>2, <1>3 DEF ConnsInv

-----------------------------------------------------------------------------
(* The kernel and the peers.                                               *)

(* A connection is accepted. *)
LEMMA AcceptInv ==
  ASSUME ConnsInv, NEW c \in Conns, NEW fd \in Fds, Accept(c, fd)
  PROVE  ConnsInv'
  <1> USE ConnectionsAssumption
  <1>1. ConnsTypes'
    BY DEF ConnsInv, ConnsTypes, Accept, peerVars, loopVars, appVars
  <1>2. LoopState'
    BY DEF ConnsInv, LoopState, Accept, loopVars
  <1>3. \A f \in Fds : connectionMap_[f] # None => f # fd
    BY DEF ConnsInv, Tables, Accept, ConnsTypes
  <1>4. Tables'
    BY <1>3 DEF ConnsInv, ConnsTypes, Tables, Accept
  <1>5. MailboxFresh'
    BY AppendProperties DEF ConnsInv, ConnsTypes, MailboxFresh, Accept
  <1>6. BatchTrue'
    BY DEF ConnsInv, BatchTrue, Readable, Accept, peerVars, loopVars
  <1>7. EdgesKept'
    BY DEF ConnsInv, EdgesKept, ReportedTo, Accept, peerVars, loopVars
  <1>8. Ends'
    BY DEF ConnsInv, ConnsTypes, Ends, DisconnectedOnce, NothingLostAtDisconnect, Accept, peerVars,
           appVars
  <1>9. QED
    BY <1>1, <1>2, <1>4, <1>5, <1>6, <1>7, <1>8 DEF ConnsInv

(* The peer sends, finishes or resets. *)
LEMMA PeerInv ==
  ASSUME ConnsInv, NEW c \in Conns, Peer(c)
  PROVE  ConnsInv'
  <1> USE ConnectionsAssumption
  <1>1. ConnsTypes'
    <2>1. CASE PeerSends(c)
      BY <2>1 DEF ConnsInv, ConnsTypes, PeerSends, Edge, tableVars, loopVars, appVars
    <2>2. CASE PeerFinishes(c)
      BY <2>2 DEF ConnsInv, ConnsTypes, PeerFinishes, Edge, tableVars, loopVars, appVars
    <2>3. CASE PeerResets(c)
      BY <2>3 DEF ConnsInv, ConnsTypes, PeerResets, Edge, tableVars, loopVars, appVars
    <2>4. QED
      BY <2>1, <2>2, <2>3 DEF Peer
  <1>2. LoopState' /\ Tables' /\ MailboxFresh'
    BY DEF ConnsInv, LoopState, Tables, MailboxFresh, Peer, PeerSends, PeerFinishes, PeerResets,
           tableVars, loopVars
  <1>3. /\ UNCHANGED <<owner, connectionMap_, registered, events, hups, rpc, cur, totalRead>>
        /\ fin \subseteq fin' /\ rst \subseteq rst' /\ ready \subseteq ready'
        /\ \A d \in Conns \ {c} : unread'[d] = unread[d]
        /\ \A d \in Conns \ {c} : d \in rst' => d \in rst
        /\ c \in registered => c \in ready'
        /\ unread'[c] >= unread[c]
        /\ c \in rst => unread'[c] = unread[c]
    <2>1. CASE PeerSends(c)
      BY <2>1 DEF ConnsInv, ConnsTypes, PeerSends, Edge, tableVars, loopVars
    <2>2. CASE PeerFinishes(c)
      BY <2>2 DEF ConnsInv, ConnsTypes, PeerFinishes, Edge, tableVars, loopVars
    <2>3. CASE PeerResets(c)
      BY <2>3 DEF ConnsInv, ConnsTypes, PeerResets, Edge, tableVars, loopVars
    <2>4. QED
      BY <2>1, <2>2, <2>3 DEF Peer
  <1>4. \A d \in Conns : Readable(d) => Readable(d)'
    <2>1. \A d \in Conns : unread[d] \in Nat /\ unread'[d] \in Nat
      BY <1>1 DEF ConnsInv, ConnsTypes
    <2>2. \A d \in Conns : unread'[d] >= unread[d]
      BY <1>3, <2>1
    <2>3. QED
      BY <1>3, <2>1, <2>2 DEF Readable
  <1>5. BatchTrue'
    <2>1. \A f \in Fds : connectionMap_[f] # None => connectionMap_[f] \in Conns
      BY DEF ConnsInv, ConnsTypes
    <2>2. rpc = "hup" /\ cur \in hups => connectionMap_[cur] \in rst
      BY DEF ConnsInv, BatchTrue
    <2>3. \A d \in rst : unread'[d] = unread[d]
      BY <1>3 DEF ConnsInv, ConnsTypes
    <2>4. /\ \A f \in events \cap Fds : Readable(connectionMap_[f])'
          /\ rpc = "reading" /\ totalRead = 0 => Readable(connectionMap_[cur])'
      BY <1>3, <1>4, <2>1 DEF ConnsInv, BatchTrue, LoopState, ConnsTypes
    <2>5. QED
      BY <1>3, <2>2, <2>3, <2>4 DEF ConnsInv, BatchTrue
  <1>6. EdgesKept'
    <2> SUFFICES ASSUME NEW d \in registered'
                 PROVE  /\ unread'[d] > 0 => d \in ready' \/ ReportedTo(d)'
                                             \/ (rpc' = "reading" /\ connectionMap_'[cur'] = d)
                        /\ d \in rst' => d \in ready' \/ \E f \in hups' :
                             (f \in events' \/ f = cur') /\ connectionMap_'[f] = d
      BY DEF EdgesKept
    <2>1. CASE d = c
      BY <1>3, <2>1
    <2>2. CASE d # c
      BY <1>3, <2>2 DEF ConnsInv, ConnsTypes, EdgesKept, ReportedTo
    <2>3. QED
      BY <2>1, <2>2
  <1>7. Ends'
    <2>1. /\ UNCHANGED <<owner, delivered, disconnects, nullDisconnects, closedByApp, accepted>>
          /\ Open(c)
          /\ fin \subseteq fin' /\ rst \subseteq rst'
      BY DEF Peer, PeerSends, PeerFinishes, PeerResets, tableVars, appVars
    <2>2. \A d \in Conns : delivered[d] + unread'[d] = sent'[d]
      <3>1. CASE PeerSends(c)
        BY <3>1 DEF ConnsInv, ConnsTypes, Ends, PeerSends
      <3>2. CASE UNCHANGED <<sent, unread>>
        BY <3>2 DEF ConnsInv, Ends
      <3>3. QED
        BY <3>1, <3>2 DEF Peer, PeerFinishes, PeerResets
    <2>3. \A d \in Conns \ {c} : sent'[d] = sent[d]
      BY DEF Peer, PeerSends, PeerFinishes, PeerResets, ConnsInv, ConnsTypes
    <2>4. ~(disconnects[c] > 0)
      BY <2>1 DEF ConnsInv, Ends, Open
    <2>5. NothingLostAtDisconnect'
      BY <2>1, <2>3, <2>4 DEF ConnsInv, Ends, NothingLostAtDisconnect
    <2>6. DisconnectedOnce'
      BY <2>1 DEF ConnsInv, Ends, DisconnectedOnce
    <2>7. QED
      BY <2>1, <2>2, <2>5, <2>6 DEF ConnsInv, Ends
  <1>8. QED
    BY <1>1, <1>2, <1>5, <1>6, <1>7 DEF ConnsInv

(* The timerfd goes off. *)
LEMMA TimerGoesOffInv ==
  ASSUME ConnsInv, TimerGoesOff
  PROVE  ConnsInv'
  <1>1. ConnsTypes'
    BY DEF ConnsInv, ConnsTypes, TimerGoesOff, peerVars, tableVars, loopVars, appVars
  <1>2. LoopState' /\ Tables' /\ MailboxFresh'
    BY DEF ConnsInv, LoopState, Tables, MailboxFresh, TimerGoesOff, tableVars, loopVars
  <1>3. BatchTrue' /\ EdgesKept'
    BY DEF ConnsInv, BatchTrue, EdgesKept, ReportedTo, Readable, TimerGoesOff, peerVars, tableVars,
           loopVars
  <1>4. Ends'
    BY DEF ConnsInv, Ends, DisconnectedOnce, NothingLostAtDisconnect, TimerGoesOff, peerVars,
           tableVars, appVars
  <1>5. QED
    BY <1>1, <1>2, <1>3, <1>4 DEF ConnsInv

-----------------------------------------------------------------------------
(* The loop.                                                               *)

(* The descriptor of a registered connection is the one in connectionMap_. *)
LEMMA FdOfMapped ==
  ASSUME ConnsInv, NEW c \in registered
  PROVE  FdOf(c) \in Fds /\ connectionMap_[FdOf(c)] = c /\ owner[FdOf(c)] = c
  <1>1. c \in Conns /\ c # None
    BY ConnectionsAssumption DEF ConnsInv, ConnsTypes
  <1>2. PICK f \in Fds : connectionMap_[f] = c
    BY DEF ConnsInv, Tables
  <1>3. owner[f] = c
    BY <1>1, <1>2 DEF ConnsInv, Tables
  <1>4. FdOf(c) \in Fds /\ owner[FdOf(c)] = c
    BY <1>3 DEF FdOf
  <1>5. FdOf(c) = f
    BY <1>1, <1>3, <1>4 DEF ConnsInv, Tables
  <1>6. QED
    BY <1>2, <1>4, <1>5

(* epoll_wait takes entries of the ready list: what it drops has nothing to  *)
(* report, the rest is in the batch.                                       *)
LEMMA doEpollInv ==
  ASSUME ConnsInv, NEW S \in SUBSET ready, doEpoll(S)
  PROVE  ConnsInv'
  <1> USE ConnectionsAssumption
  <1> DEFINE readable == {c \in S \cap Conns : Readable(c)}
  <1>1. /\ rpc = "wait" /\ events = {} /\ cur = None
        /\ events' = (S \ Conns) \cup {FdOf(c) : c \in readable}
        /\ hups' = {FdOf(c) : c \in readable \cap rst}
        /\ ready' = ready \ S
        /\ rpc' = IF events' = {} THEN "wait" ELSE "dispatch"
        /\ UNCHANGED <<peerVars, unread, registered, tableVars, cur, totalRead, appVars>>
    BY DEF doEpoll, ConnsInv, LoopState
  <1>2. readable \subseteq registered /\ readable \subseteq Conns
    BY DEF ConnsInv, ConnsTypes
  <1>3. \A c \in readable : FdOf(c) \in Fds /\ connectionMap_[FdOf(c)] = c
    BY <1>2, FdOfMapped
  <1>4. \A f \in events' \cap Fds : \E c \in readable : f = FdOf(c) /\ connectionMap_[f] = c
    BY <1>1, <1>3 DEF ConnsInv, ConnsTypes
  <1> HIDE DEF readable
  <1>5. ConnsTypes'
    <2>1. events' \subseteq Fds \cup {"pipe", "timer"} /\ hups' \subseteq Fds
      BY <1>1, <1>3 DEF ConnsInv, ConnsTypes
    <2>2. QED
      BY <1>1, <2>1 DEF ConnsInv, ConnsTypes, peerVars, tableVars, appVars
  <1>6. LoopState'
    BY <1>1 DEF LoopState
  <1>7. Tables' /\ MailboxFresh'
    BY <1>1 DEF ConnsInv, Tables, MailboxFresh, tableVars
  <1>8. BatchTrue'
    <2>1. \A c \in readable : Readable(c)
      BY DEF readable
    <2>2. \A f \in events' \cap Fds : connectionMap_[f] # None /\ Readable(connectionMap_[f])
      BY <1>2, <1>4, <2>1
    <2>3. \A f \in hups' : connectionMap_[f] # None /\ connectionMap_[f] \in rst
      BY <1>1, <1>2, <1>3
    <2>4. UNCHANGED <<unread, fin, rst, connectionMap_, cur>> /\ rpc' \in {"wait", "dispatch"}
      BY <1>1 DEF peerVars, tableVars
    <2>5. QED
      BY <2>2, <2>3, <2>4 DEF BatchTrue, Readable
  <1>9. EdgesKept'
    <2> SUFFICES ASSUME NEW c \in registered
                 PROVE  /\ unread[c] > 0 =>
                             c \in ready' \/ \E f \in events' \cap Fds : connectionMap_[f] = c
                        /\ c \in rst =>
                             c \in ready' \/ \E f \in hups' : f \in events' /\ connectionMap_[f] = c
      BY <1>1 DEF EdgesKept, ReportedTo, peerVars, tableVars
    <2>1. CASE c \in S
      <3>1. (unread[c] > 0 \/ c \in rst) => c \in readable
        BY <2>1 DEF readable, Readable, ConnsInv, ConnsTypes
      <3>2. QED
        BY <1>1, <1>3, <3>1
    <2>2. CASE c \notin S
      <3>1. c \in registered /\ ~ReportedTo(c) /\ ~(\E f \in hups : f \in events \/ f = cur)
        BY <1>1 DEF ReportedTo, ConnsInv, ConnsTypes
      <3>2. QED
        BY <1>1, <2>2, <3>1 DEF ConnsInv, EdgesKept
    <2>3. QED
      BY <2>1, <2>2
  <1>10. Ends'
    BY <1>1 DEF ConnsInv, Ends, DisconnectedOnce, NothingLostAtDisconnect, peerVars, tableVars,
                appVars
  <1>11. QED
    BY <1>5, <1>6, <1>7, <1>8, <1>9, <1>10 DEF ConnsInv

(* The steps between handlers. *)
LEMMA NextEventInv ==
  ASSUME ConnsInv, BatchDone \/ handleEventPipe \/ handleEventTimer \/ handlePipeReturn
                   \/ handleTimerReturn
  PROVE  ConnsInv'
  <1> USE ConnectionsAssumption
  <1>1. /\ UNCHANGED <<peerVars, unread, epollVars, tableVars, hups, cur, totalRead, appVars>>
        /\ events' \subseteq events /\ events' \cap Fds = events \cap Fds
        /\ rpc' \in {"wait", "dispatch", "pipe", "timer"} /\ cur = None
        /\ rpc' = "wait" => events' = {}
    BY DEF BatchDone, handleEventPipe, handleEventTimer, handlePipeReturn, handleTimerReturn,
           NextEvent, ConnsInv, LoopState
  <1>2. ConnsTypes'
    BY <1>1 DEF ConnsInv, ConnsTypes, peerVars, epollVars, tableVars, appVars
  <1>3. LoopState'
    BY <1>1 DEF ConnsInv, LoopState
  <1>4. Tables' /\ MailboxFresh'
    BY <1>1 DEF ConnsInv, Tables, MailboxFresh, epollVars, tableVars
  <1>5. \A f \in Fds : f \in events' <=> f \in events
    BY <1>1
  <1>6. BatchTrue'
    BY <1>1, <1>5 DEF ConnsInv, ConnsTypes, BatchTrue, Readable, peerVars, tableVars
  <1>7. rpc # "reading"
    BY <1>1 DEF ConnsInv, LoopState
  <1>8. EdgesKept'
    BY <1>1, <1>5, <1>7 DEF ConnsInv, ConnsTypes, EdgesKept, ReportedTo, peerVars, epollVars, tableVars
  <1>9. Ends'
    BY <1>1 DEF ConnsInv, Ends, DisconnectedOnce, NothingLostAtDisconnect, peerVars, tableVars,
                appVars
  <1>10. QED
    BY <1>2, <1>3, <1>4, <1>6, <1>8, <1>9 DEF ConnsInv

(* An event of a socket: its descriptor is known. *)
LEMMA handleEventSocketInv ==
  ASSUME ConnsInv, NEW fd \in events \cap Fds, handleEventSocket(fd)
  PROVE  ConnsInv'
  <1> USE ConnectionsAssumption
  <1>1. /\ events' = events \ {fd} /\ cur' = fd /\ totalRead' = 0 /\ rpc' = "reading"
        /\ cur = None /\ rpc = "dispatch"
        /\ UNCHANGED <<hups, peerVars, unread, epollVars, tableVars, appVars>>
    BY DEF handleEventSocket, ConnsInv, BatchTrue, LoopState
  <1>2. ConnsTypes'
    BY <1>1 DEF ConnsInv, ConnsTypes, peerVars, epollVars, tableVars, appVars
  <1>3. LoopState'
    BY <1>1 DEF LoopState
  <1>4. Tables' /\ MailboxFresh'
    BY <1>1 DEF ConnsInv, Tables, MailboxFresh, epollVars, tableVars
  <1>5. BatchTrue'
    BY <1>1 DEF ConnsInv, ConnsTypes, BatchTrue, Readable, peerVars, tableVars
  <1>6. EdgesKept'
    BY <1>1 DEF ConnsInv, ConnsTypes, EdgesKept, ReportedTo, peerVars, epollVars, tableVars
  <1>7. Ends'
    BY <1>1 DEF ConnsInv, Ends, DisconnectedOnce, NothingLostAtDisconnect, peerVars, tableVars,
                appVars
  <1>8. QED
    BY <1>2, <1>3, <1>4, <1>5, <1>6, <1>7 DEF ConnsInv

(* A connection from the mailbox is registered and put into the map. *)
LEMMA CreateConnectionInv ==
  ASSUME ConnsInv, CreateConnection
  PROVE  ConnsInv'
  <1> USE ConnectionsAssumption
  <1>1. PICK n \in Nat : n = Len(newConnections_) /\ n > 0
    BY DEF CreateConnection, ConnsInv, ConnsTypes
  <1>2. PICK fd, c : fd = newConnections_[n] /\ c = owner[fd]
    OBVIOUS
  <1>3. fd \in Fds /\ c \in Conns /\ c \notin accepted /\ owner[fd] = c
    BY <1>1, <1>2 DEF ConnsInv, ConnsTypes, MailboxFresh
  <1>4. /\ rpc = "pipe" /\ newConnections_' = SubSeq(newConnections_, 1, n - 1)
        /\ registered' = registered \cup {c}
        /\ ready' = IF Readable(c) THEN ready \cup {c} ELSE ready
        /\ connectionMap_' = [connectionMap_ EXCEPT ![fd] = c]
        /\ accepted' = accepted \cup {c}
        /\ UNCHANGED <<peerVars, unread, owner, loopVars, appVars>>
    BY <1>1, <1>2 DEF CreateConnection, Last, Front
  <1>5. \A f \in Fds : connectionMap_[f] # None => f # fd
    BY <1>3 DEF ConnsInv, Tables
  <1>6. \A f \in Fds : f # fd => owner[f] # c
    BY <1>3 DEF ConnsInv, Tables
  <1>7. \A f \in hups : f \in events \/ f = cur => f # fd
    BY <1>5 DEF ConnsInv, ConnsTypes, BatchTrue
  <1>8. ConnsTypes'
    <2>1. newConnections_' \in Seq(Fds)
      BY <1>1, <1>4 DEF ConnsInv, ConnsTypes
    <2>2. QED
      BY <1>3, <1>4, <2>1 DEF ConnsInv, ConnsTypes, peerVars, loopVars, appVars
  <1>9. LoopState'
    BY <1>4 DEF ConnsInv, LoopState, loopVars
  <1>10. Tables'
    BY <1>3, <1>4, <1>5, <1>6 DEF ConnsInv, ConnsTypes, Tables
  <1>11. MailboxFresh'
    <2>1. Len(newConnections_') = n - 1 /\ \A i \in 1..(n - 1) : newConnections_'[i] = newConnections_[i]
      BY <1>1, <1>4 DEF ConnsInv, ConnsTypes
    <2>2. \A i \in 1..(n - 1) : newConnections_[i] # fd /\ newConnections_[i] \in Fds
      BY <1>1, <1>2 DEF ConnsInv, ConnsTypes, MailboxFresh
    <2>3. QED
      BY <1>1, <1>4, <1>6, <2>1, <2>2 DEF ConnsInv, MailboxFresh
  <1>12. BatchTrue'
    BY <1>3, <1>4, <1>5, <1>7 DEF ConnsInv, ConnsTypes, LoopState, BatchTrue, Readable, peerVars, loopVars
  <1>13. EdgesKept'
    <2> SUFFICES ASSUME NEW d \in registered'
                 PROVE  /\ unread[d] > 0 => d \in ready'
                             \/ \E f \in events \cap Fds : connectionMap_'[f] = d
                        /\ d \in rst => d \in ready' \/ \E f \in hups :
                             (f \in events \/ f = cur) /\ connectionMap_'[f] = d
      BY <1>4 DEF EdgesKept, ReportedTo, peerVars, loopVars
    <2>1. CASE d = c
      BY <1>4, <2>1 DEF Readable
    <2>2. CASE d # c
      <3>1. d \in registered /\ d \in Conns /\ rpc # "reading"
        BY <1>4, <2>2 DEF ConnsInv, ConnsTypes
      <3>2. \A f \in Fds : connectionMap_[f] = d => connectionMap_'[f] = d
        BY <1>3, <1>4, <1>5, <3>1 DEF ConnsInv, ConnsTypes
      <3>3. QED
        BY <1>4, <3>1, <3>2 DEF ConnsInv, ConnsTypes, EdgesKept, ReportedTo
    <2>3. QED
      BY <2>1, <2>2
  <1>14. Ends'
    BY <1>4 DEF ConnsInv, Ends, DisconnectedOnce, NothingLostAtDisconnect, peerVars, appVars
  <1>15. QED
    BY <1>8, <1>9, <1>10, <1>11, <1>12, <1>13, <1>14 DEF ConnsInv

(* A read that returns data. *)
LEMMA handleReadChunkInv ==
  ASSUME ConnsInv, handleReadChunk
  PROVE  ConnsInv'
  <1> USE ConnectionsAssumption
  <1>1. cur \in Fds /\ rpc = "reading" /\ connectionMap_[cur] # None
    BY DEF handleReadChunk, ConnsInv, ConnsTypes, LoopState, BatchTrue
  <1>2. PICK c \in Conns : c = connectionMap_[cur]
    BY <1>1 DEF ConnsInv, ConnsTypes
  <1>3. /\ unread[c] > 0
        /\ unread' = [unread EXCEPT ![c] = @ - 1]
        /\ delivered' = [delivered EXCEPT ![c] = @ + 1]
        /\ totalRead' = totalRead + 1
        /\ UNCHANGED <<peerVars, epollVars, tableVars, events, hups, rpc, cur, disconnects,
                       nullDisconnects, closedByApp>>
    BY <1>2 DEF handleReadChunk
  <1>4. owner[cur] = c /\ cur \notin events
    BY <1>1, <1>2 DEF ConnsInv, Tables, LoopState
  <1>5. \A f \in events \cap Fds : connectionMap_[f] # c
    BY <1>1, <1>2, <1>4 DEF ConnsInv, Tables
  <1>6. ConnsTypes'
    <2>1. unread \in [Conns -> Nat] /\ delivered \in [Conns -> Nat] /\ totalRead \in Nat
      BY DEF ConnsInv, ConnsTypes
    <2>2. unread[c] - 1 \in Nat
      BY <1>2, <1>3, <2>1
    <2>3. unread' \in [Conns -> Nat] /\ delivered' \in [Conns -> Nat] /\ totalRead' \in Nat
      BY <1>2, <1>3, <2>1, <2>2
    <2>4. QED
      BY <1>3, <2>3 DEF ConnsInv, ConnsTypes, peerVars, epollVars, tableVars
  <1>7. LoopState' /\ Tables' /\ MailboxFresh'
    BY <1>3 DEF ConnsInv, LoopState, Tables, MailboxFresh, epollVars, tableVars
  <1>8. BatchTrue'
    BY <1>1, <1>2, <1>3, <1>5 DEF ConnsInv, ConnsTypes, BatchTrue, Readable, peerVars, tableVars
  <1>9. EdgesKept'
    BY <1>1, <1>2, <1>3 DEF ConnsInv, ConnsTypes, EdgesKept, ReportedTo, peerVars, epollVars,
                            tableVars
  <1>10. Ends'
    <2>1. \A d \in Conns : delivered'[d] + unread'[d] = sent[d]
      BY <1>2, <1>3 DEF ConnsInv, ConnsTypes, Ends
    <2>2. ~(disconnects[c] > 0)
      BY <1>1, <1>2, <1>4 DEF ConnsInv, Ends
    <2>3. \A d \in Conns : d # c => delivered'[d] = delivered[d]
      BY <1>2, <1>3 DEF ConnsInv, ConnsTypes
    <2>4. QED
      BY <1>3, <2>1, <2>2, <2>3
         DEF ConnsInv, Ends, DisconnectedOnce, NothingLostAtDisconnect, peerVars, tableVars
  <1>11. QED
    BY <1>6, <1>7, <1>8, <1>9, <1>10 DEF ConnsInv

-----------------------------------------------------------------------------
(* The removal of a connection.                                            *)

(* removeConnection(fd) of a mapped descriptor keeps the tables in step. *)
LEMMA RemoveTables ==
  ASSUME ConnsInv, NEW fd \in Fds, NEW c \in Conns, connectionMap_[fd] = c, removeConnection(fd)
  PROVE  /\ owner[fd] = c /\ c \in registered /\ c \in accepted
         /\ owner' \in [Fds -> Conns \cup {None}]
         /\ connectionMap_' \in [Fds -> Conns \cup {None}]
         /\ \A f \in Fds \ {fd} : /\ connectionMap_'[f] = connectionMap_[f]
                                  /\ owner'[f] = owner[f]
                                  /\ owner[f] # c /\ connectionMap_[f] # c
         /\ owner'[fd] = None /\ connectionMap_'[fd] = None
         /\ registered' = registered \ {c} /\ ready' = ready \ {c}
         /\ UNCHANGED <<newConnections_, accepted>>
         /\ Tables' /\ MailboxFresh'
  <1> USE ConnectionsAssumption
  <1>1. owner[fd] = c /\ c \in registered /\ c \in accepted /\ c # None
    BY DEF ConnsInv, Tables
  <1>2. /\ registered' = registered \ {c} /\ ready' = ready \ {c}
        /\ connectionMap_' = [connectionMap_ EXCEPT ![fd] = None]
        /\ owner' = [owner EXCEPT ![fd] = None]
        /\ UNCHANGED <<newConnections_, accepted>>
    BY <1>1 DEF removeConnection
  <1>3. \A f \in Fds \ {fd} : owner[f] # c /\ connectionMap_[f] # c
    BY <1>1 DEF ConnsInv, Tables
  <1>4. /\ owner' \in [Fds -> Conns \cup {None}]
        /\ connectionMap_' \in [Fds -> Conns \cup {None}]
        /\ owner'[fd] = None /\ connectionMap_'[fd] = None
        /\ \A f \in Fds \ {fd} : /\ connectionMap_'[f] = connectionMap_[f]
                                 /\ owner'[f] = owner[f]
    BY <1>2 DEF ConnsInv, ConnsTypes
  <1>5. Tables'
    <2>1. \A f, g \in Fds : owner'[f] = owner'[g] /\ owner'[f] # None => f = g
      BY <1>4 DEF ConnsInv, Tables
    <2>2. \A f \in Fds : connectionMap_'[f] # None =>
            /\ owner'[f] = connectionMap_'[f]
            /\ owner'[f] \in registered' /\ owner'[f] \in accepted'
      BY <1>2, <1>3, <1>4 DEF ConnsInv, Tables
    <2>3. \A d \in registered' : \E f \in Fds : connectionMap_'[f] = d
      <3> SUFFICES ASSUME NEW d \in registered, d # c
                   PROVE  \E f \in Fds : connectionMap_'[f] = d
        BY <1>2
      <3>1. PICK f \in Fds : connectionMap_[f] = d
        BY DEF ConnsInv, Tables
      <3>2. QED
        BY <1>4, <3>1
    <2>4. QED
      BY <2>1, <2>2, <2>3 DEF Tables
  <1>6. MailboxFresh'
    <2>1. \A i \in 1..Len(newConnections_) : newConnections_[i] \in Fds \ {fd}
      BY <1>1 DEF ConnsInv, ConnsTypes, MailboxFresh
    <2>2. QED
      BY <1>2, <1>4, <2>1 DEF ConnsInv, MailboxFresh
  <1>7. QED
    BY <1>1, <1>2, <1>3, <1>4, <1>5, <1>6

(* onDisconnected for a connection that is removed with it. *)
LEMMA DisconnectEnds ==
  ASSUME ConnsInv, NEW fd \in Fds, NEW c \in Conns, connectionMap_[fd] = c, removeConnection(fd),
         onDisconnected(c), unread[c] = 0, c \in fin \cup rst, UNCHANGED <<peerVars, unread>>
  PROVE  /\ Ends' /\ disconnects' \in [Conns -> Nat]
         /\ UNCHANGED <<delivered, closedByApp>>
  <1> USE ConnectionsAssumption
  <1>1. /\ owner[fd] = c /\ c \in accepted /\ accepted' = accepted
        /\ \A f \in Fds : owner'[f] # c
        /\ \A f \in Fds : owner'[f] = owner[f] \/ owner'[f] = None
    <2>1. /\ owner[fd] = c /\ c \in accepted /\ accepted' = accepted /\ owner'[fd] = None
          /\ \A f \in Fds \ {fd} : owner'[f] = owner[f] /\ owner[f] # c
      BY RemoveTables
    <2>2. QED
      BY <2>1
  <1>2. /\ disconnects' = [disconnects EXCEPT ![c] = @ + 1]
        /\ nullDisconnects' = nullDisconnects /\ UNCHANGED <<delivered, closedByApp>>
    BY DEF onDisconnected, ConnsInv, Ends, DisconnectedOnce
  <1>3. disconnects \in [Conns -> Nat] /\ disconnects[c] = 0 /\ c \notin closedByApp
    <2>1. disconnects \in [Conns -> Nat]
      BY DEF ConnsInv, ConnsTypes
    <2>2. ~(disconnects[c] > 0) /\ c \notin closedByApp
      BY <1>1 DEF ConnsInv, Ends
    <2>3. QED
      BY <2>1, <2>2
  <1>4. disconnects' \in [Conns -> Nat]
    BY <1>2, <1>3
  <1>5. disconnects'[c] = 1 /\ \A d \in Conns \ {c} : disconnects'[d] = disconnects[d]
    BY <1>2, <1>3
  <1>6. delivered[c] = sent[c]
    BY DEF ConnsInv, ConnsTypes, Ends
  <1>7. \A d \in Conns : d \in closedByApp' \/ disconnects'[d] > 0 =>
          d \in accepted' /\ \A f \in Fds : owner'[f] # d
    BY <1>1, <1>2, <1>5 DEF ConnsInv, Ends
  <1>8. NothingLostAtDisconnect'
    BY <1>2, <1>5, <1>6 DEF NothingLostAtDisconnect, ConnsInv, Ends, peerVars
  <1>9. DisconnectedOnce'
    BY <1>2, <1>3, <1>5 DEF DisconnectedOnce, ConnsInv, Ends, peerVars
  <1>10. QED
    BY <1>2, <1>4, <1>7, <1>8, <1>9 DEF Ends, ConnsInv, peerVars

(* The batch and the edges of the other connections, when the descriptor in  *)
(* hand is removed and no longer counts as hung up.                        *)
LEMMA RemoveBatch ==
  ASSUME ConnsInv, NEW fd \in Fds, NEW c \in Conns, connectionMap_[fd] = c, removeConnection(fd),
         fd \notin events, UNCHANGED <<peerVars, unread, events>>,
         rpc = "reading" => fd = cur, rpc' \in {"hup", "dispatch", "timer"},
         cur' = cur \/ cur' = None, hups' \subseteq hups,
         cur' # None => cur' = fd /\ fd \notin hups',
         \A f \in hups \ hups' : f = fd, cur # None => cur = fd
  PROVE  BatchTrue' /\ EdgesKept'
  <1> USE ConnectionsAssumption
  <1>1. /\ \A f \in Fds \ {fd} : connectionMap_'[f] = connectionMap_[f] /\ connectionMap_[f] # c
        /\ registered' = registered \ {c} /\ ready' = ready \ {c}
    BY RemoveTables
  <1>2. hups \subseteq Fds /\ events \cap Fds \subseteq Fds \ {fd} /\ registered \subseteq Conns
    BY DEF ConnsInv, ConnsTypes
  <1>3. UNCHANGED <<sent, fin, rst, unread, events>>
    BY DEF peerVars
  <1>4. BatchTrue'
    <2>1. \A f \in events' \cap Fds : connectionMap_'[f] # None /\ Readable(connectionMap_[f])
      BY <1>1, <1>2, <1>3 DEF ConnsInv, BatchTrue
    <2>2. \A f \in hups' : f \in events' \/ f = cur' =>
            connectionMap_'[f] # None /\ connectionMap_'[f] \in rst'
      BY <1>1, <1>2, <1>3 DEF ConnsInv, BatchTrue
    <2>3. \A f \in events' \cap Fds : Readable(connectionMap_[f])'
      BY <1>1, <1>2, <1>3, <2>1 DEF Readable
    <2>4. rpc' # "reading" /\ ~(rpc' = "hup" /\ cur' \in hups')
      BY <1>2
    <2>5. QED
      BY <2>1, <2>2, <2>3, <2>4 DEF BatchTrue
  <1>5. EdgesKept'
    <2> SUFFICES ASSUME NEW d \in registered, d # c
                 PROVE  /\ unread[d] > 0 => d \in ready
                             \/ \E f \in events \cap Fds : connectionMap_'[f] = d
                        /\ d \in rst => d \in ready \/ \E f \in hups' :
                             (f \in events \/ f = cur') /\ connectionMap_'[f] = d
      BY <1>1, <1>3 DEF EdgesKept, ReportedTo
    <2>1. \A f \in Fds : connectionMap_[f] = d => f # fd /\ connectionMap_'[f] = d
      BY <1>1
    <2>2. unread[d] > 0 => d \in ready \/ \E f \in events \cap Fds : connectionMap_[f] = d
      BY <2>1 DEF ConnsInv, EdgesKept, ReportedTo
    <2>3. d \in rst => d \in ready \/ \E f \in hups : (f \in events \/ f = cur) /\ connectionMap_[f] = d
      BY DEF ConnsInv, EdgesKept
    <2>4. \A f \in hups : f = cur => f = fd
      BY <1>2
    <2>5. QED
      BY <1>2, <2>1, <2>2, <2>3, <2>4
  <1>6. QED
    BY <1>4, <1>5

(* The end of handleRead: with nothing read the connection is at its end. *)
LEMMA handleReadEndInv ==
  ASSUME ConnsInv, handleReadEnd
  PROVE  ConnsInv'
  <1> USE ConnectionsAssumption
  <1>1. cur \in Fds /\ rpc = "reading" /\ connectionMap_[cur] # None /\ cur # None /\ cur \notin events
    BY DEF handleReadEnd, ConnsInv, ConnsTypes, LoopState, BatchTrue
  <1>2. PICK c \in Conns : c = connectionMap_[cur]
    BY <1>1 DEF ConnsInv, ConnsTypes
  <1>3. /\ unread[c] = 0 /\ rpc' = "hup" /\ UNCHANGED <<peerVars, unread, events, cur, totalRead>>
    BY <1>2 DEF handleReadEnd
  <1>4. LoopState'
    BY <1>1, <1>3 DEF ConnsInv, LoopState
  <1>5. CASE totalRead = 0 /\ onDisconnected(c) /\ removeConnection(cur) /\ hups' = hups \ {cur}
    <2>1. c \in fin \cup rst
      BY <1>1, <1>2, <1>3, <1>5 DEF ConnsInv, ConnsTypes, BatchTrue, Readable
    <2>2. Ends' /\ disconnects' \in [Conns -> Nat] /\ UNCHANGED <<delivered, closedByApp>>
      BY <1>1, <1>2, <1>3, <1>5, <2>1, DisconnectEnds
    <2>3. BatchTrue' /\ EdgesKept'
      BY <1>1, <1>2, <1>3, <1>5, RemoveBatch
    <2>4. /\ Tables' /\ MailboxFresh'
          /\ owner' \in [Fds -> Conns \cup {None}] /\ connectionMap_' \in [Fds -> Conns \cup {None}]
          /\ registered' = registered \ {c} /\ ready' = ready \ {c}
          /\ UNCHANGED <<newConnections_, accepted>>
      BY <1>1, <1>2, <1>5, RemoveTables
    <2>5. ConnsTypes'
      BY <1>3, <1>5, <2>2, <2>4 DEF ConnsInv, ConnsTypes, peerVars
    <2>6. QED
      BY <1>4, <2>2, <2>3, <2>4, <2>5 DEF ConnsInv
  <1>6. CASE totalRead > 0 /\ UNCHANGED <<epollVars, tableVars, hups, appVars>>
    <2>1. ConnsTypes'
      BY <1>3, <1>6 DEF ConnsInv, ConnsTypes, peerVars, epollVars, tableVars, appVars
    <2>2. Tables' /\ MailboxFresh'
      BY <1>6 DEF ConnsInv, Tables, MailboxFresh, epollVars, tableVars
    <2>3. BatchTrue'
      BY <1>1, <1>2, <1>3, <1>6 DEF ConnsInv, BatchTrue, Readable, peerVars, tableVars
    <2>4. EdgesKept'
      BY <1>2, <1>3, <1>6 DEF ConnsInv, EdgesKept, ReportedTo, peerVars, epollVars, tableVars
    <2>5. Ends'
      BY <1>3, <1>6 DEF ConnsInv, Ends, DisconnectedOnce, NothingLostAtDisconnect, peerVars,
                        tableVars, appVars
    <2>6. QED
      BY <1>4, <2>1, <2>2, <2>3, <2>4, <2>5 DEF ConnsInv
  <1>7. QED
    BY <1>2, <1>5, <1>6 DEF handleReadEnd

(* The EPOLLHUP branch: a connection that is removed here was reset and has  *)
(* been read to the end.                                                   *)
LEMMA handleEventHupInv ==
  ASSUME ConnsInv, handleEventHup
  PROVE  ConnsInv'
  <1> USE ConnectionsAssumption
  <1>1. cur \in Fds /\ rpc = "hup" /\ cur # None /\ cur \notin events
    BY DEF handleEventHup, ConnsInv, ConnsTypes, LoopState
  <1>2. /\ rpc' = "dispatch" /\ cur' = None /\ totalRead' = 0
        /\ UNCHANGED <<peerVars, unread, events, hups>>
    BY DEF handleEventHup
  <1>3. LoopState'
    BY <1>1, <1>2 DEF LoopState
  <1>4. CASE cur \in hups /\ onDisconnected(connectionMap_[cur]) /\ removeConnection(cur)
    <2>1. PICK c \in Conns : c = connectionMap_[cur] /\ c \in rst /\ unread[c] = 0
      BY <1>1, <1>4 DEF ConnsInv, ConnsTypes, BatchTrue
    <2>2. Ends' /\ disconnects' \in [Conns -> Nat] /\ UNCHANGED <<delivered, closedByApp>>
      BY <1>1, <1>2, <1>4, <2>1, DisconnectEnds
    <2>3. BatchTrue' /\ EdgesKept'
      BY <1>1, <1>2, <1>4, <2>1, RemoveBatch
    <2>4. /\ Tables' /\ MailboxFresh'
          /\ owner' \in [Fds -> Conns \cup {None}] /\ connectionMap_' \in [Fds -> Conns \cup {None}]
          /\ registered' = registered \ {c} /\ ready' = ready \ {c}
          /\ UNCHANGED <<newConnections_, accepted>>
      BY <1>1, <1>4, <2>1, RemoveTables
    <2>5. ConnsTypes'
      BY <1>2, <2>2, <2>4 DEF ConnsInv, ConnsTypes, peerVars
    <2>6. QED
      BY <1>3, <2>2, <2>3, <2>4, <2>5 DEF ConnsInv
  <1>5. CASE cur \notin hups /\ UNCHANGED <<epollVars, tableVars, appVars>>
    <2>1. ConnsTypes'
      BY <1>2, <1>5 DEF ConnsInv, ConnsTypes, peerVars, epollVars, tableVars, appVars
    <2>2. Tables' /\ MailboxFresh'
      BY <1>5 DEF ConnsInv, Tables, MailboxFresh, epollVars, tableVars
    <2>3. BatchTrue'
      BY <1>1, <1>2, <1>5 DEF ConnsInv, ConnsTypes, BatchTrue, Readable, peerVars, tableVars
    <2>4. EdgesKept'
      BY <1>1, <1>2, <1>5 DEF ConnsInv, EdgesKept, ReportedTo, peerVars, epollVars, tableVars
    <2>5. Ends'
      BY <1>2, <1>5 DEF ConnsInv, Ends, DisconnectedOnce, NothingLostAtDisconnect, peerVars,
                        tableVars, appVars
    <2>6. QED
      BY <1>3, <2>1, <2>2, <2>3, <2>4, <2>5 DEF ConnsInv
  <1>6. QED
    BY <1>4, <1>5 DEF handleEventHup

(* close(true) from a timer callback, with no event left in the batch. *)
LEMMA Connection_closeInv ==
  ASSUME ~CloseMidBatch, ConnsInv, NEW c \in Conns, Connection_close(c)
  PROVE  ConnsInv'
  <1> USE ConnectionsAssumption
  <1>1. /\ rpc = "timer" /\ events = {} /\ c \notin closedByApp /\ disconnects[c] = 0 /\ cur = None
        /\ closedByApp' = closedByApp \cup {c}
        /\ UNCHANGED <<peerVars, unread, events, hups, rpc, cur, totalRead, delivered, disconnects,
                       nullDisconnects>>
    BY DEF Connection_close, ConnsInv, LoopState, loopVars
  <1>2. PICK fd \in Fds : connectionMap_[fd] = c /\ removeConnection(fd)
    BY DEF Connection_close
  <1>3. /\ Tables' /\ MailboxFresh'
        /\ owner' \in [Fds -> Conns \cup {None}] /\ connectionMap_' \in [Fds -> Conns \cup {None}]
        /\ registered' = registered \ {c} /\ ready' = ready \ {c}
        /\ UNCHANGED <<newConnections_, accepted>>
        /\ owner[fd] = c /\ c \in accepted /\ owner'[fd] = None
        /\ \A f \in Fds \ {fd} : owner'[f] = owner[f] /\ owner[f] # c
    BY <1>2, RemoveTables
  <1>4. BatchTrue' /\ EdgesKept'
    BY <1>1, <1>2, RemoveBatch
  <1>5. ConnsTypes' /\ LoopState'
    BY <1>1, <1>3 DEF ConnsInv, ConnsTypes, LoopState, peerVars
  <1>6. Ends'
    <2>1. \A d \in Conns : d \in closedByApp' \/ disconnects'[d] > 0 =>
            d \in accepted' /\ \A f \in Fds : owner'[f] # d
      BY <1>1, <1>3 DEF ConnsInv, Ends
    <2>2. NothingLostAtDisconnect'
      BY <1>1 DEF ConnsInv, Ends, NothingLostAtDisconnect, peerVars
    <2>3. \A d \in Conns : disconnects'[d] + (IF d \in closedByApp' THEN 1 ELSE 0) <= 1
      BY <1>1 DEF ConnsInv, Ends, DisconnectedOnce
    <2>4. DisconnectedOnce'
      BY <1>1, <2>3 DEF ConnsInv, Ends, DisconnectedOnce, peerVars
    <2>5. QED
      BY <1>1, <2>1, <2>2, <2>4 DEF ConnsInv, Ends, peerVars
  <1>7. QED
    BY <1>3, <1>4, <1>5, <1>6 DEF ConnsInv

-----------------------------------------------------------------------------
(* Every step keeps the invariant. *)
LEMMA ConnsNextInv ==
  ASSUME ~CloseMidBatch
  PROVE  ConnsInv /\ [Next]_vars => ConnsInv'
  <1> SUFFICES ASSUME ConnsInv, [Next]_vars PROVE ConnsInv'
    OBVIOUS
  <1>1. CASE Next
    BY <1>1, AcceptInv, PeerInv, TimerGoesOffInv, doEpollInv, NextEventInv, handleEventSocketInv,
       CreateConnectionInv, handleReadChunkInv, handleReadEndInv, handleEventHupInv,
       Connection_closeInv
       DEF Next, Handlers
  <1>2. CASE UNCHANGED vars
    <2>1. ConnsTypes' /\ LoopState' /\ Tables' /\ MailboxFresh'
      BY <1>2 DEF vars, peerVars, epollVars, tableVars, loopVars, appVars, ConnsInv, ConnsTypes,
                  LoopState, Tables, MailboxFresh
    <2>2. BatchTrue' /\ EdgesKept' /\ Ends'
      BY <1>2 DEF vars, peerVars, epollVars, tableVars, loopVars, appVars, ConnsInv, BatchTrue,
                  EdgesKept, Ends, ReportedTo, Readable, DisconnectedOnce, NothingLostAtDisconnect
    <2>3. QED
      BY <2>1, <2>2 DEF ConnsInv
  <1>3. QED
    BY <1>1, <1>2

(* For any connections, descriptors and amounts of data, and for peers that  *)
(* send, finish and reset at any moment: no edge of epoll is lost.          *)
THEOREM ConnectionsNoLostEdge ==
  ASSUME ~CloseMidBatch
  PROVE  Spec => []NoLostEdge
  <1>1. ConnsInv => NoLostEdge
    <2> SUFFICES ASSUME ConnsInv PROVE NoLostEdge
      OBVIOUS
    <2>1. MapMatchesKernel
      BY DEF ConnsInv, Tables, MapMatchesKernel
    <2>2. rpc = "reading" => cur # None
      BY DEF ConnsInv, LoopState
    <2>3. QED
      BY <2>1, <2>2 DEF ConnsInv, EdgesKept, NoLostEdge, InHand
  <1>2. QED
    BY ConnsInitInv, ConnsNextInv, <1>1, PTL DEF Spec

(* ... the application hears of the end of a connection at most once, and of *)
(* no other than one whose peer is gone, whatever descriptors are reused.  *)
THEOREM ConnectionsDisconnectedOnce ==
  ASSUME ~CloseMidBatch
  PROVE  Spec => []DisconnectedOnce
  <1>1. ConnsInv => DisconnectedOnce
    BY DEF ConnsInv, Ends
  <1>2. QED
    BY ConnsInitInv, ConnsNextInv, <1>1, PTL DEF Spec

(* ... and by then it has been given everything the peer sent. *)
THEOREM ConnectionsNothingLost ==
  ASSUME ~CloseMidBatch
  PROVE  Spec => []NothingLostAtDisconnect
  <1>1. ConnsInv => NothingLostAtDisconnect
    BY DEF ConnsInv, Ends
  <1>2. QED
    BY ConnsInitInv, ConnsNextInv, <1>1, PTL DEF Spec

=============================================================================
