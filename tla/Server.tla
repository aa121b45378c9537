------------------------------- MODULE Server -------------------------------
(***************************************************************************)
(* The single-header server muduo/server.hpp: TcpServer and its base loop, *)
(* one EventLoop of the pool with its Epoller, Channels and task queue,    *)
(* and the Connections that loop serves, from accept to destruction.       *)
(*                                                                         *)
(* Three threads: the base loop accepts and owns conns_, the loop runs     *)
(* events and then tasks, the application calls Send and Shutdown on       *)
(* ConnectionPtrs it holds.  A task is bound to the RAW pointer of its     *)
(* connection; only conns_, the application's pointers, NewConnection's    *)
(* local variable and the tasks of the base loop keep a connection alive.  *)
(*                                                                         *)
(* epoll is level-triggered.  Descriptors are reused as soon as they are   *)
(* closed.  When an inactive connection's timer fires is module            *)
(* TimerWheel's matter: here it fires at any event of the timerfd.  A unit *)
(* of data is what one Send holds, or what a peer sends at once.           *)
(***************************************************************************)
EXTENDS Integers, Sequences, FiniteSets

CONSTANTS
  Fds,              \* descriptors for connections
  Eventfd, Timerfd, \* the loop's own
  None,
  Causes,           \* Causes[c]: what may end connection c, at any moment and
                    \* in any combination (see Reasons)
  StaleErrno,       \* may errno of the loop's thread be EINTR or EAGAIN from an
                    \* earlier call (an interrupted epoll_wait, a callback)?
  ResetAnyTime,     \* may a reset come when there is nothing to send?
  EarlyDrop,        \* may the application drop a ConnectionPtr while a call
                    \* it has made is still queued?
  LateSend,         \* may the application's thread Send after Shutdown?
  SndCapacity,      \* units a socket's send buffer takes
  MaxConns,         \* bound: connections
  MaxData,          \* bound: units the peers send
  MaxSends          \* bound: calls of Send

(* the ids of connections, given in order *)
Conns == 1..MaxConns

(* The peer finishes or resets, the timer of an inactive connection fires,   *)
(* Shutdown is called by the application's thread, by a message_callback_   *)
(* that has been given new data, or by one that has been shown the rest of  *)
(* ibuffer because the connection is being ended.                          *)
Reasons == {"fin", "reset", "idle", "app", "callback", "nested"}

ASSUME ServerAssumption ==
  /\ {None, Eventfd, Timerfd} \cap (Conns \cup Fds) = {}
  /\ None # Eventfd /\ None # Timerfd /\ Eventfd # Timerfd
  /\ MaxConns \in Nat
  /\ Causes \in [Conns -> SUBSET Reasons]
  /\ StaleErrno \in BOOLEAN /\ ResetAnyTime \in BOOLEAN
  /\ EarlyDrop \in BOOLEAN /\ LateSend \in BOOLEAN
  /\ SndCapacity \in Nat \ {0} /\ MaxData \in Nat /\ MaxSends \in Nat

VARIABLES
  (* the kernel *)
  owner,            \* owner[fd]: the connection behind an open descriptor
  interest,         \* interest[fd]: what epoll watches, or None
  peer,             \* peer[c]: "none", "open", "fin", "rst" or "closed"
  rcv, snd,         \* units in the receive and send buffers of a socket
  arrived,          \* units the peers have sent so far
  errno,            \* the loop thread's errno is EINTR or EAGAIN
  (* the objects *)
  channels_,        \* Epoller: channels_[fd], a connection or None
  conn,             \* conn[c]: the members of a Connection, or None
  timer,            \* connections with a timer that is not cancelled
  (* threads *)
  tasks_, tasks,    \* the loop's queue, and the tasks ExecTaskInQueue swapped
  eventfd,          \* the eventfd is readable
  pushing,          \* threads between push_back and WriteEventfd
  lpc,              \* where the loop is
  active, revents,  \* channels to handle, and what was reported for them
  cur,              \* the channel whose EventHandler is half done, or None
  conns_,           \* TcpServer
  building,         \* the connection NewConnection is working on, or None
  baseTasks,        \* connections whose ReleaseConnectionInLoop is queued
  held,             \* connections the application holds a pointer to
  shut,             \* connections on which its thread has called Shutdown
  (* history *)
  ends,             \* ends[c]: what has ended c so far
  sends,            \* calls of Send so far
  owed,             \* owed[c]: units that a Shutdown found in obuffer and that
                    \* are not yet written
  closes,           \* closes[c]: calls of close_callback_
  dead              \* a task has run on a destroyed connection

kernelVars  == <<owner, interest, peer, rcv, snd, arrived, errno>>
objectVars  == <<channels_, conn, timer>>
queueVars   == <<tasks_, tasks, eventfd, pushing>>
loopVars    == <<lpc, active, revents, cur>>
baseVars    == <<conns_, building, baseTasks>>
appVars     == <<held, shut>>
historyVars == <<ends, sends, owed, closes, dead>>
vars == <<kernelVars, objectVars, queueVars, loopVars, baseVars, appVars, historyVars>>

Connection == [statu_ : {"CONNECTING", "CONNECTED", "DISCONNECTING", "DISCONNECTED"},
               fd : Fds, open : BOOLEAN, events : SUBSET {"in", "out"},
               ibuffer : Nat, obuffer : Nat]

ASSUME NoneAssumption ==
  None \notin Connection /\ \A events \in SUBSET {"in", "out"} : None # events

TypeOK ==
  /\ owner \in [Fds -> Conns \cup {None}]
  /\ interest \in [Fds -> SUBSET {"in", "out"} \cup {None}]
  /\ peer \in [Conns -> {"none", "open", "fin", "rst", "closed"}]
  /\ rcv \in [Conns -> 0..MaxData] /\ arrived \in 0..MaxData
  /\ snd \in [Conns -> 0..SndCapacity]
  /\ errno \in BOOLEAN
  /\ channels_ \in [Fds -> Conns \cup {None}]
  /\ conn \in [Conns -> Connection \cup {None}]
  /\ timer \subseteq Conns /\ ends \in [Conns -> SUBSET Reasons]
  /\ tasks_ \in Seq({"established", "send", "shutdown", "release"} \X Conns)
  /\ tasks \in Seq({"established", "send", "shutdown", "release"} \X Conns)
  /\ eventfd \in BOOLEAN /\ pushing \subseteq {"base", "app"}
  /\ lpc \in {"events", "tasks"} /\ cur \in Conns \cup {None}
  /\ active \subseteq Conns \cup {Eventfd, Timerfd}
  /\ revents \in [Conns -> SUBSET {"in", "out", "err", "hup"}]
  /\ conns_ \subseteq Conns /\ building \in Conns \cup {None}
  /\ baseTasks \in Seq(Conns) /\ held \subseteq Conns /\ shut \subseteq Conns
  /\ sends \in 0..MaxSends /\ owed \in [Conns -> Nat]
  /\ closes \in [Conns -> Nat]
  /\ dead \in BOOLEAN

Init ==
  /\ owner = [f \in Fds |-> None] /\ interest = [f \in Fds |-> None]
  /\ peer = [c \in Conns |-> "none"]
  /\ rcv = [c \in Conns |-> 0] /\ snd = [c \in Conns |-> 0]
  /\ arrived = 0 /\ errno \in {FALSE, StaleErrno}
  /\ channels_ = [f \in Fds |-> None]
  /\ conn = [c \in Conns |-> None] /\ timer = {} /\ ends = [c \in Conns |-> {}]
  /\ tasks_ = <<>> /\ tasks = <<>> /\ eventfd = FALSE /\ pushing = {}
  /\ lpc = "tasks" /\ active = {} /\ revents = [c \in Conns |-> {}]
  /\ cur = None /\ shut = {}
  /\ conns_ = {} /\ building = None /\ baseTasks = <<>> /\ held = {}
  /\ sends = 0 /\ owed = [c \in Conns |-> 0]
  /\ closes = [c \in Conns |-> 0] /\ dead = FALSE

(* Some shared_ptr keeps the object. *)
Alive(c) ==
  c \in conns_ \cup held \cup {building} \cup {baseTasks[i] : i \in 1..Len(baseTasks)}

(* ~Connection, if the thread that gives up a pointer had the last one.  The *)
(* model forgets what no longer matters.                                   *)
Destroy(c, last) ==
  IF last
    THEN /\ conn' = [conn EXCEPT ![c].ibuffer = 0, ![c].obuffer = 0, ![c].events = {}]
         /\ owed' = [owed EXCEPT ![c] = 0]
         /\ shut' = shut \ {c}
    ELSE UNCHANGED <<conn, owed, shut>>

Open(c) == \E f \in Fds : owner[f] = c

-----------------------------------------------------------------------------
(* The peers and the network.                                              *)

PeerSends(c) ==
  /\ Open(c) /\ peer[c] = "open" /\ arrived < MaxData
  /\ arrived' = arrived + 1
  /\ rcv' = [rcv EXCEPT ![c] = @ + 1]
  /\ UNCHANGED <<owner, interest, peer, snd, errno, objectVars, queueVars, loopVars,
                 baseVars, appVars, historyVars>>

PeerReads(c) ==
  /\ Open(c) /\ snd[c] > 0
  /\ snd' = [snd EXCEPT ![c] = @ - 1]
  /\ UNCHANGED <<owner, interest, peer, rcv, arrived, errno, objectVars, queueVars,
                 loopVars, baseVars, appVars, historyVars>>

PeerEnds(c) ==
  /\ Open(c) /\ peer[c] = "open"
  /\ \/ "fin" \in Causes[c] /\ peer' = [peer EXCEPT ![c] = "fin"]
     \/ /\ "reset" \in Causes[c]
        /\ ResetAnyTime \/ conn[c].obuffer > 0
        /\ peer' = [peer EXCEPT ![c] = "rst"]
  /\ UNCHANGED <<owner, interest, rcv, snd, arrived, errno, objectVars, queueVars,
                 loopVars, baseVars, appVars, historyVars>>

(* what epoll reports of connection c if it watches for the given events *)
Reported(c, watched) ==
  (watched \cap ((IF rcv[c] > 0 \/ peer[c] \in {"fin", "rst"} THEN {"in"} ELSE {})
                 \cup (IF snd[c] < SndCapacity \/ peer[c] = "rst" THEN {"out"} ELSE {})))
  \cup (IF peer[c] = "rst" THEN {"err", "hup"} ELSE {})

-----------------------------------------------------------------------------
(* Epoller.  epoll_ctl on a closed descriptor, an ADD of a known one and a  *)
(* MOD of an unknown one fail and are only logged.                         *)

UpdateEventMonitor(c, r) ==
  /\ channels_' = IF channels_[r.fd] = None THEN [channels_ EXCEPT ![r.fd] = c]
                  ELSE channels_
  /\ interest' = IF owner[r.fd] # None
                    /\ (channels_[r.fd] = None <=> interest[r.fd] = None)
                   THEN [interest EXCEPT ![r.fd] = r.events] ELSE interest

(* The members of c become r; a change of events_ is passed on to epoll. *)
Becomes(c, r) ==
  /\ conn' = [conn EXCEPT ![c] = r]
  /\ IF r.events # conn[c].events THEN UpdateEventMonitor(c, r)
     ELSE UNCHANGED <<channels_, interest>>

(* Bug: the loop does not write the eventfd for its own tasks. *)
Push_NoWake(op, c) ==
  /\ tasks_' = Append(tasks_, <<op, c>>)
  /\ UNCHANGED eventfd

(* PushTaskToQueue by the loop itself *)
Push(op, c) ==
  /\ tasks_' = Append(tasks_, <<op, c>>)
  /\ eventfd' = TRUE

Release(c) == Push("release", c)

ReleaseTwice(c) ==
  /\ tasks_' = Append(Append(tasks_, <<"release", c>>), <<"release", c>>)
  /\ eventfd' = TRUE

(* Something has begun to end c. *)
EndedBy(c, whys) == ends' = [ends EXCEPT ![c] = @ \cup whys]

(* Release is queued for c, or has run. *)
Releasing(c) ==
  closes[c] > 0 \/ \E i \in 1..Len(tasks_ \o tasks) : (tasks_ \o tasks)[i] = <<"release", c>>

NoPush == UNCHANGED <<tasks_, eventfd>>

-----------------------------------------------------------------------------
(* What the methods of Connection do to its members r.                     *)

Sent(r) ==
  IF r.statu_ = "DISCONNECTED" THEN r
  ELSE [r EXCEPT !.obuffer = @ + 1, !.events = @ \cup {"out"}]

(* message_callback_ takes the whole ibuffer or leaves it, and may Send. *)
Message(r, take, reply) ==
  LET q == IF take THEN [r EXCEPT !.ibuffer = 0] ELSE r
  IN IF reply THEN Sent(q) ELSE q

Shut(r, take, reply) ==
  LET q == [r EXCEPT !.statu_ = "DISCONNECTING"]
      s == IF q.ibuffer > 0 THEN Message(q, take, reply) ELSE q
  IN IF s.obuffer > 0 THEN [s EXCEPT !.events = @ \cup {"out"}] ELSE s

(* a reply of message_callback_ is a Send *)
MaySend(reply) ==
  /\ reply => sends < MaxSends
  /\ sends' = IF reply THEN sends + 1 ELSE sends

(* message_callback_ is shown what is left in ibuffer, if anything, and may   *)
(* call Shutdown itself when it has taken that.                            *)
Shown(c, r, why, take, reply, nested) ==
  /\ take \/ reply => r.ibuffer > 0
  /\ nested => take /\ why # "callback" /\ "nested" \in Causes[c]
  /\ MaySend(reply)
  /\ EndedBy(c, {why} \cup IF nested THEN {"nested"} ELSE {})

(* Shutdown owes what it finds in obuffer, unless the connection is being     *)
(* released already.                                                       *)
Owes(c, s) == owed' = IF Releasing(c) THEN owed ELSE [owed EXCEPT ![c] = s.obuffer]

(* Bug: the connection is released whatever there is to send. *)
ShutdownInLoop_NoFlush(c, r, why) ==
  \E take, reply, nested \in BOOLEAN :
    LET s == Shut(r, take, reply) IN
    /\ Shown(c, r, why, take, reply, nested)
    /\ Becomes(c, s)
    /\ Owes(c, s)
    /\ Release(c)

(* ShutdownInLoop on members r, those of c or those the handler has come to. *)
(* If there is no output, a nested call has released c before the outer one *)
(* does.                                                                   *)
ShutdownInLoop(c, r, why) ==
  \E take, reply, nested \in BOOLEAN :
    LET s == Shut(r, take, reply) IN
    /\ Shown(c, r, why, take, reply, nested)
    /\ Becomes(c, s)
    /\ Owes(c, s)
    /\ \/ s.obuffer > 0 /\ NoPush
       \/ s.obuffer = 0 /\ IF nested THEN ReleaseTwice(c) ELSE Release(c)

-----------------------------------------------------------------------------
(* The loop: EventLoop::Run.                                               *)

(* Epoller::Run *)
EpollWait ==
  /\ lpc = "tasks" /\ tasks = <<>>
  /\ LET seen == {f \in Fds : interest[f] # None /\ Reported(owner[f], interest[f]) # {}} IN
     \E tick \in BOOLEAN :
       /\ tick => timer # {}
       /\ active' = {channels_[f] : f \in seen}
                    \cup (IF eventfd THEN {Eventfd} ELSE {})
                    \cup (IF tick THEN {Timerfd} ELSE {})
       /\ active' # {}
       /\ revents' = [c \in Conns |-> UNION {Reported(owner[f], interest[f]) :
                                               f \in {g \in seen : channels_[g] = c}}]
  /\ lpc' = "events"
  /\ UNCHANGED <<kernelVars, objectVars, queueVars, cur, baseVars, appVars, historyVars>>

ReadEventfd ==
  /\ lpc = "events" /\ cur = None /\ Eventfd \in active
  /\ eventfd' = FALSE
  /\ active' = active \ {Eventfd}
  /\ UNCHANGED <<kernelVars, objectVars, tasks_, tasks, pushing, lpc, revents, cur, baseVars,
                 appVars, historyVars>>

(* A tick at which Ontime destroys the timer tasks of some connections, one *)
(* after the other; other ticks change nothing here.                       *)
Ontime ==
  /\ lpc = "events" /\ cur = None /\ Timerfd \in active
  /\ \E c \in timer : Release(c) /\ timer' = timer \ {c} /\ EndedBy(c, {"idle"})
  /\ active' \in {active \ {Timerfd}} \cup {a \in {active} : timer' # {}}
  /\ UNCHANGED <<kernelVars, channels_, conn, tasks, pushing, lpc, revents, cur,
                 baseVars, appVars, sends, owed, closes, dead>>

-----------------------------------------------------------------------------
(* EventHandler of a connection's channel: the read callback first, then    *)
(* one of the others.  AnyHandler's refresh is module TimerWheel's.        *)

(* A message_callback_ that calls Shutdown: taking the data and replying     *)
(* before it or within it comes to the same.                               *)
ReadData(c) ==
  /\ rcv[c] > 0
  /\ LET q == [conn[c] EXCEPT !.ibuffer = @ + rcv[c]] IN
     \/ \E take, reply \in BOOLEAN :
          /\ MaySend(reply)
          /\ Becomes(c, Message(q, take, reply))
          /\ NoPush
          /\ UNCHANGED <<ends, owed>>
     \/ /\ "callback" \in Causes[c]
        /\ ShutdownInLoop(c, q, "callback")
  /\ rcv' = [rcv EXCEPT ![c] = 0]
  /\ UNCHANGED errno

(* recv returns 0 at the end of the data and leaves errno alone; Recv takes *)
(* an errno of EINTR or EAGAIN for the reason.  After a reset, or on a       *)
(* descriptor already closed, it fails.                                    *)
ReadEnd(c) ==
  /\ rcv[c] = 0
  /\ errno' = (errno /\ peer[c] = "fin")
  /\ IF errno' THEN UNCHANGED <<conn, channels_, interest, ends, owed, sends, tasks_, eventfd>>
     ELSE ShutdownInLoop(c, conn[c], IF peer[c] = "fin" THEN "fin" ELSE "reset")
  /\ UNCHANGED rcv

Readhandler(c) ==
  /\ lpc = "events" /\ cur = None /\ c \in active \cap Conns
  /\ LET more == revents[c] \cap {"out", "err"} IN
     /\ cur' = IF more = {} THEN None ELSE c
     /\ revents' = [revents EXCEPT ![c] = more]
  /\ active' = active \ {c}
  /\ IF "in" \in revents[c] THEN ReadData(c) \/ ReadEnd(c)
     ELSE UNCHANGED <<conn, channels_, interest, ends, owed, sends, tasks_, eventfd, rcv, errno>>
  /\ UNCHANGED <<owner, peer, snd, arrived, timer, tasks, pushing, lpc,
                 baseVars, appVars, closes, dead>>

(* Bug: the end of the output does not release a connection shut down. *)
WriteSome_NoRelease(c) ==
  /\ conn[c].open /\ peer[c] # "rst"
  /\ \E n \in IF conn[c].obuffer = 0 THEN {0} ELSE 1..conn[c].obuffer :
       /\ snd[c] + n <= SndCapacity
       /\ snd' = [snd EXCEPT ![c] = @ + n]
       /\ owed' = [owed EXCEPT ![c] = IF @ > n THEN @ - n ELSE 0]
       /\ LET r == [conn[c] EXCEPT !.obuffer = @ - n] IN
          Becomes(c, IF r.obuffer = 0 THEN [r EXCEPT !.events = @ \ {"out"}] ELSE r)
  /\ NoPush
  /\ UNCHANGED <<ends, sends>>

(* The socket takes some of the units; the last one ends the monitoring of  *)
(* writes and, if the connection is shut down, releases it.                *)
WriteSome(c) ==
  /\ conn[c].open /\ peer[c] # "rst"
  /\ \E n \in IF conn[c].obuffer = 0 THEN {0} ELSE 1..conn[c].obuffer :
       /\ snd[c] + n <= SndCapacity
       /\ snd' = [snd EXCEPT ![c] = @ + n]
       /\ owed' = [owed EXCEPT ![c] = IF @ > n THEN @ - n ELSE 0]
       /\ LET r == [conn[c] EXCEPT !.obuffer = @ - n] IN
          IF r.obuffer = 0
            THEN /\ Becomes(c, [r EXCEPT !.events = @ \ {"out"}])
                 /\ IF r.statu_ = "DISCONNECTING" THEN Release(c) ELSE NoPush
            ELSE Becomes(c, r) /\ NoPush
  /\ UNCHANGED <<ends, sends>>

(* send fails, after a reset or on a closed descriptor: the application is     *)
(* shown what is left in ibuffer.                                          *)
WriteFails(c) ==
  /\ ~conn[c].open \/ peer[c] = "rst"
  /\ \E take, reply, nested \in BOOLEAN :
       LET r == Message(conn[c], take, reply)
           s == IF nested THEN Shut(r, FALSE, FALSE) ELSE r
       IN
       /\ Shown(c, conn[c], "reset", take, reply, nested)
       /\ Becomes(c, s)
       /\ IF nested /\ s.obuffer = 0 THEN ReleaseTwice(c) ELSE Release(c)
  /\ UNCHANGED <<snd, owed>>

(* WriteHandler or, for EPOLLERR alone, ErrorHandler.  EPOLLHUP never comes *)
(* without EPOLLERR, so CloseHandler has no step.                          *)
WriteHandler ==
  /\ cur # None
  /\ cur' = None
  /\ revents' = [revents EXCEPT ![cur] = {}]
  /\ IF "out" \in revents[cur] THEN WriteSome(cur) \/ WriteFails(cur)
     ELSE /\ Release(cur) /\ EndedBy(cur, {"reset"})
          /\ UNCHANGED <<conn, channels_, interest, sends, snd, owed>>
  /\ UNCHANGED <<owner, peer, rcv, arrived, errno, timer, tasks, pushing, lpc, active,
                 baseVars, appVars, closes, dead>>

-----------------------------------------------------------------------------
(* The tasks.                                                              *)

ExecTaskInQueue ==
  /\ lpc = "events" /\ active = {} /\ cur = None
  /\ lpc' = "tasks"
  /\ tasks' = tasks_ /\ tasks_' = <<>>
  /\ UNCHANGED <<kernelVars, objectVars, eventfd, pushing, active, revents, cur, baseVars,
                 appVars, historyVars>>

(* The next task is op on connection c.  If that has been destroyed, what   *)
(* follows is undefined and the model stops.                               *)
Runs(op, c) ==
  /\ lpc = "tasks" /\ tasks # <<>>
  /\ Head(tasks) = <<op, c>>
  /\ tasks' = Tail(tasks)
  /\ dead' = ~Alive(c)

(* connect_callback_ gives the application a pointer, which it may keep. *)
EstablishedInLoop(c) ==
  /\ Runs("established", c)
  /\ Becomes(c, [conn[c] EXCEPT !.statu_ = "CONNECTED", !.events = {"in"}])
  /\ \/ timer' = timer
     \/ "idle" \in Causes[c] /\ timer' = timer \cup {c}
  /\ held' \in {held, held \cup {c}}
  /\ UNCHANGED <<owner, peer, rcv, snd, arrived, errno, tasks_, eventfd, pushing,
                 loopVars, baseVars, shut, ends, sends, owed, closes>>

SendTask(c) ==
  /\ Runs("send", c)
  /\ Becomes(c, Sent(conn[c]))
  /\ UNCHANGED <<owner, peer, rcv, snd, arrived, errno, timer, tasks_, eventfd, pushing,
                 loopVars, baseVars, appVars, ends, sends, owed, closes>>

ShutdownTask(c) ==
  /\ Runs("shutdown", c)
  /\ ShutdownInLoop(c, conn[c], "app")
  /\ UNCHANGED <<owner, peer, rcv, snd, arrived, errno, timer, pushing, loopVars,
                 baseVars, appVars, closes>>

(* By descriptor: whoever has it now. *)
RemoveEventMonitor(r) ==
  /\ channels_' = [channels_ EXCEPT ![r.fd] = None]
  /\ interest' = [interest EXCEPT ![r.fd] = None]

(* close_callback_ is called, and ReleaseConnection queues a task with a    *)
(* shared_ptr in the base loop.                                            *)
ReleaseInLoop(c) ==
  /\ Runs("release", c)
  /\ LET r == conn[c] IN
     /\ conn' = [conn EXCEPT ![c] = [r EXCEPT !.statu_ = "DISCONNECTED", !.open = FALSE]]
     /\ RemoveEventMonitor(r)
     /\ owner' = IF r.open THEN [owner EXCEPT ![r.fd] = None] ELSE owner
     /\ peer' = [peer EXCEPT ![c] = "closed"]
     /\ rcv' = [rcv EXCEPT ![c] = 0] /\ snd' = [snd EXCEPT ![c] = 0]
  /\ timer' = timer \ {c}
  /\ closes' = [closes EXCEPT ![c] = @ + 1]
  /\ baseTasks' = Append(baseTasks, c)
  /\ UNCHANGED <<arrived, errno, tasks_, eventfd, pushing, loopVars,
                 conns_, building, appVars, ends, sends, owed>>

-----------------------------------------------------------------------------
(* The base loop.  Its own queue works like the loop's.                    *)

(* PushTaskToQueue by thread t, up to the eventfd *)
PushFrom(t, op, c) ==
  /\ t \notin pushing
  /\ pushing' = pushing \cup {t}
  /\ tasks_' = Append(tasks_, <<op, c>>)
  /\ UNCHANGED <<tasks, eventfd>>

WriteEventfd(t) ==
  /\ t \in pushing
  /\ pushing' = pushing \ {t}
  /\ eventfd' = TRUE
  /\ UNCHANGED <<kernelVars, objectVars, tasks_, tasks, loopVars, baseTasks, appVars,
                 historyVars>>

(* Acceptor::ReadHandler and NewConnection up to Established; the task for  *)
(* EnableInactiveRelease is part of EstablishedInLoop here.                *)
NewConnection(c, fd) ==
  /\ building = None
  /\ {d \in Conns : conn[d] # None} = 1..(c - 1)
  /\ owner[fd] = None
  /\ owner' = [owner EXCEPT ![fd] = c]
  /\ peer' = [peer EXCEPT ![c] = "open"]
  /\ conn' = [conn EXCEPT ![c] = [statu_ |-> "CONNECTING", fd |-> fd, open |-> TRUE,
                                  events |-> {}, ibuffer |-> 0, obuffer |-> 0]]
  /\ building' = c
  /\ PushFrom("base", "established", c)
  /\ UNCHANGED <<interest, rcv, snd, arrived, errno, channels_, timer, loopVars, conns_,
                 baseTasks, appVars, historyVars>>

(* the rest of NewConnection *)
InsertConnection ==
  /\ WriteEventfd("base")
  /\ conns_' = conns_ \cup {building}
  /\ building' = None

ReleaseConnectionInLoop ==
  /\ building = None /\ baseTasks # <<>>
  /\ conns_' = conns_ \ {Head(baseTasks)}
  /\ baseTasks' = Tail(baseTasks)
  /\ LET c == Head(baseTasks) IN
     Destroy(c, c \notin held /\ \A i \in 2..Len(baseTasks) : baseTasks[i] # c)
  /\ UNCHANGED <<kernelVars, channels_, timer, queueVars, loopVars, building, held, ends,
                 sends, closes, dead>>

-----------------------------------------------------------------------------
(* The application's thread.                                               *)

AppSend(c) ==
  /\ c \in held /\ sends < MaxSends
  /\ LateSend \/ c \notin shut
  /\ PushFrom("app", "send", c)
  /\ sends' = sends + 1
  /\ UNCHANGED <<kernelVars, objectVars, loopVars, baseVars, appVars, ends, owed, closes,
                 dead>>

AppNotify == WriteEventfd("app") /\ UNCHANGED <<conns_, building>>

AppShutdown(c) ==
  /\ "app" \in Causes[c] /\ c \in held \ shut
  /\ PushFrom("app", "shutdown", c)
  /\ shut' = shut \cup {c}
  /\ UNCHANGED <<kernelVars, objectVars, loopVars, baseVars, held, historyVars>>

AppDrop(c) ==
  /\ c \in held /\ "app" \notin pushing
  /\ EarlyDrop \/ /\ conn[c].statu_ = "DISCONNECTED"
                  /\ \A i \in 1..Len(tasks_ \o tasks) : (tasks_ \o tasks)[i][2] # c
  /\ held' = held \ {c}
  /\ Destroy(c, c \notin conns_ \cup {building}
                /\ \A i \in 1..Len(baseTasks) : baseTasks[i] # c)
  /\ UNCHANGED <<kernelVars, channels_, timer, queueVars, loopVars, baseVars, ends, sends,
                 closes, dead>>

-----------------------------------------------------------------------------
LoopStep ==
  \/ EpollWait \/ ReadEventfd \/ Ontime \/ WriteHandler \/ ExecTaskInQueue
  \/ \E c \in Conns :
       \/ Readhandler(c)
       \/ EstablishedInLoop(c) \/ SendTask(c) \/ ShutdownTask(c) \/ ReleaseInLoop(c)

BaseStep == InsertConnection \/ ReleaseConnectionInLoop

Next ==
  /\ ~dead
  /\ \/ LoopStep \/ BaseStep \/ AppNotify
     \/ \E c \in Conns, fd \in Fds : NewConnection(c, fd)
     \/ \E c \in Conns :
          \/ PeerSends(c) \/ PeerReads(c) \/ PeerEnds(c)
          \/ AppSend(c) \/ AppShutdown(c) \/ AppDrop(c)

Spec == Init /\ [][Next]_vars

(* Threads are scheduled and peers read. *)
FairSpec ==
  /\ Spec
  /\ WF_vars(~dead /\ LoopStep)
  /\ WF_vars(~dead /\ BaseStep)
  /\ WF_vars(~dead /\ AppNotify)
  /\ \A c \in Conns : WF_vars(~dead /\ PeerReads(c))

-----------------------------------------------------------------------------
(* Properties.                                                             *)

(* A task in the queue is never overlooked: before the loop sleeps, the     *)
(* eventfd is readable, or the pusher is about to write it.                *)
TasksCovered == tasks_ # <<>> => eventfd \/ pushing # {} \/ lpc = "events"

(* The Epoller knows a channel for everything epoll can report (the         *)
(* assertion of server.hpp:561), it is the open connection behind the       *)
(* descriptor, and epoll watches what that connection asked for.           *)
ChannelsMatchKernel ==
  \A f \in Fds :
     /\ channels_[f] = None <=> interest[f] = None
     /\ channels_[f] # None =>
          LET c == channels_[f] IN
          /\ owner[f] = c /\ Alive(c) /\ conn[c].open /\ conn[c].fd = f
          /\ interest[f] = conn[c].events

(* A connection is released once, its channel goes with its descriptor, and  *)
(* no task runs on a destroyed one: the queue "solves the thread safety of   *)
(* operations on Connection" (server.hpp:747).  The code does not keep this  *)
(* when a second reason to end a connection comes after the first.         *)
ReleasedOnce == ~dead /\ ChannelsMatchKernel /\ \A c \in Conns : closes[c] <= 1

(* no connection has been ended for a second reason so far *)
OneReason == \A c \in Conns : \A x, y \in ends[c] : x = y

(* What is left of it: the handlers of one reason, which may be several and  *)
(* run in several events and tasks (Readhandler, WriteHandler, SendInLoop,   *)
(* ReleaseInLoop), release a connection once between them.                 *)
ReleasedOnceForOneReason == OneReason => ReleasedOnce

(* Shutdown "first deals with the data in ibuffer and obuffer"              *)
(* (server.hpp:1043): what a Shutdown finds in obuffer is written before the *)
(* descriptor is closed, whatever else ends the connection meanwhile, but   *)
(* for a reset or the timer, and unless its release was queued before.     *)
GracefulShutdown ==
  \A c \in Conns :
     closes[c] > 0 /\ ends[c] \cap {"reset", "idle"} = {} => owed[c] = 0

Ended(c) ==
  conn[c] # None /\ (\/ peer[c] \in {"fin", "rst", "closed"}
                     \/ conn[c].statu_ \in {"DISCONNECTING", "DISCONNECTED"})

Forgotten(c) == ~Open(c) /\ c \notin conns_ \cup {building}

(* The loop is in epoll_wait, with nothing to report and no timer, or in     *)
(* front of a socket that takes nothing; an empty tick is not modelled.    *)
LoopRests ==
  \/ /\ lpc = "tasks" /\ tasks = <<>> /\ ~eventfd /\ timer = {}
     /\ \A f \in Fds : interest[f] # None => Reported(owner[f], interest[f]) = {}
  \/ /\ lpc = "events" /\ cur # None /\ "out" \in revents[cur] /\ peer[cur] # "rst"
     /\ conn[cur].open /\ conn[cur].obuffer > 0 /\ snd[cur] = SndCapacity
  \/ lpc = "events" /\ cur = None /\ active = {Timerfd} /\ timer = {}

(* No step of the loop, of the base loop, of AppNotify or of PeerReads is    *)
(* possible.                                                               *)
AtRest ==
  /\ LoopRests
  /\ pushing = {} /\ (building # None \/ baseTasks = <<>>)
  /\ \A c \in Conns : Open(c) => snd[c] = 0

(* Nothing but one ReleaseInLoop has run on a connection that is released. *)
Untouched ==
  /\ ~dead
  /\ \A c \in Conns : closes[c] > 0 => closes[c] = 1 /\ conn[c].statu_ = "DISCONNECTED"

(* A connection that the peer has ended, that was shut down or released, in   *)
(* whatever order and combination, is never left over: once the threads     *)
(* have come to rest and the peers have read what they were sent, its       *)
(* descriptor is closed and TcpServer has dropped it from conns_.  A        *)
(* connection that was released and is then shut down or released again may *)
(* take the events of the one that has its descriptor now.                 *)
EndedIsForgotten == Untouched /\ AtRest => \A c \in Conns : Ended(c) => Forgotten(c)

(* The same as progress, which excludes a loop that never comes to rest:    *)
(* with StaleErrno, Recv takes the end of the data for "no data" (lines     *)
(* 281-290), level-triggered epoll reports it again, and so for ever.      *)
EndedGoes == \A c \in Conns : Ended(c) ~> Forgotten(c)
=============================================================================
