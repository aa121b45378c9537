--------------------------- MODULE Server_proofs ----------------------------
(***************************************************************************)
(* Proofs about muduo/server.hpp: the start of the pool and the turn of    *)
(* its loops (LoopThreads), the task queue of a loop, the graceful         *)
(* shutdown, that no connection that has ended is left over, and that one   *)
(* reason releases a connection once (Server).                             *)
(***************************************************************************)
EXTENDS Server, LoopThreads, SequenceTheorems, TLAPS

-----------------------------------------------------------------------------
(* LoopThreads.                                                            *)

PoolTypeOK ==
  /\ mpc \in {"create", "construct", "lock", "test", "park", "parked", "run"}
  /\ loop_ \in [LoopIds -> BOOLEAN]
  /\ loops_ \in Seq(BOOLEAN) /\ Len(loops_) <= PoolSize
  /\ next_loop_ \in Nat /\ (PoolSize > 0 => next_loop_ < PoolSize)
  /\ load \in [LoopIds \cup {BaseLoop} -> Nat]

(* Loop returns only what ThreadRoutine has set; Create fills the pool. *)
PoolFilled ==
  /\ \A k \in 1..Len(loops_) : loops_[k]
  /\ mpc \in {"construct", "lock", "test", "park", "parked"} => Len(loops_) < PoolSize
  /\ mpc = "run" => Len(loops_) = PoolSize

(* The loops 2 .. next_loop_ + 1 have had their turn of the round, and 1 is   *)
(* the last of a round: one more connection than the others.               *)
Turn(k) == IF k \in 2..(next_loop_ + 1) THEN 1 ELSE 0
InTurn == \E m \in Nat : \A k \in LoopIds : load[k] = m + Turn(k)

PoolInv == PoolTypeOK /\ PoolFilled /\ InTurn /\ orphan = FALSE

(* Nothing is created and nothing accepted. *)
LEMMA PoolInitInv == LoopThreadsInit => PoolInv
  <1> SUFFICES ASSUME LoopThreadsInit PROVE PoolInv
    OBVIOUS
  <1> USE LoopThreadsAssumption DEF LoopThreadsInit
  <1>1. PoolTypeOK /\ PoolFilled /\ orphan = FALSE
    <2>1. load \in [LoopIds \cup {BaseLoop} -> Nat] /\ loop_ \in [LoopIds -> BOOLEAN]
      OBVIOUS
    <2>2. loops_ \in Seq(BOOLEAN) /\ Len(loops_) = 0
      OBVIOUS
    <2>3. QED
      BY <2>1, <2>2 DEF PoolTypeOK, PoolFilled
  <1>2. \A k \in LoopIds : load[k] = 0 + Turn(k)
    BY DEF Turn, LoopIds
  <1>3. QED
    BY <1>1, <1>2 DEF PoolInv, InTurn

(* Create, the constructors and the routines. *)
LEMMA CreateInv ==
  ASSUME PoolInv, MainStep \/ \E k \in LoopIds : RoutineStep(k)
  PROVE  PoolInv'
  <1> USE LoopThreadsAssumption DEF PoolInv, PoolTypeOK, PoolFilled, acceptVars
  <1>0. UNCHANGED acceptVars
    BY DEF MainStep, NewLoopthread, ConstructMutex, LoopLock, LoopTest, LoopWait, Run,
           RoutineStep
  <1>1. InTurn' /\ orphan' = FALSE
    BY <1>0 DEF InTurn, Turn
  <1>2. CASE LoopTest
    <2>1. CASE loop_[k_]
      <3>1. loops_' = Append(loops_, TRUE) /\ mpc' = "create" /\ loop_' = loop_ /\ mpc = "test"
        BY <1>2, <2>1 DEF LoopTest, k_, LoopIds
      <3>2. /\ loops_' \in Seq(BOOLEAN) /\ Len(loops_') = Len(loops_) + 1
            /\ \A k \in 1..Len(loops_') : loops_'[k]
        BY <3>1, AppendProperties
      <3>3. QED
        BY <1>0, <1>1, <3>1, <3>2
    <2>2. CASE ~loop_[k_]
      BY <1>0, <1>1, <1>2, <2>2 DEF LoopTest
    <2>3. QED
      BY <2>1, <2>2
  <1>3. CASE NewLoopthread \/ ConstructMutex \/ LoopLock \/ LoopWait \/ Run
    BY <1>0, <1>1, <1>3
       DEF NewLoopthread, ConstructMutex, LoopLock, LoopWait, Run, k_, LoopIds
  <1>4. ASSUME NEW k \in LoopIds, RoutineStep(k) PROVE PoolInv'
    BY <1>0, <1>1, <1>4 DEF RoutineStep, ThreadRoutine
  <1>5. QED
    BY <1>2, <1>3, <1>4 DEF MainStep

(* ReadHandler gives the connection to the loop whose turn it is. *)
LEMMA AcceptInv == ASSUME PoolInv, ReadHandler PROVE PoolInv'
  <1> USE LoopThreadsAssumption DEF PoolInv, PoolTypeOK, PoolFilled
  <1>0. UNCHANGED <<mpc, loop_, loops_>> /\ mpc = "run"
    BY DEF ReadHandler
  <1>1. CASE PoolSize = 0
    <2>1. LoopIds = {} /\ NextLoop = BaseLoop /\ next_loop_' = next_loop_
      BY <1>1 DEF LoopIds, NextLoop, ReadHandler
    <2>2. load' \in [LoopIds \cup {BaseLoop} -> Nat]
      BY <2>1 DEF ReadHandler
    <2>5. orphan' = FALSE
      BY <2>1 DEF ReadHandler
    <2>3. InTurn'
      BY <2>1 DEF InTurn
    <2>4. QED
      BY <1>0, <2>1, <2>2, <2>3, <2>5
  <1>2. CASE PoolSize > 0
    <2> DEFINE next == IF next_loop_ + 1 = PoolSize THEN 0 ELSE next_loop_ + 1
    <2>1. next_loop_' = next /\ next \in 0..(PoolSize - 1)
      <3>1. PoolSize % PoolSize = 0
        BY <1>2
      <3>2. (next_loop_ + 1) % PoolSize = next
        BY <1>2, <3>1
      <3>3. QED
        BY <1>2, <3>2 DEF ReadHandler
    <2>2. NextLoop = next + 1 /\ NextLoop \in LoopIds /\ NextLoop # BaseLoop
      BY <1>2, <2>1 DEF NextLoop, LoopIds, BaseLoop
    <2>3. /\ load' = [load EXCEPT ![next + 1] = @ + 1]
          /\ orphan' = (orphan \/ ~loops_[next + 1])
      BY <2>2 DEF ReadHandler
    <2>4. orphan' = FALSE /\ load' \in [LoopIds \cup {BaseLoop} -> Nat]
      <3>1. loops_[next + 1]
        BY <1>0, <2>2 DEF LoopIds
      <3> HIDE DEF next, PoolInv
      <3>2. orphan' = FALSE
        <4>1. orphan = FALSE
          BY DEF PoolInv
        <4>2. QED
          BY <2>3, <3>1, <4>1, Zenon
      <3>3. QED
        BY <2>2, <2>3, <3>2 DEF LoopIds, PoolInv
    <2>5. InTurn'
      <3>1. PICK m \in Nat : \A k \in LoopIds : load[k] = m + Turn(k)
        BY DEF InTurn
      <3>2. \A k \in LoopIds : load'[k] = load[k] + (IF k = next + 1 THEN 1 ELSE 0)
        BY <2>2, <2>3
      <3>3. CASE next_loop_ + 1 = PoolSize
        <4>1. \A k \in LoopIds : load'[k] = (m + 1) + Turn(k)'
          BY <2>1, <3>1, <3>2, <3>3 DEF Turn, LoopIds
        <4>2. QED
          BY <4>1 DEF InTurn
      <3>4. CASE next_loop_ + 1 # PoolSize
        <4>1. \A k \in LoopIds : load'[k] = m + Turn(k)'
          BY <2>1, <3>1, <3>2, <3>4 DEF Turn, LoopIds
        <4>2. QED
          BY <4>1 DEF InTurn
      <3>5. QED
        BY <3>3, <3>4
    <2>6. QED
      BY <1>0, <2>1, <2>4, <2>5
  <1>3. PoolSize = 0 \/ PoolSize > 0
    OBVIOUS
  <1>4. QED
    BY <1>1, <1>2, <1>3

(* For every size of the pool, and however its threads meet at mutexes that  *)
(* are not constructed yet: a connection is given an EventLoop that exists,  *)
(* and the loads of two loops differ by one at most.                       *)
THEOREM PoolAlwaysServes == LoopThreadsSpec => []PoolServes
  <1>1. PoolInv /\ [LoopThreadsNext]_poolVars => PoolInv'
    <2>1. ASSUME PoolInv, UNCHANGED poolVars PROVE PoolInv'
      BY <2>1 DEF poolVars, PoolInv, PoolTypeOK, PoolFilled, InTurn, Turn
    <2>2. QED
      BY <2>1, CreateInv, AcceptInv DEF LoopThreadsNext
  <1>2. PoolInv => PoolServes
    <2> SUFFICES ASSUME PoolInv, NEW k \in LoopIds, NEW l \in LoopIds
                 PROVE  load[k] <= load[l] + 1
      BY DEF PoolInv, PoolServes
    <2>1. PICK m \in Nat : \A j \in LoopIds : load[j] = m + Turn(j)
      BY DEF PoolInv, InTurn
    <2>2. QED
      BY <2>1 DEF Turn
  <1>3. QED
    BY PoolInitInv, <1>1, <1>2, PTL DEF LoopThreadsSpec

-----------------------------------------------------------------------------
(* Server: the task queue.                                                 *)

(* A step of the loop's own thread pushes with the eventfd written, or not at *)
(* all.                                                                    *)
LoopPushes == UNCHANGED <<tasks_, eventfd>> \/ eventfd'

(* ShutdownInLoop and the handlers push by PushTaskToQueue or not at all. *)
LEMMA HandlersPush ==
  ASSUME NEW c, NEW r, NEW why, ShutdownInLoop(c, r, why) \/ ReadData(c) \/ ReadEnd(c)
                                \/ WriteSome(c) \/ WriteFails(c)
  PROVE  LoopPushes
  <1>1. ASSUME NEW d, NEW q, NEW w, ShutdownInLoop(d, q, w) PROVE LoopPushes
    BY <1>1 DEF ShutdownInLoop, Release, ReleaseTwice, Push, NoPush, LoopPushes
  <1>2. CASE ReadData(c)
    BY <1>1, <1>2 DEF ReadData, NoPush, LoopPushes
  <1>3. CASE ReadEnd(c)
    BY <1>1, <1>3 DEF ReadEnd, LoopPushes
  <1>4. CASE WriteSome(c)
    BY <1>4 DEF WriteSome, Release, Push, NoPush, LoopPushes
  <1>5. CASE WriteFails(c)
    BY <1>5 DEF WriteFails, Release, ReleaseTwice, Push, LoopPushes
  <1>6. QED
    BY <1>1, <1>2, <1>3, <1>4, <1>5

(* A task that any thread pushes to the loop's queue is covered: the eventfd *)
(* is readable, somebody is about to write it, or the loop will swap the     *)
(* queue before it sleeps, for any connections, descriptors and tasks.      *)
THEOREM ServerTasksCovered == Spec => []TasksCovered
  <1>1. Init => TasksCovered
    BY DEF Init, TasksCovered
  <1>2. TasksCovered /\ [Next]_vars => TasksCovered'
    <2> SUFFICES ASSUME TasksCovered, [Next]_vars PROVE TasksCovered'
      OBVIOUS
    <2> USE DEF TasksCovered, queueVars, loopVars
    <2>1. CASE EpollWait \/ ReadEventfd \/ ExecTaskInQueue
      BY <2>1 DEF EpollWait, ReadEventfd, ExecTaskInQueue
    <2>2. CASE Ontime
      BY <2>2 DEF Ontime, Release, Push
    <2>3. CASE WriteHandler
      <3>1. LoopPushes
        BY <2>3, HandlersPush DEF WriteHandler, Release, Push, LoopPushes
      <3>2. QED
        BY <2>3, <3>1 DEF WriteHandler, LoopPushes
    <2>4. ASSUME NEW c \in Conns, Readhandler(c) PROVE TasksCovered'
      <3>1. LoopPushes
        BY <2>4, HandlersPush DEF Readhandler, LoopPushes
      <3>2. QED
        BY <2>4, <3>1 DEF Readhandler, LoopPushes
    <2>5. ASSUME NEW c \in Conns, EstablishedInLoop(c) \/ SendTask(c) \/ ReleaseInLoop(c)
          PROVE TasksCovered'
      BY <2>5 DEF EstablishedInLoop, SendTask, ReleaseInLoop
    <2>6. ASSUME NEW c \in Conns, ShutdownTask(c) PROVE TasksCovered'
      <3>1. LoopPushes
        BY <2>6, HandlersPush DEF ShutdownTask
      <3>2. QED
        BY <2>6, <3>1 DEF ShutdownTask, LoopPushes
    <2>7. CASE InsertConnection \/ AppNotify
      BY <2>7 DEF InsertConnection, AppNotify, WriteEventfd
    <2>8. CASE ReleaseConnectionInLoop
      BY <2>8 DEF ReleaseConnectionInLoop
    <2>9. ASSUME NEW c \in Conns, NEW fd \in Fds, NewConnection(c, fd) PROVE TasksCovered'
      BY <2>9 DEF NewConnection, PushFrom
    <2>10. ASSUME NEW c \in Conns, AppSend(c) \/ AppShutdown(c) PROVE TasksCovered'
      BY <2>10 DEF AppSend, AppShutdown, PushFrom
    <2>11. ASSUME NEW c \in Conns, PeerSends(c) \/ PeerReads(c) \/ PeerEnds(c) \/ AppDrop(c)
           PROVE TasksCovered'
      BY <2>11 DEF PeerSends, PeerReads, PeerEnds, AppDrop
    <2>12. CASE UNCHANGED vars
      BY <2>12 DEF vars
    <2>13. QED
      BY <2>1, <2>2, <2>3, <2>4, <2>5, <2>6, <2>7, <2>8, <2>9, <2>10, <2>11, <2>12
         DEF Next, LoopStep, BaseStep
  <1>3. QED
    BY <1>1, <1>2, PTL DEF Spec

-----------------------------------------------------------------------------
(* The loop, its queue and its connections.                                *)

(* the kinds of tasks *)
Ops == {"established", "send", "shutdown", "release"}

(* the tasks of a queue *)
TaskSet == Ops \X Conns

(* The sequence q holds x. *)
Has(q, x) == \E i \in 1..Len(q) : q[i] = x

(* It does not hold x twice. *)
Unique(q, x) == \A i, j \in 1..Len(q) : q[i] = x /\ q[j] = x => i = j

(* No x comes after y. *)
Before(q, x, y) == \A i, j \in 1..Len(q) : i < j /\ q[i] = y => q[j] # x

(* what is still to be run, in this order *)
Queue == tasks \o tasks_

(* A task op for c is queued. *)
Pending(op, c) == Has(Queue, <<op, c>>)

(* the types of the variables that matter here *)
ServerTypes ==
  /\ owner \in [Fds -> Conns \cup {None}]
  /\ interest \in [Fds -> (SUBSET {"in", "out"}) \cup {None}]
  /\ rcv \in [Conns -> Nat]
  /\ peer \in [Conns -> {"none", "open", "fin", "rst", "closed"}]
  /\ channels_ \in [Fds -> Conns \cup {None}]
  /\ conn \in [Conns -> Connection \cup {None}]
  /\ tasks_ \in Seq(TaskSet) /\ tasks \in Seq(TaskSet)
  /\ lpc \in {"events", "tasks"} /\ cur \in Conns \cup {None}
  /\ revents \in [Conns -> SUBSET {"in", "out", "err", "hup"}]
  /\ conns_ \subseteq Conns /\ building \in Conns \cup {None} /\ baseTasks \in Seq(Conns)
  /\ held \subseteq Conns /\ shut \subseteq Conns /\ timer \subseteq Conns
  /\ ends \in [Conns -> SUBSET Reasons]
  /\ owed \in [Conns -> Nat] /\ closes \in [Conns -> Nat]

(* The loop handles events or runs tasks; a tick is reported while there is a *)
(* timer; NewConnection is the base loop between push_back and WriteEventfd. *)
LoopPhase ==
  /\ lpc = "tasks" => active = {} /\ cur = None
  /\ lpc = "events" => tasks = <<>>
  /\ Timerfd \in active => timer # {}
  /\ building # None <=> "base" \in pushing

(* Nothing refers to a connection that was not yet accepted. *)
Unborn(c) ==
  /\ owed[c] = 0 /\ closes[c] = 0 /\ ends[c] = {}
  /\ c \notin held \cup active \cup timer \cup shut \cup conns_ /\ cur # c /\ building # c
  /\ \A f \in Fds : channels_[f] # c /\ owner[f] # c
  /\ \A op \in Ops : ~Pending(op, c)
  /\ ~Has(baseTasks, c)

(* Its descriptor is open until it is released. *)
Descriptor(c) ==
  /\ conn[c].open <=> closes[c] = 0
  /\ conn[c].open => owner[conn[c].fd] = c
  /\ \A f \in Fds : owner[f] = c => conn[c].open /\ conn[c].fd = f
  /\ \A f \in Fds : channels_[f] = c => conn[c].fd = f
  /\ peer[c] = "closed" <=> closes[c] > 0

(* TcpServer or NewConnection keeps it until it is released, and drops it    *)
(* after that.                                                             *)
Kept(c) ==
  /\ closes[c] = 0 => c \in conns_ \/ building = c
  /\ closes[c] > 0 /\ (c \in conns_ \/ building = c) => Has(baseTasks, c)
  /\ Has(baseTasks, c) => closes[c] > 0

(* The task for Established comes before all others, and before anybody knows *)
(* the connection.                                                         *)
Young(c) ==
  /\ Unique(Queue, <<"established", c>>)
  /\ Pending("established", c) =>
       /\ c \notin held \cup active \cup timer \cup shut /\ cur # c
       /\ closes[c] = 0 /\ ends[c] = {}
       /\ conn[c].statu_ = "CONNECTING" /\ conn[c].events = {} /\ conn[c].obuffer = 0
       /\ \A f \in Fds : channels_[f] # c
       /\ \A op \in Ops \ {"established"} : ~Pending(op, c)

(* What is owed is still in obuffer, and nothing is when the connection is     *)
(* released or about to be.                                                *)
Paid(c) ==
  /\ owed[c] <= conn[c].obuffer
  /\ (closes[c] > 0 \/ Pending("release", c)) /\ ends[c] \cap {"reset", "idle"} = {} => owed[c] = 0

(* for one connection, and for all *)
ConnInv(c) ==
  IF conn[c] = None THEN Unborn(c)
  ELSE Descriptor(c) /\ Kept(c) /\ Young(c) /\ Paid(c)

ServerInv == ServerTypes /\ LoopPhase /\ \A c \in Conns : ConnInv(c)

-----------------------------------------------------------------------------
(* Queues.                                                                 *)

(* An empty queue holds nothing. *)
LEMMA HasEmpty == \A x : ~Has(<<>>, x) /\ Unique(<<>>, x)
  BY DEF Has, Unique

(* What is not there is not there twice. *)
LEMMA HasNone ==
  ASSUME NEW q, NEW x, ~Has(q, x)
  PROVE  Unique(q, x)
  BY DEF Has, Unique

(* two sequences, one after the other *)
LEMMA HasConcat ==
  ASSUME NEW S, NEW p \in Seq(S), NEW q \in Seq(S)
  PROVE  /\ p \o q \in Seq(S)
         /\ \A x : Has(p \o q, x) <=> Has(p, x) \/ Has(q, x)
         /\ \A x : Unique(p, x) /\ Unique(q, x) /\ ~(Has(p, x) /\ Has(q, x)) => Unique(p \o q, x)
         /\ \A x, y : /\ Before(p, x, y) /\ Before(q, x, y) /\ ~(Has(p, y) /\ Has(q, x))
                      => Before(p \o q, x, y)
  <1>0. PICK m \in Nat, n \in Nat, s \in Seq(S) : m = Len(p) /\ n = Len(q) /\ s = p \o q
    <2>1. Len(p) \in Nat /\ Len(q) \in Nat /\ p \o q \in Seq(S)
      BY LenProperties, ConcatProperties
    <2>2. QED
      BY <2>1
  <1>1. /\ Len(s) = m + n
        /\ \A i \in 1..m : s[i] = p[i] /\ i \in 1..(m + n)
        /\ \A i \in 1..n : s[m + i] = q[i] /\ m + i \in 1..(m + n)
    <2>1. Len(s) = m + n /\ \A i \in 1..(m + n) : s[i] = IF i <= m THEN p[i] ELSE q[i - m]
      BY <1>0, ConcatProperties
    <2>2. \A i \in 1..m : i <= m /\ i \in 1..(m + n)
      BY <1>0
    <2>3. \A i \in 1..n : ~(m + i <= m) /\ (m + i) - m = i /\ m + i \in 1..(m + n)
      BY <1>0
    <2>4. QED
      BY <2>1, <2>2, <2>3
  <1>2. \A k \in 1..(m + n) : k \in 1..m \/ \E i \in 1..n : k = m + i
    <2>1. \A k \in 1..(m + n) : ~(k \in 1..m) => k - m \in 1..n /\ k = m + (k - m)
      BY <1>0
    <2>2. QED
      BY <2>1
  <1>3. ASSUME NEW x PROVE Has(s, x) <=> Has(p, x) \/ Has(q, x)
    <2>1. Has(p, x) \/ Has(q, x) => Has(s, x)
      BY <1>0, <1>1 DEF Has
    <2>2. ASSUME Has(s, x) PROVE Has(p, x) \/ Has(q, x)
      <3>1. PICK k \in 1..(m + n) : s[k] = x
        BY <1>1, <2>2 DEF Has
      <3>2. QED
        BY <1>0, <1>1, <1>2, <3>1 DEF Has
    <2>3. QED
      BY <2>1, <2>2
  <1>4. ASSUME NEW x, Unique(p, x), Unique(q, x), ~(Has(p, x) /\ Has(q, x))
        PROVE  Unique(s, x)
    <2> SUFFICES ASSUME NEW k \in 1..(m + n), NEW l \in 1..(m + n), s[k] = x, s[l] = x PROVE k = l
      BY <1>1 DEF Unique
    <2>1. CASE k \in 1..m
      <3>1. Has(p, x)
        BY <1>0, <1>1, <2>1 DEF Has
      <3>2. l \in 1..m
        <4>1. \A j \in 1..n : q[j] # x
          BY <1>0, <1>4, <3>1 DEF Has
        <4>2. ASSUME NEW j \in 1..n, l = m + j PROVE FALSE
          <5>1. s[l] = q[j]
            BY <1>1, <4>2
          <5>2. QED
            BY <4>1, <5>1
        <4>3. QED
          BY <1>2, <4>2
      <3>3. QED
        BY <1>0, <1>1, <1>4, <2>1, <3>2 DEF Unique
    <2>2. ASSUME NEW i \in 1..n, k = m + i PROVE k = l
      <3>1. q[i] = x /\ Has(q, x)
        BY <1>0, <1>1, <2>2 DEF Has
      <3>2. PICK j \in 1..n : l = m + j
        <4>1. ~Has(p, x)
          BY <1>4, <3>1
        <4>2. ASSUME l \in 1..m PROVE FALSE
          <5>1. p[l] = x
            BY <1>1, <4>2
          <5>2. QED
            BY <1>0, <4>1, <4>2, <5>1 DEF Has
        <4>3. ~(l \in 1..m)
          BY <4>2
        <4>4. QED
          BY <1>2, <4>3
      <3>3. q[j] = x
        BY <1>1, <3>2
      <3>4. i = j
        BY <1>0, <1>4, <3>1, <3>3 DEF Unique
      <3>5. QED
        BY <2>2, <3>2, <3>4
    <2>3. QED
      BY <1>2, <2>1, <2>2
  <1>5. ASSUME NEW x, NEW y, Before(p, x, y), Before(q, x, y), ~(Has(p, y) /\ Has(q, x))
        PROVE  Before(s, x, y)
    <2> SUFFICES ASSUME NEW k \in 1..(m + n), NEW l \in 1..(m + n), k < l, s[k] = y, s[l] = x
                 PROVE  FALSE
      BY <1>1 DEF Before
    <2>1. CASE k \in 1..m
      <3>1. Has(p, y)
        BY <1>0, <1>1, <2>1 DEF Has
      <3>2. l \in 1..m
        <4>1. \A j \in 1..n : q[j] # x
          BY <1>0, <1>5, <3>1 DEF Has
        <4>2. QED
          BY <1>1, <1>2, <4>1
      <3>3. QED
        BY <1>0, <1>1, <1>5, <2>1, <3>2 DEF Before
    <2>2. ASSUME NEW i \in 1..n, k = m + i PROVE FALSE
      <3>1. ~(l \in 1..m)
        BY <1>0, <2>2
      <3>2. PICK j \in 1..n : l = m + j
        BY <1>2, <3>1
      <3>3. i < j
        BY <1>0, <2>2, <3>2
      <3>4. q[i] = y /\ q[j] = x
        BY <1>1, <2>2, <3>2
      <3>5. QED
        BY <1>0, <1>5, <3>3, <3>4 DEF Before
    <2>3. QED
      BY <1>2, <2>1, <2>2
  <1>6. QED
    BY <1>0, <1>3, <1>4, <1>5

(* what Tail takes away: the first *)
LEMMA HasTail ==
  ASSUME NEW S, NEW q \in Seq(S), q # <<>>
  PROVE  /\ Tail(q) \in Seq(S) /\ Head(q) \in S /\ Has(q, Head(q))
         /\ \A x : Has(Tail(q), x) => Has(q, x)
         /\ \A x : Has(q, x) => x = Head(q) \/ Has(Tail(q), x)
         /\ \A x : Unique(q, x) => Unique(Tail(q), x)
         /\ Unique(q, Head(q)) => ~Has(Tail(q), Head(q))
         /\ \A x, y : Before(q, x, y) => Before(Tail(q), x, y)
         /\ \A x : Before(q, x, Head(q)) /\ x # Head(q) => ~Has(q, x)
  <1>0. PICK n \in Nat \ {0}, p \in Seq(S) : n = Len(q) /\ p = Tail(q)
    BY EmptySeq, HeadTailProperties
  <1>1. /\ n = Len(q) /\ p = Tail(q) /\ Len(p) = n - 1 /\ Head(q) = q[1]
        /\ \A i \in 1..(n - 1) : p[i] = q[i + 1]
    BY <1>0, HeadTailProperties
  <1>2. \A i \in 1..(n - 1) : i + 1 \in 1..n /\ i + 1 # 1
    OBVIOUS
  <1>3. 1 \in 1..n /\ \A k \in 1..n : k # 1 => k - 1 \in 1..(n - 1) /\ (k - 1) + 1 = k /\ 1 < k
    OBVIOUS
  <1>4. \A i, j \in 1..(n - 1) : (i + 1 = j + 1 => i = j) /\ (i < j => i + 1 < j + 1)
    OBVIOUS
  <1>5. \A x : Has(p, x) => Has(q, x)
    BY <1>1, <1>2 DEF Has
  <1>6. ASSUME NEW x, Has(q, x), x # Head(q) PROVE Has(p, x)
    <2>1. PICK k \in 1..n : q[k] = x
      BY <1>1, <1>6 DEF Has
    <2>2. k # 1
      BY <1>1, <1>6, <2>1
    <2>3. k - 1 \in 1..(n - 1) /\ p[k - 1] = x
      BY <1>1, <1>3, <2>1, <2>2
    <2>4. QED
      BY <1>1, <2>3 DEF Has
  <1>7. ASSUME NEW x, Unique(q, x) PROVE Unique(p, x)
    <2> SUFFICES ASSUME NEW i \in 1..(n - 1), NEW j \in 1..(n - 1), p[i] = x, p[j] = x PROVE i = j
      BY <1>1 DEF Unique
    <2>1. q[i + 1] = x /\ q[j + 1] = x
      BY <1>1
    <2>2. i + 1 = j + 1
      BY <1>1, <1>2, <1>7, <2>1 DEF Unique
    <2>3. QED
      BY <1>4, <2>2
  <1>8. Has(q, Head(q)) /\ (Unique(q, Head(q)) => ~Has(p, Head(q)))
    BY <1>1, <1>2, <1>3 DEF Has, Unique
  <1>9. ASSUME NEW x, NEW y, Before(q, x, y) PROVE Before(p, x, y)
    BY <1>1, <1>2, <1>4, <1>9 DEF Before
  <1>10. ASSUME NEW x, Before(q, x, Head(q)), x # Head(q) PROVE ~Has(q, x)
    BY <1>1, <1>3, <1>10 DEF Before, Has
  <1>11. Tail(q) \in Seq(S) /\ Head(q) \in S
    OBVIOUS
  <1>12. QED
    BY <1>1, <1>5, <1>6, <1>7, <1>8, <1>9, <1>10, <1>11

(* Taking the first of two sequences, of which the first is not empty *)
LEMMA TailConcat ==
  ASSUME NEW S, NEW p \in Seq(S), NEW q \in Seq(S), p # <<>>
  PROVE  p \o q # <<>> /\ Head(p \o q) = Head(p) /\ Tail(p \o q) = Tail(p) \o q
  <1>1. /\ Len(p) \in Nat \ {0} /\ Len(q) \in Nat /\ Tail(p) \in Seq(S) /\ Len(Tail(p)) = Len(p) - 1
        /\ \A i \in 1..(Len(p) - 1) : Tail(p)[i] = p[i + 1]
    BY EmptySeq, HeadTailProperties
  <1>2. /\ p \o q \in Seq(S) /\ Len(p \o q) = Len(p) + Len(q)
        /\ \A i \in 1..(Len(p) + Len(q)) : (p \o q)[i] = IF i <= Len(p) THEN p[i] ELSE q[i - Len(p)]
    BY ConcatProperties
  <1>3. p \o q # <<>>
    BY <1>1, <1>2
  <1>4. /\ Tail(p \o q) \in Seq(S) /\ Len(Tail(p \o q)) = Len(p) + Len(q) - 1
        /\ \A i \in 1..(Len(p) + Len(q) - 1) : Tail(p \o q)[i] = (p \o q)[i + 1]
    BY <1>2, <1>3, HeadTailProperties
  <1>5. /\ Tail(p) \o q \in Seq(S) /\ Len(Tail(p) \o q) = Len(p) - 1 + Len(q)
        /\ \A i \in 1..(Len(p) - 1 + Len(q)) :
             (Tail(p) \o q)[i] = IF i <= Len(p) - 1 THEN Tail(p)[i] ELSE q[i - (Len(p) - 1)]
    BY <1>1, ConcatProperties
  <1>6. Len(Tail(p \o q)) = Len(Tail(p) \o q)
    BY <1>1, <1>4, <1>5
  <1>7. ASSUME NEW i \in 1..Len(Tail(p \o q)) PROVE Tail(p \o q)[i] = (Tail(p) \o q)[i]
    <2>1. i \in 1..(Len(p) + Len(q) - 1) /\ i \in 1..(Len(p) - 1 + Len(q)) /\ i + 1 \in 1..(Len(p) + Len(q))
      BY <1>1, <1>4
    <2>2. CASE i <= Len(p) - 1
      <3>1. i + 1 <= Len(p) /\ i \in 1..(Len(p) - 1)
        BY <1>1, <2>1, <2>2
      <3>2. QED
        BY <1>1, <1>2, <1>4, <1>5, <2>1, <2>2, <3>1
    <2>3. CASE ~(i <= Len(p) - 1)
      <3>1. ~(i + 1 <= Len(p)) /\ (i + 1) - Len(p) = i - (Len(p) - 1)
        BY <1>1, <2>1, <2>3
      <3>2. QED
        BY <1>2, <1>4, <1>5, <2>1, <2>3, <3>1
    <2>4. QED
      BY <2>2, <2>3
  <1>8. Tail(p \o q) = Tail(p) \o q
    BY <1>4, <1>5, <1>6, <1>7, SeqEqual
  <1>9. Head(p \o q) = Head(p)
    <2>1. 1 \in 1..(Len(p) + Len(q)) /\ 1 <= Len(p)
      BY <1>1
    <2>2. (p \o q)[1] = p[1]
      BY <1>2, <2>1
    <2>3. QED
      BY <1>2, <1>3, <2>2, HeadTailProperties
  <1>10. QED
    BY <1>3, <1>8, <1>9

(* the two queues as one *)
LEMMA QueueIs ==
  ASSUME ServerTypes
  PROVE  /\ Queue \in Seq(TaskSet) /\ tasks \in Seq(TaskSet) /\ tasks_ \in Seq(TaskSet)
         /\ \A x : Has(Queue, x) <=> Has(tasks, x) \/ Has(tasks_, x)
         /\ \A x : Has(tasks_ \o tasks, x) <=> Has(Queue, x)
  <1>1. tasks \in Seq(TaskSet) /\ tasks_ \in Seq(TaskSet)
    BY DEF ServerTypes
  <1>2. QED
    BY <1>1, HasConcat DEF Queue

(* what a handler or task of c may push *)
Rel(c) == <<"release", c>>
Pushes(c) == {<<>>, <<Rel(c)>>, <<Rel(c), Rel(c)>>}

LEMMA PushesDiffer ==
  ASSUME NEW c
  PROVE  <<>> # <<Rel(c), Rel(c)>> /\ <<Rel(c)>> # <<Rel(c), Rel(c)>> /\ <<Rel(c)>> # <<>>
  <1>1. PICK x : x = Rel(c)
    OBVIOUS
  <1>2. Len(<<>>) = 0 /\ Len(<<x>>) = 1 /\ Len(<<x, x>>) = 2
    OBVIOUS
  <1>3. <<>> # <<x, x>> /\ <<x>> # <<x, x>> /\ <<x>> # <<>>
    BY <1>2
  <1>4. QED
    BY <1>1, <1>3

LEMMA PushesAre ==
  ASSUME NEW c \in Conns, NEW p \in Pushes(c)
  PROVE  /\ p \in Seq(TaskSet)
         /\ \A x : Has(p, x) <=> p # <<>> /\ x = Rel(c)
         /\ \A x : x # Rel(c) \/ p # <<Rel(c), Rel(c)>> => Unique(p, x)
         /\ \A x, y : x # Rel(c) => Before(p, x, y)
  <1>0. Rel(c) \in TaskSet
    BY DEF Rel, TaskSet, Ops
  <1>1. CASE p = <<>>
    BY <1>1, HasEmpty DEF Before
  <1>2. CASE p = <<Rel(c)>>
    <2>1. p \in Seq(TaskSet) /\ Len(p) = 1 /\ p[1] = Rel(c) /\ p # <<>>
      BY <1>0, <1>2
    <2>2. 1..1 = {1}
      OBVIOUS
    <2>3. QED
      BY <2>1, <2>2 DEF Has, Unique, Before
  <1>3. CASE p = <<Rel(c), Rel(c)>>
    <2>1. p \in Seq(TaskSet) /\ Len(p) = 2 /\ p[1] = Rel(c) /\ p[2] = Rel(c) /\ p # <<>>
      BY <1>0, <1>3
    <2>2. 1..2 = {1, 2}
      OBVIOUS
    <2>3. QED
      BY <1>3, <2>1, <2>2 DEF Has, Unique, Before
  <1>4. QED
    BY <1>1, <1>2, <1>3 DEF Pushes

(* A handler of c puts p into the queue. *)
Handles(c, p) == tasks' = tasks /\ tasks_' = tasks_ \o p

(* The task op of c is run and puts p into the queue. *)
Executes(op, c, p) ==
  /\ tasks # <<>> /\ Head(tasks) = <<op, c>>
  /\ tasks' = Tail(tasks) /\ tasks_' = tasks_ \o p

(* what is pushed in front of p *)
QueueGets(q, c, p) ==
  /\ tasks' \in Seq(TaskSet) /\ tasks_' \in Seq(TaskSet)
  /\ \A x : Has(Queue', x) <=> Has(q, x) \/ (p # <<>> /\ x = Rel(c))
  /\ \A x : Has(tasks_', x) <=> Has(tasks_, x) \/ (p # <<>> /\ x = Rel(c))
  /\ \A x : x # Rel(c) /\ Unique(q, x) => Unique(Queue', x)
  /\ \/ p = <<>>
     \/ p = <<Rel(c)>> /\ ~Has(q, Rel(c))
     => (Unique(q, Rel(c)) => Unique(Queue', Rel(c)))
  /\ \A x, y : x # Rel(c) /\ Before(q, x, y) => Before(Queue', x, y)

LEMMA GetsConcat ==
  ASSUME NEW c \in Conns, NEW p \in Pushes(c), NEW q \in Seq(TaskSet), Queue' = q \o p,
         tasks' \in Seq(TaskSet), tasks_ \in Seq(TaskSet), tasks_' = tasks_ \o p
  PROVE  QueueGets(q, c, p)
  <1>1. /\ p \in Seq(TaskSet)
        /\ \A x : Has(p, x) <=> p # <<>> /\ x = Rel(c)
        /\ \A x : x # Rel(c) \/ p # <<Rel(c), Rel(c)>> => Unique(p, x)
        /\ \A x, y : x # Rel(c) => Before(p, x, y)
    BY PushesAre
  <1>2. tasks_' \in Seq(TaskSet) /\ \A x : Has(tasks_', x) <=> Has(tasks_, x) \/ Has(p, x)
    BY <1>1, HasConcat
  <1>3. /\ \A x : Has(Queue', x) <=> Has(q, x) \/ Has(p, x)
        /\ \A x : Unique(q, x) /\ Unique(p, x) /\ ~(Has(q, x) /\ Has(p, x)) => Unique(Queue', x)
        /\ \A x, y : /\ Before(q, x, y) /\ Before(p, x, y) /\ ~(Has(q, y) /\ Has(p, x))
                     => Before(Queue', x, y)
    BY <1>1, HasConcat
  <1>4. p = <<>> \/ p = <<Rel(c)>> => p # <<Rel(c), Rel(c)>>
    BY PushesDiffer
  <1>5. QED
    BY <1>1, <1>2, <1>3, <1>4 DEF QueueGets

LEMMA HandlesQueue ==
  ASSUME ServerTypes, NEW c \in Conns, NEW p \in Pushes(c), Handles(c, p)
  PROVE  QueueGets(Queue, c, p)
  <1>1. p \in Seq(TaskSet) /\ tasks \in Seq(TaskSet) /\ tasks_ \in Seq(TaskSet) /\ Queue \in Seq(TaskSet)
    BY PushesAre, QueueIs
  <1>2. Queue' = tasks \o (tasks_ \o p)
    BY DEF Queue, Handles
  <1>3. Queue' = Queue \o p
    BY <1>1, <1>2, ConcatAssociative DEF Queue
  <1>4. QED
    BY <1>1, <1>3, GetsConcat DEF Handles

LEMMA ExecutesQueue ==
  ASSUME ServerTypes, NEW c \in Conns, NEW op \in Ops, NEW p \in Pushes(c), Executes(op, c, p)
  PROVE  /\ Queue # <<>> /\ Head(Queue) = <<op, c>> /\ Queue \in Seq(TaskSet)
         /\ QueueGets(Tail(Queue), c, p)
  <1>1. p \in Seq(TaskSet) /\ tasks \in Seq(TaskSet) /\ tasks_ \in Seq(TaskSet) /\ Queue \in Seq(TaskSet)
    BY PushesAre, QueueIs
  <1>2. /\ tasks # <<>> /\ Head(tasks) = <<op, c>>
        /\ tasks' = Tail(tasks) /\ tasks_' = tasks_ \o p
    BY DEF Executes
  <1>3. Queue # <<>> /\ Head(Queue) = <<op, c>> /\ Tail(Queue) = Tail(tasks) \o tasks_
    BY <1>1, <1>2, TailConcat DEF Queue
  <1>4. Tail(tasks) \in Seq(TaskSet) /\ Tail(Queue) \in Seq(TaskSet)
    BY <1>1, <1>2, <1>3
  <1>5. Queue' = Tail(tasks) \o (tasks_ \o p)
    BY <1>2 DEF Queue
  <1>6. Queue' = Tail(Queue) \o p
    <2>1. (Tail(tasks) \o tasks_) \o p = Tail(tasks) \o (tasks_ \o p)
      BY <1>1, <1>4, ConcatAssociative
    <2>2. QED
      BY <1>3, <1>5, <2>1
  <1>7. QED
    BY <1>1, <1>2, <1>3, <1>4, <1>6, GetsConcat

(* ExecTaskInQueue swaps the queues. *)
LEMMA SwapQueue ==
  ASSUME ServerTypes, tasks = <<>>, tasks' = tasks_, tasks_' = <<>>
  PROVE  Queue' = Queue
  <1>1. tasks_ \in Seq(TaskSet)
    BY DEF ServerTypes
  <1>2. Queue' = tasks_ \o <<>> /\ Queue = <<>> \o tasks_
    BY DEF Queue
  <1>3. QED
    BY <1>1, <1>2, ConcatEmptySeq

(* PushTaskToQueue by another thread *)
LEMMA FromQueue ==
  ASSUME ServerTypes, NEW c \in Conns, NEW op \in Ops, NEW t, PushFrom(t, op, c)
  PROVE  /\ tasks' \in Seq(TaskSet) /\ tasks_' \in Seq(TaskSet)
         /\ Queue \in Seq(TaskSet) /\ Queue' = Append(Queue, <<op, c>>)
         /\ \A x : Has(Queue', x) <=> Has(Queue, x) \/ x = <<op, c>>
         /\ \A x : Has(tasks_', x) <=> Has(tasks_, x) \/ x = <<op, c>>
         /\ \A x : Unique(Queue, x) /\ (x # <<op, c>> \/ ~Has(Queue, x)) => Unique(Queue', x)
         /\ \A x, y : /\ Before(Queue, x, y) /\ x # y /\ (x # <<op, c>> \/ ~Has(Queue, y))
                      => Before(Queue', x, y)
  <1>1. /\ tasks \in Seq(TaskSet) /\ tasks_ \in Seq(TaskSet) /\ Queue \in Seq(TaskSet)
        /\ <<op, c>> \in TaskSet
    BY QueueIs DEF TaskSet
  <1>y. PICK y \in TaskSet : y = <<op, c>>
    BY <1>1
  <1>p. <<y>> \in Seq(TaskSet)
    BY <1>y
  <1>2. PICK p \in Seq(TaskSet) : p = <<y>>
    BY <1>p
  <1>3. /\ \A x : Has(p, x) <=> x = y
        /\ \A x : Unique(p, x)
        /\ \A x, z : x # z => Before(p, x, z)
    <2>1. Len(p) = 1 /\ p[1] = y
      BY <1>2
    <2>2. \A i \in 1..1 : i = 1
      BY SMT
    <2>3. 1 \in 1..1
      BY SMT
    <2>4. \A x : Has(p, x) <=> x = y
      BY <2>1, <2>2, <2>3 DEF Has
    <2>5. \A x : Unique(p, x)
      BY <2>1, <2>2 DEF Unique
    <2>6. \A x, z : x # z => Before(p, x, z)
      BY <2>1, <2>2 DEF Before
    <2>7. QED
      BY <2>4, <2>5, <2>6
  <1>4. tasks' = tasks /\ tasks_' = tasks_ \o p
    BY <1>1, <1>2, <1>y, AppendIsConcat DEF PushFrom
  <1>5. Queue' = tasks \o (tasks_ \o p)
    BY <1>4 DEF Queue
  <1>6. Queue' = Queue \o p
    BY <1>1, <1>5, ConcatAssociative DEF Queue
  <1>7. Queue' = Append(Queue, <<op, c>>)
    BY <1>1, <1>2, <1>y, <1>6, AppendIsConcat
  <1>8. tasks_' \in Seq(TaskSet) /\ \A x : Has(tasks_', x) <=> Has(tasks_, x) \/ Has(p, x)
    BY <1>1, <1>4, HasConcat
  <1>9. /\ \A x : Has(Queue', x) <=> Has(Queue, x) \/ Has(p, x)
        /\ \A x : Unique(Queue, x) /\ Unique(p, x) /\ ~(Has(Queue, x) /\ Has(p, x)) => Unique(Queue', x)
        /\ \A x, z : /\ Before(Queue, x, z) /\ Before(p, x, z) /\ ~(Has(Queue, z) /\ Has(p, x))
                     => Before(Queue', x, z)
    BY <1>1, <1>6, HasConcat
  <1>10. QED
    BY <1>1, <1>3, <1>4, <1>7, <1>8, <1>9, <1>y

-----------------------------------------------------------------------------
(* What the handlers and the tasks do to a connection.                     *)

(* the members of a Connection *)
LEMMA Members ==
  ASSUME NEW r \in Connection
  PROVE  /\ r.fd \in Fds /\ r.open \in BOOLEAN /\ r.ibuffer \in Nat /\ r.obuffer \in Nat
         /\ r.events \in SUBSET {"in", "out"} /\ r # None
         /\ r.statu_ \in {"CONNECTING", "CONNECTED", "DISCONNECTING", "DISCONNECTED"}
  BY NoneAssumption DEF Connection

(* what a handler leaves of the members: the descriptor *)
SameFd(r, s) == r.fd = s.fd /\ r.open = s.open

(* Reads are monitored, and writes while there is output. *)
Tuned(r) == "in" \in r.events /\ ("out" \in r.events <=> r.obuffer > 0)

(* Send adds to the output and leaves the state alone. *)
LEMMA SentIs ==
  ASSUME NEW r \in Connection
  PROVE  /\ Sent(r) \in Connection /\ SameFd(Sent(r), r) /\ Sent(r).statu_ = r.statu_
         /\ Sent(r).obuffer >= r.obuffer /\ (Tuned(r) => Tuned(Sent(r)))
         /\ r.statu_ = "DISCONNECTED" => Sent(r) = r
  <1>1. CASE r.statu_ = "DISCONNECTED"
    BY <1>1, Members DEF Sent, SameFd
  <1>2. CASE r.statu_ # "DISCONNECTED"
    <2>0. r.events \cup {"out"} \in SUBSET {"in", "out"}
      BY Members, Zenon
    <2>n. r.obuffer + 1 \in Nat
      BY Members
    <2>1. PICK e \in SUBSET {"in", "out"}, n \in Nat : e = r.events \cup {"out"} /\ n = r.obuffer + 1
      BY <2>0, <2>n
    <2>2. PICK s : s = [r EXCEPT !.obuffer = n, !.events = e]
      OBVIOUS
    <2>3. /\ s \in Connection /\ s.fd = r.fd /\ s.open = r.open /\ s.statu_ = r.statu_ /\ s.obuffer = n
          /\ s.events = e
      BY <2>2 DEF Connection
    <2>4. Sent(r) = s
      BY <1>2, <2>1, <2>2 DEF Sent
    <2>5. n >= r.obuffer /\ n > 0
      BY <2>1, Members
    <2>6. Tuned(r) => Tuned(s)
      <3>1. "out" \in e /\ ("in" \in r.events => "in" \in e)
        BY <2>1
      <3>2. QED
        BY <2>3, <2>5, <3>1 DEF Tuned
    <2>7. QED
      BY <1>2, <2>3, <2>4, <2>5, <2>6 DEF SameFd
  <1>3. QED
    BY <1>1, <1>2

(* So does message_callback_. *)
LEMMA MessageIs ==
  ASSUME NEW r \in Connection, NEW take \in BOOLEAN, NEW reply \in BOOLEAN
  PROVE  /\ Message(r, take, reply) \in Connection /\ SameFd(Message(r, take, reply), r)
         /\ Message(r, take, reply).statu_ = r.statu_
         /\ Message(r, take, reply).obuffer >= r.obuffer
         /\ Tuned(r) => Tuned(Message(r, take, reply))
  <1>1. PICK q : q = IF take THEN [r EXCEPT !.ibuffer = 0] ELSE r
    OBVIOUS
  <1>2. /\ q \in Connection /\ q.fd = r.fd /\ q.open = r.open /\ q.statu_ = r.statu_
        /\ q.obuffer = r.obuffer /\ q.events = r.events
    BY <1>1 DEF Connection
  <1>3. Message(r, take, reply) = IF reply THEN Sent(q) ELSE q
    BY <1>1 DEF Message
  <1>4. Tuned(r) => Tuned(q)
    BY <1>2 DEF Tuned
  <1>5. QED
    BY <1>2, <1>3, <1>4, SentIs, Members DEF SameFd

(* Shutdown makes the connection DISCONNECTING. *)
LEMMA ShutIs ==
  ASSUME NEW r \in Connection, NEW take \in BOOLEAN, NEW reply \in BOOLEAN
  PROVE  /\ Shut(r, take, reply) \in Connection /\ SameFd(Shut(r, take, reply), r)
         /\ Shut(r, take, reply).statu_ = "DISCONNECTING"
         /\ Shut(r, take, reply).obuffer >= r.obuffer
         /\ Tuned(r) => Tuned(Shut(r, take, reply))
  <1>1. PICK q : q = [r EXCEPT !.statu_ = "DISCONNECTING"]
    OBVIOUS
  <1>2. /\ q \in Connection /\ q.fd = r.fd /\ q.open = r.open /\ q.statu_ = "DISCONNECTING"
        /\ q.obuffer = r.obuffer /\ q.events = r.events
    BY <1>1 DEF Connection
  <1>3. PICK s : s = IF q.ibuffer > 0 THEN Message(q, take, reply) ELSE q
    OBVIOUS
  <1>4. /\ s \in Connection /\ s.fd = r.fd /\ s.open = r.open /\ s.statu_ = "DISCONNECTING"
        /\ s.obuffer >= r.obuffer /\ (Tuned(r) => Tuned(s))
    <2>1. q.obuffer >= r.obuffer /\ (Tuned(r) => Tuned(q))
      BY <1>2, Members DEF Tuned
    <2>2. CASE q.ibuffer > 0
      <3>1. s = Message(q, take, reply)
        BY <1>3, <2>2
      <3>2. /\ s \in Connection /\ s.fd = q.fd /\ s.open = q.open /\ s.statu_ = q.statu_
            /\ s.obuffer >= q.obuffer /\ (Tuned(q) => Tuned(s))
        BY <1>2, <3>1, MessageIs DEF SameFd
      <3>3. QED
        BY <1>2, <2>1, <3>2
    <2>3. CASE ~(q.ibuffer > 0)
      BY <1>2, <1>3, <2>1, <2>3
    <2>4. QED
      BY <2>2, <2>3
  <1>5. PICK t : t = [s EXCEPT !.events = @ \cup {"out"}]
    OBVIOUS
  <1>6. /\ t \in Connection /\ t.fd = s.fd /\ t.open = s.open /\ t.statu_ = s.statu_
        /\ t.obuffer = s.obuffer
    BY <1>4, <1>5 DEF Connection
  <1>7. Shut(r, take, reply) = IF s.obuffer > 0 THEN t ELSE s
    BY <1>1, <1>3, <1>5 DEF Shut
  <1>8. s.obuffer > 0 /\ Tuned(s) => Tuned(t)
    <2>1. "out" \in t.events /\ ("in" \in s.events => "in" \in t.events)
      BY <1>4, <1>5 DEF Connection
    <2>2. QED
      BY <1>6, <2>1 DEF Tuned
  <1>9. QED
    BY <1>4, <1>6, <1>7, <1>8 DEF SameFd

(* The Epoller has the channel of c, and epoll watches for what c asked for. *)
Known(c) ==
  /\ conn[c] \in Connection /\ owner[conn[c].fd] = c
  /\ channels_[conn[c].fd] = c /\ interest[conn[c].fd] = conn[c].events

(* c becomes r, and may get a channel for its descriptor. *)
Turns(c, r) ==
  /\ r \in Connection /\ SameFd(r, conn[c])
  /\ conn' = [conn EXCEPT ![c] = r]
  /\ channels_' \in [Fds -> Conns \cup {None}]
  /\ interest' \in [Fds -> (SUBSET {"in", "out"}) \cup {None}]
  /\ \A f \in Fds : channels_'[f] = channels_[f] \/ (channels_'[f] = c /\ f = r.fd)
  /\ r = conn[c] => channels_' = channels_ /\ interest' = interest
  /\ Known(c) => channels_' = channels_ /\ interest' = [interest EXCEPT ![r.fd] = r.events]

(* A change of the members, passed on to the Epoller *)
LEMMA BecomesTurns ==
  ASSUME ServerTypes, NEW c \in Conns, NEW r \in Connection, SameFd(r, conn[c]), Becomes(c, r)
  PROVE  Turns(c, r)
  <1>1. r.fd \in Fds /\ r.events \in SUBSET {"in", "out"}
    BY Members
  <1>2. CASE r.events = conn[c].events
    BY <1>1, <1>2 DEF Becomes, Turns, ServerTypes, Known, SameFd
  <1>3. CASE r.events # conn[c].events
    <2>1. UpdateEventMonitor(c, r) /\ conn' = [conn EXCEPT ![c] = r]
      BY <1>3 DEF Becomes
    <2>2. /\ channels_' \in [Fds -> Conns \cup {None}]
          /\ \A f \in Fds : channels_'[f] = channels_[f] \/ (channels_'[f] = c /\ f = r.fd)
      BY <1>1, <2>1 DEF UpdateEventMonitor, ServerTypes
    <2>3. interest' \in [Fds -> (SUBSET {"in", "out"}) \cup {None}]
      BY <1>1, <2>1 DEF UpdateEventMonitor, ServerTypes
    <2>4. ASSUME Known(c)
          PROVE  channels_' = channels_ /\ interest' = [interest EXCEPT ![r.fd] = r.events]
      <3>1. c # None
        BY ServerAssumption
      <3>2. interest[r.fd] # None
        BY <2>4, Members, NoneAssumption DEF Known, SameFd
      <3>3. QED
        BY <2>1, <2>4, <3>1, <3>2 DEF UpdateEventMonitor, Known, SameFd
    <2>5. QED
      BY <1>3, <2>1, <2>2, <2>3, <2>4 DEF Turns
  <1>4. QED
    BY <1>2, <1>3

(* A step that leaves the members of c alone *)
LEMMA SameTurns ==
  ASSUME ServerTypes, NEW c \in Conns, conn[c] \in Connection, UNCHANGED <<conn, channels_, interest>>
  PROVE  Turns(c, conn[c])
  BY DEF Turns, SameFd, ServerTypes, Known

(* c is being released, or was. *)
Going(c) == closes[c] > 0 \/ Pending("release", c)

LEMMA ReleasingIs ==
  ASSUME ServerTypes, NEW c \in Conns
  PROVE  Releasing(c) <=> Going(c)
  BY QueueIs DEF Releasing, Going, Pending, Has, Rel

(* what PushTaskToQueue does for a release *)
LEMMA PushesRelease ==
  ASSUME ServerTypes, NEW c \in Conns
  PROVE  /\ NoPush => tasks_' = tasks_ \o <<>>
         /\ Release(c) => tasks_' = tasks_ \o <<Rel(c)>>
         /\ ReleaseTwice(c) => tasks_' = tasks_ \o <<Rel(c), Rel(c)>>
         /\ <<>> \in Pushes(c) /\ <<Rel(c)>> \in Pushes(c) /\ <<Rel(c), Rel(c)>> \in Pushes(c)
  <1>1. tasks_ \in Seq(TaskSet) /\ Rel(c) \in TaskSet
    BY DEF ServerTypes, Rel, TaskSet, Ops
  <1>2. PICK x \in TaskSet : x = Rel(c)
    BY <1>1
  <1>3. tasks_ \o <<>> = tasks_ /\ Append(tasks_, x) = tasks_ \o <<x>>
    BY <1>1, ConcatEmptySeq, AppendIsConcat
  <1>4. Append(Append(tasks_, x), x) = tasks_ \o <<x, x>>
    <2>1. <<x>> \in Seq(TaskSet) /\ <<x, x>> \in Seq(TaskSet) /\ Append(tasks_, x) \in Seq(TaskSet)
      <3>1. <<x>> \in Seq(TaskSet)
        BY <1>2
      <3>2. <<x, x>> \in Seq(TaskSet)
        BY <1>2
      <3>3. Append(tasks_, x) \in Seq(TaskSet)
        BY <1>1, <1>2
      <3>4. QED
        BY <3>1, <3>2, <3>3
    <2>2. Append(Append(tasks_, x), x) = (tasks_ \o <<x>>) \o <<x>>
      BY <1>2, <1>3, <2>1, AppendIsConcat
    <2>3. <<x>> \o <<x>> = <<x, x>>
      <3>1. PICK s \in Seq(TaskSet), t \in Seq(TaskSet), u \in Seq(TaskSet) :
              s = <<x>> /\ t = <<x, x>> /\ u = s \o s
        BY <2>1, ConcatProperties
      <3>2. Len(s) = 1 /\ s[1] = x /\ Len(t) = 2 /\ t[1] = x /\ t[2] = x
        BY <3>1
      <3>3. Len(u) = 1 + 1 /\ \A i \in 1..(1 + 1) : u[i] = IF i <= 1 THEN s[i] ELSE s[i - 1]
        BY <3>1, <3>2, ConcatProperties
      <3>4. Len(u) = 2 /\ \A i \in 1..2 : u[i] = t[i]
        BY <3>2, <3>3
      <3>5. u = t
        BY <3>2, <3>4, SeqEqual
      <3>6. QED
        BY <3>1, <3>5
    <2>4. (tasks_ \o <<x>>) \o <<x>> = tasks_ \o (<<x>> \o <<x>>)
      BY <1>1, <2>1, ConcatAssociative
    <2>5. QED
      BY <2>2, <2>3, <2>4
  <1>5. QED
    BY <1>2, <1>3, <1>4 DEF NoPush, Release, ReleaseTwice, Push, Rel, Pushes

(* A handler or task of c: c becomes r, ends for the reasons in w, p is pushed *)
(* and o is owed.                                                          *)
Works(c, r, w, p, o) ==
  /\ Turns(c, r)
  /\ w \in SUBSET Reasons /\ ends' = [ends EXCEPT ![c] = @ \cup w]
  /\ p \in Pushes(c) /\ tasks_' = tasks_ \o p
  /\ o \in Nat /\ o <= r.obuffer /\ owed' = [owed EXCEPT ![c] = o]
  /\ Going(c) => o <= owed[c]
  /\ p # <<>> => o = 0 \/ w \cap {"reset", "idle"} # {} \/ Going(c)

(* What a handler or task other than Established leaves as it should be: what *)
(* is monitored, and who is shut down with nothing to send is released.     *)
Tunes(c, r, w, p) ==
  /\ Tuned(conn[c]) => Tuned(r)
  /\ r.statu_ = conn[c].statu_ \/ (w # {} /\ r.statu_ = "DISCONNECTING")
  /\ r.statu_ = "DISCONNECTING" /\ r.obuffer = 0 =>
       p # <<>> \/ (conn[c].statu_ = "DISCONNECTING" /\ conn[c].obuffer = 0)
  /\ p = <<Rel(c), Rel(c)>> => \E x, y \in w : x # y

(* ShutdownInLoop: what was put off is owed, and c is released at once if     *)
(* there is nothing.                                                       *)
LEMMA ShutdownWorks ==
  ASSUME ServerTypes, NEW c \in Conns, NEW q \in Connection, SameFd(q, conn[c]),
         q.obuffer >= conn[c].obuffer, Tuned(conn[c]) => Tuned(q), owed[c] <= conn[c].obuffer,
         NEW why \in Reasons \ {"nested"}, conn[c] \in Connection,
         ShutdownInLoop(c, q, why)
  PROVE  \E r, w, p, o : /\ Works(c, r, w, p, o) /\ Tunes(c, r, w, p)
                         /\ r.obuffer >= conn[c].obuffer /\ why \in w
                         /\ r.statu_ = "DISCONNECTING" /\ (p # <<>> => r.obuffer = 0)
  <1>1. PICK take \in BOOLEAN, reply \in BOOLEAN, nested \in BOOLEAN :
          LET s == Shut(q, take, reply) IN
          /\ Shown(c, q, why, take, reply, nested)
          /\ Becomes(c, s) /\ Owes(c, s)
          /\ \/ s.obuffer > 0 /\ NoPush
             \/ s.obuffer = 0 /\ IF nested THEN ReleaseTwice(c) ELSE Release(c)
    BY DEF ShutdownInLoop
  <1>2. PICK r : r = Shut(q, take, reply)
    OBVIOUS
  <1>3. /\ r \in Connection /\ SameFd(r, conn[c]) /\ r.statu_ = "DISCONNECTING"
        /\ r.obuffer >= q.obuffer /\ (Tuned(q) => Tuned(r))
    BY <1>2, ShutIs DEF SameFd
  <1>4. r.obuffer \in Nat /\ q.obuffer \in Nat /\ conn[c].obuffer \in Nat /\ owed[c] \in Nat
    BY <1>3, Members DEF ServerTypes
  <1>5. r.obuffer >= conn[c].obuffer /\ owed[c] <= r.obuffer
    BY <1>3, <1>4
  <1>6. /\ Shown(c, q, why, take, reply, nested) /\ Becomes(c, r) /\ Owes(c, r)
        /\ \/ r.obuffer > 0 /\ NoPush
           \/ r.obuffer = 0 /\ IF nested THEN ReleaseTwice(c) ELSE Release(c)
    BY <1>1, <1>2
  <1>7. Turns(c, r)
    BY <1>3, <1>6, BecomesTurns
  <1>8. PICK w \in SUBSET Reasons : w = {why} \cup IF nested THEN {"nested"} ELSE {}
    BY DEF Reasons
  <1>9. ends' = [ends EXCEPT ![c] = @ \cup w]
    BY <1>6, <1>8 DEF Shown, EndedBy
  <1>10. PICK p : p = IF r.obuffer > 0 THEN <<>> ELSE IF nested THEN <<Rel(c), Rel(c)>> ELSE <<Rel(c)>>
    OBVIOUS
  <1>11. p \in Pushes(c) /\ tasks_' = tasks_ \o p
    <2>1. CASE r.obuffer > 0
      <3>1. p = <<>> /\ NoPush
        BY <1>4, <1>6, <1>10, <2>1
      <3>2. QED
        BY <3>1, PushesRelease
    <2>2. CASE r.obuffer = 0
      <3>1. nested => p = <<Rel(c), Rel(c)>> /\ ReleaseTwice(c)
        BY <1>6, <1>10, <2>2
      <3>2. ~nested => p = <<Rel(c)>> /\ Release(c)
        BY <1>6, <1>10, <2>2
      <3>3. QED
        BY <3>1, <3>2, PushesRelease
    <2>3. QED
      BY <1>4, <2>1, <2>2
  <1>12. PICK o \in Nat : o = IF Going(c) THEN owed[c] ELSE r.obuffer
    BY <1>4
  <1>13. owed' = [owed EXCEPT ![c] = o]
    <2>1. owed = [owed EXCEPT ![c] = owed[c]]
      BY DEF ServerTypes
    <2>2. QED
      BY <1>6, <1>12, <2>1, ReleasingIs DEF Owes
  <1>14. p # <<>> => r.obuffer = 0
    BY <1>4, <1>10
  <1>15. Works(c, r, w, p, o)
    <2>1. o <= r.obuffer /\ (Going(c) => o <= owed[c])
      BY <1>4, <1>5, <1>12
    <2>2. p # <<>> => o = 0 \/ Going(c)
      BY <1>12, <1>14
    <2>3. QED
      BY <1>7, <1>9, <1>11, <1>13, <2>1, <2>2 DEF Works
  <1>16. p = <<Rel(c), Rel(c)>> => \E x, y \in w : x # y
    <2>1. CASE nested
      BY <1>8, <2>1
    <2>2. CASE ~nested
      <3>1. p = <<>> \/ p = <<Rel(c)>>
        BY <1>10, <2>2
      <3>2. p # <<Rel(c), Rel(c)>>
        BY <3>1, PushesDiffer
      <3>3. QED
        BY <3>2
    <2>3. QED
      BY <2>1, <2>2
  <1>17. Tunes(c, r, w, p)
    <2>1. w # {} /\ why \in w
      BY <1>8
    <2>2. r.obuffer = 0 => p # <<>>
      <3>1. r.obuffer = 0 => p = <<Rel(c), Rel(c)>> \/ p = <<Rel(c)>>
        BY <1>10
      <3>2. QED
        BY <3>1, PushesDiffer
    <2>3. QED
      BY <1>3, <1>16, <2>1, <2>2 DEF Tunes
  <1>18. QED
    BY <1>3, <1>5, <1>8, <1>14, <1>15, <1>17

(* A step that changes the members of c but ends nothing and releases nothing *)
LEMMA PlainWorks ==
  ASSUME ServerTypes, NEW c \in Conns, NEW r \in Connection, Turns(c, r), NoPush \/ UNCHANGED tasks_,
         UNCHANGED <<ends, owed>>, owed[c] <= r.obuffer
  PROVE  Works(c, r, {}, <<>>, owed[c])
  <1>1. <<>> \in Pushes(c) /\ tasks_' = tasks_ \o <<>>
    <2>1. tasks_' = tasks_
      BY DEF NoPush
    <2>2. tasks_ \in Seq(TaskSet)
      BY DEF ServerTypes
    <2>3. QED
      BY <2>1, <2>2, PushesRelease, ConcatEmptySeq
  <1>2. ends' = [ends EXCEPT ![c] = @ \cup {}] /\ owed' = [owed EXCEPT ![c] = owed[c]] /\ owed[c] \in Nat
    BY DEF ServerTypes
  <1>3. PICK w \in SUBSET Reasons, p \in Pushes(c), o \in Nat : w = {} /\ p = <<>> /\ o = owed[c]
    BY <1>1, <1>2
  <1>4. o <= owed[c] /\ o <= r.obuffer
    BY <1>2, <1>3
  <1>5. Works(c, r, w, p, o)
    BY <1>1, <1>2, <1>3, <1>4 DEF Works
  <1>6. QED
    BY <1>3, <1>5

(* EventHandler up to the read callback *)
LEMMA ReadWorks ==
  ASSUME ServerTypes, NEW c \in Conns, conn[c] \in Connection, owed[c] <= conn[c].obuffer,
         Readhandler(c)
  PROVE  \E r, w, p, o : /\ Works(c, r, w, p, o) /\ Tunes(c, r, w, p)
                         /\ r.obuffer >= conn[c].obuffer
                         /\ w # {} => w \cap {"fin", "reset", "callback"} # {}
                         /\ p # <<>> => w # {} /\ r.obuffer = 0
  <1>0. conn[c].obuffer \in Nat /\ owed[c] \in Nat
    BY Members DEF ServerTypes
  <1>1. CASE UNCHANGED <<conn, channels_, interest, ends, owed, tasks_>>
    <2>1. Works(c, conn[c], {}, <<>>, owed[c])
      BY <1>1, SameTurns, PlainWorks
    <2>2. Tunes(c, conn[c], {}, <<>>)
      BY PushesDiffer DEF Tunes
    <2>3. conn[c].obuffer >= conn[c].obuffer
      BY <1>0
    <2>4. QED
      BY <2>1, <2>2, <2>3
  <1>2. ASSUME NEW q \in Connection, SameFd(q, conn[c]), q.obuffer >= conn[c].obuffer,
               Tuned(conn[c]) => Tuned(q), NEW why \in {"fin", "reset", "callback"},
               ShutdownInLoop(c, q, why)
        PROVE  \E r, w, p, o : /\ Works(c, r, w, p, o) /\ Tunes(c, r, w, p)
                               /\ r.obuffer >= conn[c].obuffer
                               /\ w # {} => w \cap {"fin", "reset", "callback"} # {}
                               /\ p # <<>> => w # {} /\ r.obuffer = 0
    <2>1. why \in Reasons \ {"nested"}
      BY <1>2 DEF Reasons
    <2>2. PICK r, w, p, o : /\ Works(c, r, w, p, o) /\ Tunes(c, r, w, p)
                            /\ r.obuffer >= conn[c].obuffer /\ why \in w
                            /\ p # <<>> => r.obuffer = 0
      BY <1>2, <2>1, ShutdownWorks
    <2>3. QED
      BY <1>2, <2>2
  <1>3. CASE ReadData(c)
    <2>1. PICK n \in Nat : n = conn[c].ibuffer + rcv[c]
      BY Members DEF ServerTypes
    <2>2. PICK q : q = [conn[c] EXCEPT !.ibuffer = n]
      OBVIOUS
    <2>3. /\ q \in Connection /\ SameFd(q, conn[c]) /\ q.statu_ = conn[c].statu_
          /\ q.obuffer = conn[c].obuffer /\ (Tuned(conn[c]) => Tuned(q))
      BY <2>2 DEF Connection, SameFd, Tuned
    <2>4. \/ \E take, reply \in BOOLEAN :
               Becomes(c, Message(q, take, reply)) /\ NoPush /\ UNCHANGED <<ends, owed>>
          \/ ShutdownInLoop(c, q, "callback")
      BY <1>3, <2>1, <2>2 DEF ReadData
    <2>5. CASE ShutdownInLoop(c, q, "callback")
      <3>1. q.obuffer >= conn[c].obuffer
        BY <1>0, <2>3
      <3>2. QED
        BY <1>2, <2>3, <2>5, <3>1
    <2>6. ASSUME NEW take \in BOOLEAN, NEW reply \in BOOLEAN,
                 Becomes(c, Message(q, take, reply)), NoPush, UNCHANGED <<ends, owed>>
          PROVE  \E r, w, p, o : /\ Works(c, r, w, p, o) /\ Tunes(c, r, w, p)
                                 /\ r.obuffer >= conn[c].obuffer
                                 /\ w # {} => w \cap {"fin", "reset", "callback"} # {}
                                 /\ p # <<>> => w # {} /\ r.obuffer = 0
      <3>1. PICK r : r = Message(q, take, reply)
        OBVIOUS
      <3>2. /\ r \in Connection /\ SameFd(r, conn[c]) /\ r.statu_ = conn[c].statu_
            /\ r.obuffer >= q.obuffer /\ (Tuned(conn[c]) => Tuned(r))
        BY <2>3, <3>1, MessageIs DEF SameFd
      <3>3. r.obuffer >= conn[c].obuffer /\ owed[c] <= r.obuffer /\ r.obuffer \in Nat
        BY <1>0, <2>3, <3>2, Members
      <3>4. Turns(c, r)
        BY <2>6, <3>1, <3>2, BecomesTurns
      <3>5. Works(c, r, {}, <<>>, owed[c])
        BY <2>6, <3>2, <3>3, <3>4, PlainWorks
      <3>6. r.obuffer = 0 => conn[c].obuffer = 0
        BY <1>0, <3>3
      <3>7. Tunes(c, r, {}, <<>>)
        BY <3>2, <3>6, PushesDiffer DEF Tunes
      <3>8. QED
        BY <3>3, <3>5, <3>7
    <2>7. QED
      BY <2>4, <2>5, <2>6
  <1>4. CASE ReadEnd(c) /\ ~errno'
    <2>1. ShutdownInLoop(c, conn[c], IF peer[c] = "fin" THEN "fin" ELSE "reset")
      BY <1>4 DEF ReadEnd
    <2>2. conn[c].obuffer >= conn[c].obuffer /\ SameFd(conn[c], conn[c])
      BY <1>0 DEF SameFd
    <2>3. QED
      BY <1>2, <2>1, <2>2
  <1>5. QED
    BY <1>1, <1>3, <1>4 DEF Readhandler, ReadEnd

(* WriteHandler or ErrorHandler *)
LEMMA WriteWorks ==
  ASSUME ServerTypes, NEW c \in Conns, c = cur, conn[c] \in Connection, owed[c] <= conn[c].obuffer,
         WriteHandler
  PROVE  \E r, w, p, o : /\ Works(c, r, w, p, o) /\ Tunes(c, r, w, p)
                         /\ peer[c] = "rst" => r.obuffer >= conn[c].obuffer
                         /\ w # {} => "reset" \in w
                         /\ w = {} /\ p # <<>> => conn[c].statu_ = "DISCONNECTING"
  <1>0. conn[c].obuffer \in Nat /\ owed[c] \in Nat /\ owed = [owed EXCEPT ![c] = owed[c]]
    BY Members DEF ServerTypes
  <1>1. CASE "out" \notin revents[c]
    <2>1. UNCHANGED <<conn, channels_, interest, owed>> /\ Release(c) /\ EndedBy(c, {"reset"})
      BY <1>1 DEF WriteHandler
    <2>2. Turns(c, conn[c])
      BY <2>1, SameTurns
    <2>3. {"reset"} \in SUBSET Reasons /\ ends' = [ends EXCEPT ![c] = @ \cup {"reset"}]
      BY <2>1 DEF EndedBy, Reasons
    <2>4. Works(c, conn[c], {"reset"}, <<Rel(c)>>, owed[c])
      <3>1. PICK w \in SUBSET Reasons, p \in Pushes(c), o \in Nat :
              w = {"reset"} /\ p = <<Rel(c)>> /\ o = owed[c]
        BY <1>0, <2>3, PushesRelease
      <3>2. o <= owed[c] /\ o <= conn[c].obuffer /\ "reset" \in w \cap {"reset", "idle"}
        BY <1>0, <3>1
      <3>3. tasks_' = tasks_ \o p /\ ends' = [ends EXCEPT ![c] = @ \cup w] /\ owed' = [owed EXCEPT ![c] = o]
        BY <1>0, <2>1, <2>3, <3>1, PushesRelease
      <3>4. Works(c, conn[c], w, p, o)
        BY <2>2, <3>2, <3>3 DEF Works
      <3>5. QED
        BY <3>1, <3>4
    <2>5. Tunes(c, conn[c], {"reset"}, <<Rel(c)>>)
      BY PushesDiffer DEF Tunes
    <2>6. conn[c].obuffer >= conn[c].obuffer
      BY <1>0
    <2>7. QED
      BY <2>4, <2>5, <2>6
  <1>2. CASE WriteFails(c)
    <2>1. PICK take \in BOOLEAN, reply \in BOOLEAN, nested \in BOOLEAN :
            LET m == Message(conn[c], take, reply)
                s == IF nested THEN Shut(m, FALSE, FALSE) ELSE m
            IN
            /\ Shown(c, conn[c], "reset", take, reply, nested)
            /\ Becomes(c, s)
            /\ IF nested /\ s.obuffer = 0 THEN ReleaseTwice(c) ELSE Release(c)
      BY <1>2 DEF WriteFails
    <2>2. PICK m : m = Message(conn[c], take, reply)
      OBVIOUS
    <2>3. /\ m \in Connection /\ SameFd(m, conn[c]) /\ m.statu_ = conn[c].statu_
          /\ m.obuffer >= conn[c].obuffer /\ (Tuned(conn[c]) => Tuned(m))
      BY <2>2, MessageIs
    <2>4. PICK r : r = IF nested THEN Shut(m, FALSE, FALSE) ELSE m
      OBVIOUS
    <2>5. /\ r \in Connection /\ SameFd(r, conn[c]) /\ (Tuned(conn[c]) => Tuned(r))
          /\ r.statu_ = conn[c].statu_ \/ r.statu_ = "DISCONNECTING"
          /\ r.obuffer >= conn[c].obuffer
      <3>1. CASE nested
        <4>1. r = Shut(m, FALSE, FALSE)
          BY <2>4, <3>1
        <4>2. /\ r \in Connection /\ SameFd(r, m) /\ (Tuned(m) => Tuned(r))
              /\ r.statu_ = "DISCONNECTING" /\ r.obuffer >= m.obuffer
          BY <2>3, <4>1, ShutIs
        <4>3. r.obuffer >= conn[c].obuffer
          BY <1>0, <2>3, <4>2, Members
        <4>4. QED
          BY <2>3, <4>2, <4>3 DEF SameFd
      <3>2. CASE ~nested
        BY <2>3, <2>4, <3>2
      <3>3. QED
        BY <3>1, <3>2
    <2>6. /\ Shown(c, conn[c], "reset", take, reply, nested) /\ Becomes(c, r)
          /\ IF nested /\ r.obuffer = 0 THEN ReleaseTwice(c) ELSE Release(c)
      BY <2>1, <2>2, <2>4
    <2>7. Turns(c, r)
      BY <2>5, <2>6, BecomesTurns
    <2>8. PICK w \in SUBSET Reasons : w = {"reset"} \cup IF nested THEN {"nested"} ELSE {}
      BY DEF Reasons
    <2>9. ends' = [ends EXCEPT ![c] = @ \cup w]
      BY <2>6, <2>8 DEF Shown, EndedBy
    <2>10. PICK p : p = IF nested /\ r.obuffer = 0 THEN <<Rel(c), Rel(c)>> ELSE <<Rel(c)>>
      OBVIOUS
    <2>11. p \in Pushes(c) /\ tasks_' = tasks_ \o p
      BY <2>6, <2>10, PushesRelease
    <2>12. owed' = owed
      BY <1>2 DEF WriteFails
    <2>13. owed[c] <= r.obuffer
      BY <1>0, <2>5, Members
    <2>14. Works(c, r, w, p, owed[c])
      <3>1. PICK o \in Nat : o = owed[c]
        BY <1>0
      <3>2. o <= owed[c] /\ o <= r.obuffer /\ "reset" \in w \cap {"reset", "idle"}
        BY <1>0, <2>8, <2>13, <3>1
      <3>3. owed' = [owed EXCEPT ![c] = o]
        BY <1>0, <2>12, <3>1
      <3>4. Works(c, r, w, p, o)
        BY <2>7, <2>9, <2>11, <3>2, <3>3 DEF Works
      <3>5. QED
        BY <3>1, <3>4
    <2>15. p = <<Rel(c), Rel(c)>> => \E x, y \in w : x # y
      <3>1. CASE nested
        BY <2>8, <3>1
      <3>2. CASE ~nested
        BY <2>10, <3>2, PushesDiffer
      <3>3. QED
        BY <3>1, <3>2
    <2>16. p # <<>>
      <3>1. p = <<Rel(c), Rel(c)>> \/ p = <<Rel(c)>>
        BY <2>10
      <3>2. QED
        BY <3>1, PushesDiffer
    <2>17. Tunes(c, r, w, p)
      BY <2>5, <2>8, <2>15, <2>16 DEF Tunes
    <2>18. QED
      BY <2>5, <2>8, <2>14, <2>17
  <1>3. CASE WriteSome(c)
    <2>0. peer[c] # "rst" /\ UNCHANGED ends
      BY <1>3 DEF WriteSome
    <2>1. PICK n \in IF conn[c].obuffer = 0 THEN {0} ELSE 1..conn[c].obuffer :
            /\ owed' = [owed EXCEPT ![c] = IF @ > n THEN @ - n ELSE 0]
            /\ LET r == [conn[c] EXCEPT !.obuffer = @ - n] IN
               IF r.obuffer = 0
                 THEN /\ Becomes(c, [r EXCEPT !.events = @ \ {"out"}])
                      /\ IF r.statu_ = "DISCONNECTING" THEN Release(c) ELSE NoPush
                 ELSE Becomes(c, r) /\ NoPush
      BY <1>3 DEF WriteSome
    <2>2. n \in Nat /\ n <= conn[c].obuffer
      BY <1>0, <2>1
    <2>3. PICK m \in Nat, o \in Nat : /\ m = conn[c].obuffer - n
                                      /\ o = (IF owed[c] > n THEN owed[c] - n ELSE 0)
      BY <1>0, <2>2
    <2>4. o <= owed[c] /\ o <= m
      BY <1>0, <2>2, <2>3
    <2>5. PICK q : q = [conn[c] EXCEPT !.obuffer = m]
      OBVIOUS
    <2>6. /\ q \in Connection /\ SameFd(q, conn[c]) /\ q.statu_ = conn[c].statu_ /\ q.obuffer = m
          /\ q.events = conn[c].events
      BY <2>5 DEF Connection, SameFd
    <2>7. PICK e \in SUBSET {"in", "out"} : e = q.events \ {"out"}
      BY <2>6, Members
    <2>8. PICK s : s = [q EXCEPT !.events = e]
      OBVIOUS
    <2>9. /\ s \in Connection /\ SameFd(s, conn[c]) /\ s.statu_ = conn[c].statu_ /\ s.obuffer = m
          /\ s.events = e
      BY <2>6, <2>8 DEF Connection, SameFd
    <2>10. /\ owed' = [owed EXCEPT ![c] = o]
           /\ IF m = 0 THEN /\ Becomes(c, s)
                            /\ IF q.statu_ = "DISCONNECTING" THEN Release(c) ELSE NoPush
              ELSE Becomes(c, q) /\ NoPush
      <3>1. owed' = [owed EXCEPT ![c] = o]
        BY <2>1, <2>3
      <3>2. q = [conn[c] EXCEPT !.obuffer = @ - n] /\ s = [q EXCEPT !.events = @ \ {"out"}]
        BY <2>3, <2>5, <2>7, <2>8
      <3>3. QED
        BY <2>1, <2>6, <3>1, <3>2
    <2>11. {} \in SUBSET Reasons /\ ends' = [ends EXCEPT ![c] = @ \cup {}]
      BY <2>0 DEF ServerTypes
    <2>12. CASE m = 0
      <3>1. Turns(c, s)
        BY <2>9, <2>10, <2>12, BecomesTurns
      <3>2. o = 0
        BY <2>4, <2>12
      <3>3. PICK p : p = IF q.statu_ = "DISCONNECTING" THEN <<Rel(c)>> ELSE <<>>
        OBVIOUS
      <3>4. p \in Pushes(c) /\ tasks_' = tasks_ \o p
        BY <2>10, <2>12, <3>3, PushesRelease
      <3>5. Works(c, s, {}, p, o)
        BY <1>0, <2>4, <2>9, <2>10, <2>11, <3>1, <3>2, <3>4 DEF Works
      <3>6. Tuned(conn[c]) => Tuned(s)
        <4>1. "in" \in conn[c].events => "in" \in e
          BY <2>6, <2>7
        <4>2. QED
          BY <2>7, <2>9, <2>12, <4>1 DEF Tuned
      <3>7. p # <<Rel(c), Rel(c)>> /\ (p # <<>> <=> conn[c].statu_ = "DISCONNECTING")
        BY <2>6, <3>3, PushesDiffer
      <3>8. Tunes(c, s, {}, p)
        BY <2>9, <3>6, <3>7 DEF Tunes
      <3>9. QED
        BY <2>0, <3>5, <3>7, <3>8
    <2>13. CASE m # 0
      <3>1. Turns(c, q)
        BY <2>6, <2>10, <2>13, BecomesTurns
      <3>2. Tuned(conn[c]) => Tuned(q)
        <4>1. m > 0 /\ conn[c].obuffer > 0
          BY <1>0, <2>2, <2>3, <2>13
        <4>2. QED
          BY <2>6, <4>1 DEF Tuned
      <3>3. tasks_' = tasks_ \o <<>> /\ <<>> \in Pushes(c)
        BY <2>10, <2>13, PushesRelease
      <3>4. Works(c, q, {}, <<>>, o)
        BY <1>0, <2>4, <2>6, <2>10, <2>11, <3>1, <3>3 DEF Works
      <3>5. Tunes(c, q, {}, <<>>)
        BY <2>6, <2>13, <3>2, PushesDiffer DEF Tunes
      <3>6. QED
        BY <2>0, <3>4, <3>5
    <2>14. QED
      BY <2>12, <2>13
  <1>4. QED
    BY <1>1, <1>2, <1>3 DEF WriteHandler

(* SendInLoop *)
LEMMA SendWorks ==
  ASSUME ServerTypes, NEW c \in Conns, conn[c] \in Connection, owed[c] <= conn[c].obuffer,
         SendTask(c)
  PROVE  \E r : /\ Works(c, r, {}, <<>>, owed[c]) /\ Tunes(c, r, {}, <<>>)
                /\ r.obuffer >= conn[c].obuffer
                /\ conn[c].statu_ = "DISCONNECTED" => r = conn[c]
  <1>1. PICK r : r = Sent(conn[c])
    OBVIOUS
  <1>2. /\ r \in Connection /\ SameFd(r, conn[c]) /\ r.statu_ = conn[c].statu_
        /\ r.obuffer >= conn[c].obuffer /\ (Tuned(conn[c]) => Tuned(r))
        /\ conn[c].statu_ = "DISCONNECTED" => r = conn[c]
    BY <1>1, SentIs
  <1>3. r.obuffer \in Nat /\ conn[c].obuffer \in Nat /\ owed[c] \in Nat
    BY <1>2, Members DEF ServerTypes
  <1>4. Becomes(c, r) /\ UNCHANGED <<tasks_, ends, owed>>
    BY <1>1 DEF SendTask
  <1>5. owed[c] <= r.obuffer /\ (r.obuffer = 0 => conn[c].obuffer = 0)
    BY <1>2, <1>3
  <1>6. Works(c, r, {}, <<>>, owed[c])
    BY <1>2, <1>4, <1>5, BecomesTurns, PlainWorks
  <1>7. Tunes(c, r, {}, <<>>)
    BY <1>2, <1>5, PushesDiffer DEF Tunes
  <1>8. QED
    BY <1>2, <1>6, <1>7

(* Established *)
LEMMA EstablishedWorks ==
  ASSUME ServerTypes, NEW c \in Conns, conn[c] \in Connection, owed[c] <= conn[c].obuffer,
         EstablishedInLoop(c)
  PROVE  \E r : /\ Works(c, r, {}, <<>>, owed[c])
                /\ r.statu_ = "CONNECTED" /\ r.events = {"in"} /\ r.obuffer = conn[c].obuffer
  <1>1. PICK r : r = [conn[c] EXCEPT !.statu_ = "CONNECTED", !.events = {"in"}]
    OBVIOUS
  <1>2. /\ r \in Connection /\ SameFd(r, conn[c]) /\ r.statu_ = "CONNECTED" /\ r.events = {"in"}
        /\ r.obuffer = conn[c].obuffer
    BY <1>1 DEF Connection, SameFd
  <1>3. Becomes(c, r) /\ UNCHANGED <<tasks_, ends, owed>>
    BY <1>1 DEF EstablishedInLoop
  <1>4. Works(c, r, {}, <<>>, owed[c])
    BY <1>2, <1>3, BecomesTurns, PlainWorks
  <1>5. QED
    BY <1>2, <1>4

(* the timer of an inactive connection *)
LEMMA OntimeWorks ==
  ASSUME ServerTypes, NEW c \in Conns, conn[c] \in Connection, owed[c] <= conn[c].obuffer,
         Release(c), EndedBy(c, {"idle"}), UNCHANGED <<conn, channels_, interest, owed>>
  PROVE  Works(c, conn[c], {"idle"}, <<Rel(c)>>, owed[c]) /\ Tunes(c, conn[c], {"idle"}, <<Rel(c)>>)
  <1>1. PICK w \in SUBSET Reasons, p \in Pushes(c), o \in Nat :
          w = {"idle"} /\ p = <<Rel(c)>> /\ o = owed[c]
    BY PushesRelease DEF ServerTypes, Reasons
  <1>2. /\ o <= owed[c] /\ o <= conn[c].obuffer /\ "idle" \in w \cap {"reset", "idle"}
        /\ owed' = [owed EXCEPT ![c] = o] /\ owed[c] \in Nat
    BY <1>1 DEF ServerTypes
  <1>3. tasks_' = tasks_ \o p /\ ends' = [ends EXCEPT ![c] = @ \cup w]
    BY <1>1, PushesRelease DEF EndedBy
  <1>4. Works(c, conn[c], w, p, o)
    BY <1>2, <1>3, SameTurns DEF Works
  <1>5. p # <<>> /\ p # <<Rel(c), Rel(c)>>
    BY <1>1, PushesDiffer
  <1>6. Tunes(c, conn[c], w, p)
    BY <1>5 DEF Tunes
  <1>7. QED
    BY <1>1, <1>4, <1>6

-----------------------------------------------------------------------------
(* The invariant: what a step leaves to the connections it is not about.    *)

(* Nothing about d changes, and no new reference to it appears but in what epoll *)
(* reports.                                                                *)
Same(d) ==
  /\ conn'[d] = conn[d] /\ closes'[d] = closes[d] /\ ends'[d] = ends[d] /\ owed'[d] = owed[d]
  /\ peer'[d] = "closed" <=> peer[d] = "closed"
  /\ d \in active' => d \in active \/ \E f \in Fds : channels_[f] = d
  /\ (d \in held' => d \in held) /\ (d \in timer' => d \in timer) /\ (d \in shut' => d \in shut)
  /\ cur' = d => cur = d
  /\ d \in conns_' \/ building' = d <=> d \in conns_ \/ building = d
  /\ \A f \in Fds : (owner'[f] = d <=> owner[f] = d) /\ (channels_'[f] = d => channels_[f] = d)
  /\ \A op \in Ops : Pending(op, d)' => Pending(op, d)
  /\ Unique(Queue, <<"established", d>>) => Unique(Queue', <<"established", d>>)
  /\ Has(baseTasks', d) <=> Has(baseTasks, d)

LEMMA SameInv ==
  ASSUME ServerTypes, NEW d \in Conns, ConnInv(d), Same(d)
  PROVE  ConnInv(d)'
  <1>1. CASE conn[d] = None
    <2>1. Unborn(d)
      BY <1>1 DEF ConnInv
    <2>2. Unborn(d)'
      BY <2>1 DEF Unborn, Same
    <2>3. QED
      BY <1>1, <2>2 DEF ConnInv, Same
  <1>2. CASE conn[d] # None
    <2>0. conn[d] \in Connection
      BY <1>2 DEF ServerTypes
    <2>1. Descriptor(d) /\ Kept(d) /\ Young(d) /\ Paid(d)
      BY <1>2 DEF ConnInv
    <2>2. Descriptor(d)'
      BY <2>0, <2>1, Members DEF Descriptor, Same
    <2>3. Kept(d)'
      BY <2>1 DEF Kept, Same
    <2>4. Young(d)'
      <3>1. "established" \in Ops
        BY DEF Ops
      <3>2. QED
        BY <2>1, <3>1 DEF Young, Same
    <2>5. Paid(d)'
      <3>1. Pending("release", d)' => Pending("release", d)
        BY DEF Same, Ops
      <3>2. QED
        BY <2>1, <3>1 DEF Paid, Same
    <2>6. QED
      BY <1>2, <2>2, <2>3, <2>4, <2>5 DEF ConnInv, Same
  <1>3. QED
    BY <1>1, <1>2

(* a connection whose Established has run *)
LEMMA OldInv ==
  ASSUME NEW c \in Conns, conn'[c] # None, ~Pending("established", c)',
         Descriptor(c)', Kept(c)', Paid(c)'
  PROVE  ConnInv(c)'
  <1>1. Unique(Queue', <<"established", c>>)
    BY HasNone DEF Pending
  <1>2. Young(c)'
    BY <1>1 DEF Young
  <1>3. QED
    BY <1>2 DEF ConnInv

(* What knows a connection, knows one that was accepted. *)
LEMMA KnownIs ==
  ASSUME ServerTypes, NEW c \in Conns, ConnInv(c),
         \/ c \in held \cup active \cup timer \cup shut \/ cur = c
         \/ \E f \in Fds : channels_[f] = c
         \/ \E op \in Ops \ {"established"} : Pending(op, c)
  PROVE  /\ conn[c] \in Connection /\ ~Pending("established", c)
         /\ Descriptor(c) /\ Kept(c) /\ Paid(c)
  <1>1. conn[c] # None
    BY DEF ConnInv, Unborn
  <1>2. conn[c] \in Connection /\ Descriptor(c) /\ Kept(c) /\ Paid(c) /\ Young(c)
    BY <1>1 DEF ServerTypes, ConnInv
  <1>3. QED
    BY <1>2 DEF Young

(* what a handler or task of c leaves alone *)
Leaves(c) ==
  /\ UNCHANGED <<owner, peer, closes, shut, conns_, building, baseTasks>>
  /\ held' \in {held, held \cup {c}} /\ timer' \subseteq timer \cup {c} /\ active' \subseteq active
  /\ cur' \in {cur, None, c} /\ lpc' = lpc
  /\ rcv' \in [Conns -> Nat] /\ revents' \in [Conns -> SUBSET {"in", "out", "err", "hup"}]
  /\ \A d \in Conns \ {c} : revents'[d] = revents[d]

(* the queue without the task that is run, if one is *)
Left(op, c, p, q) ==
  \/ Handles(c, p) /\ q = Queue
  \/ op \in Ops /\ Executes(op, c, p) /\ q = Tail(Queue)

LEMMA LeftIs ==
  ASSUME ServerTypes, NEW c \in Conns, NEW op, NEW p \in Pushes(c), NEW q, Left(op, c, p, q)
  PROVE  /\ QueueGets(q, c, p) /\ q \in Seq(TaskSet)
         /\ \A x : Has(q, x) => Has(Queue, x)
         /\ \A x : x # <<op, c>> => (Has(Queue, x) => Has(q, x))
         /\ \A x : Unique(Queue, x) => Unique(q, x)
         /\ \A x, y : Before(Queue, x, y) => Before(q, x, y)
  <1>1. CASE Handles(c, p) /\ q = Queue
    BY <1>1, HandlesQueue, QueueIs
  <1>2. CASE op \in Ops /\ Executes(op, c, p) /\ q = Tail(Queue)
    <2>1. Queue # <<>> /\ Head(Queue) = <<op, c>> /\ Queue \in Seq(TaskSet) /\ QueueGets(Tail(Queue), c, p)
      BY <1>2, ExecutesQueue
    <2>2. QED
      BY <1>2, <2>1, HasTail
  <1>3. QED
    BY <1>1, <1>2 DEF Left

(* A handler or a task of c keeps the invariant, of c and of the others. *)
LEMMA WorksInv ==
  ASSUME ServerTypes, \A d \in Conns : ConnInv(d),
         NEW c \in Conns, conn[c] \in Connection, Descriptor(c), Kept(c), Paid(c),
         NEW op, NEW r, NEW w, NEW p, NEW o, NEW q,
         Works(c, r, w, p, o), Leaves(c), Left(op, c, p, q), ~Has(q, <<"established", c>>)
  PROVE  ServerTypes' /\ \A d \in Conns : ConnInv(d)'
  <1>1. /\ QueueGets(q, c, p) /\ \A x : Has(q, x) => Has(Queue, x)
        /\ \A x : Unique(Queue, x) => Unique(q, x)
    BY LeftIs DEF Works
  <1>2. /\ r \in Connection /\ SameFd(r, conn[c]) /\ conn' = [conn EXCEPT ![c] = r]
        /\ channels_' \in [Fds -> Conns \cup {None}]
        /\ interest' \in [Fds -> (SUBSET {"in", "out"}) \cup {None}]
        /\ \A f \in Fds : channels_'[f] = channels_[f] \/ (channels_'[f] = c /\ f = r.fd)
    BY DEF Works, Turns
  <1>3. /\ w \in SUBSET Reasons /\ ends' = [ends EXCEPT ![c] = @ \cup w]
        /\ o \in Nat /\ o <= r.obuffer /\ owed' = [owed EXCEPT ![c] = o]
        /\ Going(c) => o <= owed[c]
        /\ p # <<>> => o = 0 \/ w \cap {"reset", "idle"} # {} \/ Going(c)
    BY DEF Works
  <1>4. ServerTypes'
    <2>1. conn' \in [Conns -> Connection \cup {None}] /\ ends' \in [Conns -> SUBSET Reasons]
          /\ owed' \in [Conns -> Nat]
      BY <1>2, <1>3 DEF ServerTypes
    <2>2. tasks' \in Seq(TaskSet) /\ tasks_' \in Seq(TaskSet)
      BY <1>1 DEF QueueGets
    <2>3. QED
      BY <1>2, <2>1, <2>2 DEF ServerTypes, Leaves
  <1>5. /\ conn'[c] = r /\ r # None /\ owed'[c] = o /\ ends'[c] = ends[c] \cup w
    BY <1>2, <1>3, Members DEF ServerTypes
  <1>6. \A x : Has(Queue', x) <=> Has(q, x) \/ (p # <<>> /\ x = Rel(c))
    BY <1>1 DEF QueueGets
  <1>7. ConnInv(c)'
    <2>1. ~Pending("established", c)'
      BY <1>6 DEF Pending, Rel
    <2>2. Descriptor(c)'
      BY <1>2, <1>5, Members DEF Descriptor, Leaves, SameFd
    <2>3. Kept(c)'
      BY DEF Kept, Leaves
    <2>4. Paid(c)'
      <3>1. ASSUME closes[c] > 0 \/ Pending("release", c)', ends'[c] \cap {"reset", "idle"} = {}
            PROVE  o = 0
        <4>1. ends[c] \cap {"reset", "idle"} = {} /\ w \cap {"reset", "idle"} = {}
          BY <1>5, <3>1
        <4>2. CASE Going(c)
          <5>1. owed[c] = 0 /\ o <= owed[c]
            BY <1>3, <4>1, <4>2 DEF Going, Paid
          <5>2. QED
            BY <1>3, <5>1
        <4>3. CASE ~Going(c)
          <5>1. p # <<>>
            BY <1>1, <1>6, <3>1, <4>3 DEF Going, Pending, Rel
          <5>2. QED
            BY <1>3, <4>1, <4>3, <5>1
        <4>4. QED
          BY <4>2, <4>3
      <3>2. closes' = closes
        BY DEF Leaves
      <3>3. QED
        BY <1>3, <1>5, <3>1, <3>2 DEF Paid
    <2>5. QED
      BY <1>5, <2>1, <2>2, <2>3, <2>4, OldInv
  <1>8. ASSUME NEW d \in Conns, d # c PROVE ConnInv(d)'
    <2>1. conn'[d] = conn[d] /\ ends'[d] = ends[d] /\ owed'[d] = owed[d]
      BY <1>2, <1>3, <1>8 DEF ServerTypes
    <2>2. \A op2 \in Ops : Pending(op2, d)' => Pending(op2, d)
      BY <1>1, <1>6, <1>8 DEF Pending, Rel
    <2>3. Unique(Queue, <<"established", d>>) => Unique(Queue', <<"established", d>>)
      BY <1>1 DEF QueueGets, Rel
    <2>4. \A f \in Fds : channels_'[f] = d => channels_[f] = d
      BY <1>2, <1>8
    <2>5. cur' = d => cur = d
      BY <1>8, ServerAssumption DEF Leaves
    <2>6. Same(d)
      BY <1>8, <2>1, <2>2, <2>3, <2>4, <2>5 DEF Same, Leaves
    <2>7. QED
      BY <2>6, SameInv
  <1>9. QED
    BY <1>4, <1>7, <1>8

(* The loop handles events or runs tasks. *)
LEMMA PhaseInv == ASSUME ServerTypes, LoopPhase, [Next]_vars PROVE LoopPhase'
  <1> USE DEF LoopPhase, queueVars, loopVars, baseVars, objectVars
  <1>1. CASE UNCHANGED vars
    BY <1>1 DEF vars
  <1>2. CASE EpollWait
    <2>1. \A f \in Fds : channels_[f] # Timerfd
      BY ServerAssumption DEF ServerTypes
    <2>2. Timerfd # Eventfd
      BY ServerAssumption
    <2>3. QED
      BY <1>2, <2>1, <2>2 DEF EpollWait
  <1>3. CASE ReadEventfd \/ Ontime \/ WriteHandler \/ ExecTaskInQueue
    BY <1>3 DEF ReadEventfd, Ontime, WriteHandler, ExecTaskInQueue
  <1>4. ASSUME NEW c \in Conns, Readhandler(c) PROVE LoopPhase'
    BY <1>4 DEF Readhandler
  <1>5. ASSUME NEW c \in Conns,
               EstablishedInLoop(c) \/ SendTask(c) \/ ShutdownTask(c) \/ ReleaseInLoop(c)
        PROVE  LoopPhase'
    BY <1>5 DEF EstablishedInLoop, SendTask, ShutdownTask, ReleaseInLoop, Runs
  <1>6. CASE InsertConnection \/ ReleaseConnectionInLoop \/ AppNotify
    BY <1>6 DEF InsertConnection, ReleaseConnectionInLoop, AppNotify, WriteEventfd
  <1>7. ASSUME NEW c \in Conns, NEW fd \in Fds, NewConnection(c, fd) PROVE LoopPhase'
    <2>1. c # None
      BY ServerAssumption
    <2>2. QED
      BY <1>7, <2>1 DEF NewConnection, PushFrom
  <1>8. ASSUME NEW c \in Conns, PeerSends(c) \/ PeerReads(c) \/ PeerEnds(c) PROVE LoopPhase'
    BY <1>8 DEF PeerSends, PeerReads, PeerEnds
  <1>9. ASSUME NEW c \in Conns, AppSend(c) \/ AppShutdown(c) \/ AppDrop(c) PROVE LoopPhase'
    BY <1>9 DEF AppSend, AppShutdown, AppDrop, PushFrom
  <1>10. QED
    BY <1>1, <1>2, <1>3, <1>4, <1>5, <1>6, <1>7, <1>8, <1>9 DEF Next, LoopStep, BaseStep

(* A task that is run was pending. *)
LEMMA RunsIs ==
  ASSUME ServerTypes, NEW c \in Conns, NEW op \in Ops, Runs(op, c)
  PROVE  /\ Pending(op, c) /\ Queue # <<>> /\ Head(Queue) = <<op, c>>
         /\ tasks # <<>> /\ Head(tasks) = <<op, c>> /\ tasks' = Tail(tasks) /\ lpc = "tasks"
         /\ Unique(Queue, <<op, c>>) => ~Has(Tail(Queue), <<op, c>>)
         /\ Queue \in Seq(TaskSet)
  <1>1. tasks # <<>> /\ Head(tasks) = <<op, c>> /\ tasks' = Tail(tasks) /\ lpc = "tasks"
    BY DEF Runs
  <1>2. tasks \in Seq(TaskSet) /\ tasks_ \in Seq(TaskSet) /\ Queue \in Seq(TaskSet)
    BY QueueIs
  <1>3. Queue # <<>> /\ Head(Queue) = <<op, c>>
    BY <1>1, <1>2, TailConcat DEF Queue
  <1>4. Has(Queue, <<op, c>>) /\ (Unique(Queue, <<op, c>>) => ~Has(Tail(Queue), <<op, c>>))
    BY <1>2, <1>3, HasTail
  <1>5. QED
    BY <1>1, <1>2, <1>3, <1>4 DEF Pending

(* what is handled or run is a connection that was accepted *)
Accepted(c) ==
  /\ conn[c] \in Connection /\ Descriptor(c) /\ Kept(c) /\ Paid(c)
  /\ owed[c] <= conn[c].obuffer

(* Each step of the loop on a connection c, as Works. *)
LEMMA ReadStep ==
  ASSUME ServerInv, NEW c \in Conns, Readhandler(c)
  PROVE  /\ Accepted(c) /\ ~Pending("established", c)
         /\ \E r, w, p, o : /\ Works(c, r, w, p, o) /\ Tunes(c, r, w, p) /\ Leaves(c)
                            /\ Left("none", c, p, Queue)
                            /\ r.obuffer >= conn[c].obuffer
                            /\ w # {} => w \cap {"fin", "reset", "callback"} # {}
                            /\ p # <<>> => w # {} /\ r.obuffer = 0
  <1>0. ServerTypes /\ ConnInv(c) /\ c \in active
    BY DEF ServerInv, Readhandler
  <1>1. Accepted(c) /\ ~Pending("established", c)
    BY <1>0, KnownIs DEF Accepted, Paid
  <1>2. PICK r, w, p, o : /\ Works(c, r, w, p, o) /\ Tunes(c, r, w, p)
                          /\ r.obuffer >= conn[c].obuffer
                          /\ w # {} => w \cap {"fin", "reset", "callback"} # {}
                          /\ p # <<>> => w # {} /\ r.obuffer = 0
    BY <1>0, <1>1, ReadWorks DEF Accepted
  <1>3. Left("none", c, p, Queue)
    BY <1>2 DEF Left, Handles, Works, Readhandler
  <1>4. rcv' \in [Conns -> Nat]
    BY <1>0 DEF Readhandler, ReadData, ReadEnd, ServerTypes
  <1>5. revents' \in [Conns -> SUBSET {"in", "out", "err", "hup"}]
    BY <1>0 DEF Readhandler, ServerTypes
  <1>6. Leaves(c)
    BY <1>0, <1>4, <1>5 DEF Leaves, Readhandler, baseVars, appVars, ServerTypes
  <1>7. QED
    BY <1>1, <1>2, <1>3, <1>6

LEMMA WriteStep ==
  ASSUME ServerInv, WriteHandler
  PROVE  /\ cur \in Conns /\ Accepted(cur) /\ ~Pending("established", cur)
         /\ \E r, w, p, o : /\ Works(cur, r, w, p, o) /\ Tunes(cur, r, w, p) /\ Leaves(cur)
                            /\ Left("none", cur, p, Queue)
                            /\ peer[cur] = "rst" => r.obuffer >= conn[cur].obuffer
                            /\ w # {} => "reset" \in w
                            /\ w = {} /\ p # <<>> => conn[cur].statu_ = "DISCONNECTING"
  <1>0. ServerTypes /\ cur \in Conns /\ ConnInv(cur)
    BY DEF ServerInv, ServerTypes, WriteHandler
  <1>1. Accepted(cur) /\ ~Pending("established", cur)
    BY <1>0, KnownIs DEF Accepted, Paid
  <1>2. PICK r, w, p, o : /\ Works(cur, r, w, p, o) /\ Tunes(cur, r, w, p)
                          /\ peer[cur] = "rst" => r.obuffer >= conn[cur].obuffer
                          /\ w # {} => "reset" \in w
                          /\ w = {} /\ p # <<>> => conn[cur].statu_ = "DISCONNECTING"
    BY <1>0, <1>1, WriteWorks DEF Accepted
  <1>3. Left("none", cur, p, Queue)
    BY <1>2 DEF Left, Handles, Works, WriteHandler
  <1>4. revents' \in [Conns -> SUBSET {"in", "out", "err", "hup"}]
    BY <1>0 DEF WriteHandler, ServerTypes
  <1>5. Leaves(cur)
    BY <1>0, <1>4 DEF Leaves, WriteHandler, baseVars, appVars, ServerTypes
  <1>6. QED
    BY <1>0, <1>1, <1>2, <1>3, <1>5

LEMMA OntimeStep ==
  ASSUME ServerInv, Ontime
  PROVE  \E c \in timer :
           /\ c \in Conns /\ Accepted(c) /\ ~Pending("established", c)
           /\ Works(c, conn[c], {"idle"}, <<Rel(c)>>, owed[c]) /\ Tunes(c, conn[c], {"idle"}, <<Rel(c)>>)
           /\ Leaves(c) /\ Left("none", c, <<Rel(c)>>, Queue)
           /\ timer' = timer \ {c} /\ lpc' = lpc /\ cur' = cur /\ revents' = revents
  <1>0. ServerTypes
    BY DEF ServerInv
  <1>1. PICK c \in timer : Release(c) /\ timer' = timer \ {c} /\ EndedBy(c, {"idle"})
    BY DEF Ontime
  <1>2. c \in Conns /\ ConnInv(c)
    BY <1>0, <1>1 DEF ServerInv, ServerTypes
  <1>3. Accepted(c) /\ ~Pending("established", c)
    BY <1>0, <1>1, <1>2, KnownIs DEF Accepted, Paid
  <1>4. UNCHANGED <<conn, channels_, interest, owed>>
    BY DEF Ontime, kernelVars
  <1>5. Works(c, conn[c], {"idle"}, <<Rel(c)>>, owed[c]) /\ Tunes(c, conn[c], {"idle"}, <<Rel(c)>>)
    BY <1>0, <1>1, <1>2, <1>3, <1>4, OntimeWorks DEF Accepted
  <1>6. Left("none", c, <<Rel(c)>>, Queue)
    BY <1>5 DEF Left, Handles, Works, Ontime
  <1>7. active' \subseteq active
    BY DEF Ontime
  <1>8. Leaves(c)
    BY <1>0, <1>1, <1>7 DEF Leaves, Ontime, kernelVars, baseVars, appVars, ServerTypes
  <1>9. QED
    BY <1>1, <1>2, <1>3, <1>5, <1>6, <1>8 DEF Ontime

LEMMA SendStep ==
  ASSUME ServerInv, NEW c \in Conns, SendTask(c)
  PROVE  /\ Accepted(c) /\ ~Pending("established", c)
         /\ \E r : /\ Works(c, r, {}, <<>>, owed[c]) /\ Tunes(c, r, {}, <<>>) /\ Leaves(c)
                   /\ Left("send", c, <<>>, Tail(Queue))
                   /\ r.obuffer >= conn[c].obuffer
                   /\ conn[c].statu_ = "DISCONNECTED" => r = conn[c]
  <1>0. ServerTypes /\ ConnInv(c) /\ Runs("send", c) /\ "send" \in Ops
    BY DEF ServerInv, SendTask, Ops
  <1>1. Pending("send", c) /\ tasks # <<>> /\ Head(tasks) = <<"send", c>> /\ tasks' = Tail(tasks)
    BY <1>0, RunsIs
  <1>2. Accepted(c) /\ ~Pending("established", c)
    BY <1>0, <1>1, KnownIs DEF Accepted, Paid
  <1>3. PICK r : /\ Works(c, r, {}, <<>>, owed[c]) /\ Tunes(c, r, {}, <<>>)
                 /\ r.obuffer >= conn[c].obuffer
                 /\ conn[c].statu_ = "DISCONNECTED" => r = conn[c]
    BY <1>0, <1>2, SendWorks DEF Accepted
  <1>4. Left("send", c, <<>>, Tail(Queue))
    BY <1>0, <1>1, <1>3 DEF Left, Executes, Works
  <1>5. Leaves(c)
    BY <1>0 DEF Leaves, SendTask, loopVars, baseVars, appVars, ServerTypes
  <1>6. QED
    BY <1>2, <1>3, <1>4, <1>5

LEMMA ShutdownStep ==
  ASSUME ServerInv, NEW c \in Conns, ShutdownTask(c)
  PROVE  /\ Accepted(c) /\ ~Pending("established", c)
         /\ \E r, w, p, o : /\ Works(c, r, w, p, o) /\ Tunes(c, r, w, p) /\ Leaves(c)
                            /\ Left("shutdown", c, p, Tail(Queue))
                            /\ r.obuffer >= conn[c].obuffer /\ "app" \in w
                            /\ r.statu_ = "DISCONNECTING" /\ (p # <<>> => r.obuffer = 0)
  <1>0. ServerTypes /\ ConnInv(c) /\ Runs("shutdown", c) /\ "shutdown" \in Ops
    BY DEF ServerInv, ShutdownTask, Ops
  <1>1. Pending("shutdown", c) /\ tasks # <<>> /\ Head(tasks) = <<"shutdown", c>> /\ tasks' = Tail(tasks)
    BY <1>0, RunsIs
  <1>2. Accepted(c) /\ ~Pending("established", c)
    BY <1>0, <1>1, KnownIs DEF Accepted, Paid
  <1>3. PICK r, w, p, o : /\ Works(c, r, w, p, o) /\ Tunes(c, r, w, p)
                          /\ r.obuffer >= conn[c].obuffer /\ "app" \in w
                          /\ r.statu_ = "DISCONNECTING" /\ (p # <<>> => r.obuffer = 0)
    <2>1. ShutdownInLoop(c, conn[c], "app") /\ "app" \in Reasons \ {"nested"}
      BY DEF ShutdownTask, Reasons
    <2>2. SameFd(conn[c], conn[c]) /\ conn[c].obuffer >= conn[c].obuffer
      BY <1>2, Members DEF SameFd, Accepted
    <2>3. QED
      BY <1>0, <1>2, <2>1, <2>2, ShutdownWorks DEF Accepted
  <1>4. Left("shutdown", c, p, Tail(Queue))
    BY <1>0, <1>1, <1>3 DEF Left, Executes, Works
  <1>5. Leaves(c)
    BY <1>0 DEF Leaves, ShutdownTask, loopVars, baseVars, appVars, ServerTypes
  <1>6. QED
    BY <1>2, <1>3, <1>4, <1>5

LEMMA EstablishedStep ==
  ASSUME ServerInv, NEW c \in Conns, EstablishedInLoop(c)
  PROVE  /\ Accepted(c) /\ Young(c) /\ Pending("established", c)
         /\ ~Has(Tail(Queue), <<"established", c>>)
         /\ \E r : /\ Works(c, r, {}, <<>>, owed[c]) /\ Leaves(c)
                   /\ Left("established", c, <<>>, Tail(Queue))
                   /\ r.statu_ = "CONNECTED" /\ r.events = {"in"} /\ r.obuffer = conn[c].obuffer
  <1>0. ServerTypes /\ ConnInv(c) /\ Runs("established", c) /\ "established" \in Ops
    BY DEF ServerInv, EstablishedInLoop, Ops
  <1>1. /\ Pending("established", c) /\ tasks # <<>> /\ Head(tasks) = <<"established", c>>
        /\ tasks' = Tail(tasks)
        /\ Unique(Queue, <<"established", c>>) => ~Has(Tail(Queue), <<"established", c>>)
    BY <1>0, RunsIs
  <1>2. conn[c] # None
    BY <1>0, <1>1 DEF ConnInv, Unborn
  <1>3. Accepted(c) /\ Young(c)
    BY <1>0, <1>2 DEF ConnInv, Accepted, Paid, ServerTypes
  <1>4. ~Has(Tail(Queue), <<"established", c>>)
    BY <1>1, <1>3 DEF Young
  <1>5. PICK r : /\ Works(c, r, {}, <<>>, owed[c])
                 /\ r.statu_ = "CONNECTED" /\ r.events = {"in"} /\ r.obuffer = conn[c].obuffer
    BY <1>0, <1>3, EstablishedWorks DEF Accepted
  <1>6. Left("established", c, <<>>, Tail(Queue))
    BY <1>0, <1>1, <1>5 DEF Left, Executes, Works
  <1>7. timer' \subseteq timer \cup {c} /\ held' \in {held, held \cup {c}}
    BY DEF EstablishedInLoop
  <1>8. Leaves(c)
    BY <1>0, <1>7 DEF Leaves, EstablishedInLoop, loopVars, baseVars, ServerTypes
  <1>9. QED
    BY <1>1, <1>3, <1>4, <1>5, <1>6, <1>8

(* The steps of the loop that are about one connection keep the invariant. *)
LEMMA LoopWorkInv ==
  ASSUME ServerInv,
         \/ \E c \in Conns : \/ Readhandler(c)
                             \/ EstablishedInLoop(c) \/ SendTask(c) \/ ShutdownTask(c)
         \/ WriteHandler \/ Ontime
  PROVE  ServerTypes' /\ \A d \in Conns : ConnInv(d)'
  <1>0. ServerTypes /\ \A d \in Conns : ConnInv(d)
    BY DEF ServerInv
  <1>1. ASSUME NEW c \in Conns, Accepted(c), NEW op, NEW r, NEW w, NEW p, NEW o, NEW q,
               Works(c, r, w, p, o), Leaves(c), Left(op, c, p, q), ~Has(q, <<"established", c>>)
        PROVE  ServerTypes' /\ \A d \in Conns : ConnInv(d)'
    BY <1>0, <1>1, WorksInv DEF Accepted
  <1>2. ASSUME NEW c, ~Pending("established", c) PROVE ~Has(Queue, <<"established", c>>)
    BY <1>2 DEF Pending
  <1>3. ASSUME NEW c \in Conns, NEW op, NEW p \in Pushes(c), ~Pending("established", c),
               Left(op, c, p, Tail(Queue))
        PROVE  ~Has(Tail(Queue), <<"established", c>>)
    BY <1>0, <1>3, LeftIs DEF Pending
  <1>4. ASSUME NEW c \in Conns, Readhandler(c) PROVE ServerTypes' /\ \A d \in Conns : ConnInv(d)'
    BY <1>1, <1>2, <1>4, ReadStep
  <1>5. ASSUME WriteHandler PROVE ServerTypes' /\ \A d \in Conns : ConnInv(d)'
    BY <1>1, <1>2, <1>5, WriteStep
  <1>6. ASSUME Ontime PROVE ServerTypes' /\ \A d \in Conns : ConnInv(d)'
    BY <1>1, <1>2, <1>6, OntimeStep
  <1>7. ASSUME NEW c \in Conns, EstablishedInLoop(c)
        PROVE  ServerTypes' /\ \A d \in Conns : ConnInv(d)'
    BY <1>1, <1>7, EstablishedStep
  <1>8. ASSUME NEW c \in Conns, SendTask(c) PROVE ServerTypes' /\ \A d \in Conns : ConnInv(d)'
    <2>1. Accepted(c) /\ ~Pending("established", c)
      BY <1>8, SendStep
    <2>2. PICK r : Works(c, r, {}, <<>>, owed[c]) /\ Leaves(c) /\ Left("send", c, <<>>, Tail(Queue))
      BY <1>8, SendStep
    <2>3. ~Has(Tail(Queue), <<"established", c>>)
      BY <1>3, <2>1, <2>2 DEF Works
    <2>4. QED
      BY <1>1, <2>1, <2>2, <2>3
  <1>9. ASSUME NEW c \in Conns, ShutdownTask(c) PROVE ServerTypes' /\ \A d \in Conns : ConnInv(d)'
    <2>1. Accepted(c) /\ ~Pending("established", c)
      BY <1>9, ShutdownStep
    <2>2. PICK r, w, p, o : Works(c, r, w, p, o) /\ Leaves(c) /\ Left("shutdown", c, p, Tail(Queue))
      BY <1>9, ShutdownStep
    <2>3. ~Has(Tail(Queue), <<"established", c>>)
      BY <1>3, <2>1, <2>2 DEF Works
    <2>4. QED
      BY <1>1, <2>1, <2>2, <2>3
  <1>10. QED
    BY <1>4, <1>5, <1>6, <1>7, <1>8, <1>9

(* the steps that are about no connection in particular *)
LEMMA QuietInv ==
  ASSUME ServerInv,
         \/ UNCHANGED vars \/ EpollWait \/ ReadEventfd \/ ExecTaskInQueue \/ AppNotify
         \/ \E c \in Conns : PeerSends(c) \/ PeerReads(c) \/ PeerEnds(c)
  PROVE  ServerTypes' /\ \A d \in Conns : ConnInv(d)'
  <1>0. ServerTypes /\ \A d \in Conns : ConnInv(d)
    BY DEF ServerInv
  <1>1. ASSUME ServerTypes', \A d \in Conns : Same(d)
        PROVE  ServerTypes' /\ \A d \in Conns : ConnInv(d)'
    BY <1>0, <1>1, SameInv
  <1>2. CASE UNCHANGED vars \/ ReadEventfd \/ AppNotify
    <2>1. /\ UNCHANGED <<kernelVars, objectVars, tasks_, tasks, cur, baseVars, appVars, historyVars,
                         lpc, revents>>
          /\ active' \subseteq active
      BY <1>2 DEF vars, queueVars, loopVars, baseVars, ReadEventfd, AppNotify, WriteEventfd
    <2>2. ServerTypes'
      BY <1>0, <2>1 DEF ServerTypes, kernelVars, objectVars, baseVars, appVars, historyVars
    <2>3. \A d \in Conns : Same(d)
      BY <2>1 DEF Same, Pending, Queue, kernelVars, objectVars, baseVars, appVars, historyVars
    <2>4. QED
      BY <1>1, <2>2, <2>3
  <1>3. CASE EpollWait
    <2>1. UNCHANGED <<kernelVars, objectVars, tasks_, tasks, cur, baseVars, appVars, historyVars>>
      BY <1>3 DEF EpollWait, queueVars
    <2>2. lpc' = "events" /\ revents' \in [Conns -> SUBSET {"in", "out", "err", "hup"}]
      <3>1. \A c, e : e \in SUBSET {"in", "out"} => Reported(c, e) \subseteq {"in", "out", "err", "hup"}
        BY DEF Reported
      <3>2. ASSUME NEW S \in SUBSET Fds, \A f \in S : interest[f] # None
            PROVE  UNION {Reported(owner[f], interest[f]) : f \in S} \in SUBSET {"in", "out", "err", "hup"}
        <4>1. \A f \in S : Reported(owner[f], interest[f]) \subseteq {"in", "out", "err", "hup"}
          BY <1>0, <3>1, <3>2 DEF ServerTypes
        <4>2. QED
          BY <4>1
      <3>3. PICK seen \in SUBSET Fds :
              /\ seen = {f \in Fds : interest[f] # None /\ Reported(owner[f], interest[f]) # {}}
              /\ revents' = [c \in Conns |-> UNION {Reported(owner[f], interest[f]) :
                                                      f \in {g \in seen : channels_[g] = c}}]
        BY <1>3 DEF EpollWait
      <3>4. \A f \in seen : interest[f] # None
        BY <3>3
      <3>5. ASSUME NEW c \in Conns
            PROVE  UNION {Reported(owner[f], interest[f]) : f \in {g \in seen : channels_[g] = c}}
                     \in SUBSET {"in", "out", "err", "hup"}
        BY <3>2, <3>4
      <3>6. QED
        BY <1>3, <3>3, <3>5 DEF EpollWait
    <2>3. ASSUME NEW d \in Conns, d \in active' PROVE \E f \in Fds : channels_[f] = d
      <3>1. d # Eventfd /\ d # Timerfd
        BY ServerAssumption
      <3>2. QED
        BY <1>3, <2>3, <3>1 DEF EpollWait
    <2>4. ServerTypes'
      BY <1>0, <2>1, <2>2 DEF ServerTypes, kernelVars, objectVars, baseVars, appVars, historyVars
    <2>5. \A d \in Conns : Same(d)
      BY <2>1, <2>3 DEF Same, Pending, Queue, kernelVars, objectVars, baseVars, appVars, historyVars
    <2>6. QED
      BY <1>1, <2>4, <2>5
  <1>4. CASE ExecTaskInQueue
    <2>1. /\ UNCHANGED <<kernelVars, objectVars, active, revents, cur, baseVars, appVars, historyVars>>
          /\ lpc' = "tasks" /\ tasks' = tasks_ /\ tasks_' = <<>> /\ tasks = <<>>
      BY <1>4 DEF ExecTaskInQueue, ServerInv, LoopPhase
    <2>2. Queue' = Queue
      BY <1>0, <2>1, SwapQueue
    <2>3. ServerTypes'
      BY <1>0, <2>1 DEF ServerTypes, kernelVars, objectVars, baseVars, appVars, historyVars
    <2>4. \A d \in Conns : Same(d)
      BY <2>1, <2>2 DEF Same, Pending, kernelVars, objectVars, baseVars, appVars, historyVars
    <2>5. QED
      BY <1>1, <2>3, <2>4
  <1>5. ASSUME NEW c \in Conns, PeerSends(c) \/ PeerReads(c) \/ PeerEnds(c)
        PROVE  ServerTypes' /\ \A d \in Conns : ConnInv(d)'
    <2>1. UNCHANGED <<owner, interest, objectVars, queueVars, loopVars, baseVars, appVars, historyVars>>
      BY <1>5 DEF PeerSends, PeerReads, PeerEnds
    <2>2. rcv' \in [Conns -> Nat]
      <3>1. PICK n \in Nat : n = rcv[c] + 1
        BY <1>0 DEF ServerTypes
      <3>2. rcv' = rcv \/ rcv' = [rcv EXCEPT ![c] = n]
        BY <1>5, <3>1 DEF PeerSends, PeerReads, PeerEnds
      <3>3. QED
        BY <1>0, <3>1, <3>2 DEF ServerTypes
    <2>3. /\ peer' \in [Conns -> {"none", "open", "fin", "rst", "closed"}]
          /\ \A d \in Conns : peer'[d] = "closed" <=> peer[d] = "closed"
      BY <1>0, <1>5 DEF PeerSends, PeerReads, PeerEnds, ServerTypes
    <2>4. ServerTypes'
      BY <1>0, <2>1, <2>2, <2>3
         DEF ServerTypes, objectVars, queueVars, loopVars, baseVars, appVars, historyVars
    <2>5. \A d \in Conns : Same(d)
      BY <2>1, <2>3 DEF Same, Pending, Queue, objectVars, queueVars, loopVars, baseVars, appVars,
         historyVars
    <2>6. QED
      BY <1>1, <2>4, <2>5
  <1>6. QED
    BY <1>2, <1>3, <1>4, <1>5

(* Release: the descriptor is closed, and the base loop is told. *)
LEMMA ReleaseInv ==
  ASSUME ServerInv, NEW c \in Conns, ReleaseInLoop(c)
  PROVE  /\ ServerTypes' /\ \A d \in Conns : ConnInv(d)'
         /\ Accepted(c) /\ ~Pending("established", c) /\ Pending("release", c)
         /\ Left("release", c, <<>>, Tail(Queue)) /\ <<>> \in Pushes(c)
  <1>0. ServerTypes /\ (\A d \in Conns : ConnInv(d)) /\ Runs("release", c) /\ "release" \in Ops
    BY DEF ServerInv, ReleaseInLoop, Ops
  <1>1. Pending("release", c) /\ tasks # <<>> /\ Head(tasks) = <<"release", c>> /\ tasks' = Tail(tasks)
    BY <1>0, RunsIs
  <1>2. Accepted(c) /\ ~Pending("established", c)
    BY <1>0, <1>1, KnownIs DEF Accepted, Paid
  <1>3. tasks_' = tasks_ \o <<>> /\ <<>> \in Pushes(c)
    BY <1>0, PushesRelease DEF ReleaseInLoop, NoPush
  <1>4. Left("release", c, <<>>, Tail(Queue))
    BY <1>0, <1>1, <1>3 DEF Left, Executes
  <1>5. /\ QueueGets(Tail(Queue), c, <<>>) /\ \A x : Has(Tail(Queue), x) => Has(Queue, x)
        /\ \A x : Unique(Queue, x) => Unique(Tail(Queue), x)
    BY <1>0, <1>3, <1>4, LeftIs
  <1>6. /\ \A x : Has(Queue', x) => Has(Queue, x)
        /\ \A d : Unique(Queue, <<"established", d>>) => Unique(Queue', <<"established", d>>)
    BY <1>5 DEF QueueGets, Rel
  <1>7. PICK r \in Connection : r = [conn[c] EXCEPT !.statu_ = "DISCONNECTED", !.open = FALSE]
    BY <1>2 DEF Connection, Accepted
  <1>8. /\ conn' = [conn EXCEPT ![c] = r] /\ r.fd = conn[c].fd /\ r.open = FALSE
        /\ r.obuffer = conn[c].obuffer /\ r # None
    BY <1>2, <1>7, Members DEF ReleaseInLoop, Connection, Accepted
  <1>9. /\ channels_' = [channels_ EXCEPT ![conn[c].fd] = None]
        /\ interest' = [interest EXCEPT ![conn[c].fd] = None]
        /\ owner' = IF conn[c].open THEN [owner EXCEPT ![conn[c].fd] = None] ELSE owner
        /\ peer' = [peer EXCEPT ![c] = "closed"] /\ rcv' = [rcv EXCEPT ![c] = 0]
        /\ timer' = timer \ {c} /\ closes' = [closes EXCEPT ![c] = @ + 1]
        /\ baseTasks' = Append(baseTasks, c)
        /\ UNCHANGED <<lpc, active, revents, cur, conns_, building, held, shut, ends, owed>>
    BY DEF ReleaseInLoop, RemoveEventMonitor, loopVars, appVars
  <1>10. conn[c].fd \in Fds /\ conn[c].open \in BOOLEAN
    BY <1>2, Members DEF Accepted
  <1>11. baseTasks' \in Seq(Conns) /\ \A d : Has(baseTasks', d) <=> Has(baseTasks, d) \/ d = c
    <2>1. baseTasks \in Seq(Conns)
      BY <1>0 DEF ServerTypes
    <2>2. /\ Append(baseTasks, c) \in Seq(Conns) /\ Len(Append(baseTasks, c)) = Len(baseTasks) + 1
          /\ \A i \in 1..Len(baseTasks) : Append(baseTasks, c)[i] = baseTasks[i]
          /\ Append(baseTasks, c)[Len(baseTasks) + 1] = c /\ Len(baseTasks) \in Nat
      BY <2>1, AppendProperties
    <2>3. QED
      BY <1>9, <2>2 DEF Has
  <1>12. ServerTypes'
    <2>1. tasks' \in Seq(TaskSet) /\ tasks_' \in Seq(TaskSet)
      BY <1>5 DEF QueueGets
    <2>2. conn' \in [Conns -> Connection \cup {None}] /\ closes' \in [Conns -> Nat]
          /\ rcv' \in [Conns -> Nat] /\ peer' \in [Conns -> {"none", "open", "fin", "rst", "closed"}]
      BY <1>0, <1>8, <1>9 DEF ServerTypes
    <2>3. /\ owner' \in [Fds -> Conns \cup {None}] /\ channels_' \in [Fds -> Conns \cup {None}]
          /\ interest' \in [Fds -> (SUBSET {"in", "out"}) \cup {None}]
      BY <1>0, <1>9, <1>10 DEF ServerTypes
    <2>4. QED
      BY <1>0, <1>9, <1>11, <2>1, <2>2, <2>3 DEF ServerTypes
  <1>13. conn'[c] = r /\ closes'[c] > 0 /\ peer'[c] = "closed" /\ closes[c] \in Nat
    BY <1>0, <1>8, <1>9 DEF ServerTypes
  <1>14. ConnInv(c)'
    <2>1. ~Pending("established", c)'
      BY <1>2, <1>6 DEF Pending
    <2>2. Descriptor(c)'
      <3>1. \A f \in Fds : owner'[f] # c
        <4>1. \A f \in Fds : owner[f] = c => conn[c].open /\ conn[c].fd = f
          BY <1>2 DEF Accepted, Descriptor
        <4>2. c # None
          BY ServerAssumption
        <4>3. QED
          BY <1>0, <1>9, <1>10, <4>1, <4>2 DEF ServerTypes
      <3>2. \A f \in Fds : channels_'[f] # c
        <4>1. \A f \in Fds : channels_[f] = c => conn[c].fd = f
          BY <1>2 DEF Accepted, Descriptor
        <4>2. c # None
          BY ServerAssumption
        <4>3. QED
          BY <1>0, <1>9, <1>10, <4>1, <4>2 DEF ServerTypes
      <3>3. QED
        BY <1>8, <1>13, <3>1, <3>2 DEF Descriptor
    <2>3. Kept(c)'
      BY <1>11, <1>13 DEF Kept
    <2>4. Paid(c)'
      <3>1. ends[c] \cap {"reset", "idle"} = {} => owed[c] = 0
        BY <1>1, <1>2 DEF Accepted, Paid
      <3>2. QED
        BY <1>2, <1>8, <1>9, <1>13, <3>1 DEF Accepted, Paid
    <2>5. QED
      BY <1>8, <1>13, <2>1, <2>2, <2>3, <2>4, OldInv
  <1>15. ASSUME NEW d \in Conns, d # c PROVE ConnInv(d)'
    <2>1. /\ conn'[d] = conn[d] /\ closes'[d] = closes[d] /\ ends'[d] = ends[d]
          /\ owed'[d] = owed[d] /\ peer'[d] = peer[d]
      BY <1>0, <1>8, <1>9, <1>15 DEF ServerTypes
    <2>2. d # None
      BY ServerAssumption
    <2>3. conn[c].open => owner[conn[c].fd] = c
      BY <1>2 DEF Accepted, Descriptor
    <2>4. \A f \in Fds : (owner'[f] = d <=> owner[f] = d) /\ (channels_'[f] = d => channels_[f] = d)
      BY <1>0, <1>9, <1>10, <1>15, <2>2, <2>3 DEF ServerTypes
    <2>5. \A op \in Ops : Pending(op, d)' => Pending(op, d)
      BY <1>6 DEF Pending
    <2>6. Same(d)
      BY <1>6, <1>9, <1>11, <1>15, <2>1, <2>4, <2>5 DEF Same
    <2>7. QED
      BY <1>0, <2>6, SameInv
  <1>16. QED
    BY <1>1, <1>2, <1>3, <1>4, <1>12, <1>14, <1>15

(* ~Connection leaves what matters of the members. *)
LEMMA DestroyIs ==
  ASSUME ServerTypes, NEW c \in Conns, conn[c] \in Connection, NEW last \in BOOLEAN, Destroy(c, last)
  PROVE  /\ conn' \in [Conns -> Connection \cup {None}] /\ owed' \in [Conns -> Nat] /\ shut' \subseteq shut
         /\ \A d \in Conns : d # c => conn'[d] = conn[d] /\ owed'[d] = owed[d]
         /\ conn'[c] \in Connection /\ SameFd(conn'[c], conn[c]) /\ conn'[c].statu_ = conn[c].statu_
         /\ \/ owed'[c] = owed[c] /\ conn'[c] = conn[c]
            \/ last /\ owed'[c] = 0 /\ conn'[c].obuffer = 0
  <1>1. CASE last
    <2>1. PICK r : r = [conn[c] EXCEPT !.ibuffer = 0, !.obuffer = 0, !.events = {}]
      OBVIOUS
    <2>2. /\ r \in Connection /\ r.fd = conn[c].fd /\ r.open = conn[c].open /\ r.statu_ = conn[c].statu_
          /\ r.obuffer = 0
      BY <2>1 DEF Connection
    <2>3. conn' = [conn EXCEPT ![c] = r] /\ owed' = [owed EXCEPT ![c] = 0] /\ shut' = shut \ {c}
      BY <1>1, <2>1 DEF Destroy
    <2>4. QED
      BY <1>1, <2>2, <2>3 DEF ServerTypes, SameFd
  <1>2. CASE ~last
    BY <1>2 DEF Destroy, ServerTypes, SameFd
  <1>3. QED
    BY <1>1, <1>2

(* The descriptor, the base loop's hold and the debts of a connection destroyed *)
LEMMA DestroyedInv ==
  ASSUME ServerTypes, NEW c \in Conns, Accepted(c), NEW last \in BOOLEAN, Destroy(c, last),
         UNCHANGED <<owner, channels_, peer, closes, ends, tasks, tasks_>>
  PROVE  conn'[c] # None /\ Descriptor(c)' /\ Paid(c)'
  <1>1. /\ conn'[c] \in Connection /\ SameFd(conn'[c], conn[c])
        /\ \/ owed'[c] = owed[c] /\ conn'[c] = conn[c]
           \/ owed'[c] = 0 /\ conn'[c].obuffer = 0
    BY DestroyIs DEF Accepted
  <1>2. conn'[c] # None
    BY <1>1, Members
  <1>3. Descriptor(c)'
    BY <1>1 DEF Accepted, Descriptor, SameFd
  <1>4. Paid(c)'
    BY <1>1 DEF Accepted, Paid, Pending, Queue
  <1>5. QED
    BY <1>2, <1>3, <1>4

(* TcpServer drops a connection from conns_. *)
LEMMA DropInv ==
  ASSUME ServerInv, ReleaseConnectionInLoop
  PROVE  /\ ServerTypes' /\ \A d \in Conns : ConnInv(d)'
         /\ \E c \in Conns : /\ c = Head(baseTasks) /\ Accepted(c) /\ closes[c] > 0
                             /\ ~Pending("established", c)
  <1>0. ServerTypes /\ (\A d \in Conns : ConnInv(d)) /\ building = None /\ baseTasks # <<>>
    BY DEF ServerInv, ReleaseConnectionInLoop
  <1>1. /\ baseTasks \in Seq(Conns) /\ Tail(baseTasks) \in Seq(Conns)
        /\ Head(baseTasks) \in Conns /\ Has(baseTasks, Head(baseTasks))
        /\ \A x : Has(Tail(baseTasks), x) => Has(baseTasks, x)
        /\ \A x : Has(baseTasks, x) => x = Head(baseTasks) \/ Has(Tail(baseTasks), x)
    BY <1>0, HasTail DEF ServerTypes
  <1>2. PICK c \in Conns : c = Head(baseTasks)
    BY <1>1
  <1>3. conn[c] # None /\ closes[c] > 0 /\ Accepted(c) /\ ~Pending("established", c)
    <2>1. ConnInv(c) /\ Has(baseTasks, c)
      BY <1>0, <1>1, <1>2
    <2>2. conn[c] # None
      BY <2>1 DEF ConnInv, Unborn
    <2>3. Descriptor(c) /\ Kept(c) /\ Young(c) /\ Paid(c) /\ conn[c] \in Connection
      BY <1>0, <2>1, <2>2 DEF ConnInv, ServerTypes
    <2>4. closes[c] > 0 /\ closes[c] # 0
      BY <1>0, <2>1, <2>3 DEF Kept, ServerTypes
    <2>5. QED
      BY <2>2, <2>3, <2>4 DEF Accepted, Young, Paid
  <1>4. PICK last \in BOOLEAN : Destroy(c, last)
    BY <1>2 DEF ReleaseConnectionInLoop
  <1>5. /\ conn' \in [Conns -> Connection \cup {None}] /\ owed' \in [Conns -> Nat] /\ shut' \subseteq shut
        /\ \A d \in Conns : d # c => conn'[d] = conn[d] /\ owed'[d] = owed[d]
    BY <1>0, <1>3, <1>4, DestroyIs DEF Accepted
  <1>6. /\ UNCHANGED <<owner, channels_, interest, peer, rcv, timer, tasks, tasks_, lpc, active, cur,
                       revents, building, held, ends, closes>>
        /\ conns_' = conns_ \ {c} /\ baseTasks' = Tail(baseTasks)
    BY <1>2 DEF ReleaseConnectionInLoop, kernelVars, queueVars, loopVars
  <1>7. ServerTypes'
    BY <1>0, <1>1, <1>5, <1>6 DEF ServerTypes
  <1>8. ConnInv(c)'
    <2>1. conn'[c] # None /\ Descriptor(c)' /\ Paid(c)'
      BY <1>0, <1>3, <1>4, <1>6, DestroyedInv
    <2>2. ~Pending("established", c)'
      BY <1>3, <1>6 DEF Pending, Queue
    <2>3. Kept(c)'
      <3>1. c # None /\ closes[c] # 0
        BY <1>0, <1>3, ServerAssumption DEF ServerTypes
      <3>2. QED
        BY <1>0, <1>3, <1>6, <3>1 DEF Kept
    <2>4. QED
      BY <2>1, <2>2, <2>3, OldInv
  <1>9. ASSUME NEW d \in Conns, d # c PROVE ConnInv(d)'
    <2>1. Same(d)
      BY <1>1, <1>2, <1>5, <1>6, <1>9 DEF Same, Pending, Queue
    <2>2. QED
      BY <1>0, <2>1, SameInv
  <1>10. QED
    BY <1>2, <1>3, <1>7, <1>8, <1>9

(* The application drops its pointer. *)
LEMMA AppDropInv ==
  ASSUME ServerInv, NEW c \in Conns, AppDrop(c)
  PROVE  /\ ServerTypes' /\ \A d \in Conns : ConnInv(d)'
         /\ Accepted(c) /\ ~Pending("established", c)
  <1>0. ServerTypes /\ (\A d \in Conns : ConnInv(d)) /\ c \in held
    BY DEF ServerInv, AppDrop
  <1>1. Accepted(c) /\ ~Pending("established", c)
    BY <1>0, KnownIs DEF Accepted, Paid
  <1>2. PICK last \in BOOLEAN : Destroy(c, last)
    BY DEF AppDrop
  <1>3. /\ conn' \in [Conns -> Connection \cup {None}] /\ owed' \in [Conns -> Nat] /\ shut' \subseteq shut
        /\ \A d \in Conns : d # c => conn'[d] = conn[d] /\ owed'[d] = owed[d]
    BY <1>0, <1>1, <1>2, DestroyIs DEF Accepted
  <1>4. /\ UNCHANGED <<owner, channels_, interest, peer, rcv, timer, tasks, tasks_, lpc, active, cur,
                       revents, building, conns_, baseTasks, ends, closes>>
        /\ held' = held \ {c}
    BY DEF AppDrop, kernelVars, queueVars, loopVars, baseVars
  <1>5. ServerTypes'
    BY <1>0, <1>3, <1>4 DEF ServerTypes
  <1>6. ConnInv(c)'
    <2>1. conn'[c] # None /\ Descriptor(c)' /\ Paid(c)'
      BY <1>0, <1>1, <1>2, <1>4, DestroyedInv
    <2>2. ~Pending("established", c)' /\ Kept(c)'
      BY <1>1, <1>4 DEF Pending, Queue, Accepted, Kept
    <2>3. QED
      BY <2>1, <2>2, OldInv
  <1>7. ASSUME NEW d \in Conns, d # c PROVE ConnInv(d)'
    <2>1. Same(d)
      BY <1>3, <1>4, <1>7 DEF Same, Pending, Queue
    <2>2. QED
      BY <1>0, <2>1, SameInv
  <1>8. QED
    BY <1>1, <1>5, <1>6, <1>7

(* The application's thread sends or shuts down. *)
LEMMA AppCallInv ==
  ASSUME ServerInv, NEW c \in Conns, AppSend(c) \/ AppShutdown(c)
  PROVE  /\ ServerTypes' /\ \A d \in Conns : ConnInv(d)'
         /\ Accepted(c) /\ ~Pending("established", c)
  <1>0. ServerTypes /\ (\A d \in Conns : ConnInv(d)) /\ c \in held
    BY DEF ServerInv, AppSend, AppShutdown
  <1>1. Accepted(c) /\ ~Pending("established", c)
    BY <1>0, KnownIs DEF Accepted, Paid
  <1>2. /\ UNCHANGED <<kernelVars, objectVars, loopVars, baseVars, held, ends, owed, closes>>
        /\ shut' \in SUBSET (shut \cup {c})
    BY DEF AppSend, AppShutdown, appVars, historyVars
  <1>3. PICK op \in {"send", "shutdown"} : PushFrom("app", op, c)
    BY DEF AppSend, AppShutdown
  <1>4. /\ tasks' \in Seq(TaskSet) /\ tasks_' \in Seq(TaskSet)
        /\ \A x : Has(Queue', x) <=> Has(Queue, x) \/ x = <<op, c>>
        /\ \A x : Unique(Queue, x) /\ (x # <<op, c>> \/ ~Has(Queue, x)) => Unique(Queue', x)
    BY <1>0, <1>3, FromQueue DEF Ops
  <1>5. ServerTypes'
    BY <1>0, <1>2, <1>4 DEF ServerTypes, kernelVars, objectVars, loopVars, baseVars
  <1>6. ConnInv(c)'
    <2>1. ~Pending("established", c)' /\ (Pending("release", c)' <=> Pending("release", c))
      BY <1>1, <1>3, <1>4 DEF Pending
    <2>2. Descriptor(c)' /\ Kept(c)' /\ Paid(c)'
      BY <1>1, <1>2, <2>1 DEF Accepted, Descriptor, Kept, Paid, kernelVars, objectVars, baseVars
    <2>3. conn'[c] # None
      BY <1>1, <1>2, Members DEF objectVars, Accepted
    <2>4. QED
      BY <2>1, <2>2, <2>3, OldInv
  <1>7. ASSUME NEW d \in Conns, d # c PROVE ConnInv(d)'
    <2>1. \A o \in Ops : Pending(o, d)' => Pending(o, d)
      BY <1>4, <1>7 DEF Pending
    <2>2. Unique(Queue, <<"established", d>>) => Unique(Queue', <<"established", d>>)
      BY <1>4, <1>7
    <2>3. Same(d)
      BY <1>2, <1>7, <2>1, <2>2 DEF Same, kernelVars, objectVars, loopVars, baseVars
    <2>4. QED
      BY <1>0, <2>3, SameInv
  <1>8. QED
    BY <1>1, <1>5, <1>6, <1>7

(* NewConnection *)
LEMMA NewInv ==
  ASSUME ServerInv, NEW c \in Conns, NEW fd \in Fds, NewConnection(c, fd)
  PROVE  ServerTypes' /\ (\A d \in Conns : ConnInv(d)') /\ conn[c] = None /\ Unborn(c)
  <1>0. ServerTypes /\ (\A d \in Conns : ConnInv(d)) /\ building = None /\ owner[fd] = None
    BY DEF ServerInv, NewConnection
  <1>1. conn[c] = None /\ Unborn(c)
    <2>1. conn[c] = None
      BY DEF NewConnection, Conns
    <2>2. QED
      BY <1>0, <2>1 DEF ConnInv
  <1>2. PICK r : r = [statu_ |-> "CONNECTING", fd |-> fd, open |-> TRUE, events |-> {}, ibuffer |-> 0,
                      obuffer |-> 0]
    OBVIOUS
  <1>3. r \in Connection /\ r # None
    <2>1. {} \in SUBSET {"in", "out"} /\ 0 \in Nat
      OBVIOUS
    <2>2. r \in Connection
      BY <1>2, <2>1 DEF Connection
    <2>3. QED
      BY <2>2, Members
  <1>4. /\ owner' = [owner EXCEPT ![fd] = c] /\ peer' = [peer EXCEPT ![c] = "open"]
        /\ conn' = [conn EXCEPT ![c] = r] /\ building' = c
        /\ UNCHANGED <<interest, rcv, channels_, timer, lpc, active, revents, cur, conns_, baseTasks, held,
                       shut, ends, owed, closes>>
    BY <1>2 DEF NewConnection, loopVars, appVars, historyVars
  <1>5. /\ tasks' \in Seq(TaskSet) /\ tasks_' \in Seq(TaskSet)
        /\ \A x : Has(Queue', x) <=> Has(Queue, x) \/ x = <<"established", c>>
        /\ \A x : Unique(Queue, x) /\ (x # <<"established", c>> \/ ~Has(Queue, x)) => Unique(Queue', x)
    <2>1. PushFrom("base", "established", c) /\ "established" \in Ops
      BY DEF NewConnection, Ops
    <2>2. QED
      BY <1>0, <2>1, FromQueue
  <1>6. ServerTypes'
    BY <1>0, <1>3, <1>4, <1>5 DEF ServerTypes
  <1>7. conn'[c] = r /\ owner'[fd] = c /\ peer'[c] = "open"
    BY <1>0, <1>4 DEF ServerTypes
  <1>8. ConnInv(c)'
    <2>1. Descriptor(c)'
      <3>1. \A f \in Fds : owner'[f] = c => f = fd
        BY <1>0, <1>1, <1>4 DEF ServerTypes, Unborn
      <3>2. QED
        BY <1>1, <1>2, <1>4, <1>7, <3>1 DEF Descriptor, Unborn
    <2>2. Kept(c)'
      BY <1>1, <1>4 DEF Kept, Unborn
    <2>3. Young(c)'
      <3>1. "established" \in Ops /\ Unique(Queue, <<"established", c>>)
        BY <1>1, HasNone DEF Ops, Unborn, Pending
      <3>2. Unique(Queue', <<"established", c>>)
        BY <1>1, <1>5, <3>1 DEF Unborn, Pending
      <3>3. \A op \in Ops \ {"established"} : ~Pending(op, c)'
        BY <1>1, <1>5 DEF Unborn, Pending
      <3>4. QED
        BY <1>1, <1>2, <1>4, <1>7, <3>2, <3>3 DEF Young, Unborn
    <2>4. Paid(c)'
      BY <1>1, <1>2, <1>4, <1>7 DEF Paid, Unborn
    <2>5. QED
      BY <1>3, <1>7, <2>1, <2>2, <2>3, <2>4 DEF ConnInv
  <1>9. ASSUME NEW d \in Conns, d # c PROVE ConnInv(d)'
    <2>1. \A op \in Ops : Pending(op, d)' => Pending(op, d)
      BY <1>5, <1>9 DEF Pending
    <2>2. Unique(Queue, <<"established", d>>) => Unique(Queue', <<"established", d>>)
      BY <1>5, <1>9
    <2>3. \A f \in Fds : owner'[f] = d <=> owner[f] = d
      BY <1>0, <1>4, <1>9, ServerAssumption DEF ServerTypes
    <2>4. conn'[d] = conn[d] /\ peer'[d] = peer[d]
      BY <1>0, <1>4, <1>9 DEF ServerTypes
    <2>5. d # None
      BY ServerAssumption
    <2>6. Same(d)
      BY <1>0, <1>4, <1>9, <2>1, <2>2, <2>3, <2>4, <2>5 DEF Same
    <2>7. QED
      BY <1>0, <2>6, SameInv
  <1>10. QED
    BY <1>1, <1>6, <1>8, <1>9

(* the rest of NewConnection *)
LEMMA InsertInv ==
  ASSUME ServerInv, InsertConnection
  PROVE  ServerTypes' /\ \A d \in Conns : ConnInv(d)'
  <1>0. ServerTypes /\ (\A d \in Conns : ConnInv(d))
    BY DEF ServerInv
  <1>1. /\ building # None /\ conns_' = conns_ \cup {building} /\ building' = None
        /\ UNCHANGED <<kernelVars, objectVars, tasks_, tasks, loopVars, baseTasks, appVars, historyVars>>
    BY DEF InsertConnection, WriteEventfd, ServerInv, LoopPhase
  <1>2. building \in Conns
    BY <1>0, <1>1 DEF ServerTypes
  <1>3. ServerTypes'
    BY <1>0, <1>1, <1>2 DEF ServerTypes, kernelVars, objectVars, loopVars, appVars, historyVars
  <1>4. ASSUME NEW d \in Conns PROVE ConnInv(d)'
    <2>0. d # None
      BY ServerAssumption
    <2>1. Same(d)
      BY <1>1, <2>0 DEF Same, Pending, Queue, kernelVars, objectVars, loopVars, appVars, historyVars
    <2>2. QED
      BY <1>0, <2>1, SameInv
  <1>5. QED
    BY <1>3, <1>4

LEMMA ServerInitInv == Init => ServerInv
  <1> SUFFICES ASSUME Init PROVE ServerInv
    OBVIOUS
  <1>1. ServerTypes
    BY DEF Init, ServerTypes
  <1>2. LoopPhase
    BY DEF Init, LoopPhase
  <1>3. Queue = <<>>
    BY DEF Init, Queue
  <1>4. ASSUME NEW c \in Conns PROVE ConnInv(c)
    <2>1. conn[c] = None /\ c # None
      BY ServerAssumption DEF Init
    <2>2. Unborn(c)
      BY <1>3, <2>1, HasEmpty DEF Init, Unborn, Pending
    <2>3. QED
      BY <2>1, <2>2 DEF ConnInv
  <1>5. QED
    BY <1>1, <1>2, <1>4 DEF ServerInv

LEMMA ServerStepInv == ServerInv /\ [Next]_vars => ServerInv'
  <1> SUFFICES ASSUME ServerInv, [Next]_vars PROVE ServerInv'
    OBVIOUS
  <1>1. LoopPhase'
    BY PhaseInv DEF ServerInv
  <1>2. ServerTypes' /\ \A d \in Conns : ConnInv(d)'
    BY QuietInv, LoopWorkInv, ReleaseInv, InsertInv, DropInv, NewInv, AppCallInv, AppDropInv
       DEF Next, LoopStep, BaseStep
  <1>3. QED
    BY <1>1, <1>2 DEF ServerInv

(* Whatever ends a connection, in whatever order and as often as it likes: what *)
(* a Shutdown finds in obuffer is written before the descriptor is closed,     *)
(* but for a reset or the timer, and unless its release was queued before.  *)
(* For any connections, descriptors, reasons, data and calls of Send.        *)
THEOREM ServerGracefulShutdown == Spec => []GracefulShutdown
  <1>1. ServerInv => GracefulShutdown
    <2> SUFFICES ASSUME ServerInv, NEW c \in Conns, closes[c] > 0, ends[c] \cap {"reset", "idle"} = {}
                 PROVE  owed[c] = 0
      BY DEF GracefulShutdown
    <2>1. ConnInv(c)
      BY DEF ServerInv
    <2>2. QED
      BY <2>1 DEF ConnInv, Unborn, Paid
  <1>2. QED
    BY ServerInitInv, ServerStepInv, <1>1, PTL DEF Spec
-----------------------------------------------------------------------------
(* Nothing ended is left over.                                             *)

(* From Established to its release a connection has its channel and epoll      *)
(* watches for what it asked for; without output it is DISCONNECTING only     *)
(* until its release is run.                                               *)
Watched(c) ==
  conn[c] # None =>
    /\ closes[c] > 0 => c \notin active /\ cur # c /\ \A f \in Fds : channels_[f] # c
    /\ closes[c] = 0 /\ ~Pending("established", c) =>
         /\ channels_[conn[c].fd] = c /\ interest[conn[c].fd] = conn[c].events
         /\ Tuned(conn[c]) /\ conn[c].statu_ \in {"CONNECTED", "DISCONNECTING"}
         /\ conn[c].statu_ = "DISCONNECTING" /\ conn[c].obuffer = 0 => Pending("release", c)

(* epoll watches the descriptors that have a channel. *)
Matched == \A f \in Fds : channels_[f] = None <=> interest[f] = None

WatchInv == Untouched => Matched /\ \A c \in Conns : Watched(c)


(* Nothing changes that Watched says of d. *)
SameWatch(d) ==
  /\ closes'[d] = closes[d] /\ (conn'[d] # None => conn[d] # None)
  /\ closes[d] > 0 =>
       ((d \notin active /\ cur # d /\ \A f \in Fds : channels_[f] # d)
          => (d \notin active' /\ cur' # d /\ \A f \in Fds : channels_'[f] # d))
  /\ closes[d] = 0 =>
       /\ conn'[d] = conn[d]
       /\ Pending("established", d) => Pending("established", d)'
       /\ Pending("release", d) => Pending("release", d)'
       /\ channels_[conn[d].fd] = d =>
            channels_'[conn[d].fd] = d /\ interest'[conn[d].fd] = interest[conn[d].fd]

LEMMA SameWatched == ASSUME NEW d \in Conns, Watched(d), SameWatch(d) PROVE Watched(d)'
  BY DEF Watched, SameWatch

(* A connection that has been released and is then touched stays so. *)
LEMMA UntouchedBefore ==
  ASSUME ServerInv, [Next]_vars, Untouched'
  PROVE  Untouched
  <1>0. ServerTypes
    BY DEF ServerInv
  <1>1. CASE UNCHANGED vars
    BY <1>1 DEF vars, Untouched, objectVars, historyVars
  <1>2. CASE Next
    <2>0. ~dead
      BY <1>2 DEF Next
    <2>1. ASSUME NEW c \in Conns, closes[c] > 0,
                 closes'[c] >= closes[c], closes'[c] = closes[c] => conn'[c].statu_ = conn[c].statu_
                                                               \/ conn'[c].statu_ # "DISCONNECTED"
          PROVE  closes[c] = 1 /\ conn[c].statu_ = "DISCONNECTED"
      <3>1. closes[c] \in Nat /\ closes'[c] \in Nat
        BY <1>0, <1>2, ServerStepInv DEF ServerInv, ServerTypes
      <3>2. closes'[c] = 1 /\ conn'[c].statu_ = "DISCONNECTED"
        BY <2>1, <3>1 DEF Untouched
      <3>3. closes[c] = 1 /\ closes'[c] = closes[c]
        BY <2>1, <3>1, <3>2
      <3>4. QED
        BY <2>1, <3>2, <3>3
    <2>2. SUFFICES ASSUME NEW c \in Conns, closes[c] > 0
                   PROVE  /\ closes'[c] >= closes[c]
                          /\ closes'[c] = closes[c] => conn'[c].statu_ = conn[c].statu_
                                                       \/ conn'[c].statu_ # "DISCONNECTED"
      BY <2>0, <2>1 DEF Untouched
    <2>3. closes[c] \in Nat /\ conn[c] \in Connection /\ ~Pending("established", c)
      <3>1. ConnInv(c) /\ closes[c] \in Nat /\ closes[c] # 0
        BY <1>0, <2>2 DEF ServerInv, ServerTypes
      <3>2. conn[c] # None
        BY <3>1 DEF ConnInv, Unborn
      <3>3. conn[c] \in Connection /\ Young(c)
        BY <1>0, <3>1, <3>2 DEF ConnInv, ServerTypes
      <3>4. QED
        BY <3>1, <3>3 DEF Young
    <2>4. ASSUME NEW d, NEW r, NEW w, NEW p, NEW o, Works(d, r, w, p, o), Tunes(d, r, w, p), Leaves(d)
          PROVE  closes' = closes /\ (conn'[c].statu_ = conn[c].statu_ \/ conn'[c].statu_ # "DISCONNECTED")
      <3>1. /\ conn' = [conn EXCEPT ![d] = r] /\ closes' = closes
            /\ r.statu_ = conn[d].statu_ \/ r.statu_ = "DISCONNECTING"
        BY <2>4 DEF Works, Turns, Tunes, Leaves
      <3>2. QED
        BY <1>0, <3>1 DEF ServerTypes
    <2>5. CASE closes' = closes /\ conn' = conn
      BY <2>3, <2>5
    <2>6. ASSUME NEW d \in Conns, Readhandler(d)
          PROVE  closes' = closes /\ (conn'[c].statu_ = conn[c].statu_ \/ conn'[c].statu_ # "DISCONNECTED")
      BY <2>4, <2>6, ReadStep
    <2>7. ASSUME WriteHandler
          PROVE  closes' = closes /\ (conn'[c].statu_ = conn[c].statu_ \/ conn'[c].statu_ # "DISCONNECTED")
      BY <2>4, <2>7, WriteStep
    <2>8. ASSUME NEW d \in Conns, SendTask(d)
          PROVE  closes' = closes /\ (conn'[c].statu_ = conn[c].statu_ \/ conn'[c].statu_ # "DISCONNECTED")
      BY <2>4, <2>8, SendStep
    <2>9. ASSUME NEW d \in Conns, ShutdownTask(d)
          PROVE  closes' = closes /\ (conn'[c].statu_ = conn[c].statu_ \/ conn'[c].statu_ # "DISCONNECTED")
      BY <2>4, <2>9, ShutdownStep
    <2>10. ASSUME NEW d \in Conns, EstablishedInLoop(d)
           PROVE  closes' = closes /\ conn'[c] = conn[c]
      <3>1. d # c
        BY <2>3, <2>10, EstablishedStep
      <3>2. QED
        BY <1>0, <2>10, <3>1 DEF EstablishedInLoop, Becomes, ServerTypes
    <2>11. ASSUME NEW d \in Conns, ReleaseInLoop(d)
           PROVE  /\ closes'[c] >= closes[c] /\ (closes'[c] = closes[c] => conn'[c] = conn[c])
      <3>1. closes' = [closes EXCEPT ![d] = @ + 1] /\ \E r : conn' = [conn EXCEPT ![d] = r]
        BY <2>11 DEF ReleaseInLoop
      <3>2. QED
        BY <1>0, <2>3, <3>1 DEF ServerTypes
    <2>12. ASSUME NEW d \in Conns, NEW fd \in Fds, NewConnection(d, fd)
           PROVE  closes' = closes /\ conn'[c] = conn[c]
      <3>1. d # c
        BY <2>2, <2>12, NewInv, Members, <2>3
      <3>2. QED
        BY <1>0, <2>12, <3>1 DEF NewConnection, historyVars, ServerTypes
    <2>13. ASSUME NEW d \in Conns, AppDrop(d)
           PROVE  closes' = closes /\ conn'[c].statu_ = conn[c].statu_
      <3>1. Accepted(d)
        BY <2>13, AppDropInv
      <3>2. PICK last \in BOOLEAN : Destroy(d, last)
        BY <2>13 DEF AppDrop
      <3>3. conn'[c].statu_ = conn[c].statu_
        BY <1>0, <3>1, <3>2, DestroyIs DEF Accepted
      <3>4. QED
        BY <2>13, <3>3 DEF AppDrop
    <2>14. ASSUME ReleaseConnectionInLoop
           PROVE  closes' = closes /\ conn'[c].statu_ = conn[c].statu_
      <3>1. PICK d \in Conns : d = Head(baseTasks) /\ Accepted(d)
        BY <2>14, DropInv
      <3>2. PICK last \in BOOLEAN : Destroy(d, last)
        BY <2>14, <3>1 DEF ReleaseConnectionInLoop
      <3>3. conn'[c].statu_ = conn[c].statu_
        BY <1>0, <3>1, <3>2, DestroyIs DEF Accepted
      <3>4. QED
        BY <2>14, <3>3 DEF ReleaseConnectionInLoop
    <2>15. CASE EpollWait \/ ReadEventfd \/ ExecTaskInQueue \/ Ontime \/ InsertConnection \/ AppNotify
      BY <2>5, <2>15 DEF EpollWait, ReadEventfd, ExecTaskInQueue, Ontime, InsertConnection, AppNotify,
         WriteEventfd, objectVars, historyVars
    <2>16. ASSUME NEW d \in Conns,
                  PeerSends(d) \/ PeerReads(d) \/ PeerEnds(d) \/ AppSend(d) \/ AppShutdown(d)
           PROVE  closes' = closes /\ conn' = conn
      BY <2>16 DEF PeerSends, PeerReads, PeerEnds, AppSend, AppShutdown, objectVars, historyVars
    <2>17. QED
      BY <1>2, <2>3, <2>5, <2>6, <2>7, <2>8, <2>9, <2>10, <2>11, <2>12, <2>13, <2>14, <2>15, <2>16
         DEF Next, LoopStep, BaseStep
  <1>3. QED
    BY <1>1, <1>2

(* A handler or task of a connection that has not been released, and whose     *)
(* Established has run                                                     *)
LEMMA WorksWatch ==
  ASSUME ServerInv, Matched, \A d \in Conns : Watched(d),
         NEW c \in Conns, Accepted(c), closes[c] = 0, ~Pending("established", c),
         NEW op \in {"none", "send", "shutdown"}, NEW r, NEW w, NEW p, NEW o, NEW q,
         Works(c, r, w, p, o), Tunes(c, r, w, p), Leaves(c), Left(op, c, p, q)
  PROVE  Matched' /\ \A d \in Conns : Watched(d)'
  <1>0. ServerTypes /\ \A d \in Conns : ConnInv(d)
    BY DEF ServerInv
  <1>1. /\ QueueGets(q, c, p) /\ \A x : x # <<op, c>> => (Has(Queue, x) => Has(q, x))
    BY <1>0, LeftIs DEF Works
  <1>2. \A x : Has(Queue', x) <=> Has(q, x) \/ (p # <<>> /\ x = Rel(c))
    BY <1>1 DEF QueueGets
  <1>3. /\ channels_[conn[c].fd] = c /\ interest[conn[c].fd] = conn[c].events
        /\ Tuned(conn[c]) /\ conn[c].statu_ \in {"CONNECTED", "DISCONNECTING"}
        /\ conn[c].statu_ = "DISCONNECTING" /\ conn[c].obuffer = 0 => Pending("release", c)
        /\ conn[c] \in Connection
    BY Members DEF Watched, Accepted
  <1>4. Known(c)
    BY <1>3 DEF Known, Accepted, Descriptor
  <1>5. /\ r \in Connection /\ r.fd = conn[c].fd /\ r.open = conn[c].open
        /\ conn' = [conn EXCEPT ![c] = r] /\ channels_' = channels_
        /\ interest' = [interest EXCEPT ![r.fd] = r.events]
    BY <1>4 DEF Works, Turns, SameFd
  <1>6. r.fd \in Fds /\ r.events # None /\ c # None /\ r.events \in SUBSET {"in", "out"}
    <2>1. r.fd \in Fds /\ r.events \in SUBSET {"in", "out"}
      BY <1>5, Members
    <2>2. r.events # None
      BY <2>1, NoneAssumption
    <2>3. QED
      BY <2>1, <2>2, ServerAssumption
  <1>7. Matched'
    BY <1>0, <1>3, <1>5, <1>6 DEF Matched, ServerTypes
  <1>8. Watched(c)'
    <2>1. conn'[c] = r /\ interest'[r.fd] = r.events /\ closes'[c] = 0
      BY <1>0, <1>5, <1>6 DEF ServerTypes, Leaves
    <2>2. Tuned(r) /\ r.statu_ \in {"CONNECTED", "DISCONNECTING"}
      BY <1>3 DEF Tunes
    <2>3. r.statu_ = "DISCONNECTING" /\ r.obuffer = 0 => Pending("release", c)'
      <3>1. Pending("release", c) => Pending("release", c)'
        BY <1>1, <1>2 DEF Pending
      <3>2. p # <<>> => Pending("release", c)'
        BY <1>2 DEF Pending, Rel
      <3>3. QED
        BY <1>3, <3>1, <3>2 DEF Tunes
    <2>4. channels_'[r.fd] = c
      BY <1>3, <1>5
    <2>5. QED
      BY <2>1, <2>2, <2>3, <2>4 DEF Watched
  <1>9. ASSUME NEW d \in Conns, d # c PROVE Watched(d)'
    <2>1. conn'[d] = conn[d] /\ closes'[d] = closes[d]
      BY <1>0, <1>5, <1>9 DEF ServerTypes, Leaves
    <2>2. Pending("established", d) => Pending("established", d)'
      BY <1>1, <1>2, <1>9 DEF Pending
    <2>3. Pending("release", d) => Pending("release", d)'
      BY <1>1, <1>2, <1>9 DEF Pending
    <2>4. channels_[conn[d].fd] = d => interest'[conn[d].fd] = interest[conn[d].fd]
      <3>1. channels_[conn[d].fd] = d => conn[d].fd # r.fd
        BY <1>3, <1>5, <1>9
      <3>2. QED
        BY <1>0, <1>5, <3>1 DEF ServerTypes
    <2>5. d # None /\ (d \notin active => d \notin active') /\ (cur # d => cur' # d)
      BY <1>9, ServerAssumption DEF Leaves
    <2>6. SameWatch(d)
      BY <1>5, <2>1, <2>2, <2>3, <2>4, <2>5 DEF SameWatch
    <2>7. QED
      BY <2>6, SameWatched
  <1>10. QED
    BY <1>7, <1>8, <1>9

(* A step that leaves the members alone and adds to the queue at most *)
LEMMA StillWatch ==
  ASSUME ServerInv, Matched, \A d \in Conns : Watched(d),
         UNCHANGED <<channels_, interest, closes>>,
         \A d \in Conns : closes[d] = 0 => conn'[d] = conn[d],
         \A d \in Conns : conn'[d] # None => conn[d] # None,
         \A d \in Conns : d \in active' => d \in active \/ \E f \in Fds : channels_[f] = d,
         \A d \in Conns : cur' = d => cur = d,
         \A x : Has(Queue, x) => Has(Queue', x)
  PROVE  Matched' /\ \A d \in Conns : Watched(d)'
  <1>1. Matched'
    BY DEF Matched
  <1>2. ASSUME NEW d \in Conns PROVE Watched(d)'
    <2>1. SameWatch(d)
      BY DEF SameWatch, Pending
    <2>2. QED
      BY <2>1, SameWatched
  <1>3. QED
    BY <1>1, <1>2

(* A timer that has fired, or a Send, on a connection released already *)
LEMMA LateWatch ==
  ASSUME ServerInv, Matched, \A d \in Conns : Watched(d),
         NEW c \in Conns, Accepted(c), closes[c] > 0,
         NEW op \in {"none", "send", "shutdown"}, NEW w, NEW p, NEW o, NEW q,
         Works(c, conn[c], w, p, o), Leaves(c), Left(op, c, p, q), cur' = cur
  PROVE  Matched' /\ \A d \in Conns : Watched(d)'
  <1>0. ServerTypes
    BY DEF ServerInv
  <1>1. /\ QueueGets(q, c, p) /\ \A x : x # <<op, c>> => (Has(Queue, x) => Has(q, x))
    BY <1>0, LeftIs DEF Works
  <1>2. conn' = conn /\ channels_' = channels_ /\ interest' = interest
    BY <1>0 DEF Works, Turns, ServerTypes
  <1>3. closes' = closes /\ active' \subseteq active
    BY DEF Leaves
  <1>4. Matched'
    BY <1>2 DEF Matched
  <1>5. ASSUME NEW d \in Conns PROVE Watched(d)'
    <2>1. d # c => (Pending("established", d) => Pending("established", d)')
                    /\ (Pending("release", d) => Pending("release", d)')
      BY <1>1 DEF Pending, QueueGets
    <2>2. d = c => ~(closes[d] = 0)
      BY <1>0 DEF ServerTypes
    <2>3. SameWatch(d)
      BY <1>2, <1>3, <2>1, <2>2 DEF SameWatch
    <2>4. QED
      BY <2>3, SameWatched
  <1>6. QED
    BY <1>4, <1>5

(* Established gives the connection its channel. *)
LEMMA EstablishedWatch ==
  ASSUME ServerInv, Matched, \A d \in Conns : Watched(d), NEW c \in Conns, EstablishedInLoop(c)
  PROVE  Matched' /\ \A d \in Conns : Watched(d)'
  <1>0. ServerTypes /\ \A d \in Conns : ConnInv(d)
    BY DEF ServerInv
  <1>1. /\ Accepted(c) /\ Young(c) /\ Pending("established", c)
        /\ ~Has(Tail(Queue), <<"established", c>>)
    BY EstablishedStep
  <1>2. PICK r : /\ Works(c, r, {}, <<>>, owed[c]) /\ Leaves(c)
                 /\ Left("established", c, <<>>, Tail(Queue))
                 /\ r.statu_ = "CONNECTED" /\ r.events = {"in"} /\ r.obuffer = conn[c].obuffer
    BY EstablishedStep
  <1>3. /\ closes[c] = 0 /\ conn[c].events = {} /\ conn[c].obuffer = 0 /\ conn[c] \in Connection
        /\ conn[c].fd \in Fds /\ owner[conn[c].fd] = c
    BY <1>1, Members DEF Young, Accepted, Descriptor
  <1>4. channels_[conn[c].fd] = None /\ interest[conn[c].fd] = None
    <2>1. ASSUME NEW d \in Conns, channels_[conn[c].fd] = d PROVE FALSE
      <3>1. conn[d] # None /\ d # c
        BY <1>0, <1>1, <1>3, <2>1 DEF ConnInv, Unborn, Young
      <3>2. conn[d].fd = conn[c].fd /\ Descriptor(d)
        BY <1>0, <1>3, <2>1, <3>1 DEF ConnInv, Descriptor
      <3>3. closes[d] = 0
        <4>1. ~(closes[d] > 0)
          BY <1>3, <2>1, <3>1 DEF Watched
        <4>2. closes[d] \in Nat
          BY <1>0 DEF ServerTypes
        <4>3. QED
          BY <4>1, <4>2
      <3>4. owner[conn[c].fd] = d
        BY <3>2, <3>3 DEF Descriptor
      <3>5. QED
        BY <1>3, <3>1, <3>4
    <2>2. channels_[conn[c].fd] \in Conns \cup {None}
      BY <1>0, <1>3 DEF ServerTypes
    <2>3. QED
      BY <1>3, <2>1, <2>2 DEF Matched
  <1>5. /\ conn' = [conn EXCEPT ![c] = r] /\ r.fd = conn[c].fd /\ r \in Connection
    BY <1>2 DEF Works, Turns, SameFd
  <1>6. /\ channels_' = [channels_ EXCEPT ![r.fd] = c]
        /\ interest' = [interest EXCEPT ![r.fd] = {"in"}]
    <2>1. PICK s : s = [conn[c] EXCEPT !.statu_ = "CONNECTED", !.events = {"in"}]
      OBVIOUS
    <2>2. s.events = {"in"} /\ s.fd = conn[c].fd
      BY <1>3, <2>1 DEF Connection
    <2>3. Becomes(c, s)
      BY <2>1 DEF EstablishedInLoop
    <2>4. UpdateEventMonitor(c, s)
      BY <1>3, <2>2, <2>3 DEF Becomes
    <2>5. owner[s.fd] # None
      BY <1>3, <2>2, ServerAssumption
    <2>6. QED
      BY <1>4, <1>5, <2>2, <2>4, <2>5 DEF UpdateEventMonitor
  <1>7. closes' = closes /\ cur' \in {cur, None, c} /\ active' \subseteq active
    BY <1>2 DEF Leaves
  <1>8. {"in"} # None /\ c # None
    BY NoneAssumption, ServerAssumption
  <1>9. /\ QueueGets(Tail(Queue), c, <<>>)
        /\ \A x : x # <<"established", c>> => (Has(Queue, x) => Has(Tail(Queue), x))
    BY <1>0, <1>2, LeftIs DEF Works
  <1>10. \A x : x # <<"established", c>> => (Has(Queue, x) => Has(Queue', x))
    BY <1>9 DEF QueueGets
  <1>11. Matched'
    BY <1>0, <1>3, <1>5, <1>6, <1>8 DEF Matched, ServerTypes
  <1>12. Watched(c)'
    <2>1. conn'[c] = r /\ channels_'[r.fd] = c /\ interest'[r.fd] = r.events
      BY <1>0, <1>2, <1>3, <1>5, <1>6 DEF ServerTypes
    <2>2. Tuned(r)
      BY <1>2, <1>3 DEF Tuned
    <2>3. QED
      BY <1>2, <1>3, <1>7, <2>1, <2>2 DEF Watched
  <1>13. ASSUME NEW d \in Conns, d # c PROVE Watched(d)'
    <2>1. conn'[d] = conn[d]
      BY <1>0, <1>5, <1>13 DEF ServerTypes
    <2>2. /\ Pending("established", d) => Pending("established", d)'
          /\ Pending("release", d) => Pending("release", d)'
      BY <1>10, <1>13 DEF Pending
    <2>3. /\ \A f \in Fds : channels_'[f] = d => channels_[f] = d
          /\ channels_[conn[d].fd] = d => channels_'[conn[d].fd] = d
                                          /\ interest'[conn[d].fd] = interest[conn[d].fd]
      <3>1. d # None
        BY ServerAssumption
      <3>2. channels_[conn[d].fd] = d => conn[d].fd # r.fd
        BY <1>4, <1>5, <3>1
      <3>3. QED
        BY <1>0, <1>6, <1>13, <3>2 DEF ServerTypes
    <2>4. d # None
      BY ServerAssumption
    <2>5. SameWatch(d)
      BY <1>7, <1>13, <2>1, <2>2, <2>3, <2>4 DEF SameWatch
    <2>6. QED
      BY <2>5, SameWatched
  <1>14. QED
    BY <1>11, <1>12, <1>13

(* A first release takes the channel away. *)
LEMMA ReleaseWatch ==
  ASSUME ServerInv, Matched, \A d \in Conns : Watched(d), NEW c \in Conns, ReleaseInLoop(c), closes[c] = 0
  PROVE  Matched' /\ \A d \in Conns : Watched(d)'
  <1>0. ServerTypes /\ (\A d \in Conns : ConnInv(d)) /\ active = {} /\ cur = None
    BY DEF ServerInv, ReleaseInLoop, Runs, LoopPhase
  <1>1. Accepted(c) /\ Left("release", c, <<>>, Tail(Queue)) /\ <<>> \in Pushes(c)
    BY ReleaseInv
  <1>2. /\ conn[c].fd \in Fds /\ conn[c].open /\ owner[conn[c].fd] = c
        /\ \A f \in Fds : channels_[f] = c => conn[c].fd = f
    BY <1>1, Members DEF Accepted, Descriptor
  <1>3. /\ channels_' = [channels_ EXCEPT ![conn[c].fd] = None]
        /\ interest' = [interest EXCEPT ![conn[c].fd] = None]
        /\ closes' = [closes EXCEPT ![c] = @ + 1] /\ active' = active /\ cur' = cur
        /\ \E r : conn' = [conn EXCEPT ![c] = r]
    BY DEF ReleaseInLoop, RemoveEventMonitor, loopVars
  <1>4. Matched'
    BY <1>0, <1>2, <1>3 DEF Matched, ServerTypes
  <1>5. Watched(c)'
    <2>1. closes'[c] = 1 /\ c # None
      BY <1>0, <1>3, ServerAssumption DEF ServerTypes
    <2>2. \A f \in Fds : channels_'[f] # c
      BY <1>0, <1>2, <1>3, <2>1 DEF ServerTypes
    <2>3. QED
      BY <1>0, <1>3, <2>1, <2>2 DEF Watched
  <1>6. ASSUME NEW d \in Conns, d # c PROVE Watched(d)'
    <2>0. conn'[d] = conn[d] /\ closes'[d] = closes[d] /\ d # None
      BY <1>0, <1>3, <1>6, ServerAssumption DEF ServerTypes
    <2>1. \A x : x # <<"release", c>> => (Has(Queue, x) => Has(Queue', x))
      BY <1>0, <1>1, LeftIs DEF QueueGets
    <2>2. /\ Pending("established", d) => Pending("established", d)'
          /\ Pending("release", d) => Pending("release", d)'
      BY <1>6, <2>1 DEF Pending
    <2>3. closes[d] = 0 /\ channels_[conn[d].fd] = d => conn[d].fd # conn[c].fd
      <3>1. ASSUME closes[d] = 0, conn[d].fd = conn[c].fd, channels_[conn[d].fd] = d PROVE FALSE
        <4>1. conn[d] # None
          BY <1>0, <1>2, <3>1 DEF ConnInv, Unborn
        <4>2. owner[conn[d].fd] = d
          BY <1>0, <3>1, <4>1 DEF ConnInv, Descriptor
        <4>3. QED
          BY <1>2, <1>6, <3>1, <4>2
      <3>2. QED
        BY <3>1
    <2>4. /\ closes[d] = 0 /\ channels_[conn[d].fd] = d =>
               channels_'[conn[d].fd] = d /\ interest'[conn[d].fd] = interest[conn[d].fd]
          /\ \A f \in Fds : channels_'[f] = d => channels_[f] = d
      BY <1>0, <1>2, <1>3, <2>0, <2>3 DEF ServerTypes
    <2>5. SameWatch(d)
      BY <1>3, <2>0, <2>2, <2>4 DEF SameWatch
    <2>6. QED
      BY <2>5, SameWatched
  <1>7. QED
    BY <1>4, <1>5, <1>6

LEMMA WatchStep == ServerInv /\ WatchInv /\ [Next]_vars => WatchInv'
  <1> SUFFICES ASSUME ServerInv, WatchInv, [Next]_vars, Untouched'
               PROVE  Matched' /\ \A d \in Conns : Watched(d)'
    BY DEF WatchInv
  <1>0. ServerTypes /\ (\A d \in Conns : ConnInv(d)) /\ Untouched
    BY UntouchedBefore DEF ServerInv
  <1>1. Matched /\ \A d \in Conns : Watched(d)
    BY <1>0 DEF WatchInv
  <1>2. \A c \in Conns : Accepted(c) /\ (c \in active \/ cur = c) => closes[c] = 0
    BY <1>0, <1>1, Members DEF Watched, Accepted, ServerTypes
  <1>3. CASE UNCHANGED vars
    <2>1. /\ UNCHANGED <<channels_, interest, closes, conn, active, cur>> /\ Queue' = Queue
      BY <1>3 DEF vars, kernelVars, objectVars, queueVars, loopVars, historyVars, Queue
    <2>2. QED
      BY <1>1, <2>1, StillWatch
  <1>4. ASSUME NEW c \in Conns, Readhandler(c) PROVE Matched' /\ \A d \in Conns : Watched(d)'
    <2>1. Accepted(c) /\ ~Pending("established", c) /\ c \in active
      BY <1>4, ReadStep DEF Readhandler
    <2>2. PICK r, w, p, o : /\ Works(c, r, w, p, o) /\ Tunes(c, r, w, p) /\ Leaves(c)
                            /\ Left("none", c, p, Queue)
      BY <1>4, ReadStep
    <2>3. QED
      BY <1>1, <1>2, <2>1, <2>2, WorksWatch
  <1>5. ASSUME WriteHandler PROVE Matched' /\ \A d \in Conns : Watched(d)'
    <2>1. cur \in Conns /\ Accepted(cur) /\ ~Pending("established", cur)
      BY <1>5, WriteStep
    <2>2. PICK r, w, p, o : /\ Works(cur, r, w, p, o) /\ Tunes(cur, r, w, p) /\ Leaves(cur)
                            /\ Left("none", cur, p, Queue)
      BY <1>5, WriteStep
    <2>3. QED
      BY <1>1, <1>2, <2>1, <2>2, WorksWatch
  <1>6. ASSUME Ontime PROVE Matched' /\ \A d \in Conns : Watched(d)'
    <2>1. PICK c \in Conns :
            /\ Accepted(c) /\ ~Pending("established", c) /\ cur' = cur
            /\ Works(c, conn[c], {"idle"}, <<Rel(c)>>, owed[c]) /\ Tunes(c, conn[c], {"idle"}, <<Rel(c)>>)
            /\ Leaves(c) /\ Left("none", c, <<Rel(c)>>, Queue)
      BY <1>6, OntimeStep
    <2>2. CASE closes[c] = 0
      BY <1>1, <2>1, <2>2, WorksWatch
    <2>3. CASE closes[c] > 0
      BY <1>1, <2>1, <2>3, LateWatch
    <2>4. QED
      BY <1>0, <2>2, <2>3 DEF ServerTypes
  <1>7. ASSUME NEW c \in Conns, SendTask(c) PROVE Matched' /\ \A d \in Conns : Watched(d)'
    <2>1. PICK r : /\ Works(c, r, {}, <<>>, owed[c]) /\ Tunes(c, r, {}, <<>>) /\ Leaves(c)
                   /\ Left("send", c, <<>>, Tail(Queue)) /\ (conn[c].statu_ = "DISCONNECTED" => r = conn[c])
      BY <1>7, SendStep
    <2>2. Accepted(c) /\ ~Pending("established", c) /\ cur' = cur
      BY <1>7, SendStep DEF SendTask, loopVars
    <2>3. CASE closes[c] = 0
      BY <1>1, <2>1, <2>2, <2>3, WorksWatch
    <2>4. CASE closes[c] > 0
      <3>1. r = conn[c]
        BY <1>0, <2>1, <2>4 DEF Untouched
      <3>2. QED
        BY <1>1, <2>1, <2>2, <2>4, <3>1, LateWatch
    <2>5. QED
      BY <1>0, <2>3, <2>4 DEF ServerTypes
  <1>8. ASSUME NEW c \in Conns, ShutdownTask(c) PROVE Matched' /\ \A d \in Conns : Watched(d)'
    <2>1. PICK r, w, p, o : /\ Works(c, r, w, p, o) /\ Tunes(c, r, w, p) /\ Leaves(c)
                            /\ Left("shutdown", c, p, Tail(Queue)) /\ r.statu_ = "DISCONNECTING"
      BY <1>8, ShutdownStep
    <2>2. Accepted(c) /\ ~Pending("established", c)
      BY <1>8, ShutdownStep
    <2>3. closes[c] = 0
      <3>1. conn'[c].statu_ = "DISCONNECTING" /\ closes'[c] = closes[c]
        BY <1>0, <2>1 DEF Works, Turns, Leaves, ServerTypes
      <3>2. ~(closes[c] > 0)
        BY <3>1 DEF Untouched
      <3>3. QED
        BY <1>0, <3>2 DEF ServerTypes
    <2>4. QED
      BY <1>1, <2>1, <2>2, <2>3, WorksWatch
  <1>9. ASSUME NEW c \in Conns, EstablishedInLoop(c) PROVE Matched' /\ \A d \in Conns : Watched(d)'
    BY <1>1, <1>9, EstablishedWatch
  <1>10. ASSUME NEW c \in Conns, ReleaseInLoop(c) PROVE Matched' /\ \A d \in Conns : Watched(d)'
    <2>1. closes' = [closes EXCEPT ![c] = @ + 1] /\ closes[c] \in Nat
      BY <1>0, <1>10 DEF ReleaseInLoop, ServerTypes
    <2>2. closes'[c] = closes[c] + 1
      BY <1>0, <2>1 DEF ServerTypes
    <2>3. closes[c] = 0
      BY <2>1, <2>2 DEF Untouched
    <2>4. QED
      BY <1>1, <1>10, <2>3, ReleaseWatch
  <1>11. CASE EpollWait \/ ReadEventfd \/ ExecTaskInQueue \/ AppNotify \/ InsertConnection
    <2>1. /\ UNCHANGED <<channels_, interest, closes, conn, cur>>
      BY <1>11 DEF EpollWait, ReadEventfd, ExecTaskInQueue, AppNotify, InsertConnection, WriteEventfd,
         kernelVars, objectVars, loopVars, historyVars
    <2>2. Queue' = Queue
      <3>1. CASE ExecTaskInQueue
        <4>1. tasks = <<>> /\ tasks' = tasks_ /\ tasks_' = <<>>
          BY <3>1 DEF ExecTaskInQueue, ServerInv, LoopPhase
        <4>2. QED
          BY <1>0, <4>1, SwapQueue
      <3>2. CASE EpollWait \/ ReadEventfd \/ AppNotify \/ InsertConnection
        BY <3>2 DEF EpollWait, ReadEventfd, AppNotify, InsertConnection, WriteEventfd, queueVars, Queue
      <3>3. QED
        BY <1>11, <3>1, <3>2
    <2>3. ASSUME NEW d \in Conns, d \in active' PROVE d \in active \/ \E f \in Fds : channels_[f] = d
      <3>1. d # Eventfd /\ d # Timerfd
        BY ServerAssumption
      <3>2. QED
        BY <1>11, <2>3, <3>1 DEF EpollWait, ReadEventfd, ExecTaskInQueue, AppNotify, InsertConnection,
           WriteEventfd, loopVars
    <2>4. QED
      BY <1>1, <2>1, <2>2, <2>3, StillWatch
  <1>12. ASSUME NEW c \in Conns, PeerSends(c) \/ PeerReads(c) \/ PeerEnds(c)
         PROVE  Matched' /\ \A d \in Conns : Watched(d)'
    <2>1. UNCHANGED <<channels_, interest, closes, conn, active, cur>> /\ Queue' = Queue
      BY <1>12 DEF PeerSends, PeerReads, PeerEnds, objectVars, queueVars, loopVars, historyVars, Queue
    <2>2. QED
      BY <1>1, <2>1, StillWatch
  <1>13. ASSUME NEW c \in Conns, NEW fd \in Fds, NewConnection(c, fd)
         PROVE  Matched' /\ \A d \in Conns : Watched(d)'
    <2>1. conn[c] = None /\ Unborn(c)
      BY <1>13, NewInv
    <2>2. PushFrom("base", "established", c) /\ "established" \in Ops
      BY <1>13 DEF NewConnection, Ops
    <2>3. \A x : Has(Queue', x) <=> Has(Queue, x) \/ x = <<"established", c>>
      BY <1>0, <2>2, FromQueue
    <2>4. UNCHANGED <<channels_, interest, closes, active, cur>> /\ \E r : conn' = [conn EXCEPT ![c] = r]
      BY <1>13 DEF NewConnection, loopVars, historyVars
    <2>5. Matched'
      BY <1>1, <2>4 DEF Matched
    <2>6. ASSUME NEW d \in Conns, d # c PROVE Watched(d)'
      <3>1. conn'[d] = conn[d]
        BY <1>0, <2>4, <2>6 DEF ServerTypes
      <3>2. SameWatch(d)
        BY <2>3, <2>4, <3>1 DEF SameWatch, Pending
      <3>3. QED
        BY <1>1, <3>2, SameWatched
    <2>7. Watched(c)'
      <3>1. closes'[c] = 0 /\ Pending("established", c)'
        BY <2>1, <2>3, <2>4 DEF Unborn, Pending
      <3>2. QED
        BY <3>1 DEF Watched
    <2>8. QED
      BY <2>5, <2>6, <2>7
  <1>14. ASSUME NEW c \in Conns, AppSend(c) \/ AppShutdown(c)
         PROVE  Matched' /\ \A d \in Conns : Watched(d)'
    <2>1. PICK op \in {"send", "shutdown"} : PushFrom("app", op, c)
      BY <1>14 DEF AppSend, AppShutdown
    <2>2. \A x : Has(Queue, x) => Has(Queue', x)
      BY <1>0, <2>1, FromQueue DEF Ops
    <2>3. UNCHANGED <<channels_, interest, closes, conn, active, cur>>
      BY <1>14 DEF AppSend, AppShutdown, kernelVars, objectVars, loopVars, historyVars
    <2>4. QED
      BY <1>1, <2>2, <2>3, StillWatch
  <1>15. ASSUME NEW c \in Conns, AppDrop(c) PROVE Matched' /\ \A d \in Conns : Watched(d)'
    <2>1. Accepted(c)
      BY <1>15, AppDropInv
    <2>2. PICK last \in BOOLEAN : Destroy(c, last) /\ (last => c \notin conns_ \cup {building})
      BY <1>15 DEF AppDrop
    <2>3. UNCHANGED <<channels_, interest, closes, active, cur>> /\ Queue' = Queue
      BY <1>15 DEF AppDrop, kernelVars, queueVars, loopVars, Queue
    <2>4. /\ \A d \in Conns : d # c => conn'[d] = conn[d]
          /\ conn'[c] = conn[c] \/ last
      BY <1>0, <2>1, <2>2, DestroyIs DEF Accepted
    <2>5. last => closes[c] # 0
      BY <2>1, <2>2 DEF Accepted, Kept
    <2>6. conn[c] # None
      BY <2>1, Members DEF Accepted
    <2>7. QED
      BY <1>1, <2>3, <2>4, <2>5, <2>6, StillWatch
  <1>16. ASSUME ReleaseConnectionInLoop PROVE Matched' /\ \A d \in Conns : Watched(d)'
    <2>1. PICK c \in Conns : c = Head(baseTasks) /\ Accepted(c) /\ closes[c] > 0
      BY <1>16, DropInv
    <2>2. PICK last \in BOOLEAN : Destroy(c, last)
      BY <1>16, <2>1 DEF ReleaseConnectionInLoop
    <2>3. UNCHANGED <<channels_, interest, closes, active, cur>> /\ Queue' = Queue
      BY <1>16 DEF ReleaseConnectionInLoop, kernelVars, queueVars, loopVars, Queue
    <2>4. \A d \in Conns : d # c => conn'[d] = conn[d]
      BY <1>0, <2>1, <2>2, DestroyIs DEF Accepted
    <2>5. conn[c] # None
      BY <2>1, Members DEF Accepted
    <2>6. QED
      BY <1>1, <2>1, <2>3, <2>4, <2>5, StillWatch
  <1>17. QED
    BY <1>3, <1>4, <1>5, <1>6, <1>7, <1>8, <1>9, <1>10, <1>11, <1>12, <1>13, <1>14, <1>15, <1>16
       DEF Next, LoopStep, BaseStep

(* Whatever ends a connection, in whatever order and combination, it is not left *)
(* over: when the threads have come to rest, its descriptor is closed and     *)
(* TcpServer has dropped it.  For any connections, descriptors, reasons and   *)
(* data.                                                                   *)
THEOREM ServerEndedIsForgotten == Spec => []EndedIsForgotten
  <1>1. Init => WatchInv
    <2> SUFFICES ASSUME Init PROVE Matched /\ \A c \in Conns : Watched(c)
      BY DEF WatchInv
    <2>1. QED
      BY DEF Init, Matched, Watched
  <1>2. ServerInv /\ WatchInv /\ TasksCovered => EndedIsForgotten
    <2> SUFFICES ASSUME ServerInv, WatchInv, TasksCovered, Untouched, AtRest, NEW c \in Conns, Ended(c)
                 PROVE  Forgotten(c)
      BY DEF EndedIsForgotten
    <2>0. ServerTypes /\ (\A d \in Conns : ConnInv(d)) /\ Matched /\ \A d \in Conns : Watched(d)
      BY DEF ServerInv, WatchInv
    <2>1. building = None /\ baseTasks = <<>> /\ pushing = {}
      BY DEF ServerInv, LoopPhase, AtRest
    <2>2. conn[c] # None /\ conn[c] \in Connection /\ Descriptor(c) /\ Kept(c) /\ Young(c)
      BY <2>0 DEF Ended, ConnInv, ServerTypes
    <2>3. CASE closes[c] > 0
      <3>1. ~Open(c)
        BY <2>0, <2>2, <2>3 DEF Open, Descriptor, ServerTypes
      <3>2. ~Has(baseTasks, c)
        BY <2>1, HasEmpty
      <3>3. QED
        BY <2>2, <2>3, <3>1, <3>2 DEF Kept, Forgotten
    <2>4. CASE closes[c] = 0
      <3>1. conn[c].open /\ owner[conn[c].fd] = c /\ conn[c].fd \in Fds /\ peer[c] # "closed"
        BY <2>2, <2>4, Members DEF Descriptor
      <3>2. snd[c] = 0
        BY <3>1 DEF AtRest, Open
      <3>3. ~(lpc = "events" /\ cur = None /\ active = {Timerfd} /\ timer = {})
        BY DEF ServerInv, LoopPhase
      <3>4. ~(cur # None /\ conn[cur].open /\ snd[cur] = SndCapacity)
        <4>1. ASSUME cur # None, conn[cur].open, snd[cur] = SndCapacity PROVE FALSE
          <5>1. cur \in Conns /\ conn[cur] # None
            BY <2>0, <4>1 DEF ServerTypes, ConnInv, Unborn
          <5>2. owner[conn[cur].fd] = cur /\ conn[cur].fd \in Fds
            BY <2>0, <4>1, <5>1, Members DEF ServerTypes, ConnInv, Descriptor
          <5>3. snd[cur] = 0
            BY <5>1, <5>2 DEF AtRest, Open
          <5>4. QED
            BY <4>1, <5>3, ServerAssumption
        <4>2. QED
          BY <4>1
      <3>5. /\ lpc = "tasks" /\ tasks = <<>> /\ ~eventfd
            /\ \A f \in Fds : interest[f] # None => Reported(owner[f], interest[f]) = {}
        BY <3>3, <3>4 DEF AtRest, LoopRests
      <3>6. tasks_ = <<>>
        BY <2>1, <3>5 DEF TasksCovered
      <3>7. \A op \in Ops : ~Pending(op, c)
        BY <2>0, <3>5, <3>6, QueueIs, HasEmpty DEF Pending
      <3>8. /\ interest[conn[c].fd] = conn[c].events /\ channels_[conn[c].fd] = c
            /\ Tuned(conn[c]) /\ conn[c].statu_ \in {"CONNECTED", "DISCONNECTING"}
            /\ conn[c].statu_ = "DISCONNECTING" => conn[c].obuffer # 0
        BY <2>0, <2>2, <2>4, <3>7 DEF Watched, Ops
      <3>9. interest[conn[c].fd] # None
        BY <2>2, <3>8, Members, NoneAssumption
      <3>10. Reported(c, conn[c].events) = {}
        BY <3>1, <3>5, <3>8, <3>9
      <3>11. peer[c] \notin {"fin", "rst"}
        BY <3>8, <3>10 DEF Reported, Tuned
      <3>12. conn[c].statu_ = "DISCONNECTING"
        BY <3>1, <3>8, <3>11 DEF Ended
      <3>13. "out" \in conn[c].events
        BY <2>2, <3>8, <3>12, Members DEF Tuned
      <3>14. snd[c] < SndCapacity
        BY <3>2, ServerAssumption
      <3>15. QED
        BY <3>10, <3>13, <3>14 DEF Reported
    <2>5. QED
      BY <2>0, <2>3, <2>4 DEF ServerTypes
  <1>3. QED
    BY ServerInitInv, ServerStepInv, ServerTasksCovered, <1>1, WatchStep, <1>2, PTL DEF Spec
-----------------------------------------------------------------------------
(* One release for one reason.                                             *)

(* A release comes from a reason, once.  The timer of an inactive connection *)
(* is gone when it has fired, and has not shut it down.                    *)
Reasoned(c) ==
  /\ Unique(Queue, <<"release", c>>) /\ "nested" \notin ends[c]
  /\ Pending("release", c) => closes[c] = 0
  /\ Pending("release", c) \/ closes[c] > 0 \/ conn[c].statu_ = "DISCONNECTING" => ends[c] # {}
  /\ "idle" \in ends[c] => c \notin timer /\ conn[c].statu_ # "DISCONNECTING"

(* A reset finds output; output that was reported writable is still there when *)
(* that is handled, and an error is a reset.                               *)
Heard(c) ==
  /\ peer[c] = "rst" => conn[c].obuffer > 0
  /\ c \in active \/ cur = c =>
       /\ "out" \in revents[c] => conn[c].obuffer > 0
       /\ "err" \in revents[c] => peer[c] = "rst"
  /\ cur = c => c \notin active /\ revents[c] # {}

(* What a handler queues is run before the next events; what the application's *)
(* Shutdown queues may be run after them, but there is no output by then.     *)
Ordered(c) ==
  /\ ends[c] \cap {"fin", "reset", "callback"} # {} /\ Has(tasks_, <<"release", c>>) =>
       lpc = "events" /\ c \notin active /\ cur # c
  /\ "app" \in ends[c] /\ Pending("release", c) =>
       /\ cur # c /\ (c \in active => revents[c] \cap {"out", "err"} = {})
       /\ lpc = "tasks" /\ Has(tasks_, <<"release", c>>) => conn[c].obuffer = 0

(* The application's thread sends first and then shuts down, while it holds a *)
(* pointer; when the Shutdown has run there are no Sends any more.          *)
SendsFirst(c) ==
  /\ Before(Queue, <<"send", c>>, <<"shutdown", c>>) /\ Unique(Queue, <<"shutdown", c>>)
  /\ Pending("shutdown", c) => c \in shut
  /\ Pending("send", c) \/ Pending("shutdown", c) => c \in held
  /\ "app" \in ends[c] => /\ ~Pending("send", c) /\ ~Pending("shutdown", c)
                          /\ c \in held => c \in shut

OnceFor(c) == Reasoned(c) /\ Heard(c) /\ Ordered(c) /\ SendsFirst(c)

OnceInv == OneReason => Untouched /\ \A c \in Conns : conn[c] # None => OnceFor(c)

(* A reason stays, and another one does not come. *)
LEMMA OneReasonBefore ==
  ASSUME ServerInv, [Next]_vars, OneReason'
  PROVE  OneReason
  <1>0. ServerTypes
    BY DEF ServerInv
  <1>1. SUFFICES ASSUME NEW c \in Conns PROVE ends[c] \subseteq ends'[c]
    BY DEF OneReason
  <1>2. ASSUME NEW d, NEW w, ends' = [ends EXCEPT ![d] = @ \cup w] PROVE ends[c] \subseteq ends'[c]
    BY <1>0, <1>2 DEF ServerTypes
  <1>3. ASSUME NEW d \in Conns, Readhandler(d) PROVE ends[c] \subseteq ends'[c]
    BY <1>2, <1>3, ReadStep DEF Works
  <1>4. ASSUME WriteHandler PROVE ends[c] \subseteq ends'[c]
    BY <1>2, <1>4, WriteStep DEF Works
  <1>5. ASSUME NEW d \in Conns, ShutdownTask(d) PROVE ends[c] \subseteq ends'[c]
    BY <1>2, <1>5, ShutdownStep DEF Works
  <1>6. CASE Ontime
    BY <1>2, <1>6 DEF Ontime, EndedBy
  <1>7. CASE UNCHANGED ends
    BY <1>7
  <1>8. CASE UNCHANGED vars \/ EpollWait \/ ReadEventfd \/ ExecTaskInQueue \/ BaseStep \/ AppNotify
    BY <1>7, <1>8 DEF vars, historyVars, EpollWait, ReadEventfd, ExecTaskInQueue, BaseStep,
       InsertConnection, ReleaseConnectionInLoop, AppNotify, WriteEventfd
  <1>9. ASSUME NEW d \in Conns, \/ EstablishedInLoop(d) \/ SendTask(d) \/ ReleaseInLoop(d)
                                \/ PeerSends(d) \/ PeerReads(d) \/ PeerEnds(d)
                                \/ AppSend(d) \/ AppShutdown(d) \/ AppDrop(d)
                                \/ \E fd \in Fds : NewConnection(d, fd)
        PROVE  UNCHANGED ends
    BY <1>9 DEF EstablishedInLoop, SendTask, ReleaseInLoop, PeerSends, PeerReads, PeerEnds, AppSend,
       AppShutdown, AppDrop, NewConnection, historyVars
  <1>10. QED
    BY <1>3, <1>4, <1>5, <1>6, <1>7, <1>8, <1>9 DEF Next, LoopStep

(* Nothing changes of d that matters here. *)
SameOnce(d) ==
  /\ conn'[d] = conn[d] /\ closes'[d] = closes[d] /\ ends'[d] = ends[d] /\ peer'[d] = peer[d]
  /\ (d \in active' => d \in active) /\ (cur' = d => cur = d) /\ lpc' = lpc
  /\ revents'[d] = revents[d]
  /\ (d \in timer' => d \in timer) /\ (d \in shut' <=> d \in shut) /\ (d \in held' <=> d \in held)
  /\ \A op \in {"send", "shutdown", "release"} : Pending(op, d)' => Pending(op, d)
  /\ Has(tasks_', <<"release", d>>) => Has(tasks_, <<"release", d>>)
  /\ Unique(Queue, <<"release", d>>) => Unique(Queue', <<"release", d>>)
  /\ Unique(Queue, <<"shutdown", d>>) => Unique(Queue', <<"shutdown", d>>)
  /\ Before(Queue, <<"send", d>>, <<"shutdown", d>>) => Before(Queue', <<"send", d>>, <<"shutdown", d>>)

LEMMA SameOnceFor == ASSUME NEW d \in Conns, OnceFor(d), SameOnce(d) PROVE OnceFor(d)'
  <1>1. Reasoned(d)'
    BY DEF OnceFor, Reasoned, SameOnce
  <1>2. Heard(d)'
    BY DEF OnceFor, Heard, SameOnce
  <1>3. Ordered(d)'
    BY DEF OnceFor, Ordered, SameOnce
  <1>4. SendsFirst(d)'
    BY DEF OnceFor, SendsFirst, SameOnce
  <1>5. QED
    BY <1>1, <1>2, <1>3, <1>4 DEF OnceFor

(* no reason but the one *)
Only(c, w) == \A x, y \in ends[c] \cup w : x = y

(* what a handler or task of c leaves to the others *)
LEMMA WorksOthers ==
  ASSUME ServerInv, \A d \in Conns : conn[d] # None => OnceFor(d),
         NEW c \in Conns, NEW op \in {"none"} \cup Ops, NEW r, NEW w, NEW p, NEW o, NEW q,
         Works(c, r, w, p, o), Leaves(c), Left(op, c, p, q)
  PROVE  \A d \in Conns : d # c /\ conn'[d] # None => OnceFor(d)'
  <1>0. ServerTypes
    BY DEF ServerInv
  <1>1. /\ QueueGets(q, c, p) /\ \A x : Has(q, x) => Has(Queue, x)
        /\ \A x : Unique(Queue, x) => Unique(q, x)
        /\ \A x, y : Before(Queue, x, y) => Before(q, x, y)
    BY <1>0, LeftIs DEF Works
  <1>2. SUFFICES ASSUME NEW d \in Conns, d # c, conn'[d] # None PROVE OnceFor(d)'
    OBVIOUS
  <1>3. conn'[d] = conn[d] /\ ends'[d] = ends[d]
    BY <1>0, <1>2 DEF Works, Turns, ServerTypes
  <1>4. /\ \A x : x # Rel(c) => (Has(Queue', x) => Has(Queue, x))
        /\ \A x : x # Rel(c) => (Has(tasks_', x) => Has(tasks_, x))
        /\ \A x : x # Rel(c) => (Unique(Queue, x) => Unique(Queue', x))
        /\ \A x, y : x # Rel(c) => (Before(Queue, x, y) => Before(Queue', x, y))
    BY <1>1 DEF QueueGets
  <1>5. <<"release", d>> # Rel(c) /\ <<"send", d>> # Rel(c) /\ <<"shutdown", d>> # Rel(c)
    BY <1>2 DEF Rel
  <1>6. /\ \A op2 \in {"send", "shutdown", "release"} : Pending(op2, d)' => Pending(op2, d)
        /\ Has(tasks_', <<"release", d>>) => Has(tasks_, <<"release", d>>)
        /\ Unique(Queue, <<"release", d>>) => Unique(Queue', <<"release", d>>)
        /\ Unique(Queue, <<"shutdown", d>>) => Unique(Queue', <<"shutdown", d>>)
        /\ Before(Queue, <<"send", d>>, <<"shutdown", d>>) => Before(Queue', <<"send", d>>, <<"shutdown", d>>)
    BY <1>4, <1>5 DEF Pending
  <1>7. /\ (d \in active' => d \in active) /\ (cur' = d => cur = d) /\ lpc' = lpc
        /\ (d \in timer' => d \in timer) /\ (d \in shut' <=> d \in shut) /\ (d \in held' <=> d \in held)
        /\ closes'[d] = closes[d] /\ peer'[d] = peer[d] /\ revents'[d] = revents[d]
    BY <1>2, ServerAssumption DEF Leaves
  <1>8. SameOnce(d)
    BY <1>3, <1>6, <1>7 DEF SameOnce
  <1>9. QED
    BY <1>2, <1>3, <1>8, SameOnceFor

(* what a handler or task does to the queue, as far as c is concerned *)
LEMMA WorksOwn ==
  ASSUME ServerInv, NEW c \in Conns, OnceFor(c),
         NEW op \in {"none"} \cup Ops, NEW r, NEW w, NEW p, NEW o, NEW q,
         Works(c, r, w, p, o), Leaves(c), Left(op, c, p, q)
  PROVE  /\ conn'[c] = r /\ ends'[c] = ends[c] \cup w
         /\ p \in Pushes(c)
         /\ Pending("release", c)' <=> Has(q, Rel(c)) \/ p # <<>>
         /\ Has(q, Rel(c)) => Pending("release", c)
         /\ Pending("send", c)' => Pending("send", c)
         /\ Pending("shutdown", c)' => Pending("shutdown", c)
         /\ Pending("send", c)' <=> Has(q, <<"send", c>>)
         /\ Pending("shutdown", c)' <=> Has(q, <<"shutdown", c>>)
         /\ Has(tasks_', Rel(c)) <=> Has(tasks_, Rel(c)) \/ p # <<>>
         /\ p = <<>> \/ (p # <<Rel(c), Rel(c)>> /\ ~Has(q, Rel(c))) => Unique(Queue', Rel(c))
         /\ Unique(Queue', <<"shutdown", c>>)
         /\ Before(Queue', <<"send", c>>, <<"shutdown", c>>)
         /\ closes' = closes /\ peer' = peer /\ shut' = shut /\ lpc' = lpc
  <1>0. ServerTypes
    BY DEF ServerInv
  <1>1. /\ QueueGets(q, c, p) /\ \A x : Has(q, x) => Has(Queue, x)
        /\ \A x : Unique(Queue, x) => Unique(q, x)
        /\ \A x, y : Before(Queue, x, y) => Before(q, x, y)
        /\ p \in Pushes(c)
    BY <1>0, LeftIs DEF Works
  <1>2. <<"send", c>> # Rel(c) /\ <<"shutdown", c>> # Rel(c) /\ Rel(c) = <<"release", c>>
    BY DEF Rel
  <1>3. /\ \A x : Has(Queue', x) <=> Has(q, x) \/ (p # <<>> /\ x = Rel(c))
        /\ \A x : Has(tasks_', x) <=> Has(tasks_, x) \/ (p # <<>> /\ x = Rel(c))
    BY <1>1 DEF QueueGets
  <1>4. p = <<>> \/ (p # <<Rel(c), Rel(c)>> /\ ~Has(q, Rel(c))) => Unique(Queue', Rel(c))
    <2>1. Unique(q, Rel(c))
      BY <1>1, <1>2 DEF OnceFor, Reasoned
    <2>2. p = <<>> \/ p = <<Rel(c)>> \/ p = <<Rel(c), Rel(c)>>
      BY <1>1 DEF Pushes
    <2>3. QED
      BY <1>1, <2>1, <2>2 DEF QueueGets
  <1>5. Unique(Queue', <<"shutdown", c>>) /\ Before(Queue', <<"send", c>>, <<"shutdown", c>>)
    <2>1. Unique(q, <<"shutdown", c>>) /\ Before(q, <<"send", c>>, <<"shutdown", c>>)
      BY <1>1 DEF OnceFor, SendsFirst
    <2>2. QED
      BY <1>1, <1>2, <2>1 DEF QueueGets
  <1>6. conn'[c] = r /\ ends'[c] = ends[c] \cup w
    BY <1>0 DEF Works, Turns, ServerTypes
  <1>7. /\ Pending("release", c)' <=> Has(q, Rel(c)) \/ p # <<>>
        /\ Has(q, Rel(c)) => Pending("release", c)
        /\ Pending("send", c)' => Pending("send", c)
        /\ Pending("shutdown", c)' => Pending("shutdown", c)
        /\ Pending("send", c)' <=> Has(q, <<"send", c>>)
        /\ Pending("shutdown", c)' <=> Has(q, <<"shutdown", c>>)
    BY <1>1, <1>2, <1>3 DEF Pending
  <1>8. Has(tasks_', Rel(c)) <=> Has(tasks_, Rel(c)) \/ p # <<>>
    BY <1>3
  <1>9. closes' = closes /\ peer' = peer /\ shut' = shut /\ lpc' = lpc
    BY DEF Leaves
  <1>10. QED
    BY <1>1, <1>4, <1>5, <1>6, <1>7, <1>8, <1>9

(* The reasons of a connection after a step that leaves one *)
LEMMA OnlyIs ==
  ASSUME NEW c \in Conns, OneReason', NEW w, ends'[c] = ends[c] \cup w
  PROVE  Only(c, w)
  BY DEF OneReason, Only

(* Readhandler *)
LEMMA ReadOnce ==
  ASSUME ServerInv, Matched, \A d \in Conns : Watched(d), OneReason',
         NEW c \in Conns, OnceFor(c), Readhandler(c)
  PROVE  OnceFor(c)'
  <1>0. ServerTypes /\ c \in active /\ cur = None /\ lpc = "events" /\ tasks = <<>> /\ Accepted(c)
    BY ReadStep DEF ServerInv, Readhandler, LoopPhase
  <1>1. PICK r, w, p, o : /\ Works(c, r, w, p, o) /\ Tunes(c, r, w, p) /\ Leaves(c)
                          /\ Left("none", c, p, Queue)
                          /\ r.obuffer >= conn[c].obuffer
                          /\ w # {} => w \cap {"fin", "reset", "callback"} # {}
                          /\ p # <<>> => w # {} /\ r.obuffer = 0
    BY ReadStep
  <1>2. /\ conn'[c] = r /\ ends'[c] = ends[c] \cup w /\ p \in Pushes(c)
        /\ Pending("release", c)' <=> Pending("release", c) \/ p # <<>>
        /\ Pending("send", c)' => Pending("send", c)
        /\ Pending("shutdown", c)' => Pending("shutdown", c)
        /\ Has(tasks_', Rel(c)) <=> Has(tasks_, Rel(c)) \/ p # <<>>
        /\ p = <<>> \/ (p # <<Rel(c), Rel(c)>> /\ ~Pending("release", c)) => Unique(Queue', Rel(c))
        /\ Unique(Queue', <<"shutdown", c>>)
        /\ Before(Queue', <<"send", c>>, <<"shutdown", c>>)
        /\ closes' = closes /\ peer' = peer /\ shut' = shut /\ lpc' = lpc
    BY <1>1, WorksOwn DEF Pending, Rel
  <1>3. Only(c, w)
    BY <1>2, OnlyIs
  <1>4. closes[c] = 0
    BY <1>0, Members DEF Watched, Accepted, ServerTypes
  <1>5. Pending("release", c) => Has(tasks_, Rel(c))
    BY <1>0, QueueIs, HasEmpty DEF Pending, Rel
  <1>6. Pending("release", c) => ends[c] \cap {"fin", "reset", "callback"} = {} /\ ends[c] # {}
    BY <1>0, <1>5 DEF OnceFor, Reasoned, Ordered, Rel
  <1>7. w # {} => ~Pending("release", c) /\ w \subseteq {"fin", "reset", "callback"} /\ ends[c] \subseteq w
    BY <1>1, <1>3, <1>6 DEF Only
  <1>8. p # <<Rel(c), Rel(c)>>
    BY <1>1, <1>3 DEF Tunes, Only
  <1>9. r.obuffer \in Nat /\ conn[c].obuffer \in Nat /\ r.obuffer >= conn[c].obuffer
    BY <1>0, <1>1, Members DEF Accepted, Works, Turns
  <1>10. /\ cur' = (IF revents[c] \cap {"out", "err"} = {} THEN None ELSE c)
         /\ revents'[c] = revents[c] \cap {"out", "err"} /\ c \notin active' /\ timer' = timer
         /\ held' = held /\ c # None
    BY <1>0, ServerAssumption DEF Readhandler, appVars, ServerTypes
  <1>11. p # <<>> => cur' # c
    <2>1. p # <<>> => conn[c].obuffer = 0
      BY <1>1, <1>9
    <2>2. conn[c].obuffer = 0 => revents[c] \cap {"out", "err"} = {}
      BY <1>0 DEF OnceFor, Heard
    <2>3. QED
      BY <1>10, <2>1, <2>2
  <1>12. Reasoned(c)'
    <2>1. Unique(Queue', Rel(c))
      BY <1>1, <1>2, <1>7, <1>8
    <2>2. "nested" \notin ends'[c]
      BY <1>2, <1>7 DEF OnceFor, Reasoned
    <2>3. Pending("release", c)' \/ closes'[c] > 0 \/ r.statu_ = "DISCONNECTING" => ends'[c] # {}
      BY <1>1, <1>2 DEF OnceFor, Reasoned, Tunes
    <2>4. "idle" \in ends'[c] => c \notin timer' /\ r.statu_ # "DISCONNECTING"
      <3>1. "idle" \in ends'[c] => "idle" \in ends[c] /\ w = {}
        BY <1>2, <1>7
      <3>2. QED
        BY <1>1, <1>10, <3>1 DEF OnceFor, Reasoned, Tunes
    <2>5. QED
      BY <1>2, <1>4, <2>1, <2>2, <2>3, <2>4 DEF Reasoned, Rel
  <1>13. Heard(c)'
    <2>1. peer[c] = "rst" => r.obuffer > 0
      BY <1>9 DEF OnceFor, Heard
    <2>2. "out" \in revents[c] => r.obuffer > 0
      BY <1>0, <1>9 DEF OnceFor, Heard
    <2>3. "err" \in revents[c] => peer[c] = "rst"
      BY <1>0 DEF OnceFor, Heard
    <2>4. cur' = c => revents'[c] # {}
      BY <1>10
    <2>5. QED
      BY <1>2, <1>10, <2>1, <2>2, <2>3, <2>4 DEF Heard
  <1>14. Ordered(c)'
    <2>1. ASSUME ends'[c] \cap {"fin", "reset", "callback"} # {}, Has(tasks_', Rel(c)) PROVE cur' # c
      <3>1. CASE p # <<>>
        BY <1>11, <3>1
      <3>2. CASE p = <<>>
        <4>1. Has(tasks_, Rel(c)) /\ Pending("release", c)
          BY <1>0, <1>2, <2>1, <3>2, QueueIs DEF Pending, Rel
        <4>2. w = {}
          BY <1>7, <4>1
        <4>3. QED
          BY <1>2, <1>6, <2>1, <4>1, <4>2
      <3>3. QED
        BY <3>1, <3>2
    <2>2. ASSUME "app" \in ends'[c], Pending("release", c)' PROVE cur' # c
      <3>1. w = {} /\ "app" \in ends[c]
        BY <1>2, <1>7, <2>2
      <3>2. Pending("release", c)
        BY <1>1, <1>2, <2>2, <3>1
      <3>3. revents[c] \cap {"out", "err"} = {}
        BY <1>0, <3>1, <3>2 DEF OnceFor, Ordered
      <3>4. QED
        BY <1>10, <3>3
    <2>3. QED
      BY <1>0, <1>2, <1>10, <2>1, <2>2 DEF Ordered, Rel
  <1>15. SendsFirst(c)'
    <2>1. "app" \in ends'[c] => "app" \in ends[c]
      BY <1>2, <1>7
    <2>2. QED
      BY <1>2, <1>10, <2>1 DEF OnceFor, SendsFirst
  <1>16. QED
    BY <1>12, <1>13, <1>14, <1>15 DEF OnceFor

(* WriteHandler *)
LEMMA WriteOnce ==
  ASSUME ServerInv, Matched, \A d \in Conns : Watched(d), OneReason',
         NEW c \in Conns, OnceFor(c), c = cur, WriteHandler
  PROVE  OnceFor(c)'
  <1>0. /\ ServerTypes /\ lpc = "events" /\ tasks = <<>> /\ Accepted(c) /\ c # None
        /\ cur' = None /\ timer' = timer /\ held' = held /\ active' = active
    <2>1. lpc = "events"
      BY ServerAssumption DEF ServerInv, LoopPhase, ServerTypes
    <2>2. QED
      BY <2>1, WriteStep, ServerAssumption DEF ServerInv, WriteHandler, LoopPhase, appVars
  <1>1. PICK r, w, p, o : /\ Works(c, r, w, p, o) /\ Tunes(c, r, w, p) /\ Leaves(c)
                          /\ Left("none", c, p, Queue)
                          /\ peer[c] = "rst" => r.obuffer >= conn[c].obuffer
                          /\ w # {} => "reset" \in w
                          /\ w = {} /\ p # <<>> => conn[c].statu_ = "DISCONNECTING"
    BY WriteStep
  <1>2. /\ conn'[c] = r /\ ends'[c] = ends[c] \cup w /\ p \in Pushes(c)
        /\ Pending("release", c)' <=> Pending("release", c) \/ p # <<>>
        /\ Pending("send", c)' => Pending("send", c)
        /\ Pending("shutdown", c)' => Pending("shutdown", c)
        /\ Has(tasks_', Rel(c)) <=> Has(tasks_, Rel(c)) \/ p # <<>>
        /\ p = <<>> \/ (p # <<Rel(c), Rel(c)>> /\ ~Pending("release", c)) => Unique(Queue', Rel(c))
        /\ Unique(Queue', <<"shutdown", c>>)
        /\ Before(Queue', <<"send", c>>, <<"shutdown", c>>)
        /\ closes' = closes /\ peer' = peer /\ shut' = shut /\ lpc' = lpc
    BY <1>1, WorksOwn DEF Pending, Rel
  <1>3. Only(c, w)
    BY <1>2, OnlyIs
  <1>4. closes[c] = 0
    BY <1>0, Members DEF Watched, Accepted, ServerTypes
  <1>5. Pending("release", c) => Has(tasks_, Rel(c))
    BY <1>0, QueueIs, HasEmpty DEF Pending, Rel
  <1>6. Pending("release", c) => /\ ends[c] \cap {"fin", "reset", "callback"} = {} /\ ends[c] # {}
                                 /\ "app" \notin ends[c] /\ "nested" \notin ends[c]
                                 /\ conn[c].statu_ = "DISCONNECTING" => "idle" \notin ends[c]
    BY <1>5 DEF OnceFor, Reasoned, Ordered, Rel
  <1>7. w # {} => w = {"reset"} /\ ends[c] \subseteq w
    BY <1>1, <1>3 DEF Only
  <1>8. p # <<Rel(c), Rel(c)>>
    BY <1>1, <1>3 DEF Tunes, Only
  <1>9. p # <<>> => ~Pending("release", c)
    <2>1. CASE w # {}
      BY <1>6, <1>7, <2>1
    <2>2. ASSUME w = {}, p # <<>>, Pending("release", c) PROVE FALSE
      <3>1. ends[c] \subseteq Reasons /\ conn[c].statu_ = "DISCONNECTING"
        BY <1>0, <1>1, <2>2 DEF ServerTypes
      <3>2. QED
        BY <1>6, <2>2, <3>1 DEF Reasons
    <2>3. QED
      BY <2>1, <2>2
  <1>10. r.obuffer \in Nat /\ conn[c].obuffer \in Nat /\ (peer[c] = "rst" => r.obuffer >= conn[c].obuffer)
    BY <1>0, <1>1, Members DEF Accepted, Works, Turns
  <1>11. c \notin active'
    BY <1>0 DEF OnceFor, Heard
  <1>12. Reasoned(c)'
    <2>1. Unique(Queue', Rel(c))
      BY <1>2, <1>8, <1>9
    <2>2. "nested" \notin ends'[c]
      BY <1>2, <1>7 DEF OnceFor, Reasoned
    <2>3. Pending("release", c)' \/ closes'[c] > 0 \/ r.statu_ = "DISCONNECTING" => ends'[c] # {}
      BY <1>1, <1>2 DEF OnceFor, Reasoned, Tunes
    <2>4. "idle" \in ends'[c] => c \notin timer' /\ r.statu_ # "DISCONNECTING"
      <3>1. "idle" \in ends'[c] => "idle" \in ends[c] /\ w = {}
        BY <1>2, <1>7
      <3>2. QED
        BY <1>0, <1>1, <3>1 DEF OnceFor, Reasoned, Tunes
    <2>5. QED
      BY <1>2, <1>4, <2>1, <2>2, <2>3, <2>4 DEF Reasoned, Rel
  <1>13. Heard(c)'
    <2>1. peer[c] = "rst" => r.obuffer > 0
      BY <1>10 DEF OnceFor, Heard
    <2>2. QED
      BY <1>0, <1>2, <1>11, <2>1 DEF Heard
  <1>14. Ordered(c)'
    BY <1>0, <1>2, <1>11 DEF Ordered
  <1>15. SendsFirst(c)'
    <2>1. "app" \in ends'[c] => "app" \in ends[c]
      BY <1>2, <1>7
    <2>2. QED
      BY <1>0, <1>2, <2>1 DEF OnceFor, SendsFirst
  <1>16. QED
    BY <1>12, <1>13, <1>14, <1>15 DEF OnceFor

(* the same for a task that pushes nothing and is no reason *)
LEMMA PlainOwn ==
  ASSUME ServerInv, NEW c \in Conns, OnceFor(c), NEW op \in {"none"} \cup Ops, NEW r, NEW o, NEW q,
         Works(c, r, {}, <<>>, o), Leaves(c), Left(op, c, <<>>, q)
  PROVE  /\ conn'[c] = r /\ ends'[c] = ends[c]
         /\ Pending("release", c)' => Pending("release", c)
         /\ Pending("send", c)' => Pending("send", c)
         /\ Pending("shutdown", c)' => Pending("shutdown", c)
         /\ Has(tasks_', Rel(c)) => Has(tasks_, Rel(c))
         /\ Unique(Queue', Rel(c))
         /\ Unique(Queue', <<"shutdown", c>>)
         /\ Before(Queue', <<"send", c>>, <<"shutdown", c>>)
         /\ closes' = closes /\ peer' = peer /\ shut' = shut /\ lpc' = lpc
  <1>1. PICK w, p : w = {} /\ p = <<>>
    OBVIOUS
  <1>2. Works(c, r, w, p, o) /\ Left(op, c, p, q)
    BY <1>1
  <1>3. /\ conn'[c] = r /\ ends'[c] = ends[c] \cup w
        /\ Pending("release", c)' <=> Has(q, Rel(c)) \/ p # <<>>
        /\ Has(q, Rel(c)) => Pending("release", c)
        /\ Pending("send", c)' => Pending("send", c)
        /\ Pending("shutdown", c)' => Pending("shutdown", c)
        /\ Has(tasks_', Rel(c)) <=> Has(tasks_, Rel(c)) \/ p # <<>>
        /\ p = <<>> => Unique(Queue', Rel(c))
        /\ Unique(Queue', <<"shutdown", c>>)
        /\ Before(Queue', <<"send", c>>, <<"shutdown", c>>)
        /\ closes' = closes /\ peer' = peer /\ shut' = shut /\ lpc' = lpc
    BY <1>2, WorksOwn
  <1>4. QED
    BY <1>1, <1>3

(* the timer of an inactive connection *)
LEMMA OntimeOnce ==
  ASSUME ServerInv, \A d \in Conns : conn[d] # None => OnceFor(d), OneReason', Ontime
  PROVE  /\ \A d \in Conns : conn'[d] # None => OnceFor(d)'
         /\ UNCHANGED <<conn, closes, dead>>
  <1>0. ServerTypes /\ lpc = "events" /\ cur = None /\ UNCHANGED <<conn, closes, dead, held>>
    BY DEF ServerInv, Ontime, appVars
  <1>1. PICK c \in timer :
           /\ c \in Conns /\ Accepted(c)
           /\ Works(c, conn[c], {"idle"}, <<Rel(c)>>, owed[c])
           /\ Leaves(c) /\ Left("none", c, <<Rel(c)>>, Queue)
           /\ timer' = timer \ {c} /\ lpc' = lpc /\ cur' = cur /\ revents' = revents
    BY OntimeStep
  <1>2. conn[c] # None /\ OnceFor(c)
    BY <1>1, Members DEF Accepted
  <1>3. /\ ends'[c] = ends[c] \cup {"idle"}
        /\ Pending("send", c)' => Pending("send", c)
        /\ Pending("shutdown", c)' => Pending("shutdown", c)
        /\ <<Rel(c)>> # <<Rel(c), Rel(c)>> /\ ~Pending("release", c) => Unique(Queue', Rel(c))
        /\ Unique(Queue', <<"shutdown", c>>)
        /\ Before(Queue', <<"send", c>>, <<"shutdown", c>>)
        /\ closes' = closes /\ peer' = peer /\ shut' = shut /\ lpc' = lpc
    BY <1>1, <1>2, WorksOwn DEF Pending, Rel
  <1>4. ends'[c] = {"idle"} /\ ends[c] = {}
    <2>1. Only(c, {"idle"})
      BY <1>1, <1>3, OnlyIs
    <2>2. "idle" \notin ends[c]
      BY <1>1, <1>2 DEF OnceFor, Reasoned
    <2>3. ends[c] = {}
      BY <2>1, <2>2 DEF Only
    <2>4. QED
      BY <1>3, <2>3
  <1>5. ~Pending("release", c) /\ ~(closes[c] > 0) /\ conn[c].statu_ # "DISCONNECTING"
    BY <1>2, <1>4 DEF OnceFor, Reasoned
  <1>6. closes[c] = 0
    BY <1>0, <1>1, <1>5 DEF ServerTypes
  <1>7. Reasoned(c)'
    BY <1>0, <1>1, <1>3, <1>4, <1>5, <1>6, PushesDiffer DEF Reasoned, Rel
  <1>8. Heard(c)'
    BY <1>0, <1>1, <1>2, <1>3 DEF OnceFor, Heard, Leaves
  <1>9. Ordered(c)'
    BY <1>4 DEF Ordered
  <1>10. SendsFirst(c)'
    BY <1>0, <1>2, <1>3, <1>4 DEF OnceFor, SendsFirst
  <1>11. \A d \in Conns : d # c /\ conn'[d] # None => OnceFor(d)'
    BY <1>1, WorksOthers
  <1>12. QED
    BY <1>0, <1>7, <1>8, <1>9, <1>10, <1>11 DEF OnceFor

(* While a task of c runs, somebody keeps c. *)
LEMMA AliveIs ==
  ASSUME ServerTypes, NEW c \in Conns, Accepted(c), closes[c] = 0 \/ c \in held
  PROVE  Alive(c)
  BY DEF Alive, Accepted, Kept, Has

(* SendInLoop *)
LEMMA SendOnce ==
  ASSUME ServerInv, Untouched, \A d \in Conns : conn[d] # None => OnceFor(d), NEW c \in Conns, SendTask(c)
  PROVE  /\ \A d \in Conns : conn'[d] # None => OnceFor(d)'
         /\ Untouched'
  <1>0. /\ ServerTypes /\ lpc = "tasks" /\ active = {} /\ cur = None /\ Accepted(c) /\ Pending("send", c)
        /\ UNCHANGED <<lpc, active, cur, timer, held, revents>> /\ dead' = ~Alive(c)
    BY SendStep, RunsIs DEF ServerInv, SendTask, LoopPhase, Runs, loopVars, appVars, Ops
  <1>1. PICK r : /\ Works(c, r, {}, <<>>, owed[c]) /\ Tunes(c, r, {}, <<>>) /\ Leaves(c)
                 /\ Left("send", c, <<>>, Tail(Queue))
                 /\ r.obuffer >= conn[c].obuffer
                 /\ conn[c].statu_ = "DISCONNECTED" => r = conn[c]
    BY SendStep
  <1>2. conn[c] # None /\ OnceFor(c) /\ c # None
    BY <1>0, Members, ServerAssumption DEF Accepted
  <1>3. /\ conn'[c] = r /\ ends'[c] = ends[c]
        /\ Pending("release", c)' => Pending("release", c)
        /\ Pending("send", c)' => Pending("send", c)
        /\ Pending("shutdown", c)' => Pending("shutdown", c)
        /\ Has(tasks_', Rel(c)) => Has(tasks_, Rel(c))
        /\ Unique(Queue', Rel(c))
        /\ Unique(Queue', <<"shutdown", c>>)
        /\ Before(Queue', <<"send", c>>, <<"shutdown", c>>)
        /\ closes' = closes /\ peer' = peer /\ shut' = shut /\ lpc' = lpc
    BY <1>1, <1>2, PlainOwn DEF Ops
  <1>4. r.statu_ = conn[c].statu_ /\ (conn[c].obuffer > 0 => r.obuffer > 0)
    <2>1. r.obuffer \in Nat /\ conn[c].obuffer \in Nat
      BY <1>0, <1>1, Members DEF Accepted, Works, Turns
    <2>2. QED
      BY <1>1, <2>1 DEF Tunes
  <1>5. Reasoned(c)'
    BY <1>0, <1>2, <1>3, <1>4 DEF OnceFor, Reasoned, Rel
  <1>6. Heard(c)'
    BY <1>0, <1>2, <1>3, <1>4 DEF OnceFor, Heard
  <1>7. "app" \notin ends[c] /\ c \in held
    BY <1>0, <1>2 DEF OnceFor, SendsFirst
  <1>8. Ordered(c)'
    BY <1>0, <1>2, <1>3, <1>7 DEF OnceFor, Ordered, Rel
  <1>9. SendsFirst(c)'
    BY <1>0, <1>2, <1>3 DEF OnceFor, SendsFirst
  <1>10. \A d \in Conns : d # c /\ conn'[d] # None => OnceFor(d)'
    BY <1>1, WorksOthers DEF Ops
  <1>11. Untouched'
    <2>1. ~dead'
      BY <1>0, <1>7, AliveIs
    <2>2. \A d \in Conns : conn'[d].statu_ = conn[d].statu_
      BY <1>0, <1>1, <1>4 DEF Works, Turns, ServerTypes
    <2>3. QED
      BY <1>3, <2>1, <2>2 DEF Untouched
  <1>12. QED
    BY <1>5, <1>6, <1>8, <1>9, <1>10, <1>11 DEF OnceFor

(* Shutdown by the application's thread *)
LEMMA ShutdownOnce ==
  ASSUME ServerInv, Untouched, \A d \in Conns : conn[d] # None => OnceFor(d), OneReason',
         NEW c \in Conns, ShutdownTask(c)
  PROVE  /\ \A d \in Conns : conn'[d] # None => OnceFor(d)'
         /\ Untouched'
  <1>0. /\ ServerTypes /\ lpc = "tasks" /\ active = {} /\ cur = None /\ Accepted(c) /\ Pending("shutdown", c)
        /\ UNCHANGED <<lpc, active, cur, timer, held, revents>> /\ dead' = ~Alive(c)
        /\ Unique(Queue, <<"shutdown", c>>) => ~Has(Tail(Queue), <<"shutdown", c>>)
        /\ Queue # <<>> /\ Head(Queue) = <<"shutdown", c>> /\ Queue \in Seq(TaskSet)
    BY ShutdownStep, RunsIs DEF ServerInv, ShutdownTask, LoopPhase, Runs, loopVars, appVars, Ops
  <1>1. PICK r, w, p, o : /\ Works(c, r, w, p, o) /\ Tunes(c, r, w, p) /\ Leaves(c)
                          /\ Left("shutdown", c, p, Tail(Queue))
                          /\ r.obuffer >= conn[c].obuffer /\ "app" \in w
                          /\ p # <<>> => r.obuffer = 0
    BY ShutdownStep
  <1>2. conn[c] # None /\ OnceFor(c) /\ c # None
    BY <1>0, Members, ServerAssumption DEF Accepted
  <1>3. /\ conn'[c] = r /\ ends'[c] = ends[c] \cup w
        /\ Has(Tail(Queue), Rel(c)) => Pending("release", c)
        /\ Pending("send", c)' <=> Has(Tail(Queue), <<"send", c>>)
        /\ Pending("shutdown", c)' <=> Has(Tail(Queue), <<"shutdown", c>>)
        /\ Has(tasks_', Rel(c)) <=> Has(tasks_, Rel(c)) \/ p # <<>>
        /\ p = <<>> \/ (p # <<Rel(c), Rel(c)>> /\ ~Has(Tail(Queue), Rel(c))) => Unique(Queue', Rel(c))
        /\ Unique(Queue', <<"shutdown", c>>)
        /\ Before(Queue', <<"send", c>>, <<"shutdown", c>>)
        /\ closes' = closes /\ peer' = peer /\ shut' = shut /\ lpc' = lpc
    BY <1>1, <1>2, WorksOwn DEF Ops
  <1>4. "app" \notin ends[c] /\ c \in held /\ c \in shut
    BY <1>0, <1>2 DEF OnceFor, SendsFirst
  <1>5. ends[c] = {} /\ ends'[c] = {"app"} /\ p # <<Rel(c), Rel(c)>>
    <2>1. Only(c, w)
      BY <1>3, OnlyIs
    <2>2. QED
      BY <1>1, <1>3, <1>4, <2>1 DEF Only, Tunes
  <1>6. ~Pending("release", c) /\ closes[c] = 0
    BY <1>0, <1>2, <1>5 DEF OnceFor, Reasoned, ServerTypes
  <1>7. conn[c].obuffer > 0 => r.obuffer > 0
    <2>1. r.obuffer \in Nat /\ conn[c].obuffer \in Nat
      BY <1>0, <1>1, Members DEF Accepted, Works, Turns
    <2>2. QED
      BY <1>1, <2>1
  <1>8. Reasoned(c)'
    BY <1>3, <1>5, <1>6 DEF Reasoned, Rel
  <1>9. Heard(c)'
    BY <1>0, <1>2, <1>3, <1>7 DEF OnceFor, Heard
  <1>10. Ordered(c)'
    <2>1. ~Has(tasks_, Rel(c))
      BY <1>0, <1>6, QueueIs DEF Pending, Rel
    <2>2. Has(tasks_', Rel(c)) => r.obuffer = 0
      BY <1>1, <1>3, <2>1
    <2>3. QED
      BY <1>0, <1>2, <1>3, <1>5, <2>2 DEF Ordered, Rel
  <1>11. SendsFirst(c)'
    <2>1. ~Has(Tail(Queue), <<"shutdown", c>>)
      BY <1>0, <1>2 DEF OnceFor, SendsFirst
    <2>2. ~Has(Tail(Queue), <<"send", c>>)
      <3>1. Before(Queue, <<"send", c>>, Head(Queue)) /\ <<"send", c>> # Head(Queue)
        BY <1>0, <1>2 DEF OnceFor, SendsFirst
      <3>2. ~Has(Queue, <<"send", c>>)
        BY <1>0, <3>1, HasTail
      <3>3. QED
        BY <1>0, <3>2, HasTail
    <2>3. QED
      BY <1>0, <1>3, <1>4, <2>1, <2>2 DEF SendsFirst
  <1>12. \A d \in Conns : d # c /\ conn'[d] # None => OnceFor(d)'
    BY <1>1, WorksOthers DEF Ops
  <1>13. Untouched'
    <2>1. ~dead'
      BY <1>0, <1>4, AliveIs
    <2>2. \A d \in Conns : d # c => conn'[d] = conn[d]
      BY <1>0, <1>1 DEF Works, Turns, ServerTypes
    <2>3. QED
      BY <1>3, <1>6, <2>1, <2>2 DEF Untouched
  <1>14. QED
    BY <1>8, <1>9, <1>10, <1>11, <1>12, <1>13 DEF OnceFor

(* Established *)
LEMMA EstablishedOnce ==
  ASSUME ServerInv, Untouched, \A d \in Conns : conn[d] # None => OnceFor(d),
         NEW c \in Conns, EstablishedInLoop(c)
  PROVE  /\ \A d \in Conns : conn'[d] # None => OnceFor(d)'
         /\ Untouched'
  <1>0. /\ ServerTypes /\ lpc = "tasks" /\ active = {} /\ cur = None /\ Accepted(c) /\ Young(c)
        /\ Pending("established", c) /\ dead' = ~Alive(c)
        /\ UNCHANGED <<lpc, active, cur, revents>>
    BY EstablishedStep DEF ServerInv, EstablishedInLoop, LoopPhase, Runs, loopVars
  <1>1. PICK r : /\ Works(c, r, {}, <<>>, owed[c]) /\ Leaves(c)
                 /\ Left("established", c, <<>>, Tail(Queue))
                 /\ r.statu_ = "CONNECTED" /\ r.events = {"in"} /\ r.obuffer = conn[c].obuffer
    BY EstablishedStep
  <1>2. conn[c] # None /\ OnceFor(c) /\ c # None
    BY <1>0, Members, ServerAssumption DEF Accepted
  <1>3. /\ conn'[c] = r /\ ends'[c] = ends[c]
        /\ Pending("release", c)' => Pending("release", c)
        /\ Pending("send", c)' => Pending("send", c)
        /\ Pending("shutdown", c)' => Pending("shutdown", c)
        /\ Unique(Queue', Rel(c))
        /\ Unique(Queue', <<"shutdown", c>>)
        /\ Before(Queue', <<"send", c>>, <<"shutdown", c>>)
        /\ closes' = closes /\ peer' = peer /\ shut' = shut /\ lpc' = lpc
    BY <1>1, <1>2, PlainOwn DEF Ops
  <1>4. /\ closes[c] = 0 /\ ends[c] = {}
        /\ ~Pending("release", c) /\ ~Pending("send", c) /\ ~Pending("shutdown", c)
    BY <1>0 DEF Young, Ops
  <1>5. Reasoned(c)'
    BY <1>1, <1>3, <1>4 DEF Reasoned, Rel
  <1>6. Heard(c)'
    BY <1>0, <1>1, <1>2, <1>3 DEF OnceFor, Heard
  <1>7. Ordered(c)'
    BY <1>3, <1>4 DEF Ordered
  <1>8. SendsFirst(c)'
    BY <1>3, <1>4 DEF SendsFirst
  <1>9. \A d \in Conns : d # c /\ conn'[d] # None => OnceFor(d)'
    BY <1>1, WorksOthers DEF Ops
  <1>10. Untouched'
    <2>1. ~dead'
      BY <1>0, <1>4, AliveIs
    <2>2. \A d \in Conns : d # c => conn'[d] = conn[d]
      BY <1>0, <1>1 DEF Works, Turns, ServerTypes
    <2>3. QED
      BY <1>3, <1>4, <2>1, <2>2 DEF Untouched
  <1>11. QED
    BY <1>5, <1>6, <1>7, <1>8, <1>9, <1>10 DEF OnceFor

(* Release *)
LEMMA ReleaseOnce ==
  ASSUME ServerInv, Untouched, \A d \in Conns : conn[d] # None => OnceFor(d),
         NEW c \in Conns, ReleaseInLoop(c)
  PROVE  /\ \A d \in Conns : conn'[d] # None => OnceFor(d)'
         /\ Untouched'
  <1>0. /\ ServerTypes /\ lpc = "tasks" /\ active = {} /\ cur = None /\ Accepted(c) /\ Pending("release", c)
        /\ Left("release", c, <<>>, Tail(Queue)) /\ <<>> \in Pushes(c)
        /\ Unique(Queue, <<"release", c>>) => ~Has(Tail(Queue), <<"release", c>>)
        /\ UNCHANGED <<lpc, active, cur, revents, held, shut, ends>> /\ dead' = ~Alive(c)
    BY ReleaseInv, RunsIs DEF ServerInv, ReleaseInLoop, LoopPhase, Runs, loopVars, appVars, Ops
  <1>1. conn[c] # None /\ OnceFor(c) /\ c # None /\ conn[c] \in Connection
    BY <1>0, Members, ServerAssumption DEF Accepted
  <1>2. /\ QueueGets(Tail(Queue), c, <<>>) /\ \A x : Has(Tail(Queue), x) => Has(Queue, x)
        /\ \A x : Unique(Queue, x) => Unique(Tail(Queue), x)
        /\ \A x, y : Before(Queue, x, y) => Before(Tail(Queue), x, y)
    BY <1>0, LeftIs
  <1>3. /\ \A x : Has(Queue', x) <=> Has(Tail(Queue), x)
        /\ \A x : Has(tasks_', x) => Has(tasks_, x)
        /\ \A x : x # Rel(c) /\ Unique(Queue, x) => Unique(Queue', x)
        /\ \A x, y : x # Rel(c) /\ Before(Queue, x, y) => Before(Queue', x, y)
    BY <1>2 DEF QueueGets
  <1>4. closes[c] = 0 /\ ~Pending("release", c)' /\ ends[c] # {} /\ "nested" \notin ends[c]
    BY <1>0, <1>1, <1>3 DEF OnceFor, Reasoned, Pending
  <1>5. /\ closes' = [closes EXCEPT ![c] = @ + 1] /\ peer' = [peer EXCEPT ![c] = "closed"]
        /\ timer' = timer \ {c}
        /\ conn' = [conn EXCEPT ![c] = [conn[c] EXCEPT !.statu_ = "DISCONNECTED", !.open = FALSE]]
    BY DEF ReleaseInLoop
  <1>6. PICK r : r = [conn[c] EXCEPT !.statu_ = "DISCONNECTED", !.open = FALSE]
    OBVIOUS
  <1>7. r.statu_ = "DISCONNECTED" /\ conn'[c] = r /\ closes'[c] = 1 /\ peer'[c] = "closed"
    BY <1>0, <1>1, <1>4, <1>5, <1>6 DEF Connection, ServerTypes
  <1>8. Reasoned(c)'
    <2>1. Unique(Queue', <<"release", c>>)
      BY <1>4, HasNone DEF Pending
    <2>2. QED
      BY <1>0, <1>4, <1>5, <1>7, <2>1 DEF Reasoned
  <1>9. Heard(c)' /\ Ordered(c)'
    <2>1. Heard(c)'
      BY <1>0, <1>1, <1>7 DEF Heard
    <2>2. Has(tasks_', Rel(c)) => Has(tasks_, Rel(c))
      BY <1>3
    <2>3. Ordered(c)'
      BY <1>0, <1>1, <1>4, <2>2 DEF OnceFor, Ordered, Rel
    <2>4. QED
      BY <2>1, <2>3
  <1>10. SendsFirst(c)'
    <2>1. <<"send", c>> # Rel(c) /\ <<"shutdown", c>> # Rel(c)
      BY DEF Rel
    <2>2. QED
      BY <1>0, <1>1, <1>2, <1>3, <2>1 DEF OnceFor, SendsFirst, Pending
  <1>11. ASSUME NEW d \in Conns, d # c, conn'[d] # None PROVE OnceFor(d)'
    <2>1. conn'[d] = conn[d] /\ closes'[d] = closes[d] /\ peer'[d] = peer[d]
      BY <1>0, <1>5, <1>11 DEF ServerTypes
    <2>2. <<"release", d>> # Rel(c) /\ <<"send", d>> # Rel(c) /\ <<"shutdown", d>> # Rel(c)
      BY <1>11 DEF Rel
    <2>3. SameOnce(d)
      BY <1>0, <1>2, <1>3, <1>5, <2>1, <2>2 DEF SameOnce, Pending
    <2>4. QED
      BY <1>11, <2>1, <2>3, SameOnceFor
  <1>12. Untouched'
    <2>1. ~dead'
      BY <1>0, <1>4, AliveIs
    <2>2. \A d \in Conns : d # c => conn'[d] = conn[d] /\ closes'[d] = closes[d]
      BY <1>0, <1>5 DEF ServerTypes
    <2>3. QED
      BY <1>7, <2>1, <2>2 DEF Untouched
  <1>13. QED
    BY <1>8, <1>9, <1>10, <1>11, <1>12 DEF OnceFor

(* What epoll reports is so when it is reported. *)
LEMMA EpollOnce ==
  ASSUME ServerInv, Matched, \A d \in Conns : Watched(d), \A d \in Conns : conn[d] # None => OnceFor(d),
         EpollWait
  PROVE  \A d \in Conns : conn'[d] # None => OnceFor(d)'
  <1>0. ServerTypes /\ (\A d \in Conns : ConnInv(d)) /\ lpc = "tasks" /\ active = {} /\ cur = None /\ tasks = <<>>
    BY DEF ServerInv, EpollWait, LoopPhase
  <1>1. UNCHANGED <<kernelVars, objectVars, tasks, tasks_, cur, appVars, historyVars>> /\ lpc' = "events"
    BY DEF EpollWait, queueVars
  <1>2. PICK seen \in SUBSET Fds :
          /\ seen = {f \in Fds : interest[f] # None /\ Reported(owner[f], interest[f]) # {}}
          /\ revents' = [c \in Conns |-> UNION {Reported(owner[f], interest[f]) :
                                                  f \in {g \in seen : channels_[g] = c}}]
    BY DEF EpollWait
  <1>3. SUFFICES ASSUME NEW c \in Conns, conn'[c] # None PROVE OnceFor(c)'
    OBVIOUS
  <1>4. conn[c] # None /\ OnceFor(c) /\ c # None /\ conn[c] \in Connection
    BY <1>0, <1>1, <1>3, ServerAssumption DEF objectVars, ServerTypes
  <1>5. /\ "out" \in revents'[c] => conn[c].obuffer > 0
        /\ "err" \in revents'[c] => peer[c] = "rst"
    <2>1. ASSUME NEW e \in revents'[c]
          PROVE  e \in Reported(c, conn[c].events) /\ Tuned(conn[c])
      <3>1. PICK f \in seen : channels_[f] = c /\ e \in Reported(owner[f], interest[f])
        BY <1>2, <2>1
      <3>2. f \in Fds /\ Descriptor(c) /\ Young(c)
        BY <1>0, <1>4 DEF ConnInv
      <3>3. conn[c].fd = f /\ ~Pending("established", c)
        BY <3>1, <3>2 DEF Descriptor, Young
      <3>4. closes[c] = 0
        <4>1. ~(closes[c] > 0)
          BY <1>4, <3>1, <3>2 DEF Watched
        <4>2. closes[c] \in Nat
          BY <1>0 DEF ServerTypes
        <4>3. QED
          BY <4>1, <4>2
      <3>5. owner[f] = c /\ interest[f] = conn[c].events /\ Tuned(conn[c])
        BY <1>4, <3>2, <3>3, <3>4 DEF Descriptor, Watched
      <3>6. QED
        BY <3>1, <3>5
    <2>2. QED
      BY <2>1 DEF Reported, Tuned
  <1>6. UNCHANGED <<Queue, conn, closes, ends, peer, timer, shut, held, cur, tasks_>>
    BY <1>1 DEF Queue, kernelVars, objectVars, appVars, historyVars
  <1>7. Reasoned(c)' /\ SendsFirst(c)'
    BY <1>4, <1>6 DEF OnceFor, Reasoned, SendsFirst, Pending
  <1>8. Heard(c)'
    BY <1>0, <1>4, <1>5, <1>6 DEF OnceFor, Heard
  <1>9. Ordered(c)'
    <2>1. ends[c] \cap {"fin", "reset", "callback"} # {} => ~Has(tasks_, Rel(c))
      BY <1>0, <1>4 DEF OnceFor, Ordered, Rel
    <2>2. ASSUME "app" \in ends[c], Pending("release", c) PROVE revents'[c] \cap {"out", "err"} = {}
      <3>1. Has(tasks_, Rel(c))
        BY <1>0, <2>2, QueueIs, HasEmpty DEF Pending, Rel
      <3>2. conn[c].obuffer = 0
        BY <1>0, <1>4, <2>2, <3>1 DEF OnceFor, Ordered, Rel
      <3>3. peer[c] # "rst"
        BY <1>4, <3>2 DEF OnceFor, Heard
      <3>4. QED
        BY <1>5, <3>2, <3>3
    <2>3. QED
      BY <1>0, <1>1, <1>4, <1>6, <2>1, <2>2 DEF Ordered, Pending, Rel
  <1>10. QED
    BY <1>7, <1>8, <1>9 DEF OnceFor

(* The loop takes over its queue. *)
LEMMA ExecOnce ==
  ASSUME ServerInv, \A d \in Conns : conn[d] # None => OnceFor(d), ExecTaskInQueue
  PROVE  \A d \in Conns : conn'[d] # None => OnceFor(d)'
  <1>0. ServerTypes /\ lpc = "events" /\ active = {} /\ cur = None /\ tasks = <<>>
    BY DEF ServerInv, ExecTaskInQueue, LoopPhase
  <1>1. /\ UNCHANGED <<kernelVars, objectVars, active, revents, cur, appVars, historyVars>>
        /\ tasks' = tasks_ /\ tasks_' = <<>>
    BY DEF ExecTaskInQueue
  <1>2. Queue' = Queue /\ \A x : ~Has(tasks_', x)
    BY <1>0, <1>1, SwapQueue, HasEmpty
  <1>3. UNCHANGED <<conn, closes, ends, peer, timer, shut, held, cur, active, revents>>
    BY <1>1 DEF kernelVars, objectVars, appVars, historyVars
  <1>4. SUFFICES ASSUME NEW c \in Conns, conn'[c] # None PROVE OnceFor(c)'
    OBVIOUS
  <1>5. OnceFor(c) /\ c # None
    BY <1>3, <1>4, ServerAssumption
  <1>6. Reasoned(c)' /\ SendsFirst(c)' /\ Heard(c)'
    BY <1>2, <1>3, <1>5 DEF OnceFor, Reasoned, SendsFirst, Heard, Pending
  <1>7. Ordered(c)'
    BY <1>0, <1>2, <1>3, <1>5 DEF Ordered
  <1>8. QED
    BY <1>6, <1>7 DEF OnceFor

(* the peers *)
LEMMA PeerOnce ==
  ASSUME ServerInv, ~ResetAnyTime, \A d \in Conns : conn[d] # None => OnceFor(d),
         NEW c \in Conns, PeerSends(c) \/ PeerReads(c) \/ PeerEnds(c)
  PROVE  /\ \A d \in Conns : conn'[d] # None => OnceFor(d)'
         /\ UNCHANGED <<conn, closes, dead>>
  <1>0. ServerTypes
    BY DEF ServerInv
  <1>1. UNCHANGED <<owner, interest, objectVars, queueVars, loopVars, baseVars, appVars, historyVars>>
    BY DEF PeerSends, PeerReads, PeerEnds
  <1>2. /\ UNCHANGED <<Queue, tasks_, lpc, conn, closes, dead, ends, timer, shut, held, cur, active, revents>>
    BY <1>1 DEF Queue, objectVars, queueVars, loopVars, appVars, historyVars
  <1>3. /\ \A d \in Conns : d # c => peer'[d] = peer[d]
        /\ peer[c] = "rst" => peer'[c] = "rst"
        /\ peer'[c] = "rst" => peer[c] = "rst" \/ conn[c].obuffer > 0
    BY <1>0 DEF PeerSends, PeerReads, PeerEnds, ServerTypes
  <1>4. SUFFICES ASSUME NEW d \in Conns, conn'[d] # None PROVE OnceFor(d)'
    BY <1>2
  <1>5. OnceFor(d)
    BY <1>2, <1>4
  <1>6. Reasoned(d)' /\ SendsFirst(d)' /\ Ordered(d)'
    BY <1>2, <1>5 DEF OnceFor, Reasoned, SendsFirst, Ordered, Pending
  <1>7. Heard(d)'
    <2>1. peer'[d] = "rst" => conn[d].obuffer > 0
      BY <1>3, <1>5 DEF OnceFor, Heard
    <2>2. peer[d] = "rst" => peer'[d] = "rst"
      BY <1>3
    <2>3. QED
      BY <1>2, <1>5, <2>1, <2>2 DEF OnceFor, Heard
  <1>8. QED
    BY <1>6, <1>7 DEF OnceFor

(* NewConnection *)
LEMMA NewOnce ==
  ASSUME ServerInv, \A d \in Conns : conn[d] # None => OnceFor(d), Untouched,
         NEW c \in Conns, NEW fd \in Fds, NewConnection(c, fd)
  PROVE  /\ \A d \in Conns : conn'[d] # None => OnceFor(d)'
         /\ Untouched'
  <1>0. ServerTypes /\ Unborn(c) /\ conn[c] = None
    BY NewInv DEF ServerInv
  <1>1. PICK r : r = [statu_ |-> "CONNECTING", fd |-> fd, open |-> TRUE, events |-> {}, ibuffer |-> 0,
                      obuffer |-> 0]
    OBVIOUS
  <1>2. /\ peer' = [peer EXCEPT ![c] = "open"] /\ conn' = [conn EXCEPT ![c] = r]
        /\ UNCHANGED <<timer, lpc, active, revents, cur, held, shut, ends, closes, dead>>
    BY <1>1 DEF NewConnection, loopVars, appVars, historyVars
  <1>3. /\ \A x : Has(Queue', x) <=> Has(Queue, x) \/ x = <<"established", c>>
        /\ \A x : Has(tasks_', x) <=> Has(tasks_, x) \/ x = <<"established", c>>
        /\ \A x : Unique(Queue, x) /\ (x # <<"established", c>> \/ ~Has(Queue, x)) => Unique(Queue', x)
        /\ \A x, y : /\ Before(Queue, x, y) /\ x # y /\ (x # <<"established", c>> \/ ~Has(Queue, y))
                      => Before(Queue', x, y)
    <2>1. PushFrom("base", "established", c) /\ "established" \in Ops
      BY DEF NewConnection, Ops
    <2>2. QED
      BY <1>0, <2>1, FromQueue
  <1>4. \A op \in {"send", "shutdown", "release"} : ~Pending(op, c)'
    BY <1>0, <1>3 DEF Unborn, Pending, Ops
  <1>5. conn'[c] = r /\ peer'[c] = "open" /\ r.statu_ = "CONNECTING"
    BY <1>0, <1>1, <1>2 DEF ServerTypes
  <1>6. OnceFor(c)'
    <2>1. Unique(Queue', <<"release", c>>) /\ Unique(Queue', <<"shutdown", c>>)
      BY <1>4, HasNone DEF Pending
    <2>2. Before(Queue', <<"send", c>>, <<"shutdown", c>>)
      BY <1>4 DEF Pending, Has, Before
    <2>3. Reasoned(c)'
      BY <1>0, <1>2, <1>4, <1>5, <2>1 DEF Reasoned, Unborn
    <2>4. Heard(c)'
      BY <1>0, <1>2, <1>5 DEF Heard, Unborn
    <2>5. Ordered(c)'
      BY <1>0, <1>2 DEF Ordered, Unborn
    <2>6. SendsFirst(c)'
      BY <1>0, <1>2, <1>4, <2>1, <2>2 DEF SendsFirst, Unborn
    <2>7. QED
      BY <2>3, <2>4, <2>5, <2>6 DEF OnceFor
  <1>7. ASSUME NEW d \in Conns, d # c, conn'[d] # None PROVE OnceFor(d)'
    <2>1. conn'[d] = conn[d] /\ peer'[d] = peer[d]
      BY <1>0, <1>2, <1>7 DEF ServerTypes
    <2>2. SameOnce(d)
      BY <1>2, <1>3, <2>1 DEF SameOnce, Pending
    <2>3. QED
      BY <1>7, <2>1, <2>2, SameOnceFor
  <1>8. Untouched'
    <2>1. closes[c] = 0 /\ \A d \in Conns : d # c => conn'[d] = conn[d]
      BY <1>0, <1>2 DEF Unborn, ServerTypes
    <2>2. QED
      BY <1>2, <2>1 DEF Untouched
  <1>9. QED
    BY <1>6, <1>7, <1>8

(* Send and Shutdown by the application's thread *)
LEMMA AppOnce ==
  ASSUME ServerInv, ~LateSend, \A d \in Conns : conn[d] # None => OnceFor(d),
         NEW c \in Conns, AppSend(c) \/ AppShutdown(c)
  PROVE  /\ \A d \in Conns : conn'[d] # None => OnceFor(d)'
         /\ UNCHANGED <<conn, closes, dead>>
  <1>0. ServerTypes /\ Accepted(c) /\ c \in held
    BY AppCallInv DEF ServerInv, AppSend, AppShutdown
  <1>1. UNCHANGED <<conn, closes, dead, ends, peer, timer, lpc, active, revents, cur, held>>
    BY DEF AppSend, AppShutdown, kernelVars, objectVars, loopVars, appVars, historyVars
  <1>2. PICK op \in {"send", "shutdown"} : /\ PushFrom("app", op, c)
                                           /\ op = "send" => shut' = shut /\ c \notin shut
                                           /\ op = "shutdown" => shut' = shut \cup {c} /\ c \notin shut
    BY DEF AppSend, AppShutdown, appVars
  <1>3. /\ \A x : Has(Queue', x) <=> Has(Queue, x) \/ x = <<op, c>>
        /\ \A x : Has(tasks_', x) <=> Has(tasks_, x) \/ x = <<op, c>>
        /\ \A x : Unique(Queue, x) /\ (x # <<op, c>> \/ ~Has(Queue, x)) => Unique(Queue', x)
        /\ \A x, y : /\ Before(Queue, x, y) /\ x # y /\ (x # <<op, c>> \/ ~Has(Queue, y))
                      => Before(Queue', x, y)
    BY <1>0, <1>2, FromQueue DEF Ops
  <1>4. conn[c] # None /\ OnceFor(c)
    BY <1>0, Members DEF Accepted
  <1>5. c \notin shut /\ "app" \notin ends[c] /\ ~Has(Queue, <<"shutdown", c>>)
    BY <1>0, <1>2, <1>4 DEF OnceFor, SendsFirst, Pending
  <1>6. OnceFor(c)'
    <2>1. /\ <<op, c>> # <<"release", c>>
          /\ Pending("release", c)' <=> Pending("release", c)
          /\ Has(tasks_', <<"release", c>>) <=> Has(tasks_, <<"release", c>>)
          /\ Unique(Queue, <<"release", c>>) => Unique(Queue', <<"release", c>>)
      BY <1>2, <1>3 DEF Pending
    <2>2. Reasoned(c)' /\ Heard(c)' /\ Ordered(c)'
      BY <1>1, <1>4, <2>1 DEF OnceFor, Reasoned, Heard, Ordered
    <2>3. Unique(Queue', <<"shutdown", c>>)
      BY <1>3, <1>4, <1>5 DEF OnceFor, SendsFirst
    <2>4. Before(Queue', <<"send", c>>, <<"shutdown", c>>)
      BY <1>3, <1>4, <1>5 DEF OnceFor, SendsFirst
    <2>5. Pending("shutdown", c)' => c \in shut'
      BY <1>2, <1>3, <1>5 DEF Pending
    <2>6. SendsFirst(c)'
      BY <1>0, <1>1, <1>5, <2>3, <2>4, <2>5 DEF SendsFirst
    <2>7. QED
      BY <2>2, <2>6 DEF OnceFor
  <1>7. ASSUME NEW d \in Conns, d # c, conn'[d] # None PROVE OnceFor(d)'
    <2>1. SameOnce(d)
      BY <1>1, <1>2, <1>3, <1>7 DEF SameOnce, Pending
    <2>2. QED
      BY <1>1, <1>7, <2>1, SameOnceFor
  <1>8. QED
    BY <1>1, <1>6, <1>7

(* A pointer to c is given up: the state that counts when the last one is. *)
LEMMA DestroyOnce ==
  ASSUME ServerInv, Untouched, \A d \in Conns : Watched(d), \A d \in Conns : conn[d] # None => OnceFor(d),
         NEW c \in Conns, Accepted(c), NEW last \in BOOLEAN, Destroy(c, last),
         last => closes[c] > 0 /\ c \notin held',
         c \in held' \/ \A op \in {"send", "shutdown", "release"} : ~Pending(op, c) \/ (op = "release" /\ ~last),
         held' \subseteq held, held \ {c} \subseteq held',
         UNCHANGED <<kernelVars, channels_, timer, queueVars, loopVars, ends, closes, dead>>
  PROVE  /\ \A d \in Conns : conn'[d] # None => OnceFor(d)'
         /\ Untouched'
  <1>0. ServerTypes /\ c # None /\ conn[c] # None /\ OnceFor(c) /\ Watched(c)
    BY Members, ServerAssumption DEF ServerInv, Accepted
  <1>1. /\ UNCHANGED <<peer, timer, tasks_, lpc, active, cur, revents, ends, closes, dead>> /\ Queue' = Queue
    BY DEF kernelVars, queueVars, loopVars, Queue
  <1>2. /\ \A d \in Conns : d # c => conn'[d] = conn[d]
        /\ conn'[c].statu_ = conn[c].statu_ /\ (conn'[c] = conn[c] \/ last)
    BY <1>0, DestroyIs DEF Accepted
  <1>3. (shut' = shut \/ last) /\ (shut' = shut \/ shut' = shut \ {c})
    BY DEF Destroy
  <1>4. last => c \notin active /\ cur # c /\ peer[c] = "closed"
    BY <1>0 DEF Watched, Accepted, Descriptor
  <1>5. Reasoned(c)'
    BY <1>0, <1>1, <1>2 DEF OnceFor, Reasoned, Pending
  <1>6. Heard(c)'
    BY <1>0, <1>1, <1>2, <1>4 DEF OnceFor, Heard
  <1>7. Ordered(c)'
    <2>1. last => ~Pending("release", c)
      BY <1>0 DEF OnceFor, Reasoned
    <2>2. QED
      BY <1>0, <1>1, <1>2, <2>1 DEF OnceFor, Ordered, Pending
  <1>8. SendsFirst(c)'
    <2>1. CASE c \in held'
      BY <1>0, <1>1, <1>3, <2>1 DEF OnceFor, SendsFirst, Pending
    <2>2. CASE c \notin held'
      BY <1>0, <1>1, <2>2 DEF OnceFor, SendsFirst, Pending
    <2>3. QED
      BY <2>1, <2>2
  <1>9. ASSUME NEW d \in Conns, d # c, conn'[d] # None PROVE OnceFor(d)'
    <2>1. SameOnce(d)
      BY <1>1, <1>2, <1>3, <1>9 DEF SameOnce, Pending
    <2>2. QED
      BY <1>2, <1>9, <2>1, SameOnceFor
  <1>10. Untouched'
    BY <1>1, <1>2 DEF Untouched
  <1>11. QED
    BY <1>5, <1>6, <1>7, <1>8, <1>9, <1>10 DEF OnceFor

(* The application drops its pointer, TcpServer drops the connection. *)
LEMMA DropsOnce ==
  ASSUME ServerInv, Untouched, ~EarlyDrop, \A d \in Conns : Watched(d),
         \A d \in Conns : conn[d] # None => OnceFor(d),
         ReleaseConnectionInLoop \/ \E d \in Conns : AppDrop(d)
  PROVE  /\ \A d \in Conns : conn'[d] # None => OnceFor(d)'
         /\ Untouched'
  <1>0. ServerTypes
    BY DEF ServerInv
  <1>1. ASSUME NEW c \in Conns, AppDrop(c)
        PROVE  (\A d \in Conns : conn'[d] # None => OnceFor(d)') /\ Untouched'
    <2>1. Accepted(c)
      BY <1>1, AppDropInv
    <2>2. PICK last \in BOOLEAN : Destroy(c, last) /\ (last => c \notin conns_ \cup {building})
      BY <1>1 DEF AppDrop
    <2>3. last => closes[c] > 0
      BY <1>0, <2>1, <2>2 DEF Accepted, Kept, ServerTypes
    <2>4. \A op \in Ops : ~Pending(op, c)
      <3>1. \A i \in 1..Len(tasks_ \o tasks) : (tasks_ \o tasks)[i][2] # c
        BY <1>1 DEF AppDrop
      <3>2. \A op \in Ops : ~Has(tasks_ \o tasks, <<op, c>>)
        BY <3>1 DEF Has
      <3>3. QED
        BY <1>0, <3>2, QueueIs DEF Pending
    <2>5. held' = held \ {c} /\ UNCHANGED <<kernelVars, channels_, timer, queueVars, loopVars, ends, closes, dead>>
      BY <1>1 DEF AppDrop
    <2>6. QED
      BY <2>1, <2>2, <2>3, <2>4, <2>5, DestroyOnce DEF Ops
  <1>2. ASSUME ReleaseConnectionInLoop
        PROVE  (\A d \in Conns : conn'[d] # None => OnceFor(d)') /\ Untouched'
    <2>1. PICK c \in Conns : c = Head(baseTasks) /\ Accepted(c) /\ closes[c] > 0
      BY <1>2, DropInv
    <2>2. PICK last \in BOOLEAN : Destroy(c, last) /\ (last => c \notin held)
      BY <1>2, <2>1 DEF ReleaseConnectionInLoop
    <2>3. held' = held /\ UNCHANGED <<kernelVars, channels_, timer, queueVars, loopVars, ends, closes, dead>>
      BY <1>2 DEF ReleaseConnectionInLoop
    <2>4. OnceFor(c)
      BY <2>1, Members DEF Accepted
    <2>5. ~Pending("release", c) /\ (c \in held \/ (~Pending("send", c) /\ ~Pending("shutdown", c)))
      BY <1>0, <2>1, <2>4 DEF OnceFor, Reasoned, SendsFirst
    <2>6. c \in held' \/ \A op \in {"send", "shutdown", "release"} : ~Pending(op, c)
      BY <2>3, <2>5
    <2>7. QED
      BY <2>1, <2>2, <2>3, <2>6, DestroyOnce
  <1>3. QED
    BY <1>1, <1>2

(* steps that none of this is about *)
LEMMA QuietOnce ==
  ASSUME ServerInv, \A d \in Conns : conn[d] # None => OnceFor(d),
         UNCHANGED vars \/ ReadEventfd \/ AppNotify \/ InsertConnection
  PROVE  /\ \A d \in Conns : conn'[d] # None => OnceFor(d)'
         /\ UNCHANGED <<conn, closes, dead>>
  <1>1. /\ UNCHANGED <<kernelVars, objectVars, tasks_, tasks, lpc, revents, cur, appVars, historyVars>>
        /\ active' \subseteq active
    BY DEF vars, loopVars, queueVars, ReadEventfd, AppNotify, InsertConnection, WriteEventfd
  <1>2. /\ UNCHANGED <<conn, closes, dead, ends, peer, timer, shut, held, tasks_, lpc, revents, cur>>
        /\ Queue' = Queue
    BY <1>1 DEF kernelVars, objectVars, appVars, historyVars, Queue
  <1>3. ASSUME NEW d \in Conns, conn'[d] # None PROVE OnceFor(d)'
    <2>1. SameOnce(d)
      BY <1>1, <1>2 DEF SameOnce, Pending
    <2>2. QED
      BY <1>2, <1>3, <2>1, SameOnceFor
  <1>4. QED
    BY <1>2, <1>3

LEMMA OnceStep ==
  ASSUME ~ResetAnyTime, ~LateSend, ~EarlyDrop, ServerInv, WatchInv, OnceInv, [Next]_vars
  PROVE  OnceInv'
  <1> SUFFICES ASSUME OneReason'
               PROVE  Untouched' /\ \A d \in Conns : conn'[d] # None => OnceFor(d)'
    BY DEF OnceInv
  <1>0. /\ OneReason /\ Untouched /\ \A d \in Conns : conn[d] # None => OnceFor(d)
        /\ Matched /\ \A d \in Conns : Watched(d)
    BY OneReasonBefore DEF OnceInv, WatchInv
  <1> DEFINE Good == Untouched' /\ \A d \in Conns : conn'[d] # None => OnceFor(d)'
  <1>1. UNCHANGED <<conn, closes, dead>> => Untouched'
    BY <1>0 DEF Untouched
  <1>2. CASE UNCHANGED vars \/ ReadEventfd \/ AppNotify \/ InsertConnection
    BY <1>0, <1>1, <1>2, QuietOnce
  <1>3. CASE EpollWait
    BY <1>0, <1>1, <1>3, EpollOnce DEF EpollWait, objectVars, historyVars
  <1>4. CASE Ontime
    BY <1>0, <1>1, <1>4, OntimeOnce
  <1>5. CASE ExecTaskInQueue
    BY <1>0, <1>1, <1>5, ExecOnce DEF ExecTaskInQueue, objectVars, historyVars
  <1>6. ASSUME NEW c \in Conns, NEW r, NEW w, NEW p, NEW o, conn[c] # None, closes[c] = 0,
               Works(c, r, w, p, o), Leaves(c), Left("none", c, p, Queue), dead' = dead, OnceFor(c)'
        PROVE  Good
    <2>1. \A d \in Conns : d # c /\ conn'[d] # None => OnceFor(d)'
      BY <1>0, <1>6, WorksOthers
    <2>2. closes' = closes /\ \A d \in Conns : d # c => conn'[d] = conn[d]
      BY <1>6 DEF Works, Turns, Leaves, ServerInv, ServerTypes
    <2>3. Untouched'
      BY <1>0, <1>6, <2>2 DEF Untouched
    <2>4. QED
      BY <1>6, <2>1, <2>3
  <1>7. ASSUME NEW c \in Conns, Readhandler(c) PROVE Good
    <2>1. Accepted(c) /\ c \in active /\ dead' = dead
      BY <1>7, ReadStep DEF Readhandler
    <2>2. conn[c] # None /\ ~(closes[c] > 0) /\ closes[c] \in Nat
      BY <1>0, <2>1, Members DEF Accepted, Watched, ServerInv, ServerTypes
    <2>3. OnceFor(c)'
      BY <1>0, <1>7, <2>2, ReadOnce
    <2>4. PICK r, w, p, o : Works(c, r, w, p, o) /\ Leaves(c) /\ Left("none", c, p, Queue)
      BY <1>7, ReadStep
    <2>5. QED
      BY <1>6, <2>1, <2>2, <2>3, <2>4
  <1>8. ASSUME WriteHandler PROVE Good
    <2>1. PICK c \in Conns : c = cur /\ Accepted(c) /\ dead' = dead
      BY <1>8, WriteStep DEF WriteHandler
    <2>2. conn[c] # None /\ ~(closes[c] > 0) /\ closes[c] \in Nat
      BY <1>0, <2>1, Members DEF Accepted, Watched, ServerInv, ServerTypes
    <2>3. OnceFor(c)'
      BY <1>0, <1>8, <2>1, <2>2, WriteOnce
    <2>4. PICK r, w, p, o : Works(c, r, w, p, o) /\ Leaves(c) /\ Left("none", c, p, Queue)
      BY <1>8, <2>1, WriteStep
    <2>5. QED
      BY <1>6, <2>1, <2>2, <2>3, <2>4
  <1>9. ASSUME NEW c \in Conns, EstablishedInLoop(c) \/ SendTask(c) \/ ShutdownTask(c) \/ ReleaseInLoop(c)
        PROVE  Good
    BY <1>0, <1>9, EstablishedOnce, SendOnce, ShutdownOnce, ReleaseOnce
  <1>10. ASSUME NEW c \in Conns, PeerSends(c) \/ PeerReads(c) \/ PeerEnds(c) PROVE Good
    BY <1>0, <1>1, <1>10, PeerOnce
  <1>11. ASSUME NEW c \in Conns, NEW fd \in Fds, NewConnection(c, fd) PROVE Good
    BY <1>0, <1>11, NewOnce
  <1>12. ASSUME NEW c \in Conns, AppSend(c) \/ AppShutdown(c) PROVE Good
    BY <1>0, <1>1, <1>12, AppOnce
  <1>13. ASSUME ReleaseConnectionInLoop \/ \E c \in Conns : AppDrop(c) PROVE Good
    BY <1>0, <1>13, DropsOnce
  <1>14. QED
    BY <1>2, <1>3, <1>4, <1>5, <1>7, <1>8, <1>9, <1>10, <1>11, <1>12, <1>13
       DEF Next, LoopStep, BaseStep

(* While at most one of fin, reset, idle, app, callback and nested has ended  *)
(* each connection, and a reset finds output, nothing is sent after Shutdown *)
(* and no pointer is dropped with a call queued: a connection is released     *)
(* once, its channel is that of its open descriptor, and no task runs on a    *)
(* destroyed one.  For any connections, descriptors, reasons and data.      *)
THEOREM ServerReleasedOnceForOneReason ==
  ASSUME ~ResetAnyTime, ~LateSend, ~EarlyDrop
  PROVE  Spec => []ReleasedOnceForOneReason
  <1>1. Init => WatchInv
    BY DEF Init, WatchInv, Matched, Watched
  <1>2. Init => OnceInv
    BY DEF Init, OnceInv, Untouched
  <1>3. ServerInv /\ WatchInv /\ OnceInv => ReleasedOnceForOneReason
    <2> SUFFICES ASSUME ServerInv, WatchInv, OnceInv, OneReason PROVE ReleasedOnce
      BY DEF ReleasedOnceForOneReason
    <2>0. /\ ServerTypes /\ \A c \in Conns : ConnInv(c)
          /\ Untouched /\ Matched /\ \A c \in Conns : Watched(c)
      BY DEF ServerInv, WatchInv, OnceInv
    <2>1. ~dead /\ \A c \in Conns : closes[c] <= 1
      <3>1. ASSUME NEW c \in Conns PROVE closes[c] <= 1
        <4>1. closes[c] \in Nat /\ (closes[c] > 0 => closes[c] = 1)
          BY <2>0 DEF Untouched, ServerTypes
        <4>2. QED
          BY <4>1
      <3>2. QED
        BY <2>0, <3>1 DEF Untouched
    <2>2. ASSUME NEW f \in Fds, channels_[f] # None
          PROVE  LET c == channels_[f] IN
                 /\ owner[f] = c /\ Alive(c) /\ conn[c].open /\ conn[c].fd = f
                 /\ interest[f] = conn[c].events
      <3>1. PICK c \in Conns : c = channels_[f]
        BY <2>0, <2>2 DEF ServerTypes
      <3>2. ConnInv(c) /\ Watched(c) /\ conn[c] # None
        BY <2>0, <3>1 DEF ConnInv, Unborn
      <3>3. conn[c] \in Connection /\ Descriptor(c) /\ Kept(c) /\ Young(c)
        BY <2>0, <3>2 DEF ConnInv, ServerTypes
      <3>4. closes[c] = 0
        BY <2>0, <3>1, <3>2 DEF Watched, ServerTypes
      <3>5. conn[c].fd = f /\ conn[c].open /\ owner[f] = c /\ ~Pending("established", c)
        BY <3>1, <3>3, <3>4 DEF Descriptor, Young
      <3>6. interest[f] = conn[c].events
        BY <3>2, <3>4, <3>5 DEF Watched
      <3>7. Alive(c)
        BY <3>3, <3>4 DEF Kept, Alive
      <3>8. QED
        BY <3>1, <3>5, <3>6, <3>7
    <2>3. ChannelsMatchKernel
      BY <2>0, <2>2 DEF ChannelsMatchKernel, Matched
    <2>4. QED
      BY <2>1, <2>3 DEF ReleasedOnce
  <1>4. QED
    BY ServerInitInv, ServerStepInv, <1>1, <1>2, WatchStep, OnceStep, <1>3, PTL DEF Spec
=============================================================================
