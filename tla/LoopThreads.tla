---------------------------- MODULE LoopThreads -----------------------------
(***************************************************************************)
(* How TcpServer of muduo/server.hpp starts: LoopThreadPool::Create makes  *)
(* one Loopthread after the other and asks each for its EventLoop, then    *)
(* the base loop accepts connections and NextLoop gives each to a loop.    *)
(*                                                                         *)
(* thread_ is declared, and so constructed and started, before mutex_ and  *)
(* cond_: the new thread may lock a mutex that is not constructed yet, and *)
(* whose constructor then forgets the lock.  Before that the memory of the *)
(* mutex may hold anything: it looks free ("none") or held ("junk").  With *)
(* InOrder = TRUE the members are declared the other way round.            *)
(***************************************************************************)
EXTENDS Integers, Sequences

CONSTANTS
  PoolSize,         \* size_ of the pool; with 0 the base loop serves all
  InOrder,          \* the thread starts after mutex_ and cond_ (the code: FALSE)
  MaxAccepts        \* bound: connections

ASSUME LoopThreadsAssumption ==
  PoolSize \in Nat /\ InOrder \in BOOLEAN /\ MaxAccepts \in Nat

LoopIds == 1..PoolSize
BaseLoop == 0

VARIABLES
  mpc,              \* where the thread of TcpServer::Run is
  rpc,              \* rpc[k]: where ThreadRoutine k is, "none" before it runs
  loop_,            \* loop_[k]: it is not nullptr
  lock,             \* lock[k]: who holds mutex_ ("main", "thread", "none", "junk")
  loops_,           \* the loops Create has: TRUE for a pointer, FALSE for nullptr
  next_loop_,
  load,             \* load[l]: connections given to a loop
  orphan            \* history: a connection was given a loop that is no loop

poolVars == <<mpc, rpc, loop_, lock, loops_, next_loop_, load, orphan>>
acceptVars == <<next_loop_, load, orphan>>

LoopThreadsInit ==
  /\ mpc = "create"
  /\ rpc = [k \in LoopIds |-> "none"] /\ loop_ = [k \in LoopIds |-> FALSE]
  /\ lock \in [LoopIds -> {"none", "junk"}]
  /\ loops_ = <<>> /\ next_loop_ = 0
  /\ load = [l \in LoopIds \cup {BaseLoop} |-> 0] /\ orphan = FALSE

(* the Loopthread that Create is making *)
k_ == Len(loops_) + 1

-----------------------------------------------------------------------------
(* LoopThreadPool::Create and Loopthread::Loop, by the thread of Run.        *)

(* the constructor: loop_ and thread_, then mutex_ and cond_ *)
NewLoopthread ==
  /\ mpc = "create" /\ k_ \in LoopIds
  /\ mpc' = IF InOrder THEN "lock" ELSE "construct"
  /\ rpc' = [rpc EXCEPT ![k_] = "start"]
  /\ lock' = IF InOrder THEN [lock EXCEPT ![k_] = "none"] ELSE lock
  /\ UNCHANGED <<loop_, loops_, acceptVars>>

ConstructMutex ==
  /\ mpc = "construct"
  /\ mpc' = "lock"
  /\ lock' = [lock EXCEPT ![k_] = "none"]
  /\ UNCHANGED <<rpc, loop_, loops_, acceptVars>>

LoopLock ==
  /\ mpc = "lock" /\ lock[k_] = "none"
  /\ mpc' = "test"
  /\ lock' = [lock EXCEPT ![k_] = "main"]
  /\ UNCHANGED <<rpc, loop_, loops_, acceptVars>>

(* Bug: Loop does not wait for the loop. *)
LoopTest_NoWait ==
  /\ mpc = "test"
  /\ mpc' = "create"
  /\ loops_' = Append(loops_, loop_[k_])
  /\ lock' = [lock EXCEPT ![k_] = "none"]
  /\ UNCHANGED <<rpc, loop_, acceptVars>>

(* the predicate of cond_.wait, with the mutex; once it holds, Loop returns *)
LoopTest ==
  /\ mpc = "test"
  /\ IF loop_[k_]
       THEN /\ mpc' = "create" /\ loops_' = Append(loops_, loop_[k_])
            /\ lock' = [lock EXCEPT ![k_] = "none"]
       ELSE mpc' = "park" /\ UNCHANGED <<loops_, lock>>
  /\ UNCHANGED <<rpc, loop_, acceptVars>>

(* the mutex is released and the thread waits *)
LoopWait ==
  /\ mpc = "park"
  /\ mpc' = "parked"
  /\ lock' = [lock EXCEPT ![k_] = "none"]
  /\ UNCHANGED <<rpc, loop_, loops_, acceptVars>>

(* Create is done: the base loop runs *)
Run ==
  /\ mpc = "create" /\ k_ \notin LoopIds
  /\ mpc' = "run"
  /\ UNCHANGED <<rpc, loop_, lock, loops_, acceptVars>>

-----------------------------------------------------------------------------
(* Loopthread::ThreadRoutine: the lock, loop_, the notification, the end of   *)
(* the scope; then the loop runs.                                          *)
ThreadRoutine(k) ==
  \/ /\ rpc[k] = "start" /\ lock[k] = "none"
     /\ rpc' = [rpc EXCEPT ![k] = "set"]
     /\ lock' = [lock EXCEPT ![k] = "thread"]
     /\ UNCHANGED <<mpc, loop_>>
  \/ /\ rpc[k] = "set"
     /\ rpc' = [rpc EXCEPT ![k] = "notify"]
     /\ loop_' = [loop_ EXCEPT ![k] = TRUE]
     /\ UNCHANGED <<mpc, lock>>
  \/ /\ rpc[k] = "notify"
     /\ rpc' = [rpc EXCEPT ![k] = "unlock"]
     /\ mpc' = IF mpc = "parked" /\ k = k_ THEN "lock" ELSE mpc
     /\ UNCHANGED <<loop_, lock>>
  \/ /\ rpc[k] = "unlock"
     /\ rpc' = [rpc EXCEPT ![k] = "run"]
     /\ lock' = [lock EXCEPT ![k] = "none"]
     /\ UNCHANGED <<mpc, loop_>>

RoutineStep(k) == ThreadRoutine(k) /\ UNCHANGED <<loops_, acceptVars>>

-----------------------------------------------------------------------------
(* NextLoop: the next of the pool, in turn; the base loop without a pool *)
NextLoop == IF PoolSize = 0 THEN BaseLoop ELSE next_loop_' + 1

(* Acceptor::ReadHandler: a connection, if accept succeeds *)
ReadHandler ==
  /\ mpc = "run"
  /\ next_loop_' = IF PoolSize = 0 THEN next_loop_ ELSE (next_loop_ + 1) % PoolSize
  /\ load[NextLoop] < MaxAccepts
  /\ load' = [load EXCEPT ![NextLoop] = @ + 1]
  /\ orphan' = (orphan \/ (NextLoop # BaseLoop /\ ~loops_[NextLoop]))
  /\ UNCHANGED <<mpc, rpc, loop_, lock, loops_>>

MainStep == NewLoopthread \/ ConstructMutex \/ LoopLock \/ LoopTest \/ LoopWait \/ Run

LoopThreadsNext == MainStep \/ ReadHandler \/ \E k \in LoopIds : RoutineStep(k)

LoopThreadsSpec == LoopThreadsInit /\ [][LoopThreadsNext]_poolVars

-----------------------------------------------------------------------------
(* Properties.                                                             *)

(* A connection that comes at any moment of the start gets an EventLoop that  *)
(* exists, and the loops of the pool have the same number of connections,    *)
(* give or take one, also when the threads meet at their mutexes too early.  *)
PoolServes ==
  /\ ~orphan
  /\ \A k, l \in LoopIds : load[k] <= load[l] + 1

(* Every loop can be had (server.hpp:1296, "ensures that a valid loop is     *)
(* obtained, hence the mutex and the cond"): Create returns and the server   *)
(* runs.                                                                    *)
LoopsObtained == <>(mpc = "run")
=============================================================================
