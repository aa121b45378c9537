------------------------------ MODULE Trading -------------------------------
(***************************************************************************)
(* The trading pipeline of ihs/src/trade.cpp and ihs/include/trade.hpp:    *)
(* the receiver pushes quotes, the algorithm pops them and pushes order    *)
(* requests, the trader pops those and sends them over a FIX session whose *)
(* thread pushes responses.  The main thread starts the modules, stops     *)
(* them and destroys the system.                                           *)
(*                                                                         *)
(* ConcurrentQueue is modelled where its steps can be told apart: a push   *)
(* is one step under the mutex; a pop tests its predicate under the mutex  *)
(* and either ends there or goes on to wait, and until it does wait it     *)
(* holds the mutex ("park").  stop() takes no mutex: the flag and          *)
(* notify_all are two steps that may fall anywhere.                        *)
(***************************************************************************)
EXTENDS Integers, Sequences

CONSTANTS
  PoolThreads,      \* the workers of ThreadPool
  Quotes,           \* subset of {"low", "high", "wide"}: bid below 155, not
                    \* below, and a spread above 0.5 (a real feed may have one)
  MaxQuotes,        \* bound: quotes received
  MaxResponses      \* bound: execution reports

Modules == {"receiver", "algo", "trader"}
Queues  == {"md", "order", "response", "tasks"}

ASSUME TradingAssumption ==
  /\ PoolThreads \cap Modules = {}
  /\ Quotes \subseteq {"low", "high", "wide"}
  /\ MaxQuotes \in Nat /\ MaxResponses \in Nat

VARIABLES
  queue_,           \* queue_[n]
  open,             \* open[n]: running_ of a queue
  running_,         \* running_[m]: of a module
  tpc,              \* tpc[t]: where a thread is
  got,              \* got[t]: what it has popped
  active,           \* active_order_id is not empty
  fix,              \* fix_session_: "null", "failed" to connect, "up"
  step,             \* where the main thread is in Script
  quotes

tradingVars == <<queue_, open, running_, tpc, got, active, fix, step, quotes>>

Poppers == {"algo", "trader"} \cup PoolThreads
QueueOf(t) == CASE t = "algo" -> "md" [] t = "trader" -> "order" [] OTHER -> "tasks"
Timed(t) == t \in {"algo", "trader"}

TradingInit ==
  /\ queue_ = [n \in Queues |-> <<>>]
  /\ open = [n \in Queues |-> TRUE]
  /\ running_ = [m \in Modules |-> FALSE]
  /\ tpc = [t \in Modules \cup PoolThreads |-> IF t \in PoolThreads THEN "top" ELSE "off"]
  /\ got = [t \in Poppers |-> "none"]
  /\ active = FALSE
  /\ fix = "null"
  /\ step = 1
  /\ quotes = 0

-----------------------------------------------------------------------------
(* ConcurrentQueue.                                                        *)

Locked(n) == \E t \in Poppers : tpc[t] = "park" /\ QueueOf(t) = n

(* push of x by a thread that then is where pcs says; notify_one wakes a     *)
(* waiting thread, if there is one                                         *)
Push(n, x, pcs) ==
  LET waiting == {t \in Poppers : tpc[t] = "parked" /\ QueueOf(t) = n} IN
  /\ ~Locked(n)
  /\ IF open[n]
       THEN /\ queue_' = [queue_ EXCEPT ![n] = Append(@, x)]
            /\ \/ waiting = {} /\ tpc' = pcs
               \/ \E t \in waiting : tpc' = [pcs EXCEPT ![t] = "pop"]
       ELSE UNCHANGED queue_ /\ tpc' = pcs

(* What pop does under the mutex once its predicate holds. *)
Finish(t) ==
  LET n == QueueOf(t) IN
  IF open[n]
    THEN /\ got' = [got EXCEPT ![t] = Head(queue_[n])]
         /\ queue_' = [queue_ EXCEPT ![n] = Tail(@)]
         /\ tpc' = [tpc EXCEPT ![t] = "work"]
    ELSE tpc' = [tpc EXCEPT ![t] = "top"] /\ UNCHANGED <<got, queue_>>

(* pop: the predicate, with the mutex; a thread whose time is over leaves *)
PopTest(t) ==
  LET n == QueueOf(t) IN
  /\ tpc[t] \in {"pop", "late"} /\ ~Locked(n)
  /\ IF queue_[n] # <<>> \/ ~open[n]
       THEN Finish(t)
       ELSE /\ tpc' = [tpc EXCEPT ![t] = IF tpc[t] = "late" THEN "top" ELSE "park"]
            /\ UNCHANGED <<got, queue_>>
  /\ UNCHANGED <<open, running_, active, fix, step, quotes>>

(* the mutex is released and the thread waits; its time runs out *)
Park(t) ==
  /\ tpc[t] = "park"
  /\ tpc' = [tpc EXCEPT ![t] = "parked"]
  /\ UNCHANGED <<queue_, open, running_, got, active, fix, step, quotes>>

Timeout(t) ==
  /\ Timed(t) /\ tpc[t] = "parked"
  /\ tpc' = [tpc EXCEPT ![t] = "late"]
  /\ UNCHANGED <<queue_, open, running_, got, active, fix, step, quotes>>

-----------------------------------------------------------------------------
(* The threads.                                                            *)

(* Bug: the algorithm looks at the queue's flag, not at its own. *)
LoopTop_QueueFlag(t) ==
  /\ tpc[t] = "top"
  /\ tpc' = [tpc EXCEPT ![t] =
       IF (IF t = "receiver" THEN running_[t] ELSE open[QueueOf(t)])
         THEN IF t = "receiver" THEN "work" ELSE "pop" ELSE "ended"]
  /\ UNCHANGED <<queue_, open, running_, got, active, fix, step, quotes>>

(* The loop conditions: a module's running_, the pool's is_running(). *)
LoopTop(t) ==
  /\ tpc[t] = "top"
  /\ tpc' = [tpc EXCEPT ![t] =
       IF (IF t \in Modules THEN running_[t] ELSE open[QueueOf(t)])
         THEN IF t = "receiver" THEN "work" ELSE "pop" ELSE "ended"]
  /\ UNCHANGED <<queue_, open, running_, got, active, fix, step, quotes>>

(* MDReceiver::receive_loop: a quote; the bound only stops new ones. *)
receive_loop ==
  /\ tpc["receiver"] = "work"
  /\ LET top == [tpc EXCEPT !["receiver"] = "top"] IN
     \/ /\ quotes < MaxQuotes
        /\ quotes' = quotes + 1
        /\ \E q \in Quotes : Push("md", q, top)
     \/ /\ quotes = MaxQuotes
        /\ tpc' = top /\ UNCHANGED <<queue_, quotes>>
  /\ UNCHANGED <<open, running_, got, active, fix, step>>

(* AlgoModule::handle_market_data *)
handle_market_data ==
  /\ tpc["algo"] = "work"
  /\ LET top == [tpc EXCEPT !["algo"] = "top"] IN
     CASE ~active /\ got["algo"] = "low"  -> Push("order", "NEW", top) /\ active' = TRUE
       [] active /\ got["algo"] = "wide" -> Push("order", "CANCEL", top) /\ active' = FALSE
       [] OTHER -> tpc' = top /\ UNCHANGED <<queue_, active>>
  /\ UNCHANGED <<open, running_, got, fix, step, quotes>>

(* Trader::trading_loop and ThreadPool: the request is sent, the task run. *)
Work(t) ==
  /\ t # "algo" /\ tpc[t] = "work"
  /\ tpc' = [tpc EXCEPT ![t] = "top"]
  /\ UNCHANGED <<queue_, open, running_, got, active, fix, step, quotes>>

(* The session's thread calls the handler set in Trader::connect. *)
ExecutionReport ==
  /\ fix = "up" /\ Len(queue_["response"]) < MaxResponses
  /\ Push("response", "report", tpc)
  /\ UNCHANGED <<open, running_, got, active, fix, step, quotes>>

-----------------------------------------------------------------------------
(* The main thread: TradingSystem::run, then the members destroyed from the  *)
(* last to the first.                                                      *)

Script ==
  << <<"start", "receiver">>, <<"start", "algo">>, <<"start", "trader">>,
     <<"quit", "">>,
     <<"halt", "trader">>, <<"join", "trader">>, <<"halt", "algo">>, <<"join", "algo">>,
     <<"halt", "receiver">>, <<"join", "receiver">>,
     <<"close", "md">>, <<"wake", "md">>, <<"close", "order">>, <<"wake", "order">>,
     <<"close", "response">>, <<"wake", "response">>,
     <<"close", "tasks">>, <<"wake", "tasks">>, <<"joinPool", "">>, <<"disconnect", "">> >>

Doing(op) == step <= Len(Script) /\ Script[step][1] = op
About == Script[step][2]

(* start of a module; Trader::start has no thread if it cannot connect *)
Start ==
  /\ Doing("start")
  /\ running_' = [running_ EXCEPT ![About] = TRUE]
  /\ fix' \in IF About = "trader" THEN {"up", "failed"} ELSE {fix}
  /\ tpc' = [tpc EXCEPT ![About] = IF fix' = "failed" THEN "off" ELSE "top"]
  /\ UNCHANGED <<queue_, open, got, active, quotes>>

(* the user types q *)
Quit == Doing("quit") /\ UNCHANGED <<queue_, open, running_, tpc, got, active, fix, quotes>>

Halt ==
  /\ Doing("halt")
  /\ running_' = [running_ EXCEPT ![About] = FALSE]
  /\ UNCHANGED <<queue_, open, tpc, got, active, fix, quotes>>

Join ==
  /\ \/ Doing("join") /\ tpc[About] \in {"off", "ended"}
     \/ Doing("joinPool") /\ \A w \in PoolThreads : tpc[w] = "ended"
  /\ UNCHANGED <<queue_, open, running_, tpc, got, active, fix, quotes>>

(* ConcurrentQueue::stop: the flag, then notify_all *)
Close ==
  /\ Doing("close")
  /\ open' = [open EXCEPT ![About] = FALSE]
  /\ UNCHANGED <<queue_, running_, tpc, got, active, fix, quotes>>

Wake ==
  /\ Doing("wake")
  /\ tpc' = [t \in DOMAIN tpc |->
               IF tpc[t] = "parked" /\ QueueOf(t) = About THEN "pop" ELSE tpc[t]]
  /\ UNCHANGED <<queue_, open, running_, got, active, fix, quotes>>

(* Trader::disconnect deletes the session *)
Disconnect ==
  /\ Doing("disconnect")
  /\ fix' = "null"
  /\ UNCHANGED <<queue_, open, running_, tpc, got, active, quotes>>

MainDoes == (Start \/ Halt \/ Join \/ Close \/ Wake \/ Disconnect) /\ step' = step + 1

-----------------------------------------------------------------------------
ThreadStep(t) ==
  \/ LoopTop(t)
  \/ t \in Poppers /\ (PopTest(t) \/ Park(t) \/ Timeout(t) \/ Work(t))
  \/ t = "receiver" /\ receive_loop
  \/ t = "algo" /\ handle_market_data

TradingNext ==
  \/ MainDoes \/ (Quit /\ step' = step + 1) \/ ExecutionReport
  \/ \E t \in Modules \cup PoolThreads : ThreadStep(t)

-----------------------------------------------------------------------------
(* Properties.                                                             *)

(* TradingSystem::stop returns: each loop sees its flag, though the queues   *)
(* are stopped after the modules that wait on them and a module may just    *)
(* have begun to wait.                                                     *)
StopReturns == Doing("halt") ~> Doing("close")

(* The pool's destructor returns: the notification of stop() reaches every   *)
(* worker ("a thread-safe message queue", trade.hpp:50).                    *)
PoolEnds == Doing("joinPool") ~> ~Doing("joinPool")
=============================================================================
