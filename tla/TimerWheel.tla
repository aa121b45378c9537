----------------------------- MODULE TimerWheel -----------------------------
(***************************************************************************)
(* The timer wheel of muduo/server.hpp (TimerTask, TimerWheel, lines       *)
(* 587-742) and its two users: a connection's release after inactivity     *)
(* (Connection, AnyHandler, EnableInactiveRelease, DisableInactiveRelease, *)
(* ReleaseInLoop) and TcpServer::AddTimerTask.                             *)
(*                                                                         *)
(* A TimerTask lives as long as a slot of wheel_ holds a shared_ptr to it; *)
(* its DESTRUCTOR runs the callback.  A refresh adds a pointer further     *)
(* ahead, a cancel only sets a flag.  ids_ maps an id to a weak_ptr (the   *)
(* code's timers_; module Timers has a variable of that name).             *)
(* How often a slot holds a pointer makes no difference, so a slot is a    *)
(* set of tasks.                                                           *)
(*                                                                         *)
(* All of it runs in the loop's thread.  Connections and timers of the     *)
(* server have counters of their own for their ids.  With a pool of loops, *)
(* a wheel holds either the timers of connections ("sub") or those of the  *)
(* server ("base"); with a single loop it holds both ("single").           *)
(***************************************************************************)
EXTENDS Integers, FiniteSets

CONSTANTS
  NoTask,
  Server,           \* owner of the tasks of TcpServer::AddTimerTask
  Capacity,         \* capacity_ (60 in the code)
  IdleTimeout,      \* timeout of a connection's task (10 in the code)
  Timeouts,         \* timeouts given to AddTimerTask
  Modes,            \* "sub", "base", "single": which users share the wheel
  ReEnable,         \* may a connection enable the release again while its
                    \* cancelled task is still in the wheel?
  MaxIds,           \* bound: connections, and timers of the server
  MaxTasks,         \* bound: TimerTask objects
  MaxLag            \* bound: expirations of the timerfd before it is read

Slots == 0..(Capacity - 1)
WheelIds == 1..MaxIds
Tasks == 1..MaxTasks

ASSUME TimerWheelAssumption ==
  /\ Capacity \in Nat \ {0}
  /\ IdleTimeout \in Nat /\ Timeouts \subseteq Nat
  /\ Modes \subseteq {"sub", "base", "single"}
  /\ ReEnable \in BOOLEAN
  /\ MaxIds \in Nat /\ MaxTasks \in Nat /\ MaxLag \in Nat
  /\ Server \notin WheelIds

TimerTask == [id : WheelIds, owner : WheelIds \cup {Server},
              timeout : Timeouts \cup {IdleTimeout}, is_cancel_ : BOOLEAN]

ASSUME NoTaskAssumption == NoTask \notin Tasks /\ NoTask \notin TimerTask

VARIABLES
  mode,
  tick_,
  wheel_,           \* wheel_[s]: the tasks a slot points to
  ids_,             \* timers_ of the code: ids_[id] is a task or NoTask
  task,             \* task[n]: a TimerTask, or NoTask
  expirations,      \* of the timerfd, not yet read
  steps,            \* Ontime's calls of Step still to come
  conn,             \* conn[c]: "none", "open", "releasing" or "closed"
  enable,           \* connections whose enable_inactive_release_ is set
  next_timerid_,
  age               \* history: Steps since a pointer to the task was last
                    \* added to the wheel, until it is destroyed

wheelVars == <<tick_, wheel_, ids_, task>>
clockVars == <<expirations, steps>>
userVars  == <<conn, enable, next_timerid_>>
timerWheelVars == <<mode, wheelVars, clockVars, userVars, age>>

Created == {n \in Tasks : task[n] # NoTask}
Alive   == UNION {wheel_[s] : s \in Slots}

WheelInit ==
  /\ mode \in Modes
  /\ tick_ = 0
  /\ wheel_ = [s \in Slots |-> {}]
  /\ ids_ = [id \in WheelIds |-> NoTask]
  /\ task = [n \in Tasks |-> NoTask]
  /\ expirations = 0 /\ steps = 0
  /\ conn = [c \in WheelIds |-> "none"] /\ enable = {}
  /\ next_timerid_ = 0
  /\ age = [n \in Tasks |-> 0]

-----------------------------------------------------------------------------
(* The wheel.  These four run in the loop's thread.                         *)

HasTimerTask(id) == ids_[id] # NoTask

SlotAfter(timeout) == (tick_ + timeout) % Capacity

(* Bug: the slot is counted from the start of the wheel. *)
PushPtr_Absolute(n, timeout) ==
  /\ wheel_' = [wheel_ EXCEPT ![timeout % Capacity] = @ \cup {n}]
  /\ age' = [age EXCEPT ![n] = 0]

(* push_back of a shared_ptr to task n *)
PushPtr(n, timeout) ==
  /\ wheel_' = [wheel_ EXCEPT ![SlotAfter(timeout)] = @ \cup {n}]
  /\ age' = [age EXCEPT ![n] = 0]

(* The entry of ids_ is overwritten if there is one. *)
AddTimerTaskInLoop(id, owner, timeout) ==
  \E n \in Tasks :
    /\ Created = 1..(n - 1)
    /\ task' = [task EXCEPT ![n] = [id |-> id, owner |-> owner, timeout |-> timeout,
                                    is_cancel_ |-> FALSE]]
    /\ ids_' = [ids_ EXCEPT ![id] = n]
    /\ PushPtr(n, timeout)
    /\ UNCHANGED tick_

RefreshTimerTaskInLoop(id) ==
  /\ IF HasTimerTask(id)
       THEN PushPtr(ids_[id], task[ids_[id]].timeout)
       ELSE UNCHANGED <<wheel_, age>>
  /\ UNCHANGED <<tick_, ids_, task>>

CancelTimerTaskInLoop(id) ==
  /\ task' = IF HasTimerTask(id)
               THEN [task EXCEPT ![ids_[id]].is_cancel_ = TRUE] ELSE task
  /\ UNCHANGED <<tick_, wheel_, ids_, age>>

(* release_ of the destroyed tasks: their ids leave ids_, whatever task  *)
(* the entry stands for.                                                   *)
ReleaseTimerTaskInLoop(destroyed) ==
  ids_' = [id \in WheelIds |-> IF \E n \in destroyed : task[n].id = id
                               THEN NoTask ELSE ids_[id]]

(* Connection::Release, the callback of a connection's task, queues         *)
(* ReleaseInLoop.  The callbacks of the server's tasks are external.       *)
Callbacks(destroyed) ==
  conn' = [c \in WheelIds |->
             IF conn[c] = "open"
                /\ \E n \in destroyed : task[n].owner = c /\ ~task[n].is_cancel_
               THEN "releasing" ELSE conn[c]]

-----------------------------------------------------------------------------
(* The timerfd.                                                            *)

Second ==
  /\ expirations < MaxLag
  /\ expirations' = expirations + 1
  /\ UNCHANGED <<mode, wheelVars, steps, userVars, age>>

Ontime ==
  /\ steps = 0 /\ expirations > 0
  /\ steps' = expirations
  /\ expirations' = 0
  /\ UNCHANGED <<mode, wheelVars, userVars, age>>

(* clear() of the next slot destroys the tasks that no other slot holds. *)
Step ==
  /\ steps > 0
  /\ steps' = steps - 1
  /\ tick_' = (tick_ + 1) % Capacity
  /\ wheel_' = [wheel_ EXCEPT ![tick_'] = {}]
  /\ LET destroyed == Alive \ UNION {wheel_'[s] : s \in Slots} IN
     /\ ReleaseTimerTaskInLoop(destroyed)
     /\ Callbacks(destroyed)
  /\ age' = [n \in Tasks |-> IF n \in Alive THEN age[n] + 1 ELSE age[n]]
  /\ UNCHANGED <<mode, task, expirations, enable, next_timerid_>>

-----------------------------------------------------------------------------
(* The users, in callbacks and tasks of the loop.                          *)

InLoop == steps = 0

EnableInactiveReleaseInLoop(c) ==
  /\ enable' = enable \cup {c}
  /\ IF HasTimerTask(c) THEN RefreshTimerTaskInLoop(c)
     ELSE AddTimerTaskInLoop(c, c, IdleTimeout)

(* Bug: the connection's flag is left set. *)
DisableInactiveReleaseInLoop_KeepsFlag(c) ==
  /\ UNCHANGED enable
  /\ CancelTimerTaskInLoop(c)

DisableInactiveReleaseInLoop(c) ==
  /\ enable' = enable \ {c}
  /\ CancelTimerTaskInLoop(c)

(* TcpServer::NewConnection, with ids given in order *)
NewConnection(c) ==
  /\ InLoop /\ mode # "base"
  /\ {d \in WheelIds : conn[d] # "none"} = 1..(c - 1)
  /\ conn' = [conn EXCEPT ![c] = "open"]
  /\ EnableInactiveReleaseInLoop(c)
  /\ UNCHANGED <<mode, clockVars, next_timerid_>>

(* An event on the connection's socket. *)
AnyHandler(c) ==
  /\ InLoop /\ conn[c] \in {"open", "releasing"}
  /\ c \in enable
  /\ RefreshTimerTaskInLoop(c)
  /\ UNCHANGED <<mode, clockVars, userVars>>

EnableInactiveRelease(c) ==
  /\ InLoop /\ conn[c] = "open"
  /\ HasTimerTask(c) /\ ~ReEnable => ~task[ids_[c]].is_cancel_
  /\ EnableInactiveReleaseInLoop(c)
  /\ UNCHANGED <<mode, clockVars, conn, next_timerid_>>

DisableInactiveRelease(c) ==
  /\ InLoop /\ conn[c] \in {"open", "releasing"}
  /\ DisableInactiveReleaseInLoop(c)
  /\ UNCHANGED <<mode, clockVars, conn, next_timerid_>>

(* The task queued by the timer, or by the end of the connection. *)
ReleaseInLoop(c) ==
  /\ InLoop /\ conn[c] \in {"open", "releasing"}
  /\ conn' = [conn EXCEPT ![c] = "closed"]
  /\ IF HasTimerTask(c) THEN DisableInactiveReleaseInLoop(c)
     ELSE UNCHANGED <<wheelVars, enable, age>>
  /\ UNCHANGED <<mode, clockVars, next_timerid_>>

(* TcpServer::AddTimerTask *)
AddTimerTask(timeout) ==
  /\ InLoop /\ mode # "sub"
  /\ next_timerid_ < MaxIds
  /\ next_timerid_' = next_timerid_ + 1
  /\ AddTimerTaskInLoop(next_timerid_', Server, timeout)
  /\ UNCHANGED <<mode, clockVars, conn, enable>>

-----------------------------------------------------------------------------
WheelNext ==
  \/ Second \/ Ontime \/ Step
  \/ \E c \in WheelIds :
       \/ NewConnection(c) \/ AnyHandler(c) \/ ReleaseInLoop(c)
       \/ EnableInactiveRelease(c) \/ DisableInactiveRelease(c)
  \/ \E timeout \in Timeouts : AddTimerTask(timeout)

WheelSpec == WheelInit /\ [][WheelNext]_timerWheelVars

-----------------------------------------------------------------------------
(* Properties.                                                             *)

WheelTypeOK ==
  /\ mode \in Modes
  /\ tick_ \in Slots
  /\ wheel_ \in [Slots -> SUBSET Tasks]
  /\ ids_ \in [WheelIds -> Tasks \cup {NoTask}]
  /\ task \in [Tasks -> TimerTask \cup {NoTask}]
  /\ expirations \in 0..MaxLag /\ steps \in 0..MaxLag
  /\ conn \in [WheelIds -> {"none", "open", "releasing", "closed"}]
  /\ enable \subseteq WheelIds
  /\ next_timerid_ \in 0..MaxIds
  /\ age \in [Tasks -> Nat]

(* RefreshTimerTaskInLoop uses what it locks from ids_ without a check      *)
(* (server.hpp:677): an entry always stands for a task that still exists.  *)
WeakNotDangling ==
  \A id \in WheelIds : HasTimerTask(id) => ids_[id] \in Alive

(* A task is destroyed, which runs its callback ("executed when the last    *)
(* pointer is destroyed", server.hpp:628-629), exactly when its timeout has *)
(* passed since it was added or last refreshed: the pointers that earlier   *)
(* refreshes left in the wheel neither fire it early nor keep it alive, and *)
(* ids_ forgets it then.                                                   *)
FiresOnTime ==
  /\ WeakNotDangling
  /\ \A n \in Created :
       IF n \in Alive THEN age[n] < task[n].timeout ELSE age[n] = task[n].timeout

(* The callback of a connection's task is bound to the connection's raw     *)
(* pointer: once the connection is closed, its tasks are cancelled.        *)
ClosedIsCancelled ==
  \A n \in Alive : \A c \in WheelIds :
     task[n].owner = c /\ conn[c] = "closed" => task[n].is_cancel_

(* "Start the release of inactive connections" (server.hpp:1051): while it   *)
(* is enabled, an open connection has a task of its own that will release   *)
(* it, and a closed one has none that could run.                           *)
EnabledIsArmed ==
  /\ ClosedIsCancelled
  /\ \A c \in enable :
       conn[c] = "open" => \E n \in Alive : task[n].owner = c /\ ~task[n].is_cancel_
=============================================================================
