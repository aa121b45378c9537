------------------------------- MODULE Timers -------------------------------
(***************************************************************************)
(* The timers of a SubReactor (muduo/src/SubReactor.cpp, lines 223-364): a *)
(* std::set of TimerInfo ordered by expiration, one timerfd armed for the  *)
(* earliest of them, and handleTimerEvents in the reactor's loop.          *)
(*                                                                         *)
(* timers_mutex_ makes the body of each function atomic.  Outside of it    *)
(* are: the reading of the clock in registerTimer and in handleTimerEvents *)
(* (time may pass before the lock is taken) and the callbacks.             *)
(*                                                                         *)
(* std::set compares expirations only, so timers_ never holds two timers   *)
(* with one expiration: the second insert does nothing.                    *)
(***************************************************************************)
EXTENDS Integers, FiniteSets, FiniteSetsExt

CONSTANTS
  App,              \* a thread of the application
  Reactor,          \* the reactor's thread: its callbacks use timers too
  None,
  Intervals,        \* interval_ms of the calls, in ticks of the model's clock
  MaxTimers,        \* bound: calls of registerTimer
  MaxTime,          \* bound: the clock
  Lag,              \* may time pass between reading the clock and the lock?
  LateCancel        \* may the earliest timer be cancelled when it is due?

Callers == {App, Reactor}
Ids == 0..(MaxTimers - 1)

ASSUME TimersAssumption ==
  /\ App # Reactor
  /\ Intervals \subseteq Nat
  /\ MaxTimers \in Nat /\ MaxTime \in Nat
  /\ Lag \in BOOLEAN /\ LateCancel \in BOOLEAN

VARIABLES
  now,              \* the monotonic clock
  timers_,          \* set of [id, interval, recurring, expiration]
  next_timer_id_,
  reg,              \* reg[t]: the TimerInfo t is about to insert, or None
  deadline,         \* when the timerfd goes off, or None
  ticks,            \* unread expirations of the timerfd: 0 or 1
  ready,            \* the timerfd is on epoll's ready list
  rpc,              \* where the reactor is
  handlerNow,       \* "now" of handleTimerEvents
  running,          \* expired_timers whose callbacks have not ended
  inserted,         \* history: timers that were in the set
  cancelled,        \* history: ids for which cancelTimer returned true
  firings,          \* history: runs of each callback
  lateFirings       \* history: runs after a successful cancelTimer

setVars     == <<timers_, next_timer_id_, reg>>
kernelVars  == <<deadline, ticks, ready>>
loopVars    == <<rpc, handlerNow, running>>
historyVars == <<inserted, cancelled, firings, lateFirings>>
vars == <<now, setVars, kernelVars, loopVars, historyVars>>

TimerInfo == [id : Ids, interval : Intervals \ {0}, recurring : BOOLEAN, expiration : Nat]

Earliest(S) == Min({t.expiration : t \in S})

Init ==
  /\ now = 0
  /\ timers_ = {} /\ next_timer_id_ = 0
  /\ reg = [t \in Callers |-> None]
  /\ deadline = None /\ ticks = 0 /\ ready = FALSE
  /\ rpc = "wait" /\ handlerNow = 0 /\ running = {}
  /\ inserted = {} /\ cancelled = {}
  /\ firings = [i \in Ids |-> 0]
  /\ lateFirings = [i \in Ids |-> 0]

-----------------------------------------------------------------------------
(* The timerfd.  timerfd_settime forgets unread expirations and a value of  *)
(* zero disarms.                                                           *)
settime(duration) ==
  /\ deadline' = IF duration = 0 THEN None ELSE now + duration
  /\ ticks' = 0
  /\ UNCHANGED ready

disableTimer == settime(0)

(* Bug: the timerfd is armed for the latest timer. *)
updateNextTimer_Latest(S) ==
  LET duration == Max({t.expiration : t \in S}) - now IN
  settime(IF duration < 0 THEN 0 ELSE duration)

(* A timer that is already due leads to a value of zero. *)
updateNextTimer(S) ==
  LET duration == Earliest(S) - now IN
  settime(IF duration < 0 THEN 0 ELSE duration)

(* std::set::insert, which refuses an equal key *)
Insert(S, timer) ==
  IF \E t \in S : t.expiration = timer.expiration THEN S ELSE S \cup {timer}

-----------------------------------------------------------------------------
(* Callers: the application, or a callback of the reactor.                 *)

MayCall(t) == reg[t] = None /\ (t = Reactor => rpc = "callback")

(* registerTimer up to the lock *)
registerTimer(t, interval, recurring) ==
  /\ MayCall(t)
  /\ interval > 0
  /\ next_timer_id_ < MaxTimers
  /\ next_timer_id_' = next_timer_id_ + 1
  /\ reg' = [reg EXCEPT ![t] = [id |-> next_timer_id_, interval |-> interval,
                                recurring |-> recurring,
                                expiration |-> now + interval]]
  /\ UNCHANGED <<now, timers_, kernelVars, loopVars, historyVars>>

(* registerTimer under the lock *)
registerInsert(t) ==
  /\ reg[t] # None
  /\ timers_' = Insert(timers_, reg[t])
  /\ IF reg[t].expiration = Earliest(timers_')
       THEN updateNextTimer(timers_') ELSE UNCHANGED kernelVars
  /\ reg' = [reg EXCEPT ![t] = None]
  /\ inserted' = inserted \cup (timers_' \ timers_)
  /\ UNCHANGED <<now, next_timer_id_, loopVars, cancelled, firings, lateFirings>>

(* An id that is not in the set only returns false. *)
cancelTimer(t, id) ==
  \E timer \in timers_ :
    /\ MayCall(t)
    /\ timer.id = id
    /\ LateCancel \/ timer.expiration # Earliest(timers_) \/ timer.expiration > now
    /\ timers_' = timers_ \ {timer}
    /\ IF timers_' = {} THEN disableTimer
       ELSE IF timer.expiration = Earliest(timers_) THEN updateNextTimer(timers_')
       ELSE UNCHANGED kernelVars
    /\ cancelled' = cancelled \cup {id}
    /\ UNCHANGED <<now, next_timer_id_, reg, loopVars, inserted, firings, lateFirings>>

-----------------------------------------------------------------------------
(* The reactor.                                                            *)

(* epoll_wait reports the timerfd if it is readable. *)
doEpoll ==
  /\ rpc = "wait"
  /\ ready /\ ticks > 0
  /\ ready' = FALSE
  /\ rpc' = "read"
  /\ UNCHANGED <<now, setVars, deadline, ticks, handlerNow, running, historyVars>>

(* The read fails when a settime came in between: handleTimerEvents returns. *)
readTimerfd ==
  /\ rpc = "read"
  /\ ticks' = 0
  /\ rpc' = IF ticks > 0 THEN "lock" ELSE "wait"
  /\ handlerNow' = IF ticks > 0 THEN now ELSE handlerNow
  /\ UNCHANGED <<now, setVars, deadline, ready, running, historyVars>>

(* what handleTimerEvents collects, given its reading of the clock *)
Expired == {t \in timers_ : t.expiration <= handlerNow}

(* Bug: every expired timer is inserted again. *)
recurring_timers_All == Expired

recurring_timers == {t \in Expired : t.recurring}

Renewed(timer) == [timer EXCEPT !.expiration = handlerNow + timer.interval]

(* The insertion of recurring_timers, in the order in which they expired: a *)
(* timer is refused if its new expiration is in the set or was inserted      *)
(* before it.                                                              *)
InsertAll(S, timers) ==
  S \cup {Renewed(t) : t \in
            {u \in timers :
               /\ \A s \in S : s.expiration # Renewed(u).expiration
               /\ \A v \in timers : v.expiration < u.expiration => v.interval # u.interval}}

(* The body of handleTimerEvents under the lock. *)
handleTimerEvents ==
  /\ rpc = "lock"
  /\ running' = Expired
  /\ timers_' = InsertAll(timers_ \ Expired, recurring_timers)
  /\ IF timers_' # {} THEN updateNextTimer(timers_') ELSE disableTimer
  /\ rpc' = "callbacks"
  /\ UNCHANGED <<now, next_timer_id_, reg, handlerNow, historyVars>>

(* The callbacks run in the order in which the timers expired. *)
First(timers) == CHOOSE t \in timers : t.expiration = Earliest(timers)

(* A callback starts; it may register and cancel timers. *)
startCallback ==
  /\ rpc = "callbacks"
  /\ running # {}
  /\ LET id == First(running).id IN
     /\ firings' = [firings EXCEPT ![id] = @ + 1]
     /\ lateFirings' = [lateFirings EXCEPT ![id] = IF id \in cancelled THEN @ + 1 ELSE @]
  /\ rpc' = "callback"
  /\ UNCHANGED <<now, setVars, kernelVars, handlerNow, running, inserted, cancelled>>

endCallback ==
  /\ rpc = "callback"
  /\ reg[Reactor] = None
  /\ running' = running \ {First(running)}
  /\ rpc' = "callbacks"
  /\ UNCHANGED <<now, setVars, kernelVars, handlerNow, historyVars>>

handleTimerReturn ==
  /\ rpc = "callbacks"
  /\ running = {}
  /\ rpc' = "wait"
  /\ UNCHANGED <<now, setVars, kernelVars, handlerNow, running, historyVars>>

(* Time passes; the timerfd goes off. *)
Tick ==
  /\ now < MaxTime
  /\ Lag \/ (rpc # "lock" /\ \A t \in Callers : reg[t] = None)
  /\ now' = now + 1
  /\ IF deadline = now'
       THEN deadline' = None /\ ticks' = 1 /\ ready' = TRUE
       ELSE UNCHANGED kernelVars
  /\ UNCHANGED <<setVars, loopVars, historyVars>>

-----------------------------------------------------------------------------
ReactorStep ==
  \/ doEpoll \/ readTimerfd \/ handleTimerEvents
  \/ startCallback \/ endCallback \/ handleTimerReturn

Next ==
  \/ \E t \in Callers, n \in Intervals, r \in BOOLEAN : registerTimer(t, n, r)
  \/ \E t \in Callers : registerInsert(t)
  \/ \E t \in Callers, id \in Ids : cancelTimer(t, id)
  \/ ReactorStep
  \/ Tick

Spec == Init /\ [][Next]_vars

-----------------------------------------------------------------------------
(* Properties.                                                             *)

TypeOK ==
  /\ now \in 0..MaxTime
  /\ timers_ \subseteq TimerInfo
  /\ next_timer_id_ \in 0..MaxTimers
  /\ reg \in [Callers -> TimerInfo \cup {None}]
  /\ deadline \in (now + 1)..(MaxTime + Max(Intervals)) \cup {None}
  /\ ticks \in {0, 1}
  /\ ready \in BOOLEAN
  /\ rpc \in {"wait", "read", "lock", "callbacks", "callback"}
  /\ handlerNow \in 0..now
  /\ running \subseteq TimerInfo
  /\ inserted \subseteq TimerInfo
  /\ cancelled \subseteq Ids
  /\ firings \in [Ids -> Nat]
  /\ lateFirings \in [Ids -> Nat]

(* As long as the earliest timer lies in the future the timerfd is armed for *)
(* it, whatever went before: also when the clock has overtaken a caller      *)
(* between its reading and the lock, or a due timer, whose expiration        *)
(* updateNextTimer turned into a value of zero, has just been cancelled.     *)
NextIsArmed ==
  timers_ # {} /\ Earliest(timers_) > now => deadline = Earliest(timers_)

(* A one-shot timer runs at most once, and not at all after cancelTimer     *)
(* returned true; a recurring one may run once more, because it is inserted *)
(* again before its callback runs.                                         *)
CancelHolds ==
  \A timer \in inserted :
     IF timer.recurring THEN lateFirings[timer.id] <= 1
     ELSE firings[timer.id] <= 1 /\ lateFirings[timer.id] = 0

(* A timer never runs more often than its interval allows, however late     *)
(* the loop is: no bursts to catch up.                                     *)
NoBurst ==
  \A timer \in inserted :
     firings[timer.id] * timer.interval <= now - (timer.expiration - timer.interval)

(* Timers run as often as they were asked to, and cancelled ones stop,      *)
(* whatever the order of registrations, cancellations and late loops.      *)
RunsAsAsked == CancelHolds /\ NoBurst

(* updateNextTimer was called when the earliest timer was due already: it    *)
(* turned the duration into zero, which disarms the timerfd and forgets an   *)
(* expiration of it, and no handleTimerEvents is on its way to the timer.    *)
Overlooked ==
  /\ timers_ # {} /\ Earliest(timers_) <= now
  /\ deadline = None /\ ticks = 0 /\ rpc # "lock"

FallsDue(id) == \E t \in timers_ : t.id = id /\ t.expiration <= now

(* A timer that is due is taken by handleTimerEvents (or cancelled), again   *)
(* and again if it is recurring, whoever registers, cancels or is late; the  *)
(* only way in which it may have to wait for a later call of updateNextTimer *)
(* is that the last one came when a timer was due already.                  *)
DueTimersRun == \A id \in Ids : FallsDue(id) ~> ~FallsDue(id) \/ Overlooked

(* "Timer fired after 1 second" (SubReactor.cpp:374) without that exception,  *)
(* which the code does not keep when the clock overtakes a reading of it     *)
(* (lines 228 and 321) or a due timer is cancelled (lines 282-287).          *)
NoneOverlooked == ~Overlooked

(* A recurring timer that expires is "inserted again" (SubReactor.cpp:343)  *)
(* and stays until it is cancelled.  Timers that do not expire with it and  *)
(* happen to have its new expiration are left out of consideration: with a  *)
(* clock in nanoseconds that is a coincidence.                             *)
RecurringStays ==
  \A timer \in running :
     LET others == {t \in timers_ : \A u \in running : u.id # t.id} IN
     /\ timer.recurring
     /\ timer.id \notin cancelled
     /\ \A t \in others : t.expiration # handlerNow + timer.interval
     => \E t \in timers_ : t.id = timer.id
=============================================================================
