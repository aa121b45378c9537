--------------------------- MODULE Timers_proofs ----------------------------
(***************************************************************************)
(* Proofs about the timers of both servers: the ordered set and the        *)
(* timerfd of a SubReactor, and the timer wheel of server.hpp.             *)
(***************************************************************************)
EXTENDS Timers, TimerWheel, WellFoundedInduction, TLAPS

-----------------------------------------------------------------------------
(* The earliest timer.                                                     *)

(* A set of numbers has a least one. *)
LEMMA LeastExists ==
  ASSUME NEW T \in SUBSET Nat, T # {}
  PROVE  \E x \in T : \A y \in T : x <= y
  <1>1. PICK R : R = {x \in Nat \X Nat : x[1] < x[2]}
    OBVIOUS
  <1>2. IsWellFoundedOn(R, Nat)
    BY <1>1, NatLessThanWellFounded DEF OpToRel
  <1>3. \A x, y \in Nat : <<x, y>> \in R <=> x < y
    BY <1>1
  <1>4. PICK x \in T : \A y \in T : ~(<<y, x>> \in R)
    BY <1>2, WFMin
  <1>5. \A y \in T : ~(y < x)
    BY <1>3, <1>4
  <1>6. \A y \in T : x <= y
    BY <1>5
  <1>7. QED
    BY <1>6

(* Earliest is the expiration of a timer, and no other is before it. *)
LEMMA EarliestIs ==
  ASSUME NEW S \in SUBSET TimerInfo, S # {}
  PROVE  /\ Earliest(S) \in Nat
         /\ \E t \in S : t.expiration = Earliest(S)
         /\ \A t \in S : Earliest(S) <= t.expiration
  <1>1. PICK T : T = {t.expiration : t \in S}
    OBVIOUS
  <1>2. T \in SUBSET Nat /\ T # {}
    BY <1>1 DEF TimerInfo
  <1>3. \E x \in T : \A y \in T : x <= y
    BY <1>2, LeastExists
  <1>4. Earliest(S) = CHOOSE x \in T : \A y \in T : x <= y
    BY <1>1 DEF Earliest, Min
  <1>5. Earliest(S) \in T /\ \A y \in T : Earliest(S) <= y
    BY <1>3, <1>4
  <1>6. QED
    BY <1>1, <1>2, <1>5

(* Earliest is the only number with these properties. *)
LEMMA EarliestUnique ==
  ASSUME NEW S \in SUBSET TimerInfo, NEW u \in S, \A t \in S : u.expiration <= t.expiration
  PROVE  Earliest(S) = u.expiration
  <1>1. S # {} /\ u.expiration \in Nat
    BY DEF TimerInfo
  <1>2. PICK t \in S : t.expiration = Earliest(S)
    BY <1>1, EarliestIs
  <1>3. Earliest(S) <= u.expiration /\ u.expiration <= Earliest(S) /\ Earliest(S) \in Nat
    BY <1>1, <1>2, EarliestIs
  <1>4. QED
    BY <1>1, <1>3

(* updateNextTimer arms the timerfd for the earliest timer if that is not   *)
(* yet due.                                                                *)
LEMMA ArmsEarliest ==
  ASSUME NEW S \in SUBSET TimerInfo, S # {}, now \in Nat, Earliest(S) > now, updateNextTimer(S)
  PROVE  deadline' = Earliest(S)
  <1>1. Earliest(S) \in Nat
    BY EarliestIs
  <1>2. QED
    BY <1>1 DEF updateNextTimer, settime

-----------------------------------------------------------------------------
(* The types.                                                              *)

TimerTypes ==
  /\ now \in Nat /\ next_timer_id_ \in Nat
  /\ timers_ \subseteq TimerInfo /\ running \subseteq TimerInfo /\ inserted \subseteq TimerInfo
  /\ \A t \in Callers : reg[t] # None => reg[t] \in TimerInfo
  /\ DOMAIN reg = Callers
  /\ handlerNow \in Nat /\ handlerNow <= now
  /\ rpc \in {"wait", "read", "lock", "callbacks", "callback"}
  /\ rpc \in {"wait", "read", "lock"} => running = {}
  /\ rpc = "callback" => running # {}
  /\ firings \in [Ids -> Nat] /\ lateFirings \in [Ids -> Nat]

(* A renewed timer is a timer with the same id. *)
LEMMA RenewedIs ==
  ASSUME NEW t \in TimerInfo, handlerNow \in Nat
  PROVE  /\ Renewed(t) \in TimerInfo
         /\ Renewed(t).id = t.id /\ Renewed(t).interval = t.interval
         /\ Renewed(t).recurring = t.recurring
         /\ Renewed(t).expiration = handlerNow + t.interval
         /\ t.interval \in Nat /\ t.interval > 0
  BY TimersAssumption DEF Renewed, TimerInfo

(* What handleTimerEvents leaves in the set: timers that have not expired,   *)
(* and renewed ones that were recurring.                                   *)
LEMMA InsertAllIs ==
  ASSUME NEW x \in InsertAll(timers_ \ Expired, recurring_timers)
  PROVE  \/ x \in timers_ /\ ~(x.expiration <= handlerNow)
         \/ \E t \in timers_ : t.expiration <= handlerNow /\ t.recurring /\ x = Renewed(t)
  BY DEF InsertAll, Expired, recurring_timers

(* The first of the timers is one of them. *)
LEMMA FirstIs ==
  ASSUME NEW S \in SUBSET TimerInfo, S # {}
  PROVE  First(S) \in S
  <1>1. \E t \in S : t.expiration = Earliest(S)
    BY EarliestIs
  <1>2. QED
    BY <1>1 DEF First

(* The types hold at the start. *)
LEMMA TimerTypesInit == Init => TimerTypes
  BY DEF Init, TimerTypes

(* Every step keeps the types. *)
LEMMA TimerTypesNext == TimerTypes /\ [Next]_vars => TimerTypes'
  <1> SUFFICES ASSUME TimerTypes, [Next]_vars PROVE TimerTypes'
    OBVIOUS
  <1> USE TimersAssumption
  <1>1. ASSUME NEW t \in Callers, NEW n \in Intervals, NEW r \in BOOLEAN, registerTimer(t, n, r)
        PROVE  TimerTypes'
    <2>1. PICK new : new = [id |-> next_timer_id_, interval |-> n, recurring |-> r,
                            expiration |-> now + n]
      OBVIOUS
    <2>2. new \in TimerInfo
      BY <1>1, <2>1 DEF registerTimer, TimerTypes, TimerInfo, Ids
    <2>3. reg' = [reg EXCEPT ![t] = new]
      BY <1>1, <2>1 DEF registerTimer
    <2>4. /\ \A u \in Callers : reg'[u] # None => reg'[u] \in TimerInfo
          /\ DOMAIN reg' = Callers
      BY <2>2, <2>3 DEF TimerTypes
    <2>5. QED
      BY <1>1, <2>4 DEF registerTimer, TimerTypes, loopVars, historyVars
  <1>2. ASSUME NEW t \in Callers, registerInsert(t)
        PROVE  TimerTypes'
    <2>1. timers_' \subseteq TimerInfo /\ inserted' \subseteq TimerInfo
      BY <1>2 DEF registerInsert, Insert, TimerTypes
    <2>2. /\ \A u \in Callers : reg'[u] # None => reg'[u] \in TimerInfo
          /\ DOMAIN reg' = Callers
      BY <1>2 DEF registerInsert, TimerTypes
    <2>3. QED
      BY <1>2, <2>1, <2>2 DEF registerInsert, TimerTypes, loopVars
  <1>3. ASSUME NEW t \in Callers, NEW id \in Ids, cancelTimer(t, id)
        PROVE  TimerTypes'
    BY <1>3 DEF cancelTimer, TimerTypes, loopVars
  <1>4. ASSUME doEpoll \/ readTimerfd
        PROVE  TimerTypes'
    BY <1>4 DEF doEpoll, readTimerfd, TimerTypes, setVars, historyVars
  <1>5. ASSUME handleTimerEvents
        PROVE  TimerTypes'
    <2>1. timers_' \subseteq TimerInfo
      <3> SUFFICES ASSUME NEW x \in timers_' PROVE x \in TimerInfo
        OBVIOUS
      <3>1. x \in InsertAll(timers_ \ Expired, recurring_timers)
        BY <1>5 DEF handleTimerEvents
      <3>2. QED
        BY <3>1, InsertAllIs, RenewedIs DEF TimerTypes
    <2>2. running' \subseteq TimerInfo
      BY <1>5 DEF handleTimerEvents, Expired, TimerTypes
    <2>3. QED
      BY <1>5, <2>1, <2>2 DEF handleTimerEvents, TimerTypes, historyVars
  <1>6. ASSUME startCallback
        PROVE  TimerTypes'
    <2>1. First(running) \in running
      BY <1>6, FirstIs DEF startCallback, TimerTypes
    <2>2. PICK id : id = First(running).id /\ id \in Ids
      BY <2>1 DEF TimerTypes, TimerInfo
    <2>3. /\ firings' = [firings EXCEPT ![id] = @ + 1]
          /\ lateFirings' = [lateFirings EXCEPT ![id] = IF id \in cancelled THEN @ + 1 ELSE @]
      BY <1>6, <2>2 DEF startCallback
    <2>4. firings' \in [Ids -> Nat] /\ lateFirings' \in [Ids -> Nat]
      BY <2>2, <2>3 DEF TimerTypes
    <2>5. QED
      BY <1>6, <2>4 DEF startCallback, TimerTypes, setVars
  <1>7. ASSUME endCallback \/ handleTimerReturn \/ Tick
        PROVE  TimerTypes'
    BY <1>7 DEF endCallback, handleTimerReturn, Tick, TimerTypes, setVars, loopVars, historyVars
  <1>8. ASSUME UNCHANGED vars
        PROVE  TimerTypes'
    BY <1>8 DEF vars, TimerTypes, setVars, loopVars, historyVars
  <1>9. QED
    BY <1>1, <1>2, <1>3, <1>4, <1>5, <1>6, <1>7, <1>8 DEF Next, ReactorStep

-----------------------------------------------------------------------------
(* The timerfd is armed for a timer in the future.                         *)

(* A set whose earliest timer lies in the future has been given to           *)
(* updateNextTimer.                                                        *)
LEMMA UpdateArms ==
  ASSUME TimerTypes, TimerTypes', now' = now, timers_' # {} => updateNextTimer(timers_')
  PROVE  NextIsArmed'
  <1>1. timers_' \subseteq TimerInfo /\ now \in Nat
    BY DEF TimerTypes
  <1>2. QED
    BY <1>1, ArmsEarliest DEF NextIsArmed

(* The earliest timer is still the earliest, and the timerfd as it was.      *)
LEMMA SameEarliestArmed ==
  ASSUME NextIsArmed, timers_ # {}, Earliest(timers_') = Earliest(timers_),
         UNCHANGED <<now, kernelVars>>
  PROVE  NextIsArmed'
  BY DEF NextIsArmed, kernelVars

(* The insertion of a registered timer. *)
LEMMA RegisterArmed ==
  ASSUME TimerTypes, NextIsArmed, NEW t \in Callers, registerInsert(t), TimerTypes'
  PROVE  NextIsArmed'
  <1>1. PICK new : new = reg[t] /\ new \in TimerInfo
    BY DEF registerInsert, TimerTypes
  <1>2. /\ timers_' = Insert(timers_, new) /\ timers_' \subseteq TimerInfo /\ timers_' # {}
        /\ now' = now
    BY <1>1 DEF registerInsert, Insert, TimerTypes
  <1>3. CASE new.expiration = Earliest(timers_')
    BY <1>1, <1>2, <1>3, UpdateArms DEF registerInsert
  <1>4. CASE new.expiration # Earliest(timers_')
    <2>1. UNCHANGED kernelVars
      BY <1>1, <1>4 DEF registerInsert
    <2>2. PICK u \in timers_' : u.expiration = Earliest(timers_')
      BY <1>2, EarliestIs
    <2>3. u \in timers_
      BY <1>2, <1>4, <2>2 DEF Insert
    <2>4. \A v \in timers_ : u.expiration <= v.expiration
      BY <1>2, <2>2, EarliestIs DEF Insert
    <2>5. timers_ # {} /\ Earliest(timers_) = Earliest(timers_')
      BY <2>2, <2>3, <2>4, EarliestUnique DEF TimerTypes
    <2>6. QED
      BY <1>2, <2>1, <2>5, SameEarliestArmed
  <1>5. QED
    BY <1>3, <1>4

(* The cancellation of a timer, due or not. *)
LEMMA CancelArmed ==
  ASSUME TimerTypes, NextIsArmed, NEW t \in Callers, NEW id \in Ids, cancelTimer(t, id),
         TimerTypes'
  PROVE  NextIsArmed'
  <1>1. PICK timer \in timers_ :
          /\ timers_' = timers_ \ {timer}
          /\ IF timers_' = {} THEN disableTimer
             ELSE IF timer.expiration = Earliest(timers_) THEN updateNextTimer(timers_')
             ELSE UNCHANGED kernelVars
          /\ now' = now
    BY DEF cancelTimer
  <1>2. timers_ \subseteq TimerInfo /\ timers_ # {}
    BY <1>1 DEF TimerTypes
  <1>3. CASE timers_' = {} \/ timer.expiration = Earliest(timers_)
    BY <1>1, <1>3, UpdateArms
  <1>4. CASE timers_' # {} /\ timer.expiration # Earliest(timers_)
    <2>1. PICK u \in timers_ : u.expiration = Earliest(timers_)
      BY <1>2, EarliestIs
    <2>2. u \in timers_' /\ \A v \in timers_' : u.expiration <= v.expiration
      BY <1>1, <1>2, <1>4, <2>1, EarliestIs
    <2>3. Earliest(timers_') = Earliest(timers_)
      BY <1>2, <2>1, <2>2, EarliestUnique DEF TimerTypes
    <2>4. UNCHANGED kernelVars
      BY <1>1, <1>4
    <2>5. QED
      BY <1>1, <1>2, <2>3, <2>4, SameEarliestArmed
  <1>5. QED
    BY <1>3, <1>4

(* The clock moves towards the earliest timer; the timerfd goes off when it  *)
(* gets there.                                                             *)
LEMMA TickArmed ==
  ASSUME TimerTypes, NextIsArmed, Tick
  PROVE  NextIsArmed'
  <1> SUFFICES ASSUME timers_ # {}, Earliest(timers_) > now + 1
               PROVE  deadline' = Earliest(timers_)
    BY DEF Tick, setVars, NextIsArmed
  <1>1. now \in Nat /\ Earliest(timers_) \in Nat
    BY EarliestIs DEF TimerTypes
  <1>2. deadline = Earliest(timers_) /\ deadline # now + 1
    BY <1>1 DEF NextIsArmed
  <1>3. QED
    BY <1>2 DEF Tick, kernelVars

(* Every step keeps the timerfd armed. *)
LEMMA ArmedNext == TimerTypes /\ NextIsArmed /\ TimerTypes' /\ [Next]_vars => NextIsArmed'
  <1> SUFFICES ASSUME TimerTypes, NextIsArmed, TimerTypes', [Next]_vars PROVE NextIsArmed'
    OBVIOUS
  <1>1. CASE handleTimerEvents
    <2>1. now' = now /\ (timers_' # {} => updateNextTimer(timers_'))
      BY <1>1 DEF handleTimerEvents
    <2>2. QED
      BY <2>1, UpdateArms
  <1>2. CASE UNCHANGED <<now, timers_, deadline>>
    BY <1>2 DEF NextIsArmed
  <1>3. ASSUME \/ \E t \in Callers, n \in Intervals, r \in BOOLEAN : registerTimer(t, n, r)
               \/ doEpoll \/ readTimerfd \/ startCallback \/ endCallback \/ handleTimerReturn
               \/ UNCHANGED vars
        PROVE  UNCHANGED <<now, timers_, deadline>>
    BY <1>3 DEF registerTimer, doEpoll, readTimerfd, startCallback, endCallback,
                handleTimerReturn, setVars, kernelVars, vars
  <1>4. QED
    BY <1>1, <1>2, <1>3, RegisterArmed, CancelArmed, TickArmed DEF Next, ReactorStep

(* For any intervals, numbers of timers and interleavings of the callers     *)
(* with the loop, however long a thread waits between reading the clock and  *)
(* the lock and whichever timers are cancelled: a timer in the future that   *)
(* is the next one has the timerfd armed for it.                           *)
THEOREM TimersNextIsArmed == Spec => []NextIsArmed
  <1>1. Init => NextIsArmed
    BY DEF Init, NextIsArmed
  <1>2. QED
    BY TimerTypesInit, TimerTypesNext, ArmedNext, <1>1, PTL DEF Spec

-----------------------------------------------------------------------------
(* Timers run as often as they were asked to.                              *)

(* the expired timers whose callbacks have not started *)
Pending == IF rpc = "callback" THEN running \ {First(running)} ELSE running

InSet(id) == \E t \in timers_ : t.id = id
Waits(id) == \E t \in Pending : t.id = id

(* runs of a timer's callback that have started or are certain *)
Due(id) == firings[id] + (IF Waits(id) THEN 1 ELSE 0)

(* ids are given once; what is in the set or expired has been inserted *)
IdsUnique ==
  /\ \A s, t \in timers_ : s.id = t.id => s = t
  /\ \A s, t \in running : s.id = t.id => s = t
  /\ \A s, t \in inserted : s.id = t.id => s = t
  /\ \A s \in timers_ \cup running : \E y \in inserted :
       y.id = s.id /\ y.interval = s.interval /\ y.recurring = s.recurring
  /\ \A y \in inserted : y.id < next_timer_id_

(* a timer about to be inserted has an id of its own and was registered      *)
(* before now                                                              *)
RegFresh ==
  /\ \A t \in Callers : reg[t] # None =>
       /\ reg[t].id < next_timer_id_ /\ \A y \in inserted : y.id # reg[t].id
       /\ reg[t].expiration - reg[t].interval >= 0
       /\ reg[t].expiration - reg[t].interval <= now
  /\ \A t, u \in Callers : reg[t] # None /\ reg[u] # None /\ reg[t].id = reg[u].id => t = u
  /\ \A id \in Ids : (\A y \in inserted : y.id # id) =>
       firings[id] = 0 /\ lateFirings[id] = 0 /\ id \notin cancelled

(* where the runs of a one-shot and of a recurring timer stand *)
Counted(y) ==
  /\ y.id \in cancelled => ~InSet(y.id)
  /\ ~y.recurring =>
       /\ InSet(y.id) => firings[y.id] = 0 /\ \A t \in running : t.id # y.id
       /\ Waits(y.id) => firings[y.id] = 0 /\ y.id \notin cancelled
       /\ firings[y.id] <= 1 /\ lateFirings[y.id] = 0
  /\ y.recurring =>
       /\ lateFirings[y.id] <= 1
       /\ lateFirings[y.id] > 0 => y.id \in cancelled /\ ~Waits(y.id)

(* the runs of a timer leave an interval for each: up to now, and up to the   *)
(* start of the interval that its entry in the set stands for              *)
Paced(y) ==
  /\ y.expiration - y.interval >= 0
  /\ Due(y.id) * y.interval <= now - (y.expiration - y.interval)
  /\ \A t \in timers_ : t.id = y.id =>
       Due(y.id) * y.interval <= (t.expiration - y.interval) - (y.expiration - y.interval)

RunsInv == IdsUnique /\ RegFresh /\ \A y \in inserted : Counted(y) /\ Paced(y)

(* The numbers of a timer. *)
LEMMA TimerNumbers ==
  ASSUME TimerTypes, NEW y \in TimerInfo
  PROVE  /\ y.id \in Ids /\ y.interval \in Nat /\ y.interval > 0 /\ y.expiration \in Nat
         /\ firings[y.id] \in Nat /\ Due(y.id) \in Nat /\ Due(y.id) * y.interval \in Nat
  <1>1. y.id \in Ids /\ y.interval \in Nat /\ y.interval > 0 /\ y.expiration \in Nat
    <2>1. y.id \in Ids /\ y.interval \in Intervals /\ y.interval # 0 /\ y.expiration \in Nat
      BY DEF TimerInfo
    <2>2. y.interval \in Nat
      BY <2>1, TimersAssumption
    <2>3. QED
      BY <2>1, <2>2
  <1>2. firings[y.id] \in Nat
    BY <1>1 DEF TimerTypes
  <1>3. Due(y.id) \in Nat
    BY <1>2 DEF Due
  <1>4. QED
    BY <1>1, <1>2, <1>3

(* The invariant gives the property. *)
LEMMA RunsInvImplies ==
  ASSUME TimerTypes, RunsInv
  PROVE  RunsAsAsked
  <1>1. CancelHolds
    BY DEF RunsInv, Counted, CancelHolds
  <1>2. NoBurst
    <2> SUFFICES ASSUME NEW y \in inserted
                 PROVE  firings[y.id] * y.interval <= now - (y.expiration - y.interval)
      BY DEF NoBurst
    <2>1. PICK f \in Nat, i \in Nat, e \in Nat :
            f = firings[y.id] /\ i = y.interval /\ e = y.expiration
      BY TimersAssumption DEF TimerTypes, TimerInfo
    <2>2. Due(y.id) = f \/ Due(y.id) = f + 1
      BY <2>1 DEF Due
    <2>3. Due(y.id) * i <= now - (e - i) /\ now \in Nat
      BY <2>1 DEF RunsInv, Paced, TimerTypes
    <2>4. (f + 1) * i = f * i + i /\ f * i \in Nat
      BY <2>1
    <2>5. QED
      BY <2>1, <2>2, <2>3, <2>4
  <1>3. QED
    BY <1>1, <1>2 DEF RunsAsAsked

(* A step that starts, ends, adds and removes nothing. *)
LEMMA RunsSame ==
  ASSUME TimerTypes, RunsInv, UNCHANGED <<timers_, inserted, cancelled, firings, lateFirings>>,
         running' \subseteq running, Pending' = Pending, now' \in Nat, now' >= now,
         next_timer_id_' >= next_timer_id_, next_timer_id_' \in Nat, RegFresh'
  PROVE  RunsInv'
  <1>1. \A id : InSet(id)' <=> InSet(id)
    BY DEF InSet
  <1>2. \A id : Waits(id)' <=> Waits(id)
    BY DEF Waits
  <1>3. \A id : Due(id)' = Due(id)
    BY <1>2 DEF Due
  <1>4. IdsUnique'
    BY DEF RunsInv, IdsUnique, TimerTypes, TimerInfo, Ids
  <1>5. ASSUME NEW y \in inserted PROVE Counted(y)'
    BY <1>1, <1>2 DEF RunsInv, Counted
  <1>6. ASSUME NEW y \in inserted PROVE Paced(y)'
    <2>1. PICK k : k = Due(y.id) * y.interval
      OBVIOUS
    <2>2. y.interval \in Nat /\ y.expiration \in Nat /\ k \in Int
      BY <2>1, TimerNumbers DEF TimerTypes
    <2>3. Due(y.id)' * y.interval = k
      BY <1>3, <2>1
    <2>4. QED
      BY <2>1, <2>2, <2>3 DEF RunsInv, Paced, TimerTypes
  <1>7. QED
    BY <1>4, <1>5, <1>6 DEF RunsInv

(* The steps that leave the set and the expired timers alone. *)
LEMMA RunsQuiet ==
  ASSUME TimerTypes, RunsInv, TimerTypes',
         \/ doEpoll \/ readTimerfd \/ endCallback \/ handleTimerReturn \/ Tick
         \/ \E t \in Callers, n \in Intervals, r \in BOOLEAN : registerTimer(t, n, r)
         \/ UNCHANGED vars
  PROVE  RunsInv'
  <1>1. /\ UNCHANGED <<timers_, inserted, cancelled, firings, lateFirings>>
        /\ running' \subseteq running /\ now' \in Nat /\ now' >= now
    BY DEF TimerTypes, doEpoll, readTimerfd, endCallback, handleTimerReturn, Tick, registerTimer,
           vars, setVars, loopVars, historyVars
  <1>2. Pending' = Pending
    <2>1. CASE doEpoll \/ readTimerfd \/ handleTimerReturn
      BY <2>1 DEF TimerTypes, Pending, doEpoll, readTimerfd, handleTimerReturn
    <2>2. CASE endCallback
      BY <2>2 DEF TimerTypes, Pending, endCallback
    <2>3. CASE UNCHANGED <<rpc, running>>
      BY <2>3 DEF Pending, First, Earliest
    <2>4. QED
      BY <2>1, <2>2, <2>3 DEF Tick, registerTimer, vars, loopVars
  <1>3. CASE UNCHANGED <<reg, next_timer_id_>>
    <2>1. \A t \in Callers : reg[t] # None => reg[t].interval \in Nat /\ reg[t].expiration \in Nat
      BY TimerNumbers DEF TimerTypes
    <2>2. \A t \in Callers : reg[t] # None => reg[t].expiration - reg[t].interval <= now'
      BY <1>1, <2>1 DEF RunsInv, RegFresh, TimerTypes
    <2>3. RegFresh'
      BY <1>1, <1>3, <2>2 DEF RunsInv, RegFresh
    <2>4. QED
      BY <1>1, <1>2, <1>3, <2>3, RunsSame DEF TimerTypes
  <1>4. ASSUME NEW t \in Callers, NEW n \in Intervals, NEW r \in BOOLEAN, registerTimer(t, n, r)
        PROVE  RunsInv'
    <2>1. PICK new : new = [id |-> next_timer_id_, interval |-> n, recurring |-> r,
                            expiration |-> now + n]
      OBVIOUS
    <2>2. /\ reg' = [reg EXCEPT ![t] = new] /\ next_timer_id_' = next_timer_id_ + 1
          /\ next_timer_id_ \in Nat /\ now \in Nat /\ n \in Nat /\ now' = now
          /\ new.id = next_timer_id_ /\ new.expiration - new.interval = now
      BY <1>4, <2>1, TimersAssumption DEF registerTimer, TimerTypes
    <2>3. \A u \in Callers : reg'[u] = IF u = t THEN new ELSE reg[u]
      BY <2>2 DEF TimerTypes
    <2>4. \A u \in Callers : reg[u] # None => reg[u].id \in Nat /\ reg[u].id < next_timer_id_
      BY DEF TimerTypes, TimerInfo, Ids, RunsInv, RegFresh
    <2>5. \A y \in inserted : y.id \in Nat /\ y.id < next_timer_id_
      BY DEF TimerTypes, TimerInfo, Ids, RunsInv, IdsUnique
    <2>6. \A u \in Callers : reg'[u] # None =>
            /\ reg'[u].id < next_timer_id_' /\ \A y \in inserted : y.id # reg'[u].id
            /\ reg'[u].expiration - reg'[u].interval >= 0
            /\ reg'[u].expiration - reg'[u].interval <= now'
      BY <2>2, <2>3, <2>4, <2>5 DEF RunsInv, RegFresh
    <2>7. \A u, v \in Callers : reg'[u] # None /\ reg'[v] # None /\ reg'[u].id = reg'[v].id => u = v
      BY <2>2, <2>3, <2>4 DEF RunsInv, RegFresh
    <2>8. RegFresh'
      BY <1>1, <2>6, <2>7 DEF RunsInv, RegFresh
    <2>9. QED
      BY <1>1, <1>2, <2>2, <2>8, RunsSame DEF TimerTypes
  <1>5. QED
    BY <1>3, <1>4 DEF doEpoll, readTimerfd, endCallback, handleTimerReturn, Tick, vars, setVars

(* A timer is inserted: it has neither run nor been cancelled. *)
LEMMA RunsRegister ==
  ASSUME TimerTypes, RunsInv, TimerTypes', NEW t \in Callers, registerInsert(t)
  PROVE  RunsInv'
  <1>1. PICK new : new = reg[t] /\ new # None /\ new \in TimerInfo
    BY DEF registerInsert, TimerTypes
  <1>2. /\ timers_' = Insert(timers_, new) /\ reg' = [reg EXCEPT ![t] = None]
        /\ inserted' = inserted \cup (timers_' \ timers_)
        /\ UNCHANGED <<now, next_timer_id_, rpc, running, cancelled, firings, lateFirings>>
    BY <1>1 DEF registerInsert, loopVars
  <1>3. Pending' = Pending
    BY <1>2 DEF Pending, First, Earliest
  <1>4. \A u \in Callers : reg'[u] # None => u # t /\ reg'[u] = reg[u]
    BY <1>2 DEF TimerTypes
  <1>5. \A u \in Callers : reg'[u] # None => reg[u].id # new.id
    BY <1>1, <1>4 DEF RunsInv, RegFresh
  <1>6. inserted' = inserted \/ inserted' = inserted \cup {new}
    BY <1>2 DEF Insert
  <1>7. RegFresh'
    BY <1>2, <1>4, <1>5, <1>6 DEF RunsInv, RegFresh
  <1>8. CASE timers_' = timers_
    BY <1>2, <1>3, <1>7, <1>8, RunsSame DEF TimerTypes
  <1>9. CASE timers_' = timers_ \cup {new} /\ timers_' # timers_
    <2>1. \A y \in inserted : y.id # new.id
      BY <1>1 DEF RunsInv, RegFresh
    <2>2. \A s \in timers_ \cup running : s.id # new.id
      BY <2>1 DEF RunsInv, IdsUnique
    <2>3. inserted' = inserted \cup {new}
      BY <1>2, <1>9
    <2>4. new.id \in Ids /\ new.id < next_timer_id_
      BY <1>1 DEF RunsInv, RegFresh, TimerInfo
    <2>5. IdsUnique'
      BY <1>2, <1>9, <2>1, <2>2, <2>3, <2>4 DEF RunsInv, IdsUnique
    <2>6. \A y \in inserted : InSet(y.id)' <=> InSet(y.id)
      BY <1>9, <2>1 DEF InSet
    <2>7. \A id : Waits(id)' <=> Waits(id)
      BY <1>3 DEF Waits
    <2>8. Pending \subseteq running /\ ~Waits(new.id)
      BY <2>2 DEF Pending, Waits
    <2>9. \A id : Due(id)' = Due(id)
      BY <1>2, <2>7 DEF Due
    <2>10. firings[new.id] = 0 /\ lateFirings[new.id] = 0 /\ new.id \notin cancelled
      BY <2>1, <2>4 DEF RunsInv, RegFresh
    <2>11. ASSUME NEW y \in inserted PROVE Counted(y)' /\ Paced(y)'
      <3>1. Counted(y)'
        BY <1>2, <2>6, <2>7 DEF RunsInv, Counted
      <3>2. \A s \in timers_' : s.id = y.id => s \in timers_
        BY <1>9, <2>1
      <3>3. Paced(y)'
        BY <1>2, <2>9, <3>2 DEF RunsInv, Paced
      <3>4. QED
        BY <3>1, <3>3
    <2>12. Counted(new)' /\ Paced(new)'
      <3>1. Counted(new)'
        BY <1>2, <2>2, <2>7, <2>8, <2>10 DEF Counted
      <3>2. Due(new.id)' = 0
        BY <2>8, <2>9, <2>10 DEF Due
      <3>3. \A s \in timers_' : s.id = new.id => s = new
        BY <1>9, <2>2
      <3>4. PICK i \in Nat, e \in Nat : i = new.interval /\ e = new.expiration
        BY <1>1, TimerNumbers
      <3>5. 0 <= e - i /\ e - i <= now /\ now \in Nat
        BY <1>1, <3>4 DEF RunsInv, RegFresh, TimerTypes
      <3>6. 0 * i = 0 /\ (e - i) - (e - i) = 0
        BY <3>4
      <3>7. Paced(new)'
        BY <1>2, <3>2, <3>3, <3>4, <3>5, <3>6 DEF Paced
      <3>8. QED
        BY <3>1, <3>7
    <2>13. QED
      BY <1>7, <2>3, <2>5, <2>11, <2>12 DEF RunsInv
  <1>10. QED
    BY <1>2, <1>8, <1>9 DEF Insert

(* A timer is cancelled: it was in the set, so it was not cancelled before,  *)
(* and a one-shot timer is not among the expired ones.                     *)
LEMMA RunsCancel ==
  ASSUME TimerTypes, RunsInv, TimerTypes', NEW t \in Callers, NEW id \in Ids, cancelTimer(t, id)
  PROVE  RunsInv'
  <1>1. PICK timer \in timers_ : timer.id = id /\ timers_' = timers_ \ {timer}
    BY DEF cancelTimer
  <1>2. /\ cancelled' = cancelled \cup {id}
        /\ UNCHANGED <<now, next_timer_id_, reg, rpc, running, inserted, firings, lateFirings>>
    BY DEF cancelTimer, loopVars
  <1>3. Pending' = Pending
    BY <1>2 DEF Pending, First, Earliest
  <1>4. \A i : Waits(i)' <=> Waits(i)
    BY <1>3 DEF Waits
  <1>5. \A i : Due(i)' = Due(i)
    BY <1>2, <1>4 DEF Due
  <1>6. InSet(id) /\ ~InSet(id)' /\ \A i : InSet(i)' => InSet(i)
    BY <1>1 DEF InSet, RunsInv, IdsUnique
  <1>7. PICK z \in inserted : z.id = id
    BY <1>1 DEF RunsInv, IdsUnique
  <1>8. IdsUnique'
    BY <1>1, <1>2 DEF RunsInv, IdsUnique
  <1>9. RegFresh'
    BY <1>2, <1>7 DEF RunsInv, RegFresh
  <1>10. Pending \subseteq running
    BY DEF Pending
  <1>11. ASSUME NEW y \in inserted PROVE Counted(y)'
    <2>1. CASE y.id # id
      BY <1>2, <1>4, <1>6, <2>1 DEF RunsInv, Counted
    <2>2. CASE y.id = id
      <3>1. ~y.recurring => ~Waits(id) /\ firings[id] = 0
        BY <1>6, <1>10, <2>2 DEF RunsInv, Counted, Waits
      <3>2. lateFirings[id] \in Nat /\ id \notin cancelled
        BY <1>6, <2>2 DEF RunsInv, Counted, TimerTypes
      <3>3. QED
        BY <1>2, <1>4, <1>6, <2>2, <3>1, <3>2 DEF RunsInv, Counted
    <2>3. QED
      BY <2>1, <2>2
  <1>12. ASSUME NEW y \in inserted PROVE Paced(y)'
    BY <1>1, <1>2, <1>5 DEF RunsInv, Paced
  <1>13. QED
    BY <1>2, <1>8, <1>9, <1>11, <1>12 DEF RunsInv

(* A callback starts: what was certain has happened. *)
LEMMA RunsStart ==
  ASSUME TimerTypes, RunsInv, TimerTypes', startCallback
  PROVE  RunsInv'
  <1>1. PICK timer : timer = First(running) /\ timer \in running
    BY FirstIs DEF startCallback, TimerTypes
  <1>2. PICK id \in Ids : id = timer.id
    BY <1>1 DEF TimerTypes, TimerInfo
  <1>3. /\ firings' = [firings EXCEPT ![id] = @ + 1]
        /\ lateFirings' = [lateFirings EXCEPT ![id] = IF id \in cancelled THEN @ + 1 ELSE @]
        /\ rpc = "callbacks" /\ rpc' = "callback"
        /\ UNCHANGED <<now, timers_, next_timer_id_, reg, running, inserted, cancelled>>
    BY <1>1, <1>2 DEF startCallback, setVars
  <1>4. Pending = running /\ Pending' = running \ {timer}
    BY <1>1, <1>3 DEF Pending, First, Earliest
  <1>5. Waits(id) /\ ~Waits(id)' /\ \A i : i # id => (Waits(i)' <=> Waits(i))
    BY <1>1, <1>2, <1>4 DEF Waits, RunsInv, IdsUnique
  <1>6. /\ firings \in [Ids -> Nat] /\ lateFirings \in [Ids -> Nat]
        /\ firings'[id] = firings[id] + 1
        /\ lateFirings'[id] = IF id \in cancelled THEN lateFirings[id] + 1 ELSE lateFirings[id]
        /\ \A i \in Ids : i # id => firings'[i] = firings[i] /\ lateFirings'[i] = lateFirings[i]
    BY <1>3 DEF TimerTypes
  <1>7. \A i \in Ids : Due(i)' = Due(i)
    BY <1>5, <1>6 DEF Due
  <1>8. \A i : InSet(i)' <=> InSet(i)
    BY <1>3 DEF InSet
  <1>9. IdsUnique'
    BY <1>3 DEF RunsInv, IdsUnique
  <1>10. RegFresh'
    <2>1. PICK z \in inserted : z.id = id
      BY <1>1, <1>2 DEF RunsInv, IdsUnique
    <2>2. \A i \in Ids : (\A y \in inserted' : y.id # i) =>
            firings'[i] = 0 /\ lateFirings'[i] = 0 /\ i \notin cancelled'
      BY <1>3, <1>6, <2>1 DEF RunsInv, RegFresh
    <2>3. QED
      BY <1>3, <2>2 DEF RunsInv, RegFresh
  <1>11. ASSUME NEW y \in inserted PROVE Counted(y)'
    <2>1. y.id \in Ids
      BY DEF TimerTypes, TimerInfo
    <2>2. CASE y.id # id
      BY <1>3, <1>5, <1>6, <1>8, <2>1, <2>2 DEF RunsInv, Counted
    <2>3. CASE y.id = id
      <3>1. ~y.recurring => ~InSet(id) /\ firings[id] = 0 /\ id \notin cancelled /\ lateFirings[id] = 0
        BY <1>1, <1>2, <1>5, <2>3 DEF RunsInv, Counted
      <3>2. y.recurring => lateFirings[id] = 0
        BY <1>5, <1>6, <2>3 DEF RunsInv, Counted
      <3>3. id \in cancelled => ~InSet(id)
        BY <2>3 DEF RunsInv, Counted
      <3>4. QED
        BY <1>3, <1>5, <1>6, <1>8, <2>3, <3>1, <3>2, <3>3 DEF Counted
    <2>4. QED
      BY <2>2, <2>3
  <1>12. ASSUME NEW y \in inserted PROVE Paced(y)'
    <2>1. Due(y.id)' = Due(y.id)
      BY <1>7 DEF TimerTypes, TimerInfo
    <2>2. QED
      BY <1>3, <2>1 DEF RunsInv, Paced
  <1>13. QED
    BY <1>3, <1>9, <1>10, <1>11, <1>12 DEF RunsInv

(* handleTimerEvents: an expired timer has one more run to come, and the      *)
(* interval for it has passed.                                             *)
LEMMA RunsHandle ==
  ASSUME TimerTypes, RunsInv, TimerTypes', handleTimerEvents
  PROVE  RunsInv'
  <1>1. /\ running = {} /\ running' = Expired /\ rpc = "lock" /\ rpc' = "callbacks"
        /\ timers_' = InsertAll(timers_ \ Expired, recurring_timers)
        /\ UNCHANGED <<now, next_timer_id_, reg, handlerNow, inserted, cancelled, firings,
                       lateFirings>>
    BY DEF handleTimerEvents, TimerTypes, historyVars
  <1>2. Pending = {} /\ Pending' = Expired /\ Expired \subseteq timers_
    BY <1>1 DEF Pending, Expired
  <1>3. \A x \in timers_' :
          \/ x \in timers_ /\ ~(x.expiration <= handlerNow)
          \/ \E t \in timers_ : t.expiration <= handlerNow /\ t.recurring /\ x = Renewed(t)
    BY <1>1, InsertAllIs
  <1>4. \A x \in timers_' : \E t \in timers_ :
          /\ t.id = x.id /\ t.interval = x.interval /\ t.recurring = x.recurring
          /\ \/ x = t /\ t \notin Expired
             \/ t \in Expired /\ t.recurring /\ x = Renewed(t)
    BY <1>3, RenewedIs DEF Expired, TimerTypes
  <1>5. \A i : ~Waits(i)
    BY <1>2 DEF Waits
  <1>6. \A i : Waits(i)' <=> \E t \in Expired : t.id = i
    BY <1>2 DEF Waits
  <1>7. \A i : InSet(i)' => InSet(i)
    BY <1>4 DEF InSet
  <1>8. IdsUnique'
    <2>1. \A s, t \in timers_' : s.id = t.id => s = t
      BY <1>4 DEF RunsInv, IdsUnique
    <2>2. \A s, t \in running' : s.id = t.id => s = t
      BY <1>1, <1>2 DEF RunsInv, IdsUnique
    <2>3. \A s \in timers_' \cup running' : \E y \in inserted :
            y.id = s.id /\ y.interval = s.interval /\ y.recurring = s.recurring
      <3> SUFFICES ASSUME NEW s \in timers_' \cup running'
                   PROVE  \E y \in inserted :
                            y.id = s.id /\ y.interval = s.interval /\ y.recurring = s.recurring
        OBVIOUS
      <3>1. PICK t \in timers_ : t.id = s.id /\ t.interval = s.interval /\ t.recurring = s.recurring
        BY <1>1, <1>2, <1>4
      <3>2. QED
        BY <3>1 DEF RunsInv, IdsUnique
    <2>4. QED
      BY <1>1, <2>1, <2>2, <2>3 DEF RunsInv, IdsUnique
  <1>9. RegFresh'
    BY <1>1 DEF RunsInv, RegFresh
  <1>10. ASSUME NEW y \in inserted PROVE Counted(y)'
    <2>1. y.id \in cancelled => ~InSet(y.id)'
      BY <1>7 DEF RunsInv, Counted
    <2>2. Waits(y.id)' => InSet(y.id)
      BY <1>2, <1>6 DEF InSet
    <2>3. ASSUME ~y.recurring, InSet(y.id)'
          PROVE  firings[y.id] = 0 /\ \A t \in Expired : t.id # y.id
      <3>1. PICK x \in timers_' : x.id = y.id
        BY <2>3 DEF InSet
      <3>2. PICK t \in timers_ : /\ t.id = x.id
                                 /\ \/ x = t /\ t \notin Expired
                                    \/ t \in Expired /\ t.recurring
        BY <1>4
      <3>3. t.recurring = y.recurring
        BY <3>1, <3>2 DEF RunsInv, IdsUnique
      <3>4. t \notin Expired
        BY <2>3, <3>2, <3>3
      <3>5. \A u \in Expired : u.id # y.id
        BY <1>2, <3>1, <3>2, <3>4 DEF RunsInv, IdsUnique
      <3>6. QED
        BY <1>7, <2>3, <3>5 DEF RunsInv, Counted
    <2>4. QED
      BY <1>1, <2>1, <2>2, <2>3 DEF RunsInv, Counted
  <1>11. ASSUME NEW y \in inserted PROVE Paced(y)'
    <2>1. PICK f \in Nat, i \in Nat, e \in Nat :
            f = firings[y.id] /\ i = y.interval /\ e = y.expiration /\ y.id \in Ids
      BY TimerNumbers DEF TimerTypes
    <2>2. Due(y.id) = f
      BY <1>5, <2>1 DEF Due
    <2>3. PICK k \in Nat : k = f * i /\ (f + 1) * i = k + i
      BY <2>1
    <2>4. /\ e - i >= 0 /\ k <= now - (e - i) /\ now \in Nat /\ handlerNow \in Nat /\ handlerNow <= now
          /\ \A t \in timers_ : t.id = y.id => k <= (t.expiration - i) - (e - i)
      BY <2>1, <2>2, <2>3 DEF RunsInv, Paced, TimerTypes
    <2>5. CASE \A t \in Expired : t.id # y.id
      <3>1. Due(y.id)' = f
        BY <1>1, <1>6, <2>1, <2>5 DEF Due
      <3>2. \A x \in timers_' : x.id = y.id => x \in timers_
        BY <1>4, <2>5
      <3>3. QED
        BY <1>1, <2>1, <2>3, <2>4, <3>1, <3>2 DEF Paced
    <2>6. CASE \E t \in Expired : t.id = y.id
      <3>1. PICK t \in Expired : t.id = y.id
        BY <2>6
      <3>2. Due(y.id)' = f + 1
        BY <1>1, <1>6, <2>1, <2>6 DEF Due
      <3>3. t \in timers_ /\ t.expiration \in Nat /\ t.expiration <= handlerNow
        BY <3>1 DEF Expired, TimerTypes, TimerInfo
      <3>4. t.interval = i
        BY <2>1, <3>1, <3>3 DEF RunsInv, IdsUnique
      <3>5. k + i <= handlerNow - (e - i)
        BY <2>1, <2>3, <2>4, <3>1, <3>3
      <3>6. ASSUME NEW x \in timers_', x.id = y.id
            PROVE  x.expiration = handlerNow + i
        <4>1. PICK u \in timers_ : /\ u.id = x.id
                                   /\ \/ x = u /\ u \notin Expired
                                      \/ u \in Expired /\ u.recurring /\ x = Renewed(u)
          BY <1>4
        <4>2. u = t
          BY <3>1, <3>3, <3>6, <4>1 DEF RunsInv, IdsUnique
        <4>3. QED
          BY <3>1, <3>3, <3>4, <4>1, <4>2, RenewedIs DEF TimerTypes
      <3>7. \A x \in timers_' : x.id = y.id => k + i <= (x.expiration - i) - (e - i)
        BY <2>1, <2>3, <2>4, <3>5, <3>6
      <3>8. k + i <= now - (e - i)
        BY <2>1, <2>3, <2>4, <3>5
      <3>9. QED
        BY <1>1, <2>1, <2>3, <2>4, <3>2, <3>7, <3>8 DEF Paced
    <2>7. QED
      BY <2>5, <2>6
  <1>12. QED
    BY <1>1, <1>8, <1>9, <1>10, <1>11 DEF RunsInv

(* Every step keeps the invariant. *)
LEMMA RunsNext == TimerTypes /\ RunsInv /\ TimerTypes' /\ [Next]_vars => RunsInv'
  BY RunsQuiet, RunsRegister, RunsCancel, RunsStart, RunsHandle DEF Next, ReactorStep

(* For any intervals, any number of timers, late loops and any interleaving  *)
(* of registrations and cancellations: a one-shot timer runs at most once    *)
(* and not after its cancellation, a recurring one at most once after it,    *)
(* and none more often than its interval allows.                           *)
THEOREM TimersRunAsAsked == Spec => []RunsAsAsked
  <1>1. Init => RunsInv
    BY DEF Init, RunsInv, IdsUnique, RegFresh
  <1>2. QED
    BY TimerTypesInit, TimerTypesNext, RunsNext, RunsInvImplies, <1>1, PTL DEF Spec

-----------------------------------------------------------------------------
(* The wheel.                                                              *)

(* a timeout that the wheel can hold *)
FitsWheel == IdleTimeout \in 1..Capacity /\ Timeouts \subseteq 1..Capacity

WheelTypes ==
  /\ tick_ \in Slots
  /\ wheel_ \in [Slots -> SUBSET Tasks]
  /\ ids_ \in [WheelIds -> Tasks \cup {NoTask}]
  /\ task \in [Tasks -> TimerTask \cup {NoTask}]
  /\ age \in [Tasks -> Nat]

(* Steps until slot s is cleared *)
Dist(s) == IF s > tick_ THEN s - tick_ ELSE s - tick_ + Capacity

(* Steps that task n has left *)
Left(n) == task[n].timeout - age[n]

(* The pointers to a task: the last one is in the slot that is cleared when   *)
(* its timeout has passed, earlier ones before it.                         *)
Pointers ==
  /\ \A n \in Tasks, s \in Slots : n \in wheel_[s] => n \in Created /\ Dist(s) <= Left(n)
  /\ \A n \in Alive : \E s \in Slots : n \in wheel_[s] /\ Dist(s) = Left(n)
  /\ \A n \in Created : n \notin Alive => Left(n) = 0

(* an entry of ids_ stands for a task that exists and has this id *)
IdsMatch ==
  \A id \in WheelIds : HasTimerTask(id) => ids_[id] \in Alive /\ task[ids_[id]].id = id

WheelInv == WheelTypes /\ Pointers /\ IdsMatch

(* A pointer that is added is as far ahead as the timeout says. *)
LEMMA SlotAfterIs ==
  ASSUME WheelTypes, NEW T \in 1..Capacity
  PROVE  SlotAfter(T) \in Slots /\ Dist(SlotAfter(T)) = T
  <1>1. PICK p \in Nat \ {0}, t \in Nat : p = Capacity /\ t = tick_ /\ t < p /\ Slots = 0..(p - 1)
    BY TimerWheelAssumption DEF WheelTypes, Slots
  <1>2. T \in 1..p
    BY <1>1
  <1>3. (t + T) % p = IF t + T < p THEN t + T ELSE t + T - p
    <2>1. CASE t + T < p
      BY <1>1, <1>2, <2>1
    <2>2. CASE ~(t + T < p)
      <3>1. PICK r \in 0..(p - 1) : r = t + T - p
        BY <1>1, <1>2, <2>2
      <3>2. (r + p) % p = r
        BY <3>1
      <3>3. r + p = t + T
        BY <1>2, <3>1
      <3>4. QED
        BY <2>2, <3>1, <3>2, <3>3
    <2>3. QED
      BY <2>1, <2>2
  <1>4. SlotAfter(T) = (t + T) % p
    BY <1>1 DEF SlotAfter
  <1>5. QED
    BY <1>1, <1>2, <1>3, <1>4 DEF Dist

(* A Step brings every slot nearer by one, and clears the one that is reached. *)
LEMMA StepDist ==
  ASSUME WheelTypes, tick_' = (tick_ + 1) % Capacity
  PROVE  /\ tick_' \in Slots /\ Dist(tick_') = 1
         /\ \A s \in Slots : /\ Dist(s) \in 1..Capacity
                             /\ s # tick_' => Dist(s) > 1 /\ Dist(s)' = Dist(s) - 1
  <1>1. PICK p \in Nat \ {0}, t \in Nat : p = Capacity /\ t = tick_ /\ t < p /\ Slots = 0..(p - 1)
    BY TimerWheelAssumption DEF WheelTypes, Slots
  <1>2. 1 \in 1..Capacity /\ tick_' = SlotAfter(1)
    BY <1>1 DEF SlotAfter
  <1>3. tick_' \in Slots /\ Dist(tick_') = 1
    BY <1>2, SlotAfterIs
  <1>4. PICK u \in 0..(p - 1) : u = tick_' /\ u = (IF t + 1 = p THEN 0 ELSE t + 1)
    BY <1>1, <1>3 DEF Dist
  <1>5. ASSUME NEW s \in Slots
        PROVE  /\ Dist(s) \in 1..Capacity
               /\ s # tick_' => Dist(s) > 1 /\ Dist(s)' = Dist(s) - 1
    BY <1>1, <1>4 DEF Dist
  <1>6. QED
    BY <1>3, <1>5

(* The timeout of a task fits the wheel. *)
LEMMA TaskNumbers ==
  ASSUME FitsWheel, WheelTypes, NEW n \in Tasks, task[n] # NoTask
  PROVE  /\ task[n].timeout \in 1..Capacity /\ task[n].timeout \in Nat /\ age[n] \in Nat
         /\ task[n].id \in WheelIds /\ Left(n) \in Int
  <1>1. task[n] \in TimerTask /\ age[n] \in Nat
    BY DEF WheelTypes
  <1>2. task[n].timeout \in 1..Capacity /\ task[n].id \in WheelIds
    BY <1>1 DEF TimerTask, FitsWheel
  <1>3. QED
    BY <1>1, <1>2, TimerWheelAssumption DEF Left

(* A pointer to a new task, or a further one to a task that is alive. *)
LEMMA PushPtrPointers ==
  ASSUME FitsWheel, WheelTypes, Pointers, NEW n \in Tasks, NEW T \in 1..Capacity, PushPtr(n, T),
         tick_' = tick_, task' \in [Tasks -> TimerTask \cup {NoTask}],
         task'[n] # NoTask, task'[n].timeout = T, \A m \in Tasks : m # n => task'[m] = task[m],
         task[n] # NoTask => task[n].timeout = T
  PROVE  /\ Pointers' /\ Alive' = Alive \cup {n}
         /\ wheel_' \in [Slots -> SUBSET Tasks] /\ age' \in [Tasks -> Nat]
  <1>1. PICK a \in Slots : a = SlotAfter(T) /\ Dist(a) = T
    BY SlotAfterIs
  <1>2. wheel_' = [wheel_ EXCEPT ![a] = @ \cup {n}] /\ age' = [age EXCEPT ![n] = 0]
    BY <1>1 DEF PushPtr
  <1>3. /\ wheel_' \in [Slots -> SUBSET Tasks] /\ age' \in [Tasks -> Nat]
        /\ \A s \in Slots : wheel_'[s] = IF s = a THEN wheel_[s] \cup {n} ELSE wheel_[s]
        /\ age'[n] = 0 /\ \A m \in Tasks : m # n => age'[m] = age[m]
    BY <1>2 DEF WheelTypes
  <1>4. Alive' = Alive \cup {n}
    BY <1>1, <1>3 DEF Alive
  <1>5. \A s : Dist(s)' = Dist(s)
    BY DEF Dist
  <1>6. Left(n)' = T /\ T \in Nat /\ \A m \in Tasks : m # n => Left(m)' = Left(m)
    BY <1>3, TimerWheelAssumption DEF Left
  <1>7. \A m \in Tasks : m # n => (m \in Created' <=> m \in Created)
    BY DEF Created
  <1>8. n \in Created'
    BY DEF Created
  <1>9. \A s \in Slots : n \in wheel_[s] => Dist(s) <= T
    <2> SUFFICES ASSUME NEW s \in Slots, n \in wheel_[s] PROVE Dist(s) <= T
      OBVIOUS
    <2>1. task[n] # NoTask /\ Dist(s) <= Left(n)
      BY DEF Pointers, Created
    <2>2. Left(n) = T - age[n] /\ age[n] \in Nat /\ Dist(s) \in Int
      BY <2>1, TimerWheelAssumption DEF Left, WheelTypes, Dist, Slots
    <2>3. QED
      BY <2>1, <2>2, <1>6
  <1>10. ASSUME NEW m \in Tasks, NEW s \in Slots, m \in wheel_'[s]
         PROVE  m \in Created' /\ Dist(s)' <= Left(m)'
    BY <1>1, <1>3, <1>5, <1>6, <1>7, <1>8, <1>9, <1>10 DEF Pointers
  <1>11. ASSUME NEW m \in Alive'
         PROVE  \E s \in Slots : m \in wheel_'[s] /\ Dist(s)' = Left(m)'
    <2>1. CASE m = n
      BY <1>1, <1>3, <1>5, <1>6, <2>1
    <2>2. CASE m # n
      <3>1. m \in Alive /\ m \in Tasks
        BY <1>4, <2>2 DEF Alive, WheelTypes
      <3>2. PICK s \in Slots : m \in wheel_[s] /\ Dist(s) = Left(m)
        BY <3>1 DEF Pointers
      <3>3. QED
        BY <1>3, <1>5, <1>6, <2>2, <3>1, <3>2
    <2>3. QED
      BY <2>1, <2>2
  <1>12. \A m \in Created' : m \notin Alive' => Left(m)' = 0
    BY <1>4, <1>6, <1>7 DEF Pointers, Created
  <1>13. QED
    BY <1>3, <1>4, <1>10, <1>11, <1>12 DEF Pointers

(* A task that is alive exists, and its timeout has not passed. *)
LEMMA AliveIs ==
  ASSUME FitsWheel, WheelTypes, Pointers, NEW n \in Alive
  PROVE  n \in Tasks /\ n \in Created /\ task[n] # NoTask /\ Left(n) >= 1
  <1>1. PICK s \in Slots : n \in wheel_[s] /\ Dist(s) = Left(n)
    BY DEF Pointers
  <1>2. n \in Tasks
    BY <1>1 DEF WheelTypes
  <1>3. n \in Created /\ task[n] # NoTask
    BY <1>1, <1>2 DEF Pointers, Created
  <1>4. Dist(s) >= 1
    BY <1>1, TimerWheelAssumption DEF WheelTypes, Slots, Dist
  <1>5. QED
    BY <1>1, <1>2, <1>3, <1>4

(* A new task. *)
LEMMA AddTaskInv ==
  ASSUME FitsWheel, WheelInv, NEW id \in WheelIds, NEW o \in WheelIds \cup {Server},
         NEW T \in Timeouts \cup {IdleTimeout}, AddTimerTaskInLoop(id, o, T)
  PROVE  /\ WheelInv'
         /\ \E n \in Tasks :
              /\ task[n] = NoTask /\ n \notin Alive /\ Alive' = Alive \cup {n}
              /\ ids_' = [ids_ EXCEPT ![id] = n]
              /\ task' = [task EXCEPT ![n] = [id |-> id, owner |-> o, timeout |-> T,
                                              is_cancel_ |-> FALSE]]
  <1>1. PICK n \in Tasks :
          /\ Created = 1..(n - 1)
          /\ task' = [task EXCEPT ![n] = [id |-> id, owner |-> o, timeout |-> T,
                                          is_cancel_ |-> FALSE]]
          /\ ids_' = [ids_ EXCEPT ![id] = n]
          /\ PushPtr(n, T) /\ tick_' = tick_
    BY DEF AddTimerTaskInLoop
  <1>2. PICK new : new = [id |-> id, owner |-> o, timeout |-> T, is_cancel_ |-> FALSE]
    OBVIOUS
  <1>3. new \in TimerTask /\ new # NoTask /\ new.timeout = T /\ new.id = id
    <2>1. new \in TimerTask
      BY <1>2 DEF TimerTask
    <2>2. new.timeout = T /\ new.id = id
      BY <1>2
    <2>3. QED
      BY <2>1, <2>2, NoTaskAssumption
  <1>4. n \notin Created /\ task[n] = NoTask
    BY <1>1, TimerWheelAssumption DEF Created, Tasks
  <1>5. task' = [task EXCEPT ![n] = new]
    BY <1>1, <1>2
  <1>6. /\ task' \in [Tasks -> TimerTask \cup {NoTask}] /\ task'[n] = new
        /\ \A m \in Tasks : m # n => task'[m] = task[m]
    BY <1>3, <1>5 DEF WheelInv, WheelTypes
  <1>7. T \in 1..Capacity
    BY DEF FitsWheel
  <1>8. /\ Pointers' /\ Alive' = Alive \cup {n}
        /\ wheel_' \in [Slots -> SUBSET Tasks] /\ age' \in [Tasks -> Nat]
    BY <1>1, <1>3, <1>4, <1>6, <1>7, PushPtrPointers DEF WheelInv
  <1>9. n \notin Alive
    BY <1>4, AliveIs DEF WheelInv
  <1>10. /\ ids_' \in [WheelIds -> Tasks \cup {NoTask}] /\ ids_'[id] = n
         /\ \A i \in WheelIds : i # id => ids_'[i] = ids_[i]
    BY <1>1 DEF WheelInv, WheelTypes
  <1>11. IdsMatch'
    <2> SUFFICES ASSUME NEW i \in WheelIds, ids_'[i] # NoTask
                 PROVE  ids_'[i] \in Alive' /\ task'[ids_'[i]].id = i
      BY DEF IdsMatch, HasTimerTask
    <2>1. CASE i = id
      BY <1>3, <1>6, <1>8, <1>10, <2>1
    <2>2. CASE i # id
      <3>1. ids_[i] \in Alive /\ task[ids_[i]].id = i /\ ids_'[i] = ids_[i]
        BY <1>10, <2>2 DEF WheelInv, IdsMatch, HasTimerTask
      <3>2. ids_[i] \in Tasks /\ ids_[i] # n
        BY <1>9, <3>1, AliveIs DEF WheelInv
      <3>3. QED
        BY <1>6, <1>8, <3>1, <3>2
    <2>3. QED
      BY <2>1, <2>2
  <1>12. WheelInv'
    BY <1>1, <1>6, <1>8, <1>10, <1>11 DEF WheelInv, WheelTypes
  <1>13. QED
    BY <1>1, <1>4, <1>8, <1>9, <1>12

(* A refresh. *)
LEMMA RefreshInv ==
  ASSUME FitsWheel, WheelInv, NEW id \in WheelIds, RefreshTimerTaskInLoop(id)
  PROVE  WheelInv' /\ Alive' = Alive /\ UNCHANGED <<ids_, task>>
  <1>1. UNCHANGED <<tick_, ids_, task>>
    BY DEF RefreshTimerTaskInLoop
  <1>2. CASE ~HasTimerTask(id)
    <2>1. UNCHANGED <<wheel_, age>>
      BY <1>2 DEF RefreshTimerTaskInLoop
    <2>2. QED
      BY <1>1, <2>1 DEF WheelInv, WheelTypes, Pointers, IdsMatch, HasTimerTask, Alive, Created, Dist,
                        Left
  <1>3. CASE HasTimerTask(id)
    <2>1. PICK n \in Alive : n = ids_[id]
      BY <1>3 DEF WheelInv, IdsMatch
    <2>2. n \in Tasks /\ task[n] # NoTask /\ task[n].timeout \in 1..Capacity
      BY AliveIs, TaskNumbers DEF WheelInv
    <2>3. PushPtr(n, task[n].timeout)
      BY <1>3, <2>1 DEF RefreshTimerTaskInLoop
    <2>4. /\ Pointers' /\ Alive' = Alive \cup {n}
          /\ wheel_' \in [Slots -> SUBSET Tasks] /\ age' \in [Tasks -> Nat]
      BY <1>1, <2>2, <2>3, PushPtrPointers DEF WheelInv, WheelTypes
    <2>5. Alive' = Alive
      BY <2>4
    <2>6. QED
      BY <1>1, <2>4, <2>5 DEF WheelInv, WheelTypes, IdsMatch, HasTimerTask
  <1>4. QED
    BY <1>2, <1>3

(* A cancellation. *)
LEMMA CancelTaskInv ==
  ASSUME FitsWheel, WheelInv, NEW id \in WheelIds, CancelTimerTaskInLoop(id)
  PROVE  /\ WheelInv' /\ Alive' = Alive /\ UNCHANGED ids_
         /\ \A n \in Tasks : /\ task'[n] = NoTask <=> task[n] = NoTask
                             /\ n # ids_[id] => task'[n] = task[n]
         /\ \A n \in Created : task'[n].id = task[n].id /\ task'[n].owner = task[n].owner
         /\ HasTimerTask(id) => task'[ids_[id]].is_cancel_
  <1>1. UNCHANGED <<tick_, wheel_, ids_, age>>
    BY DEF CancelTimerTaskInLoop
  <1>2. Alive' = Alive
    BY <1>1 DEF Alive
  <1>3. CASE ~HasTimerTask(id)
    <2>1. task' = task
      BY <1>3 DEF CancelTimerTaskInLoop
    <2>2. QED
      BY <1>1, <1>2, <1>3, <2>1 DEF WheelInv, WheelTypes, Pointers, IdsMatch, HasTimerTask, Alive,
                                    Created, Dist, Left
  <1>4. CASE HasTimerTask(id)
    <2>1. PICK n \in Alive : n = ids_[id]
      BY <1>4 DEF WheelInv, IdsMatch
    <2>2. n \in Tasks /\ task[n] # NoTask /\ task[n] \in TimerTask
      BY AliveIs DEF WheelInv, WheelTypes
    <2>3. PICK new : new = [task[n] EXCEPT !.is_cancel_ = TRUE]
      OBVIOUS
    <2>4. /\ new \in TimerTask /\ new # NoTask /\ new.timeout = task[n].timeout
          /\ new.id = task[n].id /\ new.owner = task[n].owner /\ new.is_cancel_ = TRUE
      BY <2>2, <2>3, NoTaskAssumption DEF TimerTask
    <2>5. task' = [task EXCEPT ![n] = new]
      BY <1>4, <2>1, <2>3 DEF CancelTimerTaskInLoop
    <2>6. /\ task' \in [Tasks -> TimerTask \cup {NoTask}] /\ task'[n] = new
          /\ \A m \in Tasks : m # n => task'[m] = task[m]
      BY <2>2, <2>4, <2>5 DEF WheelInv, WheelTypes
    <2>7. /\ \A m \in Tasks : task'[m] = NoTask <=> task[m] = NoTask
          /\ \A m \in Tasks : task'[m].id = task[m].id /\ task'[m].owner = task[m].owner
                              /\ task'[m].timeout = task[m].timeout
      BY <2>2, <2>4, <2>6
    <2>8. Created' = Created /\ \A m \in Tasks : Left(m)' = Left(m)
      BY <1>1, <2>7 DEF Created, Left
    <2>9. \A s : Dist(s)' = Dist(s)
      BY <1>1 DEF Dist
    <2>10. Pointers'
      <3>1. \A m \in Alive : m \in Tasks
        BY AliveIs DEF WheelInv
      <3>2. QED
        BY <1>1, <1>2, <2>8, <2>9, <3>1 DEF WheelInv, Pointers, Created
    <2>11. IdsMatch'
      BY <1>1, <1>2, <2>7, AliveIs DEF WheelInv, IdsMatch, HasTimerTask
    <2>12. WheelInv'
      BY <1>1, <2>6, <2>10, <2>11 DEF WheelInv, WheelTypes
    <2>13. QED
      BY <1>1, <1>2, <2>1, <2>4, <2>6, <2>7, <2>12 DEF Created
  <1>5. QED
    BY <1>3, <1>4

(* Step: the tasks whose last pointer was in the slot that is cleared are     *)
(* those whose timeout has passed.                                         *)
LEMMA StepInv ==
  ASSUME FitsWheel, WheelInv, Step
  PROVE  /\ WheelInv' /\ Alive' \subseteq Alive
         /\ ids_' = [id \in WheelIds |-> IF \E n \in Alive \ Alive' : task[n].id = id
                                         THEN NoTask ELSE ids_[id]]
         /\ Callbacks(Alive \ Alive') /\ UNCHANGED task
  <1>1. /\ tick_' = (tick_ + 1) % Capacity /\ wheel_' = [wheel_ EXCEPT ![tick_'] = {}]
        /\ task' = task
        /\ age' = [n \in Tasks |-> IF n \in Alive THEN age[n] + 1 ELSE age[n]]
    BY DEF Step
  <1>2. /\ tick_' \in Slots /\ Dist(tick_') = 1
        /\ \A s \in Slots : /\ Dist(s) \in 1..Capacity
                            /\ s # tick_' => Dist(s) > 1 /\ Dist(s)' = Dist(s) - 1
    BY <1>1, StepDist DEF WheelInv
  <1>3. /\ wheel_' \in [Slots -> SUBSET Tasks] /\ age' \in [Tasks -> Nat]
        /\ \A s \in Slots : wheel_'[s] = IF s = tick_' THEN {} ELSE wheel_[s]
    BY <1>1, <1>2 DEF WheelInv, WheelTypes
  <1>4. Alive' \subseteq Alive
    BY <1>3 DEF Alive
  <1>5. /\ ids_' = [id \in WheelIds |-> IF \E n \in Alive \ Alive' : task[n].id = id
                                        THEN NoTask ELSE ids_[id]]
        /\ Callbacks(Alive \ Alive')
    BY DEF Step, ReleaseTimerTaskInLoop, Alive
  <1>6. \A n \in Alive : n \in Tasks /\ task[n] # NoTask /\ Left(n) >= 1 /\ Left(n) \in Int
    BY AliveIs, TaskNumbers DEF WheelInv
  <1>7. \A n \in Alive : Left(n)' = Left(n) - 1
    <2> SUFFICES ASSUME NEW n \in Alive PROVE Left(n)' = Left(n) - 1
      OBVIOUS
    <2>1. n \in Tasks /\ age'[n] = age[n] + 1
      BY <1>1, <1>6
    <2>2. task[n].timeout \in Nat /\ age[n] \in Nat
      BY <1>6, TaskNumbers DEF WheelInv
    <2>3. QED
      BY <1>1, <2>1, <2>2 DEF Left
  <1>8. \A n \in Alive : IF Left(n) = 1 THEN n \notin Alive' ELSE n \in Alive'
    <2> SUFFICES ASSUME NEW n \in Alive PROVE IF Left(n) = 1 THEN n \notin Alive' ELSE n \in Alive'
      OBVIOUS
    <2>1. PICK s \in Slots : n \in wheel_[s] /\ Dist(s) = Left(n)
      BY DEF WheelInv, Pointers
    <2>2. CASE Left(n) # 1
      <3>1. s # tick_'
        BY <1>2, <2>1, <2>2
      <3>2. n \in wheel_'[s]
        BY <1>3, <2>1, <3>1
      <3>3. QED
        BY <2>2, <3>2 DEF Alive
    <2>3. CASE Left(n) = 1
      <3>1. \A u \in Slots : n \in wheel_[u] => u = tick_'
        BY <1>2, <1>6, <2>3 DEF WheelInv, Pointers
      <3>2. n \notin Alive'
        BY <1>3, <3>1 DEF Alive
      <3>3. QED
        BY <2>3, <3>2
    <2>4. QED
      BY <2>2, <2>3
  <1>9. \A n \in Tasks : n \notin Alive => Left(n)' = Left(n)
    BY <1>1 DEF Left
  <1>10. Created' = Created
    BY <1>1 DEF Created
  <1>11. Pointers'
    <2>1. ASSUME NEW n \in Tasks, NEW s \in Slots, n \in wheel_'[s]
          PROVE  n \in Created' /\ Dist(s)' <= Left(n)'
      <3>1. s # tick_' /\ n \in wheel_[s] /\ n \in Alive
        BY <1>3, <2>1 DEF Alive
      <3>2. n \in Created /\ Dist(s) <= Left(n) /\ Left(n) \in Int
        BY <1>6, <3>1 DEF WheelInv, Pointers
      <3>3. Dist(s)' = Dist(s) - 1 /\ Left(n)' = Left(n) - 1 /\ Dist(s) \in Int
        BY <1>2, <1>7, <3>1
      <3>4. QED
        BY <1>10, <3>2, <3>3
    <2>2. ASSUME NEW n \in Alive'
          PROVE  \E s \in Slots : n \in wheel_'[s] /\ Dist(s)' = Left(n)'
      <3>1. n \in Alive /\ Left(n) # 1
        BY <1>4, <1>8
      <3>2. PICK s \in Slots : n \in wheel_[s] /\ Dist(s) = Left(n)
        BY <3>1 DEF WheelInv, Pointers
      <3>3. s # tick_'
        BY <1>2, <3>1, <3>2
      <3>4. QED
        BY <1>2, <1>3, <1>7, <3>1, <3>2, <3>3
    <2>3. ASSUME NEW n \in Created', n \notin Alive'
          PROVE  Left(n)' = 0
      <3>1. n \in Tasks /\ n \in Created
        BY <1>10 DEF Created
      <3>2. CASE n \in Alive
        <4>1. Left(n) = 1 /\ Left(n)' = Left(n) - 1
          BY <1>7, <1>8, <2>3, <3>2
        <4>2. QED
          BY <4>1
      <3>3. CASE n \notin Alive
        BY <1>9, <3>1, <3>3 DEF WheelInv, Pointers
      <3>4. QED
        BY <3>2, <3>3
    <2>4. QED
      BY <2>1, <2>2, <2>3 DEF Pointers
  <1>12. ids_' \in [WheelIds -> Tasks \cup {NoTask}]
    BY <1>5 DEF WheelInv, WheelTypes
  <1>13. IdsMatch'
    <2> SUFFICES ASSUME NEW id \in WheelIds, ids_'[id] # NoTask
                 PROVE  ids_'[id] \in Alive' /\ task[ids_'[id]].id = id
      BY <1>1 DEF IdsMatch, HasTimerTask
    <2>1. ids_'[id] = ids_[id] /\ ~\E n \in Alive \ Alive' : task[n].id = id
      BY <1>5
    <2>2. QED
      BY <2>1 DEF WheelInv, IdsMatch, HasTimerTask
  <1>14. QED
    BY <1>1, <1>2, <1>3, <1>4, <1>5, <1>11, <1>12, <1>13 DEF WheelInv, WheelTypes

(* What the users of the wheel keep. *)
UserTypes ==
  /\ mode \in Modes
  /\ conn \in [WheelIds -> {"none", "open", "releasing", "closed"}]
  /\ enable \subseteq WheelIds
  /\ next_timerid_ \in 0..MaxIds

(* the wheel is idle, or runs one of its operations *)
WheelIdle == UNCHANGED <<wheelVars, age>>

(* A step that leaves the wheel alone. *)
LEMMA WheelIdleInv ==
  ASSUME WheelInv, WheelIdle
  PROVE  WheelInv' /\ Alive' = Alive
  BY DEF WheelInv, WheelIdle, wheelVars, WheelTypes, Pointers, IdsMatch, HasTimerTask, Alive, Created,
         Dist, Left

(* Enabling the release of a connection. *)
LEMMA EnableInv ==
  ASSUME FitsWheel, WheelInv, NEW c \in WheelIds, EnableInactiveReleaseInLoop(c)
  PROVE  WheelInv'
  <1>1. CASE HasTimerTask(c)
    BY <1>1, RefreshInv DEF EnableInactiveReleaseInLoop
  <1>2. CASE ~HasTimerTask(c)
    <2>1. AddTimerTaskInLoop(c, c, IdleTimeout)
      BY <1>2 DEF EnableInactiveReleaseInLoop
    <2>2. QED
      BY <2>1, AddTaskInv
  <1>3. QED
    BY <1>1, <1>2

(* The next id of a timer of the server. *)
LEMMA NextTimerId ==
  ASSUME UserTypes, NEW T \in Timeouts, AddTimerTask(T)
  PROVE  /\ next_timerid_' \in WheelIds /\ next_timerid_' \in 0..MaxIds
         /\ next_timerid_' = next_timerid_ + 1
  BY TimerWheelAssumption DEF UserTypes, AddTimerTask, WheelIds

(* The types of the users' state. *)
LEMMA UserTypesNext ==
  ASSUME UserTypes, [WheelNext]_timerWheelVars
  PROVE  UserTypes'
  <1>1. CASE Second \/ Ontime \/ UNCHANGED timerWheelVars
    BY <1>1 DEF UserTypes, Second, Ontime, timerWheelVars, userVars
  <1>2. CASE Step
    BY <1>2 DEF UserTypes, Step, Callbacks
  <1>3. ASSUME NEW c \in WheelIds,
               \/ NewConnection(c) \/ AnyHandler(c) \/ ReleaseInLoop(c)
               \/ EnableInactiveRelease(c) \/ DisableInactiveRelease(c)
        PROVE  UserTypes'
    BY <1>3 DEF UserTypes, NewConnection, AnyHandler, ReleaseInLoop, EnableInactiveRelease,
                DisableInactiveRelease, EnableInactiveReleaseInLoop, DisableInactiveReleaseInLoop,
                userVars
  <1>4. ASSUME NEW T \in Timeouts, AddTimerTask(T) PROVE UserTypes'
    BY <1>4, NextTimerId DEF UserTypes, AddTimerTask
  <1>5. QED
    BY <1>1, <1>2, <1>3, <1>4 DEF WheelNext

(* Every step keeps the pointers of the wheel and its map of ids. *)
LEMMA WheelInvNext ==
  ASSUME FitsWheel, UserTypes, WheelInv, [WheelNext]_timerWheelVars
  PROVE  WheelInv'
  <1>1. CASE Second \/ Ontime \/ UNCHANGED timerWheelVars
    <2>1. WheelIdle
      BY <1>1 DEF Second, Ontime, timerWheelVars, WheelIdle
    <2>2. QED
      BY <2>1, WheelIdleInv
  <1>2. CASE Step
    BY <1>2, StepInv
  <1>3. ASSUME NEW c \in WheelIds, NewConnection(c) \/ EnableInactiveRelease(c) PROVE WheelInv'
    BY <1>3, EnableInv DEF NewConnection, EnableInactiveRelease
  <1>4. ASSUME NEW c \in WheelIds, AnyHandler(c) PROVE WheelInv'
    BY <1>4, RefreshInv DEF AnyHandler
  <1>5. ASSUME NEW c \in WheelIds, DisableInactiveRelease(c) PROVE WheelInv'
    BY <1>5, CancelTaskInv DEF DisableInactiveRelease, DisableInactiveReleaseInLoop
  <1>6. ASSUME NEW c \in WheelIds, ReleaseInLoop(c) PROVE WheelInv'
    <2>1. CASE HasTimerTask(c)
      BY <1>6, <2>1, CancelTaskInv DEF ReleaseInLoop, DisableInactiveReleaseInLoop
    <2>2. CASE ~HasTimerTask(c)
      <3>1. WheelIdle
        BY <1>6, <2>2 DEF ReleaseInLoop, WheelIdle
      <3>2. QED
        BY <3>1, WheelIdleInv
    <2>3. QED
      BY <2>1, <2>2
  <1>7. ASSUME NEW T \in Timeouts, AddTimerTask(T) PROVE WheelInv'
    <2>1. PICK id \in WheelIds : id = next_timerid_'
      BY <1>7, NextTimerId
    <2>2. AddTimerTaskInLoop(id, Server, T)
      BY <1>7, <2>1 DEF AddTimerTask
    <2>3. QED
      BY <2>2, AddTaskInv
  <1>8. QED
    BY <1>1, <1>2, <1>3, <1>4, <1>5, <1>6, <1>7 DEF WheelNext

(* The empty wheel. *)
LEMMA WheelInvInit ==
  ASSUME WheelInit
  PROVE  WheelInv /\ UserTypes
  <1>1. WheelTypes
    BY TimerWheelAssumption DEF WheelInit, WheelTypes, Slots
  <1>2. Alive = {} /\ Created = {}
    BY DEF WheelInit, Alive, Created
  <1>3. Pointers
    BY <1>2 DEF WheelInit, Pointers
  <1>4. IdsMatch
    BY DEF WheelInit, IdsMatch, HasTimerTask
  <1>5. UserTypes
    BY TimerWheelAssumption DEF WheelInit, UserTypes
  <1>6. QED
    BY <1>1, <1>3, <1>4, <1>5 DEF WheelInv

(* What is left of a task's timeout tells whether it is alive. *)
LEMMA WheelInvImplies ==
  ASSUME FitsWheel, WheelInv
  PROVE  FiresOnTime
  <1>1. WeakNotDangling
    BY DEF WheelInv, IdsMatch, WeakNotDangling
  <1>2. ASSUME NEW n \in Created
        PROVE  IF n \in Alive THEN age[n] < task[n].timeout ELSE age[n] = task[n].timeout
    <2>1. n \in Tasks /\ task[n] # NoTask
      BY DEF Created
    <2>2. task[n].timeout \in Nat /\ age[n] \in Nat
      BY <2>1, TaskNumbers DEF WheelInv
    <2>3. CASE n \in Alive
      <3>1. task[n].timeout - age[n] >= 1
        BY <2>3, AliveIs DEF WheelInv, Left
      <3>2. QED
        BY <2>2, <2>3, <3>1
    <2>4. CASE n \notin Alive
      <3>1. task[n].timeout - age[n] = 0
        BY <2>4 DEF WheelInv, Pointers, Left
      <3>2. QED
        BY <2>2, <2>4, <3>1
    <2>5. QED
      BY <2>3, <2>4
  <1>3. QED
    BY <1>1, <1>2 DEF FiresOnTime

(* A task of the timer wheel (server.hpp:640-742) is destroyed exactly when its *)
(* timeout has passed since it was added or last refreshed, and an entry of the *)
(* map of ids always stands for a task that exists, whoever shares the wheel    *)
(* and however long the timeouts are, as long as they fit the wheel.           *)
THEOREM WheelFiresOnTime ==
  ASSUME FitsWheel
  PROVE  WheelSpec => []FiresOnTime
  <1>1. WheelInv /\ UserTypes /\ [WheelNext]_timerWheelVars => (WheelInv /\ UserTypes)'
    BY WheelInvNext, UserTypesNext
  <1>2. WheelInv => FiresOnTime
    BY WheelInvImplies
  <1>3. QED
    BY <1>1, <1>2, WheelInvInit, PTL DEF WheelSpec

-----------------------------------------------------------------------------
(* The users of the wheel.                                                 *)

(* task n was cancelled *)
Cancelled(n) == task[n].is_cancel_

(* a task that is alive is the one its id stands for *)
Known == \A n \in Alive : ids_[task[n].id] = n

(* The wheel of the base loop holds the server's timers only. *)
BaseWheel ==
  mode = "base" =>
    /\ \A c \in WheelIds : conn[c] = "none"
    /\ enable = {}
    /\ \A n \in Created : task[n].owner = Server /\ task[n].id <= next_timerid_

(* The wheel of another loop holds the tasks of its connections only. *)
SubWheel ==
  mode = "sub" =>
    /\ \A n \in Created : task[n].owner = task[n].id
    /\ \A c \in WheelIds : conn[c] = "none" => ids_[c] = NoTask

(* the task of a connection whose release is enabled will run, that of a      *)
(* closed one will not                                                     *)
Armed ==
  /\ \A c \in WheelIds : c \in enable /\ conn[c] = "open" => HasTimerTask(c) /\ ~Cancelled(ids_[c])
  /\ \A c \in WheelIds : conn[c] = "closed" /\ HasTimerTask(c) => Cancelled(ids_[c])

(* The inductive invariant of the users. *)
UserInv == mode # "single" /\ Known /\ BaseWheel /\ SubWheel /\ Armed

(* A step that the users do not see. *)
LEMMA UserFrame ==
  ASSUME UserInv, Alive' = Alive, UNCHANGED <<mode, ids_, task, conn, enable, next_timerid_>>
  PROVE  UserInv'
  <1>1. Created' = Created
    BY DEF Created
  <1>2. QED
    BY <1>1 DEF UserInv, Known, BaseWheel, SubWheel, Armed, Cancelled, HasTimerTask

(* In the wheel of the base loop no connection does anything. *)
LEMMA ConnIsSub ==
  ASSUME UserTypes, UserInv, "single" \notin Modes, NEW c \in WheelIds, conn[c] # "none" \/ mode # "base"
  PROVE  mode = "sub"
  BY TimerWheelAssumption DEF UserTypes, UserInv, BaseWheel

(* A new task of a connection, where it has none. *)
LEMMA AddForConn ==
  ASSUME FitsWheel, WheelInv, UserInv, mode = "sub", mode' = mode, NEW c \in WheelIds,
         ~HasTimerTask(c), conn[c] \in {"none", "open"},
         conn' = [conn EXCEPT ![c] = "open"], UserTypes, enable' = enable \cup {c},
         AddTimerTaskInLoop(c, c, IdleTimeout)
  PROVE  UserInv'
  <1>1. PICK n \in Tasks :
          /\ task[n] = NoTask /\ n \notin Alive /\ Alive' = Alive \cup {n}
          /\ ids_' = [ids_ EXCEPT ![c] = n]
          /\ task' = [task EXCEPT ![n] = [id |-> c, owner |-> c, timeout |-> IdleTimeout,
                                          is_cancel_ |-> FALSE]]
    BY AddTaskInv
  <1>2. /\ task'[n].id = c /\ task'[n].owner = c /\ ~Cancelled(n)'
        /\ \A m \in Tasks : m # n => task'[m] = task[m]
    BY <1>1 DEF WheelInv, WheelTypes, Cancelled
  <1>3. ids_'[c] = n /\ \A d \in WheelIds : d # c => ids_'[d] = ids_[d]
    BY <1>1 DEF WheelInv, WheelTypes
  <1>4. conn'[c] = "open" /\ \A d \in WheelIds : d # c => conn'[d] = conn[d]
    BY DEF UserTypes
  <1>5. \A m \in Alive : m \in Tasks /\ m # n /\ task[m] # NoTask /\ task[m].id \in WheelIds
    BY <1>1, AliveIs, TaskNumbers DEF WheelInv
  <1>6. \A m \in Alive : task[m].id # c
    BY <1>5, NoTaskAssumption DEF UserInv, Known, HasTimerTask
  <1>7. Known'
    BY <1>1, <1>2, <1>3, <1>5, <1>6 DEF UserInv, Known
  <1>8. n # NoTask
    BY NoTaskAssumption
  <1>9. SubWheel'
    <2>1. ASSUME NEW m \in Created' PROVE task'[m].owner = task'[m].id
      BY <1>2 DEF Created, UserInv, SubWheel
    <2>2. \A d \in WheelIds : conn'[d] = "none" => ids_'[d] = NoTask
      BY <1>3, <1>4 DEF UserInv, SubWheel
    <2>3. QED
      BY <2>1, <2>2 DEF SubWheel
  <1>10. ASSUME NEW d \in WheelIds, d # c, ids_[d] # NoTask
         PROVE  Cancelled(ids_[d])' <=> Cancelled(ids_[d])
    <2>1. ids_[d] \in Alive /\ ids_'[d] = ids_[d]
      BY <1>3, <1>10 DEF WheelInv, IdsMatch, HasTimerTask
    <2>2. task'[ids_[d]] = task[ids_[d]]
      BY <1>2, <1>5, <2>1
    <2>3. QED
      BY <2>1, <2>2 DEF Cancelled
  <1>11. Armed'
    <2>1. ASSUME NEW d \in WheelIds, d \in enable', conn'[d] = "open"
          PROVE  HasTimerTask(d)' /\ ~Cancelled(ids_[d])'
      <3>1. CASE d = c
        BY <1>2, <1>3, <1>8, <3>1 DEF HasTimerTask
      <3>2. CASE d # c
        <4>1. HasTimerTask(d) /\ ~Cancelled(ids_[d])
          BY <1>4, <2>1, <3>2 DEF UserInv, Armed
        <4>2. ids_'[d] # NoTask /\ ids_[d] # NoTask
          BY <1>3, <3>2, <4>1 DEF HasTimerTask
        <4>3. ~Cancelled(ids_[d])'
          BY <1>10, <3>2, <4>1, <4>2
        <4>4. QED
          BY <4>2, <4>3 DEF HasTimerTask
      <3>3. QED
        BY <3>1, <3>2
    <2>2. ASSUME NEW d \in WheelIds, conn'[d] = "closed", HasTimerTask(d)'
          PROVE  Cancelled(ids_[d])'
      <3>1. d # c /\ conn[d] = "closed"
        BY <1>4, <2>2
      <3>2. ids_[d] # NoTask
        BY <1>3, <2>2, <3>1 DEF HasTimerTask
      <3>3. Cancelled(ids_[d])
        BY <3>1, <3>2 DEF UserInv, Armed, HasTimerTask
      <3>4. QED
        BY <1>10, <3>1, <3>2, <3>3
    <2>3. QED
      BY <2>1, <2>2 DEF Armed
  <1>12. QED
    BY <1>7, <1>9, <1>11 DEF UserInv, BaseWheel

(* The task of a connection is cancelled, and its flag is reset. *)
LEMMA CancelForConn ==
  ASSUME FitsWheel, WheelInv, UserTypes, UserInv, mode = "sub", mode' = mode, NEW c \in WheelIds,
         conn[c] # "none", NEW st \in {conn[c], "closed"}, conn' = [conn EXCEPT ![c] = st],
         DisableInactiveReleaseInLoop(c)
  PROVE  UserInv'
  <1>1. enable' = enable \ {c} /\ CancelTimerTaskInLoop(c)
    BY DEF DisableInactiveReleaseInLoop
  <1>2. /\ WheelInv' /\ Alive' = Alive /\ UNCHANGED ids_
        /\ \A n \in Tasks : /\ task'[n] = NoTask <=> task[n] = NoTask
                            /\ n # ids_[c] => task'[n] = task[n]
        /\ \A n \in Created : task'[n].id = task[n].id /\ task'[n].owner = task[n].owner
        /\ HasTimerTask(c) => Cancelled(ids_[c])'
    BY <1>1, CancelTaskInv DEF Cancelled
  <1>3. Created' = Created /\ \A m \in Alive : m \in Created /\ m \in Tasks
    BY <1>2, AliveIs DEF Created, WheelInv
  <1>4. conn'[c] = st /\ st # "none" /\ \A d \in WheelIds : d # c => conn'[d] = conn[d]
    BY DEF UserTypes
  <1>5. Known'
    BY <1>2, <1>3 DEF UserInv, Known
  <1>6. SubWheel'
    BY <1>2, <1>3, <1>4 DEF UserInv, SubWheel
  <1>7. ASSUME NEW d \in WheelIds, d # c, HasTimerTask(d)
        PROVE  Cancelled(ids_[d])' <=> Cancelled(ids_[d])
    <2>1. ids_[d] \in Alive /\ task[ids_[d]].id = d
      BY <1>7 DEF WheelInv, IdsMatch
    <2>2. ids_[d] # ids_[c]
      <3>1. CASE HasTimerTask(c)
        BY <1>7, <2>1, <3>1 DEF WheelInv, IdsMatch
      <3>2. CASE ~HasTimerTask(c)
        BY <1>7, <3>2 DEF HasTimerTask
      <3>3. QED
        BY <3>1, <3>2
    <2>3. task'[ids_[d]] = task[ids_[d]]
      BY <1>2, <1>3, <2>1, <2>2
    <2>4. QED
      BY <1>2, <2>3 DEF Cancelled
  <1>8. HasTimerTask(c)' <=> HasTimerTask(c)
    BY <1>2 DEF HasTimerTask
  <1>9. \A d \in WheelIds : HasTimerTask(d)' <=> HasTimerTask(d)
    BY <1>2 DEF HasTimerTask
  <1>10. Armed'
    <2>1. ASSUME NEW d \in WheelIds, d \in enable', conn'[d] = "open"
          PROVE  HasTimerTask(d)' /\ ~Cancelled(ids_[d])'
      <3>1. d # c /\ d \in enable /\ conn[d] = "open"
        BY <1>1, <1>4, <2>1
      <3>2. HasTimerTask(d) /\ ~Cancelled(ids_[d])
        BY <3>1 DEF UserInv, Armed
      <3>3. QED
        BY <1>7, <1>9, <3>1, <3>2
    <2>2. ASSUME NEW d \in WheelIds, conn'[d] = "closed", HasTimerTask(d)'
          PROVE  Cancelled(ids_[d])'
      <3>1. CASE d = c
        BY <1>2, <1>8, <2>2, <3>1
      <3>2. CASE d # c
        <4>1. HasTimerTask(d) /\ conn[d] = "closed"
          BY <1>4, <1>9, <2>2, <3>2
        <4>2. Cancelled(ids_[d])
          BY <4>1 DEF UserInv, Armed
        <4>3. QED
          BY <1>7, <3>2, <4>1, <4>2
      <3>3. QED
        BY <3>1, <3>2
    <2>3. QED
      BY <2>1, <2>2 DEF Armed
  <1>11. QED
    BY <1>5, <1>6, <1>10 DEF UserInv, BaseWheel

(* A new timer of the server. *)
LEMMA AddForServer ==
  ASSUME FitsWheel, WheelInv, UserTypes, UserInv, mode = "base", NEW T \in Timeouts, AddTimerTask(T)
  PROVE  UserInv'
  <1>1. PICK id \in WheelIds : id = next_timerid_' /\ id = next_timerid_ + 1 /\ next_timerid_ \in Nat
    BY NextTimerId, TimerWheelAssumption DEF UserTypes
  <1>2. AddTimerTaskInLoop(id, Server, T) /\ UNCHANGED <<mode, conn, enable>>
    BY <1>1 DEF AddTimerTask
  <1>3. PICK n \in Tasks :
          /\ task[n] = NoTask /\ n \notin Alive /\ Alive' = Alive \cup {n}
          /\ ids_' = [ids_ EXCEPT ![id] = n]
          /\ task' = [task EXCEPT ![n] = [id |-> id, owner |-> Server, timeout |-> T,
                                          is_cancel_ |-> FALSE]]
    BY <1>2, AddTaskInv
  <1>4. /\ task'[n].id = id /\ task'[n].owner = Server
        /\ \A m \in Tasks : m # n => task'[m] = task[m]
    BY <1>3 DEF WheelInv, WheelTypes
  <1>5. ids_'[id] = n /\ \A d \in WheelIds : d # id => ids_'[d] = ids_[d]
    BY <1>3 DEF WheelInv, WheelTypes
  <1>6. \A m \in Alive : m \in Tasks /\ m # n /\ m \in Created /\ task[m].id \in WheelIds
    BY <1>3, AliveIs, TaskNumbers DEF WheelInv
  <1>7. \A m \in Created : task[m].owner = Server /\ task[m].id <= next_timerid_
    BY DEF UserInv, BaseWheel
  <1>8. \A m \in Alive : task[m].id # id
    BY <1>1, <1>6, <1>7
  <1>9. Known'
    BY <1>3, <1>4, <1>5, <1>6, <1>8 DEF UserInv, Known
  <1>10. ASSUME NEW m \in Created' PROVE task'[m].owner = Server /\ task'[m].id <= id
    <2>1. CASE m = n
      BY <1>1, <1>4, <2>1
    <2>2. CASE m # n
      <3>1. m \in Created /\ task'[m] = task[m] /\ task[m].id \in WheelIds
        BY <1>4, <2>2, TaskNumbers DEF Created, WheelInv
      <3>2. QED
        BY <1>1, <1>7, <3>1 DEF WheelIds
    <2>3. QED
      BY <2>1, <2>2
  <1>11. BaseWheel'
    BY <1>1, <1>2, <1>10 DEF UserInv, BaseWheel
  <1>12. \A c \in WheelIds : conn'[c] = "none"
    BY <1>2 DEF UserInv, BaseWheel
  <1>13. QED
    BY <1>2, <1>9, <1>11, <1>12 DEF UserInv, SubWheel, Armed

(* Step destroys the task of an open connection only to release it. *)
LEMMA StepUsers ==
  ASSUME FitsWheel, WheelInv, UserTypes, UserInv, "single" \notin Modes, Step
  PROVE  UserInv'
  <1>1. /\ Alive' \subseteq Alive /\ task' = task /\ Callbacks(Alive \ Alive')
        /\ ids_' = [id \in WheelIds |-> IF \E n \in Alive \ Alive' : task[n].id = id
                                        THEN NoTask ELSE ids_[id]]
    BY StepInv
  <1>2. UNCHANGED <<mode, enable, next_timerid_>>
    BY DEF Step
  <1>3. Created' = Created /\ \A n : Cancelled(n)' <=> Cancelled(n)
    BY <1>1 DEF Created, Cancelled
  <1>4. \A n \in Alive : n \in Created /\ task[n].id \in WheelIds
    BY AliveIs, TaskNumbers DEF WheelInv
  <1>5. ASSUME NEW n \in Alive' PROVE ids_'[task'[n].id] = n
    <2>1. ids_[task[n].id] = n
      BY <1>1 DEF UserInv, Known
    <2>2. ~\E m \in Alive \ Alive' : task[m].id = task[n].id
      BY <2>1 DEF UserInv, Known
    <2>3. QED
      BY <1>1, <1>4, <2>1, <2>2
  <1>6. Known'
    BY <1>5 DEF Known
  <1>7. \A c \in WheelIds : ids_'[c] # NoTask => ids_'[c] = ids_[c]
    BY <1>1
  <1>8. \A c \in WheelIds : conn[c] # "open" => conn'[c] = conn[c]
    BY <1>1 DEF Callbacks
  <1>9. \A c \in WheelIds : conn'[c] # conn[c] => conn'[c] = "releasing"
    BY <1>1 DEF Callbacks
  <1>10. BaseWheel'
    BY <1>1, <1>2, <1>3, <1>8 DEF UserInv, BaseWheel
  <1>11. SubWheel'
    BY <1>1, <1>2, <1>3, <1>7, <1>9 DEF UserInv, SubWheel
  <1>12. ASSUME NEW c \in WheelIds, c \in enable', conn'[c] = "open"
         PROVE  HasTimerTask(c)' /\ ~Cancelled(ids_[c])'
    <2>1. c \in enable /\ conn[c] = "open" /\ mode = "sub"
      BY <1>2, <1>9, <1>12, ConnIsSub
    <2>2. HasTimerTask(c) /\ ~Cancelled(ids_[c])
      BY <2>1 DEF UserInv, Armed
    <2>3. PICK n \in Alive : n = ids_[c] /\ task[n].id = c
      BY <2>2 DEF WheelInv, IdsMatch
    <2>4. task[n].owner = c /\ ~task[n].is_cancel_
      BY <1>4, <2>1, <2>2, <2>3 DEF UserInv, SubWheel, Cancelled
    <2>5. n \in Alive'
      BY <1>1, <1>12, <2>1, <2>4 DEF Callbacks
    <2>6. ~\E m \in Alive \ Alive' : task[m].id = c
      BY <2>3, <2>5 DEF UserInv, Known
    <2>7. ids_'[c] = ids_[c]
      BY <1>1, <2>6
    <2>8. QED
      BY <1>1, <2>2, <2>7 DEF HasTimerTask, Cancelled
  <1>13. ASSUME NEW c \in WheelIds, conn'[c] = "closed", HasTimerTask(c)'
         PROVE  Cancelled(ids_[c])'
    <2>1. conn[c] = "closed" /\ ids_'[c] = ids_[c] /\ ids_[c] # NoTask
      BY <1>7, <1>9, <1>13 DEF HasTimerTask
    <2>2. Cancelled(ids_[c])
      BY <2>1 DEF UserInv, Armed, HasTimerTask
    <2>3. QED
      BY <1>1, <2>1, <2>2 DEF Cancelled
  <1>14. Armed'
    BY <1>12, <1>13 DEF Armed
  <1>15. QED
    BY <1>2, <1>6, <1>10, <1>11, <1>14 DEF UserInv

(* Every step keeps the users' invariant. *)
LEMMA UserInvNext ==
  ASSUME FitsWheel, ~ReEnable, "single" \notin Modes, WheelInv, UserTypes, UserInv,
         [WheelNext]_timerWheelVars
  PROVE  UserInv'
  <1>1. CASE Second \/ Ontime \/ UNCHANGED timerWheelVars
    <2>1. WheelIdle /\ UNCHANGED <<mode, ids_, task, conn, enable, next_timerid_>>
      BY <1>1 DEF Second, Ontime, timerWheelVars, WheelIdle, userVars, wheelVars
    <2>2. QED
      BY <2>1, WheelIdleInv, UserFrame
  <1>2. CASE Step
    BY <1>2, StepUsers
  <1>3. ASSUME NEW c \in WheelIds, NewConnection(c) PROVE UserInv'
    <2>1. /\ mode # "base" /\ mode' = mode /\ conn' = [conn EXCEPT ![c] = "open"]
          /\ {d \in WheelIds : conn[d] # "none"} = 1..(c - 1) /\ EnableInactiveReleaseInLoop(c)
      BY <1>3 DEF NewConnection
    <2>2. conn[c] = "none"
      BY <2>1 DEF WheelIds
    <2>3. mode = "sub"
      BY <2>1, ConnIsSub
    <2>4. ~HasTimerTask(c)
      BY <2>2, <2>3 DEF UserInv, SubWheel, HasTimerTask
    <2>5. enable' = enable \cup {c} /\ AddTimerTaskInLoop(c, c, IdleTimeout)
      BY <2>1, <2>4 DEF EnableInactiveReleaseInLoop
    <2>6. QED
      BY <2>1, <2>2, <2>3, <2>4, <2>5, AddForConn
  <1>4. ASSUME NEW c \in WheelIds, AnyHandler(c) PROVE UserInv'
    <2>1. Alive' = Alive /\ UNCHANGED <<mode, ids_, task, conn, enable, next_timerid_>>
      BY <1>4, RefreshInv DEF AnyHandler, userVars
    <2>2. QED
      BY <2>1, UserFrame
  <1>5. ASSUME NEW c \in WheelIds, EnableInactiveRelease(c) PROVE UserInv'
    <2>1. /\ conn[c] = "open" /\ UNCHANGED <<mode, conn, next_timerid_>>
          /\ EnableInactiveReleaseInLoop(c) /\ enable' = enable \cup {c}
          /\ HasTimerTask(c) => ~Cancelled(ids_[c])
      BY <1>5 DEF EnableInactiveRelease, EnableInactiveReleaseInLoop, Cancelled
    <2>2. mode = "sub"
      BY <2>1, ConnIsSub
    <2>3. CASE HasTimerTask(c)
      <3>1. Alive' = Alive /\ UNCHANGED <<ids_, task>>
        BY <2>1, <2>3, RefreshInv DEF EnableInactiveReleaseInLoop
      <3>2. Created' = Created
        BY <3>1 DEF Created
      <3>3. Armed'
        BY <2>1, <2>3, <3>1 DEF UserInv, Armed, HasTimerTask, Cancelled
      <3>4. QED
        BY <2>1, <2>2, <3>1, <3>2, <3>3 DEF UserInv, Known, BaseWheel, SubWheel
    <2>4. CASE ~HasTimerTask(c)
      <3>1. AddTimerTaskInLoop(c, c, IdleTimeout)
        BY <2>1, <2>4 DEF EnableInactiveReleaseInLoop
      <3>2. conn' = [conn EXCEPT ![c] = "open"]
        BY <2>1 DEF UserTypes
      <3>3. QED
        BY <2>1, <2>2, <2>4, <3>1, <3>2, AddForConn
    <2>5. QED
      BY <2>3, <2>4
  <1>6. ASSUME NEW c \in WheelIds, DisableInactiveRelease(c) PROVE UserInv'
    <2>1. /\ conn[c] # "none" /\ UNCHANGED <<mode, conn>> /\ DisableInactiveReleaseInLoop(c)
      BY <1>6 DEF DisableInactiveRelease
    <2>2. conn' = [conn EXCEPT ![c] = conn[c]]
      BY <2>1 DEF UserTypes
    <2>3. QED
      BY <2>1, <2>2, ConnIsSub, CancelForConn
  <1>7. ASSUME NEW c \in WheelIds, ReleaseInLoop(c) PROVE UserInv'
    <2>1. /\ conn[c] # "none" /\ mode' = mode /\ next_timerid_' = next_timerid_
          /\ conn' = [conn EXCEPT ![c] = "closed"]
      BY <1>7 DEF ReleaseInLoop
    <2>2. mode = "sub"
      BY <2>1, ConnIsSub
    <2>3. CASE HasTimerTask(c)
      BY <1>7, <2>1, <2>2, <2>3, CancelForConn DEF ReleaseInLoop
    <2>4. CASE ~HasTimerTask(c)
      <3>1. WheelIdle /\ enable' = enable /\ UNCHANGED <<ids_, task>>
        BY <1>7, <2>4 DEF ReleaseInLoop, WheelIdle, wheelVars
      <3>2. Alive' = Alive /\ Created' = Created
        BY <3>1, WheelIdleInv DEF Created
      <3>3. conn'[c] = "closed" /\ \A d \in WheelIds : d # c => conn'[d] = conn[d]
        BY <2>1 DEF UserTypes
      <3>4. Armed'
        BY <2>4, <3>1, <3>3 DEF UserInv, Armed, HasTimerTask, Cancelled
      <3>5. SubWheel'
        BY <2>1, <2>2, <3>1, <3>2, <3>3 DEF UserInv, SubWheel
      <3>6. QED
        BY <2>1, <2>2, <3>1, <3>2, <3>4, <3>5 DEF UserInv, Known, BaseWheel
    <2>5. QED
      BY <2>3, <2>4
  <1>8. ASSUME NEW T \in Timeouts, AddTimerTask(T) PROVE UserInv'
    <2>1. mode = "base"
      BY <1>8, TimerWheelAssumption DEF AddTimerTask, UserTypes, UserInv
    <2>2. QED
      BY <1>8, <2>1, AddForServer
  <1>9. QED
    BY <1>1, <1>2, <1>3, <1>4, <1>5, <1>6, <1>7, <1>8 DEF WheelNext

(* The task of an enabled connection is its own. *)
LEMMA UserInvImplies ==
  ASSUME FitsWheel, "single" \notin Modes, WheelInv, UserTypes, UserInv
  PROVE  EnabledIsArmed
  <1>1. ASSUME NEW n \in Alive, NEW c \in WheelIds, task[n].owner = c, conn[c] = "closed"
        PROVE  task[n].is_cancel_
    <2>1. mode = "sub" /\ n \in Created /\ n # NoTask
      BY <1>1, ConnIsSub, AliveIs, NoTaskAssumption DEF WheelInv
    <2>2. ids_[c] = n
      BY <1>1, <2>1 DEF UserInv, SubWheel, Known
    <2>3. Cancelled(n)
      BY <1>1, <2>1, <2>2 DEF UserInv, Armed, HasTimerTask
    <2>4. QED
      BY <2>3 DEF Cancelled
  <1>2. ASSUME NEW c \in enable, conn[c] = "open"
        PROVE  \E n \in Alive : task[n].owner = c /\ ~task[n].is_cancel_
    <2>1. c \in WheelIds
      BY DEF UserTypes
    <2>2. mode = "sub"
      BY <1>2, <2>1, ConnIsSub
    <2>3. HasTimerTask(c) /\ ~Cancelled(ids_[c])
      BY <1>2, <2>1 DEF UserInv, Armed
    <2>4. PICK n \in Alive : n = ids_[c] /\ task[n].id = c
      BY <2>1, <2>3 DEF WheelInv, IdsMatch
    <2>5. n \in Created
      BY AliveIs DEF WheelInv
    <2>6. task[n].owner = c
      BY <2>2, <2>4, <2>5 DEF UserInv, SubWheel
    <2>7. ~task[n].is_cancel_
      BY <2>3, <2>4 DEF Cancelled
    <2>8. QED
      BY <2>6, <2>7
  <1>3. QED
    BY <1>1, <1>2 DEF EnabledIsArmed, ClosedIsCancelled

(* While the release after inactivity is enabled, an open connection has a task *)
(* of its own in the wheel that will run, and a closed one has none that could  *)
(* (server.hpp:1051-1120), however many connections and tasks there are: if     *)
(* every loop has a wheel of its own, the timeouts fit the wheel, and no        *)
(* connection enables again what it has just disabled.  Timers_single.cfg shows *)
(* what happens when one loop's wheel has both kinds of users.                *)
THEOREM WheelEnabledIsArmed ==
  ASSUME FitsWheel, ~ReEnable, "single" \notin Modes
  PROVE  WheelSpec => []EnabledIsArmed
  <1>1. WheelInit => UserInv
    <2> SUFFICES ASSUME WheelInit PROVE UserInv
      OBVIOUS
    <2>1. Alive = {} /\ Created = {}
      BY DEF WheelInit, Alive, Created
    <2>2. mode # "single"
      BY DEF WheelInit
    <2>3. Known /\ BaseWheel /\ SubWheel
      BY <2>1 DEF WheelInit, Known, BaseWheel, SubWheel
    <2>4. Armed
      BY DEF WheelInit, Armed
    <2>5. QED
      BY <2>2, <2>3, <2>4 DEF UserInv
  <1>2. WheelInv /\ UserTypes /\ UserInv /\ [WheelNext]_timerWheelVars
          => (WheelInv /\ UserTypes /\ UserInv)'
    BY WheelInvNext, UserTypesNext, UserInvNext
  <1>3. WheelInv /\ UserTypes /\ UserInv => EnabledIsArmed
    BY UserInvImplies
  <1>4. QED
    BY <1>1, <1>2, <1>3, WheelInvInit, PTL DEF WheelSpec

=============================================================================
