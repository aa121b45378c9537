------------------------------- MODULE Rings --------------------------------
(***************************************************************************)
(* The ring queues of ihs: kk.hpp (five of them), lq.hpp, q.hpp,           *)
(* lock_queue.hpp and the rings inside system.cpp, what.cpp, my.cpp and    *)
(* shm.cpp.  One behaviour is the life of one queue of one class, `ring'.  *)
(*                                                                         *)
(* The sources call the producer's index head or tail and the consumer's   *)
(* the other; here they are `in' and `out'.  A modular ring keeps both     *)
(* below Capacity and one slot free; a free-running ring counts on and     *)
(* masks.  Every atomic access is a step; the copy of an item is one       *)
(* step, between two others, so that an overlap is a state.  Memory is     *)
(* sequentially consistent: acquire and release on the indices and flags   *)
(* justify it, but in system.cpp and what.cpp the producer's index is a    *)
(* plain size_t, and program order is assumed.                             *)
(***************************************************************************)
EXTENDS Integers, Sequences

CONSTANTS
  Capacity,         \* slots, a power of two
  Wrap,             \* values of a size_t (2^64)
  Starts,           \* values the free-running indices may have reached
  RingProducers, RingConsumers,
  Rings,            \* classes checked
  MultiProducer,    \* classes used by several producers
  MultiConsumer,    \* classes used by several consumers
  MaxItems,         \* bound: items put, begun or claimed
  NoItem

Modular  == {"lock_queue", "lq", "q", "SPSC_cached", "MPSC_linked", "system", "what",
             "my", "shm"}
(* these two compare the indices with >=, the last two with = *)
Compared == {"MPSC", "SPSC"}
Running  == Compared \cup {"SPSCRing", "MPSCRing"}

ASSUME RingsAssumption ==
  /\ Capacity \in Nat \ {0} /\ Wrap \in Nat
  /\ Wrap % Capacity = 0 /\ Wrap > 2 * Capacity
  /\ Starts \subseteq 0..(Wrap - 1)
  /\ Rings \subseteq Modular \cup Running
  /\ MultiProducer \subseteq Rings /\ MultiConsumer \subseteq Rings
  /\ MaxItems \in Nat
  /\ RingProducers \cap RingConsumers = {}

VARIABLES
  ring,             \* the class
  in, out,
  slot,             \* slot[i]: an item, or NoItem
  flag,             \* flag[i]: ready (q.hpp), sequence (MPSCRing), else 0
  cache,            \* cache_tail, cached_head_
  rpc,              \* rpc[t]: where a thread is
  idx,              \* idx[t]: its local copy of an index
  item,             \* item[t]: what a producer puts or a consumer has copied
  put, taken        \* history: items in the order of their slots, and items
                    \* returned

ringVars == <<ring, in, out, slot, flag, cache, rpc, idx, item, put, taken>>

Users == RingProducers \cup RingConsumers

SlotOf(i) == i % Capacity
Succ(i) == IF ring \in Modular THEN (i + 1) % Capacity ELSE (i + 1) % Wrap

(* unsigned and signed differences of two indices *)
Minus(i, j) == (i - j) % Wrap
Signed(n) == IF n >= Wrap \div 2 THEN n - Wrap ELSE n

(* the sequence number a slot starts with, when the indices stand at s *)
FirstSequence(s, i) == (s + ((i - s) % Capacity)) % Wrap

RingInit ==
  /\ ring \in Rings
  /\ in \in IF ring \in Running THEN Starts ELSE {0}
  /\ out = in
  /\ slot = [i \in 0..(Capacity - 1) |-> NoItem]
  /\ flag = [i \in 0..(Capacity - 1) |-> IF ring = "MPSCRing" THEN FirstSequence(in, i) ELSE 0]
  /\ cache = in
  /\ rpc = [t \in Users |-> "idle"]
  /\ idx = [t \in Users |-> 0]
  /\ item = [t \in Users |-> NoItem]
  /\ put = <<>> /\ taken = <<>>

Goto(t, l) == rpc' = [rpc EXCEPT ![t] = l]
At(t, l) == rpc[t] = l

-----------------------------------------------------------------------------
(* Producers.                                                              *)

(* one producer, unless the class is used by several *)
MayPut(p) ==
  /\ At(p, "idle")
  /\ Len(put) < MaxItems
  /\ ring \in MultiProducer \/ \A q \in RingProducers \ {p} : At(q, "idle")

LoadIn(p) ==
  /\ MayPut(p)
  /\ idx' = [idx EXCEPT ![p] = in]
  /\ item' = [item EXCEPT ![p] = <<p, Len(put)>>]
  /\ Goto(p, IF ring = "MPSCRing" THEN "seq" ELSE "full")
  /\ UNCHANGED <<ring, in, out, slot, flag, cache, put, taken>>

(* Bug: the slot kept free is used as well. *)
Full_OffByOne(i, o) == IF ring \in Modular THEN i = o /\ put # taken
                       ELSE Minus(Succ(i), o) > Capacity + 1

(* whether a put at index i finds the ring full if the consumer is at o *)
Full(i, o) == IF ring \in Modular THEN Succ(i) = o ELSE Minus(Succ(i), o) > Capacity

(* the test for a full ring against index o: push returns false, or goes on *)
TestFull(p, o) ==
  /\ At(p, "full")
  /\ Goto(p, IF Full(idx[p], o) THEN "idle" ELSE "write")
  /\ UNCHANGED <<ring, in, out, slot, flag, cache, idx, item, put, taken>>

(* ... against the cached index first, and the cache is refreshed *)
TestFullCached(p) ==
  \/ /\ At(p, "full")
     /\ Goto(p, IF Full(idx[p], cache) THEN "refresh" ELSE "write")
     /\ UNCHANGED <<ring, in, out, slot, flag, cache, idx, item, put, taken>>
  \/ /\ At(p, "refresh")
     /\ cache' = out
     /\ Goto(p, IF Full(idx[p], out) THEN "idle" ELSE "write")
     /\ UNCHANGED <<ring, in, out, slot, flag, idx, item, put, taken>>

WriteSlot(p) ==
  /\ At(p, "write")
  /\ slot' = [slot EXCEPT ![SlotOf(idx[p])] = item[p]]
  /\ Goto(p, IF ring \in {"q", "MPSCRing"} THEN "fill" ELSE "publish")
  /\ UNCHANGED <<ring, in, out, flag, cache, idx, item, put, taken>>

(* The store of the index makes the item visible. *)
Publish(p) ==
  /\ At(p, "publish")
  /\ in' = Succ(idx[p])
  /\ put' = Append(put, item[p])
  /\ Goto(p, "idle")
  /\ UNCHANGED <<ring, out, slot, flag, cache, idx, item, taken>>

Put(p) == LoadIn(p) \/ TestFull(p, out) \/ WriteSlot(p) \/ Publish(p)

PutCached(p) == LoadIn(p) \/ TestFullCached(p) \/ WriteSlot(p) \/ Publish(p)

-----------------------------------------------------------------------------
(* Consumers.                                                              *)

MayTake(c) ==
  /\ At(c, "idle")
  /\ ring \in MultiConsumer \/ \A d \in RingConsumers \ {c} : At(d, "idle")

LoadOut(c) ==
  /\ MayTake(c)
  /\ idx' = [idx EXCEPT ![c] = out]
  /\ Goto(c, IF ring = "MPSCRing" THEN "filled" ELSE "empty")
  /\ UNCHANGED <<ring, in, out, slot, flag, cache, item, put, taken>>

(* Bug: SPSCRingBuffer compares as SPSCQueue does. *)
Empty_Compares(i) == IF ring \in Compared \cup {"SPSCRing"} THEN i >= in ELSE i = in

Empty(i) == IF ring \in Compared THEN i >= in ELSE i = in

TestEmpty(c) ==
  /\ At(c, "empty")
  /\ Goto(c, IF Empty(idx[c]) THEN "idle" ELSE IF ring = "q" THEN "filled" ELSE "read")
  /\ UNCHANGED <<ring, in, out, slot, flag, cache, idx, item, put, taken>>

ReadSlot(c) ==
  /\ At(c, "read")
  /\ item' = [item EXCEPT ![c] = slot[SlotOf(idx[c])]]
  /\ Goto(c, IF ring \in {"q", "MPSCRing"} THEN "reset" ELSE "release")
  /\ UNCHANGED <<ring, in, out, slot, flag, cache, idx, put, taken>>

(* the store of the index, which gives the slot back *)
ReleaseSlot(c) ==
  /\ At(c, "release")
  /\ out' = Succ(idx[c])
  /\ taken' = Append(taken, item[c])
  /\ item' = [item EXCEPT ![c] = NoItem]
  /\ Goto(c, "idle")
  /\ UNCHANGED <<ring, in, slot, flag, cache, idx, put>>

Take(c) == LoadOut(c) \/ TestEmpty(c) \/ ReadSlot(c) \/ ReleaseSlot(c)

(* a step that stores a flag, resets it or tests it *)
SetFlag(t, at, value, next) ==
  /\ At(t, at)
  /\ flag' = [flag EXCEPT ![SlotOf(idx[t])] = value]
  /\ Goto(t, next)
  /\ UNCHANGED <<ring, in, out, slot, cache, idx, item, put, taken>>

(* Bug: the flag is loaded and not looked at. *)
TestFlag_Ignored(c, ok) ==
  /\ At(c, "filled")
  /\ Goto(c, "read")
  /\ UNCHANGED <<ring, in, out, slot, flag, cache, idx, item, put, taken>>

TestFlag(c, ok) ==
  /\ At(c, "filled")
  /\ Goto(c, IF ok THEN "read" ELSE "idle")
  /\ UNCHANGED <<ring, in, out, slot, flag, cache, idx, item, put, taken>>

-----------------------------------------------------------------------------
(* The classes.                                                            *)

(* kk.hpp: MPSCQueue with cache_tail, SPSCQueue *)
MPSCQueue_enqueue(p) == ring = "MPSC" /\ PutCached(p)
MPSCQueue_dequeue(c) == ring = "MPSC" /\ Take(c)
SPSCQueue_enqueue(p) == ring = "SPSC" /\ Put(p)
SPSCQueue_dequeue(c) == ring = "SPSC" /\ Take(c)

(* kk.hpp: MPSCQueue with links and a CAS.  The item is written before the  *)
(* CAS; one that fails goes on with the new index, and neither writes nor   *)
(* tests again.                                                            *)
Cas(p) ==
  /\ At(p, "publish")
  /\ IF in = idx[p]
       THEN /\ in' = Succ(idx[p])
            /\ put' = Append(put, item[p])
            /\ Goto(p, "idle")
            /\ UNCHANGED idx
       ELSE /\ idx' = [idx EXCEPT ![p] = in]
            /\ UNCHANGED <<in, put, rpc>>
  /\ UNCHANGED <<ring, out, slot, flag, cache, item, taken>>

MPSCLinked_enqueue(p) ==
  /\ ring = "MPSC_linked"
  /\ LoadIn(p) \/ TestFull(p, out) \/ WriteSlot(p) \/ Cas(p)
MPSCLinked_dequeue(c) == ring = "MPSC_linked" /\ Take(c)

(* kk.hpp: SPSCQueue with cached_head_ *)
SPSCCached_enqueue(p) == ring = "SPSC_cached" /\ PutCached(p)
SPSCCached_dequeue(c) == ring = "SPSC_cached" /\ Take(c)

(* kk.hpp: SPSCRingBuffer *)
SPSCRingBuffer_push(p) == ring = "SPSCRing" /\ Put(p)
SPSCRingBuffer_pop(c) == ring = "SPSCRing" /\ Take(c)

(* kk.hpp: MPSCRingBuffer.  A slot is free for index i if its sequence is i, *)
(* and filled if it is i + 1.                                               *)
Claim(p) ==
  LET diff == Signed(Minus(flag[SlotOf(idx[p])], idx[p])) IN
  \/ /\ At(p, "seq")
     /\ idx' = [idx EXCEPT ![p] = IF diff > 0 THEN in ELSE @]
     /\ Goto(p, IF diff = 0 THEN "cas" ELSE IF diff < 0 THEN "idle" ELSE "seq")
     /\ UNCHANGED <<ring, in, out, slot, flag, cache, item, put, taken>>
  \/ /\ At(p, "cas") /\ in = idx[p]
     /\ Len(put) < MaxItems
     /\ in' = Succ(in)
     /\ put' = Append(put, item[p])
     /\ Goto(p, "write")
     /\ UNCHANGED <<ring, out, slot, flag, cache, idx, item, taken>>
  \/ /\ At(p, "cas") /\ in # idx[p]
     /\ idx' = [idx EXCEPT ![p] = in]
     /\ Goto(p, "seq")
     /\ UNCHANGED <<ring, in, out, slot, flag, cache, item, put, taken>>

MPSCRingBuffer_push(p) ==
  /\ ring = "MPSCRing"
  /\ \/ LoadIn(p) \/ Claim(p) \/ WriteSlot(p)
     \/ SetFlag(p, "fill", Succ(idx[p]), "idle")

MPSCRingBuffer_pop(c) ==
  /\ ring = "MPSCRing"
  /\ \/ LoadOut(c) \/ ReadSlot(c) \/ ReleaseSlot(c)
     \/ TestFlag(c, flag[SlotOf(idx[c])] = Succ(idx[c]))
     \/ SetFlag(c, "reset", (idx[c] + Capacity) % Wrap, "release")

(* lq.hpp and lock_queue.hpp: LockFreeQueue *)
lq_enqueue(p) == ring = "lq" /\ Put(p)
lq_dequeue(c) == ring = "lq" /\ Take(c)
lock_queue_push(p) == ring = "lock_queue" /\ Put(p)
lock_queue_pop(c) == ring = "lock_queue" /\ Take(c)

(* q.hpp: LockFreeQueue with a ready flag in each element *)
q_try_push(p) ==
  /\ ring = "q"
  /\ Put(p) \/ SetFlag(p, "fill", 1, "publish")
q_try_pop(c) ==
  /\ ring = "q"
  /\ Take(c) \/ TestFlag(c, flag[SlotOf(idx[c])] = 1) \/ SetFlag(c, "reset", 0, "release")

(* the rings of system.cpp, what.cpp, my.cpp and shm.cpp *)
system_push(p) == ring = "system" /\ Put(p)
system_pop(c) == ring = "system" /\ Take(c)
what_push(p) == ring = "what" /\ Put(p)
what_pop(c) == ring = "what" /\ Take(c)
my_push(p) == ring = "my" /\ Put(p)
my_pop(c) == ring = "my" /\ Take(c)
shm_producer(p) == ring = "shm" /\ Put(p)
shm_consumer(c) == ring = "shm" /\ Take(c)

-----------------------------------------------------------------------------
PutStep(p) ==
  \/ MPSCQueue_enqueue(p) \/ SPSCQueue_enqueue(p) \/ MPSCLinked_enqueue(p)
  \/ SPSCCached_enqueue(p) \/ SPSCRingBuffer_push(p) \/ MPSCRingBuffer_push(p)
  \/ lq_enqueue(p) \/ lock_queue_push(p) \/ q_try_push(p)
  \/ system_push(p) \/ what_push(p) \/ my_push(p) \/ shm_producer(p)

TakeStep(c) ==
  \/ MPSCQueue_dequeue(c) \/ SPSCQueue_dequeue(c) \/ MPSCLinked_dequeue(c)
  \/ SPSCCached_dequeue(c) \/ SPSCRingBuffer_pop(c) \/ MPSCRingBuffer_pop(c)
  \/ lq_dequeue(c) \/ lock_queue_pop(c) \/ q_try_pop(c)
  \/ system_pop(c) \/ what_pop(c) \/ my_pop(c) \/ shm_consumer(c)

RingNext == (\E p \in RingProducers : PutStep(p)) \/ (\E c \in RingConsumers : TakeStep(c))

RingSpec == RingInit /\ [][RingNext]_ringVars

-----------------------------------------------------------------------------
(* Properties.                                                             *)

Goods == (Users \X Nat) \cup {NoItem}
RingPcs == {"idle", "full", "refresh", "write", "fill", "publish", "seq", "cas",
            "empty", "filled", "read", "reset", "release"}

(* The indices and flags are numbers, items are of some thread, threads are   *)
(* at a step of push or pop.                                               *)
RingTypeOK ==
  /\ in \in Nat /\ out \in Nat /\ cache \in Nat
  /\ slot \in [0..(Capacity - 1) -> Goods] /\ flag \in [0..(Capacity - 1) -> Nat]
  /\ rpc \in [Users -> RingPcs] /\ idx \in [Users -> Nat] /\ item \in [Users -> Goods]
  /\ put \in Seq(Goods) /\ taken \in Seq(Goods)

(* What is taken is what was put, each item once, in the order in which the  *)
(* slots were claimed, across the wrap of size_t too ("producer_sum ==       *)
(* consumer_sum", kk.hpp:466 and 501).                                     *)
TakenIsPrefix ==
  /\ Len(taken) <= Len(put)
  /\ taken = SubSeq(put, 1, Len(taken))

(* No two threads copy an item into or out of the same slot at a time: the   *)
(* flag or index that hands a slot over is set after the copy and tested     *)
(* before it.                                                              *)
NoSharedSlot ==
  \A t, u \in Users :
     t # u /\ At(t, "write") /\ rpc[u] \in {"write", "read"} => SlotOf(idx[t]) # SlotOf(idx[u])

(* The indices have wrapped between those of a class that compares them with *)
(* >=: it takes what it holds for nothing, and the ring fills up.           *)
Hides == ring \in Compared /\ in < out

(* An item that was put is taken, unless MPSCQueue or SPSCQueue hides it at   *)
(* the wrap of size_t: no flag, sequence number or cached index of any class *)
(* does, and no comparison of the classes that count on and test with ==.   *)
AllTaken == \A n \in 1..MaxItems : Len(put) >= n ~> Len(taken) >= n \/ Hides

(* dequeue returns false because the "queue is empty" (kk.hpp:46-47 and      *)
(* 99-100): an item that was put is taken, whatever the indices.  MPSCQueue  *)
(* and SPSCQueue do not keep this at the wrap.                             *)
NothingHidden == \A n \in 1..MaxItems : Len(put) >= n ~> Len(taken) >= n
=============================================================================
