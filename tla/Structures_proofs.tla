-------------------------- MODULE Structures_proofs --------------------------
(***************************************************************************)
(* Proofs about Spinlock, for every number of threads, about Rings, for      *)
(* every capacity, width of the indices and number of producers, and about  *)
(* OrderBook, for all prices and quantities.                                *)
(***************************************************************************)
EXTENDS Spinlock, Rings, OrderBook, SequenceTheorems, FiniteSetTheorems, TLAPS

-----------------------------------------------------------------------------
(* The spinlock.                                                           *)

(* The initial state satisfies the inductive invariant. *)
LEMMA InitIInv == Init => IInv
  <1> SUFFICES ASSUME Init PROVE IInv
    OBVIOUS
  <1> USE DEF Init
  <1>1. TypeOK
    <2>1. <<>> \in Seq(Items) /\ pushes \in 0..MaxPushes
      BY SpinlockAssumption
    <2>2. QED
      BY <2>1, Zenon DEF TypeOK, Pcs
  <1>2. MutualExclusion /\ LockCovers
    BY DEF MutualExclusion, LockCovers, Inside
  <1>3. QED
    BY <1>1, <1>2 DEF IInv

(* Every step keeps the types. *)
LEMMA NextType == ASSUME IInv, [Next]_vars PROVE TypeOK'
  <1> USE SpinlockAssumption DEF IInv, TypeOK, Pcs
  <1>1. ASSUME NEW t \in Threads, NEW x \in Items, call(t, x) PROVE TypeOK'
    <2>1. arg' = arg \/ arg' = [arg EXCEPT ![t] = x]
      BY <1>1, Zenon DEF call
    <2>2. arg' \in [Threads -> Items]
      BY <2>1
    <2>3. pushes' = pushes \/ (pushes < MaxPushes /\ pushes' = pushes + 1)
      BY <1>1, Zenon DEF call
    <2>4. pushes' \in 0..MaxPushes
      BY <2>3
    <2>5. QED
      BY <1>1, <2>2, <2>4 DEF call
  <1>2. ASSUME NEW t \in Threads, lockExchange(t) PROVE TypeOK'
    BY <1>2 DEF lockExchange
  <1>3. ASSUME NEW t \in Threads, lockLoad(t) PROVE TypeOK'
    BY <1>3 DEF lockLoad
  <1>4. ASSUME NEW t \in Threads, readMailbox(t) PROVE TypeOK'
    BY <1>4 DEF readMailbox
  <1>5. ASSUME NEW t \in Threads, storeMailbox(t) PROVE TypeOK'
    <2>1. delivered \o copy[t] \in Seq(Items)
      BY ConcatProperties
    <2>2. Append(copy[t], arg[t]) \in Seq(Items) /\ <<>> \in Seq(Items)
      BY AppendProperties
    <2>3. mailbox' \in Seq(Items) /\ delivered' \in Seq(Items)
      BY <1>5, <2>1, <2>2 DEF storeMailbox
    <2>4. QED
      BY <1>5, <2>3 DEF storeMailbox
  <1>6. ASSUME NEW t \in Threads, unlock(t) PROVE TypeOK'
    BY <1>6 DEF unlock
  <1>7. CASE UNCHANGED vars
    BY <1>7 DEF vars
  <1>8. QED
    BY <1>1, <1>2, <1>3, <1>4, <1>5, <1>6, <1>7 DEF Next, Step

(* Every step keeps at most one thread inside, under the flag. *)
LEMMA NextExclusion == ASSUME IInv, [Next]_vars PROVE MutualExclusion' /\ LockCovers'
  <1> USE DEF IInv, TypeOK, MutualExclusion, LockCovers, Inside
  <1>1. ASSUME NEW t \in Threads, NEW x \in Items, call(t, x)
        PROVE  MutualExclusion' /\ LockCovers'
    BY <1>1 DEF call
  <1>2. ASSUME NEW t \in Threads, lockExchange(t) PROVE MutualExclusion' /\ LockCovers'
    <2>1. CASE lock_
      BY <1>2, <2>1 DEF lockExchange
    <2>2. CASE ~lock_
      <3>1. \A u \in Threads : pc[u] \notin {"in", "store", "unlock"}
        BY <2>2
      <3>2. QED
        BY <1>2, <2>2, <3>1 DEF lockExchange
    <2>3. QED
      BY <2>1, <2>2
  <1>3. ASSUME NEW t \in Threads, lockLoad(t) PROVE MutualExclusion' /\ LockCovers'
    BY <1>3 DEF lockLoad
  <1>4. ASSUME NEW t \in Threads, readMailbox(t) PROVE MutualExclusion' /\ LockCovers'
    BY <1>4 DEF readMailbox
  <1>5. ASSUME NEW t \in Threads, storeMailbox(t) PROVE MutualExclusion' /\ LockCovers'
    <2>1. \A u \in Threads : u # t => pc[u] # "store"
      BY <1>5 DEF storeMailbox
    <2>2. QED
      BY <1>5, <2>1 DEF storeMailbox
  <1>6. ASSUME NEW t \in Threads, unlock(t) PROVE MutualExclusion' /\ LockCovers'
    <2>1. \A u \in Threads : u # t => pc[u] \notin {"in", "store", "unlock"}
      BY <1>6 DEF unlock
    <2>2. QED
      BY <1>6, <2>1 DEF unlock
  <1>7. CASE UNCHANGED vars
    BY <1>7 DEF vars
  <1>8. QED
    BY <1>1, <1>2, <1>3, <1>4, <1>5, <1>6, <1>7 DEF Next, Step

(* A step under the lock is a step of the atomic mailbox or none. *)
LEMMA NextRefines == ASSUME IInv, [Next]_vars PROVE [Box!Next]_<<mailbox, delivered>>
  <1> USE DEF IInv, TypeOK
  <1>1. ASSUME NEW t \in Threads, storeMailbox(t) PROVE Box!Next
    <2>1. copy[t] = mailbox /\ arg[t] \in Items
      BY <1>1 DEF storeMailbox, LockCovers
    <2>2. CASE t = Taker
      BY <1>1, <2>1, <2>2 DEF storeMailbox, Box!Next, Box!take
    <2>3. CASE t # Taker
      BY <1>1, <2>1, <2>3 DEF storeMailbox, Box!Next, Box!push
    <2>4. QED
      BY <2>2, <2>3
  <1>2. ASSUME NEW t \in Threads, NEW x \in Items, call(t, x)
        PROVE  UNCHANGED <<mailbox, delivered>>
    BY <1>2 DEF call
  <1>3. ASSUME NEW t \in Threads,
               lockExchange(t) \/ lockLoad(t) \/ readMailbox(t) \/ unlock(t)
        PROVE  UNCHANGED <<mailbox, delivered>>
    BY <1>3 DEF lockExchange, lockLoad, readMailbox, unlock
  <1>4. CASE UNCHANGED vars
    BY <1>4 DEF vars
  <1>5. QED
    BY <1>1, <1>2, <1>3, <1>4 DEF Next, Step

-----------------------------------------------------------------------------
(* IInv holds in every reachable state. *)
LEMMA Invariance == Spec => []IInv
  <1>1. IInv /\ [Next]_vars => IInv'
    BY NextType, NextExclusion DEF IInv
  <1>2. QED
    BY InitIInv, <1>1, PTL DEF Spec

(* lock() and unlock() exclude: for any number of threads at most one is    *)
(* between them.                                                           *)
THEOREM MutualExclusionHolds == Spec => []MutualExclusion
  <1>1. IInv => MutualExclusion
    BY DEF IInv
  <1>2. QED
    BY Invariance, <1>1, PTL

(* Pushing and taking under the spinlock implement the atomic mailbox: no   *)
(* push is lost and nothing is taken twice, for any number of threads.      *)
THEOREM Refinement == Spec => ImplementsMailbox
  <1>1. Init => Box!Init
    BY DEF Init, Box!Init
  <1>2. IInv /\ [Next]_vars => [Box!Next]_<<mailbox, delivered>>
    BY NextRefines
  <1>3. QED
    BY Invariance, <1>1, <1>2, PTL DEF Spec, ImplementsMailbox, Box!Spec

-----------------------------------------------------------------------------
(* Arithmetic of the indices.                                              *)

(* A quotient and a remainder determine the result of %. *)
LEMMA RemainderIs ==
  ASSUME NEW p \in Nat \ {0}, NEW n \in Int, NEW q \in Int, NEW r \in 0..(p - 1),
         n = p * q + r
  PROVE  n % p = r
  OBVIOUS

(* The quotient and the remainder of a number *)
LEMMA Divided ==
  ASSUME NEW p \in Nat \ {0}, NEW n \in Int
  PROVE  \E q \in Int, r \in 0..(p - 1) : n = p * q + r /\ r = n % p
  OBVIOUS

(* Whole rounds do not change the remainder. *)
LEMMA Rounds ==
  ASSUME NEW p \in Nat \ {0}, NEW n \in Int, NEW k \in Int
  PROVE  (n + p * k) % p = n % p
  <1>1. PICK q \in Int, r \in 0..(p - 1) : n = p * q + r /\ r = n % p
    BY Divided
  <1>2. PICK j \in Int : j = q + k
    OBVIOUS
  <1>3. p * j = p * q + p * k
    BY <1>2
  <1>4. PICK x \in Int, y \in Int, z \in Int : x = p * q /\ y = p * k /\ z = p * j
    OBVIOUS
  <1>a. n = x + r /\ z = x + y
    BY <1>1, <1>3, <1>4
  <1>5. n + y = z + r /\ n + y \in Int
    BY <1>a
  <1>6. n + p * k = p * j + r /\ n + p * k \in Int
    BY <1>4, <1>5
  <1>7. QED
    BY <1>1, <1>6, RemainderIs

(* A number and its remainder go on alike. *)
LEMMA RemainderAdd ==
  ASSUME NEW p \in Nat \ {0}, NEW n \in Int, NEW k \in Int
  PROVE  ((n % p) + k) % p = (n + k) % p
  <1>1. PICK q \in Int, r \in 0..(p - 1) : n = p * q + r /\ r = n % p
    BY Divided
  <1>2. PICK x \in Int : x = p * q
    OBVIOUS
  <1>3. n + k = (r + k) + p * q
    BY <1>1, <1>2
  <1>4. r + k \in Int
    OBVIOUS
  <1>5. ((r + k) + p * q) % p = (r + k) % p
    BY <1>4, Rounds
  <1>6. QED
    BY <1>1, <1>3, <1>5

(* Two numbers less than a round apart have different remainders. *)
LEMMA RemainderSame ==
  ASSUME NEW p \in Nat \ {0}, NEW a \in Int, NEW b \in Int, a <= b, b - a < p, a % p = b % p
  PROVE  a = b
  <1>1. PICK q \in Int, r \in 0..(p - 1) : a = p * q + r /\ r = a % p
    BY Divided
  <1>2. PICK k \in Int : b = p * k + r
    <2>1. PICK k \in Int, z \in 0..(p - 1) : b = p * k + z /\ z = b % p
      BY Divided
    <2>2. QED
      BY <1>1, <2>1
  <1>3. CASE k = q
    BY <1>1, <1>2, <1>3
  <1>4. CASE k > q
    <2>1. PICK d \in Nat : k = q + 1 + d
      BY <1>4
    <2>2. p * k = p * q + p + p * d /\ p * d \in Nat
      BY <2>1
    <2>3. PICK x \in Int, y \in Int, z \in Nat : x = p * q /\ y = p * k /\ z = p * d
      BY <2>2
    <2>4. a = x + r /\ b = y + r /\ y = x + p + z
      BY <1>1, <1>2, <2>2, <2>3
    <2>5. QED
      BY <2>4
  <1>5. CASE k < q
    <2>1. PICK d \in Nat : q = k + 1 + d
      BY <1>5
    <2>2. p * q = p * k + p + p * d /\ p * d \in Nat
      BY <2>1
    <2>3. PICK x \in Int, y \in Int, z \in Nat : x = p * q /\ y = p * k /\ z = p * d
      BY <2>2
    <2>4. a = x + r /\ b = y + r /\ x = y + p + z
      BY <1>1, <1>2, <2>2, <2>3
    <2>5. QED
      BY <2>4
  <1>6. QED
    BY <1>3, <1>4, <1>5

(* The remainder of a remainder, if one modulus divides the other *)
LEMMA RemainderTwice ==
  ASSUME NEW w \in Nat \ {0}, NEW p \in Nat \ {0}, w % p = 0, NEW n \in Int
  PROVE  (n % w) % p = n % p
  <1>1. PICK q \in Int, r \in 0..(w - 1) : n = w * q + r /\ r = n % w
    BY Divided
  <1>2. PICK k \in Int : w = p * k
    <2>1. PICK k \in Int, z \in 0..(p - 1) : w = p * k + z /\ z = w % p
      BY Divided
    <2>2. PICK x \in Int : x = p * k
      OBVIOUS
    <2>3. z = 0
      BY <2>1
    <2>4. w = x
      BY <2>1, <2>2, <2>3
    <2>5. QED
      BY <2>2, <2>4
  <1>3. w * q = p * (k * q)
    BY <1>2
  <1>4. PICK j \in Int : j = k * q
    OBVIOUS
  <1>5. n = r + p * j
    <2>1. PICK x \in Int : x = w * q
      OBVIOUS
    <2>2. QED
      BY <1>1, <1>3, <1>4, <2>1
  <1>6. r \in Int
    OBVIOUS
  <1>7. (r + p * j) % p = r % p
    BY <1>6, Rounds
  <1>8. QED
    BY <1>1, <1>5, <1>7

-----------------------------------------------------------------------------
(* The n-th item: its index, counted modulo m from s on, and its slot.       *)
Index(m, s, n) == (s + n) % m
Pos(s, n) == (s + n) % Capacity

(* what the indices of the class are taken modulo, and how many items it holds *)
Modulus == IF ring \in Modular THEN Capacity ELSE Wrap
Room == IF ring \in Modular THEN Capacity - 1 ELSE Capacity

(* the constants as the lemmas need them *)
LEMMA RingConstants ==
  /\ Capacity \in Nat \ {0} /\ Wrap \in Nat \ {0} /\ Wrap > 2 * Capacity /\ Wrap % Capacity = 0
  /\ Modulus \in {Capacity, Wrap} /\ Room \in Nat /\ Room < Modulus /\ Room <= Capacity
  /\ Modulus \in Nat \ {0} /\ Capacity <= Modulus
  BY RingsAssumption DEF Modulus, Room

(* An index is below the modulus, a slot below the capacity. *)
LEMMA IndexRange ==
  ASSUME NEW m \in Nat \ {0}, NEW s \in Nat, NEW n \in Nat
  PROVE  Index(m, s, n) \in 0..(m - 1) /\ Pos(s, n) \in 0..(Capacity - 1)
  <1>1. s + n \in Int /\ Capacity \in Nat \ {0}
    BY RingConstants
  <1>2. QED
    BY <1>1, Divided DEF Index, Pos

(* the index after it *)
LEMMA IndexNext ==
  ASSUME NEW m \in Nat \ {0}, NEW s \in Nat, NEW n \in Nat, NEW k \in Nat
  PROVE  (Index(m, s, n) + k) % m = Index(m, s, n + k)
  <1>1. s + n \in Int /\ k \in Int /\ (s + n) + k = s + (n + k)
    OBVIOUS
  <1>2. (((s + n) % m) + k) % m = ((s + n) + k) % m
    BY <1>1, RemainderAdd
  <1>3. QED
    BY <1>1, <1>2 DEF Index

(* Items less than a round apart have different indices ... *)
LEMMA IndexSame ==
  ASSUME NEW m \in Nat \ {0}, NEW s \in Nat, NEW a \in Nat, NEW b \in Nat, a <= b, b - a < m,
         Index(m, s, a) = Index(m, s, b)
  PROVE  a = b
  <1>1. s + a \in Int /\ s + b \in Int /\ s + a <= s + b /\ (s + b) - (s + a) < m
    OBVIOUS
  <1>2. s + a = s + b
    BY <1>1, RemainderSame DEF Index
  <1>3. QED
    BY <1>2

(* ... and different slots, *)
LEMMA PosSame ==
  ASSUME NEW s \in Nat, NEW a \in Nat, NEW b \in Nat, a <= b, b - a < Capacity, Pos(s, a) = Pos(s, b)
  PROVE  a = b
  <1>1. Index(Capacity, s, a) = Index(Capacity, s, b)
    BY DEF Pos, Index
  <1>2. QED
    BY <1>1, IndexSame, RingConstants

(* and those a whole round apart the same. *)
LEMMA IndexAgain ==
  ASSUME NEW m \in Nat \ {0}, NEW s \in Nat, NEW n \in Nat
  PROVE  Index(m, s, n + m) = Index(m, s, n)
  <1>1. s + n \in Int /\ s + (n + m) = (s + n) + m * 1 /\ 1 \in Int
    OBVIOUS
  <1>2. ((s + n) + m * 1) % m = (s + n) % m
    BY <1>1, Rounds
  <1>3. QED
    BY <1>1, <1>2 DEF Index

(* The mask of an index is the slot. *)
LEMMA SlotOfIndex ==
  ASSUME NEW m \in {Capacity, Wrap}, NEW s \in Nat, NEW n \in Nat
  PROVE  SlotOf(Index(m, s, n)) = Pos(s, n)
  <1>1. Capacity % Capacity = 0
    BY RingConstants
  <1>2. m \in Nat \ {0} /\ m % Capacity = 0 /\ Capacity \in Nat \ {0} /\ s + n \in Int
    BY <1>1, RingConstants
  <1>3. QED
    BY <1>2, RemainderTwice DEF SlotOf, Index, Pos

(* The unsigned difference of two indices is that of their items. *)
LEMMA MinusIs ==
  ASSUME NEW s \in Nat, NEW a \in Nat, NEW b \in Nat, b <= a, a - b < Wrap
  PROVE  Minus(Index(Wrap, s, a), Index(Wrap, s, b)) = a - b
  <1>0. PICK x \in Nat, y \in Nat : x = s + a /\ y = s + b
    OBVIOUS
  <1>1. Wrap \in Nat \ {0} /\ x - y = a - b /\ x \in Int /\ y \in Int
    BY <1>0, RingConstants
  <1>2. PICK q \in Int, r \in 0..(Wrap - 1) : y = Wrap * q + r /\ r = y % Wrap
    BY <1>1, Divided
  <1>3. -r \in Int
    BY <1>1
  <1>4. ((x % Wrap) + (-r)) % Wrap = (x + (-r)) % Wrap
    BY <1>1, <1>3, RemainderAdd
  <1>5. x + (-r) = (a - b) + Wrap * q
    <2>1. PICK z \in Int : z = Wrap * q
      BY <1>1
    <2>2. y = z + r /\ r \in Int
      BY <1>2, <2>1
    <2>3. x + (-r) = (a - b) + z
      BY <1>1, <2>2
    <2>4. QED
      BY <2>1, <2>3
  <1>6. a - b \in Int /\ ((a - b) + Wrap * q) % Wrap = (a - b) % Wrap
    BY <1>1, Rounds
  <1>7. (a - b) % Wrap = a - b
    BY <1>1, <1>6
  <1>8. x % Wrap \in Int /\ (x % Wrap) - r = (x % Wrap) + (-r)
    BY <1>1
  <1>9. QED
    BY <1>0, <1>2, <1>4, <1>5, <1>6, <1>7, <1>8 DEF Minus, Index

(* Succ is the next index. *)
LEMMA SuccIs ==
  ASSUME NEW s \in Nat, NEW n \in Nat
  PROVE  Succ(Index(Modulus, s, n)) = Index(Modulus, s, n + 1)
  <1>1. PICK m \in Nat \ {0} : m = Modulus
    BY RingConstants
  <1>2. (Index(m, s, n) + 1) % m = Index(m, s, n + 1)
    BY IndexNext
  <1>3. Succ(Index(m, s, n)) = (Index(m, s, n) + 1) % m
    BY <1>1 DEF Succ, Modulus
  <1>4. QED
    BY <1>1, <1>2, <1>3

(* The test for a full ring is right for every consumer's index that is not  *)
(* too old, where the index wraps at the capacity and where it runs on.      *)
LEMMA FullIs ==
  ASSUME NEW s \in Nat, NEW n \in Nat, NEW k \in Nat, k <= n, n - k <= Room
  PROVE  Full(Index(Modulus, s, n), Index(Modulus, s, k)) <=> n - k = Room
  <1>1. Succ(Index(Modulus, s, n)) = Index(Modulus, s, n + 1)
    BY SuccIs
  <1>2. CASE ring \in Modular
    <2>0. Modulus = Capacity /\ Room = Capacity - 1 /\ Capacity \in Nat \ {0}
      BY <1>2, RingConstants DEF Modulus, Room
    <2>1. ASSUME n - k = Room PROVE Index(Modulus, s, n + 1) = Index(Modulus, s, k)
      <3>1. n + 1 = k + Capacity
        BY <2>0, <2>1
      <3>2. Index(Capacity, s, k + Capacity) = Index(Capacity, s, k)
        BY <2>0, IndexAgain
      <3>3. QED
        BY <2>0, <3>1, <3>2
    <2>2. ASSUME Index(Modulus, s, n + 1) = Index(Modulus, s, k), n - k # Room PROVE FALSE
      <3>1. k <= n + 1 /\ (n + 1) - k < Capacity /\ n + 1 \in Nat /\ n + 1 # k
        BY <2>0, <2>2
      <3>2. QED
        BY <2>0, <2>2, <3>1, IndexSame
    <2>3. QED
      BY <1>1, <1>2, <2>1, <2>2 DEF Full
  <1>3. CASE ring \notin Modular
    <2>0. Modulus = Wrap /\ Room = Capacity /\ Wrap > 2 * Capacity /\ Capacity \in Nat \ {0} /\ Wrap \in Nat
      BY <1>3, RingConstants DEF Modulus, Room
    <2>1. k <= n + 1 /\ (n + 1) - k < Wrap /\ n + 1 \in Nat
      BY <2>0
    <2>2. Minus(Index(Wrap, s, n + 1), Index(Wrap, s, k)) = (n + 1) - k
      BY <2>1, MinusIs
    <2>3. (n + 1) - k > Capacity <=> n - k = Capacity
      BY <2>0
    <2>4. QED
      BY <1>1, <1>3, <2>0, <2>2, <2>3 DEF Full
  <1>4. QED
    BY <1>2, <1>3

-----------------------------------------------------------------------------
(* The classes with one producer and one consumer.                         *)

(* How the classes are used: by one consumer, and by one producer but for    *)
(* MPSCRing.  MPSCRing has two slots at least, or a filled slot would have   *)
(* the sequence number of a free one, and its compare-and-swap knows an      *)
(* index by its value: less than 2^64 items pass.                            *)
AsIntended ==
  /\ MultiConsumer = {} /\ MultiProducer \subseteq {"MPSCRing"}
  /\ "MPSCRing" \in Rings => Capacity > 1 /\ MaxItems + 2 * Capacity < Wrap

(* the classes that keep the index of the other side *)
Cached == {"MPSC", "SPSC_cached"}

(* n items were put and t taken, the same ones. *)
Queue(n, t) ==
  /\ Len(put) = n /\ Len(taken) = t /\ t <= n
  /\ \A i \in 1..t : taken[i] = put[i]

(* The producer works on index n, and has found room when it writes. *)
ProducerAt(p, m, r, s, n, t, k) ==
  rpc[p] # "idle" =>
    /\ rpc[p] \in {"full", "refresh", "write", "fill", "publish"}
    /\ idx[p] = Index(m, s, n)
    /\ \A q \in RingProducers \ {p} : rpc[q] = "idle"
    /\ rpc[p] \in {"write", "fill", "publish"} => n - t < r /\ (ring \in Cached => n - k < r)
    /\ rpc[p] \in {"fill", "publish"} => slot[Pos(s, n)] = item[p]

(* The consumer works on index t, and has found an item when it reads. *)
ConsumerAt(c, m, s, n, t) ==
  rpc[c] # "idle" =>
    /\ rpc[c] \in {"empty", "filled", "read", "reset", "release"}
    /\ idx[c] = Index(m, s, t)
    /\ \A d \in RingConsumers \ {c} : rpc[d] = "idle"
    /\ rpc[c] \in {"filled", "read", "reset", "release"} => t < n
    /\ rpc[c] \in {"reset", "release"} => item[c] = put[t + 1]

(* The indices count the items, the cached one those taken so far, and the   *)
(* slots between them hold them.                                           *)
Counted(m, r, s, n, t, k) ==
  /\ m = Modulus /\ r = Room /\ ring \in Rings /\ ring # "MPSCRing"
  /\ n - t <= r
  /\ in = Index(m, s, n) /\ out = Index(m, s, t)
  /\ ring \in Cached => k <= t /\ n - k <= r /\ cache = Index(m, s, k)
  /\ \A j \in t..(n - 1) : slot[Pos(s, j)] = put[j + 1]

(* the invariant, for a queue whose indices started at s *)
Single(m, r, s, n, t, k) ==
  /\ Queue(n, t) /\ Counted(m, r, s, n, t, k)
  /\ \A p \in RingProducers : ProducerAt(p, m, r, s, n, t, k)
  /\ \A c \in RingConsumers : ConsumerAt(c, m, s, n, t)

(* A ring that is not the MPSCRing is used by one producer and one consumer. *)
LEMMA OneEach ==
  ASSUME AsIntended, ring # "MPSCRing"
  PROVE  /\ \A p : MayPut(p) => At(p, "idle") /\ \A q \in RingProducers \ {p} : rpc[q] = "idle"
         /\ \A c : MayTake(c) => At(c, "idle") /\ \A d \in RingConsumers \ {c} : rpc[d] = "idle"
  BY DEF AsIntended, MayPut, MayTake, At

(* a step of the producer before it publishes *)
LEMMA ProducerStep ==
  ASSUME RingTypeOK, NEW m \in Nat, NEW r \in Nat, NEW s \in Nat, NEW n \in Nat, NEW t \in Nat, NEW k \in Nat, NEW j \in Nat,
         Single(m, r, s, n, t, k), NEW p \in RingProducers,
         \A q \in RingProducers \ {p} : rpc[q] = "idle",
         \A u \in Users \ {p} : rpc'[u] = rpc[u] /\ idx'[u] = idx[u] /\ item'[u] = item[u],
         UNCHANGED <<ring, in, out, put, taken>>,
         Counted(m, r, s, n, t, j)', ProducerAt(p, m, r, s, n, t, j)'
  PROVE  Single(m, r, s, n, t, j)'
  <1>1. Queue(n, t)'
    BY DEF Single, Queue
  <1>2. ASSUME NEW q \in RingProducers PROVE ProducerAt(q, m, r, s, n, t, j)'
    <2>1. q # p => rpc'[q] = "idle"
      BY DEF Users
    <2>2. QED
      BY <2>1 DEF ProducerAt
  <1>3. ASSUME NEW c \in RingConsumers PROVE ConsumerAt(c, m, s, n, t)'
    <2>1. c \in Users \ {p} /\ \A d \in RingConsumers : d \in Users \ {p}
      BY RingsAssumption DEF Users
    <2>2. ConsumerAt(c, m, s, n, t)
      BY DEF Single
    <2>3. QED
      BY <2>1, <2>2 DEF ConsumerAt
  <1>4. QED
    BY <1>1, <1>2, <1>3 DEF Single

(* a step of the consumer before it releases the slot *)
LEMMA ConsumerStep ==
  ASSUME RingTypeOK, NEW m \in Nat, NEW r \in Nat, NEW s \in Nat, NEW n \in Nat, NEW t \in Nat, NEW k \in Nat,
         Single(m, r, s, n, t, k), NEW c \in RingConsumers,
         \A d \in RingConsumers \ {c} : rpc[d] = "idle",
         \A u \in Users \ {c} : rpc'[u] = rpc[u] /\ idx'[u] = idx[u] /\ item'[u] = item[u],
         UNCHANGED <<ring, in, out, slot, cache, put, taken>>,
         ConsumerAt(c, m, s, n, t)'
  PROVE  Single(m, r, s, n, t, k)'
  <1>1. Queue(n, t)'
    BY DEF Single, Queue
  <1>2. Counted(m, r, s, n, t, k)'
    BY DEF Single, Counted, Modulus, Room
  <1>3. ASSUME NEW p \in RingProducers PROVE ProducerAt(p, m, r, s, n, t, k)'
    <2>1. p \in Users \ {c} /\ \A q \in RingProducers : q \in Users \ {c}
      BY RingsAssumption DEF Users
    <2>2. ProducerAt(p, m, r, s, n, t, k)
      BY DEF Single
    <2>3. QED
      BY <2>1, <2>2 DEF ProducerAt
  <1>4. ASSUME NEW d \in RingConsumers PROVE ConsumerAt(d, m, s, n, t)'
    <2>1. d # c => rpc'[d] = "idle"
      BY DEF Users
    <2>2. QED
      BY <2>1 DEF ConsumerAt
  <1>5. QED
    BY <1>1, <1>2, <1>3, <1>4 DEF Single
(* The context of the lemmas on one step: items n put and t taken of a queue  *)
(* that started at s, k in the cached index.                                 *)
Numbers(m, r, s, n, t, k) ==
  /\ m \in Nat /\ r \in Nat /\ s \in Nat /\ n \in Nat /\ t \in Nat /\ k \in Nat
  /\ RingTypeOK /\ Single(m, r, s, n, t, k)

(* Loading the producer's index begins a put ... *)
LEMMA SingleLoadIn ==
  ASSUME AsIntended, NEW m, NEW r, NEW s, NEW n, NEW t, NEW k, Numbers(m, r, s, n, t, k),
         NEW p \in RingProducers, LoadIn(p)
  PROVE  Single(m, r, s, n, t, k)'
  <1> USE DEF Numbers
  <1>1. Counted(m, r, s, n, t, k) /\ p \in Users
    BY DEF Single, Users
  <1>2. \A q \in RingProducers \ {p} : rpc[q] = "idle"
    BY <1>1, OneEach DEF LoadIn, Counted
  <1>3. \A u \in Users \ {p} : rpc'[u] = rpc[u] /\ idx'[u] = idx[u] /\ item'[u] = item[u]
    BY <1>1 DEF LoadIn, Goto, RingTypeOK
  <1>4. UNCHANGED <<ring, in, out, put, taken, slot, cache>>
    BY DEF LoadIn
  <1>5. Counted(m, r, s, n, t, k)'
    BY <1>1, <1>4 DEF Counted, Modulus, Room
  <1>6. ProducerAt(p, m, r, s, n, t, k)'
    <2>1. rpc'[p] = "full" /\ idx'[p] = in
      BY <1>1 DEF LoadIn, Goto, RingTypeOK, Counted
    <2>2. in = Index(m, s, n)
      BY <1>1 DEF Counted
    <2>3. \A q \in RingProducers \ {p} : rpc'[q] = "idle"
      BY <1>2, <1>3 DEF Users
    <2>4. QED
      BY <2>1, <2>2, <2>3 DEF ProducerAt
  <1>7. QED
    BY <1>2, <1>3, <1>4, <1>5, <1>6, ProducerStep

(* ... the test against an index of the consumer's that counts j of the items *)
(* taken and is not too old for the cache goes on if there is room,           *)
LEMMA SingleTest ==
  ASSUME NEW m, NEW r, NEW s, NEW n, NEW t, NEW k, Numbers(m, r, s, n, t, k), NEW j \in Nat,
         NEW p \in RingProducers, rpc[p] \in {"full", "refresh"},
         UNCHANGED <<ring, in, out, slot, flag, idx, item, put, taken>>,
         NEW l \in {"idle", "refresh", "write"}, Goto(p, l),
         l = "write" => n - t < r /\ (ring \in Cached => n - j < r),
         ring \in Cached => j <= t /\ n - j <= r /\ cache' = Index(m, s, j)
  PROVE  Single(m, r, s, n, t, j)'
  <1> USE DEF Numbers
  <1>1. Counted(m, r, s, n, t, k) /\ ProducerAt(p, m, r, s, n, t, k) /\ p \in Users
    BY DEF Single, Users
  <1>2. \A q \in RingProducers \ {p} : rpc[q] = "idle"
    BY <1>1 DEF ProducerAt
  <1>3. \A u \in Users \ {p} : rpc'[u] = rpc[u] /\ idx'[u] = idx[u] /\ item'[u] = item[u]
    BY <1>1 DEF Goto, RingTypeOK
  <1>4. Counted(m, r, s, n, t, j)'
    BY <1>1 DEF Counted, Modulus, Room
  <1>5. ProducerAt(p, m, r, s, n, t, j)'
    <2>1. rpc'[p] = l
      BY <1>1 DEF Goto, RingTypeOK
    <2>2. idx'[p] = Index(m, s, n)
      BY <1>1 DEF ProducerAt
    <2>3. \A q \in RingProducers \ {p} : rpc'[q] = "idle"
      BY <1>2, <1>3 DEF Users
    <2>4. QED
      BY <2>1, <2>2, <2>3 DEF ProducerAt
  <1>6. QED
    BY <1>2, <1>3, <1>4, <1>5, ProducerStep

(* ... without a cached index, *)
LEMMA SingleTestFull ==
  ASSUME NEW m, NEW r, NEW s, NEW n, NEW t, NEW k, Numbers(m, r, s, n, t, k),
         NEW p \in RingProducers, ring \notin Cached, TestFull(p, out)
  PROVE  Single(m, r, s, n, t, k)'
  <1> USE DEF Numbers
  <1>1. Counted(m, r, s, n, t, k) /\ ProducerAt(p, m, r, s, n, t, k) /\ Queue(n, t)
    BY DEF Single
  <1>2. rpc[p] = "full" /\ UNCHANGED <<ring, in, out, slot, flag, idx, item, put, taken>>
    BY DEF TestFull, At
  <1>3. PICK l \in {"idle", "write"} : Goto(p, l) /\ (l = "write" => ~Full(idx[p], out))
    BY DEF TestFull
  <1>4. l = "write" => n - t < r
    <2>1. t <= n /\ n - t <= Room /\ m = Modulus /\ r = Room
      BY <1>1 DEF Counted, Queue
    <2>2. Full(Index(Modulus, s, n), Index(Modulus, s, t)) <=> n - t = Room
      BY <2>1, FullIs
    <2>3. idx[p] = Index(Modulus, s, n) /\ out = Index(Modulus, s, t)
      BY <1>1, <1>2, <2>1 DEF Counted, ProducerAt
    <2>4. QED
      BY <1>3, <2>1, <2>2, <2>3
  <1>5. QED
    BY <1>2, <1>3, <1>4, SingleTest

(* ... and with one. *)
LEMMA SingleTestCached ==
  ASSUME NEW m, NEW r, NEW s, NEW n, NEW t, NEW k, Numbers(m, r, s, n, t, k),
         NEW p \in RingProducers, ring \in Cached, TestFullCached(p)
  PROVE  \E j \in Nat : Single(m, r, s, n, t, j)'
  <1> USE DEF Numbers
  <1>1. Counted(m, r, s, n, t, k) /\ ProducerAt(p, m, r, s, n, t, k) /\ Queue(n, t)
    BY DEF Single
  <1>2. UNCHANGED <<ring, in, out, slot, flag, idx, item, put, taken>>
    BY DEF TestFullCached
  <1>3. t <= n /\ n - t <= Room /\ m = Modulus /\ r = Room /\ k <= t /\ n - k <= Room
        /\ cache = Index(Modulus, s, k) /\ out = Index(Modulus, s, t)
    BY <1>1 DEF Counted, Queue
  <1>4. CASE rpc[p] = "full"
    <2>1. PICK l \in {"refresh", "write"} : Goto(p, l) /\ cache' = cache /\ (l = "write" => ~Full(idx[p], cache))
      BY <1>4 DEF TestFullCached, At
    <2>2. Full(Index(Modulus, s, n), Index(Modulus, s, k)) <=> n - k = Room
      BY <1>3, FullIs
    <2>3. idx[p] = Index(Modulus, s, n)
      BY <1>1, <1>3, <1>4 DEF ProducerAt
    <2>4. l = "write" => n - k < r /\ n - t < r
      BY <1>3, <2>1, <2>2, <2>3
    <2>5. Single(m, r, s, n, t, k)'
      BY <1>2, <1>3, <1>4, <2>1, <2>4, SingleTest
    <2>6. QED
      BY <2>5
  <1>5. CASE rpc[p] = "refresh"
    <2>1. PICK l \in {"idle", "write"} : Goto(p, l) /\ cache' = out /\ (l = "write" => ~Full(idx[p], out))
      BY <1>5 DEF TestFullCached, At
    <2>2. Full(Index(Modulus, s, n), Index(Modulus, s, t)) <=> n - t = Room
      BY <1>3, FullIs
    <2>3. idx[p] = Index(Modulus, s, n)
      BY <1>1, <1>3, <1>5 DEF ProducerAt
    <2>4. l = "write" => n - t < r
      BY <1>3, <2>1, <2>2, <2>3
    <2>5. Single(m, r, s, n, t, t)'
      BY <1>2, <1>3, <1>5, <2>1, <2>4, SingleTest
    <2>6. QED
      BY <2>5
  <1>6. QED
    BY <1>4, <1>5 DEF TestFullCached, At

(* A slot without an item is written, *)
LEMMA SingleWrite ==
  ASSUME NEW m, NEW r, NEW s, NEW n, NEW t, NEW k, Numbers(m, r, s, n, t, k),
         NEW p \in RingProducers, WriteSlot(p)
  PROVE  Single(m, r, s, n, t, k)'
  <1> USE DEF Numbers
  <1>1. Counted(m, r, s, n, t, k) /\ ProducerAt(p, m, r, s, n, t, k) /\ Queue(n, t) /\ p \in Users
    BY DEF Single, Users
  <1>2. rpc[p] = "write" /\ \A q \in RingProducers \ {p} : rpc[q] = "idle"
    BY <1>1 DEF ProducerAt, WriteSlot, At
  <1>3. \A u \in Users \ {p} : rpc'[u] = rpc[u] /\ idx'[u] = idx[u] /\ item'[u] = item[u]
    BY <1>1 DEF WriteSlot, Goto, RingTypeOK
  <1>4. UNCHANGED <<ring, in, out, cache, idx, item, put, taken>>
    BY DEF WriteSlot
  <1>5. n - t < r /\ r <= Capacity /\ idx[p] = Index(m, s, n) /\ m \in {Capacity, Wrap} /\ t <= n
    BY <1>1, <1>2, RingConstants DEF ProducerAt, Counted, Queue
  <1>6. SlotOf(idx[p]) = Pos(s, n)
    BY <1>5, SlotOfIndex
  <1>7. Pos(s, n) \in 0..(Capacity - 1)
    BY IndexRange, RingConstants
  <1>8. \A i \in 0..(Capacity - 1) : slot'[i] = IF i = Pos(s, n) THEN item[p] ELSE slot[i]
    BY <1>6 DEF WriteSlot, RingTypeOK
  <1>9. Counted(m, r, s, n, t, k)'
    <2>1. ASSUME NEW j \in t..(n - 1) PROVE slot'[Pos(s, j)] = put[j + 1]
      <3>1. j \in Nat /\ j <= n /\ j # n /\ n - j < Capacity
        BY <1>5, RingConstants
      <3>2. Pos(s, j) # Pos(s, n)
        BY <3>1, PosSame
      <3>3. Pos(s, j) \in 0..(Capacity - 1)
        BY <3>1, IndexRange, RingConstants
      <3>4. slot[Pos(s, j)] = put[j + 1]
        BY <1>1 DEF Counted
      <3>5. QED
        BY <1>8, <3>2, <3>3, <3>4
    <2>2. QED
      BY <1>1, <1>4, <2>1 DEF Counted, Modulus, Room
  <1>10. ProducerAt(p, m, r, s, n, t, k)'
    <2>1. rpc'[p] \in {"fill", "publish"}
      BY <1>1 DEF WriteSlot, Goto, RingTypeOK
    <2>2. slot'[Pos(s, n)] = item'[p]
      BY <1>4, <1>7, <1>8
    <2>3. \A q \in RingProducers \ {p} : rpc'[q] = "idle"
      BY <1>2, <1>3 DEF Users
    <2>4. ring \in Cached => n - k < r
      BY <1>1, <1>2 DEF ProducerAt
    <2>5. QED
      BY <1>4, <1>5, <2>1, <2>2, <2>3, <2>4 DEF ProducerAt
  <1>11. QED
    BY <1>2, <1>3, <1>4, <1>9, <1>10, ProducerStep

(* the flag of q.hpp is set, *)
LEMMA SingleFill ==
  ASSUME NEW m, NEW r, NEW s, NEW n, NEW t, NEW k, Numbers(m, r, s, n, t, k),
         NEW p \in RingProducers, NEW v, SetFlag(p, "fill", v, "publish")
  PROVE  Single(m, r, s, n, t, k)'
  <1> USE DEF Numbers
  <1>1. Counted(m, r, s, n, t, k) /\ ProducerAt(p, m, r, s, n, t, k) /\ p \in Users
    BY DEF Single, Users
  <1>2. rpc[p] = "fill" /\ \A q \in RingProducers \ {p} : rpc[q] = "idle"
    BY <1>1 DEF ProducerAt, SetFlag, At
  <1>3. UNCHANGED <<ring, in, out, slot, cache, idx, item, put, taken>>
    BY DEF SetFlag
  <1>4. \A u \in Users \ {p} : rpc'[u] = rpc[u] /\ idx'[u] = idx[u] /\ item'[u] = item[u]
    BY <1>1 DEF SetFlag, Goto, RingTypeOK
  <1>5. Counted(m, r, s, n, t, k)'
    BY <1>1, <1>3 DEF Counted, Modulus, Room
  <1>6. ProducerAt(p, m, r, s, n, t, k)'
    <2>1. rpc'[p] = "publish"
      BY <1>1 DEF SetFlag, Goto, RingTypeOK
    <2>2. \A q \in RingProducers \ {p} : rpc'[q] = "idle"
      BY <1>2, <1>4 DEF Users
    <2>3. QED
      BY <1>1, <1>2, <1>3, <2>1, <2>2 DEF ProducerAt
  <1>7. QED
    BY <1>2, <1>3, <1>4, <1>5, <1>6, ProducerStep
(* and the index makes the item visible: there is one item more.             *)
LEMMA SinglePublish ==
  ASSUME NEW m, NEW r, NEW s, NEW n, NEW t, NEW k, Numbers(m, r, s, n, t, k),
         NEW p \in RingProducers, Publish(p) \/ Cas(p)
  PROVE  Single(m, r, s, n + 1, t, k)'
  <1> USE DEF Numbers
  <1>1. Counted(m, r, s, n, t, k) /\ ProducerAt(p, m, r, s, n, t, k) /\ Queue(n, t) /\ p \in Users
    BY DEF Single, Users
  <1>2. rpc[p] = "publish" /\ \A q \in RingProducers \ {p} : rpc[q] = "idle"
    BY <1>1 DEF ProducerAt, Publish, Cas, At
  <1>3. idx[p] = Index(m, s, n) /\ in = Index(m, s, n) /\ m = Modulus /\ r = Room
    BY <1>1, <1>2 DEF ProducerAt, Counted
  <1>4. /\ in' = Succ(idx[p]) /\ put' = Append(put, item[p]) /\ Goto(p, "idle")
        /\ UNCHANGED <<ring, out, slot, cache, idx, item, taken>>
    BY <1>3 DEF Publish, Cas
  <1>5. in' = Index(m, s, n + 1)
    BY <1>3, <1>4, SuccIs
  <1>6. item[p] \in Goods /\ Len(put) = n /\ put \in Seq(Goods)
    BY <1>1 DEF RingTypeOK, Queue
  <1>7. Len(put') = n + 1 /\ put'[n + 1] = item[p] /\ \A i \in 1..n : put'[i] = put[i]
    BY <1>4, <1>6
  <1>8. \A u \in Users \ {p} : rpc'[u] = rpc[u] /\ idx'[u] = idx[u] /\ item'[u] = item[u]
    BY <1>1, <1>4 DEF Goto, RingTypeOK
  <1>9. Queue(n + 1, t)'
    BY <1>1, <1>4, <1>7 DEF Queue
  <1>10. Counted(m, r, s, n + 1, t, k)'
    <2>1. ASSUME NEW j \in t..n PROVE slot'[Pos(s, j)] = put'[j + 1]
      <3>1. CASE j = n
        BY <1>1, <1>2, <1>4, <1>7, <3>1 DEF ProducerAt
      <3>2. CASE j # n
        <4>1. j \in t..(n - 1) /\ j + 1 \in 1..n
          BY <3>2
        <4>2. QED
          BY <1>1, <1>4, <1>7, <4>1 DEF Counted
      <3>3. QED
        BY <3>1, <3>2
    <2>2. (n + 1) - 1 = n /\ n - t < r /\ (ring \in Cached => n - k < r)
      BY <1>1, <1>2 DEF ProducerAt
    <2>3. (n + 1) - t <= r /\ (ring \in Cached => (n + 1) - k <= r)
      BY <1>3, <2>2, RingConstants
    <2>4. ring' = ring /\ Modulus' = Modulus /\ Room' = Room
      BY <1>4 DEF Modulus, Room
    <2>5. QED
      BY <1>1, <1>4, <1>5, <2>1, <2>2, <2>3, <2>4 DEF Counted
  <1>11. ASSUME NEW q \in RingProducers PROVE ProducerAt(q, m, r, s, n + 1, t, k)'
    <2>1. rpc'[q] = "idle"
      BY <1>1, <1>2, <1>4 DEF Goto, RingTypeOK, Users
    <2>2. QED
      BY <2>1 DEF ProducerAt
  <1>12. ASSUME NEW c \in RingConsumers PROVE ConsumerAt(c, m, s, n + 1, t)'
    <2>1. c \in Users \ {p} /\ \A d \in RingConsumers : d \in Users \ {p}
      BY RingsAssumption DEF Users
    <2>2. ConsumerAt(c, m, s, n, t)
      BY DEF Single
    <2>3. t < n => t < n + 1 /\ put'[t + 1] = put[t + 1]
      BY <1>7
    <2>4. QED
      BY <1>8, <2>1, <2>2, <2>3 DEF ConsumerAt
  <1>13. QED
    BY <1>9, <1>10, <1>11, <1>12 DEF Single

(* The consumer's steps: it loads its index, *)
LEMMA SingleLoadOut ==
  ASSUME AsIntended, NEW m, NEW r, NEW s, NEW n, NEW t, NEW k, Numbers(m, r, s, n, t, k),
         NEW c \in RingConsumers, LoadOut(c)
  PROVE  Single(m, r, s, n, t, k)'
  <1> USE DEF Numbers
  <1>1. Counted(m, r, s, n, t, k) /\ c \in Users
    BY DEF Single, Users
  <1>2. \A d \in RingConsumers \ {c} : rpc[d] = "idle"
    BY <1>1, OneEach DEF LoadOut, Counted
  <1>3. \A u \in Users \ {c} : rpc'[u] = rpc[u] /\ idx'[u] = idx[u] /\ item'[u] = item[u]
    BY <1>1 DEF LoadOut, Goto, RingTypeOK
  <1>4. UNCHANGED <<ring, in, out, put, taken, slot, cache>>
    BY DEF LoadOut
  <1>5. ConsumerAt(c, m, s, n, t)'
    <2>1. rpc'[c] = "empty" /\ idx'[c] = out
      BY <1>1 DEF LoadOut, Goto, RingTypeOK, Counted
    <2>2. out = Index(m, s, t)
      BY <1>1 DEF Counted
    <2>3. \A d \in RingConsumers \ {c} : rpc'[d] = "idle"
      BY <1>2, <1>3 DEF Users
    <2>4. QED
      BY <2>1, <2>2, <2>3 DEF ConsumerAt
  <1>6. QED
    BY <1>2, <1>3, <1>4, <1>5, ConsumerStep

(* tests it against the producer's, looks at the flag, copies the item and    *)
(* resets the flag; *)
LEMMA SingleTake ==
  ASSUME NEW m, NEW r, NEW s, NEW n, NEW t, NEW k, Numbers(m, r, s, n, t, k), NEW c \in RingConsumers,
         NEW ok, NEW v, TestEmpty(c) \/ TestFlag(c, ok) \/ ReadSlot(c) \/ SetFlag(c, "reset", v, "release")
  PROVE  Single(m, r, s, n, t, k)'
  <1> USE DEF Numbers
  <1>1. Counted(m, r, s, n, t, k) /\ ConsumerAt(c, m, s, n, t) /\ Queue(n, t) /\ c \in Users
    BY DEF Single, Users
  <1>2. rpc[c] \in {"empty", "filled", "read", "reset"} /\ \A d \in RingConsumers \ {c} : rpc[d] = "idle"
    BY <1>1 DEF ConsumerAt, TestEmpty, TestFlag, ReadSlot, SetFlag, At
  <1>3. \A u \in Users \ {c} : rpc'[u] = rpc[u] /\ idx'[u] = idx[u] /\ item'[u] = item[u]
    BY <1>1 DEF TestEmpty, TestFlag, ReadSlot, SetFlag, Goto, RingTypeOK
  <1>4. UNCHANGED <<ring, in, out, put, taken, slot, cache, idx>>
    BY DEF TestEmpty, TestFlag, ReadSlot, SetFlag
  <1>5. idx[c] = Index(m, s, t) /\ \A d \in RingConsumers \ {c} : rpc'[d] = "idle"
    BY <1>1, <1>2, <1>3 DEF ConsumerAt, Users
  <1>6. CASE TestEmpty(c)
    <2>1. PICK l \in {"idle", "filled", "read"} : Goto(c, l) /\ (l # "idle" => ~Empty(idx[c]))
      BY <1>6 DEF TestEmpty
    <2>2. rpc'[c] = l
      BY <1>1, <2>1 DEF Goto, RingTypeOK
    <2>3. t = n => Empty(idx[c])
      <3>1. SUFFICES ASSUME t = n PROVE Empty(idx[c])
        OBVIOUS
      <3>2. idx[c] = in /\ in \in Nat
        BY <1>1, <1>5, <3>1 DEF Counted, RingTypeOK
      <3>3. QED
        BY <3>2 DEF Empty
    <2>4. l # "idle" => t < n
      BY <1>1, <2>1, <2>3 DEF Queue
    <2>5. ConsumerAt(c, m, s, n, t)'
      BY <1>4, <1>5, <2>2, <2>4 DEF ConsumerAt
    <2>6. QED
      BY <1>2, <1>3, <1>4, <2>5, ConsumerStep
  <1>7. CASE TestFlag(c, ok)
    <2>1. rpc'[c] \in {"idle", "read"} /\ rpc[c] = "filled"
      BY <1>1, <1>7 DEF TestFlag, Goto, RingTypeOK, At
    <2>2. ConsumerAt(c, m, s, n, t)'
      BY <1>1, <1>4, <1>5, <2>1 DEF ConsumerAt
    <2>3. QED
      BY <1>2, <1>3, <1>4, <2>2, ConsumerStep
  <1>8. CASE ReadSlot(c)
    <2>1. rpc'[c] \in {"reset", "release"} /\ rpc[c] = "read"
      BY <1>1, <1>8 DEF ReadSlot, Goto, RingTypeOK, At
    <2>2. item'[c] = slot[SlotOf(idx[c])]
      BY <1>1, <1>8 DEF ReadSlot, RingTypeOK
    <2>3. t < n
      BY <1>1, <2>1 DEF ConsumerAt
    <2>4. SlotOf(idx[c]) = Pos(s, t)
      <3>1. m \in {Capacity, Wrap}
        BY <1>1, RingConstants DEF Counted
      <3>2. QED
        BY <1>5, <3>1, SlotOfIndex
    <2>5. slot[Pos(s, t)] = put[t + 1]
      <3>1. t \in t..(n - 1)
        BY <2>3
      <3>2. QED
        BY <1>1, <3>1 DEF Counted
    <2>6. ConsumerAt(c, m, s, n, t)'
      BY <1>4, <1>5, <2>1, <2>2, <2>3, <2>4, <2>5 DEF ConsumerAt
    <2>7. QED
      BY <1>2, <1>3, <1>4, <2>6, ConsumerStep
  <1>9. CASE SetFlag(c, "reset", v, "release")
    <2>1. rpc'[c] = "release" /\ rpc[c] = "reset" /\ item' = item
      BY <1>1, <1>9 DEF SetFlag, Goto, RingTypeOK, At
    <2>2. ConsumerAt(c, m, s, n, t)'
      BY <1>1, <1>4, <1>5, <2>1 DEF ConsumerAt
    <2>3. QED
      BY <1>2, <1>3, <1>4, <2>2, ConsumerStep
  <1>10. QED
    BY <1>6, <1>7, <1>8, <1>9

(* releasing the slot, one item more is taken.                               *)
LEMMA SingleRelease ==
  ASSUME NEW m, NEW r, NEW s, NEW n, NEW t, NEW k, Numbers(m, r, s, n, t, k),
         NEW c \in RingConsumers, ReleaseSlot(c)
  PROVE  Single(m, r, s, n, t + 1, k)'
  <1> USE DEF Numbers
  <1>1. Counted(m, r, s, n, t, k) /\ ConsumerAt(c, m, s, n, t) /\ Queue(n, t) /\ c \in Users
    BY DEF Single, Users
  <1>2. rpc[c] = "release" /\ t < n /\ item[c] = put[t + 1] /\ idx[c] = Index(m, s, t)
        /\ \A d \in RingConsumers \ {c} : rpc[d] = "idle"
    BY <1>1 DEF ConsumerAt, ReleaseSlot, At
  <1>3. m = Modulus /\ r = Room
    BY <1>1 DEF Counted
  <1>4. /\ out' = Succ(idx[c]) /\ taken' = Append(taken, item[c]) /\ Goto(c, "idle")
        /\ UNCHANGED <<ring, in, slot, cache, idx, put>>
    BY DEF ReleaseSlot
  <1>5. out' = Index(m, s, t + 1)
    BY <1>2, <1>3, <1>4, SuccIs
  <1>6. item[c] \in Goods /\ Len(taken) = t /\ taken \in Seq(Goods)
    BY <1>1 DEF RingTypeOK, Queue
  <1>7. Len(taken') = t + 1 /\ taken'[t + 1] = item[c] /\ \A i \in 1..t : taken'[i] = taken[i]
    BY <1>4, <1>6
  <1>8. \A u \in Users \ {c} : rpc'[u] = rpc[u] /\ idx'[u] = idx[u] /\ item'[u] = item[u]
    BY <1>1 DEF ReleaseSlot, Goto, RingTypeOK
  <1>9. Queue(n, t + 1)'
    <2>1. ASSUME NEW i \in 1..(t + 1) PROVE taken'[i] = put[i]
      <3>1. i = t + 1 \/ i \in 1..t
        OBVIOUS
      <3>2. QED
        BY <1>1, <1>2, <1>7, <3>1 DEF Queue
    <2>2. QED
      BY <1>1, <1>2, <1>4, <1>7, <2>1 DEF Queue
  <1>10. Counted(m, r, s, n, t + 1, k)'
    <2>1. ASSUME NEW j \in (t + 1)..(n - 1) PROVE slot'[Pos(s, j)] = put'[j + 1]
      <3>1. j \in t..(n - 1)
        OBVIOUS
      <3>2. QED
        BY <1>1, <1>4, <3>1 DEF Counted
    <2>2. n - t <= r /\ (ring \in Cached => k <= t)
      BY <1>1 DEF Counted
    <2>3. n - (t + 1) <= r /\ (ring \in Cached => k <= t + 1)
      BY <2>2
    <2>4. ring' = ring /\ Modulus' = Modulus /\ Room' = Room
      BY <1>4 DEF Modulus, Room
    <2>5. QED
      BY <1>1, <1>4, <1>5, <2>1, <2>3, <2>4 DEF Counted
  <1>11. ASSUME NEW p \in RingProducers PROVE ProducerAt(p, m, r, s, n, t + 1, k)'
    <2>1. p \in Users \ {c} /\ \A q \in RingProducers : q \in Users \ {c}
      BY RingsAssumption DEF Users
    <2>2. ProducerAt(p, m, r, s, n, t, k)
      BY DEF Single
    <2>3. n - t < r => n - (t + 1) < r
      OBVIOUS
    <2>4. QED
      BY <1>4, <1>8, <2>1, <2>2, <2>3 DEF ProducerAt
  <1>12. ASSUME NEW d \in RingConsumers PROVE ConsumerAt(d, m, s, n, t + 1)'
    <2>1. rpc'[d] = "idle"
      BY <1>1, <1>2, <1>4 DEF Goto, RingTypeOK, Users
    <2>2. QED
      BY <2>1 DEF ConsumerAt
  <1>13. QED
    BY <1>9, <1>10, <1>11, <1>12 DEF Single
-----------------------------------------------------------------------------
(* The steps of the classes.                                               *)

(* MPSCRing's push is its own, the others' is made of the same steps. *)
SinglePut(p) ==
  \/ LoadIn(p) \/ WriteSlot(p) \/ Publish(p) \/ Cas(p) \/ SetFlag(p, "fill", 1, "publish")
  \/ ring \notin Cached /\ TestFull(p, out)
  \/ ring \in Cached /\ TestFullCached(p)
MultiPut(p) == LoadIn(p) \/ Claim(p) \/ WriteSlot(p) \/ SetFlag(p, "fill", Succ(idx[p]), "idle")

(* ... and so its pop. *)
SingleTakes(c) ==
  \/ LoadOut(c) \/ ReleaseSlot(c) \/ TestEmpty(c) \/ ReadSlot(c)
  \/ TestFlag(c, flag[SlotOf(idx[c])] = 1) \/ SetFlag(c, "reset", 0, "release")
MultiTakes(c) ==
  \/ LoadOut(c) \/ ReleaseSlot(c) \/ ReadSlot(c) \/ TestFlag(c, flag[SlotOf(idx[c])] = Succ(idx[c]))
  \/ SetFlag(c, "reset", (idx[c] + Capacity) % Wrap, "release")

(* A step of a class is one of these. *)
LEMMA RingSteps ==
  ASSUME NEW u
  PROVE  /\ PutStep(u) => IF ring = "MPSCRing" THEN MultiPut(u) ELSE SinglePut(u)
         /\ TakeStep(u) => IF ring = "MPSCRing" THEN MultiTakes(u) ELSE SingleTakes(u)
  <1>1. ASSUME PutStep(u) PROVE IF ring = "MPSCRing" THEN MultiPut(u) ELSE SinglePut(u)
    BY <1>1 DEF PutStep, MultiPut, SinglePut, Cached, Put, PutCached, MPSCQueue_enqueue, SPSCQueue_enqueue,
       MPSCLinked_enqueue, SPSCCached_enqueue, SPSCRingBuffer_push, MPSCRingBuffer_push, lq_enqueue,
       lock_queue_push, q_try_push, system_push, what_push, my_push, shm_producer
  <1>2. ASSUME TakeStep(u) PROVE IF ring = "MPSCRing" THEN MultiTakes(u) ELSE SingleTakes(u)
    BY <1>2 DEF TakeStep, MultiTakes, SingleTakes, Take, MPSCQueue_dequeue, SPSCQueue_dequeue,
       MPSCLinked_dequeue, SPSCCached_dequeue, SPSCRingBuffer_pop, MPSCRingBuffer_pop, lq_dequeue,
       lock_queue_pop, q_try_pop, system_pop, what_pop, my_pop, shm_consumer
  <1>3. QED
    BY <1>1, <1>2

(* Every step keeps the types. *)
LEMMA RingTypeStep == ASSUME RingTypeOK, RingNext PROVE RingTypeOK'
  <1>1. ASSUME NEW i \in Nat PROVE SlotOf(i) \in 0..(Capacity - 1) /\ Succ(i) \in Nat /\ (i + Capacity) % Wrap \in Nat
    <2>1. Capacity \in Nat \ {0} /\ Wrap \in Nat \ {0} /\ i \in Int /\ i + 1 \in Int /\ i + Capacity \in Int
      BY RingConstants
    <2>2. i % Capacity \in 0..(Capacity - 1) /\ (i + 1) % Capacity \in 0..(Capacity - 1)
          /\ (i + 1) % Wrap \in 0..(Wrap - 1) /\ (i + Capacity) % Wrap \in 0..(Wrap - 1)
      BY <2>1, Divided
    <2>3. QED
      BY <2>2 DEF SlotOf, Succ
  <1>2. NoItem \in Goods /\ \A l \in {"idle", "full", "refresh", "write", "fill", "publish", "seq", "cas",
                                     "empty", "filled", "read", "reset", "release"} : l \in RingPcs
    BY DEF Goods, RingPcs
  <1>3. ASSUME NEW u \in Users, NEW l \in RingPcs, Goto(u, l) PROVE rpc' \in [Users -> RingPcs]
    BY <1>3 DEF Goto, RingTypeOK
  <1>4. ASSUME NEW p \in RingProducers, PutStep(p) PROVE RingTypeOK'
    <2>1. p \in Users /\ SlotOf(idx[p]) \in 0..(Capacity - 1) /\ Succ(idx[p]) \in Nat /\ Succ(in) \in Nat
          /\ item[p] \in Goods /\ idx[p] \in Nat
      BY <1>1 DEF RingTypeOK, Users
    <2>2. Append(put, item[p]) \in Seq(Goods) /\ Len(put) \in Nat
      BY <2>1, AppendProperties DEF RingTypeOK
    <2>3. \/ LoadIn(p) \/ WriteSlot(p) \/ Publish(p) \/ Cas(p) \/ TestFull(p, out) \/ TestFullCached(p) \/ Claim(p)
          \/ SetFlag(p, "fill", 1, "publish") \/ SetFlag(p, "fill", Succ(idx[p]), "idle")
      BY <1>4, RingSteps DEF SinglePut, MultiPut
    <2>4. CASE LoadIn(p)
      <3>1. rpc' \in [Users -> RingPcs]
        BY <1>2, <1>3, <2>1, <2>4 DEF LoadIn
      <3>2. item' \in [Users -> Goods]
        BY <2>1, <2>2, <2>4 DEF LoadIn, RingTypeOK, Goods
      <3>3. QED
        BY <2>1, <2>4, <3>1, <3>2 DEF LoadIn, RingTypeOK
    <2>5. CASE WriteSlot(p)
      <3>1. rpc' \in [Users -> RingPcs]
        BY <1>2, <1>3, <2>1, <2>5 DEF WriteSlot
      <3>2. QED
        BY <2>1, <2>5, <3>1 DEF WriteSlot, RingTypeOK
    <2>6. CASE Publish(p)
      <3>1. rpc' \in [Users -> RingPcs]
        BY <1>2, <1>3, <2>1, <2>6 DEF Publish
      <3>2. QED
        BY <2>1, <2>2, <2>6, <3>1 DEF Publish, RingTypeOK
    <2>7. CASE Cas(p)
      <3>1. rpc' \in [Users -> RingPcs]
        BY <1>2, <1>3, <2>1, <2>7 DEF Cas, RingTypeOK
      <3>2. idx' \in [Users -> Nat] /\ in' \in Nat /\ put' \in Seq(Goods)
        BY <2>1, <2>2, <2>7 DEF Cas, RingTypeOK
      <3>3. QED
        BY <2>7, <3>1, <3>2 DEF Cas, RingTypeOK
    <2>8. CASE TestFull(p, out)
      <3>1. rpc' \in [Users -> RingPcs]
        BY <1>2, <1>3, <2>1, <2>8 DEF TestFull
      <3>2. QED
        BY <2>8, <3>1 DEF TestFull, RingTypeOK
    <2>9. CASE TestFullCached(p)
      <3>1. rpc' \in [Users -> RingPcs]
        BY <1>2, <1>3, <2>1, <2>9 DEF TestFullCached
      <3>2. QED
        BY <2>9, <3>1 DEF TestFullCached, RingTypeOK
    <2>10. CASE Claim(p)
      <3>1. rpc' \in [Users -> RingPcs]
        BY <1>2, <1>3, <2>1, <2>10 DEF Claim
      <3>2. idx' \in [Users -> Nat] /\ in' \in Nat /\ put' \in Seq(Goods)
        BY <2>1, <2>2, <2>10 DEF Claim, RingTypeOK
      <3>3. QED
        BY <2>10, <3>1, <3>2 DEF Claim, RingTypeOK
    <2>11. ASSUME NEW v \in Nat, NEW l \in RingPcs, SetFlag(p, "fill", v, l) PROVE RingTypeOK'
      <3>1. rpc' \in [Users -> RingPcs]
        BY <1>3, <2>1, <2>11 DEF SetFlag
      <3>2. QED
        BY <2>1, <2>11, <3>1 DEF SetFlag, RingTypeOK
    <2>12. QED
      BY <1>2, <2>1, <2>3, <2>4, <2>5, <2>6, <2>7, <2>8, <2>9, <2>10, <2>11
  <1>5. ASSUME NEW c \in RingConsumers, TakeStep(c) PROVE RingTypeOK'
    <2>1. c \in Users /\ SlotOf(idx[c]) \in 0..(Capacity - 1) /\ Succ(idx[c]) \in Nat
          /\ (idx[c] + Capacity) % Wrap \in Nat /\ item[c] \in Goods /\ idx[c] \in Nat
      BY <1>1 DEF RingTypeOK, Users
    <2>2. Append(taken, item[c]) \in Seq(Goods)
      BY <2>1, AppendProperties DEF RingTypeOK
    <2>3. \/ LoadOut(c) \/ ReleaseSlot(c) \/ TestEmpty(c) \/ ReadSlot(c) \/ (\E ok : TestFlag(c, ok))
          \/ SetFlag(c, "reset", 0, "release") \/ SetFlag(c, "reset", (idx[c] + Capacity) % Wrap, "release")
      BY <1>5, RingSteps DEF SingleTakes, MultiTakes
    <2>4. CASE LoadOut(c)
      <3>1. rpc' \in [Users -> RingPcs]
        BY <1>2, <1>3, <2>1, <2>4 DEF LoadOut
      <3>2. QED
        BY <2>1, <2>4, <3>1 DEF LoadOut, RingTypeOK
    <2>5. CASE ReleaseSlot(c)
      <3>1. rpc' \in [Users -> RingPcs]
        BY <1>2, <1>3, <2>1, <2>5 DEF ReleaseSlot
      <3>2. QED
        BY <1>2, <2>1, <2>2, <2>5, <3>1 DEF ReleaseSlot, RingTypeOK
    <2>6. CASE TestEmpty(c)
      <3>1. rpc' \in [Users -> RingPcs]
        BY <1>2, <1>3, <2>1, <2>6 DEF TestEmpty
      <3>2. QED
        BY <2>6, <3>1 DEF TestEmpty, RingTypeOK
    <2>7. CASE ReadSlot(c)
      <3>1. rpc' \in [Users -> RingPcs]
        BY <1>2, <1>3, <2>1, <2>7 DEF ReadSlot
      <3>2. QED
        BY <2>1, <2>7, <3>1 DEF ReadSlot, RingTypeOK
    <2>8. ASSUME NEW ok, TestFlag(c, ok) PROVE RingTypeOK'
      <3>1. rpc' \in [Users -> RingPcs]
        BY <1>2, <1>3, <2>1, <2>8 DEF TestFlag
      <3>2. QED
        BY <2>8, <3>1 DEF TestFlag, RingTypeOK
    <2>9. ASSUME NEW v \in Nat, SetFlag(c, "reset", v, "release") PROVE RingTypeOK'
      <3>1. rpc' \in [Users -> RingPcs]
        BY <1>2, <1>3, <2>1, <2>9 DEF SetFlag
      <3>2. QED
        BY <2>1, <2>9, <3>1 DEF SetFlag, RingTypeOK
    <2>10. QED
      BY <2>1, <2>3, <2>4, <2>5, <2>6, <2>7, <2>8, <2>9
  <1>6. QED
    BY <1>4, <1>5 DEF RingNext

(* Every step of a class with one producer keeps the invariant. *)
LEMMA SingleSteps ==
  ASSUME AsIntended, NEW m, NEW r, NEW s, NEW n, NEW t, NEW k, Numbers(m, r, s, n, t, k), RingNext
  PROVE  \E a, b, c \in Nat : Single(m, r, s, a, b, c)'
  <1> USE DEF Numbers
  <1>0. ring # "MPSCRing"
    BY DEF Single, Counted
  <1>1. ASSUME NEW p \in RingProducers, PutStep(p) PROVE \E a, b, c \in Nat : Single(m, r, s, a, b, c)'
    <2>1. SinglePut(p)
      BY <1>0, <1>1, RingSteps
    <2>2. n + 1 \in Nat
      OBVIOUS
    <2>3. LoadIn(p) \/ WriteSlot(p) \/ SetFlag(p, "fill", 1, "publish") \/ (ring \notin Cached /\ TestFull(p, out))
          => Single(m, r, s, n, t, k)'
      BY SingleLoadIn, SingleWrite, SingleFill, SingleTestFull
    <2>4. Publish(p) \/ Cas(p) => Single(m, r, s, n + 1, t, k)'
      BY SinglePublish
    <2>5. ring \in Cached /\ TestFullCached(p) => \E j \in Nat : Single(m, r, s, n, t, j)'
      BY SingleTestCached
    <2>6. QED
      BY <2>1, <2>2, <2>3, <2>4, <2>5 DEF SinglePut
  <1>2. ASSUME NEW c \in RingConsumers, TakeStep(c) PROVE \E a, b, d \in Nat : Single(m, r, s, a, b, d)'
    <2>1. SingleTakes(c)
      BY <1>0, <1>2, RingSteps
    <2>2. t + 1 \in Nat
      OBVIOUS
    <2>3. LoadOut(c) => Single(m, r, s, n, t, k)'
      BY SingleLoadOut
    <2>4. ReleaseSlot(c) => Single(m, r, s, n, t + 1, k)'
      BY SingleRelease
    <2>5. TestEmpty(c) \/ TestFlag(c, flag[SlotOf(idx[c])] = 1) \/ ReadSlot(c) \/ SetFlag(c, "reset", 0, "release")
          => Single(m, r, s, n, t, k)'
      BY SingleTake
    <2>6. QED
      BY <2>1, <2>2, <2>3, <2>4, <2>5 DEF SingleTakes
  <1>3. QED
    BY <1>1, <1>2 DEF RingNext
-----------------------------------------------------------------------------
(* The MPSCRing, with several producers.                                    *)

(* The sequence number of a slot that waits for item i, or holds it: i is    *)
(* among the next Capacity items after the e-th, whose slot is free.         *)
SlotFor(s, n, i) ==
  \/ flag[Pos(s, i)] = Index(Wrap, s, i)
  \/ flag[Pos(s, i)] = Index(Wrap, s, i + 1) /\ i < n /\ slot[Pos(s, i)] = put[i + 1]

(* A producer before its compare-and-swap knows an index, old or new; if it   *)
(* is the next one, it has seen the slot free.                               *)
Claiming(p, s, n, e) ==
  rpc[p] \in {"seq", "cas"} =>
    \E a \in 0..n : idx[p] = Index(Wrap, s, a) /\ (rpc[p] = "cas" /\ a = n => n < e + Capacity)

(* After it, the slot of item a is its own. *)
Claimed(p, s, n, e) ==
  rpc[p] \in {"write", "fill"} =>
    \E a \in e..(n - 1) :
       /\ idx[p] = Index(Wrap, s, a) /\ item[p] = put[a + 1]
       /\ flag[Pos(s, a)] = Index(Wrap, s, a)
       /\ rpc[p] = "fill" => slot[Pos(s, a)] = put[a + 1]

(* The consumer works on item t, and has found it when it reads; it has      *)
(* given the slot back when it releases.                                    *)
Consuming(c, s, n, t, e) ==
  rpc[c] # "idle" =>
    /\ rpc[c] \in {"filled", "read", "reset", "release"}
    /\ idx[c] = Index(Wrap, s, t)
    /\ \A d \in RingConsumers \ {c} : rpc[d] = "idle"
    /\ rpc[c] # "filled" => t < n
    /\ rpc[c] \in {"read", "reset"} => flag[Pos(s, t)] = Index(Wrap, s, t + 1)
    /\ rpc[c] \in {"reset", "release"} => item[c] = put[t + 1]

(* Items before the e-th have left their slots: those taken, and the one     *)
(* that the consumer is about to release.                                  *)
Freed(t, e) ==
  \/ e = t /\ \A c \in RingConsumers : rpc[c] # "release"
  \/ e = t + 1 /\ \E c \in RingConsumers : rpc[c] = "release"

(* the invariant, for a queue whose indices started at s *)
Multi(s, n, t, e) ==
  /\ ring \in Rings /\ ring = "MPSCRing" /\ Queue(n, t) /\ Freed(t, e)
  /\ n <= MaxItems /\ e <= n /\ n <= e + Capacity
  /\ in = Index(Wrap, s, n) /\ out = Index(Wrap, s, t)
  /\ \A i \in e..(e + Capacity - 1) : SlotFor(s, n, i)
  /\ \A p \in RingProducers :
       /\ rpc[p] \in {"idle", "seq", "cas", "write", "fill"}
       /\ Claiming(p, s, n, e) /\ Claimed(p, s, n, e)
  /\ \A p, q \in RingProducers :
       p # q /\ rpc[p] \in {"write", "fill"} /\ rpc[q] \in {"write", "fill"} => idx[p] # idx[q]
  /\ \A c \in RingConsumers : Consuming(c, s, n, t, e)
(* the context of the lemmas on one step *)
Many(s, n, t, e) ==
  /\ s \in Nat /\ n \in Nat /\ t \in Nat /\ e \in Nat
  /\ AsIntended /\ RingTypeOK /\ Multi(s, n, t, e)

(* Of the items in reach, no two have the same index, and of a round no two   *)
(* have the same slot.                                                      *)
LEMMA ManyIndices ==
  ASSUME NEW s, NEW n, NEW t, NEW e, Many(s, n, t, e)
  PROVE  /\ Capacity \in Nat /\ Capacity > 1 /\ Wrap \in Nat \ {0} /\ MaxItems \in Nat
         /\ n <= MaxItems /\ e <= n /\ n <= e + Capacity /\ t <= n /\ (e = t \/ e = t + 1)
         /\ \A i, j \in 0..(MaxItems + Capacity) : Index(Wrap, s, i) = Index(Wrap, s, j) => i = j
         /\ \A i, j \in e..(e + Capacity) : Pos(s, i) = Pos(s, j) /\ i < j => i = e /\ j = e + Capacity
         /\ \A i \in Nat : /\ SlotOf(Index(Wrap, s, i)) = Pos(s, i) /\ Pos(s, i) \in 0..(Capacity - 1)
                           /\ Succ(Index(Wrap, s, i)) = Index(Wrap, s, i + 1) /\ Index(Wrap, s, i) \in 0..(Wrap - 1)
  <1> USE DEF Many
  <1>1. /\ Capacity \in Nat /\ Capacity > 1 /\ Wrap \in Nat \ {0} /\ MaxItems \in Nat /\ MaxItems + 2 * Capacity < Wrap
    BY RingConstants, RingsAssumption DEF AsIntended, Multi
  <1>2. n <= MaxItems /\ e <= n /\ n <= e + Capacity /\ t <= n /\ (e = t \/ e = t + 1)
    BY DEF Multi, Freed, Queue
  <1>3. ASSUME NEW i \in 0..(MaxItems + Capacity), NEW j \in 0..(MaxItems + Capacity),
               Index(Wrap, s, i) = Index(Wrap, s, j)
        PROVE  i = j
    <2>1. i \in Nat /\ j \in Nat /\ i - j < Wrap /\ j - i < Wrap
      BY <1>1
    <2>2. i <= j \/ j <= i
      BY <2>1
    <2>3. QED
      BY <1>1, <1>3, <2>1, <2>2, IndexSame
  <1>4. ASSUME NEW i \in e..(e + Capacity), NEW j \in e..(e + Capacity), Pos(s, i) = Pos(s, j), i < j
        PROVE  i = e /\ j = e + Capacity
    <2>1. i \in Nat /\ j \in Nat /\ i <= j
      BY <1>1, <1>4
    <2>2. ~(j - i < Capacity)
      BY <1>4, <2>1, PosSame
    <2>3. QED
      BY <1>1, <1>4, <2>1, <2>2
  <1>5. ASSUME NEW i \in Nat
        PROVE  /\ SlotOf(Index(Wrap, s, i)) = Pos(s, i) /\ Pos(s, i) \in 0..(Capacity - 1)
               /\ Succ(Index(Wrap, s, i)) = Index(Wrap, s, i + 1) /\ Index(Wrap, s, i) \in 0..(Wrap - 1)
    <2>1. SlotOf(Index(Wrap, s, i)) = Pos(s, i)
      BY SlotOfIndex
    <2>2. Pos(s, i) \in 0..(Capacity - 1) /\ Index(Wrap, s, i) \in 0..(Wrap - 1)
      BY <1>1, IndexRange
    <2>3. Modulus = Wrap
      BY DEF Modulus, Modular, Multi
    <2>4. Succ(Index(Modulus, s, i)) = Index(Modulus, s, i + 1)
      BY SuccIs
    <2>5. QED
      BY <2>1, <2>2, <2>3, <2>4
  <1>6. QED
    BY <1>1, <1>2, <1>3, <1>4, <1>5

(* A producer that waits, or gives up, disturbs nobody. *)
LEMMA ManyWaits ==
  ASSUME NEW s, NEW n, NEW t, NEW e, Many(s, n, t, e), NEW p \in RingProducers,
         rpc'[p] \in {"idle", "seq", "cas"}, Claiming(p, s, n, e)',
         \A u \in Users \ {p} : rpc'[u] = rpc[u] /\ idx'[u] = idx[u] /\ item'[u] = item[u],
         UNCHANGED <<ring, in, out, slot, flag, put, taken>>
  PROVE  Multi(s, n, t, e)'
  <1> USE DEF Many
  <1>1. \A c \in RingConsumers : c \in Users \ {p}
    BY RingsAssumption DEF Users
  <1>2. Queue(n, t)' /\ Freed(t, e)'
    BY <1>1 DEF Multi, Queue, Freed
  <1>3. \A i \in e..(e + Capacity - 1) : SlotFor(s, n, i)'
    BY DEF Multi, SlotFor
  <1>4. ASSUME NEW q \in RingProducers
        PROVE  /\ rpc'[q] \in {"idle", "seq", "cas", "write", "fill"}
               /\ Claiming(q, s, n, e)' /\ Claimed(q, s, n, e)'
    <2>1. CASE q = p
      BY <2>1 DEF Claimed
    <2>2. CASE q # p
      <3>1. q \in Users \ {p}
        BY <2>2 DEF Users
      <3>2. rpc[q] \in {"idle", "seq", "cas", "write", "fill"} /\ Claiming(q, s, n, e) /\ Claimed(q, s, n, e)
        BY DEF Multi
      <3>3. QED
        BY <3>1, <3>2 DEF Claiming, Claimed
    <2>3. QED
      BY <2>1, <2>2
  <1>5. ASSUME NEW q \in RingProducers, NEW v \in RingProducers, q # v,
               rpc'[q] \in {"write", "fill"}, rpc'[v] \in {"write", "fill"}
        PROVE  idx'[q] # idx'[v]
    <2>1. q \in Users \ {p} /\ v \in Users \ {p}
      BY <1>5 DEF Users
    <2>2. QED
      BY <1>5, <2>1 DEF Multi
  <1>6. ASSUME NEW c \in RingConsumers PROVE Consuming(c, s, n, t, e)'
    <2>1. Consuming(c, s, n, t, e)
      BY DEF Multi
    <2>2. QED
      BY <1>1, <2>1 DEF Consuming
  <1>7. /\ ring' \in Rings /\ ring' = "MPSCRing" /\ n <= MaxItems /\ e <= n /\ n <= e + Capacity
        /\ in' = Index(Wrap, s, n) /\ out' = Index(Wrap, s, t)
    BY DEF Multi
  <1>8. QED
    BY <1>2, <1>3, <1>4, <1>5, <1>6, <1>7 DEF Multi

(* Loading the index begins a put, *)
LEMMA ManyLoadIn ==
  ASSUME NEW s, NEW n, NEW t, NEW e, Many(s, n, t, e), NEW p \in RingProducers, LoadIn(p)
  PROVE  Multi(s, n, t, e)'
  <1> USE DEF Many
  <1>1. p \in Users /\ ring = "MPSCRing" /\ in = Index(Wrap, s, n)
    BY DEF Multi, Users
  <1>2. rpc'[p] = "seq" /\ idx'[p] = Index(Wrap, s, n)
    BY <1>1 DEF LoadIn, Goto, RingTypeOK
  <1>3. \A u \in Users \ {p} : rpc'[u] = rpc[u] /\ idx'[u] = idx[u] /\ item'[u] = item[u]
    BY <1>1 DEF LoadIn, Goto, RingTypeOK
  <1>4. Claiming(p, s, n, e)'
    BY <1>2 DEF Claiming
  <1>5. QED
    BY <1>2, <1>3, <1>4, ManyWaits DEF LoadIn

(* a sequence number that is the index, seen for the next item, is that of a  *)
(* free slot, *)
LEMMA SeenFree ==
  ASSUME NEW s, NEW n, NEW t, NEW e, Many(s, n, t, e),
         Signed(Minus(flag[Pos(s, n)], Index(Wrap, s, n))) = 0
  PROVE  n < e + Capacity
  <1> USE DEF Many
  <1>0. n <= e + Capacity /\ Capacity \in Nat
    BY ManyIndices
  <1>1. SUFFICES ASSUME n = e + Capacity PROVE FALSE
    BY <1>0
  <1>2. Capacity \in Nat /\ Capacity > 1 /\ Wrap \in Nat \ {0} /\ n <= MaxItems /\ MaxItems \in Nat
    BY ManyIndices
  <1>3. e \in e..(e + Capacity - 1) /\ e \in Nat /\ e + 1 \in Nat /\ n \in Nat
        /\ e \in 0..(MaxItems + Capacity) /\ e + 1 \in 0..(MaxItems + Capacity) /\ n \in 0..(MaxItems + Capacity)
        /\ e # n /\ e + 1 # n
    BY <1>1, <1>2
  <1>4. Pos(s, e) = Pos(s, n)
    <2>1. Index(Capacity, s, e + Capacity) = Index(Capacity, s, e)
      BY <1>2, IndexAgain
    <2>2. QED
      BY <1>1, <2>1 DEF Index, Pos
  <1>5. flag[Pos(s, n)] = Index(Wrap, s, e) \/ flag[Pos(s, n)] = Index(Wrap, s, e + 1)
    BY <1>3, <1>4 DEF Multi, SlotFor
  <1>6. PICK f \in 0..(Wrap - 1) : f = flag[Pos(s, n)] /\ f # Index(Wrap, s, n)
    <2>1. Index(Wrap, s, e) # Index(Wrap, s, n) /\ Index(Wrap, s, e + 1) # Index(Wrap, s, n)
      BY <1>3, ManyIndices
    <2>2. Index(Wrap, s, e) \in 0..(Wrap - 1) /\ Index(Wrap, s, e + 1) \in 0..(Wrap - 1)
      BY <1>3, ManyIndices
    <2>3. QED
      BY <1>5, <2>1, <2>2
  <1>7. PICK i \in 0..(Wrap - 1) : i = Index(Wrap, s, n)
    BY <1>3, ManyIndices
  <1>8. Minus(f, i) = 0 \/ Minus(f, i) = Wrap
    <2>1. Signed(Minus(f, i)) = 0
      BY <1>6, <1>7
    <2>2. f - i \in Int /\ Minus(f, i) \in Nat
      BY <1>2 DEF Minus
    <2>3. QED
      BY <1>2, <2>1, <2>2 DEF Signed
  <1>9. Minus(f, i) = IF f >= i THEN f - i ELSE (f - i) + Wrap
    <2>1. CASE f >= i
      <3>1. f - i \in 0..(Wrap - 1) /\ f - i \in Int /\ 0 \in Int /\ f - i = Wrap * 0 + (f - i)
        BY <1>2, <2>1
      <3>2. (f - i) % Wrap = f - i
        BY <1>2, <3>1, RemainderIs
      <3>3. QED
        BY <2>1, <3>2 DEF Minus
    <2>2. CASE f < i
      <3>1. (f - i) + Wrap \in 0..(Wrap - 1) /\ f - i \in Int /\ -1 \in Int /\ f - i = Wrap * (-1) + ((f - i) + Wrap)
        BY <1>2, <2>2
      <3>2. (f - i) % Wrap = (f - i) + Wrap
        BY <1>2, <3>1, RemainderIs
      <3>3. QED
        BY <2>2, <3>2 DEF Minus
    <2>3. QED
      BY <2>1, <2>2
  <1>10. QED
    BY <1>2, <1>6, <1>7, <1>8, <1>9
(* and a producer that has not claimed a slot looks at the number again, or   *)
(* after a failed compare-and-swap at the next one.                          *)
LEMMA ManyLooks ==
  ASSUME NEW s, NEW n, NEW t, NEW e, Many(s, n, t, e), NEW p \in RingProducers, Claim(p), in' = in
  PROVE  Multi(s, n, t, e)'
  <1> USE DEF Many
  <1>1. p \in Users /\ ring = "MPSCRing" /\ in = Index(Wrap, s, n) /\ Claiming(p, s, n, e)
    BY DEF Multi, Users
  <1>2. rpc[p] \in {"seq", "cas"}
    BY DEF Claim, At
  <1>3. PICK a \in 0..n : idx[p] = Index(Wrap, s, a)
    BY <1>1, <1>2 DEF Claiming
  <1>4. ~(in = idx[p] /\ in' = Succ(in))
    <2>1. Index(Wrap, s, n) # Index(Wrap, s, n + 1)
      <3>1. n \in 0..(MaxItems + Capacity) /\ n + 1 \in 0..(MaxItems + Capacity) /\ n # n + 1
        BY ManyIndices
      <3>2. QED
        BY <3>1, ManyIndices
    <2>2. Succ(in) = Index(Wrap, s, n + 1)
      BY <1>1, ManyIndices
    <2>3. QED
      BY <1>1, <2>1, <2>2
  <1>5. UNCHANGED <<ring, out, slot, flag, item, put, taken>>
    BY <1>4 DEF Claim
  <1>6. \A u \in Users \ {p} : rpc'[u] = rpc[u] /\ idx'[u] = idx[u] /\ item'[u] = item[u]
    BY <1>1, <1>4 DEF Claim, Goto, RingTypeOK
  <1>7. rpc'[p] \in {"idle", "seq", "cas"} /\ Claiming(p, s, n, e)'
    <2>1. CASE rpc[p] = "seq"
      <3>1. PICK diff : diff = Signed(Minus(flag[Pos(s, a)], Index(Wrap, s, a)))
        OBVIOUS
      <3>2. diff = Signed(Minus(flag[SlotOf(idx[p])], idx[p]))
        BY <1>3, <3>1, ManyIndices
      <3>3. /\ idx' = [idx EXCEPT ![p] = IF diff > 0 THEN in ELSE idx[p]]
            /\ rpc' = [rpc EXCEPT ![p] = IF diff = 0 THEN "cas" ELSE IF diff < 0 THEN "idle" ELSE "seq"]
        BY <2>1, <3>2 DEF Claim, At, Goto
      <3>4. rpc'[p] \in {"idle", "seq", "cas"} /\ (rpc'[p] = "cas" => diff = 0) /\ idx'[p] \in {in, idx[p]}
            /\ (rpc'[p] = "cas" => idx'[p] = idx[p])
        BY <1>1, <3>3 DEF RingTypeOK
      <3>5. CASE rpc'[p] = "cas"
        <4>1. a = n => n < e + Capacity
          BY <3>1, <3>4, <3>5, SeenFree
        <4>2. QED
          BY <1>3, <3>4, <3>5, <4>1 DEF Claiming
      <3>6. CASE rpc'[p] # "cas"
        <4>1. n \in 0..n
          OBVIOUS
        <4>2. QED
          BY <1>1, <1>3, <3>4, <3>6, <4>1 DEF Claiming
      <3>7. QED
        BY <3>4, <3>5, <3>6
    <2>2. CASE rpc[p] = "cas"
      <3>1. rpc'[p] = "seq" /\ idx'[p] = Index(Wrap, s, n)
        BY <1>1, <1>4, <2>2 DEF Claim, At, Goto, RingTypeOK
      <3>2. QED
        BY <3>1 DEF Claiming
    <2>3. QED
      BY <1>2, <2>1, <2>2
  <1>8. QED
    BY <1>5, <1>6, <1>7, ManyWaits

(* The compare-and-swap that succeeds claims the slot of the next item.       *)
LEMMA ManyClaims ==
  ASSUME NEW s, NEW n, NEW t, NEW e, Many(s, n, t, e), NEW p \in RingProducers, Claim(p), in' # in
  PROVE  Multi(s, n + 1, t, e)'
  <1> USE DEF Many
  <1>1. p \in Users /\ ring = "MPSCRing" /\ in = Index(Wrap, s, n) /\ Claiming(p, s, n, e) /\ Queue(n, t)
    BY DEF Multi, Users
  <1>2. /\ rpc[p] = "cas" /\ in = idx[p] /\ Len(put) < MaxItems /\ in' = Succ(in) /\ put' = Append(put, item[p])
        /\ Goto(p, "write") /\ UNCHANGED <<ring, out, slot, flag, idx, item, taken>>
    BY DEF Claim, At
  <1>3. n < MaxItems /\ n < e + Capacity /\ n \in e..(e + Capacity - 1)
    <2>1. PICK a \in 0..n : idx[p] = Index(Wrap, s, a) /\ (a = n => n < e + Capacity)
      BY <1>1, <1>2 DEF Claiming
    <2>2. a \in 0..(MaxItems + Capacity) /\ n \in 0..(MaxItems + Capacity)
      BY ManyIndices
    <2>3. a = n
      <3>1. \A i, j \in 0..(MaxItems + Capacity) : Index(Wrap, s, i) = Index(Wrap, s, j) => i = j
        BY ManyIndices
      <3>2. Index(Wrap, s, a) = Index(Wrap, s, n)
        BY <1>1, <1>2, <2>1
      <3>3. QED
        BY <2>2, <3>1, <3>2
    <2>4. e <= n /\ Capacity \in Nat
      BY ManyIndices
    <2>5. QED
      BY <1>1, <1>2, <2>1, <2>3, <2>4 DEF Queue
  <1>4. in' = Index(Wrap, s, n + 1)
    BY <1>1, <1>2, ManyIndices
  <1>5. Len(put') = n + 1 /\ put'[n + 1] = item[p] /\ \A i \in 1..n : put'[i] = put[i]
    <2>1. put \in Seq(Goods) /\ item[p] \in Goods /\ Len(put) = n
      BY <1>1 DEF RingTypeOK, Queue
    <2>2. put' = Append(put, item[p])
      BY <1>2
    <2>3. QED
      BY <2>1, <2>2, AppendProperties
  <1>6. rpc'[p] = "write" /\ \A u \in Users \ {p} : rpc'[u] = rpc[u]
    BY <1>1, <1>2 DEF Goto, RingTypeOK
  <1>7. flag[Pos(s, n)] = Index(Wrap, s, n)
    BY <1>3 DEF Multi, SlotFor
  <1>8. \A c \in RingConsumers : c \in Users \ {p}
    BY RingsAssumption DEF Users
  <1>9. Queue(n + 1, t)' /\ Freed(t, e)'
    <2>1. Freed(t, e) /\ \A c \in RingConsumers : rpc'[c] = rpc[c]
      BY <1>6, <1>8 DEF Multi
    <2>2. Freed(t, e)'
      BY <2>1 DEF Freed
    <2>3. t <= n + 1 /\ \A i \in 1..t : i \in 1..n
      BY <1>1 DEF Queue
    <2>4. Queue(n + 1, t)'
      BY <1>1, <1>2, <1>5, <2>3 DEF Queue
    <2>5. QED
      BY <2>2, <2>4
  <1>10. ASSUME NEW i \in e..(e + Capacity - 1) PROVE SlotFor(s, n + 1, i)'
    <2>1. SlotFor(s, n, i)
      BY DEF Multi
    <2>2. i < n => i < n + 1 /\ i + 1 \in 1..n
      BY ManyIndices
    <2>3. QED
      BY <1>2, <1>5, <2>1, <2>2 DEF SlotFor
  <1>11. ASSUME NEW q \in RingProducers
         PROVE  /\ rpc'[q] \in {"idle", "seq", "cas", "write", "fill"}
                /\ Claiming(q, s, n + 1, e)' /\ Claimed(q, s, n + 1, e)'
    <2>1. CASE q = p
      <3>1. n \in e..((n + 1) - 1)
        BY <1>3
      <3>2. idx'[p] = Index(Wrap, s, n) /\ item'[p] = put'[n + 1] /\ flag'[Pos(s, n)] = Index(Wrap, s, n)
        BY <1>1, <1>2, <1>5, <1>7
      <3>3. Claimed(p, s, n + 1, e)'
        BY <1>6, <3>1, <3>2 DEF Claimed
      <3>4. QED
        BY <1>6, <2>1, <3>3 DEF Claiming
    <2>2. CASE q # p
      <3>1. rpc'[q] = rpc[q]
        BY <1>6, <2>2 DEF Users
      <3>2. rpc[q] \in {"idle", "seq", "cas", "write", "fill"} /\ Claiming(q, s, n, e) /\ Claimed(q, s, n, e)
        BY DEF Multi
      <3>3. Claiming(q, s, n + 1, e)'
        <4>1. SUFFICES ASSUME rpc[q] \in {"seq", "cas"} PROVE Claiming(q, s, n + 1, e)'
          BY <3>1 DEF Claiming
        <4>2. PICK a \in 0..n : idx[q] = Index(Wrap, s, a)
          BY <3>2, <4>1 DEF Claiming
        <4>3. a \in 0..(n + 1) /\ a # n + 1 /\ idx'[q] = Index(Wrap, s, a)
          BY <1>2, <4>2
        <4>4. QED
          BY <4>3 DEF Claiming
      <3>4. Claimed(q, s, n + 1, e)'
        <4>1. SUFFICES ASSUME rpc[q] \in {"write", "fill"} PROVE Claimed(q, s, n + 1, e)'
          BY <3>1 DEF Claimed
        <4>2. PICK a \in e..(n - 1) :
                /\ idx[q] = Index(Wrap, s, a) /\ item[q] = put[a + 1]
                /\ flag[Pos(s, a)] = Index(Wrap, s, a)
                /\ rpc[q] = "fill" => slot[Pos(s, a)] = put[a + 1]
          BY <3>2, <4>1 DEF Claimed
        <4>3. a \in e..((n + 1) - 1) /\ a + 1 \in 1..n
          BY <4>2
        <4>4. put'[a + 1] = put[a + 1]
          BY <1>5, <4>3
        <4>5. QED
          BY <1>2, <3>1, <4>2, <4>3, <4>4 DEF Claimed
      <3>5. QED
        BY <3>1, <3>2, <3>3, <3>4
    <2>3. QED
      BY <2>1, <2>2
  <1>12. ASSUME NEW q \in RingProducers, q # p, rpc'[q] \in {"write", "fill"} PROVE idx'[q] # idx'[p]
    <2>1. rpc[q] \in {"write", "fill"} /\ Claimed(q, s, n, e)
      BY <1>6, <1>12 DEF Multi, Users
    <2>2. PICK a \in e..(n - 1) : idx[q] = Index(Wrap, s, a)
      BY <2>1 DEF Claimed
    <2>3. a \in 0..(MaxItems + Capacity) /\ n \in 0..(MaxItems + Capacity) /\ a # n
      BY <1>3, <2>2, ManyIndices
    <2>4. QED
      <3>1. \A i, j \in 0..(MaxItems + Capacity) : Index(Wrap, s, i) = Index(Wrap, s, j) => i = j
        BY ManyIndices
      <3>2. idx'[q] = Index(Wrap, s, a) /\ idx'[p] = Index(Wrap, s, n)
        BY <1>1, <1>2, <2>2
      <3>3. QED
        BY <2>3, <3>1, <3>2
  <1>13. ASSUME NEW q \in RingProducers, NEW v \in RingProducers, q # v,
                rpc'[q] \in {"write", "fill"}, rpc'[v] \in {"write", "fill"}
         PROVE  idx'[q] # idx'[v]
    <2>1. CASE q # p /\ v # p
      <3>1. rpc'[q] = rpc[q] /\ rpc'[v] = rpc[v]
        BY <1>6, <2>1 DEF Users
      <3>2. QED
        BY <1>2, <1>13, <3>1 DEF Multi
    <2>2. QED
      BY <1>12, <1>13, <2>1
  <1>14. ASSUME NEW c \in RingConsumers PROVE Consuming(c, s, n + 1, t, e)'
    <2>1. Consuming(c, s, n, t, e)
      BY DEF Multi
    <2>2. t < n => t < n + 1 /\ put'[t + 1] = put[t + 1]
      BY <1>5
    <2>3. \A d \in RingConsumers : rpc'[d] = rpc[d]
      BY <1>6, <1>8
    <2>4. rpc[c] \in {"reset", "release"} => rpc[c] # "filled"
      OBVIOUS
    <2>5. QED
      BY <1>2, <2>1, <2>2, <2>3, <2>4 DEF Consuming
  <1>15. /\ ring' \in Rings /\ ring' = "MPSCRing" /\ n + 1 <= MaxItems /\ e <= n + 1 /\ n + 1 <= e + Capacity
         /\ in' = Index(Wrap, s, n + 1) /\ out' = Index(Wrap, s, t)
    <2>1. MaxItems \in Nat /\ Capacity \in Nat /\ e <= n
      BY ManyIndices
    <2>2. QED
      BY <1>2, <1>3, <1>4, <2>1 DEF Multi
  <1>16. QED
    BY <1>9, <1>10, <1>11, <1>13, <1>14, <1>15 DEF Multi
(* Slots claimed by two producers are different, and none is that of the item *)
(* the consumer reads.                                                      *)
LEMMA ManyApart ==
  ASSUME NEW s, NEW n, NEW t, NEW e, Many(s, n, t, e), NEW p \in RingProducers, rpc[p] \in {"write", "fill"},
         NEW a \in e..(n - 1), idx[p] = Index(Wrap, s, a), flag[Pos(s, a)] = Index(Wrap, s, a)
  PROVE  /\ \A i \in e..(e + Capacity - 1) : i # a => Pos(s, i) # Pos(s, a)
         /\ a \in e..(e + Capacity - 1) /\ a \in Nat
         /\ \A q \in RingProducers \ {p} : \A b \in e..(n - 1) :
              rpc[q] \in {"write", "fill"} /\ idx[q] = Index(Wrap, s, b) => b # a
         /\ \A c \in RingConsumers :
              rpc[c] \in {"read", "reset"} => t # a /\ e = t /\ t \in e..(e + Capacity - 1)
  <1> USE DEF Many
  <1>1. a \in e..(e + Capacity - 1) /\ a \in Nat /\ Capacity \in Nat
    BY ManyIndices
  <1>2. ASSUME NEW i \in e..(e + Capacity - 1), i # a PROVE Pos(s, i) # Pos(s, a)
    <2>1. i \in Nat /\ (i <= a \/ a <= i) /\ a - i < Capacity /\ i - a < Capacity
      BY <1>1, <1>2
    <2>2. i <= a => Pos(s, i) # Pos(s, a)
      BY <1>1, <1>2, <2>1, PosSame
    <2>3. a <= i => Pos(s, a) # Pos(s, i)
      BY <1>1, <1>2, <2>1, PosSame
    <2>4. QED
      BY <2>1, <2>2, <2>3
  <1>3. ASSUME NEW q \in RingProducers \ {p}, NEW b \in e..(n - 1), rpc[q] \in {"write", "fill"},
               idx[q] = Index(Wrap, s, b)
        PROVE  b # a
    BY <1>3 DEF Multi
  <1>4. ASSUME NEW c \in RingConsumers, rpc[c] \in {"read", "reset"}
        PROVE  t # a /\ e = t /\ t \in e..(e + Capacity - 1)
    <2>1. Consuming(c, s, n, t, e) /\ Freed(t, e)
      BY DEF Multi
    <2>2. e = t
      BY <1>4, <2>1 DEF Consuming, Freed
    <2>3. flag[Pos(s, t)] = Index(Wrap, s, t + 1) /\ t < n
      BY <1>4, <2>1 DEF Consuming
    <2>4. t \in 0..(MaxItems + Capacity) /\ t + 1 \in 0..(MaxItems + Capacity) /\ t # t + 1
      BY <2>3, ManyIndices
    <2>5. Index(Wrap, s, t) # Index(Wrap, s, t + 1)
      BY <2>4, ManyIndices
    <2>6. t \in e..(e + Capacity - 1)
      BY <1>1, <2>2
    <2>7. QED
      BY <2>2, <2>3, <2>5, <2>6
  <1>5. QED
    BY <1>1, <1>2, <1>3, <1>4

(* Its owner writes the item into the slot, *)
LEMMA ManyWrites ==
  ASSUME NEW s, NEW n, NEW t, NEW e, Many(s, n, t, e), NEW p \in RingProducers, WriteSlot(p)
  PROVE  Multi(s, n, t, e)'
  <1> USE DEF Many
  <1>1. p \in Users /\ ring = "MPSCRing" /\ Claimed(p, s, n, e) /\ rpc[p] = "write"
    BY DEF Multi, Users, WriteSlot, At
  <1>2. PICK a \in e..(n - 1) :
          idx[p] = Index(Wrap, s, a) /\ item[p] = put[a + 1] /\ flag[Pos(s, a)] = Index(Wrap, s, a)
    BY <1>1 DEF Claimed
  <1>3. /\ \A i \in e..(e + Capacity - 1) : i # a => Pos(s, i) # Pos(s, a)
        /\ a \in e..(e + Capacity - 1) /\ a \in Nat
        /\ \A q \in RingProducers \ {p} : \A b \in e..(n - 1) :
             rpc[q] \in {"write", "fill"} /\ idx[q] = Index(Wrap, s, b) => b # a
    BY <1>1, <1>2, ManyApart
  <1>4. UNCHANGED <<ring, in, out, flag, idx, item, put, taken>>
    BY DEF WriteSlot
  <1>5. rpc'[p] = "fill" /\ \A u \in Users \ {p} : rpc'[u] = rpc[u]
    BY <1>1 DEF WriteSlot, Goto, RingTypeOK
  <1>6. SlotOf(idx[p]) = Pos(s, a) /\ Pos(s, a) \in 0..(Capacity - 1)
    BY <1>2, <1>3, ManyIndices
  <1>7. \A i \in 0..(Capacity - 1) : slot'[i] = IF i = Pos(s, a) THEN put[a + 1] ELSE slot[i]
    BY <1>2, <1>6 DEF WriteSlot, RingTypeOK
  <1>8. \A c \in RingConsumers : rpc'[c] = rpc[c]
    BY <1>5, RingsAssumption DEF Users
  <1>9. Queue(n, t)' /\ Freed(t, e)'
    BY <1>4, <1>8 DEF Multi, Queue, Freed
  <1>10. \A i \in e..(e + Capacity - 1) : i \in Nat /\ Pos(s, i) \in 0..(Capacity - 1)
    BY ManyIndices
  <1>11. ASSUME NEW i \in e..(e + Capacity - 1) PROVE SlotFor(s, n, i)'
    <2>1. SlotFor(s, n, i)
      BY DEF Multi
    <2>2. CASE i = a
      BY <1>2, <1>4, <2>2 DEF SlotFor
    <2>3. CASE i # a
      <3>1. slot'[Pos(s, i)] = slot[Pos(s, i)]
        BY <1>3, <1>7, <1>10, <2>3
      <3>2. QED
        BY <1>4, <2>1, <3>1 DEF SlotFor
    <2>4. QED
      BY <2>2, <2>3
  <1>12. ASSUME NEW q \in RingProducers
         PROVE  /\ rpc'[q] \in {"idle", "seq", "cas", "write", "fill"}
                /\ Claiming(q, s, n, e)' /\ Claimed(q, s, n, e)'
    <2>1. CASE q = p
      <3>1. slot'[Pos(s, a)] = put[a + 1]
        BY <1>6, <1>7
      <3>2. QED
        BY <1>2, <1>4, <1>5, <2>1, <3>1 DEF Claiming, Claimed
    <2>2. CASE q # p
      <3>1. rpc'[q] = rpc[q]
        BY <1>5, <2>2 DEF Users
      <3>2. rpc[q] \in {"idle", "seq", "cas", "write", "fill"} /\ Claiming(q, s, n, e) /\ Claimed(q, s, n, e)
        BY DEF Multi
      <3>3. Claiming(q, s, n, e)'
        BY <1>4, <3>1, <3>2 DEF Claiming
      <3>4. Claimed(q, s, n, e)'
        <4>1. SUFFICES ASSUME rpc[q] \in {"write", "fill"} PROVE Claimed(q, s, n, e)'
          BY <3>1 DEF Claimed
        <4>2. PICK b \in e..(n - 1) :
                /\ idx[q] = Index(Wrap, s, b) /\ item[q] = put[b + 1]
                /\ flag[Pos(s, b)] = Index(Wrap, s, b)
                /\ rpc[q] = "fill" => slot[Pos(s, b)] = put[b + 1]
          BY <3>2, <4>1 DEF Claimed
        <4>3. b # a
          BY <1>3, <2>2, <4>1, <4>2
        <4>4. b \in e..(e + Capacity - 1)
          BY ManyIndices
        <4>5. slot'[Pos(s, b)] = slot[Pos(s, b)]
          BY <1>3, <1>7, <1>10, <4>3, <4>4
        <4>6. QED
          BY <1>4, <3>1, <4>2, <4>5 DEF Claimed
      <3>5. QED
        BY <3>1, <3>2, <3>3, <3>4
    <2>3. QED
      BY <2>1, <2>2
  <1>13. ASSUME NEW q \in RingProducers, NEW v \in RingProducers, q # v,
                rpc'[q] \in {"write", "fill"}, rpc'[v] \in {"write", "fill"}
         PROVE  idx'[q] # idx'[v]
    <2>1. rpc[q] \in {"write", "fill"} /\ rpc[v] \in {"write", "fill"}
      BY <1>1, <1>5, <1>13 DEF Users
    <2>2. QED
      BY <1>4, <1>13, <2>1 DEF Multi
  <1>14. ASSUME NEW c \in RingConsumers PROVE Consuming(c, s, n, t, e)'
    <2>1. Consuming(c, s, n, t, e)
      BY DEF Multi
    <2>2. QED
      BY <1>4, <1>8, <2>1 DEF Consuming
  <1>15. /\ ring' \in Rings /\ ring' = "MPSCRing" /\ n <= MaxItems /\ e <= n /\ n <= e + Capacity
         /\ in' = Index(Wrap, s, n) /\ out' = Index(Wrap, s, t)
    BY <1>4 DEF Multi
  <1>16. QED
    BY <1>9, <1>11, <1>12, <1>13, <1>14, <1>15 DEF Multi

(* and hands it over. *)
LEMMA ManyFills ==
  ASSUME NEW s, NEW n, NEW t, NEW e, Many(s, n, t, e), NEW p \in RingProducers,
         SetFlag(p, "fill", Succ(idx[p]), "idle")
  PROVE  Multi(s, n, t, e)'
  <1> USE DEF Many
  <1>1. p \in Users /\ ring = "MPSCRing" /\ Claimed(p, s, n, e) /\ rpc[p] = "fill"
    BY DEF Multi, Users, SetFlag, At
  <1>2. PICK a \in e..(n - 1) :
          idx[p] = Index(Wrap, s, a) /\ flag[Pos(s, a)] = Index(Wrap, s, a) /\ slot[Pos(s, a)] = put[a + 1]
    BY <1>1 DEF Claimed
  <1>3. /\ \A i \in e..(e + Capacity - 1) : i # a => Pos(s, i) # Pos(s, a)
        /\ a \in e..(e + Capacity - 1) /\ a \in Nat
        /\ \A q \in RingProducers \ {p} : \A b \in e..(n - 1) :
             rpc[q] \in {"write", "fill"} /\ idx[q] = Index(Wrap, s, b) => b # a
        /\ \A c \in RingConsumers :
             rpc[c] \in {"read", "reset"} => t # a /\ e = t /\ t \in e..(e + Capacity - 1)
    BY <1>1, <1>2, ManyApart
  <1>4. UNCHANGED <<ring, in, out, slot, idx, item, put, taken>>
    BY DEF SetFlag
  <1>5. rpc'[p] = "idle" /\ \A u \in Users \ {p} : rpc'[u] = rpc[u]
    BY <1>1 DEF SetFlag, Goto, RingTypeOK
  <1>6. SlotOf(idx[p]) = Pos(s, a) /\ Pos(s, a) \in 0..(Capacity - 1) /\ Succ(idx[p]) = Index(Wrap, s, a + 1)
    BY <1>2, <1>3, ManyIndices
  <1>7. \A i \in 0..(Capacity - 1) : flag'[i] = IF i = Pos(s, a) THEN Index(Wrap, s, a + 1) ELSE flag[i]
    BY <1>6 DEF SetFlag, RingTypeOK
  <1>8. \A c \in RingConsumers : rpc'[c] = rpc[c]
    BY <1>5, RingsAssumption DEF Users
  <1>9. Queue(n, t)' /\ Freed(t, e)'
    BY <1>4, <1>8 DEF Multi, Queue, Freed
  <1>10. \A i \in e..(e + Capacity - 1) : i # a => flag'[Pos(s, i)] = flag[Pos(s, i)]
    <2>1. \A i \in e..(e + Capacity - 1) : i \in Nat /\ Pos(s, i) \in 0..(Capacity - 1)
      BY ManyIndices
    <2>2. QED
      BY <1>3, <1>7, <2>1
  <1>11. ASSUME NEW i \in e..(e + Capacity - 1) PROVE SlotFor(s, n, i)'
    <2>1. SlotFor(s, n, i)
      BY DEF Multi
    <2>2. CASE i = a
      <3>1. flag'[Pos(s, a)] = Index(Wrap, s, a + 1) /\ a < n
        BY <1>6, <1>7
      <3>2. QED
        BY <1>2, <1>4, <2>2, <3>1 DEF SlotFor
    <2>3. CASE i # a
      BY <1>4, <1>10, <2>1, <2>3 DEF SlotFor
    <2>4. QED
      BY <2>2, <2>3
  <1>12. ASSUME NEW q \in RingProducers
         PROVE  /\ rpc'[q] \in {"idle", "seq", "cas", "write", "fill"}
                /\ Claiming(q, s, n, e)' /\ Claimed(q, s, n, e)'
    <2>1. CASE q = p
      BY <1>5, <2>1 DEF Claiming, Claimed
    <2>2. CASE q # p
      <3>1. rpc'[q] = rpc[q]
        BY <1>5, <2>2 DEF Users
      <3>2. rpc[q] \in {"idle", "seq", "cas", "write", "fill"} /\ Claiming(q, s, n, e) /\ Claimed(q, s, n, e)
        BY DEF Multi
      <3>3. Claiming(q, s, n, e)'
        BY <1>4, <3>1, <3>2 DEF Claiming
      <3>4. Claimed(q, s, n, e)'
        <4>1. SUFFICES ASSUME rpc[q] \in {"write", "fill"} PROVE Claimed(q, s, n, e)'
          BY <3>1 DEF Claimed
        <4>2. PICK b \in e..(n - 1) :
                /\ idx[q] = Index(Wrap, s, b) /\ item[q] = put[b + 1]
                /\ flag[Pos(s, b)] = Index(Wrap, s, b)
                /\ rpc[q] = "fill" => slot[Pos(s, b)] = put[b + 1]
          BY <3>2, <4>1 DEF Claimed
        <4>3. b # a
          BY <1>3, <2>2, <4>1, <4>2
        <4>4. b \in e..(e + Capacity - 1)
          BY ManyIndices
        <4>5. flag'[Pos(s, b)] = flag[Pos(s, b)]
          BY <1>10, <4>3, <4>4
        <4>6. QED
          BY <1>4, <3>1, <4>2, <4>5 DEF Claimed
      <3>5. QED
        BY <3>1, <3>2, <3>3, <3>4
    <2>3. QED
      BY <2>1, <2>2
  <1>13. ASSUME NEW q \in RingProducers, NEW v \in RingProducers, q # v,
                rpc'[q] \in {"write", "fill"}, rpc'[v] \in {"write", "fill"}
         PROVE  idx'[q] # idx'[v]
    <2>1. rpc[q] \in {"write", "fill"} /\ rpc[v] \in {"write", "fill"}
      BY <1>1, <1>5, <1>13 DEF Users
    <2>2. QED
      BY <1>4, <1>13, <2>1 DEF Multi
  <1>14. ASSUME NEW c \in RingConsumers PROVE Consuming(c, s, n, t, e)'
    <2>1. Consuming(c, s, n, t, e)
      BY DEF Multi
    <2>2. rpc[c] \in {"read", "reset"} => flag'[Pos(s, t)] = flag[Pos(s, t)]
      BY <1>3, <1>10
    <2>3. QED
      BY <1>4, <1>8, <2>1, <2>2 DEF Consuming
  <1>15. /\ ring' \in Rings /\ ring' = "MPSCRing" /\ n <= MaxItems /\ e <= n /\ n <= e + Capacity
         /\ in' = Index(Wrap, s, n) /\ out' = Index(Wrap, s, t)
    BY <1>4 DEF Multi
  <1>16. QED
    BY <1>9, <1>11, <1>12, <1>13, <1>14, <1>15 DEF Multi
(* Until it resets the sequence number, the consumer disturbs nobody. *)
LEMMA ManyReads ==
  ASSUME NEW s, NEW n, NEW t, NEW e, Many(s, n, t, e), NEW c \in RingConsumers,
         rpc[c] # "release", rpc'[c] # "release", Consuming(c, s, n, t, e)',
         \A d \in RingConsumers \ {c} : rpc[d] = "idle",
         \A u \in Users \ {c} : rpc'[u] = rpc[u] /\ idx'[u] = idx[u] /\ item'[u] = item[u],
         UNCHANGED <<ring, in, out, slot, flag, put, taken>>
  PROVE  Multi(s, n, t, e)'
  <1> USE DEF Many
  <1>1. \A p \in RingProducers : p \in Users \ {c} /\ rpc'[p] = rpc[p] /\ idx'[p] = idx[p] /\ item'[p] = item[p]
    BY RingsAssumption DEF Users
  <1>2. \A d \in RingConsumers \ {c} : rpc'[d] = "idle"
    BY DEF Users
  <1>3. Queue(n, t)'
    BY DEF Multi, Queue
  <1>4. Freed(t, e)'
    <2>1. Freed(t, e) /\ \A d \in RingConsumers : rpc[d] # "release" /\ rpc'[d] # "release"
      BY <1>2 DEF Multi
    <2>2. QED
      BY <2>1 DEF Freed
  <1>5. \A i \in e..(e + Capacity - 1) : SlotFor(s, n, i)'
    BY DEF Multi, SlotFor
  <1>6. ASSUME NEW q \in RingProducers
        PROVE  /\ rpc'[q] \in {"idle", "seq", "cas", "write", "fill"}
               /\ Claiming(q, s, n, e)' /\ Claimed(q, s, n, e)'
    <2>1. rpc[q] \in {"idle", "seq", "cas", "write", "fill"} /\ Claiming(q, s, n, e) /\ Claimed(q, s, n, e)
      BY DEF Multi
    <2>2. QED
      BY <1>1, <2>1 DEF Claiming, Claimed
  <1>7. ASSUME NEW q \in RingProducers, NEW v \in RingProducers, q # v,
               rpc'[q] \in {"write", "fill"}, rpc'[v] \in {"write", "fill"}
        PROVE  idx'[q] # idx'[v]
    BY <1>1, <1>7 DEF Multi
  <1>8. ASSUME NEW d \in RingConsumers PROVE Consuming(d, s, n, t, e)'
    <2>1. d # c => rpc'[d] = "idle"
      BY <1>2
    <2>2. QED
      BY <2>1 DEF Consuming
  <1>9. /\ ring' \in Rings /\ ring' = "MPSCRing" /\ n <= MaxItems /\ e <= n /\ n <= e + Capacity
        /\ in' = Index(Wrap, s, n) /\ out' = Index(Wrap, s, t)
    BY DEF Multi
  <1>10. QED
    BY <1>3, <1>4, <1>5, <1>6, <1>7, <1>8, <1>9 DEF Multi

(* It loads its index, tests the sequence number and copies the item.        *)
LEMMA ManyTakes ==
  ASSUME NEW s, NEW n, NEW t, NEW e, Many(s, n, t, e), NEW c \in RingConsumers,
         LoadOut(c) \/ TestFlag(c, flag[SlotOf(idx[c])] = Succ(idx[c])) \/ ReadSlot(c)
  PROVE  Multi(s, n, t, e)'
  <1> USE DEF Many
  <1>1. c \in Users /\ ring = "MPSCRing" /\ out = Index(Wrap, s, t) /\ Consuming(c, s, n, t, e) /\ Freed(t, e)
    BY DEF Multi, Users
  <1>2. rpc[c] \in {"idle", "filled", "read"} /\ \A d \in RingConsumers \ {c} : rpc[d] = "idle"
    BY <1>1 DEF LoadOut, TestFlag, ReadSlot, MayTake, At, AsIntended, Consuming
  <1>3. \A u \in Users \ {c} : rpc'[u] = rpc[u] /\ idx'[u] = idx[u] /\ item'[u] = item[u]
    BY <1>1 DEF LoadOut, TestFlag, ReadSlot, Goto, RingTypeOK
  <1>4. UNCHANGED <<ring, in, out, slot, flag, put, taken>>
    BY DEF LoadOut, TestFlag, ReadSlot
  <1>5. \A d \in RingConsumers \ {c} : rpc'[d] = "idle"
    BY <1>2, <1>3 DEF Users
  <1>6. t \in Nat /\ SlotOf(Index(Wrap, s, t)) = Pos(s, t) /\ Succ(Index(Wrap, s, t)) = Index(Wrap, s, t + 1)
    BY ManyIndices
  <1>7. CASE LoadOut(c)
    <2>1. rpc'[c] = "filled" /\ idx'[c] = Index(Wrap, s, t)
      BY <1>1, <1>7 DEF LoadOut, Goto, RingTypeOK
    <2>2. Consuming(c, s, n, t, e)'
      BY <1>5, <2>1 DEF Consuming
    <2>3. QED
      BY <1>2, <1>3, <1>4, <2>1, <2>2, ManyReads
  <1>8. CASE TestFlag(c, flag[SlotOf(idx[c])] = Succ(idx[c]))
    <2>1. rpc[c] = "filled" /\ idx[c] = Index(Wrap, s, t) /\ idx' = idx
      BY <1>1, <1>8 DEF TestFlag, At, Consuming
    <2>2. PICK l \in {"idle", "read"} : Goto(c, l) /\ (l = "read" => flag[Pos(s, t)] = Index(Wrap, s, t + 1))
      BY <1>6, <1>8, <2>1 DEF TestFlag
    <2>3. rpc'[c] = l
      BY <1>1, <2>2 DEF Goto, RingTypeOK
    <2>4. l = "read" => t < n
      <3>1. SUFFICES ASSUME l = "read" PROVE t < n
        OBVIOUS
      <3>2. e = t
        BY <1>2, <2>1, <1>1 DEF Freed
      <3>3. t \in e..(e + Capacity - 1) /\ t # t + 1
            /\ t \in 0..(MaxItems + Capacity) /\ t + 1 \in 0..(MaxItems + Capacity)
        BY <3>2, ManyIndices
      <3>4. SlotFor(s, n, t) /\ Index(Wrap, s, t) # Index(Wrap, s, t + 1)
        BY <3>3, ManyIndices DEF Multi
      <3>5. QED
        BY <2>2, <3>1, <3>4 DEF SlotFor
    <2>5. Consuming(c, s, n, t, e)'
      BY <1>4, <1>5, <2>1, <2>2, <2>3, <2>4 DEF Consuming
    <2>6. QED
      BY <1>2, <1>3, <1>4, <2>3, <2>5, ManyReads
  <1>9. CASE ReadSlot(c)
    <2>1. rpc[c] = "read" /\ idx[c] = Index(Wrap, s, t) /\ idx' = idx /\ t < n /\ flag[Pos(s, t)] = Index(Wrap, s, t + 1)
      BY <1>1, <1>9 DEF ReadSlot, At, Consuming
    <2>2. rpc'[c] = "reset" /\ item'[c] = slot[Pos(s, t)]
      BY <1>1, <1>6, <1>9, <2>1 DEF ReadSlot, Goto, RingTypeOK
    <2>3. slot[Pos(s, t)] = put[t + 1]
      <3>1. e = t
        BY <1>2, <2>1, <1>1 DEF Freed
      <3>2. t \in e..(e + Capacity - 1) /\ t # t + 1
            /\ t \in 0..(MaxItems + Capacity) /\ t + 1 \in 0..(MaxItems + Capacity)
        BY <3>1, ManyIndices
      <3>3. SlotFor(s, n, t) /\ Index(Wrap, s, t) # Index(Wrap, s, t + 1)
        BY <3>2, ManyIndices DEF Multi
      <3>4. QED
        BY <2>1, <3>3 DEF SlotFor
    <2>4. Consuming(c, s, n, t, e)'
      BY <1>4, <1>5, <2>1, <2>2, <2>3 DEF Consuming
    <2>5. QED
      BY <1>2, <1>3, <1>4, <2>1, <2>2, <2>4, ManyReads
  <1>10. QED
    BY <1>7, <1>8, <1>9

(* Resetting the sequence number gives the slot to the item a round later.    *)
LEMMA ManyResets ==
  ASSUME NEW s, NEW n, NEW t, NEW e, Many(s, n, t, e), NEW c \in RingConsumers,
         SetFlag(c, "reset", (idx[c] + Capacity) % Wrap, "release")
  PROVE  Multi(s, n, t, e + 1)'
  <1> USE DEF Many
  <1>1. c \in Users /\ ring = "MPSCRing" /\ Consuming(c, s, n, t, e) /\ Freed(t, e) /\ rpc[c] = "reset"
    BY DEF Multi, Users, SetFlag, At
  <1>2. /\ idx[c] = Index(Wrap, s, t) /\ t < n /\ flag[Pos(s, t)] = Index(Wrap, s, t + 1) /\ item[c] = put[t + 1]
        /\ \A d \in RingConsumers \ {c} : rpc[d] = "idle"
    BY <1>1 DEF Consuming
  <1>3. e = t
    BY <1>1, <1>2 DEF Freed
  <1>4. Capacity \in Nat /\ Capacity > 1 /\ Wrap \in Nat \ {0} /\ n <= e + Capacity /\ n <= MaxItems /\ MaxItems \in Nat
    BY ManyIndices
  <1>5. SlotOf(idx[c]) = Pos(s, t) /\ Pos(s, t) \in 0..(Capacity - 1)
    BY <1>2, ManyIndices
  <1>6. (idx[c] + Capacity) % Wrap = Index(Wrap, s, t + Capacity)
    <2>1. s \in Nat /\ t \in Nat
      OBVIOUS
    <2>2. (Index(Wrap, s, t) + Capacity) % Wrap = Index(Wrap, s, t + Capacity)
      BY <1>4, <2>1, IndexNext
    <2>3. QED
      BY <1>2, <2>2
  <1>7. UNCHANGED <<ring, in, out, slot, idx, item, put, taken>>
    BY DEF SetFlag
  <1>8. rpc'[c] = "release" /\ \A u \in Users \ {c} : rpc'[u] = rpc[u]
    BY <1>1 DEF SetFlag, Goto, RingTypeOK
  <1>9. \A i \in 0..(Capacity - 1) : flag'[i] = IF i = Pos(s, t) THEN Index(Wrap, s, t + Capacity) ELSE flag[i]
    BY <1>5, <1>6 DEF SetFlag, RingTypeOK
  <1>10. Index(Wrap, s, t) # Index(Wrap, s, t + 1)
    <2>1. t \in 0..(MaxItems + Capacity) /\ t + 1 \in 0..(MaxItems + Capacity) /\ t # t + 1
      BY <1>2, <1>4
    <2>2. QED
      BY <2>1, ManyIndices
  <1>11. ASSUME NEW i \in e..(e + Capacity - 1), i # t PROVE flag'[Pos(s, i)] = flag[Pos(s, i)]
    <2>1. i \in Nat /\ t <= i /\ i - t < Capacity
      BY <1>3, <1>4, <1>11
    <2>2. Pos(s, t) # Pos(s, i)
      BY <1>11, <2>1, PosSame
    <2>3. Pos(s, i) \in 0..(Capacity - 1)
      BY <2>1, ManyIndices
    <2>4. QED
      BY <1>9, <2>2, <2>3
  <1>12. ASSUME NEW i \in (e + 1)..((e + 1) + Capacity - 1) PROVE SlotFor(s, n, i)'
    <2>1. CASE i = t + Capacity
      <3>1. Pos(s, t + Capacity) = Pos(s, t)
        <4>1. Index(Capacity, s, t + Capacity) = Index(Capacity, s, t)
          BY <1>4, IndexAgain
        <4>2. QED
          BY <4>1 DEF Index, Pos
      <3>2. flag'[Pos(s, t)] = Index(Wrap, s, t + Capacity)
        BY <1>5, <1>9
      <3>3. QED
        BY <2>1, <3>1, <3>2 DEF SlotFor
    <2>2. CASE i # t + Capacity
      <3>1. i \in e..(e + Capacity - 1) /\ i # t
        BY <1>3, <1>4, <2>2
      <3>2. SlotFor(s, n, i) /\ flag'[Pos(s, i)] = flag[Pos(s, i)]
        BY <1>11, <3>1 DEF Multi
      <3>3. QED
        BY <1>7, <3>2 DEF SlotFor
    <2>3. QED
      BY <2>1, <2>2
  <1>13. Queue(n, t)'
    BY <1>7 DEF Multi, Queue
  <1>14. Freed(t, e + 1)'
    BY <1>3, <1>8 DEF Freed
  <1>15. \A p \in RingProducers : rpc'[p] = rpc[p]
    BY <1>8, RingsAssumption DEF Users
  <1>16. ASSUME NEW q \in RingProducers
         PROVE  /\ rpc'[q] \in {"idle", "seq", "cas", "write", "fill"}
                /\ Claiming(q, s, n, e + 1)' /\ Claimed(q, s, n, e + 1)'
    <2>1. rpc[q] \in {"idle", "seq", "cas", "write", "fill"} /\ Claiming(q, s, n, e) /\ Claimed(q, s, n, e)
      BY DEF Multi
    <2>2. Claiming(q, s, n, e + 1)'
      <3>1. n < e + Capacity => n < (e + 1) + Capacity
        BY <1>4
      <3>2. QED
        BY <1>7, <1>15, <2>1, <3>1 DEF Claiming
    <2>3. Claimed(q, s, n, e + 1)'
      <3>1. SUFFICES ASSUME rpc[q] \in {"write", "fill"} PROVE Claimed(q, s, n, e + 1)'
        BY <1>15 DEF Claimed
      <3>2. PICK b \in e..(n - 1) :
              /\ idx[q] = Index(Wrap, s, b) /\ item[q] = put[b + 1]
              /\ flag[Pos(s, b)] = Index(Wrap, s, b)
              /\ rpc[q] = "fill" => slot[Pos(s, b)] = put[b + 1]
        BY <2>1, <3>1 DEF Claimed
      <3>3. b # t
        BY <1>2, <1>10, <3>2
      <3>4. b \in e..(e + Capacity - 1) /\ b \in (e + 1)..(n - 1)
        BY <1>3, <1>4, <3>3
      <3>5. flag'[Pos(s, b)] = flag[Pos(s, b)]
        BY <1>11, <3>3, <3>4
      <3>6. QED
        BY <1>7, <1>15, <3>2, <3>4, <3>5 DEF Claimed
    <2>4. QED
      BY <1>15, <2>1, <2>2, <2>3
  <1>17. ASSUME NEW q \in RingProducers, NEW v \in RingProducers, q # v,
                rpc'[q] \in {"write", "fill"}, rpc'[v] \in {"write", "fill"}
         PROVE  idx'[q] # idx'[v]
    BY <1>7, <1>15, <1>17 DEF Multi
  <1>18. ASSUME NEW d \in RingConsumers PROVE Consuming(d, s, n, t, e + 1)'
    <2>1. \A v \in RingConsumers \ {c} : rpc'[v] = "idle"
      BY <1>2, <1>8 DEF Users
    <2>2. QED
      BY <1>2, <1>7, <1>8, <2>1 DEF Consuming
  <1>19. /\ ring' \in Rings /\ ring' = "MPSCRing" /\ n <= MaxItems /\ e + 1 <= n /\ n <= (e + 1) + Capacity
         /\ in' = Index(Wrap, s, n) /\ out' = Index(Wrap, s, t)
    BY <1>2, <1>3, <1>4, <1>7 DEF Multi
  <1>20. QED
    BY <1>12, <1>13, <1>14, <1>16, <1>17, <1>18, <1>19 DEF Multi

(* The store of its index ends the take. *)
LEMMA ManyReleases ==
  ASSUME NEW s, NEW n, NEW t, NEW e, Many(s, n, t, e), NEW c \in RingConsumers, ReleaseSlot(c)
  PROVE  Multi(s, n, t + 1, e)'
  <1> USE DEF Many
  <1>1. c \in Users /\ ring = "MPSCRing" /\ Consuming(c, s, n, t, e) /\ Freed(t, e) /\ rpc[c] = "release" /\ Queue(n, t)
    BY DEF Multi, Users, ReleaseSlot, At
  <1>2. /\ idx[c] = Index(Wrap, s, t) /\ t < n /\ item[c] = put[t + 1]
        /\ \A d \in RingConsumers \ {c} : rpc[d] = "idle"
    BY <1>1 DEF Consuming
  <1>3. e = t + 1
    BY <1>1 DEF Freed
  <1>4. /\ out' = Succ(idx[c]) /\ taken' = Append(taken, item[c]) /\ Goto(c, "idle")
        /\ UNCHANGED <<ring, in, slot, flag, idx, put>>
    BY DEF ReleaseSlot
  <1>5. out' = Index(Wrap, s, t + 1)
    BY <1>2, <1>4, ManyIndices
  <1>6. Len(taken') = t + 1 /\ taken'[t + 1] = item[c] /\ \A i \in 1..t : taken'[i] = taken[i]
    BY <1>1, <1>4 DEF RingTypeOK, Queue
  <1>7. \A u \in Users \ {c} : rpc'[u] = rpc[u] /\ idx'[u] = idx[u] /\ item'[u] = item[u]
    BY <1>1 DEF ReleaseSlot, Goto, RingTypeOK
  <1>8. \A d \in RingConsumers : rpc'[d] = "idle"
    <2>1. rpc'[c] = "idle"
      BY <1>1, <1>4 DEF Goto, RingTypeOK
    <2>2. QED
      BY <1>2, <1>7, <2>1 DEF Users
  <1>9. Queue(n, t + 1)'
    <2>1. ASSUME NEW i \in 1..(t + 1) PROVE taken'[i] = put[i]
      <3>1. i = t + 1 \/ i \in 1..t
        OBVIOUS
      <3>2. QED
        BY <1>1, <1>2, <1>6, <3>1 DEF Queue
    <2>2. QED
      BY <1>1, <1>2, <1>4, <1>6, <2>1 DEF Queue
  <1>10. Freed(t + 1, e)'
    BY <1>3, <1>8 DEF Freed
  <1>11. \A p \in RingProducers : rpc'[p] = rpc[p] /\ idx'[p] = idx[p] /\ item'[p] = item[p]
    BY <1>7, RingsAssumption DEF Users
  <1>12. \A i \in e..(e + Capacity - 1) : SlotFor(s, n, i)'
    BY <1>4 DEF Multi, SlotFor
  <1>13. ASSUME NEW q \in RingProducers
         PROVE  /\ rpc'[q] \in {"idle", "seq", "cas", "write", "fill"}
                /\ Claiming(q, s, n, e)' /\ Claimed(q, s, n, e)'
    <2>1. rpc[q] \in {"idle", "seq", "cas", "write", "fill"} /\ Claiming(q, s, n, e) /\ Claimed(q, s, n, e)
      BY DEF Multi
    <2>2. QED
      BY <1>4, <1>11, <2>1 DEF Claiming, Claimed
  <1>14. ASSUME NEW q \in RingProducers, NEW v \in RingProducers, q # v,
                rpc'[q] \in {"write", "fill"}, rpc'[v] \in {"write", "fill"}
         PROVE  idx'[q] # idx'[v]
    BY <1>11, <1>14 DEF Multi
  <1>15. ASSUME NEW d \in RingConsumers PROVE Consuming(d, s, n, t + 1, e)'
    BY <1>8 DEF Consuming
  <1>16. /\ ring' \in Rings /\ ring' = "MPSCRing" /\ n <= MaxItems /\ e <= n /\ n <= e + Capacity
         /\ in' = Index(Wrap, s, n) /\ out' = Index(Wrap, s, t + 1)
    BY <1>4, <1>5 DEF Multi
  <1>17. QED
    BY <1>9, <1>10, <1>12, <1>13, <1>14, <1>15, <1>16 DEF Multi

(* Every step of the MPSCRing keeps the invariant. *)
LEMMA ManySteps ==
  ASSUME NEW s, NEW n, NEW t, NEW e, Many(s, n, t, e), RingNext
  PROVE  \E a, b, d \in Nat : Multi(s, a, b, d)'
  <1> USE DEF Many
  <1>1. ring = "MPSCRing" /\ n + 1 \in Nat /\ t + 1 \in Nat /\ e + 1 \in Nat
    BY DEF Multi
  <1>2. ASSUME NEW p \in RingProducers, PutStep(p) PROVE \E a, b, d \in Nat : Multi(s, a, b, d)'
    <2>1. MultiPut(p)
      BY <1>1, <1>2, RingSteps
    <2>2. LoadIn(p) \/ WriteSlot(p) \/ SetFlag(p, "fill", Succ(idx[p]), "idle") => Multi(s, n, t, e)'
      BY ManyLoadIn, ManyWrites, ManyFills
    <2>3. Claim(p) => Multi(s, n, t, e)' \/ Multi(s, n + 1, t, e)'
      BY ManyLooks, ManyClaims
    <2>4. QED
      BY <1>1, <2>1, <2>2, <2>3 DEF MultiPut
  <1>3. ASSUME NEW c \in RingConsumers, TakeStep(c) PROVE \E a, b, d \in Nat : Multi(s, a, b, d)'
    <2>1. MultiTakes(c)
      BY <1>1, <1>3, RingSteps
    <2>2. LoadOut(c) \/ TestFlag(c, flag[SlotOf(idx[c])] = Succ(idx[c])) \/ ReadSlot(c) => Multi(s, n, t, e)'
      BY ManyTakes
    <2>3. SetFlag(c, "reset", (idx[c] + Capacity) % Wrap, "release") => Multi(s, n, t, e + 1)'
      BY ManyResets
    <2>4. ReleaseSlot(c) => Multi(s, n, t + 1, e)'
      BY ManyReleases
    <2>5. QED
      BY <1>1, <2>1, <2>2, <2>3, <2>4 DEF MultiTakes
  <1>4. QED
    BY <1>2, <1>3 DEF RingNext
-----------------------------------------------------------------------------
(* The invariant of every class: the types, and what is in the queue. *)
RingInv ==
  /\ RingTypeOK
  /\ \/ \E m, r, s, n, t, k \in Nat : Single(m, r, s, n, t, k)
     \/ \E s, n, t, e \in Nat : Multi(s, n, t, e)

(* A sequence number starts as the index of the first item for its slot. *)
LEMMA FirstSequenceIs ==
  ASSUME NEW s \in Nat, NEW i \in 0..(Capacity - 1)
  PROVE  FirstSequence(s, Pos(s, i)) = Index(Wrap, s, i)
  <1>1. Capacity \in Nat \ {0} /\ s + i \in Int /\ -s \in Int /\ (s + i) + (-s) = i /\ i \in Int /\ i \in Nat
    BY RingConstants
  <1>2. Pos(s, i) \in Int
    BY <1>1, IndexRange
  <1>3. (((s + i) % Capacity) + (-s)) % Capacity = i % Capacity
    <2>1. PICK x \in Int, k \in Int, p \in Nat \ {0} : x = s + i /\ k = -s /\ p = Capacity
      BY <1>1
    <2>2. ((x % p) + k) % p = (x + k) % p
      BY RemainderAdd
    <2>3. QED
      BY <1>1, <2>1, <2>2
  <1>4. i % Capacity = i
    <2>1. 0 \in Int /\ i = Capacity * 0 + i
      BY <1>1
    <2>2. QED
      BY <1>1, <2>1, RemainderIs
  <1>5. Pos(s, i) - s = Pos(s, i) + (-s)
    BY <1>2
  <1>6. (Pos(s, i) - s) % Capacity = i
    BY <1>3, <1>4, <1>5 DEF Pos
  <1>7. QED
    BY <1>6 DEF FirstSequence, Index

(* how the indices start *)
LEMMA RingStart ==
  ASSUME RingInit
  PROVE  /\ Capacity \in Nat \ {0} /\ Wrap \in Nat \ {0} /\ Modulus \in Nat \ {0} /\ Room \in Nat
         /\ in \in Nat /\ in \in 0..(Wrap - 1) /\ in \in 0..(Modulus - 1) /\ ring \in Rings /\ Room <= Modulus
  BY RingConstants, RingsAssumption DEF RingInit, Modulus, Modular, Running, Compared

(* the types of an empty queue *)
LEMMA RingInitType == RingInit => RingTypeOK
  <1> SUFFICES ASSUME RingInit PROVE RingTypeOK
    OBVIOUS
  <1>1. /\ Capacity \in Nat \ {0} /\ Wrap \in Nat \ {0} /\ Modulus \in Nat \ {0} /\ Room \in Nat
        /\ in \in Nat /\ in \in 0..(Wrap - 1) /\ in \in 0..(Modulus - 1) /\ ring \in Rings /\ Room <= Modulus
    BY RingStart
  <1>2. /\ out = in /\ cache = in /\ put = <<>> /\ taken = <<>>
        /\ \A u \in Users : rpc[u] = "idle"
    BY DEF RingInit
  <1>3. NoItem \in Goods /\ "idle" \in RingPcs /\ <<>> \in Seq(Goods)
    BY DEF Goods, RingPcs
  <1>4. \A i \in 0..(Capacity - 1) : FirstSequence(in, i) \in Nat
    <2>1. SUFFICES ASSUME NEW i \in 0..(Capacity - 1) PROVE FirstSequence(in, i) \in Nat
      OBVIOUS
    <2>2. i - in \in Int
      BY <1>1
    <2>3. PICK x \in 0..(Capacity - 1) : x = (i - in) % Capacity
      BY <1>1, <2>2, Divided
    <2>4. in + x \in Int
      BY <1>1
    <2>5. (in + x) % Wrap \in 0..(Wrap - 1)
      BY <1>1, <2>4, Divided
    <2>6. QED
      BY <2>3, <2>5 DEF FirstSequence
  <1>5. flag \in [0..(Capacity - 1) -> Nat]
    BY <1>4 DEF RingInit
  <1>6. slot \in [0..(Capacity - 1) -> Goods] /\ item \in [Users -> Goods]
    BY <1>3 DEF RingInit
  <1>7. rpc \in [Users -> RingPcs] /\ idx \in [Users -> Nat]
    BY <1>3 DEF RingInit
  <1>8. QED
    BY <1>1, <1>2, <1>3, <1>5, <1>6, <1>7 DEF RingTypeOK

(* It holds of an empty queue, wherever its indices stand. *)
LEMMA RingInitInv == AsIntended /\ RingInit => RingInv
  <1> SUFFICES ASSUME AsIntended, RingInit PROVE RingInv
    OBVIOUS
  <1>1. /\ Capacity \in Nat \ {0} /\ Wrap \in Nat \ {0} /\ Modulus \in Nat \ {0} /\ Room \in Nat
        /\ in \in Nat /\ in \in 0..(Wrap - 1) /\ in \in 0..(Modulus - 1) /\ ring \in Rings /\ Room <= Modulus
    BY RingStart
  <1>2. /\ out = in /\ cache = in /\ put = <<>> /\ taken = <<>>
        /\ \A u \in Users : rpc[u] = "idle"
    BY DEF RingInit
  <1>3. RingTypeOK
    BY RingInitType
  <1>4. Queue(0, 0)
    BY <1>2 DEF Queue
  <1>5. ASSUME NEW m \in {Modulus, Wrap}, in \in 0..(m - 1) PROVE Index(m, in, 0) = in
    <2>1. m \in Nat \ {0} /\ in + 0 \in Int /\ 0 \in Int /\ in + 0 = m * 0 + in
      BY <1>1
    <2>2. (in + 0) % m = in
      BY <1>5, <2>1, RemainderIs
    <2>3. QED
      BY <2>2 DEF Index
  <1>6. \A p \in RingProducers : rpc[p] = "idle"
    BY <1>2 DEF Users
  <1>7. \A c \in RingConsumers : rpc[c] = "idle"
    BY <1>2 DEF Users
  <1>8. CASE ring # "MPSCRing"
    <2>1. Index(Modulus, in, 0) = in
      BY <1>1, <1>5
    <2>2. Counted(Modulus, Room, in, 0, 0, 0)
      BY <1>1, <1>2, <1>8, <2>1 DEF Counted
    <2>3. Single(Modulus, Room, in, 0, 0, 0)
      BY <1>4, <1>6, <1>7, <2>2 DEF Single, ProducerAt, ConsumerAt
    <2>4. QED
      BY <1>1, <1>3, <2>3 DEF RingInv
  <1>9. CASE ring = "MPSCRing"
    <2>1. Index(Wrap, in, 0) = in
      BY <1>1, <1>5
    <2>2. \A i \in 0..(Capacity - 1) : SlotFor(in, 0, i)
      <3>1. SUFFICES ASSUME NEW i \in 0..(Capacity - 1) PROVE SlotFor(in, 0, i)
        OBVIOUS
      <3>2. Pos(in, i) \in 0..(Capacity - 1)
        BY <1>1, IndexRange
      <3>3. flag[Pos(in, i)] = FirstSequence(in, Pos(in, i))
        BY <1>9, <3>2 DEF RingInit
      <3>4. QED
        BY <1>1, <3>3, FirstSequenceIs DEF SlotFor
    <2>3. Freed(0, 0)
      BY <1>7 DEF Freed
    <2>4. 0 + Capacity - 1 = Capacity - 1 /\ MaxItems \in Nat /\ 0 <= MaxItems /\ 0 <= 0 + Capacity
      BY <1>1, RingsAssumption
    <2>5. Multi(in, 0, 0, 0)
      BY <1>1, <1>2, <1>4, <1>6, <1>7, <1>9, <2>1, <2>2, <2>3, <2>4 DEF Multi, Claiming, Claimed, Consuming
    <2>6. QED
      BY <1>1, <1>3, <2>5 DEF RingInv
  <1>10. QED
    BY <1>8, <1>9

(* Every step keeps it. *)
LEMMA RingNextInv == ASSUME AsIntended, RingInv, [RingNext]_ringVars PROVE RingInv'
  <1>1. CASE RingNext
    <2>1. RingTypeOK'
      BY <1>1, RingTypeStep DEF RingInv
    <2>2. ASSUME NEW m \in Nat, NEW r \in Nat, NEW s \in Nat, NEW n \in Nat, NEW t \in Nat, NEW k \in Nat,
                 Single(m, r, s, n, t, k)
          PROVE  RingInv'
      <3>1. Numbers(m, r, s, n, t, k)
        BY <2>2 DEF RingInv, Numbers
      <3>2. PICK a \in Nat, b \in Nat, c \in Nat : Single(m, r, s, a, b, c)'
        BY <1>1, <3>1, SingleSteps
      <3>3. QED
        BY <2>1, <3>2 DEF RingInv
    <2>3. ASSUME NEW s \in Nat, NEW n \in Nat, NEW t \in Nat, NEW e \in Nat, Multi(s, n, t, e)
          PROVE  RingInv'
      <3>1. Many(s, n, t, e)
        BY <2>3 DEF RingInv, Many
      <3>2. PICK a \in Nat, b \in Nat, c \in Nat : Multi(s, a, b, c)'
        BY <1>1, <3>1, ManySteps
      <3>3. QED
        BY <2>1, <3>2 DEF RingInv
    <2>4. QED
      BY <2>2, <2>3 DEF RingInv
  <1>2. CASE UNCHANGED ringVars
    <2>1. RingTypeOK'
      BY <1>2 DEF RingInv, RingTypeOK, ringVars
    <2>2. ASSUME NEW m \in Nat, NEW r \in Nat, NEW s \in Nat, NEW n \in Nat, NEW t \in Nat, NEW k \in Nat,
                 Single(m, r, s, n, t, k)
          PROVE  RingInv'
      <3>1. Single(m, r, s, n, t, k)'
        BY <1>2, <2>2 DEF Single, Queue, Counted, ProducerAt, ConsumerAt, Modulus, Room, ringVars
      <3>2. QED
        BY <2>1, <3>1 DEF RingInv
    <2>3. ASSUME NEW s \in Nat, NEW n \in Nat, NEW t \in Nat, NEW e \in Nat, Multi(s, n, t, e)
          PROVE  RingInv'
      <3>1. Multi(s, n, t, e)'
        BY <1>2, <2>3 DEF Multi, Queue, Freed, SlotFor, Claiming, Claimed, Consuming, ringVars
      <3>2. QED
        BY <2>1, <3>1 DEF RingInv
    <2>4. QED
      BY <2>1, <2>2, <2>3 DEF RingInv
  <1>3. QED
    BY <1>1, <1>2

(* It keeps what is taken in order, *)
LEMMA InvTakenIsPrefix == RingInv => TakenIsPrefix
  <1> SUFFICES ASSUME RingInv PROVE TakenIsPrefix
    OBVIOUS
  <1>1. PICK n \in Nat, t \in Nat : Queue(n, t)
    BY DEF RingInv, Single, Multi
  <1>2. put \in Seq(Goods) /\ taken \in Seq(Goods) /\ Len(put) = n /\ Len(taken) = t /\ t <= n
        /\ \A i \in 1..t : taken[i] = put[i]
    BY <1>1 DEF RingInv, RingTypeOK, Queue
  <1>3. /\ SubSeq(put, 1, t) \in Seq(Goods) /\ Len(SubSeq(put, 1, t)) = t
        /\ \A i \in 1..t : SubSeq(put, 1, t)[i] = put[i]
    BY <1>2
  <1>4. taken = SubSeq(put, 1, t)
    BY <1>2, <1>3, SeqEqual
  <1>5. QED
    BY <1>2, <1>4 DEF TakenIsPrefix

(* and slots to one thread. *)
LEMMA InvNoSharedSlot == AsIntended /\ RingInv => NoSharedSlot
  <1> SUFFICES ASSUME AsIntended, RingInv, NEW u \in Users, NEW v \in Users,
                      u # v, At(u, "write"), rpc[v] \in {"write", "read"}
               PROVE  SlotOf(idx[u]) # SlotOf(idx[v])
    BY DEF NoSharedSlot
  <1>1. rpc[u] = "write"
    BY DEF At
  <1>2. ASSUME NEW m \in Nat, NEW r \in Nat, NEW s \in Nat, NEW n \in Nat, NEW t \in Nat, NEW k \in Nat,
               Single(m, r, s, n, t, k)
        PROVE  SlotOf(idx[u]) # SlotOf(idx[v])
    <2>1. u \in RingProducers
      BY <1>1, <1>2 DEF Single, ConsumerAt, Users
    <2>2. v \in RingConsumers
      BY <1>1, <1>2, <2>1 DEF Single, ProducerAt, Users
    <2>3. ProducerAt(u, m, r, s, n, t, k) /\ ConsumerAt(v, m, s, n, t) /\ Counted(m, r, s, n, t, k)
      BY <1>2, <2>1, <2>2 DEF Single
    <2>4. rpc[v] = "read"
      BY <2>3 DEF ConsumerAt
    <2>5. idx[u] = Index(m, s, n) /\ n - t < r /\ idx[v] = Index(m, s, t) /\ t < n
      BY <1>1, <2>3, <2>4 DEF ProducerAt, ConsumerAt
    <2>6. m \in {Capacity, Wrap} /\ n - t < Capacity /\ t <= n /\ t # n
      BY <2>3, <2>5, RingConstants DEF Counted
    <2>7. Pos(s, t) # Pos(s, n)
      BY <2>6, PosSame
    <2>8. SlotOf(idx[u]) = Pos(s, n) /\ SlotOf(idx[v]) = Pos(s, t)
      BY <2>5, <2>6, SlotOfIndex
    <2>9. QED
      BY <2>7, <2>8
  <1>3. ASSUME NEW s \in Nat, NEW n \in Nat, NEW t \in Nat, NEW e \in Nat, Multi(s, n, t, e)
        PROVE  SlotOf(idx[u]) # SlotOf(idx[v])
    <2>1. Many(s, n, t, e)
      BY <1>3 DEF RingInv, Many
    <2>2. u \in RingProducers
      BY <1>1, <1>3 DEF Multi, Consuming, Users
    <2>3. PICK a \in e..(n - 1) : idx[u] = Index(Wrap, s, a) /\ flag[Pos(s, a)] = Index(Wrap, s, a)
      BY <1>1, <1>3, <2>2 DEF Multi, Claimed
    <2>4. /\ \A i \in e..(e + Capacity - 1) : i # a => Pos(s, i) # Pos(s, a)
          /\ \A q \in RingProducers \ {u} : \A b \in e..(n - 1) :
               rpc[q] \in {"write", "fill"} /\ idx[q] = Index(Wrap, s, b) => b # a
          /\ \A c \in RingConsumers :
               rpc[c] \in {"read", "reset"} => t # a /\ e = t /\ t \in e..(e + Capacity - 1)
          /\ a \in Nat
      BY <1>1, <2>1, <2>2, <2>3, ManyApart
    <2>5. \E b \in e..(e + Capacity - 1) : idx[v] = Index(Wrap, s, b) /\ b # a
      <3>1. CASE v \in RingProducers
        <4>1. rpc[v] = "write" /\ Claimed(v, s, n, e)
          BY <1>3, <3>1 DEF Multi
        <4>2. PICK b \in e..(n - 1) : idx[v] = Index(Wrap, s, b)
          BY <4>1 DEF Claimed
        <4>3. b # a /\ b \in e..(e + Capacity - 1)
          BY <2>1, <2>4, <3>1, <4>1, <4>2, ManyIndices
        <4>4. QED
          BY <4>2, <4>3
      <3>2. CASE v \in RingConsumers
        <4>1. rpc[v] = "read" /\ idx[v] = Index(Wrap, s, t)
          BY <1>3, <3>2 DEF Multi, Consuming
        <4>2. QED
          BY <2>4, <3>2, <4>1
      <3>3. QED
        BY <3>1, <3>2 DEF Users
    <2>6. PICK b \in e..(e + Capacity - 1) : idx[v] = Index(Wrap, s, b) /\ b # a
      BY <2>5
    <2>7. SlotOf(idx[u]) = Pos(s, a) /\ SlotOf(idx[v]) = Pos(s, b)
      <3>1. b \in Nat
        BY <2>1, ManyIndices
      <3>2. Wrap \in {Capacity, Wrap}
        OBVIOUS
      <3>3. QED
        BY <2>3, <2>4, <2>6, <3>1, <3>2, SlotOfIndex
    <2>8. QED
      BY <2>4, <2>6, <2>7
  <1>4. QED
    BY <1>2, <1>3 DEF RingInv

(* The indices, flags, threads and items of a ring keep to their types,       *)
(* however many threads use it.                                             *)
THEOREM RingTypeCorrect == RingSpec => []RingTypeOK
  <1>1. RingInit => RingTypeOK
    BY RingInitType
  <1>2. RingTypeOK /\ [RingNext]_ringVars => RingTypeOK'
    <2>1. ASSUME RingTypeOK, UNCHANGED ringVars PROVE RingTypeOK'
      BY <2>1 DEF RingTypeOK, ringVars
    <2>2. QED
      BY <2>1, RingTypeStep
  <1>3. QED
    BY <1>1, <1>2, PTL DEF RingSpec

(* Every ring used as intended is a queue: what is taken is what was put, each *)
(* item once and in the order of the slots, for every capacity, where the     *)
(* indices wrap at it or at 2^64, with several producers in the MPSCRing.     *)
THEOREM RingTakesInOrder == ASSUME AsIntended PROVE RingSpec => []TakenIsPrefix
  <1>1. RingInit => RingInv
    BY RingInitInv
  <1>2. RingInv /\ [RingNext]_ringVars => RingInv'
    BY RingNextInv
  <1>3. RingInv => TakenIsPrefix
    BY InvTakenIsPrefix
  <1>4. QED
    BY <1>1, <1>2, <1>3, PTL DEF RingSpec

(* No two threads copy an item into or out of the same slot at a time.       *)
THEOREM RingSlotsApart == ASSUME AsIntended PROVE RingSpec => []NoSharedSlot
  <1>1. RingInit => RingInv
    BY RingInitInv
  <1>2. RingInv /\ [RingNext]_ringVars => RingInv'
    BY RingNextInv
  <1>3. RingInv => NoSharedSlot
    BY InvNoSharedSlot
  <1>4. QED
    BY <1>1, <1>2, <1>3, PTL DEF RingSpec

-----------------------------------------------------------------------------
(* The order book.                                                         *)

(* A level holds what its orders add up to. *)
LevelSet == [quantity : Nat, orders : Seq(Quantities)]
BookTypes(bk) ==
  /\ bk \in [Sides -> [Prices -> LevelSet]]
  /\ \A s \in Sides, p \in Prices :
       bk[s][p].quantity = Sums(bk[s][p].orders)[Len(bk[s][p].orders)]

(* Each side orders its prices strictly and totally. *)
LEMMA BeforeOrder ==
  ASSUME NEW s, NEW a \in Prices, NEW b \in Prices
  PROVE  /\ ~Before(s, a, a)
         /\ a = b \/ Before(s, a, b) \/ Before(s, b, a)
         /\ ~(Before(s, a, b) /\ Before(s, b, a))
         /\ \A c \in Prices : Before(s, a, b) /\ Before(s, b, c) => Before(s, a, c)
  <1>1. Prices \subseteq Nat
    BY OrderBookAssumption
  <1>2. CASE s = "bid"
    <2>1. \A c, d \in Prices : Before(s, c, d) <=> c > d
      BY <1>2 DEF Before
    <2>2. QED
      BY <1>1, <2>1
  <1>3. CASE s # "bid"
    <2>1. \A c, d \in Prices : Before(s, c, d) <=> c < d
      BY <1>3 DEF Before
    <2>2. QED
      BY <1>1, <2>1
  <1>4. QED
    BY <1>2, <1>3

(* The number of better prices orders the prices of a side. *)
LEMMA RankFacts ==
  ASSUME NEW s \in Sides, NEW P \in SUBSET Prices
  PROVE  /\ IsFiniteSet(P) /\ Cardinality(P) \in Nat
         /\ \A p \in Prices : Rank(s, P, p) \in 0..Cardinality(P)
         /\ \A p \in P : Rank(s, P, p) < Cardinality(P)
         /\ \A p, q \in Prices : p = q \/ Before(s, p, q) => Rank(s, P, p) <= Rank(s, P, q)
         /\ \A p \in P, q \in Prices :
              Before(s, p, q) => Rank(s, P, p) < Rank(s, P, q)
  <1> DEFINE D(p) == {l \in P : Before(s, l, p)}
  <1>1. P \subseteq Prices /\ Prices \subseteq Nat
    BY OrderBookAssumption
  <1>2. IsFiniteSet(P) /\ Cardinality(P) \in Nat
    BY <1>1, FS_Subset, FS_CardinalityType, OrderBookAssumption
  <1>3. ASSUME NEW S \in SUBSET P
        PROVE  IsFiniteSet(S) /\ Cardinality(S) \in 0..Cardinality(P)
    <2>1. IsFiniteSet(S) /\ Cardinality(S) <= Cardinality(P)
      BY <1>2, FS_Subset
    <2>2. Cardinality(S) \in Nat
      BY <2>1, FS_CardinalityType
    <2>3. QED
      BY <1>2, <2>1, <2>2
  <1>4. ASSUME NEW S \in SUBSET P, NEW T \in SUBSET P, S \subseteq T
        PROVE  Cardinality(S) <= Cardinality(T)
    BY <1>3, <1>4, FS_Subset
  <1>5. ASSUME NEW S \in SUBSET P, NEW T \in SUBSET P, S \subseteq T, NEW l \in T, l \notin S
        PROVE  Cardinality(S) < Cardinality(T)
    <2>1. IsFiniteSet(T) /\ S \in SUBSET T /\ S # T
      BY <1>3, <1>5
    <2>2. Cardinality(S) <= Cardinality(T) /\ Cardinality(S) # Cardinality(T)
      BY <2>1, FS_Subset
    <2>3. QED
      BY <1>3, <2>2
  <1>6. \A p : D(p) \in SUBSET P /\ Rank(s, P, p) = Cardinality(D(p))
    BY DEF Rank
  <1>7. \A p \in Prices : Rank(s, P, p) \in 0..Cardinality(P)
    BY <1>3, <1>6
  <1>8. \A p \in P : Rank(s, P, p) < Cardinality(P)
    <2> SUFFICES ASSUME NEW p \in P PROVE Rank(s, P, p) < Cardinality(P)
      OBVIOUS
    <2>1. p \notin D(p) /\ D(p) \subseteq P
      BY <1>1, BeforeOrder
    <2>2. QED
      BY <1>5, <1>6, <2>1
  <1>9. ASSUME NEW p \in Prices, NEW q \in Prices, p = q \/ Before(s, p, q)
        PROVE  D(p) \subseteq D(q)
    BY <1>1, <1>9, BeforeOrder
  <1>10. ASSUME NEW p \in Prices, NEW q \in Prices, p = q \/ Before(s, p, q)
         PROVE  Rank(s, P, p) <= Rank(s, P, q)
    <2>1. D(p) \subseteq D(q)
      BY <1>9, <1>10
    <2>2. QED
      BY <1>4, <1>6, <2>1
  <1>11. ASSUME NEW p \in P, NEW q \in Prices, Before(s, p, q)
         PROVE  Rank(s, P, p) < Rank(s, P, q)
    <2>1. p \notin D(p) /\ p \in D(q)
      BY <1>1, <1>11, BeforeOrder
    <2>2. D(p) \subseteq D(q)
      BY <1>1, <1>9, <1>11
    <2>3. QED
      BY <1>5, <1>6, <2>1, <2>2
  <1>12. QED
    BY <1>2, <1>7, <1>8, <1>10, <1>11

(* A price before another is one of fewer better prices. *)
LEMMA RankBefore ==
  ASSUME NEW s \in Sides, NEW P \in SUBSET Prices, NEW p \in Prices, NEW q \in Prices,
         Rank(s, P, p) < Rank(s, P, q)
  PROVE  Before(s, p, q)
  <1>1. p \in Nat /\ q \in Nat
    BY OrderBookAssumption
  <1>2. p = q \/ Before(s, q, p) => Rank(s, P, q) <= Rank(s, P, p)
    BY RankFacts
  <1>3. Rank(s, P, p) \in Int /\ Rank(s, P, q) \in Int
    BY RankFacts
  <1>4. ~(p = q \/ Before(s, q, p))
    BY <1>2, <1>3
  <1>5. QED
    BY <1>4, BeforeOrder

(* Sorted enumerates the prices of a side: no rank is without its price, since *)
(* as many prices as ranks have different ones.                            *)
LEMMA SortedFacts ==
  ASSUME NEW s \in Sides, NEW P \in SUBSET Prices
  PROVE  /\ Sorted(s, P) \in Seq(Prices) /\ Len(Sorted(s, P)) = Cardinality(P)
         /\ \A i \in 1..Len(Sorted(s, P)) :
              Sorted(s, P)[i] \in P /\ Rank(s, P, Sorted(s, P)[i]) = i - 1
         /\ \A p \in P :
              Rank(s, P, p) + 1 \in 1..Len(Sorted(s, P))
              /\ Sorted(s, P)[Rank(s, P, p) + 1] = p
  <1> DEFINE n == Cardinality(P)
             f == [p \in P |-> Rank(s, P, p) + 1]
  <1>1. P \subseteq Prices /\ Prices \subseteq Nat
    BY OrderBookAssumption
  <1>2. n \in Nat /\ IsFiniteSet(1..n) /\ Cardinality(1..n) = n
    <2>1. n \in Nat
      BY RankFacts
    <2>2. IsFiniteSet(1..n) /\ Cardinality(1..n) = IF 1 > n THEN 0 ELSE n - 1 + 1
      BY <2>1, FS_Interval
    <2>3. QED
      BY <2>1, <2>2
  <1>3. \A p \in P : Rank(s, P, p) \in 0..(n - 1)
    <2> SUFFICES ASSUME NEW p \in P PROVE Rank(s, P, p) \in 0..(n - 1)
      OBVIOUS
    <2>1. Rank(s, P, p) \in 0..n /\ Rank(s, P, p) < n
      BY <1>1, RankFacts
    <2>2. QED
      BY <1>2, <2>1
  <1>4. \A p, q \in P : Rank(s, P, p) = Rank(s, P, q) => p = q
    <2> SUFFICES ASSUME NEW p \in P, NEW q \in P, p # q
                 PROVE  Rank(s, P, p) # Rank(s, P, q)
      OBVIOUS
    <2>1. Before(s, p, q) \/ Before(s, q, p)
      BY <1>1, BeforeOrder
    <2>2. Rank(s, P, p) < Rank(s, P, q) \/ Rank(s, P, q) < Rank(s, P, p)
      BY <1>1, <2>1, RankFacts
    <2>3. QED
      BY <1>3, <2>2
  <1>5. f \in Injection(P, 1..n)
    <2>1. f \in [P -> 1..n]
      BY <1>2, <1>3
    <2>2. \A p, q \in P : f[p] = f[q] => p = q
      BY <1>3, <1>4
    <2>3. QED
      BY <2>1, <2>2 DEF Injection, IsInjective
  <1>6. f \in Surjection(P, 1..n)
    BY <1>2, <1>5, FS_Injection
  <1>7. \A i \in 1..n : \E p \in P : Rank(s, P, p) = i - 1
    <2> SUFFICES ASSUME NEW i \in 1..n PROVE \E p \in P : Rank(s, P, p) = i - 1
      OBVIOUS
    <2>1. PICK p \in P : f[p] = i
      BY <1>6 DEF Surjection
    <2>2. Rank(s, P, p) + 1 = i /\ Rank(s, P, p) \in Int
      BY <1>3, <2>1
    <2>3. QED
      BY <2>2
  <1>8. PICK ls : ls = Sorted(s, P)
    OBVIOUS
  <1>9. ls = [i \in 1..n |-> CHOOSE p \in P : Rank(s, P, p) = i - 1]
    BY <1>8 DEF Sorted
  <1>10. \A i \in 1..n : ls[i] \in P /\ Rank(s, P, ls[i]) = i - 1
    BY <1>7, <1>9
  <1>11. ls \in Seq(Prices) /\ Len(ls) = n
    <2>1. ls \in [1..n -> Prices]
      BY <1>1, <1>9, <1>10
    <2>2. QED
      BY <1>2, <2>1
  <1>12. ASSUME NEW p \in P
         PROVE  Rank(s, P, p) + 1 \in 1..n /\ ls[Rank(s, P, p) + 1] = p
    <2>1. Rank(s, P, p) + 1 \in 1..n
      BY <1>2, <1>3
    <2>2. PICK k : k = Rank(s, P, p) + 1
      OBVIOUS
    <2>3. ls[k] \in P /\ Rank(s, P, ls[k]) = Rank(s, P, p)
      BY <1>3, <1>10, <2>1, <2>2
    <2>4. QED
      BY <1>4, <2>1, <2>2, <2>3
  <1>13. QED
    BY <1>8, <1>10, <1>11, <1>12

(* The levels of a side. *)
LEMMA LevelsFacts ==
  ASSUME NEW bk, NEW s \in Sides
  PROVE  LET P == Priced(bk, s)
         IN  /\ Levels(bk, s) \in Seq(Prices) /\ Len(Levels(bk, s)) = Cardinality(P)
             /\ \A i \in 1..Len(Levels(bk, s)) :
                  Levels(bk, s)[i] \in P /\ Rank(s, P, Levels(bk, s)[i]) = i - 1
             /\ \A p \in P : Rank(s, P, p) + 1 \in 1..Len(Levels(bk, s))
                              /\ Levels(bk, s)[Rank(s, P, p) + 1] = p
  <1>1. PICK P \in SUBSET Prices : P = Priced(bk, s)
    BY DEF Priced
  <1>2. Levels(bk, s) = Sorted(s, P)
    BY <1>1 DEF Levels
  <1>3. QED
    BY <1>1, <1>2, SortedFacts

(* A non-empty set of numbers has a least one. *)
LEMMA LeastExists ==
  ASSUME NEW T \in SUBSET Nat, T # {}
  PROVE  \E x \in T : \A y \in T : x <= y
  <1>1. PICK R : R = {x \in Nat \X Nat : x[1] < x[2]}
    OBVIOUS
  <1>2. IsWellFoundedOn(R, Nat)
    BY <1>1, NatLessThanWellFounded DEF OpToRel
  <1>3. \A x, y \in Nat : <<x, y>> \in R <=> x < y
    BY <1>1
  <1>4. PICK x \in T : \A y \in T : ~(<<y, x>> \in R)
    BY <1>2, WFMin
  <1>5. \A y \in T : ~(y < x)
    BY <1>3, <1>4
  <1>6. QED
    BY <1>5

(* Induction up to N, in set form. *)
LEMMA InductionUpto ==
  ASSUME NEW N \in Nat, NEW T, 0 \in T, \A n \in 1..N : n - 1 \in T => n \in T
  PROVE  \A n \in 0..N : n \in T
  <1> DEFINE B == {n \in 0..N : n \notin T}
  <1>1. SUFFICES ASSUME B # {} PROVE FALSE
    OBVIOUS
  <1>2. B \in SUBSET Nat
    OBVIOUS
  <1>3. PICK k \in B : \A l \in B : k <= l
    BY <1>1, <1>2, LeastExists
  <1>4. k \in 1..N /\ k - 1 \in 0..N /\ k - 1 \notin B
    BY <1>3
  <1>5. QED
    BY <1>3, <1>4

(* f starts with `first' and goes on with step. *)
Iterates(f, N, first, step) == f[0] = first /\ \A n \in 1..N : f[n] = step[n][f[n - 1]]

(* A recursion over 0..N defines a function. *)
LEMMA RecursionExists ==
  ASSUME NEW N \in Nat, NEW S, NEW first \in S, NEW step \in [1..N -> [S -> S]]
  PROVE  \E f \in [0..N -> S] : Iterates(f, N, first, step)
  <1> USE DEF Iterates
  <1> DEFINE Upto(k, f) == Iterates(f, k, first, step)
             T == {k \in 0..N : \E f \in [0..k -> S] : Upto(k, f)}
  <1>1. 0 \in T
    <2>1. PICK h : h = [n \in 0..0 |-> first]
      OBVIOUS
    <2>2. h \in [0..0 -> S] /\ Upto(0, h)
      BY <2>1
    <2>3. QED
      BY <2>2
  <1>2. ASSUME NEW k \in 1..N, k - 1 \in T PROVE k \in T
    <2>1. PICK m : m = k - 1 /\ m \in 0..N /\ m \in T /\ m + 1 = k
      BY <1>2
    <2>2. PICK f \in [0..m -> S] : Upto(m, f)
      BY <2>1
    <2>3. PICK g : g = [n \in 0..k |-> IF n = k THEN step[k][f[m]] ELSE f[n]]
      OBVIOUS
    <2>4. f[m] \in S /\ step[k][f[m]] \in S
      BY <2>1, <2>2
    <2>5. g \in [0..k -> S]
      BY <2>1, <2>2, <2>3, <2>4
    <2>6. \A n \in 0..m : g[n] = f[n] /\ n \in 0..k
      BY <2>1, <2>3
    <2>7. g[k] = step[k][g[k - 1]] /\ g[0] = first
      <3>1. k - 1 = m /\ m \in 0..m /\ k \in 0..k /\ 0 \in 0..m
        BY <2>1
      <3>2. g[k] = step[k][f[m]] /\ g[k - 1] = f[m] /\ g[0] = f[0]
        BY <2>3, <2>6, <3>1
      <3>3. QED
        BY <2>2, <3>2
    <2>8. ASSUME NEW n \in 1..k PROVE g[n] = step[n][g[n - 1]]
      <3>1. n = k \/ (n \in 1..m /\ n \in 0..m /\ n - 1 \in 0..m)
        BY <2>1
      <3>2. QED
        BY <2>2, <2>6, <2>7, <3>1
    <2>9. Upto(k, g)
      BY <2>7, <2>8
    <2>10. k \in 0..N
      OBVIOUS
    <2>11. QED
      BY <2>5, <2>9, <2>10
  <1>3. N \in T
    <2> HIDE DEF T
    <2>1. \A n \in 0..N : n \in T
      BY <1>1, <1>2, InductionUpto
    <2>2. QED
      BY <2>1
  <1>4. QED
    BY <1>3

(* Sums adds up. *)
LEMMA SumsFacts ==
  ASSUME NEW qs \in Seq(Nat)
  PROVE  /\ Sums(qs) \in [0..Len(qs) -> Nat] /\ Sums(qs)[0] = 0
         /\ \A n \in 1..Len(qs) : Sums(qs)[n] = Sums(qs)[n - 1] + qs[n]
  <1>1. PICK N \in Nat : N = Len(qs)
    OBVIOUS
  <1>2. PICK q \in [1..N -> Nat] : q = qs
    BY <1>1
  <1>3. PICK step : step = [n \in 1..N |-> [v \in Nat |-> v + q[n]]]
    OBVIOUS
  <1>4. step \in [1..N -> [Nat -> Nat]]
    BY <1>2, <1>3
  <1>5. PICK f \in [0..N -> Nat] :
               f[0] = 0 /\ \A n \in 1..N : f[n] = step[n][f[n - 1]]
    <2>1. PICK S, z : S = Nat /\ z = 0
      OBVIOUS
    <2>2. z \in S /\ step \in [1..N -> [S -> S]]
      BY <1>4, <2>1
    <2>3. \E f \in [0..N -> S] : Iterates(f, N, z, step)
      BY <1>1, <2>2, RecursionExists
    <2>4. QED
      BY <2>1, <2>3 DEF Iterates
  <1>6. ASSUME NEW n \in 1..N PROVE f[n] = f[n - 1] + q[n]
    <2>1. n - 1 \in 0..N
      BY <1>1
    <2>2. f[n - 1] \in Nat
      BY <2>1, <1>5
    <2>3. QED
      BY <1>3, <1>5, <2>2
  <1>7. f = [n \in 0..N |-> IF n = 0 THEN 0 ELSE f[n - 1] + q[n]]
    <2>1. f = [n \in 0..N |-> f[n]]
      OBVIOUS
    <2>2. \A n \in 0..N : f[n] = IF n = 0 THEN 0 ELSE f[n - 1] + q[n]
      BY <1>1, <1>5, <1>6
    <2>3. QED
      BY <2>1, <2>2
  <1>8. PICK sum : sum = Sums(qs)
    OBVIOUS
  <1>9. sum = CHOOSE g : g = [n \in 0..N |-> IF n = 0 THEN 0 ELSE g[n - 1] + q[n]]
    BY <1>1, <1>2, <1>8 DEF Sums
  <1>10. sum = [n \in 0..N |-> IF n = 0 THEN 0 ELSE sum[n - 1] + q[n]]
    BY <1>7, <1>9
  <1>11. /\ DOMAIN sum = 0..N /\ sum[0] = 0
         /\ \A n \in 1..N : sum[n] = sum[n - 1] + q[n]
    <2>1. /\ DOMAIN sum = 0..N
          /\ \A n \in 0..N : sum[n] = IF n = 0 THEN 0 ELSE sum[n - 1] + q[n]
      BY <1>10
    <2>2. 0 \in 0..N /\ \A n \in 1..N : n \in 0..N /\ n # 0
      OBVIOUS
    <2>3. sum[0] = 0
      BY <2>1, <2>2
    <2>4. \A n \in 1..N : sum[n] = sum[n - 1] + q[n]
      BY <2>1, <2>2
    <2>5. QED
      BY <2>1, <2>3, <2>4
  <1>12. \A n \in 0..N : sum[n] \in Nat
    <2> DEFINE T == {n \in 0..N : sum[n] \in Nat}
    <2>1. 0 \in T
      BY <1>11
    <2>2. \A n \in 1..N : n - 1 \in T => n \in T
      BY <1>2, <1>11, SMTT(20)
    <2> HIDE DEF T
    <2>3. \A n \in 0..N : n \in T
      BY <2>1, <2>2, InductionUpto
    <2>4. QED
      BY <2>3 DEF T
  <1>13. sum \in [0..N -> Nat]
    <2>1. sum = [n \in 0..N |-> sum[n]]
      BY <1>10, <1>11
    <2>2. QED
      BY <1>12, <2>1
  <1>14. QED
    BY <1>1, <1>2, <1>8, <1>11, <1>13

(* Sums grow with the number of quantities. *)
LEMMA SumsGrow ==
  ASSUME NEW qs \in Seq(Nat), NEW m \in 0..Len(qs), NEW n \in 0..Len(qs), m <= n
  PROVE  Sums(qs)[m] <= Sums(qs)[n]
  <1>1. PICK sum, N, q : sum = Sums(qs) /\ N = Len(qs) /\ q = qs
    OBVIOUS
  <1>2. /\ N \in Nat /\ sum \in [0..N -> Nat] /\ q \in [1..N -> Nat]
        /\ \A k \in 1..N : sum[k] = sum[k - 1] + q[k]
    <2>1. N \in Nat /\ q \in [1..N -> Nat]
      BY <1>1
    <2>2. QED
      BY <1>1, <2>1, SumsFacts
  <1>0. m \in 0..N /\ n \in 0..N
    BY <1>1
  <1> DEFINE T == {k \in 0..N : m <= k => sum[m] <= sum[k]}
  <1>3. 0 \in T
    BY <1>0, <1>2
  <1>4. ASSUME NEW k \in 1..N, k - 1 \in T PROVE k \in T
    <2>1. CASE k = m
      BY <1>0, <1>2, <2>1
    <2>2. CASE k # m
      <3>1. PICK w \in Nat : w = q[k]
        BY <1>2
      <3>2. k - 1 \in 0..N /\ sum[k - 1] \in Nat /\ sum[m] \in Nat /\ sum[k] = sum[k - 1] + w
        BY <1>0, <1>2, <3>1
      <3>3. m <= k => sum[m] <= sum[k - 1]
        BY <1>0, <1>2, <1>4, <2>2
      <3>4. QED
        BY <1>2, <3>2, <3>3
    <2>3. QED
      BY <2>1, <2>2
  <1>5. n \in T
    <2> HIDE DEF T
    <2>1. \A k \in 0..N : k \in T
      BY <1>2, <1>3, <1>4, InductionUpto
    <2>2. QED
      BY <1>0, <2>1
  <1>6. QED
    BY <1>1, <1>5

(* The sums of two sequences one after the other *)
LEMMA SumsConcat ==
  ASSUME NEW qs \in Seq(Nat), NEW rs \in Seq(Nat)
  PROVE  /\ qs \o rs \in Seq(Nat) /\ Len(qs \o rs) = Len(qs) + Len(rs)
         /\ \A k \in 0..Len(qs) : Sums(qs \o rs)[k] = Sums(qs)[k]
         /\ \A k \in 0..Len(rs) :
              Sums(qs \o rs)[Len(qs) + k] = Sums(qs)[Len(qs)] + Sums(rs)[k]
  <1>1. PICK M \in Nat, N \in Nat : M = Len(qs) /\ N = Len(rs)
    OBVIOUS
  <1>2. PICK ts : ts = qs \o rs
    OBVIOUS
  <1>3. /\ ts \in Seq(Nat) /\ Len(ts) = M + N
        /\ \A i \in 1..(M + N) : ts[i] = IF i <= M THEN qs[i] ELSE rs[i - M]
    BY <1>1, <1>2, ConcatProperties
  <1>4. PICK q \in [1..M -> Nat], r \in [1..N -> Nat], t \in [1..(M + N) -> Nat] :
               q = qs /\ r = rs /\ t = ts
    <2>1. qs \in [1..M -> Nat]
      BY <1>1
    <2>2. rs \in [1..N -> Nat]
      BY <1>1
    <2>3. ts \in [1..(M + N) -> Nat]
      BY <1>3
    <2>4. QED
      BY <2>1, <2>2, <2>3
  <1>5. \A i \in 1..M : i \in 1..(M + N) /\ t[i] = q[i]
    BY <1>3, <1>4
  <1>6. ASSUME NEW i \in 1..N PROVE M + i \in 1..(M + N) /\ t[M + i] = r[i]
    <2>1. M + i \in 1..(M + N) /\ ~(M + i <= M) /\ M + i - M = i
      OBVIOUS
    <2>2. QED
      BY <1>3, <1>4, <2>1
  <1>7. PICK a, b, c : a = Sums(qs) /\ b = Sums(rs) /\ c = Sums(ts)
    OBVIOUS
  <1>8. /\ a \in [0..M -> Nat] /\ a[0] = 0 /\ \A n \in 1..M : a[n] = a[n - 1] + q[n]
        /\ b \in [0..N -> Nat] /\ b[0] = 0 /\ \A n \in 1..N : b[n] = b[n - 1] + r[n]
        /\ c \in [0..(M + N) -> Nat] /\ c[0] = 0
        /\ \A n \in 1..(M + N) : c[n] = c[n - 1] + t[n]
    BY <1>1, <1>3, <1>4, <1>7, SumsFacts
  <1>9. \A k \in 0..M : c[k] = a[k]
    <2> DEFINE T == {k \in 0..M : c[k] = a[k]}
    <2>1. 0 \in T
      BY <1>8
    <2>2. ASSUME NEW n \in 1..M, n - 1 \in T PROVE n \in T
      <3>1. c[n] = c[n - 1] + t[n] /\ a[n] = a[n - 1] + q[n]
        BY <1>5, <1>8
      <3>2. QED
        BY <1>5, <2>2, <3>1
    <2> HIDE DEF T
    <2>3. \A k \in 0..M : k \in T
      BY <2>1, <2>2, InductionUpto
    <2>4. QED
      BY <2>3 DEF T
  <1>10. \A k \in 0..N : c[M + k] = a[M] + b[k]
    <2> DEFINE T == {k \in 0..N : c[M + k] = a[M] + b[k]}
    <2>1. 0 \in T
      BY <1>8, <1>9
    <2>2. ASSUME NEW n \in 1..N, n - 1 \in T PROVE n \in T
      <3>1. PICK i \in 1..(M + N), j \in 0..(M + N), m \in 0..N :
                   i = M + n /\ j = i - 1 /\ m = n - 1 /\ j = M + m
        OBVIOUS
      <3>2. c[i] = c[j] + t[i] /\ b[n] = b[m] + r[n]
        BY <1>8, <3>1
      <3>3. PICK x \in Nat, y \in Nat, z \in Nat : x = a[M] /\ y = b[m] /\ z = r[n]
        <4>1. M \in 0..M
          OBVIOUS
        <4>2. a[M] \in Nat /\ b[m] \in Nat
          BY <1>8, <4>1
        <4>3. r[n] \in Nat
          OBVIOUS
        <4>4. QED
          BY <4>2, <4>3
      <3>4. c[j] = x + y /\ t[i] = z
        BY <1>6, <2>2, <3>1, <3>3
      <3>5. c[i] = a[M] + b[n]
        <4>1. c[i] = (x + y) + z /\ b[n] = y + z
          BY <3>2, <3>3, <3>4
        <4>2. a[M] + b[n] = x + (y + z)
          BY <3>3, <4>1
        <4>3. (x + y) + z = x + (y + z)
          OBVIOUS
        <4>4. QED
          BY <4>1, <4>2, <4>3
      <3>6. QED
        BY <3>1, <3>5
    <2> HIDE DEF T
    <2>3. \A k \in 0..N : k \in T
      BY <2>1, <2>2, InductionUpto
    <2>4. QED
      BY <2>3 DEF T
  <1>11. QED
    BY <1>1, <1>2, <1>3, <1>7, <1>9, <1>10

(* A level without orders holds nothing, any other something. *)
LEMMA LevelHolds ==
  ASSUME NEW bk, BookTypes(bk), NEW s \in Sides, NEW p \in Prices
  PROVE  /\ bk[s][p].orders \in Seq(Nat) /\ Within(bk, s, p) \in Nat
         /\ p \notin Priced(bk, s) => Within(bk, s, p) = 0
         /\ p \in Priced(bk, s) => Within(bk, s, p) > 0
  <1>1. PICK os \in Seq(Quantities) : os = bk[s][p].orders
    BY DEF BookTypes, LevelSet
  <1>2. PICK N \in Nat : N = Len(os)
    OBVIOUS
  <1>3. PICK q \in [1..N -> Quantities] : q = os
    BY <1>2
  <1>4. \A n \in 1..N : q[n] \in Nat /\ q[n] > 0
    <2>1. \A v \in Quantities : v \in Nat /\ v > 0
      BY OrderBookAssumption
    <2>2. QED
      BY <2>1
  <1>5. os \in Seq(Nat)
    BY <1>2, <1>3, <1>4
  <1>6. PICK sum : sum = Sums(os)
    OBVIOUS
  <1>7. /\ sum \in [0..N -> Nat] /\ sum[0] = 0
        /\ \A n \in 1..N : sum[n] = sum[n - 1] + q[n]
    BY <1>2, <1>3, <1>5, <1>6, SumsFacts
  <1>8. Within(bk, s, p) = sum[N]
    BY <1>1, <1>2, <1>6 DEF Within, BookTypes
  <1>9. p \in Priced(bk, s) <=> N # 0
    BY <1>1, <1>2 DEF Priced
  <1>10. N # 0 => sum[N] > 0
    <2> SUFFICES ASSUME N # 0 PROVE sum[N] > 0
      OBVIOUS
    <2>1. N \in 1..N /\ N - 1 \in 0..N
      OBVIOUS
    <2>2. sum[N] = sum[N - 1] + q[N] /\ sum[N - 1] \in Nat
      BY <1>7, <2>1
    <2>3. QED
      BY <1>4, <2>1, <2>2
  <1>11. QED
    BY <1>1, <1>5, <1>7, <1>8, <1>9, <1>10

(* The prefix sums of a side. *)
LEMMA PrefixSumFacts ==
  ASSUME NEW bk, BookTypes(bk), NEW s \in Sides
  PROVE  LET N == Len(Levels(bk, s))
             sum == PrefixSum(bk, s)
         IN  /\ sum \in [0..N -> Nat] /\ sum[0] = 0
             /\ \A n \in 1..N : sum[n] = sum[n - 1] + Within(bk, s, Levels(bk, s)[n])
             /\ \A m, n \in 0..N : m <= n => sum[m] <= sum[n]
  <1>1. PICK ls, N : ls = Levels(bk, s) /\ N = Len(ls)
    OBVIOUS
  <1>2. N \in Nat /\ ls \in Seq(Prices)
    BY <1>1, LevelsFacts
  <1>3. PICK qs : qs = [n \in 1..N |-> bk[s][ls[n]].quantity]
    OBVIOUS
  <1>4. \A n \in 1..N : qs[n] = Within(bk, s, ls[n]) /\ qs[n] \in Nat
    <2> SUFFICES ASSUME NEW n \in 1..N
                 PROVE  qs[n] = Within(bk, s, ls[n]) /\ qs[n] \in Nat
      OBVIOUS
    <2>1. ls[n] \in Prices
      BY <1>1, <1>2
    <2>2. bk[s][ls[n]] \in LevelSet
      BY <2>1 DEF BookTypes
    <2>3. QED
      BY <1>3, <2>2 DEF Within, LevelSet
  <1>5. qs \in Seq(Nat) /\ Len(qs) = N
    <2>1. qs \in [1..N -> Nat]
      BY <1>3, <1>4
    <2>2. QED
      BY <1>2, <2>1
  <1>6. PrefixSum(bk, s) = Sums(qs)
    BY <1>1, <1>3 DEF PrefixSum
  <1>7. /\ Sums(qs) \in [0..N -> Nat] /\ Sums(qs)[0] = 0
        /\ \A n \in 1..N : Sums(qs)[n] = Sums(qs)[n - 1] + qs[n]
    BY <1>5, SumsFacts
  <1>8. \A m, n \in 0..N : m <= n => Sums(qs)[m] <= Sums(qs)[n]
    BY <1>5, SumsGrow
  <1>9. QED
    BY <1>1, <1>4, <1>6, <1>7, <1>8

(* What is ahead of a price is what the levels before it hold. *)
LEMMA AheadFacts ==
  ASSUME NEW bk, BookTypes(bk), NEW s \in Sides
  PROVE  LET P == Priced(bk, s) IN
         /\ \A p \in Prices : Ahead(bk, s, p) \in Nat /\ Within(bk, s, p) \in Nat
         /\ \A p, q \in Prices :
              Before(s, p, q) => Ahead(bk, s, p) + Within(bk, s, p) <= Ahead(bk, s, q)
         /\ \A p \in Prices :
              \/ Ahead(bk, s, p) = 0
              \/ \E l \in P :
                   Before(s, l, p) /\ Ahead(bk, s, p) = Ahead(bk, s, l) + Within(bk, s, l)
         /\ \A p \in Prices \ P : Within(bk, s, p) = 0
  <1>0. PICK P \in SUBSET Prices : P = Priced(bk, s)
    BY DEF Priced
  <1>1. PICK ls, sum, N : ls = Levels(bk, s) /\ sum = PrefixSum(bk, s) /\ N = Len(ls)
    OBVIOUS
  <1>2. /\ N \in Nat /\ N = Cardinality(P)
        /\ \A i \in 1..N : ls[i] \in P /\ Rank(s, P, ls[i]) = i - 1
        /\ \A p \in P : Rank(s, P, p) + 1 \in 1..N /\ ls[Rank(s, P, p) + 1] = p
    BY <1>0, <1>1, LevelsFacts, RankFacts
  <1>3. /\ sum \in [0..N -> Nat] /\ sum[0] = 0
        /\ \A k \in 1..N : sum[k] = sum[k - 1] + Within(bk, s, ls[k])
    BY <1>1, PrefixSumFacts
  <1>4. P \subseteq Prices
    OBVIOUS
  <1>5. \A p \in Prices : Rank(s, P, p) \in 0..N /\ Ahead(bk, s, p) = sum[Rank(s, P, p)]
    BY <1>0, <1>1, <1>2, RankFacts DEF Ahead
  <1>6. \A p \in Prices : Ahead(bk, s, p) \in Nat
    BY <1>3, <1>5
  <1>7. \A p \in Prices : Within(bk, s, p) \in Nat
    BY DEF Within, BookTypes, LevelSet
  <1>8. \A p \in Prices \ P : Within(bk, s, p) = 0
    BY <1>0, LevelHolds
  <1>9. ASSUME NEW p \in P
        PROVE  Ahead(bk, s, p) + Within(bk, s, p) = sum[Rank(s, P, p) + 1]
    <2>1. PICK k \in 1..N : k = Rank(s, P, p) + 1 /\ ls[k] = p
      BY <1>2
    <2>2. Rank(s, P, p) \in Nat /\ k - 1 = Rank(s, P, p)
      BY <1>4, <1>5, <2>1
    <2>3. sum[k] = sum[k - 1] + Within(bk, s, p)
      BY <1>3, <2>1
    <2>4. QED
      BY <1>4, <1>5, <2>1, <2>2, <2>3
  <1>10. \A m, n \in 0..N : m <= n => sum[m] <= sum[n]
    BY <1>1, PrefixSumFacts
  <1>11. ASSUME NEW p \in Prices, NEW q \in Prices, Before(s, p, q)
         PROVE  Ahead(bk, s, p) + Within(bk, s, p) <= Ahead(bk, s, q)
    <2>1. PICK m \in 0..N, n \in 0..N : m = Rank(s, P, p) /\ n = Rank(s, P, q)
      BY <1>5
    <2>2. CASE p \in P
      <3>1. m < n
        BY <1>11, <2>1, <2>2, RankFacts
      <3>2. m + 1 \in 0..N /\ sum[m + 1] <= sum[n]
        BY <1>2, <1>10, <3>1
      <3>3. QED
        BY <1>5, <1>9, <2>1, <2>2, <3>2
    <2>3. CASE p \notin P
      <3>1. m <= n
        BY <1>11, <2>1, RankFacts
      <3>2. sum[m] <= sum[n] /\ sum[m] \in Nat /\ sum[n] \in Nat
        BY <1>3, <1>10, <3>1
      <3>3. Within(bk, s, p) = 0 /\ Ahead(bk, s, p) = sum[m] /\ Ahead(bk, s, q) = sum[n]
        BY <1>5, <1>8, <2>1, <2>3
      <3>4. QED
        BY <3>2, <3>3
    <2>4. QED
      BY <2>2, <2>3
  <1>12. ASSUME NEW p \in Prices
         PROVE  \/ Ahead(bk, s, p) = 0
                \/ \E l \in P :
                     Before(s, l, p) /\ Ahead(bk, s, p) = Ahead(bk, s, l) + Within(bk, s, l)
    <2>1. PICK n \in 0..N : n = Rank(s, P, p)
      BY <1>5
    <2>2. CASE n = 0
      BY <1>3, <1>5, <2>1, <2>2
    <2>3. CASE n # 0
      <3>1. PICK l \in P : l = ls[n] /\ Rank(s, P, l) = n - 1
        BY <1>2, <2>3
      <3>2. Rank(s, P, l) < Rank(s, P, p)
        BY <2>1, <2>3, <3>1
      <3>3. Before(s, l, p)
        BY <1>4, <3>2, RankBefore
      <3>4. Rank(s, P, l) + 1 = n
        BY <2>1, <3>1
      <3>5. Ahead(bk, s, p) = Ahead(bk, s, l) + Within(bk, s, l)
        BY <1>5, <1>9, <2>1, <3>4
      <3>6. QED
        BY <3>3, <3>5
    <2>4. QED
      BY <2>2, <2>3
  <1>13. QED
    BY <1>0, <1>6, <1>7, <1>8, <1>11, <1>12

-----------------------------------------------------------------------------
(* an order as the matching loop sees it *)
OrderSet == [price : Prices, quantity : Nat \ {0}]
Amounts(os) == [i \in 1..Len(os) |-> os[i].quantity]

(* The volumes at which the orders are filled grow by their quantities. *)
LEMMA FilledFacts ==
  ASSUME NEW os \in Seq(OrderSet)
  PROVE  /\ Amounts(os) \in Seq(Nat) /\ Len(Amounts(os)) = Len(os)
         /\ Filled(os) = Sums(Amounts(os))
         /\ Filled(os) \in [0..Len(os) -> Nat] /\ Filled(os)[0] = 0
         /\ \A k \in 1..Len(os) : /\ Filled(os)[k] = Filled(os)[k - 1] + os[k].quantity
                                  /\ os[k].quantity \in Nat \ {0}
         /\ \A m, n \in 0..Len(os) : m <= n => Filled(os)[m] <= Filled(os)[n]
  <1>1. PICK N \in Nat : N = Len(os)
    OBVIOUS
  <1>2. PICK q : q = Amounts(os)
    OBVIOUS
  <1>3. \A i \in 1..N : q[i] = os[i].quantity /\ os[i].quantity \in Nat \ {0}
    <2> SUFFICES ASSUME NEW i \in 1..N
                 PROVE  q[i] = os[i].quantity /\ os[i].quantity \in Nat \ {0}
      OBVIOUS
    <2>1. os[i] \in OrderSet
      BY <1>1
    <2>2. QED
      BY <1>1, <1>2, <2>1 DEF Amounts, OrderSet
  <1>4. q \in Seq(Nat) /\ Len(q) = N
    <2>1. q \in [1..N -> Nat]
      BY <1>1, <1>2, <1>3 DEF Amounts
    <2>2. QED
      BY <2>1
  <1>5. PICK sum : sum = Sums(q)
    OBVIOUS
  <1>6. Filled(os) = sum
    BY <1>2, <1>5 DEF Filled, Amounts
  <1>7. /\ sum \in [0..N -> Nat] /\ sum[0] = 0
        /\ \A k \in 1..N : sum[k] = sum[k - 1] + q[k]
    BY <1>4, <1>5, SumsFacts
  <1>8. \A m, n \in 0..N : m <= n => sum[m] <= sum[n]
    BY <1>4, <1>5, SumsGrow
  <1>9. QED
    BY <1>1, <1>2, <1>3, <1>4, <1>5, <1>6, <1>7, <1>8

(* The same for orders before others *)
LEMMA FilledConcat ==
  ASSUME NEW os \in Seq(OrderSet), NEW ps \in Seq(OrderSet)
  PROVE  /\ os \o ps \in Seq(OrderSet) /\ Len(os \o ps) = Len(os) + Len(ps)
         /\ \A k \in 1..Len(os) : (os \o ps)[k] = os[k]
         /\ \A k \in 1..Len(ps) : (os \o ps)[Len(os) + k] = ps[k]
         /\ \A k \in 0..Len(os) : Filled(os \o ps)[k] = Filled(os)[k]
         /\ \A k \in 0..Len(ps) :
              Filled(os \o ps)[Len(os) + k] = Filled(os)[Len(os)] + Filled(ps)[k]
  <1>1. PICK M \in Nat, N \in Nat : M = Len(os) /\ N = Len(ps)
    OBVIOUS
  <1>2. PICK ts : ts = os \o ps
    OBVIOUS
  <1>3. /\ ts \in Seq(OrderSet) /\ Len(ts) = M + N
        /\ \A i \in 1..(M + N) : ts[i] = IF i <= M THEN os[i] ELSE ps[i - M]
    BY <1>1, <1>2, ConcatProperties
  <1>4. \A k \in 1..M : k \in 1..(M + N) /\ ts[k] = os[k]
    BY <1>3
  <1>5. ASSUME NEW k \in 1..N PROVE M + k \in 1..(M + N) /\ ts[M + k] = ps[k]
    <2>1. M + k \in 1..(M + N) /\ ~(M + k <= M) /\ M + k - M = k
      OBVIOUS
    <2>2. QED
      BY <1>3, <2>1
  <1>6. PICK q \in Seq(Nat), r \in Seq(Nat), t \in Seq(Nat) :
               q = Amounts(os) /\ r = Amounts(ps) /\ t = Amounts(ts)
    BY <1>3, FilledFacts
  <1>7. Len(q) = M /\ Len(r) = N /\ Len(t) = M + N
    BY <1>1, <1>3, <1>6, FilledFacts
  <1>8. t = q \o r
    <2>1. /\ q \o r \in Seq(Nat) /\ Len(q \o r) = M + N
          /\ \A i \in 1..(M + N) : (q \o r)[i] = IF i <= M THEN q[i] ELSE r[i - M]
      BY <1>7, ConcatProperties
    <2>2. PICK u \in Seq(Nat) : u = q \o r
      BY <2>1
    <2>3. ASSUME NEW i \in 1..(M + N) PROVE t[i] = u[i]
      <3>1. t[i] = ts[i].quantity
        BY <1>3, <1>6 DEF Amounts
      <3>2. CASE i <= M
        <4>1. i \in 1..M
          BY <3>2
        <4>2. ts[i] = os[i] /\ u[i] = q[i] /\ q[i] = os[i].quantity
          BY <1>1, <1>4, <1>6, <2>1, <2>2, <3>2, <4>1 DEF Amounts
        <4>3. QED
          BY <3>1, <4>2
      <3>3. CASE ~(i <= M)
        <4>1. i - M \in 1..N
          BY <3>3
        <4>2. ts[i] = ps[i - M] /\ u[i] = r[i - M] /\ r[i - M] = ps[i - M].quantity
          BY <1>1, <1>3, <1>6, <2>1, <2>2, <3>3, <4>1 DEF Amounts
        <4>3. QED
          BY <3>1, <4>2
      <3>4. QED
        BY <3>2, <3>3
    <2>4. QED
      BY <1>7, <2>1, <2>2, <2>3, SeqEqual
  <1>9. Filled(os) = Sums(q) /\ Filled(ps) = Sums(r) /\ Filled(ts) = Sums(q \o r)
    BY <1>3, <1>6, <1>8, FilledFacts
  <1>10. /\ \A k \in 0..M : Sums(q \o r)[k] = Sums(q)[k]
         /\ \A k \in 0..N : Sums(q \o r)[M + k] = Sums(q)[M] + Sums(r)[k]
    <2>1. /\ \A k \in 0..Len(q) : Sums(q \o r)[k] = Sums(q)[k]
          /\ \A k \in 0..Len(r) : Sums(q \o r)[Len(q) + k] = Sums(q)[Len(q)] + Sums(r)[k]
      BY SumsConcat
    <2>2. QED
      BY <1>7, <2>1
  <1>11. QED
    BY <1>1, <1>2, <1>3, <1>4, <1>5, <1>9, <1>10

(* The orders of one level *)
OfLevel(bk, s, p) ==
  [j \in 1..Len(bk[s][p].orders) |-> [price |-> p, quantity |-> bk[s][p].orders[j]]]

LEMMA OfLevelFacts ==
  ASSUME NEW bk, BookTypes(bk), NEW s \in Sides, NEW p \in Prices
  PROVE  LET os == OfLevel(bk, s, p)
         IN  /\ os \in Seq(OrderSet)
             /\ \A k \in 1..Len(os) : os[k].price = p
             /\ Filled(os)[Len(os)] = Within(bk, s, p)
  <1>1. PICK qs \in Seq(Quantities) : qs = bk[s][p].orders
    BY DEF BookTypes, LevelSet
  <1>2. PICK N \in Nat : N = Len(qs)
    OBVIOUS
  <1>3. PICK os : os = OfLevel(bk, s, p)
    OBVIOUS
  <1>4. os = [j \in 1..N |-> [price |-> p, quantity |-> qs[j]]]
    BY <1>1, <1>2, <1>3 DEF OfLevel
  <1>5. \A j \in 1..N : qs[j] \in Nat \ {0}
    <2>1. \A j \in 1..N : qs[j] \in Quantities
      BY <1>2
    <2>2. QED
      BY <2>1, OrderBookAssumption
  <1>6. \A j \in 1..N : os[j] \in OrderSet /\ os[j].price = p /\ os[j].quantity = qs[j]
    BY <1>4, <1>5 DEF OrderSet
  <1>7. os \in Seq(OrderSet) /\ Len(os) = N
    <2>1. os \in [1..N -> OrderSet]
      BY <1>4, <1>6
    <2>2. QED
      BY <2>1
  <1>8. Amounts(os) = qs
    <2>1. Amounts(os) \in Seq(Nat) /\ Len(Amounts(os)) = N
      BY <1>7, FilledFacts
    <2>2. qs \in Seq(Nat)
      BY <1>1, LevelHolds
    <2>3. \A i \in 1..N : Amounts(os)[i] = qs[i]
      BY <1>6, <1>7 DEF Amounts
    <2>4. QED
      BY <1>2, <2>1, <2>2, <2>3, SeqEqual
  <1>9. Filled(os)[N] = Within(bk, s, p)
    <2>1. Filled(os) = Sums(qs)
      BY <1>7, <1>8, FilledFacts
    <2>2. QED
      BY <1>1, <1>2, <2>1 DEF Within, BookTypes
  <1>10. QED
    BY <1>3, <1>6, <1>7, <1>9

(* Order k is one of its level: what the better levels hold is filled before  *)
(* it, and when it is filled no more than they and its level hold.         *)
InPlace(bk, s, os, k) ==
  /\ os[k].price \in Priced(bk, s)
  /\ Ahead(bk, s, os[k].price) <= Filled(os)[k - 1]
  /\ Filled(os)[k] <= Ahead(bk, s, os[k].price) + Within(bk, s, os[k].price)

(* A level behind others *)
LEMMA LevelInPlace ==
  ASSUME NEW bk, BookTypes(bk), NEW s \in Sides, NEW p \in Priced(bk, s),
         NEW os \in Seq(OrderSet), Filled(os)[Len(os)] = Ahead(bk, s, p),
         \A k \in 1..Len(os) : InPlace(bk, s, os, k)
  PROVE  LET ts == os \o OfLevel(bk, s, p)
         IN  /\ ts \in Seq(OrderSet)
             /\ Filled(ts)[Len(ts)] = Ahead(bk, s, p) + Within(bk, s, p)
             /\ \A k \in 1..Len(ts) : InPlace(bk, s, ts, k)
  <1>1. p \in Prices
    BY DEF Priced
  <1>2. PICK ps \in Seq(OrderSet) : ps = OfLevel(bk, s, p)
    BY <1>1, OfLevelFacts
  <1>3. PICK M \in Nat, N \in Nat : M = Len(os) /\ N = Len(ps)
    OBVIOUS
  <1>4. PICK ts : ts = os \o ps
    OBVIOUS
  <1>5. PICK F, G, H : F = Filled(os) /\ G = Filled(ps) /\ H = Filled(ts)
    OBVIOUS
  <1>6. PICK a \in Nat, w \in Nat : a = Ahead(bk, s, p) /\ w = Within(bk, s, p)
    BY <1>1, AheadFacts
  <1>7. /\ \A k \in 1..N : ps[k].price = p
        /\ F[M] = a /\ G[N] = w
    BY <1>1, <1>2, <1>3, <1>5, <1>6, OfLevelFacts
  <1>8. /\ ts \in Seq(OrderSet) /\ Len(ts) = M + N
        /\ \A k \in 1..M : ts[k] = os[k]
        /\ \A k \in 1..N : ts[M + k] = ps[k]
        /\ \A k \in 0..M : H[k] = F[k]
        /\ \A k \in 0..N : H[M + k] = F[M] + G[k]
    BY <1>3, <1>4, <1>5, FilledConcat
  <1>9. /\ G \in [0..N -> Nat]
        /\ \A m, n \in 0..N : m <= n => G[m] <= G[n]
    BY <1>3, <1>5, FilledFacts
  <1>10. H[M + N] = a + w
    BY <1>7, <1>8
  <1>11. ASSUME NEW k \in 1..M PROVE InPlace(bk, s, ts, k)
    <2>1. ts[k] = os[k] /\ H[k] = F[k] /\ H[k - 1] = F[k - 1]
      BY <1>8
    <2>2. InPlace(bk, s, os, k)
      BY <1>3
    <2>3. QED
      BY <1>5, <2>1, <2>2 DEF InPlace
  <1>12. ASSUME NEW k \in 1..N PROVE InPlace(bk, s, ts, M + k)
    <2>1. PICK g \in Nat, h \in Nat : g = G[k - 1] /\ h = G[k] /\ h <= w
      <3>1. k - 1 \in 0..N /\ k \in 0..N /\ N \in 0..N /\ k <= N
        OBVIOUS
      <3>2. G[k - 1] \in Nat /\ G[k] \in Nat /\ G[k] <= G[N]
        BY <1>9, <3>1
      <3>3. QED
        BY <1>7, <3>2
    <2>2. ts[M + k].price = p
      BY <1>7, <1>8
    <2>3. H[M + k] = a + h
      BY <1>7, <1>8, <2>1
    <2>4. H[(M + k) - 1] = a + g
      <3>1. (M + k) - 1 = M + (k - 1) /\ k - 1 \in 0..N
        OBVIOUS
      <3>2. PICK j \in 0..N : j = k - 1 /\ (M + k) - 1 = M + j
        BY <3>1
      <3>3. H[M + j] = a + g
        BY <1>7, <1>8, <2>1, <3>2
      <3>4. QED
        BY <3>2, <3>3
    <2>5. a <= a + g /\ a + h <= a + w
      BY <2>1
    <2>6. QED
      BY <1>5, <1>6, <2>2, <2>3, <2>4, <2>5 DEF InPlace
  <1>13. ASSUME NEW k \in 1..(M + N) PROVE InPlace(bk, s, ts, k)
    <2>1. CASE k <= M
      BY <1>11, <2>1
    <2>2. CASE ~(k <= M)
      <3>1. k - M \in 1..N /\ M + (k - M) = k
        BY <2>2
      <3>2. PICK j \in 1..N : j = k - M /\ M + j = k
        BY <3>1
      <3>3. InPlace(bk, s, ts, M + j)
        BY <1>12
      <3>4. QED
        BY <3>2, <3>3
    <2>3. QED
      BY <2>1, <2>2
  <1>14. QED
    BY <1>2, <1>4, <1>5, <1>6, <1>8, <1>10, <1>13

(* The iterator walks the orders of a side level by level. *)
LEMMA OrdersFacts ==
  ASSUME NEW bk, BookTypes(bk), NEW s \in Sides
  PROVE  LET os == Orders(bk, s)
         IN  /\ os \in Seq(OrderSet)
             /\ \A k \in 1..Len(os) : InPlace(bk, s, os, k)
             /\ \A p \in Prices :
                  Ahead(bk, s, p) + Within(bk, s, p) <= Filled(os)[Len(os)]
  <1>1. PICK ls, N, sum : ls = Levels(bk, s) /\ N = Len(ls) /\ sum = PrefixSum(bk, s)
    OBVIOUS
  <1>2. PICK P \in SUBSET Prices : P = Priced(bk, s)
    BY DEF Priced
  <1>3. /\ N \in Nat /\ N = Cardinality(P)
        /\ \A n \in 1..N : ls[n] \in P /\ Rank(s, P, ls[n]) = n - 1
    BY <1>1, <1>2, LevelsFacts, RankFacts
  <1>4. /\ sum \in [0..N -> Nat] /\ sum[0] = 0
        /\ \A n \in 1..N : sum[n] = sum[n - 1] + Within(bk, s, ls[n])
        /\ \A m, n \in 0..N : m <= n => sum[m] <= sum[n]
    BY <1>1, PrefixSumFacts
  <1>5. \A n \in 1..N : /\ Ahead(bk, s, ls[n]) = sum[n - 1]
                        /\ Ahead(bk, s, ls[n]) + Within(bk, s, ls[n]) = sum[n]
    BY <1>1, <1>2, <1>3, <1>4 DEF Ahead
  <1>6. PICK V : V = Seq(OrderSet)
    OBVIOUS
  <1>7. \A n \in 1..N : OfLevel(bk, s, ls[n]) \in V
    <2> SUFFICES ASSUME NEW n \in 1..N PROVE OfLevel(bk, s, ls[n]) \in V
      OBVIOUS
    <2>1. ls[n] \in Prices
      BY <1>3
    <2>2. QED
      BY <1>6, <2>1, OfLevelFacts
  <1>8. PICK step : step = [n \in 1..N |-> [v \in V |-> v \o OfLevel(bk, s, ls[n])]]
    OBVIOUS
  <1>9. step \in [1..N -> [V -> V]] /\ <<>> \in V
    <2>1. \A v, w \in V : v \o w \in V
      BY <1>6, ConcatProperties
    <2>2. <<>> \in V
      BY <1>6
    <2>3. QED
      BY <1>7, <1>8, <2>1, <2>2
  <1>10. PICK f \in [0..N -> V] : Iterates(f, N, <<>>, step)
    BY <1>3, <1>9, RecursionExists
  <1>11. ASSUME NEW n \in 1..N PROVE f[n] = f[n - 1] \o OfLevel(bk, s, ls[n])
    <2>1. n - 1 \in 0..N
      BY <1>3
    <2>2. f[n - 1] \in V
      BY <1>10, <2>1
    <2>3. QED
      BY <1>8, <1>10, <2>2 DEF Iterates
  <1> DEFINE G(g) == [n \in 0..N |->
        IF n = 0 THEN <<>>
        ELSE g[n - 1] \o OfLevel(bk, s, ls[n])]
  <1>12. f = G(f)
    <2>1. f = [n \in 0..N |-> f[n]]
      BY <1>10
    <2>2. f[0] = <<>>
      BY <1>10 DEF Iterates
    <2>3. ASSUME NEW n \in 0..N
          PROVE  f[n] = IF n = 0 THEN <<>> ELSE f[n - 1] \o OfLevel(bk, s, ls[n])
      <3>1. n = 0 \/ n \in 1..N
        BY <1>3
      <3>2. QED
        BY <1>11, <2>2, <3>1
    <2>4. QED
      BY <2>1, <2>3, Zenon
  <1>13. PICK walk : walk = CHOOSE g : g = G(g)
    OBVIOUS
  <1>14. walk = G(walk)
    BY <1>12, <1>13, Zenon
  <1>15. Orders(bk, s) = walk[N]
    <2>1. PICK F : F = CHOOSE g : g = [n \in 0..Len(Levels(bk, s)) |->
                     IF n = 0 THEN <<>> ELSE g[n - 1] \o OfLevel(bk, s, Levels(bk, s)[n])]
      OBVIOUS
    <2>2. Orders(bk, s) = F[Len(Levels(bk, s))]
      BY <2>1, Zenon DEF Orders, OfLevel
    <2>3. F = walk
      BY <1>1, <1>13, <2>1, Zenon
    <2>4. QED
      BY <1>1, <2>2, <2>3
  <1>16. walk[0] = <<>>
    BY <1>3, <1>14
  <1>17. ASSUME NEW n \in 1..N PROVE walk[n] = walk[n - 1] \o OfLevel(bk, s, ls[n])
    <2>1. n \in 0..N /\ n # 0
      BY <1>3
    <2>2. QED
      BY <1>14, <2>1
  <1> HIDE DEF G
  <1> DEFINE T == {n \in 0..N : /\ walk[n] \in Seq(OrderSet)
                                /\ Filled(walk[n])[Len(walk[n])] = sum[n]
                                /\ \A k \in 1..Len(walk[n]) : InPlace(bk, s, walk[n], k)}
  <1>18. 0 \in T
    <2>1. <<>> \in Seq(OrderSet) /\ Len(<<>>) = 0
      OBVIOUS
    <2>2. Filled(<<>>)[0] = 0
      BY <2>1, FilledFacts
    <2>3. \A k \in 1..0 : InPlace(bk, s, <<>>, k)
      OBVIOUS
    <2>4. 0 \in 0..N
      BY <1>3
    <2>5. QED
      BY <1>4, <1>16, <2>1, <2>2, <2>3, <2>4
  <1>19. ASSUME NEW n \in 1..N, n - 1 \in T PROVE n \in T
    <2>1. PICK os \in Seq(OrderSet), p \in P : os = walk[n - 1] /\ p = ls[n]
      BY <1>3, <1>19
    <2>2. Filled(os)[Len(os)] = Ahead(bk, s, p) /\ \A k \in 1..Len(os) : InPlace(bk, s, os, k)
      BY <1>5, <1>19, <2>1
    <2>3. PICK ts : ts = os \o OfLevel(bk, s, p)
      OBVIOUS
    <2>4. /\ ts \in Seq(OrderSet)
          /\ Filled(ts)[Len(ts)] = Ahead(bk, s, p) + Within(bk, s, p)
          /\ \A k \in 1..Len(ts) : InPlace(bk, s, ts, k)
      BY <1>2, <2>2, <2>3, LevelInPlace
    <2>5. walk[n] = ts /\ Ahead(bk, s, p) + Within(bk, s, p) = sum[n]
      BY <1>5, <1>17, <2>1, <2>3
    <2>6. QED
      BY <1>3, <2>4, <2>5
  <1>20. N \in T
    <2> HIDE DEF T
    <2>1. \A n \in 0..N : n \in T
      BY <1>3, <1>18, <1>19, InductionUpto
    <2>2. QED
      BY <1>3, <2>1
  <1>21. ASSUME NEW p \in Prices PROVE Ahead(bk, s, p) + Within(bk, s, p) <= sum[N]
    <2>1. CASE p \in P
      <3>1. PICK n \in 1..N : ls[n] = p
        BY <1>1, <1>2, <2>1, LevelsFacts
      <3>2. n \in 0..N /\ N \in 0..N /\ n <= N
        BY <1>3
      <3>3. QED
        BY <1>4, <1>5, <3>1, <3>2
    <2>2. CASE p \notin P
      <3>1. PICK r \in 0..N : r = Rank(s, P, p)
        BY <1>3, RankFacts
      <3>2. Ahead(bk, s, p) = sum[r] /\ Within(bk, s, p) = 0
        BY <1>1, <1>2, <2>2, <3>1, LevelHolds DEF Ahead
      <3>3. sum[r] \in Nat /\ sum[r] <= sum[N]
        BY <1>3, <1>4, <3>1
      <3>4. QED
        BY <3>2, <3>3
    <2>3. QED
      BY <2>1, <2>2
  <1>22. QED
    BY <1>15, <1>20, <1>21

-----------------------------------------------------------------------------
(* The price of the auction.  A[p] is what is bid above p and B[p] what is    *)
(* bid at p or above; L[p] and S[p] are the same for the sellers, best at bb *)
(* and ba.                                                                 *)
Curves(A, B, L, S, Bids, Asks, bb, ba) ==
  /\ A \in [Prices -> Nat] /\ B \in [Prices -> Nat]
  /\ L \in [Prices -> Nat] /\ S \in [Prices -> Nat]
  /\ Bids \in SUBSET Prices /\ Asks \in SUBSET Prices
  /\ bb \in Bids /\ ba \in Asks /\ ba <= bb
  /\ \A p \in Bids : p <= bb
  /\ \A p \in Asks : ba <= p
  /\ \A p \in Prices : A[p] <= B[p] /\ L[p] <= S[p]
  /\ \A p, q \in Prices : p < q => B[q] <= A[p] /\ S[p] <= L[q]
  /\ \A p \in Prices : A[p] = 0 \/ \E l \in Bids : l > p /\ A[p] = B[l]
  /\ \A p \in Prices : L[p] = 0 \/ \E l \in Asks : l < p /\ L[p] = S[l]
  /\ \A p \in Prices \ Bids : B[p] = A[p]
  /\ \A p \in Prices \ Asks : S[p] = L[p]

(* c passes the tests of the search, and no price deals more. *)
Best(A, B, L, S, bb, ba, c) ==
  /\ ba <= c /\ c <= bb
  /\ B[c] > S[c] => A[c] <= S[c]
  /\ B[c] < S[c] => L[c] <= B[c]
  /\ \A p \in Prices : Lesser(B[p], S[p]) <= Lesser(B[c], S[c])

(* The lowest price of an order at which sellers offer enough and the highest *)
(* at which they do not are neighbours, and one of them is best.           *)
LEMMA SomePriceIsBest ==
  ASSUME NEW A, NEW B, NEW L, NEW S, NEW Bids, NEW Asks, NEW bb, NEW ba,
         Curves(A, B, L, S, Bids, Asks, bb, ba)
  PROVE  \E c \in Bids \cup Asks : Best(A, B, L, S, bb, ba, c)
  <1> USE DEF Curves, Best
  <1>1. Prices \subseteq Nat
    BY OrderBookAssumption
  <1>2. \A m, n \in Nat : /\ Lesser(m, n) <= m /\ Lesser(m, n) <= n /\ Lesser(m, n) \in {m, n}
                          /\ (m <= n => Lesser(m, n) = m) /\ (n <= m => Lesser(m, n) = n)
    BY DEF Lesser
  <1>3. ASSUME NEW p \in Prices, NEW q \in Prices, p <= q
        PROVE  B[q] <= B[p] /\ S[p] <= S[q]
    <2>1. CASE p = q
      BY <2>1
    <2>2. CASE p # q
      <3>1. p < q
        BY <1>1, <1>3, <2>2
      <3>2. B[q] <= A[p] /\ A[p] <= B[p] /\ S[p] <= L[q] /\ L[q] <= S[q]
        BY <3>1
      <3>3. QED
        BY <3>2
    <2>3. QED
      BY <2>1, <2>2
  <1>4. ASSUME NEW p \in Prices
        PROVE  /\ B[p] = 0 \/ \E l \in Bids : l >= p /\ B[p] = B[l]
               /\ S[p] = 0 \/ \E l \in Asks : l <= p /\ S[p] = S[l]
    <2>1. B[p] = 0 \/ \E l \in Bids : l >= p /\ B[p] = B[l]
      <3>1. CASE p \in Bids
        BY <1>1, <3>1
      <3>2. CASE p \notin Bids
        BY <1>1, <3>2
      <3>3. QED
        BY <3>1, <3>2
    <2>2. S[p] = 0 \/ \E l \in Asks : l <= p /\ S[p] = S[l]
      <3>1. CASE p \in Asks
        BY <1>1, <3>1
      <3>2. CASE p \notin Asks
        BY <1>1, <3>2
      <3>3. QED
        BY <3>1, <3>2
    <2>3. QED
      BY <2>1, <2>2
  <1> DEFINE C == {c \in Bids \cup Asks : ba <= c /\ c <= bb}
             X == {c \in C : B[c] <= S[c]}
             Y == {c \in C : B[c] > S[c]}
  <1>5. bb \in C /\ ba \in C /\ C \subseteq Prices
    BY <1>1
  <1>6. \A c \in C : c \in X \/ c \in Y
    BY <1>5
  <1>7. CASE Y = {}
    <2>1. ba \in X
      BY <1>5, <1>6, <1>7
    <2>2. B[ba] <= S[ba] /\ L[ba] = 0
      BY <1>1, <2>1
    <2>3. Lesser(B[ba], S[ba]) = B[ba]
      BY <1>2, <1>5, <2>2
    <2>4. ASSUME NEW p \in Prices PROVE Lesser(B[p], S[p]) <= B[ba]
      <3>1. CASE ba <= p
        <4>1. B[p] <= B[ba]
          BY <1>3, <1>5, <3>1
        <4>2. QED
          BY <1>2, <1>5, <4>1
      <3>2. CASE p < ba
        <4>1. ~\E l \in Asks : l <= p
          BY <1>1, <3>2
        <4>2. S[p] = 0
          BY <1>4, <4>1
        <4>3. QED
          BY <1>2, <1>5, <4>2
      <3>3. QED
        BY <1>1, <3>1, <3>2
    <2>5. QED
      BY <1>1, <1>5, <2>2, <2>3, <2>4
  <1>8. CASE X = {}
    <2>1. bb \in Y
      BY <1>5, <1>6, <1>8
    <2>2. B[bb] > S[bb] /\ A[bb] = 0
      BY <1>1, <2>1
    <2>3. Lesser(B[bb], S[bb]) = S[bb]
      BY <1>2, <1>5, <2>2
    <2>4. ASSUME NEW p \in Prices PROVE Lesser(B[p], S[p]) <= S[bb]
      <3>1. CASE p <= bb
        <4>1. S[p] <= S[bb]
          BY <1>3, <1>5, <3>1
        <4>2. QED
          BY <1>2, <1>5, <4>1
      <3>2. CASE bb < p
        <4>1. ~\E l \in Bids : l >= p
          BY <1>1, <3>2
        <4>2. B[p] = 0
          BY <1>4, <4>1
        <4>3. QED
          BY <1>2, <1>5, <4>2
      <3>3. QED
        BY <1>1, <3>1, <3>2
    <2>5. QED
      BY <1>1, <1>5, <2>2, <2>3, <2>4
  <1>9. CASE X # {} /\ Y # {}
    <2>1. PICK x \in X : \A c \in X : x <= c
      <3>1. X \in SUBSET Nat
        BY <1>1, <1>5
      <3>2. QED
        BY <1>9, <3>1, LeastExists
    <2>2. PICK y \in Y : \A c \in Y : c <= y
      <3>1. PICK T : T = {n \in Nat : bb - n \in Y}
        OBVIOUS
      <3>2. PICK c \in Y : TRUE
        BY <1>9
      <3>3. bb - c \in Nat /\ bb - (bb - c) = c
        BY <1>1, <1>5, <3>2
      <3>4. bb - c \in T
        BY <3>1, <3>2, <3>3
      <3>5. PICK n \in T : \A k \in T : n <= k
        BY <3>1, <3>4, LeastExists
      <3>6. ASSUME NEW d \in Y PROVE d <= bb - n
        <4>1. bb - d \in Nat /\ bb - (bb - d) = d /\ bb \in Nat /\ d \in Nat
          BY <1>1, <1>5
        <4>2. n <= bb - d /\ n \in Nat
          BY <3>1, <3>5, <4>1
        <4>3. QED
          BY <4>1, <4>2
      <3>7. QED
        BY <3>1, <3>5, <3>6
    <2>3. /\ x \in Prices /\ y \in Prices /\ x \in Nat /\ y \in Nat /\ x \in C /\ y \in C
          /\ B[x] <= S[x] /\ B[y] > S[y]
          /\ B[x] \in Nat /\ S[x] \in Nat /\ B[y] \in Nat /\ S[y] \in Nat
      BY <1>1, <1>5, <2>1, <2>2
    <2>4. \A l \in Asks : l < x => S[l] <= S[y]
      <3> SUFFICES ASSUME NEW l \in Asks, l < x PROVE S[l] <= S[y]
        OBVIOUS
      <3>1. l \in C
        BY <1>1, <2>3
      <3>2. l \in Y
        BY <1>1, <1>6, <2>1, <2>3, <3>1
      <3>3. QED
        BY <1>3, <1>5, <2>2, <2>3, <3>1, <3>2
    <2>5. \A l \in Bids : l > y => B[l] <= B[x]
      <3> SUFFICES ASSUME NEW l \in Bids, l > y PROVE B[l] <= B[x]
        OBVIOUS
      <3>1. l \in C
        BY <1>1, <2>3
      <3>2. l \in X
        BY <1>1, <1>6, <2>2, <2>3, <3>1
      <3>3. QED
        BY <1>3, <1>5, <2>1, <2>3, <3>1, <3>2
    <2>6. L[x] <= S[y]
      BY <2>3, <2>4
    <2>7. A[y] <= B[x]
      BY <2>3, <2>5
    <2>8. ASSUME NEW p \in Prices PROVE B[p] <= B[x] \/ S[p] <= S[y]
      <3>1. CASE x <= p
        BY <1>3, <2>3, <3>1
      <3>2. CASE p < x
        <4>1. CASE S[p] = 0
          BY <2>3, <4>1
        <4>2. CASE S[p] # 0
          <5>1. PICK l \in Asks : l <= p /\ S[p] = S[l]
            BY <1>4, <4>2
          <5>2. l < x
            BY <1>1, <2>3, <3>2, <5>1
          <5>3. QED
            BY <2>4, <5>1, <5>2
        <4>3. QED
          BY <4>1, <4>2
      <3>3. QED
        BY <1>1, <2>3, <3>1, <3>2
    <2>9. \A p \in Prices : Lesser(B[p], S[p]) <= B[p] /\ Lesser(B[p], S[p]) <= S[p]
                            /\ Lesser(B[p], S[p]) \in Nat /\ B[p] \in Nat /\ S[p] \in Nat
      BY <1>2
    <2>10. CASE S[y] <= B[x]
      <3>1. Lesser(B[x], S[x]) = B[x]
        BY <1>2, <2>3
      <3>2. \A p \in Prices : Lesser(B[p], S[p]) <= B[x]
        BY <2>3, <2>8, <2>9, <2>10
      <3>3. L[x] <= B[x]
        BY <2>3, <2>6, <2>10
      <3>4. x \in Bids \cup Asks /\ ba <= x /\ x <= bb /\ ~(B[x] > S[x])
        BY <2>3
      <3>5. QED
        BY <3>1, <3>2, <3>3, <3>4
    <2>11. CASE B[x] < S[y]
      <3>1. Lesser(B[y], S[y]) = S[y]
        BY <1>2, <2>3
      <3>2. \A p \in Prices : Lesser(B[p], S[p]) <= S[y]
        BY <2>3, <2>8, <2>9, <2>11
      <3>3. A[y] <= S[y]
        BY <2>3, <2>7, <2>11
      <3>4. y \in Bids \cup Asks /\ ba <= y /\ y <= bb /\ ~(B[y] < S[y])
        BY <2>3
      <3>5. QED
        BY <3>1, <3>2, <3>3, <3>4
    <2>12. QED
      BY <2>3, <2>10, <2>11
  <1>10. QED
    BY <1>7, <1>8, <1>9

(* what could be dealt at p *)
Deal(bk, p) == Lesser(Ahead(bk, "bid", p) + Within(bk, "bid", p),
                      Ahead(bk, "ask", p) + Within(bk, "ask", p))

(* A crossed book has a price at which most is dealt among those tried. *)
LEMMA BestPrice ==
  ASSUME NEW bk, BookTypes(bk), Crossed(bk)
  PROVE  \E c \in Priced(bk, "bid") \cup Priced(bk, "ask") :
           /\ Meeting(bk, c) /\ Possible(bk, c)
           /\ \A p \in Prices : Deal(bk, p) \in Nat /\ Deal(bk, p) <= Deal(bk, c)
  <1>1. "bid" \in Sides /\ "ask" \in Sides /\ Prices \subseteq Nat
    BY OrderBookAssumption DEF Sides
  <1>2. PICK A, B, L, S : /\ A = [p \in Prices |-> Ahead(bk, "bid", p)]
                          /\ B = [p \in Prices |-> Ahead(bk, "bid", p) + Within(bk, "bid", p)]
                          /\ L = [p \in Prices |-> Ahead(bk, "ask", p)]
                          /\ S = [p \in Prices |-> Ahead(bk, "ask", p) + Within(bk, "ask", p)]
    OBVIOUS
  <1>3. PICK Bids, Asks : Bids = Priced(bk, "bid") /\ Asks = Priced(bk, "ask")
    OBVIOUS
  <1>4. Bids \in SUBSET Prices /\ Asks \in SUBSET Prices
    BY <1>3 DEF Priced
  <1>5. ASSUME NEW s \in Sides, Levels(bk, s) # <<>>
        PROVE  /\ Levels(bk, s)[1] \in Priced(bk, s)
               /\ \A p \in Priced(bk, s) : ~Before(s, p, Levels(bk, s)[1])
    <2>1. PICK ls : ls = Levels(bk, s)
      OBVIOUS
    <2>2. ls \in Seq(Prices) /\ ls # <<>>
      BY <1>5, <2>1, LevelsFacts
    <2>3. 1 \in 1..Len(ls)
      BY <2>2
    <2>4. ls[1] \in Priced(bk, s) /\ Rank(s, Priced(bk, s), ls[1]) = 0
      BY <2>1, <2>3, LevelsFacts
    <2>5. ASSUME NEW p \in Priced(bk, s), Before(s, p, ls[1]) PROVE FALSE
      <3>1. PICK P \in SUBSET Prices : P = Priced(bk, s)
        BY DEF Priced
      <3>2. Rank(s, P, p) < Rank(s, P, ls[1]) /\ Rank(s, P, p) \in Nat
        BY <2>4, <2>5, <3>1, RankFacts
      <3>3. QED
        BY <2>4, <3>1, <3>2
    <2>6. QED
      BY <2>1, <2>4, <2>5
  <1>6. PICK bb, ba : bb = Levels(bk, "bid")[1] /\ ba = Levels(bk, "ask")[1]
    OBVIOUS
  <1>7. bb \in Bids /\ ba \in Asks /\ ba <= bb
    <2>1. Levels(bk, "bid") # <<>> /\ Levels(bk, "ask") # <<>> /\ bb >= ba
      BY <1>6 DEF Crossed
    <2>2. bb \in Bids /\ ba \in Asks
      BY <1>1, <1>3, <1>5, <1>6, <2>1
    <2>3. bb \in Nat /\ ba \in Nat
      BY <1>1, <1>4, <2>2
    <2>4. QED
      BY <2>1, <2>2, <2>3
  <1>8. /\ \A p \in Bids : ~Before("bid", p, bb)
        /\ \A p \in Asks : ~Before("ask", p, ba)
    BY <1>1, <1>3, <1>5, <1>6 DEF Crossed
  <1>9. \A p, q : (Before("bid", p, q) <=> p > q) /\ (Before("ask", p, q) <=> p < q)
    BY DEF Before
  <1>10. /\ \A p \in Bids : p <= bb
         /\ \A p \in Asks : ba <= p
    BY <1>1, <1>4, <1>7, <1>8, <1>9
  <1>11. /\ A \in [Prices -> Nat] /\ B \in [Prices -> Nat]
         /\ L \in [Prices -> Nat] /\ S \in [Prices -> Nat]
         /\ \A p \in Prices : A[p] <= B[p] /\ L[p] <= S[p]
    <2>1. \A p \in Prices : /\ Ahead(bk, "bid", p) \in Nat /\ Within(bk, "bid", p) \in Nat
                            /\ Ahead(bk, "ask", p) \in Nat /\ Within(bk, "ask", p) \in Nat
      BY <1>1, AheadFacts
    <2>2. QED
      BY <1>2, <2>1
  <1>12. \A p, q \in Prices : p < q => B[q] <= A[p] /\ S[p] <= L[q]
    <2> SUFFICES ASSUME NEW p \in Prices, NEW q \in Prices, p < q
                 PROVE  B[q] <= A[p] /\ S[p] <= L[q]
      OBVIOUS
    <2>1. Before("bid", q, p) /\ Before("ask", p, q)
      BY <1>1, <1>9
    <2>2. /\ Ahead(bk, "bid", q) + Within(bk, "bid", q) <= Ahead(bk, "bid", p)
          /\ Ahead(bk, "ask", p) + Within(bk, "ask", p) <= Ahead(bk, "ask", q)
      BY <1>1, <2>1, AheadFacts
    <2>3. QED
      BY <1>2, <2>2
  <1>13. ASSUME NEW p \in Prices PROVE A[p] = 0 \/ \E l \in Bids : l > p /\ A[p] = B[l]
    <2>1. \/ Ahead(bk, "bid", p) = 0
          \/ \E l \in Bids : /\ Before("bid", l, p)
                             /\ Ahead(bk, "bid", p) = Ahead(bk, "bid", l) + Within(bk, "bid", l)
      BY <1>1, <1>3, AheadFacts
    <2>2. QED
      BY <1>2, <1>4, <1>9, <2>1
  <1>14. ASSUME NEW p \in Prices PROVE L[p] = 0 \/ \E l \in Asks : l < p /\ L[p] = S[l]
    <2>1. \/ Ahead(bk, "ask", p) = 0
          \/ \E l \in Asks : /\ Before("ask", l, p)
                             /\ Ahead(bk, "ask", p) = Ahead(bk, "ask", l) + Within(bk, "ask", l)
      BY <1>1, <1>3, AheadFacts
    <2>2. QED
      BY <1>2, <1>4, <1>9, <2>1
  <1>15. /\ \A p \in Prices \ Bids : B[p] = A[p]
         /\ \A p \in Prices \ Asks : S[p] = L[p]
    <2>1. /\ \A p \in Prices \ Bids : Within(bk, "bid", p) = 0 /\ Ahead(bk, "bid", p) \in Nat
          /\ \A p \in Prices \ Asks : Within(bk, "ask", p) = 0 /\ Ahead(bk, "ask", p) \in Nat
      BY <1>1, <1>3, AheadFacts
    <2>2. QED
      BY <1>2, <2>1
  <1>16. PICK c \in Bids \cup Asks : Best(A, B, L, S, bb, ba, c)
    <2>1. Curves(A, B, L, S, Bids, Asks, bb, ba)
      BY <1>4, <1>7, <1>10, <1>11, <1>12, <1>13, <1>14, <1>15 DEF Curves
    <2>2. QED
      BY <2>1, SomePriceIsBest
  <1>17. Meeting(bk, c)
    BY <1>6, <1>16 DEF Meeting, Best
  <1>18. c \in Prices
    BY <1>4
  <1>19. Possible(bk, c)
    BY <1>2, <1>16, <1>18 DEF Possible, Best
  <1>20. \A p \in Prices : Deal(bk, p) = Lesser(B[p], S[p])
    BY <1>2 DEF Deal
  <1>21. \A p \in Prices : Deal(bk, p) \in Nat
    BY <1>11, <1>20 DEF Lesser
  <1>22. QED
    BY <1>3, <1>16, <1>17, <1>18, <1>19, <1>20, <1>21 DEF Best

(* What the search holds before it has found a price *)
NoPrice == [price |-> 0, deal |-> -1, gap |-> 0, bid |-> 0, ask |-> 0]

(* A price that the search accepts *)
Accepted(bk, p) == Meeting(bk, p) /\ Possible(bk, p)

(* The search goes through all prices with orders and ends with the best of  *)
(* those that it accepts.                                                  *)
LEMMA OptimalIsBest ==
  ASSUME NEW bk, BookTypes(bk), Crossed(bk)
  PROVE  \E c \in Prices : /\ Optimal(bk) = PriceInfo(bk, c) /\ Possible(bk, c)
                           /\ Optimal(bk).price = c /\ Optimal(bk).deal = Deal(bk, c)
                           /\ \A p \in Prices : Deal(bk, p) <= Deal(bk, c)
  <1>1. "bid" \in Sides /\ "ask" \in Sides
    BY DEF Sides
  <1>2. PICK bids, asks : bids = Levels(bk, "bid") /\ asks = Levels(bk, "ask")
    OBVIOUS
  <1>3. bids \in Seq(Prices) /\ asks \in Seq(Prices)
    BY <1>1, <1>2, LevelsFacts
  <1>4. PICK cs, N : cs = Candidates(bk) /\ N = Len(cs)
    OBVIOUS
  <1>5. /\ cs \in Seq(Prices) /\ N \in Nat
        /\ \A i \in 1..Len(bids) : i \in 1..N /\ cs[i] = bids[i]
        /\ \A i \in 1..Len(asks) : Len(bids) + i \in 1..N /\ cs[Len(bids) + i] = asks[i]
    <2>1. cs = bids \o asks
      BY <1>2, <1>4 DEF Candidates
    <2>2. /\ cs \in Seq(Prices) /\ Len(cs) = Len(bids) + Len(asks)
          /\ \A i \in 1..Len(cs) :
               cs[i] = IF i <= Len(bids) THEN bids[i] ELSE asks[i - Len(bids)]
      BY <1>3, <2>1, ConcatProperties
    <2>3. PICK m \in Nat, n \in Nat : m = Len(bids) /\ n = Len(asks) /\ N = m + n
      BY <1>3, <1>4, <2>2
    <2>4. ASSUME NEW i \in 1..m PROVE i \in 1..N /\ cs[i] = bids[i]
      <3>1. i \in 1..N /\ i <= m
        BY <2>3
      <3>2. QED
        BY <1>4, <2>2, <2>3, <3>1
    <2>5. ASSUME NEW i \in 1..n PROVE m + i \in 1..N /\ cs[m + i] = asks[i]
      <3>1. m + i \in 1..N /\ ~(m + i <= m) /\ m + i - m = i
        BY <2>3
      <3>2. QED
        BY <1>4, <2>2, <2>3, <3>1
    <2>6. QED
      BY <1>4, <2>2, <2>3, <2>4, <2>5
  <1>6. \A n \in 1..N : cs[n] \in Prices
    BY <1>4, <1>5
  <1>7. PICK info : info = [p \in Prices |-> PriceInfo(bk, p)]
    OBVIOUS
  <1>8. \A p \in Prices : info[p].price = p /\ info[p].deal = Deal(bk, p)
    BY <1>7 DEF PriceInfo, Deal
  <1>9. PICK V : V = {info[p] : p \in {l \in Prices : Accepted(bk, l)}} \cup {NoPrice}
    OBVIOUS
  <1>10. PICK step : step = [n \in 1..N |-> [v \in V |->
                       IF Accepted(bk, cs[n]) /\ Exceeds(info[cs[n]], v)
                       THEN info[cs[n]] ELSE v]]
    OBVIOUS
  <1>11. step \in [1..N -> [V -> V]] /\ NoPrice \in V
    BY <1>6, <1>9, <1>10
  <1>12. PICK f \in [0..N -> V] : Iterates(f, N, NoPrice, step)
    BY <1>5, <1>11, RecursionExists
  <1>13. ASSUME NEW n \in 1..N
         PROVE  f[n] = IF Accepted(bk, cs[n]) /\ Exceeds(info[cs[n]], f[n - 1])
                       THEN info[cs[n]] ELSE f[n - 1]
    <2>1. n - 1 \in 0..N
      BY <1>5
    <2>2. f[n - 1] \in V
      BY <1>12, <2>1
    <2>3. QED
      BY <1>10, <1>12, <2>2 DEF Iterates
  <1>14. \A n \in 0..N : f[n] =
           IF n = 0 THEN NoPrice
           ELSE IF Meeting(bk, cs[n]) /\ Possible(bk, cs[n])
                     /\ Exceeds(PriceInfo(bk, cs[n]), f[n - 1])
                THEN PriceInfo(bk, cs[n]) ELSE f[n - 1]
    <2> SUFFICES ASSUME NEW n \in 1..N
                 PROVE  f[n] = IF Meeting(bk, cs[n]) /\ Possible(bk, cs[n])
                                    /\ Exceeds(PriceInfo(bk, cs[n]), f[n - 1])
                               THEN PriceInfo(bk, cs[n]) ELSE f[n - 1]
      BY <1>5, <1>12 DEF Iterates
    <2>1. info[cs[n]] = PriceInfo(bk, cs[n])
      BY <1>6, <1>7
    <2>2. QED
      BY <1>13, <2>1 DEF Accepted
  <1> DEFINE G(g) == [n \in 0..N |->
           IF n = 0 THEN NoPrice
           ELSE IF Meeting(bk, cs[n]) /\ Possible(bk, cs[n])
                     /\ Exceeds(PriceInfo(bk, cs[n]), g[n - 1])
                THEN PriceInfo(bk, cs[n]) ELSE g[n - 1]]
  <1>15. f = G(f)
    <2>1. f = [n \in 0..N |-> f[n]]
      BY <1>12
    <2>2. QED
      BY <1>14, <2>1, Zenon
  <1>16. PICK best : best = CHOOSE g : g = G(g)
    OBVIOUS
  <1>17. best = G(best)
    BY <1>15, <1>16, Zenon
  <1>18. Optimal(bk) = best[N]
    BY <1>4, <1>16 DEF Optimal, NoPrice
  <1> HIDE DEF G
  <1>19. \A n \in 1..N :
           best[n] = IF Accepted(bk, cs[n]) /\ Exceeds(info[cs[n]], best[n - 1])
                     THEN info[cs[n]] ELSE best[n - 1]
    <2>1. ASSUME NEW n \in 1..N
          PROVE  best[n] = IF Meeting(bk, cs[n]) /\ Possible(bk, cs[n])
                                /\ Exceeds(PriceInfo(bk, cs[n]), best[n - 1])
                           THEN PriceInfo(bk, cs[n]) ELSE best[n - 1]
      BY <1>5, <1>17 DEF G
    <2>2. \A n \in 1..N : info[cs[n]] = PriceInfo(bk, cs[n])
      BY <1>6, <1>7
    <2>3. QED
      BY <2>1, <2>2 DEF Accepted
  <1>20. best[0] = NoPrice
    BY <1>5, <1>17 DEF G
  <1>21. \A p \in Prices : Deal(bk, p) \in Nat
    BY BestPrice
  <1>22. NoPrice.deal = -1
    BY DEF NoPrice
  <1>23. \A i, j : Exceeds(i, j) => i.deal > j.deal \/ i.deal = j.deal
    BY DEF Exceeds
  <1>24. \A i, j : i.deal > j.deal => Exceeds(i, j)
    BY DEF Exceeds
  <1> DEFINE T == {n \in 0..N : /\ best[n] \in V
                                /\ \A k \in 1..n : Accepted(bk, cs[k]) =>
                                     info[cs[k]].deal <= best[n].deal}
  <1>25. \A v \in V : v.deal \in Int
    BY <1>8, <1>9, <1>21, <1>22
  <1>26. 0 \in T
    BY <1>5, <1>11, <1>20
  <1>27. ASSUME NEW n \in 1..N, n - 1 \in T PROVE n \in T
    <2>1. PICK old, new, i : old = best[n - 1] /\ new = best[n] /\ i = info[cs[n]]
      OBVIOUS
    <2>2. old \in V /\ i.deal \in Int
      BY <1>6, <1>8, <1>21, <1>27, <2>1
    <2>3. new = IF Accepted(bk, cs[n]) /\ Exceeds(i, old) THEN i ELSE old
      BY <1>19, <2>1
    <2>4. new \in V
      BY <1>6, <1>9, <2>1, <2>2, <2>3
    <2>5. old.deal \in Int /\ i.deal \in Int /\ new.deal \in Int
      BY <1>25, <2>2, <2>4
    <2>6. old.deal <= new.deal /\ (Accepted(bk, cs[n]) => i.deal <= new.deal)
      <3>1. CASE Accepted(bk, cs[n]) /\ Exceeds(i, old)
        BY <1>23, <2>3, <2>5, <3>1
      <3>2. CASE ~(Accepted(bk, cs[n]) /\ Exceeds(i, old))
        <4>1. new = old
          BY <2>3, <3>2
        <4>2. Accepted(bk, cs[n]) => ~(i.deal > old.deal)
          BY <1>24, <3>2
        <4>3. QED
          BY <2>5, <4>1, <4>2
      <3>3. QED
        BY <3>1, <3>2
    <2>7. ASSUME NEW k \in 1..n, Accepted(bk, cs[k]) PROVE info[cs[k]].deal <= new.deal
      <3>1. CASE k = n
        BY <2>1, <2>6, <2>7, <3>1
      <3>2. CASE k # n
        <4>1. k \in 1..(n - 1) /\ k \in 1..N
          BY <1>5, <3>2
        <4>2. info[cs[k]].deal <= old.deal
          BY <1>27, <2>1, <2>7, <4>1
        <4>3. info[cs[k]].deal \in Int
          BY <1>6, <1>8, <1>21, <4>1
        <4>4. QED
          BY <2>5, <2>6, <4>2, <4>3
      <3>3. QED
        BY <3>1, <3>2
    <2>8. QED
      BY <1>5, <2>1, <2>4, <2>7
  <1>28. N \in T
    <2> HIDE DEF T
    <2>1. \A n \in 0..N : n \in T
      BY <1>5, <1>26, <1>27, InductionUpto
    <2>2. QED
      BY <1>5, <2>1
  <1>29. PICK r : r = Optimal(bk)
    OBVIOUS
  <1>30. /\ r \in V
         /\ \A k \in 1..N : Accepted(bk, cs[k]) => info[cs[k]].deal <= r.deal
    BY <1>18, <1>28, <1>29
  <1>31. PICK c \in Priced(bk, "bid") \cup Priced(bk, "ask") :
                Accepted(bk, c) /\ \A p \in Prices : Deal(bk, p) <= Deal(bk, c)
    BY BestPrice DEF Accepted
  <1>32. c \in Prices /\ \E k \in 1..N : cs[k] = c
    <2>1. c \in Prices
      BY DEF Priced
    <2>2. CASE c \in Priced(bk, "bid")
      <3>1. PICK i \in 1..Len(bids) : bids[i] = c
        BY <1>1, <1>2, <2>2, LevelsFacts
      <3>2. QED
        BY <1>5, <2>1, <3>1
    <2>3. CASE c \in Priced(bk, "ask")
      <3>1. PICK i \in 1..Len(asks) : asks[i] = c
        BY <1>1, <1>2, <2>3, LevelsFacts
      <3>2. QED
        BY <1>5, <2>1, <3>1
    <2>4. QED
      BY <2>1, <2>2, <2>3
  <1>33. Deal(bk, c) <= r.deal
    BY <1>8, <1>30, <1>31, <1>32
  <1>34. r # NoPrice
    BY <1>21, <1>22, <1>32, <1>33
  <1>35. PICK d \in Prices : r = info[d] /\ Accepted(bk, d)
    BY <1>9, <1>30, <1>34
  <1>36. /\ r.price = d /\ r.deal = Deal(bk, d)
         /\ r = PriceInfo(bk, d) /\ Possible(bk, d)
    BY <1>7, <1>8, <1>35 DEF Accepted
  <1>37. ASSUME NEW p \in Prices PROVE Deal(bk, p) <= Deal(bk, d)
    <2>1. Deal(bk, p) <= Deal(bk, c) /\ Deal(bk, c) <= Deal(bk, d)
      BY <1>31, <1>33, <1>36
    <2>2. Deal(bk, p) \in Nat /\ Deal(bk, c) \in Nat /\ Deal(bk, d) \in Nat
      BY <1>21, <1>32
    <2>3. QED
      BY <2>1, <2>2
  <1>38. QED
    BY <1>29, <1>36, <1>37

(* An order keeps the types, and adds its quantity to that of its level. *)
LEMMA InsertTypes ==
  ASSUME NEW s \in Sides, NEW p \in Prices, NEW q \in Quantities,
         BookTypes(book), insertOrder(s, p, q)
  PROVE  BookTypes(book')
  <1>1. PICK os, lv : /\ os = book[s][p].orders
                      /\ lv = [quantity |-> book[s][p].quantity + q, orders |-> Append(os, q)]
    OBVIOUS
  <1>2. book[s][p] \in LevelSet /\ q \in Nat
    BY OrderBookAssumption DEF BookTypes
  <1>3. os \in Seq(Quantities) /\ os \in Seq(Nat) /\ <<q>> \in Seq(Nat) /\ Len(<<q>>) = 1
    BY <1>1, <1>2, LevelHolds DEF LevelSet
  <1>4. Append(os, q) \in Seq(Quantities) /\ Append(os, q) = os \o <<q>>
    <2>1. Append(os, q) \in Seq(Quantities)
      BY <1>3, AppendProperties
    <2>2. Append(os, q) = os \o <<q>>
      BY <1>3, AppendIsConcat
    <2>3. QED
      BY <2>1, <2>2
  <1>5. Sums(Append(os, q))[Len(Append(os, q))] = Sums(os)[Len(os)] + q
    <2>1. Len(os \o <<q>>) = Len(os) + 1
      BY <1>3, SumsConcat
    <2>2. 1 \in 0..Len(<<q>>) /\ 1 \in 1..Len(<<q>>)
      BY <1>3
    <2>3. Sums(os \o <<q>>)[Len(os) + 1] = Sums(os)[Len(os)] + Sums(<<q>>)[1]
      BY <1>3, <2>2, SumsConcat
    <2>4. Sums(<<q>>)[1] = Sums(<<q>>)[1 - 1] + <<q>>[1] /\ Sums(<<q>>)[0] = 0
      BY <1>3, <2>2, SumsFacts
    <2>5. Sums(<<q>>)[1] = q
      BY <1>2, <2>4
    <2>6. QED
      BY <1>4, <2>1, <2>3, <2>5
  <1>6. lv \in LevelSet /\ lv.quantity = Sums(lv.orders)[Len(lv.orders)]
    <2>1. book[s][p].quantity \in Nat /\ book[s][p].quantity = Sums(os)[Len(os)]
      BY <1>1, <1>2 DEF LevelSet, BookTypes
    <2>2. book[s][p].quantity + q \in Nat
      BY <1>2, <2>1
    <2>3. QED
      BY <1>1, <1>4, <1>5, <2>1, <2>2 DEF LevelSet
  <1>7. book' = [book EXCEPT ![s][p] = lv]
    BY <1>1 DEF insertOrder
  <1>8. book' \in [Sides -> [Prices -> LevelSet]]
    BY <1>6, <1>7 DEF BookTypes
  <1>9. \A t \in Sides, r \in Prices : book'[t][r] = IF t = s /\ r = p THEN lv ELSE book[t][r]
    BY <1>7 DEF BookTypes
  <1>10. QED
    BY <1>6, <1>8, <1>9 DEF BookTypes

-----------------------------------------------------------------------------
(* The matching loop.  What is left of orders when V of them is filled, the  *)
(* first i of them in whole                                                *)
Rest(os, r, i, V) ==
  /\ i \in 0..Len(os) /\ V \in Nat
  /\ r \in Seq(OrderSet) /\ Len(r) = Len(os) - i
  /\ \A k \in 1..Len(r) : r[k].price = os[i + k].price /\ (k # 1 => r[k] = os[i + k])
  /\ Filled(os)[i] <= V
  /\ r = <<>> => V = Filled(os)[i]
  /\ r # <<>> => V + r[1].quantity = Filled(os)[i + 1]

CutsOf(os) == {Filled(os)[k] : k \in 1..Len(os)}

LEMMA RestInit ==
  ASSUME NEW os \in Seq(OrderSet)
  PROVE  Rest(os, os, 0, 0)
  <1>1. PICK N \in Nat : N = Len(os)
    OBVIOUS
  <1>2. /\ Filled(os)[0] = 0
        /\ \A k \in 1..N : /\ Filled(os)[k] = Filled(os)[k - 1] + os[k].quantity
                           /\ os[k].quantity \in Nat
    BY <1>1, FilledFacts
  <1>3. os # <<>> => 0 + os[1].quantity = Filled(os)[0 + 1]
    <2> SUFFICES ASSUME os # <<>> PROVE 0 + os[1].quantity = Filled(os)[0 + 1]
      OBVIOUS
    <2>1. 1 \in 1..N
      BY <1>1
    <2>2. Filled(os)[1] = Filled(os)[1 - 1] + os[1].quantity /\ os[1].quantity \in Nat
      BY <1>2, <2>1
    <2>3. QED
      BY <1>2, <2>2
  <1>4. \A k \in 1..N : os[k].price = os[0 + k].price /\ (k # 1 => os[k] = os[0 + k])
    OBVIOUS
  <1>5. QED
    BY <1>1, <1>2, <1>3, <1>4 DEF Rest

(* v is taken off the first order, which is passed when it has no more. *)
LEMMA ReducedFacts ==
  ASSUME NEW r \in Seq(OrderSet), r # <<>>, NEW v \in 1..r[1].quantity
  PROVE  LET t == Reduced(r, v)
         IN  /\ t \in Seq(OrderSet)
             /\ v = r[1].quantity => /\ Len(t) = Len(r) - 1
                                     /\ \A k \in 1..Len(t) : t[k] = r[k + 1]
             /\ v # r[1].quantity =>
                  /\ Len(t) = Len(r)
                  /\ t[1].price = r[1].price /\ t[1].quantity = r[1].quantity - v
                  /\ \A k \in 2..Len(r) : t[k] = r[k]
  <1>1. PICK N \in Nat : N = Len(r) /\ N # 0
    OBVIOUS
  <1>2. 1 \in 1..N /\ r[1] \in OrderSet /\ r[1].quantity \in Nat
    <2>1. 1 \in 1..N /\ r[1] \in OrderSet
      BY <1>1
    <2>2. QED
      BY <2>1 DEF OrderSet
  <1>3. PICK t : t = Reduced(r, v)
    OBVIOUS
  <1>4. CASE v = r[1].quantity
    <2>1. t = Tail(r)
      BY <1>3, <1>4 DEF Reduced
    <2>2. t \in Seq(OrderSet) /\ Len(t) = N - 1 /\ \A k \in 1..(N - 1) : t[k] = r[k + 1]
      BY <1>1, <2>1, HeadTailProperties
    <2>3. QED
      BY <1>1, <1>3, <1>4, <2>2
  <1>5. CASE v # r[1].quantity
    <2>1. PICK h : h = [r[1] EXCEPT !.quantity = @ - v]
      OBVIOUS
    <2>2. t = [r EXCEPT ![1] = h]
      BY <1>3, <1>5, <2>1 DEF Reduced
    <2>3. h \in OrderSet /\ h.price = r[1].price /\ h.quantity = r[1].quantity - v
      <3>1. r[1].quantity - v \in Nat \ {0}
        BY <1>2, <1>5
      <3>2. QED
        BY <1>2, <2>1, <3>1 DEF OrderSet
    <2>4. PICK q \in [1..N -> OrderSet] : q = r
      BY <1>1
    <2>5. t = [q EXCEPT ![1] = h]
      BY <2>2, <2>4
    <2>6. t \in [1..N -> OrderSet] /\ t[1] = h /\ \A k \in 2..N : t[k] = q[k]
      BY <1>2, <2>3, <2>5
    <2>7. t \in Seq(OrderSet) /\ Len(t) = N
      BY <1>1, <2>6
    <2>8. QED
      BY <1>1, <1>3, <1>5, <2>3, <2>4, <2>6, <2>7
  <1>6. QED
    BY <1>4, <1>5

(* A pass on one side *)
LEMMA RestStep ==
  ASSUME NEW os \in Seq(OrderSet), NEW r, NEW i, NEW V, Rest(os, r, i, V), r # <<>>,
         NEW v \in 1..r[1].quantity
  PROVE  /\ v = r[1].quantity => Rest(os, Reduced(r, v), i + 1, V + v) /\ V + v \in CutsOf(os)
         /\ v # r[1].quantity => Rest(os, Reduced(r, v), i, V + v)
         /\ \A c \in CutsOf(os) : c <= V + v <=> c <= V \/ c = V + v
  <1>1. PICK N \in Nat, M \in Nat : N = Len(os) /\ M = Len(r)
    <2>1. r \in Seq(OrderSet)
      BY DEF Rest
    <2>2. QED
      BY <2>1
  <1>2. PICK F \in [0..N -> Nat] : F = Filled(os)
    BY <1>1, FilledFacts
  <1>3. PICK t : t = Reduced(r, v)
    OBVIOUS
  <1>4. /\ i \in 0..N /\ V \in Nat /\ r \in Seq(OrderSet) /\ M = N - i
        /\ \A k \in 1..M : r[k].price = os[i + k].price /\ (k # 1 => r[k] = os[i + k])
        /\ F[i] <= V /\ V + r[1].quantity = F[i + 1]
    BY <1>1, <1>2 DEF Rest
  <1>5. M # 0 /\ i + 1 \in 1..N
    <2>0. r \in Seq(OrderSet) /\ M = Len(r)
      BY <1>1, <1>4
    <2>1. M # 0
      BY <2>0, EmptySeq
    <2>2. QED
      BY <1>4, <2>1
  <1>6. PICK h \in Nat : h = r[1].quantity
    <2>1. r[1] \in OrderSet
      BY <1>1, <1>4, <1>5
    <2>2. QED
      BY <2>1 DEF OrderSet
  <1>7. \A m, n \in 0..N : m <= n => F[m] <= F[n]
    BY <1>1, <1>2, FilledFacts
  <1>8. \A k \in 1..N : F[k] = F[k - 1] + os[k].quantity /\ os[k].quantity \in Nat
    BY <1>1, <1>2, FilledFacts
  <1>9. ASSUME v = h PROVE Rest(os, t, i + 1, V + v) /\ V + v \in CutsOf(os)
    <2>0. /\ Reduced(r, v) \in Seq(OrderSet) /\ Len(Reduced(r, v)) = Len(r) - 1
          /\ \A k \in 1..Len(Reduced(r, v)) : Reduced(r, v)[k] = r[k + 1]
      BY <1>4, <1>6, <1>9, ReducedFacts
    <2>1. t \in Seq(OrderSet) /\ Len(t) = M - 1 /\ \A k \in 1..(M - 1) : t[k] = r[k + 1]
      BY <1>1, <1>3, <2>0
    <2>2. V + v = F[i + 1]
      BY <1>4, <1>6, <1>9
    <2>3. ASSUME NEW k \in 1..(M - 1) PROVE t[k] = os[(i + 1) + k]
      <3>1. k + 1 \in 1..M /\ k + 1 # 1 /\ i + (k + 1) = (i + 1) + k
        BY <1>4
      <3>2. r[k + 1] = os[i + (k + 1)]
        BY <1>4, <3>1
      <3>3. QED
        BY <2>1, <3>1, <3>2
    <2>4. t # <<>> => (V + v) + t[1].quantity = F[(i + 1) + 1]
      <3> SUFFICES ASSUME t # <<>> PROVE (V + v) + t[1].quantity = F[(i + 1) + 1]
        OBVIOUS
      <3>1. 1 \in 1..(M - 1) /\ (i + 1) + 1 \in 1..N /\ (i + 1) + 1 - 1 = i + 1
        BY <1>1, <1>4, <2>1
      <3>2. PICK n \in 1..N : n = (i + 1) + 1 /\ n - 1 = i + 1
        BY <1>4, <3>1
      <3>3. t[1] = os[n]
        BY <2>3, <3>1, <3>2
      <3>4. F[n] = F[n - 1] + os[n].quantity
        BY <1>8
      <3>5. QED
        BY <2>2, <3>2, <3>3, <3>4
    <2>5. V + v \in CutsOf(os)
      BY <1>1, <1>2, <1>5, <2>2 DEF CutsOf
    <2>6. V + v \in Nat /\ i + 1 \in 0..N /\ M - 1 = N - (i + 1)
      BY <1>4, <1>5
    <2>7. F[i + 1] <= V + v
      BY <2>2, <2>6
    <2>8. QED
      BY <1>1, <1>2, <2>1, <2>2, <2>3, <2>4, <2>5, <2>6, <2>7 DEF Rest
  <1>10. ASSUME v # h PROVE Rest(os, t, i, V + v)
    <2>0. /\ Reduced(r, v) \in Seq(OrderSet) /\ Len(Reduced(r, v)) = Len(r)
          /\ Reduced(r, v)[1].price = r[1].price
          /\ Reduced(r, v)[1].quantity = r[1].quantity - v
          /\ \A k \in 2..Len(r) : Reduced(r, v)[k] = r[k]
      BY <1>4, <1>6, <1>10, ReducedFacts
    <2>1. /\ t \in Seq(OrderSet) /\ Len(t) = M
          /\ t[1].price = r[1].price /\ t[1].quantity = h - v
          /\ \A k \in 2..M : t[k] = r[k]
      BY <1>1, <1>3, <1>6, <2>0
    <2>2. ASSUME NEW k \in 1..M
          PROVE  t[k].price = os[i + k].price /\ (k # 1 => t[k] = os[i + k])
      <3>1. r[k].price = os[i + k].price /\ (k # 1 => r[k] = os[i + k])
        BY <1>4
      <3>2. k = 1 \/ k \in 2..M
        BY <1>1
      <3>3. QED
        BY <2>1, <3>1, <3>2
    <2>3. V + v \in Nat /\ F[i] <= V + v /\ (V + v) + (h - v) = F[i + 1]
      <3>1. F[i] \in Nat /\ V + h = F[i + 1]
        BY <1>2, <1>4, <1>6
      <3>2. QED
        BY <1>4, <1>6, <3>1
    <2>4. t # <<>>
      BY <1>1, <1>5, <2>1
    <2>5. QED
      BY <1>1, <1>2, <1>4, <2>1, <2>2, <2>3, <2>4 DEF Rest
  <1>11. ASSUME NEW c \in CutsOf(os) PROVE c <= V + v <=> c <= V \/ c = V + v
    <2>1. PICK k \in 1..N : c = F[k]
      BY <1>1, <1>2 DEF CutsOf
    <2>2. k \in 0..N /\ i + 1 \in 0..N
      BY <1>4, <1>5
    <2>3. F[k] \in Nat /\ F[i] \in Nat /\ F[i + 1] = V + h
      BY <1>2, <1>4, <1>6, <2>2
    <2>4. F[k] <= F[i] \/ F[i + 1] <= F[k]
      <3>1. k <= i \/ i + 1 <= k
        BY <1>4
      <3>2. QED
        BY <1>4, <1>7, <2>2, <3>1
    <2>5. v \in 1..h
      BY <1>6
    <2>6. PICK x \in Nat, y \in Nat, z \in Nat : x = F[k] /\ y = F[i] /\ z = V
      BY <1>4, <2>3
    <2>7. y <= z /\ (x <= y \/ z + h <= x) /\ v <= h /\ v \in Nat /\ v > 0
      BY <1>4, <2>3, <2>4, <2>5, <2>6
    <2>8. x <= z + v <=> x <= z \/ x = z + v
      BY <2>7
    <2>9. QED
      BY <2>1, <2>6, <2>8
  <1>12. QED
    BY <1>3, <1>6, <1>9, <1>10, <1>11

(* Where orders of both sides meet one of them is filled when D is, and up to *)
(* D the orders meet.                                                      *)
Dealt(buys, sells, D) ==
  /\ D \in Nat
  /\ D <= Filled(buys)[Len(buys)] /\ D <= Filled(sells)[Len(sells)]
  /\ \A k \in 1..Len(buys), l \in 1..Len(sells) :
       /\ buys[k].price >= sells[l].price => Filled(buys)[k] <= D \/ Filled(sells)[l] <= D
       /\ Filled(buys)[k - 1] < D /\ Filled(sells)[l - 1] < D => ~(buys[k].price < sells[l].price)

(* The cuts up to V *)
Upto(buys, sells, V) == {c \in CutsOf(buys) \cup CutsOf(sells) : c <= V}

(* What the loop holds when it has filled V, after n passes or more *)
Passed(buys, sells, D, r, n) ==
  \E i \in 0..Len(buys), j \in 0..Len(sells), V \in 0..D :
    /\ Rest(buys, r.bid, i, V) /\ Rest(sells, r.ask, j, V)
    /\ r.trades = Cardinality(Upto(buys, sells, V))
    /\ Finished(r.bid, r.ask) \/ i + j >= n

(* A pass *)
Pass(r) ==
  LET v == Lesser(r.bid[1].quantity, r.ask[1].quantity)
  IN [bid |-> Reduced(r.bid, v), ask |-> Reduced(r.ask, v), trades |-> r.trades + 1]

LEMMA UptoFacts ==
  ASSUME NEW buys \in Seq(OrderSet), NEW sells \in Seq(OrderSet), NEW V \in Nat
  PROVE  IsFiniteSet(Upto(buys, sells, V)) /\ Cardinality(Upto(buys, sells, V)) \in Nat
  <1>1. CutsOf(buys) \cup CutsOf(sells) \subseteq Nat
    <2>1. \A os \in Seq(OrderSet) : CutsOf(os) \subseteq Nat
      <3> SUFFICES ASSUME NEW os \in Seq(OrderSet), NEW c \in CutsOf(os) PROVE c \in Nat
        OBVIOUS
      <3>1. PICK k \in 1..Len(os) : c = Filled(os)[k]
        BY DEF CutsOf
      <3>2. k \in 0..Len(os) /\ Filled(os) \in [0..Len(os) -> Nat]
        BY FilledFacts
      <3>3. QED
        BY <3>1, <3>2
    <2>2. QED
      BY <2>1
  <1>2. Upto(buys, sells, V) \subseteq 0..V
    BY <1>1 DEF Upto
  <1>3. IsFiniteSet(0..V)
    BY FS_Interval
  <1>4. IsFiniteSet(Upto(buys, sells, V))
    BY <1>2, <1>3, FS_Subset
  <1>5. QED
    BY <1>4, FS_CardinalityType

LEMMA PassFacts ==
  ASSUME NEW buys \in Seq(OrderSet), NEW sells \in Seq(OrderSet), NEW D, Dealt(buys, sells, D),
         NEW r, NEW n \in Nat, Passed(buys, sells, D, r, n), ~Finished(r.bid, r.ask)
  PROVE  Passed(buys, sells, D, Pass(r), n + 1)
  <1>1. PICK i \in 0..Len(buys), j \in 0..Len(sells), V \in 0..D :
               /\ Rest(buys, r.bid, i, V) /\ Rest(sells, r.ask, j, V)
               /\ r.trades = Cardinality(Upto(buys, sells, V))
               /\ i + j >= n
    BY DEF Passed
  <1>2. PICK bs, as : bs = r.bid /\ as = r.ask
    OBVIOUS
  <1>3. bs # <<>> /\ as # <<>> /\ ~(bs[1].price < as[1].price)
    BY <1>2 DEF Finished
  <1>4. PICK F, G, M, N : /\ F = Filled(buys) /\ G = Filled(sells)
                          /\ M = Len(buys) /\ N = Len(sells)
    OBVIOUS
  <1>5. /\ M \in Nat /\ N \in Nat /\ F \in [0..M -> Nat] /\ G \in [0..N -> Nat]
    BY <1>4, FilledFacts
  <1>6. D \in Nat /\ V \in Nat
    BY DEF Dealt
  <1>7. ASSUME NEW os \in Seq(OrderSet), NEW ps, NEW k, Rest(os, ps, k, V), ps # <<>>
        PROVE  /\ k + 1 \in 1..Len(os) /\ ps[1].price = os[k + 1].price
               /\ ps[1].quantity \in Nat \ {0} /\ V + ps[1].quantity = Filled(os)[k + 1]
               /\ Filled(os)[k] <= V
    <2>1. ps \in Seq(OrderSet) /\ k \in 0..Len(os) /\ Len(ps) = Len(os) - k
      BY <1>7 DEF Rest
    <2>2. Len(ps) \in Nat \ {0}
      BY <1>7, <2>1, EmptySeq
    <2>3. 1 \in 1..Len(ps)
      BY <2>2
    <2>4. ps[1] \in OrderSet
      BY <2>1, <2>3
    <2>5. ps[1].price = os[k + 1].price
      BY <1>7, <2>3 DEF Rest
    <2>6. k + 1 \in 1..Len(os)
      BY <2>1, <2>2
    <2>7. QED
      BY <1>7, <2>4, <2>5, <2>6 DEF Rest, OrderSet
  <1>8. /\ i + 1 \in 1..M /\ bs[1].price = buys[i + 1].price
        /\ bs[1].quantity \in Nat \ {0} /\ V + bs[1].quantity = F[i + 1]
    BY <1>1, <1>2, <1>3, <1>4, <1>7, SMTT(20)
  <1>9. /\ j + 1 \in 1..N /\ as[1].price = sells[j + 1].price
        /\ as[1].quantity \in Nat \ {0} /\ V + as[1].quantity = G[j + 1]
    BY <1>1, <1>2, <1>3, <1>4, <1>7
  <1>10. PICK x \in Nat \ {0}, y \in Nat \ {0} : x = bs[1].quantity /\ y = as[1].quantity
    BY <1>8, <1>9
  <1>11. PICK v : v = Lesser(x, y)
    OBVIOUS
  <1>12. v \in 1..x /\ v \in 1..y /\ (v = x \/ v = y)
    BY <1>11 DEF Lesser
  <1>13. PICK W \in Nat : W = V + v
    BY <1>6, <1>12
  <1>14. W \in 0..D
    <2>1. bs[1].price \in Nat /\ as[1].price \in Nat
      <3>1. \A os \in Seq(OrderSet) : \A k \in 1..Len(os) : os[k].price \in Prices
        <4> SUFFICES ASSUME NEW os \in Seq(OrderSet), NEW k \in 1..Len(os)
                     PROVE  os[k].price \in Prices
          OBVIOUS
        <4>1. os[k] \in OrderSet
          OBVIOUS
        <4>2. QED
          BY <4>1 DEF OrderSet
      <3>2. Prices \subseteq Nat
        BY OrderBookAssumption
      <3>3. QED
        BY <1>4, <1>8, <1>9, <3>1, <3>2
    <2>2. buys[i + 1].price >= sells[j + 1].price
      BY <1>3, <1>8, <1>9, <2>1
    <2>3. F[i + 1] <= D \/ G[j + 1] <= D
      BY <1>4, <1>8, <1>9, <2>2 DEF Dealt
    <2>4. V + x <= D \/ V + y <= D
      BY <1>8, <1>9, <1>10, <2>3
    <2>5. QED
      BY <1>6, <1>12, <1>13, <2>4
  <1>15. PICK i2 \in Nat : /\ Rest(buys, Reduced(bs, v), i2, W)
                           /\ i2 = IF v = x THEN i + 1 ELSE i
    BY <1>1, <1>2, <1>3, <1>10, <1>12, <1>13, RestStep, SMTT(20)
  <1>16. PICK j2 \in Nat : /\ Rest(sells, Reduced(as, v), j2, W)
                           /\ j2 = IF v = y THEN j + 1 ELSE j
    BY <1>1, <1>2, <1>3, <1>10, <1>12, <1>13, RestStep
  <1>17. /\ \A c \in CutsOf(buys) : c <= W <=> c <= V \/ c = W
         /\ \A c \in CutsOf(sells) : c <= W <=> c <= V \/ c = W
         /\ W \in CutsOf(buys) \cup CutsOf(sells)
    <2>1. /\ v = x => W \in CutsOf(buys)
          /\ \A c \in CutsOf(buys) : c <= W <=> c <= V \/ c = W
      BY <1>1, <1>2, <1>3, <1>10, <1>12, <1>13, RestStep
    <2>2. /\ v = y => W \in CutsOf(sells)
          /\ \A c \in CutsOf(sells) : c <= W <=> c <= V \/ c = W
      BY <1>1, <1>2, <1>3, <1>10, <1>12, <1>13, RestStep
    <2>3. QED
      BY <1>12, <2>1, <2>2
  <1>18. Cardinality(Upto(buys, sells, W)) = Cardinality(Upto(buys, sells, V)) + 1
    <2>1. Upto(buys, sells, W) = Upto(buys, sells, V) \cup {W}
      BY <1>17 DEF Upto
    <2>2. ~(W <= V)
      BY <1>6, <1>12, <1>13
    <2>3. W \notin Upto(buys, sells, V)
      BY <2>2 DEF Upto
    <2>4. IsFiniteSet(Upto(buys, sells, V))
      BY <1>6, UptoFacts
    <2>5. QED
      BY <2>1, <2>3, <2>4, FS_AddElement
  <1>19. i2 \in 0..Len(buys) /\ j2 \in 0..Len(sells) /\ i2 + j2 >= n + 1
    <2>1. i2 \in 0..Len(buys) /\ j2 \in 0..Len(sells)
      BY <1>15, <1>16 DEF Rest
    <2>2. i2 + j2 >= (i + j) + 1
      BY <1>4, <1>5, <1>12, <1>15, <1>16
    <2>3. QED
      BY <1>1, <1>4, <1>5, <2>1, <2>2
  <1>20. /\ Pass(r).bid = Reduced(bs, v) /\ Pass(r).ask = Reduced(as, v)
         /\ Pass(r).trades = r.trades + 1
    BY <1>2, <1>10, <1>11 DEF Pass
  <1>21. QED
    BY <1>1, <1>14, <1>15, <1>16, <1>18, <1>19, <1>20 DEF Passed

(* The matching loop ends with D filled on both sides, after one trade for   *)
(* each volume up to D at which an order is filled.                        *)
LEMMA MatchedFacts ==
  ASSUME NEW buys \in Seq(OrderSet), NEW sells \in Seq(OrderSet), NEW D, Dealt(buys, sells, D)
  PROVE  LET r == Matched(buys, sells)
         IN  /\ \E i : Rest(buys, r.bid, i, D)
             /\ \E j : Rest(sells, r.ask, j, D)
             /\ Finished(r.bid, r.ask)
             /\ r.trades = Cardinality(Upto(buys, sells, D))
  <1>1. PICK M \in Nat, N \in Nat, K \in Nat :
               M = Len(buys) /\ N = Len(sells) /\ K = M + N
    OBVIOUS
  <1>2. D \in Nat
    BY DEF Dealt
  <1>3. PICK S : S = [bid : Seq(OrderSet), ask : Seq(OrderSet), trades : Nat]
    OBVIOUS
  <1>4. PICK first : first = [bid |-> buys, ask |-> sells, trades |-> 0]
    OBVIOUS
  <1>5. PICK step : step = [n \in 1..K |-> [r \in S |->
                      IF Finished(r.bid, r.ask) THEN r ELSE Pass(r)]]
    OBVIOUS
  <1>6. first \in S /\ step \in [1..K -> [S -> S]]
    <2>1. ASSUME NEW r \in S, ~Finished(r.bid, r.ask) PROVE Pass(r) \in S
      <3>1. /\ r.bid \in Seq(OrderSet) /\ r.ask \in Seq(OrderSet) /\ r.trades \in Nat
            /\ r.bid # <<>> /\ r.ask # <<>>
        BY <1>3, <2>1 DEF Finished
      <3>2. ASSUME NEW os \in Seq(OrderSet), os # <<>> PROVE os[1].quantity \in Nat \ {0}
        <4>1. Len(os) \in Nat \ {0}
          BY <3>2, EmptySeq
        <4>2. os[1] \in OrderSet
          BY <4>1
        <4>3. QED
          BY <4>2 DEF OrderSet
      <3>3. PICK x \in Nat \ {0}, y \in Nat \ {0} :
                   x = r.bid[1].quantity /\ y = r.ask[1].quantity
        BY <3>1, <3>2
      <3>4. PICK v : v = Lesser(x, y)
        OBVIOUS
      <3>5. v \in 1..x /\ v \in 1..y
        BY <3>4 DEF Lesser
      <3>6. Reduced(r.bid, v) \in Seq(OrderSet) /\ Reduced(r.ask, v) \in Seq(OrderSet)
        BY <3>1, <3>3, <3>5, ReducedFacts
      <3>7. Pass(r) = [bid |-> Reduced(r.bid, v), ask |-> Reduced(r.ask, v),
                       trades |-> r.trades + 1]
        BY <3>3, <3>4 DEF Pass
      <3>8. QED
        BY <1>3, <3>1, <3>6, <3>7
    <2>2. first \in S
      BY <1>3, <1>4
    <2>3. QED
      BY <1>5, <2>1, <2>2
  <1>7. PICK f \in [0..K -> S] : Iterates(f, K, first, step)
    BY <1>6, RecursionExists
  <1> DEFINE G(g) == [n \in 0..K |->
        IF n = 0 THEN first
        ELSE IF Finished(g[n - 1].bid, g[n - 1].ask) THEN g[n - 1] ELSE Pass(g[n - 1])]
  <1>8. f = G(f)
    <2>1. f = [n \in 0..K |-> f[n]]
      BY <1>7
    <2>2. f[0] = first
      BY <1>7 DEF Iterates
    <2>3. ASSUME NEW n \in 1..K
          PROVE  f[n] = IF Finished(f[n - 1].bid, f[n - 1].ask) THEN f[n - 1] ELSE Pass(f[n - 1])
      <3>1. n - 1 \in 0..K
        BY <1>1
      <3>2. f[n - 1] \in S
        BY <1>7, <3>1
      <3>3. QED
        BY <1>5, <1>7, <3>2 DEF Iterates
    <2>4. ASSUME NEW n \in 0..K
          PROVE  f[n] = IF n = 0 THEN first
                        ELSE IF Finished(f[n - 1].bid, f[n - 1].ask)
                             THEN f[n - 1] ELSE Pass(f[n - 1])
      <3>1. n = 0 \/ n \in 1..K
        BY <1>1
      <3>2. QED
        BY <2>2, <2>3, <3>1
    <2>5. QED
      BY <2>1, <2>4, Zenon
  <1>9. PICK after : after = CHOOSE g : g = G(g)
    OBVIOUS
  <1>10. after = G(after)
    BY <1>8, <1>9, Zenon
  <1>11. Matched(buys, sells) = after[K]
    BY <1>1, <1>4, <1>9 DEF Matched, Pass
  <1> HIDE DEF G
  <1>12. after[0] = first
    <2>1. 0 \in 0..K
      BY <1>1
    <2>2. QED
      BY <1>10, <2>1 DEF G
  <1>13. ASSUME NEW n \in 1..K
         PROVE  after[n] = IF Finished(after[n - 1].bid, after[n - 1].ask)
                           THEN after[n - 1] ELSE Pass(after[n - 1])
    <2>1. n \in 0..K /\ n # 0
      BY <1>1
    <2>2. QED
      BY <1>10, <2>1 DEF G
  <1> DEFINE T == {n \in 0..K : Passed(buys, sells, D, after[n], n)}
  <1>14. 0 \in T
    <2>1. Rest(buys, buys, 0, 0) /\ Rest(sells, sells, 0, 0)
      BY RestInit
    <2>2. Upto(buys, sells, 0) = {}
      <3>1. ASSUME NEW os \in Seq(OrderSet), NEW c \in CutsOf(os) PROVE ~(c <= 0)
        <4>1. PICK k \in 1..Len(os) : c = Filled(os)[k]
          BY DEF CutsOf
        <4>2. k - 1 \in 0..Len(os)
          OBVIOUS
        <4>3. /\ Filled(os)[k] = Filled(os)[k - 1] + os[k].quantity
              /\ Filled(os)[k - 1] \in Nat /\ os[k].quantity \in Nat \ {0}
          BY <4>2, FilledFacts
        <4>4. QED
          BY <4>1, <4>3
      <3>2. QED
        BY <3>1 DEF Upto
    <2>3. Cardinality(Upto(buys, sells, 0)) = 0
      BY <2>2, FS_EmptySet
    <2>4. first.bid = buys /\ first.ask = sells /\ first.trades = 0
      BY <1>4
    <2>5. 0 \in 0..Len(buys) /\ 0 \in 0..Len(sells) /\ 0 \in 0..D /\ 0 + 0 >= 0 /\ 0 \in 0..K
      BY <1>1, <1>2
    <2>6. Passed(buys, sells, D, first, 0)
      BY <2>1, <2>3, <2>4, <2>5 DEF Passed
    <2>7. QED
      BY <1>12, <2>5, <2>6
  <1>15. ASSUME NEW n \in 1..K, n - 1 \in T PROVE n \in T
    <2>0. PICK m \in Nat : m = n - 1 /\ m + 1 = n
      BY <1>1
    <2>1. PICK r : r = after[m]
      OBVIOUS
    <2>2. Passed(buys, sells, D, r, m)
      BY <1>15, <2>0, <2>1
    <2>3. CASE Finished(r.bid, r.ask)
      <3>1. after[n] = r
        BY <1>13, <2>0, <2>1, <2>3
      <3>2. Passed(buys, sells, D, r, n)
        BY <2>2, <2>3 DEF Passed
      <3>3. QED
        BY <1>1, <3>1, <3>2
    <2>4. CASE ~Finished(r.bid, r.ask)
      <3>1. after[n] = Pass(r)
        BY <1>13, <2>0, <2>1, <2>4
      <3>2. Passed(buys, sells, D, Pass(r), m + 1)
        BY <2>2, <2>4, PassFacts
      <3>3. QED
        BY <1>1, <2>0, <3>1, <3>2
    <2>5. QED
      BY <2>3, <2>4
  <1>16. K \in T
    <2> HIDE DEF T
    <2>1. \A n \in 0..K : n \in T
      BY <1>1, <1>14, <1>15, InductionUpto
    <2>2. QED
      BY <1>1, <2>1
  <1>17. PICK r : r = Matched(buys, sells)
    OBVIOUS
  <1>18. Passed(buys, sells, D, r, K)
    BY <1>11, <1>16, <1>17
  <1>19. PICK i \in 0..Len(buys), j \in 0..Len(sells), V \in 0..D :
                /\ Rest(buys, r.bid, i, V) /\ Rest(sells, r.ask, j, V)
                /\ r.trades = Cardinality(Upto(buys, sells, V))
                /\ Finished(r.bid, r.ask) \/ i + j >= K
    BY <1>18 DEF Passed
  <1>20. ASSUME NEW os \in Seq(OrderSet), NEW ps, NEW k, Rest(os, ps, k, V)
         PROVE  /\ k \in 0..Len(os) /\ ps \in Seq(OrderSet) /\ Len(ps) = Len(os) - k
                /\ ps = <<>> => V = Filled(os)[Len(os)]
                /\ ps # <<>> => /\ k + 1 \in 1..Len(os) /\ Filled(os)[k] <= V
                                /\ ps[1].price = os[k + 1].price
    <2>1. /\ k \in 0..Len(os) /\ ps \in Seq(OrderSet) /\ Len(ps) = Len(os) - k
          /\ ps = <<>> => V = Filled(os)[k]
          /\ Filled(os)[k] <= V
      BY <1>20 DEF Rest
    <2>2. ASSUME ps = <<>> PROVE k = Len(os)
      BY <2>1, <2>2
    <2>3. ASSUME ps # <<>> PROVE k + 1 \in 1..Len(os) /\ ps[1].price = os[k + 1].price
      <3>1. Len(ps) \in Nat \ {0}
        BY <2>1, <2>3, EmptySeq
      <3>2. k + 1 \in 1..Len(os) /\ 1 \in 1..Len(ps)
        BY <2>1, <3>1
      <3>3. QED
        BY <1>20, <3>2 DEF Rest
    <2>4. QED
      BY <2>1, <2>2, <2>3
  <1>21. Finished(r.bid, r.ask)
    <2> SUFFICES ASSUME i + j >= K PROVE r.bid = <<>>
      BY <1>19 DEF Finished
    <2>1. i = M
      BY <1>1
    <2>2. r.bid \in Seq(OrderSet) /\ Len(r.bid) = Len(buys) - i
      BY <1>19, <1>20
    <2>3. Len(r.bid) = 0
      BY <1>1, <2>1, <2>2
    <2>4. QED
      BY <2>2, <2>3, EmptySeq
  <1>22. V = D
    <2> SUFFICES ASSUME V # D PROVE FALSE
      OBVIOUS
    <2>1. V < D /\ V \in Nat
      BY <1>2
    <2>2. /\ Filled(buys)[Len(buys)] \in Nat /\ D <= Filled(buys)[Len(buys)]
          /\ Filled(sells)[Len(sells)] \in Nat /\ D <= Filled(sells)[Len(sells)]
      <3>1. M \in 0..M /\ N \in 0..N
        BY <1>1
      <3>2. Filled(buys) \in [0..M -> Nat] /\ Filled(sells) \in [0..N -> Nat]
        BY <1>1, FilledFacts
      <3>3. QED
        BY <1>1, <3>1, <3>2 DEF Dealt
    <2>3. r.bid # <<>> /\ r.ask # <<>>
      <3>1. /\ r.bid = <<>> => V = Filled(buys)[Len(buys)]
            /\ r.ask = <<>> => V = Filled(sells)[Len(sells)]
        BY <1>19, <1>20
      <3>2. QED
        BY <1>2, <2>1, <2>2, <3>1
    <2>4. /\ i + 1 \in 1..Len(buys) /\ Filled(buys)[i] <= V
          /\ r.bid[1].price = buys[i + 1].price
      BY <1>19, <1>20, <2>3
    <2>5. /\ j + 1 \in 1..Len(sells) /\ Filled(sells)[j] <= V
          /\ r.ask[1].price = sells[j + 1].price
      BY <1>19, <1>20, <2>3
    <2>6. Filled(buys)[i] < D /\ Filled(sells)[j] < D
      <3>1. Filled(buys)[i] \in Nat /\ Filled(sells)[j] \in Nat
        BY <1>1, FilledFacts
      <3>2. QED
        BY <1>2, <2>1, <2>4, <2>5, <3>1
    <2>7. ~(r.bid[1].price < r.ask[1].price)
      <3>1. (i + 1) - 1 = i /\ (j + 1) - 1 = j
        BY <1>1
      <3>2. PICK k \in 1..Len(buys), l \in 1..Len(sells) :
                   k = i + 1 /\ l = j + 1 /\ k - 1 = i /\ l - 1 = j
        BY <2>4, <2>5, <3>1
      <3>3. ~(buys[k].price < sells[l].price)
        BY <2>6, <3>2 DEF Dealt
      <3>4. QED
        BY <2>4, <2>5, <3>2, <3>3
    <2>8. QED
      BY <1>21, <2>3, <2>7 DEF Finished
  <1>23. QED
    BY <1>17, <1>19, <1>21, <1>22

-----------------------------------------------------------------------------
(* The prices from m on, in order, are those of all prices from m on. *)
LEMMA SortedFrom ==
  ASSUME NEW s \in Sides, NEW P \in SUBSET Prices, NEW m \in P
  PROVE  LET U == {p \in P : ~Before(s, p, m)}
         IN  /\ Sorted(s, U) = SubSeq(Sorted(s, P), Rank(s, P, m) + 1, Len(Sorted(s, P)))
             /\ Sorted(s, U) # <<>> /\ Sorted(s, U)[1] = m
  <1>1. P \subseteq Prices /\ Prices \subseteq Nat
    BY OrderBookAssumption
  <1>2. PICK U \in SUBSET P : U = {p \in P : ~Before(s, p, m)}
    OBVIOUS
  <1>3. U \in SUBSET Prices /\ m \in U
    BY <1>1, <1>2, BeforeOrder
  <1>4. PICK N \in Nat, K \in Nat, n \in Nat :
               N = Cardinality(P) /\ n = Cardinality(U) /\ K = Rank(s, P, m)
    BY <1>1, <1>3, RankFacts
  <1>5. IsFiniteSet(P) /\ IsFiniteSet(U)
    BY <1>3, RankFacts
  <1>6. PICK B : B = {l \in P : Before(s, l, m)}
    OBVIOUS
  <1>7. IsFiniteSet(B) /\ Cardinality(B) = K
    BY <1>4, <1>5, <1>6, FS_Subset DEF Rank
  <1>8. ASSUME NEW T \in SUBSET U
        PROVE  Cardinality(B \cup T) = K + Cardinality(T) /\ Cardinality(T) \in Nat
    <2>1. B \cap T = {}
      BY <1>2, <1>6
    <2>2. IsFiniteSet(T)
      BY <1>5, FS_Subset
    <2>3. Cardinality(B \cap T) = 0 /\ Cardinality(T) \in Nat
      BY <2>1, <2>2, FS_EmptySet, FS_CardinalityType
    <2>4. Cardinality(B \cup T) = Cardinality(B) + Cardinality(T) - Cardinality(B \cap T)
      BY <1>7, <2>2, FS_Union
    <2>5. QED
      BY <1>4, <1>7, <2>3, <2>4
  <1>9. N = K + n
    <2>1. P = B \cup U
      BY <1>2, <1>6
    <2>2. U \in SUBSET U
      OBVIOUS
    <2>3. Cardinality(B \cup U) = K + Cardinality(U)
      BY <1>8, <2>2
    <2>4. QED
      BY <1>4, <2>1, <2>3
  <1>10. ASSUME NEW p \in U PROVE Rank(s, P, p) = K + Rank(s, U, p)
    <2>1. PICK T : T = {l \in U : Before(s, l, p)}
      OBVIOUS
    <2>2. {l \in P : Before(s, l, p)} = B \cup T
      <3>1. m = p \/ Before(s, m, p)
        BY <1>1, <1>2, BeforeOrder
      <3>2. \A l \in P : Before(s, l, m) => Before(s, l, p)
        BY <1>1, <3>1, BeforeOrder
      <3>3. QED
        BY <1>2, <1>6, <2>1, <3>2
    <2>3. T \in SUBSET U
      BY <2>1
    <2>4. QED
      BY <1>8, <2>1, <2>2, <2>3 DEF Rank
  <1>11. PICK all, ls : all = Sorted(s, P) /\ ls = Sorted(s, U)
    OBVIOUS
  <1>12. /\ all \in Seq(Prices) /\ Len(all) = N
         /\ \A i \in 1..N : all[i] \in P /\ Rank(s, P, all[i]) = i - 1
    BY <1>4, <1>11, SortedFacts
  <1>13. /\ ls \in Seq(Prices) /\ Len(ls) = n
         /\ \A i \in 1..n : ls[i] \in U /\ Rank(s, U, ls[i]) = i - 1
    BY <1>3, <1>4, <1>11, SortedFacts
  <1>14. PICK sub : sub = SubSeq(all, K + 1, N)
    OBVIOUS
  <1>15. /\ sub \in Seq(Prices) /\ Len(sub) = n
         /\ \A i \in 1..n : sub[i] = all[K + i]
    <2>1. \A i \in (K + 1)..N : all[i] \in Prices
      BY <1>1, <1>4, <1>12
    <2>2. K + 1 \in Int /\ N \in Int
      BY <1>4
    <2>3. /\ sub \in Seq(Prices)
          /\ Len(sub) = IF K + 1 <= N THEN N - (K + 1) + 1 ELSE 0
          /\ \A i \in 1..(N - (K + 1) + 1) : sub[i] = all[(K + 1) + i - 1]
      BY <1>14, <2>1, <2>2, SubSeqProperties
    <2>4. N - (K + 1) + 1 = n /\ (K + 1 <= N <=> n # 0)
      BY <1>4, <1>9
    <2>5. \A i \in 1..n : (K + 1) + i - 1 = K + i
      BY <1>4
    <2>6. QED
      BY <1>4, <2>3, <2>4, <2>5
  <1>16. ASSUME NEW p \in P, NEW q \in P, Rank(s, P, p) = Rank(s, P, q) PROVE p = q
    <2>1. Rank(s, P, p) + 1 \in 1..Len(all) /\ all[Rank(s, P, p) + 1] = p
      BY <1>11, SortedFacts
    <2>2. all[Rank(s, P, q) + 1] = q
      BY <1>11, SortedFacts
    <2>3. QED
      BY <1>16, <2>1, <2>2
  <1>17. ASSUME NEW i \in 1..n PROVE ls[i] = sub[i]
    <2>1. K + i \in 1..N /\ (K + i) - 1 = K + (i - 1)
      BY <1>4, <1>9
    <2>2. PICK p \in P : p = sub[i] /\ Rank(s, P, p) = K + (i - 1)
      BY <1>12, <1>15, <2>1
    <2>3. PICK u \in U : u = ls[i] /\ Rank(s, U, u) = i - 1
      BY <1>13
    <2>4. Rank(s, P, u) = K + (i - 1) /\ u \in P
      BY <1>10, <2>3
    <2>5. QED
      BY <1>16, <2>2, <2>3, <2>4
  <1>18. ls = sub
    BY <1>13, <1>15, <1>17, SeqEqual
  <1>19. n # 0
    BY <1>3, <1>4, <1>5, FS_EmptySet
  <1>20. ls # <<>> /\ ls[1] = m
    <2>1. 1 \in 1..n /\ 1 - 1 = 0
      BY <1>4, <1>19
    <2>2. ls[1] \in U /\ Rank(s, U, ls[1]) = 0
      BY <1>13, <2>1
    <2>3. Rank(s, P, ls[1]) = K + 0 /\ K + 0 = K
      BY <1>4, <1>10, <2>2
    <2>4. ls[1] = m
      BY <1>4, <1>16, <2>2, <2>3
    <2>5. QED
      BY <1>13, <1>19, <2>4
  <1>21. QED
    BY <1>2, <1>4, <1>11, <1>12, <1>14, <1>18, <1>20

(* At the price of the auction all better orders can be filled, and the last  *)
(* one filled is at that price or better.                                  *)
LEMMA DealSplits ==
  ASSUME NEW bk, BookTypes(bk), NEW c \in Prices, Possible(bk, c), NEW s \in Sides
  PROVE  /\ Deal(bk, c) \in Nat
         /\ Ahead(bk, s, c) <= Deal(bk, c)
         /\ Deal(bk, c) <= Ahead(bk, s, c) + Within(bk, s, c)
  <1>1. "bid" \in Sides /\ "ask" \in Sides /\ s \in {"bid", "ask"}
    BY DEF Sides
  <1>2. PICK a \in Nat, b \in Nat, l \in Nat, w \in Nat :
               /\ a = Ahead(bk, "bid", c) /\ b = Within(bk, "bid", c)
               /\ l = Ahead(bk, "ask", c) /\ w = Within(bk, "ask", c)
    BY <1>1, AheadFacts
  <1>3. (a + b > l + w => a <= l + w) /\ (a + b < l + w => l <= a + b)
    BY <1>2 DEF Possible
  <1>4. Deal(bk, c) = IF a + b < l + w THEN a + b ELSE l + w
    BY <1>2 DEF Deal, Lesser
  <1>5. PICK d \in Nat : d = Deal(bk, c)
    BY <1>4
  <1>6. a <= d /\ l <= d /\ d <= a + b /\ d <= l + w
    BY <1>3, <1>4, <1>5
  <1>7. QED
    BY <1>1, <1>2, <1>5, <1>6

(* The orders meet up to the volume of the deal and no further. *)
LEMMA DealMatches ==
  ASSUME NEW bk, BookTypes(bk), NEW c \in Prices, Possible(bk, c),
         \A p \in Prices : Deal(bk, p) <= Deal(bk, c)
  PROVE  Dealt(Orders(bk, "bid"), Orders(bk, "ask"), Deal(bk, c))
  <1>1. "bid" \in Sides /\ "ask" \in Sides /\ Prices \subseteq Nat
    BY OrderBookAssumption DEF Sides
  <1>2. PICK buys \in Seq(OrderSet), sells \in Seq(OrderSet) :
               buys = Orders(bk, "bid") /\ sells = Orders(bk, "ask")
    BY <1>1, OrdersFacts
  <1>3. PICK A, B, L, S : /\ A = [p \in Prices |-> Ahead(bk, "bid", p)]
                          /\ B = [p \in Prices |-> Ahead(bk, "bid", p) + Within(bk, "bid", p)]
                          /\ L = [p \in Prices |-> Ahead(bk, "ask", p)]
                          /\ S = [p \in Prices |-> Ahead(bk, "ask", p) + Within(bk, "ask", p)]
    OBVIOUS
  <1>4. /\ A \in [Prices -> Nat] /\ B \in [Prices -> Nat]
        /\ L \in [Prices -> Nat] /\ S \in [Prices -> Nat]
        /\ \A p \in Prices : A[p] <= B[p] /\ L[p] <= S[p]
    <2>1. \A p \in Prices : /\ Ahead(bk, "bid", p) \in Nat /\ Within(bk, "bid", p) \in Nat
                            /\ Ahead(bk, "ask", p) \in Nat /\ Within(bk, "ask", p) \in Nat
      BY <1>1, AheadFacts
    <2>2. QED
      BY <1>3, <2>1, SMTT(20)
  <1>5. ASSUME NEW p \in Prices, NEW q \in Prices, p < q
        PROVE  B[q] <= A[p] /\ S[p] <= L[q]
    <2>1. Before("bid", q, p) /\ Before("ask", p, q)
      BY <1>1, <1>5 DEF Before
    <2>2. /\ Ahead(bk, "bid", q) + Within(bk, "bid", q) <= Ahead(bk, "bid", p)
          /\ Ahead(bk, "ask", p) + Within(bk, "ask", p) <= Ahead(bk, "ask", q)
      BY <1>1, <2>1, AheadFacts
    <2>3. QED
      BY <1>3, <2>2
  <1>6. PICK D \in Nat : D = Deal(bk, c)
    BY <1>1, DealSplits
  <1>7. D <= B[c] /\ D <= S[c]
    BY <1>1, <1>3, <1>6, DealSplits
  <1>8. ASSUME NEW p \in Prices PROVE B[p] <= D \/ S[p] <= D
    <2>1. Deal(bk, p) <= D /\ Deal(bk, p) = Lesser(B[p], S[p])
      BY <1>3, <1>6 DEF Deal
    <2>2. QED
      BY <2>1 DEF Lesser
  <1>9. PICK F, G, M, N : /\ F = Filled(buys) /\ G = Filled(sells)
                          /\ M = Len(buys) /\ N = Len(sells)
    OBVIOUS
  <1>10. /\ M \in Nat /\ N \in Nat /\ F \in [0..M -> Nat] /\ G \in [0..N -> Nat]
    BY <1>9, FilledFacts
  <1>11. B[c] <= F[M] /\ S[c] <= G[N]
    BY <1>1, <1>2, <1>3, <1>9, OrdersFacts
  <1>12. D <= F[M] /\ D <= G[N]
    <2>1. F[M] \in Nat /\ G[N] \in Nat /\ B[c] \in Nat /\ S[c] \in Nat
      BY <1>4, <1>10
    <2>2. QED
      BY <1>7, <1>11, <2>1
  <1>13. ASSUME NEW k \in 1..M
         PROVE  /\ buys[k].price \in Prices /\ A[buys[k].price] <= F[k - 1]
                /\ F[k] <= B[buys[k].price] /\ F[k] \in Nat /\ F[k - 1] \in Nat
    <2>1. InPlace(bk, "bid", buys, k)
      BY <1>1, <1>2, <1>9, OrdersFacts
    <2>2. buys[k].price \in Prices
      BY <2>1 DEF InPlace, Priced
    <2>3. k \in 0..M /\ k - 1 \in 0..M
      BY <1>10
    <2>4. QED
      BY <1>3, <1>9, <1>10, <2>1, <2>2, <2>3 DEF InPlace
  <1>14. ASSUME NEW k \in 1..N
         PROVE  /\ sells[k].price \in Prices /\ L[sells[k].price] <= G[k - 1]
                /\ G[k] <= S[sells[k].price] /\ G[k] \in Nat /\ G[k - 1] \in Nat
    <2>1. InPlace(bk, "ask", sells, k)
      BY <1>1, <1>2, <1>9, OrdersFacts
    <2>2. sells[k].price \in Prices
      BY <2>1 DEF InPlace, Priced
    <2>3. k \in 0..N /\ k - 1 \in 0..N
      BY <1>10
    <2>4. QED
      BY <1>3, <1>9, <1>10, <2>1, <2>2, <2>3 DEF InPlace
  <1>15. ASSUME NEW k \in 1..M, NEW l \in 1..N, buys[k].price >= sells[l].price
         PROVE  F[k] <= D \/ G[l] <= D
    <2>1. PICK p \in Prices, q \in Prices : p = buys[k].price /\ q = sells[l].price
      BY <1>13, <1>14
    <2>2. p \in Nat /\ q \in Nat /\ p >= q
      BY <1>1, <1>15, <2>1
    <2>3. B[p] <= B[q]
      <3>1. CASE p = q
        BY <1>4, <3>1
      <3>2. CASE p # q
        <4>1. B[p] <= A[q]
          BY <1>5, <2>2, <3>2
        <4>2. QED
          BY <1>4, <4>1
      <3>3. QED
        BY <3>1, <3>2
    <2>4. PICK f \in Nat, g \in Nat, x \in Nat, y \in Nat, z \in Nat :
                 /\ f = F[k] /\ g = G[l] /\ x = B[p] /\ y = B[q] /\ z = S[q]
      BY <1>4, <1>13, <1>14
    <2>5. f <= x /\ g <= z /\ x <= y /\ (y <= D \/ z <= D)
      BY <1>8, <1>13, <1>14, <2>1, <2>3, <2>4
    <2>6. f <= D \/ g <= D
      BY <2>5
    <2>7. QED
      BY <2>4, <2>6
  <1>16. ASSUME NEW k \in 1..M, NEW l \in 1..N, F[k - 1] < D, G[l - 1] < D
         PROVE  ~(buys[k].price < sells[l].price)
    <2>1. PICK p \in Prices, q \in Prices : p = buys[k].price /\ q = sells[l].price
      BY <1>13, <1>14
    <2>2. p \in Nat /\ q \in Nat /\ c \in Nat
      BY <1>1
    <2>3. ~(p < c)
      <3> SUFFICES ASSUME p < c PROVE FALSE
        OBVIOUS
      <3>1. B[c] <= A[p] /\ A[p] \in Nat /\ B[c] \in Nat
        BY <1>4, <1>5
      <3>2. A[p] <= F[k - 1] /\ F[k - 1] \in Nat
        BY <1>13, <2>1
      <3>3. QED
        BY <1>7, <1>16, <3>1, <3>2
    <2>4. ~(c < q)
      <3> SUFFICES ASSUME c < q PROVE FALSE
        OBVIOUS
      <3>1. S[c] <= L[q] /\ L[q] \in Nat /\ S[c] \in Nat
        BY <1>4, <1>5
      <3>2. L[q] <= G[l - 1] /\ G[l - 1] \in Nat
        BY <1>14, <2>1
      <3>3. QED
        BY <1>7, <1>16, <3>1, <3>2
    <2>5. QED
      BY <2>1, <2>2, <2>3, <2>4
  <1>17. QED
    BY <1>2, <1>6, <1>9, <1>12, <1>15, <1>16 DEF Dealt

-----------------------------------------------------------------------------
(* what is left of a level when V is filled from the best order on *)
UnfilledOf(bk, s, p, V) ==
  LET filled == V - Ahead(bk, s, p)
  IN IF filled <= 0 THEN Within(bk, s, p)
     ELSE IF filled >= Within(bk, s, p) THEN 0 ELSE Within(bk, s, p) - filled

Remaining(bk, s, V) == {p \in Priced(bk, s) : UnfilledOf(bk, s, p, V) > 0}

LEMMA UnfilledFacts ==
  ASSUME NEW bk, BookTypes(bk), NEW s \in Sides, NEW p \in Priced(bk, s), NEW V \in Nat
  PROVE  LET a == Ahead(bk, s, p)
             w == Within(bk, s, p)
         IN  /\ UnfilledOf(bk, s, p, V) > 0 <=> V < a + w
             /\ V <= a => UnfilledOf(bk, s, p, V) = w
             /\ a <= V /\ V <= a + w => UnfilledOf(bk, s, p, V) = a + w - V
  <1>1. p \in Prices
    BY DEF Priced
  <1>2. PICK a \in Nat, w \in Nat : a = Ahead(bk, s, p) /\ w = Within(bk, s, p) /\ w > 0
    BY <1>1, AheadFacts, LevelHolds
  <1>3. PICK u : u = UnfilledOf(bk, s, p, V)
    OBVIOUS
  <1>4. u = IF V - a <= 0 THEN w ELSE IF V - a >= w THEN 0 ELSE w - (V - a)
    BY <1>2, <1>3 DEF UnfilledOf
  <1>5. u > 0 <=> V < a + w
    BY <1>2, <1>4
  <1>6. V <= a => u = w
    BY <1>4
  <1>7. a <= V /\ V <= a + w => u = a + w - V
    BY <1>4
  <1>8. QED
    BY <1>2, <1>3, <1>5, <1>6, <1>7

(* The first order left is one of the best level with something left. *)
LEMMA RemainingFacts ==
  ASSUME NEW bk, BookTypes(bk), NEW s \in Sides, NEW V, NEW r, NEW i,
         Rest(Orders(bk, s), r, i, V)
  PROVE  /\ r = <<>> => Remaining(bk, s, V) = {}
         /\ r # <<>> => /\ r[1].price \in Priced(bk, s)
                        /\ Remaining(bk, s, V) =
                             {p \in Priced(bk, s) : ~Before(s, p, r[1].price)}
  <1>1. PICK os \in Seq(OrderSet) : os = Orders(bk, s)
    BY OrdersFacts
  <1>2. PICK N, F : N = Len(os) /\ F = Filled(os) /\ N \in Nat
    OBVIOUS
  <1>3. F \in [0..N -> Nat]
    BY <1>2, FilledFacts
  <1>4. /\ i \in 0..N /\ V \in Nat /\ r \in Seq(OrderSet) /\ Len(r) = N - i
        /\ F[i] <= V
    BY <1>1, <1>2 DEF Rest
  <1>5. \A p \in Priced(bk, s) : p \in Prices
    BY DEF Priced
  <1>6. CASE r = <<>>
    <2>1. i = N
      BY <1>2, <1>4, <1>6
    <2>2. V = F[N]
      BY <1>1, <1>2, <1>6, <2>1 DEF Rest
    <2>3. ASSUME NEW p \in Priced(bk, s) PROVE ~(UnfilledOf(bk, s, p, V) > 0)
      <3>1. PICK a \in Nat, w \in Nat : a = Ahead(bk, s, p) /\ w = Within(bk, s, p)
        BY <1>5, AheadFacts
      <3>2. a + w <= V
        BY <1>1, <1>2, <1>5, <2>2, <3>1, OrdersFacts
      <3>3. ~(V < a + w)
        BY <1>4, <3>2
      <3>4. QED
        BY <1>4, <3>1, <3>3, UnfilledFacts
    <2>4. QED
      BY <1>6, <2>3 DEF Remaining
  <1>7. CASE r # <<>>
    <2>1. Len(r) \in Nat \ {0}
      BY <1>4, <1>7, EmptySeq
    <2>2. i + 1 \in 1..N /\ 1 \in 1..Len(r) /\ (i + 1) - 1 = i
      BY <1>2, <1>4, <2>1
    <2>3. PICK k \in 1..N : k = i + 1 /\ k - 1 = i /\ k \in 0..N
      BY <1>2, <2>2
    <2>4. PICK m : m = r[1].price
      OBVIOUS
    <2>5. m = os[k].price /\ V + r[1].quantity = F[k]
      BY <1>1, <1>2, <1>7, <2>2, <2>3, <2>4 DEF Rest
    <2>6. r[1].quantity \in Nat \ {0}
      <3>1. r[1] \in OrderSet
        BY <1>4, <2>2
      <3>2. QED
        BY <3>1 DEF OrderSet
    <2>7. InPlace(bk, s, os, k)
      BY <1>1, <1>2, OrdersFacts
    <2>8. /\ m \in Priced(bk, s) /\ Ahead(bk, s, m) <= F[i]
          /\ F[k] <= Ahead(bk, s, m) + Within(bk, s, m)
      BY <1>2, <2>3, <2>5, <2>7 DEF InPlace
    <2>9. PICK a \in Nat, w \in Nat : a = Ahead(bk, s, m) /\ w = Within(bk, s, m)
      BY <1>5, <2>8, AheadFacts
    <2>10. a <= V /\ V < a + w
      <3>1. PICK x \in Nat, y \in Nat, q \in Nat \ {0} :
                   x = F[i] /\ y = F[k] /\ q = r[1].quantity
        BY <1>3, <1>4, <2>3, <2>6
      <3>2. a <= x /\ x <= V /\ V + q = y /\ y <= a + w
        BY <1>4, <2>5, <2>8, <2>9, <3>1
      <3>3. QED
        BY <1>4, <3>2
    <2>11. ASSUME NEW p \in Priced(bk, s)
           PROVE  UnfilledOf(bk, s, p, V) > 0 <=> ~Before(s, p, m)
      <3>1. PICK b \in Nat, u \in Nat : b = Ahead(bk, s, p) /\ u = Within(bk, s, p)
        BY <1>5, AheadFacts
      <3>2. UnfilledOf(bk, s, p, V) > 0 <=> V < b + u
        BY <1>4, <3>1, UnfilledFacts
      <3>3. CASE Before(s, p, m)
        <4>1. b + u <= a
          BY <1>5, <2>8, <2>9, <3>1, <3>3, AheadFacts
        <4>2. ~(V < b + u)
          BY <1>4, <2>10, <4>1
        <4>3. QED
          BY <3>2, <3>3, <4>2
      <3>4. CASE p = m
        <4>1. b + u = a + w
          BY <2>9, <3>1, <3>4
        <4>2. ~Before(s, p, m)
          BY <1>5, <3>4, BeforeOrder
        <4>3. QED
          BY <2>10, <3>2, <4>1, <4>2
      <3>5. CASE Before(s, m, p)
        <4>1. a + w <= b
          BY <1>5, <2>8, <2>9, <3>1, <3>5, AheadFacts
        <4>2. V < b + u
          BY <1>4, <2>10, <4>1
        <4>3. ~Before(s, p, m)
          BY <1>5, <2>8, <3>5, BeforeOrder
        <4>4. QED
          BY <3>2, <4>2, <4>3
      <3>6. QED
        BY <1>5, <2>8, <3>3, <3>4, <3>5, BeforeOrder
    <2>12. QED
      BY <1>7, <2>4, <2>8, <2>11 DEF Remaining
  <1>8. QED
    BY <1>6, <1>7

(* A level left, with what is left of it *)
Report(bk, s, V, ls) ==
  [i \in 1..Lesser(Shown, Len(ls)) |-> <<ls[i], UnfilledOf(bk, s, ls[i], V)>>]

(* The levels reported are those with something left: only that at the price *)
(* of the deal is filled in part.                                          *)
LEMMA LeftFacts ==
  ASSUME NEW bk, BookTypes(bk), NEW s \in Sides, NEW c \in Prices, NEW V, NEW r, NEW i,
         Rest(Orders(bk, s), r, i, V),
         Ahead(bk, s, c) <= V, V <= Ahead(bk, s, c) + Within(bk, s, c),
         NEW best, best.price = c, best[s] = Ahead(bk, s, c) + Within(bk, s, c) - V
  PROVE  /\ Left(bk, s, r, best) = Report(bk, s, V, Sorted(s, Remaining(bk, s, V)))
         /\ Left(bk, s, r, best) # <<>> => r # <<>> /\ Left(bk, s, r, best)[1][1] = r[1].price
  <1>1. PICK P \in SUBSET Prices : P = Priced(bk, s)
    BY DEF Priced
  <1>2. PICK R \in SUBSET Prices : R = Remaining(bk, s, V)
    BY DEF Remaining, Priced
  <1>3. PICK ls : ls = Sorted(s, R)
    OBVIOUS
  <1>4. PICK N \in Nat : N = Len(ls)
    BY <1>3, SortedFacts
  <1>5. ls \in Seq(Prices) /\ \A k \in 1..N : ls[k] \in R
    BY <1>3, <1>4, SortedFacts
  <1>6. Shown \in Nat
    BY OrderBookAssumption
  <1>7. PICK K \in Nat : K = Lesser(Shown, N) /\ K <= N
    BY <1>4, <1>6 DEF Lesser
  <1>8. V \in Nat
    BY DEF Rest
  <1>9. ASSUME NEW p \in R
        PROVE  UnfilledOf(bk, s, p, V) = IF p = best.price THEN best[s] ELSE Within(bk, s, p)
    <2>1. p \in Priced(bk, s) /\ p \in Prices /\ UnfilledOf(bk, s, p, V) > 0
      BY <1>2 DEF Remaining
    <2>2. PICK a \in Nat, w \in Nat, b \in Nat, u \in Nat :
                 /\ a = Ahead(bk, s, c) /\ w = Within(bk, s, c)
                 /\ b = Ahead(bk, s, p) /\ u = Within(bk, s, p)
      BY <2>1, AheadFacts
    <2>3. /\ V < b + u
          /\ V <= b => UnfilledOf(bk, s, p, V) = u
          /\ b <= V /\ V <= b + u => UnfilledOf(bk, s, p, V) = b + u - V
      BY <1>8, <2>1, <2>2, UnfilledFacts
    <2>4. CASE p = c
      <3>1. a = b /\ w = u /\ best[s] = a + w - V /\ b <= V /\ V <= b + u
        BY <2>2, <2>4
      <3>2. QED
        BY <2>3, <2>4, <3>1
    <2>5. CASE p # c
      <3>1. ~Before(s, p, c)
        <4> SUFFICES ASSUME Before(s, p, c) PROVE FALSE
          OBVIOUS
        <4>1. b + u <= a
          BY <2>1, <2>2, AheadFacts
        <4>2. a <= V
          BY <2>2
        <4>3. QED
          BY <1>8, <2>3, <4>1, <4>2
      <3>2. Before(s, c, p)
        BY <2>1, <2>5, <3>1, BeforeOrder
      <3>3. a + w <= b
        BY <2>1, <2>2, <3>2, AheadFacts
      <3>4. V <= a + w
        BY <2>2
      <3>5. V <= b
        BY <1>8, <3>3, <3>4
      <3>6. QED
        BY <2>2, <2>3, <2>5, <3>5
    <2>6. QED
      BY <2>4, <2>5
  <1>10. PICK rep : rep = Report(bk, s, V, ls)
    OBVIOUS
  <1>11. rep = [k \in 1..K |-> <<ls[k], IF ls[k] = best.price THEN best[s]
                                        ELSE Within(bk, s, ls[k])>>]
    <2>1. rep = [k \in 1..K |-> <<ls[k], UnfilledOf(bk, s, ls[k], V)>>]
      BY <1>4, <1>7, <1>10 DEF Report
    <2>2. ASSUME NEW k \in 1..K
          PROVE  <<ls[k], UnfilledOf(bk, s, ls[k], V)>> =
                   <<ls[k], IF ls[k] = best.price THEN best[s] ELSE Within(bk, s, ls[k])>>
      <3>1. k \in 1..N
        BY <1>4, <1>7
      <3>2. ls[k] \in R
        BY <1>5, <3>1
      <3>3. QED
        BY <1>9, <3>2
    <2>3. QED
      BY <2>1, <2>2
  <1>12. CASE r = <<>>
    <2>1. Left(bk, s, r, best) = <<>>
      BY <1>12 DEF Left
    <2>2. R = {}
      BY <1>2, <1>12, RemainingFacts
    <2>3. N = 0
      BY <1>3, <1>4, <2>2, SortedFacts, FS_EmptySet
    <2>4. K = 0
      BY <1>4, <1>6, <1>7, <2>3 DEF Lesser
    <2>5. rep = <<>>
      BY <1>11, <2>4
    <2>6. QED
      BY <1>2, <1>3, <1>10, <2>1, <2>5
  <1>13. CASE r # <<>>
    <2>1. PICK m \in P : m = r[1].price
      BY <1>1, <1>13, RemainingFacts
    <2>2. R = {p \in P : ~Before(s, p, m)}
      BY <1>1, <1>2, <1>13, <2>1, RemainingFacts
    <2>3. /\ ls = SubSeq(Sorted(s, P), Rank(s, P, m) + 1, Len(Sorted(s, P)))
          /\ ls # <<>> /\ ls[1] = m
      BY <1>3, <2>2, SortedFrom
    <2>4. Left(bk, s, r, best) = rep
      <3>1. Left(bk, s, r, best) =
              [k \in 1..Lesser(Shown, Len(ls)) |->
                 <<ls[k], IF ls[k] = best.price THEN best[s] ELSE Within(bk, s, ls[k])>>]
        BY <1>1, <1>13, <2>1, <2>3 DEF Left, Levels
      <3>2. QED
        BY <1>4, <1>7, <1>11, <3>1
    <2>5. rep # <<>> => rep[1][1] = m
      <3> SUFFICES ASSUME rep # <<>> PROVE rep[1][1] = m
        OBVIOUS
      <3>1. K # 0
        BY <1>11
      <3>2. 1 \in 1..K
        BY <1>7, <3>1
      <3>3. rep[1][1] = ls[1]
        BY <1>11, <3>2
      <3>4. QED
        BY <2>3, <3>3
    <2>6. QED
      BY <1>2, <1>3, <1>10, <1>13, <2>1, <2>4, <2>5
  <1>14. QED
    BY <1>12, <1>13

-----------------------------------------------------------------------------
(* The status is the one of the book. *)
BookInv == BookTypes(book) /\ (Crossed(book) => status = flushStatus(book))

LEMMA BookInvariant == BookSpec => []BookInv
  <1>1. BookInit => BookInv
    <2> SUFFICES ASSUME BookInit PROVE BookInv
      OBVIOUS
    <2>1. EmptyLevel \in LevelSet /\ EmptyLevel.orders = <<>> /\ EmptyLevel.quantity = 0
      BY DEF EmptyLevel, LevelSet
    <2>2. Len(<<>>) = 0 /\ Sums(<<>>)[0] = 0
      <3>1. <<>> \in Seq(Nat)
        OBVIOUS
      <3>2. QED
        BY <3>1, SumsFacts
    <2>3. BookTypes(book)
      BY <2>1, <2>2 DEF BookInit, BookTypes
    <2>4. Priced(book, "bid") = {}
      BY <2>1 DEF Priced, BookInit, Sides
    <2>5. Len(Levels(book, "bid")) = 0 /\ Levels(book, "bid") \in Seq(Prices)
      BY <2>4, LevelsFacts, FS_EmptySet DEF Sides
    <2>6. ~Crossed(book)
      BY <2>5 DEF Crossed
    <2>7. QED
      BY <2>3, <2>6 DEF BookInv
  <1>2. BookInv /\ [BookNext]_<<book, status>> => BookInv'
    <2> SUFFICES ASSUME BookInv, [BookNext]_<<book, status>> PROVE BookInv'
      OBVIOUS
    <2>1. ASSUME NEW s \in Sides, NEW p \in Prices, NEW q \in Quantities, insertOrder(s, p, q)
          PROVE  BookInv'
      <3>1. BookTypes(book')
        BY <2>1, InsertTypes DEF BookInv
      <3>2. status' = flushStatus(book')
        BY <2>1 DEF insertOrder
      <3>3. QED
        BY <3>1, <3>2 DEF BookInv
    <2>2. CASE UNCHANGED <<book, status>>
      BY <2>2 DEF BookInv
    <2>3. QED
      BY <2>1, <2>2 DEF BookNext
  <1>3. QED
    BY <1>1, <1>2, PTL DEF BookSpec

(* What the auction of a crossed book comes to: the deal at the best price c,  *)
(* and what is left of both sides, i and j orders of which are filled      *)
Outcome(c, i, j) ==
  LET best == PriceInfo(book, c)
      D    == Deal(book, c)
      r    == Matched(Orders(book, "bid"), Orders(book, "ask"))
  IN  /\ status.lpr = c /\ status.cvl = D /\ D \in Nat
      /\ \A p \in Prices : Deal(book, p) <= D
      /\ Possible(book, c)
      /\ Rest(Orders(book, "bid"), r.bid, i, D)
      /\ Rest(Orders(book, "ask"), r.ask, j, D)
      /\ Finished(r.bid, r.ask)
      /\ status.nts = Cardinality(Upto(Orders(book, "bid"), Orders(book, "ask"), D))
      /\ status.bid = Left(book, "bid", r.bid, best)
      /\ status.ask = Left(book, "ask", r.ask, best)

LEMMA AuctionFacts ==
  ASSUME BookInv, Crossed(book)
  PROVE  \E c \in Prices : \E i, j : Outcome(c, i, j)
  <1>1. BookTypes(book) /\ status = flushStatus(book)
    BY DEF BookInv
  <1>2. PICK c \in Prices :
               /\ Optimal(book) = PriceInfo(book, c) /\ Possible(book, c)
               /\ Optimal(book).price = c /\ Optimal(book).deal = Deal(book, c)
               /\ \A p \in Prices : Deal(book, p) <= Deal(book, c)
    BY <1>1, OptimalIsBest
  <1>3. PICK best, r : /\ best = Optimal(book)
                       /\ r = Matched(Orders(book, "bid"), Orders(book, "ask"))
    OBVIOUS
  <1>4. /\ status.nts = r.trades /\ status.cvl = best.deal /\ status.lpr = best.price
        /\ status.bid = Left(book, "bid", r.bid, best)
        /\ status.ask = Left(book, "ask", r.ask, best)
    BY <1>1, <1>3 DEF flushStatus
  <1>5. PICK D : D = Deal(book, c)
    OBVIOUS
  <1>6. Orders(book, "bid") \in Seq(OrderSet) /\ Orders(book, "ask") \in Seq(OrderSet)
    BY <1>1, OrdersFacts DEF Sides
  <1>7. Dealt(Orders(book, "bid"), Orders(book, "ask"), D)
    BY <1>1, <1>2, <1>5, DealMatches
  <1>8. /\ \E i : Rest(Orders(book, "bid"), r.bid, i, D)
        /\ \E j : Rest(Orders(book, "ask"), r.ask, j, D)
        /\ Finished(r.bid, r.ask)
        /\ r.trades = Cardinality(Upto(Orders(book, "bid"), Orders(book, "ask"), D))
    BY <1>3, <1>6, <1>7, MatchedFacts
  <1>9. PICK i, j : /\ Rest(Orders(book, "bid"), r.bid, i, D)
                    /\ Rest(Orders(book, "ask"), r.ask, j, D)
    BY <1>8
  <1>10. D \in Nat
    BY <1>7 DEF Dealt
  <1>11. best = PriceInfo(book, c) /\ best.price = c /\ best.deal = D
    BY <1>2, <1>3, <1>5
  <1>12. \A p \in Prices : Deal(book, p) <= D
    BY <1>2, <1>5
  <1>13. Outcome(c, i, j)
    BY <1>2, <1>3, <1>4, <1>5, <1>8, <1>9, <1>10, <1>11, <1>12 DEF Outcome
  <1>14. QED
    BY <1>13

(* The auction deals the largest volume: no price, of an order or between two, *)
(* lets more be dealt than the one that the search finds, whatever orders   *)
(* were inserted.                                                          *)
THEOREM AuctionDealsMost == BookSpec => []MaximalDeal
  <1>1. BookInv => MaximalDeal
    <2> SUFFICES ASSUME BookInv, Crossed(book)
                 PROVE  /\ status.lpr \in Prices
                        /\ status.cvl = DealAt(status.lpr)
                        /\ \A p \in Prices : DealAt(p) <= status.cvl
      BY DEF MaximalDeal
    <2>1. \A p : DealAt(p) = Deal(book, p)
      BY DEF DealAt, Deal
    <2>2. PICK c \in Prices : /\ status.lpr = c /\ status.cvl = Deal(book, c)
                              /\ \A p \in Prices : Deal(book, p) <= Deal(book, c)
      BY AuctionFacts DEF Outcome
    <2>3. QED
      BY <2>1, <2>2
  <1>2. QED
    BY <1>1, BookInvariant, PTL

(* The matching loop, which knows nothing of the price found, trades the volume *)
(* of the deal: it counts one trade for each volume up to it at which an    *)
(* order of either side is filled.                                         *)
THEOREM TradesComeToTheDeal == BookSpec => []TradesAddUp
  <1>1. BookInv => TradesAddUp
    <2> SUFFICES ASSUME BookInv, Crossed(book)
                 PROVE  status.nts =
                          Cardinality({v \in Cuts("bid") \cup Cuts("ask") : v <= status.cvl})
      BY DEF TradesAddUp
    <2>1. PICK c \in Prices :
                 /\ status.cvl = Deal(book, c)
                 /\ status.nts = Cardinality(Upto(Orders(book, "bid"), Orders(book, "ask"),
                                                  Deal(book, c)))
      BY AuctionFacts DEF Outcome
    <2>2. \A s : Cuts(s) = CutsOf(Orders(book, s))
      BY DEF Cuts, CutsOf
    <2>3. QED
      BY <2>1, <2>2 DEF Upto
  <1>2. QED
    BY <1>1, BookInvariant, PTL

(* The report shows what the matching leaves: the best levels with something  *)
(* left of them, filled in part at the price of the deal only, and no two    *)
(* that still meet.                                                        *)
THEOREM ReportShowsWhatIsLeft == BookSpec => []LeftoversShown
  <1>1. BookInv => LeftoversShown
    <2> SUFFICES ASSUME BookInv, Crossed(book)
                 PROVE  /\ \A s \in Sides :
                             LET ls == Sorted(s, {p \in Priced(book, s) : Unfilled(s, p) > 0})
                             IN status[s] = [i \in 1..Lesser(Shown, Len(ls)) |->
                                               <<ls[i], Unfilled(s, ls[i])>>]
                        /\ status.bid # <<>> /\ status.ask # <<>> =>
                             status.bid[1][1] < status.ask[1][1]
      BY DEF LeftoversShown
    <2>1. PICK c, i, j : c \in Prices /\ Outcome(c, i, j)
      BY AuctionFacts
    <2>2. PICK best, D, r : /\ best = PriceInfo(book, c) /\ D = Deal(book, c)
                            /\ r = Matched(Orders(book, "bid"), Orders(book, "ask"))
      OBVIOUS
    <2>3. BookTypes(book)
      BY DEF BookInv
    <2>4. /\ best.price = c
          /\ best["bid"] = Ahead(book, "bid", c) + Within(book, "bid", c) - D
          /\ best["ask"] = Ahead(book, "ask", c) + Within(book, "ask", c) - D
      BY <2>2 DEF PriceInfo, Deal
    <2>5. ASSUME NEW s \in Sides
          PROVE  Ahead(book, s, c) <= D /\ D <= Ahead(book, s, c) + Within(book, s, c)
      BY <2>1, <2>2, <2>3, DealSplits DEF Outcome
    <2>6. "bid" \in Sides /\ "ask" \in Sides /\ Sides = {"bid", "ask"}
      BY DEF Sides
    <2>7. /\ Rest(Orders(book, "bid"), r.bid, i, D) /\ Rest(Orders(book, "ask"), r.ask, j, D)
          /\ Finished(r.bid, r.ask) /\ status.cvl = D
          /\ status.bid = Left(book, "bid", r.bid, best)
          /\ status.ask = Left(book, "ask", r.ask, best)
      BY <2>1, <2>2 DEF Outcome
    <2>8. /\ status.bid = Report(book, "bid", D, Sorted("bid", Remaining(book, "bid", D)))
          /\ status.bid # <<>> => r.bid # <<>> /\ status.bid[1][1] = r.bid[1].price
      BY <2>1, <2>3, <2>4, <2>5, <2>6, <2>7, LeftFacts
    <2>9. /\ status.ask = Report(book, "ask", D, Sorted("ask", Remaining(book, "ask", D)))
          /\ status.ask # <<>> => r.ask # <<>> /\ status.ask[1][1] = r.ask[1].price
      BY <2>1, <2>3, <2>4, <2>5, <2>6, <2>7, LeftFacts
    <2>10. status.bid # <<>> /\ status.ask # <<>> => status.bid[1][1] < status.ask[1][1]
      BY <2>7, <2>8, <2>9 DEF Finished
    <2>11. \A s, p : Unfilled(s, p) = UnfilledOf(book, s, p, D)
      BY <2>7 DEF Unfilled, UnfilledOf
    <2>12. ASSUME NEW s \in Sides
           PROVE  LET ls == Sorted(s, {p \in Priced(book, s) : Unfilled(s, p) > 0})
                  IN status[s] = [k \in 1..Lesser(Shown, Len(ls)) |->
                                    <<ls[k], Unfilled(s, ls[k])>>]
      <3>1. Remaining(book, s, D) = {p \in Priced(book, s) : Unfilled(s, p) > 0}
        BY <2>11 DEF Remaining
      <3>2. status[s] = Report(book, s, D, Sorted(s, Remaining(book, s, D)))
        BY <2>6, <2>8, <2>9
      <3>3. \A ls : Report(book, s, D, ls) =
              [k \in 1..Lesser(Shown, Len(ls)) |-> <<ls[k], Unfilled(s, ls[k])>>]
        BY <2>11 DEF Report
      <3>4. QED
        BY <3>1, <3>2, <3>3
    <2>13. QED
      BY <2>10, <2>12
  <1>2. QED
    BY <1>1, BookInvariant, PTL
=============================================================================
