------------------------ MODULE SimpleBuffer_proofs ------------------------
(***************************************************************************)
(* Proofs about the two buffers, SimpleBuffer and ServerBuffer, for every  *)
(* initial capacity, every alphabet and every set of payloads.             *)
(***************************************************************************)
EXTENDS SimpleBuffer, ServerBuffer, SequenceTheorems, WellFoundedInduction, TLAPS

IsRecord(b) == b = [mem |-> b.mem, bufferSize_ |-> b.bufferSize_,
                    readPos_ |-> b.readPos_, writePos_ |-> b.writePos_]

(* A buffer whose positions are inside its block and whose unread bytes     *)
(* have all been written.                                                  *)
WellFormed(b) ==
  /\ IsRecord(b)
  /\ b.mem \in [0..(b.bufferSize_ - 1) -> Bytes \cup {Junk}]
  /\ b.bufferSize_ \in Nat /\ b.readPos_ \in Nat /\ b.writePos_ \in Nat
  /\ b.readPos_ <= b.writePos_
  /\ b.writePos_ <= b.bufferSize_
  /\ \A i \in b.readPos_..(b.writePos_ - 1) : b.mem[i] \in Bytes

(* There is room for n bytes behind writePos_. *)
HasRoom(b, n) == b.bufferSize_ - b.writePos_ >= n

(* Two buffers hold the same unread bytes. *)
SameBytes(c, b) ==
  /\ size(c) = size(b)
  /\ \A i \in 0..(size(b) - 1) : c.mem[c.readPos_ + i] = b.mem[b.readPos_ + i]

-----------------------------------------------------------------------------
CopyFront(mem, r, n, rest, t) ==
  [i \in 0..(t - 1) |-> IF i < n THEN mem[i + r] ELSE rest[i]]

FrontBuffer(b, rest, t) ==
  [mem |-> CopyFront(b.mem, b.readPos_, size(b), rest, t),
   bufferSize_ |-> t, readPos_ |-> 0, writePos_ |-> size(b)]

(* Copying n unread bytes from offset r to the front of a block of t bytes, *)
(* whatever is behind them: memmove in compact, memcpy in ensureCapacity.   *)
LEMMA CopyToFront ==
  ASSUME NEW r \in Nat, NEW n \in Nat, NEW w \in Nat, NEW s \in Nat,
         NEW t \in Nat, w = r + n, w <= s, n <= t,
         NEW mem \in [0..(s - 1) -> Bytes \cup {Junk}],
         NEW rest \in [0..(t - 1) -> Bytes \cup {Junk}],
         \A i \in r..(w - 1) : mem[i] \in Bytes
  PROVE  /\ CopyFront(mem, r, n, rest, t) \in [0..(t - 1) -> Bytes \cup {Junk}]
         /\ \A i \in 0..(n - 1) : CopyFront(mem, r, n, rest, t)[i] = mem[r + i]
         /\ \A i \in 0..(n - 1) : CopyFront(mem, r, n, rest, t)[i] \in Bytes
  <1> DEFINE m == CopyFront(mem, r, n, rest, t)
  <1>1. \A i \in 0..(n - 1) : i \in 0..(t - 1) /\ i + r \in r..(w - 1) /\ i + r = r + i
    OBVIOUS
  <1>2. \A i \in 0..(n - 1) : m[i] = mem[r + i] /\ m[i] \in Bytes
    BY <1>1 DEF CopyFront
  <1>3. \A i \in 0..(t - 1) : i < n => i \in 0..(n - 1)
    OBVIOUS
  <1>4. m \in [0..(t - 1) -> Bytes \cup {Junk}]
    BY <1>2, <1>3 DEF CopyFront
  <1>5. QED
    BY <1>2, <1>4

(* A buffer made of such a block is well-formed and holds the same bytes. *)
LEMMA CopiedBuffer ==
  ASSUME NEW b, WellFormed(b), NEW t \in Nat, size(b) <= t,
         NEW rest \in [0..(t - 1) -> Bytes \cup {Junk}]
  PROVE  /\ WellFormed(FrontBuffer(b, rest, t))
         /\ SameBytes(FrontBuffer(b, rest, t), b)
         /\ FrontBuffer(b, rest, t).readPos_ = 0
         /\ FrontBuffer(b, rest, t).bufferSize_ = t
  <1> DEFINE c == FrontBuffer(b, rest, t)
  <1>m. PICK mem : mem = b.mem
    OBVIOUS
  <1>1. PICK r \in Nat, n \in Nat, w \in Nat, s \in Nat :
          /\ r = b.readPos_ /\ w = b.writePos_ /\ s = b.bufferSize_ /\ mem = b.mem
          /\ n = size(b) /\ w = r + n /\ w <= s
    BY <1>m DEF WellFormed, size
  <1>2. /\ mem \in [0..(s - 1) -> Bytes \cup {Junk}]
        /\ \A i \in r..(w - 1) : mem[i] \in Bytes
        /\ n <= t
    BY <1>1, Zenon DEF WellFormed
  <1> DEFINE m == CopyFront(mem, r, n, rest, t)
  <1>3. /\ m \in [0..(t - 1) -> Bytes \cup {Junk}]
        /\ \A i \in 0..(n - 1) : m[i] = mem[r + i]
        /\ \A i \in 0..(n - 1) : m[i] \in Bytes
    <2>1. w = r + n /\ w <= s
      BY <1>1
    <2>2. QED
      BY <1>2, <2>1, CopyToFront, Zenon
  <1>4. /\ c.mem = m /\ c.bufferSize_ = t /\ c.readPos_ = 0 /\ c.writePos_ = n
        /\ IsRecord(c)
    BY <1>1 DEF IsRecord, FrontBuffer
  <1> HIDE DEF m, c
  <1>6. WellFormed(c)
    <2>1. c.mem \in [0..(c.bufferSize_ - 1) -> Bytes \cup {Junk}]
      BY <1>3, <1>4
    <2>2. \A i \in c.readPos_..(c.writePos_ - 1) : c.mem[i] \in Bytes
      BY <1>3, <1>4
    <2>3. /\ c.bufferSize_ \in Nat /\ c.readPos_ \in Nat /\ c.writePos_ \in Nat
          /\ c.readPos_ <= c.writePos_ /\ c.writePos_ <= c.bufferSize_
      BY <1>2, <1>4
    <2>4. QED
      BY <1>4, <2>1, <2>2, <2>3, Zenon DEF WellFormed
  <1>7. SameBytes(c, b)
    <2>1. size(c) = size(b)
      <3>1. size(c) = n
        BY <1>4 DEF size
      <3>2. QED
        BY <1>1, <3>1
    <2>2. \A i \in 0..(n - 1) : c.mem[c.readPos_ + i] = b.mem[b.readPos_ + i]
      <3>1. TAKE i \in 0..(n - 1)
      <3>2. c.readPos_ + i = i
        BY <1>4
      <3>3. QED
        BY <1>1, <1>3, <1>4, <3>2
    <2>3. QED
      BY <1>1, <2>1, <2>2 DEF SameBytes
  <1>8. QED
    BY <1>4, <1>6, <1>7 DEF c

(* Sliding keeps the block and the unread bytes and frees the front. *)
LEMMA CompactKeeps ==
  ASSUME NEW b, WellFormed(b)
  PROVE  /\ WellFormed(compact(b))
         /\ SameBytes(compact(b), b)
         /\ compact(b).readPos_ = 0
         /\ compact(b).bufferSize_ = b.bufferSize_
  <1>1. CASE b.readPos_ = 0
    <2>1. compact(b) = b
      BY <1>1 DEF compact
    <2>2. QED
      BY <1>1, <2>1 DEF SameBytes
  <1>2. CASE b.readPos_ # 0
    <2>1. compact(b) = FrontBuffer(b, b.mem, b.bufferSize_)
      <3>1. DOMAIN b.mem = 0..(b.bufferSize_ - 1)
        BY DEF WellFormed
      <3>2. b = [mem |-> b.mem, bufferSize_ |-> b.bufferSize_,
                 readPos_ |-> b.readPos_, writePos_ |-> b.writePos_]
        BY DEF WellFormed, IsRecord
      <3>3. QED
        BY <1>2, <3>1, <3>2 DEF compact, FrontBuffer, CopyFront
    <2>2. b.bufferSize_ \in Nat /\ size(b) <= b.bufferSize_
      BY DEF WellFormed, size
    <2>3. b.mem \in [0..(b.bufferSize_ - 1) -> Bytes \cup {Junk}]
      BY DEF WellFormed
    <2>4. QED
      BY <2>1, <2>2, <2>3, CopiedBuffer
  <1>3. QED
    BY <1>1, <1>2

(* Growing keeps the unread bytes, makes room for len more and, when        *)
(* neither the tail nor sliding would do, at most doubles what is needed.   *)
LEMMA GrowKeeps ==
  ASSUME NEW b, NEW len \in Nat, WellFormed(b),
         b.bufferSize_ < size(b) + len
  PROVE  /\ WellFormed(grow(b, len))
         /\ SameBytes(grow(b, len), b)
         /\ grow(b, len).readPos_ = 0
         /\ grow(b, len).bufferSize_ - size(b) >= len
         /\ grow(b, len).bufferSize_ <= 2 * (size(b) + len)
  <1> DEFINE newSize == Larger(b.bufferSize_ * 2, b.writePos_ + len)
  <1>1. PICK r \in Nat, w \in Nat, s \in Nat :
          /\ r = b.readPos_ /\ w = b.writePos_ /\ s = b.bufferSize_
          /\ r <= w /\ w <= s
    BY DEF WellFormed
  <1>2. size(b) = w - r
    BY <1>1 DEF size
  <1>3. /\ newSize \in Nat /\ size(b) <= newSize
        /\ newSize - size(b) >= len /\ newSize <= 2 * (size(b) + len)
    BY <1>1, <1>2 DEF Larger
  <1>4. grow(b, len) = FrontBuffer(b, Block(newSize), newSize)
    BY DEF grow, Block, FrontBuffer, CopyFront
  <1>5. Block(newSize) \in [0..(newSize - 1) -> Bytes \cup {Junk}]
    BY DEF Block
  <1> HIDE DEF newSize
  <1>6. /\ WellFormed(grow(b, len))
        /\ SameBytes(grow(b, len), b)
        /\ grow(b, len).readPos_ = 0
        /\ grow(b, len).bufferSize_ = newSize
    BY <1>3, <1>4, <1>5, CopiedBuffer
  <1>7. QED
    BY <1>3, <1>6

(* ensureCapacity makes room, keeps the unread bytes, never moves readPos_  *)
(* forward, and replaces the block only when the unread bytes and the new   *)
(* ones do not fit into it.                                                *)
LEMMA EnsureMakesRoom ==
  ASSUME NEW b, NEW len \in Nat, WellFormed(b)
  PROVE  LET c == ensureCapacity(b, len) IN
         /\ WellFormed(c)
         /\ SameBytes(c, b)
         /\ HasRoom(c, len)
         /\ c = b \/ c.readPos_ = 0
         /\ c.bufferSize_ = b.bufferSize_ \/ c.bufferSize_ <= 2 * (size(b) + len)
  <1> DEFINE available == b.bufferSize_ - b.writePos_
  <1>1. CASE available >= len
    BY <1>1 DEF ensureCapacity, SameBytes, HasRoom
  <1>2. CASE ~(available >= len) /\ b.readPos_ + available >= len
    <2>1. ensureCapacity(b, len) = compact(b)
      BY <1>2 DEF ensureCapacity
    <2>2. HasRoom(compact(b), len)
      <3>1. compact(b).writePos_ = size(b)
        BY CompactKeeps DEF SameBytes, size, WellFormed
      <3>2. QED
        BY <1>2, <3>1, CompactKeeps DEF size, WellFormed, HasRoom
    <2>3. QED
      BY <2>1, <2>2, CompactKeeps
  <1>3. CASE ~(available >= len) /\ ~(b.readPos_ + available >= len)
    <2>1. ensureCapacity(b, len) = grow(b, len)
      BY <1>3 DEF ensureCapacity
    <2>2. b.bufferSize_ < size(b) + len
      BY <1>3 DEF size, WellFormed
    <2>3. grow(b, len).writePos_ = size(b)
      BY <2>2, GrowKeeps DEF SameBytes, size, WellFormed
    <2>4. HasRoom(grow(b, len), len)
      BY <2>2, <2>3, GrowKeeps DEF HasRoom
    <2>5. QED
      BY <2>1, <2>2, <2>4, GrowKeeps
  <1>4. QED
    BY <1>1, <1>2, <1>3

(* The bytes of a buffer in the order in which the socket gets them. *)
Unread(b) == [i \in 1..size(b) |-> b.mem[b.readPos_ + i - 1]]

(* The unread bytes of a well-formed buffer are bytes. *)
LEMMA UnreadType ==
  ASSUME NEW b, WellFormed(b)
  PROVE  Unread(b) \in Seq(Bytes) /\ Len(Unread(b)) = size(b) /\ size(b) \in Nat
  <1>1. PICK n \in Nat : n = size(b)
    BY DEF size, WellFormed
  <1>2. \A i \in 1..n : b.readPos_ + i - 1 \in b.readPos_..(b.writePos_ - 1)
    BY <1>1 DEF size, WellFormed
  <1>3. \A i \in 1..n : b.mem[b.readPos_ + i - 1] \in Bytes
    BY <1>2 DEF WellFormed
  <1>4. QED
    BY <1>1, <1>3 DEF Unread

StartsAndGoesOn(u, s, t, m, n) ==
  /\ m = Len(s) /\ n = Len(t) /\ Len(u) = m + n
  /\ \A i \in 1..m : u[i] = s[i]
  /\ \A i \in 1..n : u[m + i] = t[i]

(* A sequence that starts with s, goes on with t and has no more is s \o t. *)
LEMMA ConcatIs ==
  ASSUME NEW S, NEW s \in Seq(S), NEW t \in Seq(S), NEW u \in Seq(S),
         NEW m \in Nat, NEW n \in Nat, StartsAndGoesOn(u, s, t, m, n)
  PROVE  u = s \o t
  <1> USE DEF StartsAndGoesOn
  <1>1. s \o t \in Seq(S) /\ Len(s \o t) = m + n
    OBVIOUS
  <1>2. \A i \in 1..(m + n) : u[i] = (s \o t)[i]
    <2>1. TAKE i \in 1..(m + n)
    <2>2. CASE i <= m
      BY <2>2
    <2>3. CASE i > m
      <3>1. i - m \in 1..n /\ m + (i - m) = i
        BY <2>3
      <3>2. (s \o t)[i] = t[i - m]
        BY <2>3
      <3>3. QED
        BY <3>1, <3>2
    <2>4. QED
      BY <2>2, <2>3
  <1>3. QED
    BY <1>1, <1>2, SeqEqual

(* A sequence that is another one without its first n elements. *)
LEMMA TailIs ==
  ASSUME NEW S, NEW s \in Seq(S), NEW u \in Seq(S), NEW m \in Nat, NEW n \in Nat,
         Len(s) = m, n <= m, Len(u) = m - n,
         \A i \in 1..(m - n) : u[i] = s[n + i]
  PROVE  u = SubSeq(s, n + 1, Len(s))
  <1> DEFINE t == SubSeq(s, n + 1, m)
  <1>1. t \in Seq(S) /\ Len(t) = m - n
    OBVIOUS
  <1>2. \A i \in 1..(m - n) : t[i] = s[n + i]
    OBVIOUS
  <1>3. QED
    BY <1>1, <1>2, SeqEqual

(* Buffers with the same unread bytes show the socket the same sequence. *)
LEMMA SameUnread ==
  ASSUME NEW b, NEW c, WellFormed(b), WellFormed(c), SameBytes(c, b)
  PROVE  Unread(c) = Unread(b)
  <1>1. \A i \in 1..size(b) : i - 1 \in 0..(size(b) - 1)
    BY DEF size, WellFormed
  <1>2. \A i \in 1..size(b) : c.mem[c.readPos_ + i - 1] = b.mem[b.readPos_ + i - 1]
    BY <1>1 DEF SameBytes, WellFormed
  <1>3. QED
    BY <1>2 DEF Unread, SameBytes

(* memcpy of data to offset w of a block. *)
Put(mem, w, data, n) ==
  [i \in DOMAIN mem |-> IF i \in w..(w + n - 1) THEN data[i - w + 1] ELSE mem[i]]

(* memcpy into the room behind writePos_ appends the payload. *)
LEMMA AppendedAppends ==
  ASSUME NEW b, NEW data \in Seq(Bytes), WellFormed(b),
         HasRoom(b, Len(data))
  PROVE  /\ WellFormed(appended(b, data))
         /\ Unread(appended(b, data)) = Unread(b) \o data
         /\ appended(b, data).readPos_ = b.readPos_
         /\ appended(b, data).bufferSize_ = b.bufferSize_
         /\ size(appended(b, data)) = size(b) + Len(data)
  <1> DEFINE c == appended(b, data)
  <1>0. PICK n \in Nat : n = Len(data) /\ data \in [1..n -> Bytes]
    OBVIOUS
  <1>m. PICK mem : mem = b.mem
    OBVIOUS
  <1>1. PICK r \in Nat, k \in Nat, w \in Nat, s \in Nat :
          /\ r = b.readPos_ /\ w = b.writePos_ /\ s = b.bufferSize_ /\ mem = b.mem
          /\ k = size(b) /\ w = r + k /\ w + n <= s
    BY <1>m, <1>0, SMTT(20) DEF WellFormed, size, HasRoom
  <1>2. /\ mem \in [0..(s - 1) -> Bytes \cup {Junk}]
        /\ \A i \in r..(w - 1) : mem[i] \in Bytes
    BY <1>1, Zenon DEF WellFormed
  <1> DEFINE m == Put(mem, w, data, n)
  <1>3. /\ m \in [0..(s - 1) -> Bytes \cup {Junk}]
        /\ \A i \in 0..(w - 1) : m[i] = mem[i]
        /\ \A i \in 1..n : m[w + i - 1] = data[i]
    <2>1. w + n <= s /\ data \in [1..n -> Bytes]
      BY <1>0, <1>1
    <2>2. \A i \in w..(w + n - 1) : i - w + 1 \in 1..n
      OBVIOUS
    <2>3. m \in [0..(s - 1) -> Bytes \cup {Junk}]
      BY <1>2, <2>1, <2>2 DEF Put
    <2>4. \A i \in 0..(w - 1) : m[i] = mem[i]
      BY <1>2, <2>1 DEF Put
    <2>5. ASSUME NEW i \in 1..n PROVE m[w + i - 1] = data[i]
      <3>1. w + i - 1 \in w..(w + n - 1) /\ (w + i - 1) - w + 1 = i /\ w + i - 1 \in 0..(s - 1)
        BY <2>1
      <3>2. QED
        BY <1>2, <3>1 DEF Put
    <2>6. QED
      BY <2>3, <2>4, <2>5
  <1>4. /\ c.mem = m /\ c.bufferSize_ = s /\ c.readPos_ = r /\ c.writePos_ = w + n
        /\ IsRecord(c)
    <2>1. b = [mem |-> mem, bufferSize_ |-> s, readPos_ |-> r, writePos_ |-> w]
      BY <1>1 DEF WellFormed, IsRecord
    <2>2. Len(data) = n
      BY <1>0
    <2>3. appended(b, data) = [b EXCEPT !.mem = m, !.writePos_ = w + n]
      BY <1>1, <2>2 DEF appended, Put
    <2> HIDE DEF m
    <2>4. QED
      BY <2>1, <2>3 DEF IsRecord
  <1> HIDE DEF m, c
  <1>5. \A i \in w..(w + n - 1) : m[i] \in Bytes
    <2>1. TAKE i \in w..(w + n - 1)
    <2>2. i - w + 1 \in 1..n /\ w + (i - w + 1) - 1 = i
      OBVIOUS
    <2>3. QED
      BY <1>0, <1>3, <2>2
  <1>6. WellFormed(c)
    <2>1. c.mem \in [0..(c.bufferSize_ - 1) -> Bytes \cup {Junk}]
      BY <1>3, <1>4
    <2>2. \A i \in r..(w + n - 1) : m[i] \in Bytes
      <3>1. \A i \in r..(w + n - 1) : i \in w..(w + n - 1) \/ (i \in r..(w - 1) /\ i \in 0..(w - 1))
        OBVIOUS
      <3>2. QED
        BY <1>2, <1>3, <1>5, <3>1
    <2>3. \A i \in c.readPos_..(c.writePos_ - 1) : c.mem[i] \in Bytes
      BY <1>4, <2>2
    <2>4. /\ c.bufferSize_ \in Nat /\ c.readPos_ \in Nat /\ c.writePos_ \in Nat
          /\ c.readPos_ <= c.writePos_ /\ c.writePos_ <= c.bufferSize_
      BY <1>1, <1>2, <1>4
    <2>5. QED
      BY <1>4, <2>1, <2>3, <2>4, Zenon DEF WellFormed
  <1>7. size(c) = k + n
    BY <1>1, <1>4 DEF size
  <1>8. Unread(c) = Unread(b) \o data
    <2>0. w = r + k
      BY <1>1
    <2>1. Unread(b) \in Seq(Bytes) /\ Len(Unread(b)) = k
      BY <1>1, UnreadType
    <2>2. Unread(c) \in Seq(Bytes) /\ Len(Unread(c)) = k + n
      BY <1>6, <1>7, UnreadType
    <2>3. \A i \in 1..k : Unread(c)[i] = Unread(b)[i]
      <3>0. TAKE i \in 1..k
      <3>1. i \in 1..(k + n) /\ r + i - 1 \in 0..(w - 1)
        BY <2>0
      <3>2. Unread(c)[i] = m[r + i - 1] /\ Unread(b)[i] = mem[r + i - 1]
        BY <1>1, <1>4, <1>7, <3>1 DEF Unread
      <3>3. QED
        BY <1>3, <3>1, <3>2
    <2>4. \A i \in 1..n : Unread(c)[k + i] = data[i]
      <3>0. TAKE i \in 1..n
      <3>1. k + i \in 1..(k + n) /\ r + (k + i) - 1 = w + i - 1
        BY <2>0
      <3>2. Unread(c)[k + i] = m[r + (k + i) - 1]
        BY <1>4, <1>7, <3>1 DEF Unread
      <3>3. QED
        BY <1>3, <3>1, <3>2
    <2>5. n = Len(data)
      BY <1>0
    <2>6. QED
      <3>1. StartsAndGoesOn(Unread(c), Unread(b), data, k, n)
        BY <2>1, <2>2, <2>3, <2>4, <2>5, Zenon DEF StartsAndGoesOn
      <3>2. QED
        BY <2>1, <2>2, <3>1, ConcatIs
  <1>9. QED
    BY <1>0, <1>1, <1>4, <1>6, <1>7, <1>8 DEF c

(* Moving readPos_ forward by n drops the first n unread bytes. *)
LEMMA ReadDrops ==
  ASSUME NEW b, NEW c, NEW n \in Nat, WellFormed(b), n <= size(b),
         c = [b EXCEPT !.readPos_ = b.readPos_ + n]
  PROVE  /\ WellFormed(c)
         /\ size(c) = size(b) - n
         /\ c.bufferSize_ = b.bufferSize_
         /\ Unread(c) = SubSeq(Unread(b), n + 1, Len(Unread(b)))
  <1>m. PICK mem : mem = b.mem
    OBVIOUS
  <1>1. PICK r \in Nat, k \in Nat, w \in Nat, s \in Nat :
          /\ r = b.readPos_ /\ w = b.writePos_ /\ s = b.bufferSize_ /\ mem = b.mem
          /\ k = size(b) /\ w = r + k /\ w <= s /\ n <= k
    BY <1>m DEF WellFormed, size
  <1>2. /\ mem \in [0..(s - 1) -> Bytes \cup {Junk}]
        /\ \A i \in r..(w - 1) : mem[i] \in Bytes
    BY <1>1, Zenon DEF WellFormed
  <1>3. /\ c.mem = mem /\ c.bufferSize_ = s /\ c.readPos_ = r + n /\ c.writePos_ = w
        /\ IsRecord(c)
    <2>1. b = [mem |-> mem, bufferSize_ |-> s, readPos_ |-> r, writePos_ |-> w]
      BY <1>1 DEF WellFormed, IsRecord
    <2>2. QED
      BY <1>1, <2>1 DEF IsRecord
  <1>4. WellFormed(c)
    <2>1. c.mem \in [0..(c.bufferSize_ - 1) -> Bytes \cup {Junk}]
      BY <1>2, <1>3, Zenon
    <2>2. \A i \in (r + n)..(w - 1) : i \in r..(w - 1)
      OBVIOUS
    <2>3. \A i \in c.readPos_..(c.writePos_ - 1) : c.mem[i] \in Bytes
      BY <1>2, <1>3, <2>2, Zenon
    <2>4. /\ c.bufferSize_ \in Nat /\ c.readPos_ \in Nat /\ c.writePos_ \in Nat
          /\ c.readPos_ <= c.writePos_ /\ c.writePos_ <= c.bufferSize_
      BY <1>1, <1>3
    <2>5. QED
      BY <1>3, <2>1, <2>3, <2>4, Zenon DEF WellFormed
  <1>5. size(c) = k - n
    BY <1>1, <1>3 DEF size
  <1>6. Unread(c) = SubSeq(Unread(b), n + 1, Len(Unread(b)))
    <2>1. Unread(b) \in Seq(Bytes) /\ Len(Unread(b)) = k
      BY <1>1, UnreadType
    <2>2. Unread(c) \in Seq(Bytes) /\ Len(Unread(c)) = k - n
      BY <1>4, <1>5, UnreadType
    <2>3. n <= k
      BY <1>1
    <2>4. ASSUME NEW i \in 1..(k - n) PROVE Unread(c)[i] = Unread(b)[n + i]
      <3>1. n + i \in 1..k /\ (r + n) + i - 1 = r + (n + i) - 1
        BY <2>3
      <3>2. Unread(c)[i] = mem[(r + n) + i - 1] /\ Unread(b)[n + i] = mem[r + (n + i) - 1]
        BY <1>1, <1>3, <1>5, <3>1 DEF Unread
      <3>3. QED
        BY <3>1, <3>2
    <2>5. QED
      BY <2>1, <2>2, <2>3, <2>4, TailIs
  <1>7. QED
    BY <1>1, <1>3, <1>4, <1>5, <1>6

(* advance drops the first n unread bytes, keeps the block, and never       *)
(* leaves readPos_ beyond the middle of it.                                *)
LEMMA DroppedDrops ==
  ASSUME NEW b, NEW n \in Nat, WellFormed(b), n <= size(b)
  PROVE  LET d == dropped(b, n) IN
         /\ WellFormed(d)
         /\ size(d) = size(b) - n
         /\ d.bufferSize_ = b.bufferSize_
         /\ 2 * d.readPos_ <= d.bufferSize_
         /\ Unread(d) = SubSeq(Unread(b), n + 1, Len(Unread(b)))
  <1> DEFINE c == [b EXCEPT !.readPos_ = b.readPos_ + n]
             d == dropped(b, n)
  <1>1. /\ WellFormed(c)
        /\ size(c) = size(b) - n
        /\ c.bufferSize_ = b.bufferSize_
        /\ Unread(c) = SubSeq(Unread(b), n + 1, Len(Unread(b)))
    BY ReadDrops
  <1>2. d = IF noData(c) THEN [c EXCEPT !.readPos_ = 0, !.writePos_ = 0]
            ELSE IF c.readPos_ > c.bufferSize_ \div 2 THEN compact(c) ELSE c
    BY DEF dropped
  <1> HIDE DEF c, d
  <1>3. WellFormed(d) /\ SameBytes(d, c) /\ d.bufferSize_ = c.bufferSize_
        /\ 2 * d.readPos_ <= d.bufferSize_
    <2>1. CASE noData(c)
      <3>1. /\ d.mem = c.mem /\ d.bufferSize_ = c.bufferSize_
            /\ d.readPos_ = 0 /\ d.writePos_ = 0 /\ IsRecord(d)
        BY <1>1, <1>2, <2>1 DEF WellFormed, IsRecord
      <3>2. size(c) = 0 /\ size(d) = 0
        BY <1>1, <2>1, <3>1 DEF noData, size, WellFormed
      <3>3. c.bufferSize_ \in Nat /\ c.mem \in [0..(c.bufferSize_ - 1) -> Bytes \cup {Junk}]
        BY <1>1 DEF WellFormed
      <3>4. WellFormed(d)
        BY <3>1, <3>3 DEF WellFormed
      <3>5. SameBytes(d, c)
        BY <3>2 DEF SameBytes
      <3>6. QED
        BY <3>1, <3>3, <3>4, <3>5
    <2>2. CASE ~noData(c) /\ c.readPos_ > c.bufferSize_ \div 2
      <3>1. d = compact(c)
        BY <1>2, <2>2
      <3>2. c.bufferSize_ \in Nat
        BY <1>1 DEF WellFormed
      <3>3. QED
        BY <1>1, <3>1, <3>2, CompactKeeps
    <2>3. CASE ~noData(c) /\ ~(c.readPos_ > c.bufferSize_ \div 2)
      <3>1. d = c
        BY <1>2, <2>3
      <3>2. c.bufferSize_ \in Nat /\ c.readPos_ \in Nat
        BY <1>1 DEF WellFormed
      <3>3. 2 * c.readPos_ <= c.bufferSize_
        BY <2>3, <3>2
      <3>4. QED
        BY <1>1, <3>1, <3>3 DEF SameBytes
    <2>4. QED
      BY <2>1, <2>2, <2>3
  <1>4. Unread(d) = Unread(c) /\ size(d) = size(c)
    BY <1>1, <1>3, SameUnread DEF SameBytes
  <1>5. QED
    BY <1>1, <1>3, <1>4 DEF d

-----------------------------------------------------------------------------
(* The module's invariants in terms of WellFormed. *)
LEMMA WellFormedBuf ==
  TypeOK /\ NoJunkSent <=> WellFormed(buf) /\ peak \in Nat
  <1>1. buf \in [mem : [0..(buf.bufferSize_ - 1) -> Bytes \cup {Junk}],
                 bufferSize_ : Nat, readPos_ : Nat, writePos_ : Nat]
        <=> /\ IsRecord(buf)
            /\ buf.mem \in [0..(buf.bufferSize_ - 1) -> Bytes \cup {Junk}]
            /\ buf.bufferSize_ \in Nat /\ buf.readPos_ \in Nat /\ buf.writePos_ \in Nat
    BY DEF IsRecord
  <1>2. QED
    BY <1>1, Zenon DEF TypeOK, NoJunkSent, WellFormed

(* The constructor's buffer satisfies the inductive invariant. *)
LEMMA InitIInv == Init => IInv
  <1> SUFFICES ASSUME Init PROVE IInv
    OBVIOUS
  <1>1. /\ buf.bufferSize_ = InitialCapacity /\ buf.readPos_ = 0 /\ buf.writePos_ = 0
        /\ buf.mem = Block(InitialCapacity) /\ peak = 0 /\ IsRecord(buf)
    BY DEF Init, NewBuffer, IsRecord
  <1>2. WellFormed(buf) /\ peak \in Nat
    <2>1. Block(InitialCapacity) \in [0..(InitialCapacity - 1) -> Bytes \cup {Junk}]
      BY DEF Block
    <2>2. QED
      BY <1>1, <2>1, BufferAssumption DEF WellFormed
  <1>3. WasteBounded /\ MemoryBounded /\ size(buf) <= peak
    BY <1>1, BufferAssumption DEF WasteBounded, MemoryBounded, Larger, size
  <1>4. QED
    BY <1>2, <1>3, WellFormedBuf DEF IInv

(* What one call of write does. *)
LEMMA WriteStep ==
  ASSUME IInv, NEW data \in Payloads, write(data)
  PROVE  IInv' /\ Unread(buf)' = Unread(buf) \o data
  <1>1. PICK n \in Nat : n = Len(data) /\ data \in Seq(Bytes)
    BY BufferAssumption
  <1>2. WellFormed(buf) /\ peak \in Nat
    BY WellFormedBuf DEF IInv
  <1> DEFINE c == ensureCapacity(buf, n)
  <1>3. /\ WellFormed(c)
        /\ SameBytes(c, buf)
        /\ HasRoom(c, n)
        /\ c = buf \/ c.readPos_ = 0
        /\ c.bufferSize_ = buf.bufferSize_ \/ c.bufferSize_ <= 2 * (size(buf) + n)
    BY <1>2, EnsureMakesRoom
  <1>4. buf' = appended(c, data) /\ peak' = Larger(peak, size(buf'))
    BY <1>1 DEF write
  <1> HIDE DEF c
  <1>5. /\ WellFormed(buf')
        /\ Unread(buf') = Unread(c) \o data
        /\ buf'.readPos_ = c.readPos_
        /\ buf'.bufferSize_ = c.bufferSize_
        /\ size(buf') = size(c) + n
    BY <1>1, <1>3, <1>4, AppendedAppends
  <1>6. Unread(c) = Unread(buf) /\ size(c) = size(buf)
    BY <1>2, <1>3, SameUnread DEF SameBytes
  <1>7. PICK k \in Nat, s \in Nat, r \in Nat, cs \in Nat, cr \in Nat :
          /\ k = size(buf) /\ s = buf.bufferSize_ /\ r = buf.readPos_
          /\ cs = c.bufferSize_ /\ cr = c.readPos_
    <2>1. size(buf) \in Nat
      BY <1>2, UnreadType
    <2>2. QED
      BY <1>2, <1>3, <2>1 DEF WellFormed
  <1>8. /\ cs = s \/ cs <= 2 * (k + n)
        /\ cr = 0 \/ (cr = r /\ cs = s)
        /\ 2 * r <= s /\ s <= Larger(InitialCapacity, 2 * peak) /\ k <= peak
    BY <1>3, <1>7 DEF IInv, WasteBounded, MemoryBounded
  <1>9. /\ size(buf') = k + n /\ buf'.readPos_ = cr /\ buf'.bufferSize_ = cs
        /\ peak' = Larger(peak, k + n)
    BY <1>4, <1>5, <1>6, <1>7
  <1>10. /\ peak' \in Nat /\ k + n <= peak' /\ 2 * cr <= cs
         /\ cs <= Larger(InitialCapacity, 2 * peak')
    BY <1>2, <1>8, <1>9, BufferAssumption DEF Larger
  <1>11. TypeOK' /\ NoJunkSent'
    <2>1. WellFormed(buf)' /\ (peak \in Nat)'
      BY <1>5, <1>10 DEF WellFormed, IsRecord
    <2>2. QED
      BY <2>1, WellFormedBuf, PTL
  <1>12. (WasteBounded /\ MemoryBounded /\ size(buf) <= peak)'
    BY <1>9, <1>10 DEF WasteBounded, MemoryBounded, size
  <1>13. Unread(buf)' = Unread(buf) \o data
    BY <1>5, <1>6 DEF Unread, size
  <1>14. QED
    BY <1>11, <1>12, <1>13 DEF IInv

(* What one call of advance does. *)
LEMMA AdvanceStep ==
  ASSUME IInv, NEW n \in 1..size(buf), advance(n)
  PROVE  /\ IInv'
         /\ n \in 1..Len(Unread(buf))
         /\ Unread(buf)' = SubSeq(Unread(buf), n + 1, Len(Unread(buf)))
  <1>1. WellFormed(buf) /\ peak \in Nat
    BY WellFormedBuf DEF IInv
  <1>2. size(buf) \in Nat /\ Len(Unread(buf)) = size(buf)
    BY <1>1, UnreadType
  <1>3. n \in Nat /\ n <= size(buf)
    BY <1>2
  <1>4. buf' = dropped(buf, n) /\ peak' = peak
    BY DEF advance
  <1>5. /\ WellFormed(buf')
        /\ size(buf') = size(buf) - n
        /\ buf'.bufferSize_ = buf.bufferSize_
        /\ 2 * buf'.readPos_ <= buf'.bufferSize_
        /\ Unread(buf') = SubSeq(Unread(buf), n + 1, Len(Unread(buf)))
    BY <1>1, <1>3, <1>4, DroppedDrops
  <1>6. TypeOK' /\ NoJunkSent'
    <2>1. WellFormed(buf)' /\ (peak \in Nat)'
      BY <1>1, <1>4, <1>5 DEF WellFormed, IsRecord
    <2>2. QED
      BY <2>1, WellFormedBuf, PTL
  <1>7. (WasteBounded /\ MemoryBounded)'
    BY <1>4, <1>5 DEF IInv, WasteBounded, MemoryBounded
  <1>8. (size(buf) <= peak)'
    <2>1. size(buf) <= peak
      BY DEF IInv
    <2>2. size(buf') <= peak'
      BY <1>1, <1>2, <1>3, <1>4, <1>5, <2>1
    <2>3. QED
      BY <2>2 DEF size
  <1>9. Unread(buf)' = SubSeq(Unread(buf), n + 1, Len(Unread(buf)))
    BY <1>5 DEF Unread, size
  <1>10. QED
    BY <1>2, <1>6, <1>7, <1>8, <1>9 DEF IInv

(* A step keeps the invariant and is a step of the byte queue. *)
LEMMA NextStep ==
  ASSUME IInv, [Next]_vars
  PROVE  IInv' /\ [Queue!Next]_Contents
  <1>0. Contents = Unread(buf) /\ Contents' = Unread(buf)'
    BY DEF Contents, Unread
  <1>1. ASSUME NEW data \in Payloads, write(data)
        PROVE  IInv' /\ Queue!Next
    <2>1. IInv' /\ Contents' = Contents \o data
      BY <1>0, <1>1, WriteStep
    <2>2. QED
      BY <2>1 DEF Queue!Next, Queue!write
  <1>2. ASSUME NEW n \in 1..size(buf), advance(n)
        PROVE  IInv' /\ Queue!Next
    <2>1. /\ IInv'
          /\ n \in 1..Len(Contents)
          /\ Contents' = SubSeq(Contents, n + 1, Len(Contents))
      BY <1>0, <1>2, AdvanceStep
    <2>2. n <= Len(Contents)
      <3>1. Len(Contents) \in Nat
        BY <1>0, WellFormedBuf, UnreadType DEF IInv
      <3>2. QED
        BY <2>1, <3>1
    <2>3. QED
      BY <2>1, <2>2 DEF Queue!Next, Queue!advance
  <1>3. ASSUME UNCHANGED vars PROVE IInv' /\ UNCHANGED Contents
    <2>1. buf' = buf /\ peak' = peak
      BY <1>3 DEF vars
    <2>2. IInv'
      BY <2>1 DEF IInv, TypeOK, NoJunkSent, WasteBounded, MemoryBounded, size
    <2>3. QED
      BY <2>1, <2>2 DEF Contents, size
  <1>4. QED
    BY <1>1, <1>2, <1>3 DEF Next

(* IInv holds in every reachable state. *)
LEMMA Invariance == Spec => []IInv
  BY InitIInv, NextStep, PTL DEF Spec

(* write and advance never leave the block, whatever the sizes: the         *)
(* sliding and the doubling of ensureCapacity always make enough room.      *)
THEOREM TypeCorrect == Spec => []TypeOK
  <1>1. IInv => TypeOK
    BY DEF IInv
  <1>2. QED
    BY Invariance, <1>1, PTL

(* The socket is never given a byte that was not written by send. *)
THEOREM NoJunkSentHolds == Spec => []NoJunkSent
  <1>1. IInv => NoJunkSent
    BY DEF IInv
  <1>2. QED
    BY Invariance, <1>1, PTL

(* advance wastes at most half of the block. *)
THEOREM WasteBoundedHolds == Spec => []WasteBounded
  <1>1. IInv => WasteBounded
    BY DEF IInv
  <1>2. QED
    BY Invariance, <1>1, PTL

(* The block is at most twice as large as the most that was ever pending. *)
THEOREM MemoryBoundedHolds == Spec => []MemoryBounded
  <1>1. IInv => MemoryBounded
    BY DEF IInv
  <1>2. QED
    BY Invariance, <1>1, PTL

(* SimpleBuffer implements the byte queue: for every capacity and every     *)
(* sequence of writes and partial reads, bytes leave in the order in which  *)
(* they were written, none lost and none twice.                            *)
THEOREM Refinement == Spec => ImplementsByteQueue
  <1>1. Init => Queue!Init
    BY DEF Init, NewBuffer, Queue!Init, Contents, size
  <1>2. IInv /\ [Next]_vars => [Queue!Next]_Contents
    BY NextStep
  <1>3. QED
    BY Invariance, <1>1, <1>2, PTL DEF Spec, ImplementsByteQueue, Queue!Spec

-----------------------------------------------------------------------------
(* The buffer of server.hpp.                                               *)

(* A set of numbers has a least one. *)
LEMMA LeastExists ==
  ASSUME NEW T \in SUBSET Nat, T # {}
  PROVE  \E x \in T : \A y \in T : x <= y
  <1>1. PICK R : R = {x \in Nat \X Nat : x[1] < x[2]}
    OBVIOUS
  <1>2. IsWellFoundedOn(R, Nat)
    BY <1>1, NatLessThanWellFounded DEF OpToRel
  <1>3. \A x, y \in Nat : <<x, y>> \in R <=> x < y
    BY <1>1
  <1>4. PICK x \in T : \A y \in T : ~(<<y, x>> \in R)
    BY <1>2, WFMin
  <1>5. \A y \in T : ~(y < x)
    BY <1>3, <1>4
  <1>6. QED
    BY <1>5

Cells == Chars \cup {Zero}

(* the offsets are inside the vector, in order *)
OffsetsInv ==
  /\ buffer_ \in Seq(Cells)
  /\ reader_offset_ \in Nat /\ writer_offset_ \in Nat
  /\ reader_offset_ <= writer_offset_ /\ writer_offset_ <= Len(buffer_)

(* the k cells of a vector behind offset r *)
Holds(mem, r, k, q) == Len(q) = k /\ \A i \in 1..k : q[i] = mem[r + i]

(* There is only one such sequence. *)
LEMMA HoldsIs ==
  ASSUME NEW S, NEW mem \in Seq(S), NEW r \in Nat, NEW k \in Nat, r + k <= Len(mem)
  PROVE  /\ SubSeq(mem, r + 1, r + k) \in Seq(S)
         /\ Holds(mem, r, k, SubSeq(mem, r + 1, r + k))
         /\ \A q \in Seq(S) : Holds(mem, r, k, q) => q = SubSeq(mem, r + 1, r + k)
  <1>1. PICK n \in Nat : n = Len(mem) /\ r + k <= n /\ mem \in [1..n -> S]
    OBVIOUS
  <1>2. PICK u : u = SubSeq(mem, r + 1, r + k)
    OBVIOUS
  <1>3. u \in Seq(S) /\ Len(u) = k
    BY <1>1, <1>2
  <1>4. \A i \in 1..k : u[i] = mem[r + i]
    BY <1>1, <1>2
  <1>5. ASSUME NEW q \in Seq(S), Holds(mem, r, k, q) PROVE q = u
    BY <1>3, <1>4, <1>5, SeqEqual DEF Holds
  <1>6. QED
    BY <1>2, <1>3, <1>4, <1>5 DEF Holds

(* What the readers of a buffer are shown. *)
LEMMA Readable ==
  ASSUME OffsetsInv
  PROVE  /\ ReadableSize \in Nat /\ reader_offset_ + ReadableSize = writer_offset_
         /\ ReadAsString(ReadableSize) \in Seq(Cells)
         /\ Holds(buffer_, reader_offset_, ReadableSize, ReadAsString(ReadableSize))
  <1>1. /\ ReadableSize \in Nat /\ reader_offset_ + ReadableSize = writer_offset_
        /\ reader_offset_ + ReadableSize <= Len(buffer_)
    BY DEF OffsetsInv, ReadableSize
  <1>2. QED
    BY <1>1, HoldsIs DEF OffsetsInv, ReadAsString

(* EnsureWritableSpaceEnough makes room and keeps what there is to read. *)
LEMMA RoomIsMade ==
  ASSUME OffsetsInv, NEW len \in Nat
  PROVE  LET room == EnsureWritableSpaceEnough(len) IN
         /\ room.mem \in Seq(Cells) /\ room.reader \in Nat
         /\ room.reader + ReadableSize + len <= Len(room.mem)
         /\ Holds(room.mem, room.reader, ReadableSize, ReadAsString(ReadableSize))
  <1>1. PICK n \in Nat, r \in Nat, w \in Nat, k \in Nat :
          /\ n = Len(buffer_) /\ r = reader_offset_ /\ w = writer_offset_ /\ k = ReadableSize
          /\ r + k = w /\ w <= n
    BY Readable DEF OffsetsInv
  <1>2. PICK b, q : b = buffer_ /\ q = ReadAsString(ReadableSize)
    OBVIOUS
  <1>3. /\ b \in Seq(Cells) /\ Len(b) = n
        /\ q \in Seq(Cells) /\ Len(q) = k /\ \A i \in 1..k : q[i] = b[r + i]
    BY <1>1, <1>2, Readable DEF OffsetsInv, Holds
  <1>4. CASE len <= n - w
    <2>1. EnsureWritableSpaceEnough(len) = [mem |-> b, reader |-> r]
      BY <1>1, <1>2, <1>4 DEF EnsureWritableSpaceEnough, TailWritableSize
    <2>2. QED
      BY <1>1, <1>2, <1>3, <1>4, <2>1 DEF Holds
  <1>5. CASE ~(len <= n - w) /\ len <= r + (n - w)
    <2>0. PICK t : t = SubSeq(b, k + 1, n)
      OBVIOUS
    <2>1. PICK m : m = q \o t
      OBVIOUS
    <2>2. EnsureWritableSpaceEnough(len) = [mem |-> m, reader |-> 0]
      BY <1>1, <1>2, <1>5, <2>0, <2>1 DEF EnsureWritableSpaceEnough, TailWritableSize, HeadWritableSize
    <2>3. t \in Seq(Cells) /\ Len(t) = n - k /\ n - k \in Nat
      BY <1>1, <1>3, <2>0
    <2>4. /\ m \in Seq(Cells) /\ Len(m) = n
          /\ \A i \in 1..k : m[i] = q[i]
      <3>1. m \in Seq(Cells) /\ Len(m) = k + (n - k) /\ \A i \in 1..k : m[i] = q[i]
        BY <1>3, <2>1, <2>3
      <3>2. QED
        BY <3>1
    <2>5. 0 + k + len <= n
      BY <1>1, <1>5
    <2>6. QED
      BY <1>1, <1>2, <1>3, <2>2, <2>4, <2>5 DEF Holds
  <1>6. CASE ~(len <= n - w) /\ ~(len <= r + (n - w))
    <2>1. PICK m : m = [i \in 1..(w + len) |-> IF i <= n THEN b[i] ELSE Zero]
      OBVIOUS
    <2>2. EnsureWritableSpaceEnough(len) = [mem |-> m, reader |-> r]
      BY <1>1, <1>2, <1>6, <2>1 DEF EnsureWritableSpaceEnough, TailWritableSize, HeadWritableSize
    <2>3. \A i \in 1..n : b[i] \in Cells
      BY <1>3
    <2>4. m \in Seq(Cells) /\ Len(m) = w + len
      BY <1>1, <2>1, <2>3 DEF Cells
    <2>5. \A i \in 1..k : m[r + i] = b[r + i]
      BY <1>1, <1>6, <2>1
    <2>6. r + k + len <= w + len
      BY <1>1
    <2>7. r + k + len <= Len(m) /\ Holds(m, r, k, q)
      BY <1>3, <2>4, <2>5, <2>6 DEF Holds
    <2> HIDE DEF Holds
    <2>8. QED
      BY <1>1, <1>2, <2>2, <2>4, <2>7
  <1>7. QED
    BY <1>4, <1>5, <1>6

(* What is written comes behind what was there. *)
LEMMA WriteRefines ==
  ASSUME OffsetsInv, NEW data \in Texts, WriteAndPushOffSet(data)
  PROVE  OffsetsInv' /\ ReadAsString(ReadableSize)' = ReadAsString(ReadableSize) \o data
  <1>1. PICK len \in Nat : len = Len(data) /\ data \in Seq(Cells)
    BY DEF Texts, Cells
  <1>2. PICK m, r, k, q : /\ m = EnsureWritableSpaceEnough(len).mem
                          /\ r = EnsureWritableSpaceEnough(len).reader
                          /\ k = ReadableSize /\ q = ReadAsString(ReadableSize)
    OBVIOUS
  <1>3. /\ m \in Seq(Cells) /\ r \in Nat /\ k \in Nat /\ r + k + len <= Len(m)
        /\ q \in Seq(Cells) /\ Len(q) = k /\ \A i \in 1..k : q[i] = m[r + i]
    BY <1>1, <1>2, RoomIsMade, Readable DEF Holds
  <1>4. PICK n \in Nat : n = Len(m) /\ \A i \in 1..n : m[i] \in Cells
    BY <1>3
  <1>5. PICK b : b = [i \in 1..n |-> IF i \in (r + k + 1)..(r + k + len) THEN data[i - (r + k)] ELSE m[i]]
    OBVIOUS
  <1>6. buffer_' = b /\ reader_offset_' = r /\ writer_offset_' = r + k + len
    BY <1>1, <1>2, <1>4, <1>5 DEF WriteAndPushOffSet
  <1>7. \A j \in 1..len : data[j] \in Cells
    BY <1>1
  <1>8. b \in Seq(Cells) /\ Len(b) = n
    <2>1. \A i \in 1..n : i \in (r + k + 1)..(r + k + len) => i - (r + k) \in 1..len
      BY <1>3
    <2>2. QED
      BY <1>4, <1>5, <1>7, <2>1
  <1>9. OffsetsInv'
    BY <1>3, <1>4, <1>6, <1>8 DEF OffsetsInv
  <1>10. ReadableSize' = k + len
    BY <1>3, <1>6 DEF ReadableSize
  <1>11. PICK p : p = ReadAsString(ReadableSize)'
    OBVIOUS
  <1>12. /\ p \in Seq(Cells) /\ Len(p) = k + len
         /\ \A i \in 1..(k + len) : p[i] = b[r + i]
    <2>1. p = SubSeq(b, r + 1, r + (k + len))
      BY <1>6, <1>10, <1>11 DEF ReadAsString
    <2>2. QED
      BY <1>3, <1>4, <1>8, <2>1, HoldsIs DEF Holds
  <1>13. ASSUME NEW i \in 1..k PROVE p[i] = q[i]
    <2>1. r + i \in 1..n /\ ~(r + i \in (r + k + 1)..(r + k + len)) /\ i \in 1..(k + len)
      BY <1>3, <1>4
    <2>2. b[r + i] = m[r + i]
      BY <1>5, <2>1
    <2>3. QED
      BY <1>3, <1>12, <2>1, <2>2
  <1>14. ASSUME NEW i \in 1..len PROVE p[k + i] = data[i]
    <2>1. /\ r + (k + i) \in 1..n /\ r + (k + i) \in (r + k + 1)..(r + k + len)
          /\ r + (k + i) - (r + k) = i /\ k + i \in 1..(k + len)
      BY <1>3, <1>4
    <2>2. PICK j \in 1..n : j = r + (k + i)
      BY <2>1
    <2>3. j \in (r + k + 1)..(r + k + len) /\ j - (r + k) = i
      BY <1>3, <2>1, <2>2
    <2>4. b[j] = data[i]
      BY <1>5, <2>3
    <2>5. QED
      BY <1>12, <2>1, <2>2, <2>4
  <1>15. StartsAndGoesOn(p, q, data, k, len)
    BY <1>1, <1>3, <1>12, <1>13, <1>14 DEF StartsAndGoesOn
  <1>16. p = q \o data
    BY <1>1, <1>3, <1>12, <1>15, ConcatIs
  <1>17. QED
    BY <1>2, <1>9, <1>11, <1>16

(* What is read is taken from the front. *)
LEMMA ReadRefines ==
  ASSUME OffsetsInv, NEW len \in Nat, ReadAndPushOffSet(len)
  PROVE  /\ OffsetsInv' /\ len <= ReadableSize
         /\ ReadAsString(ReadableSize)' =
              SubSeq(ReadAsString(ReadableSize), len + 1, Len(ReadAsString(ReadableSize)))
  <1>1. PICK n \in Nat, r \in Nat, w \in Nat, k \in Nat :
          /\ n = Len(buffer_) /\ r = reader_offset_ /\ w = writer_offset_ /\ k = ReadableSize
          /\ r + k = w /\ w <= n
    BY Readable DEF OffsetsInv
  <1>2. PICK b, q, p : b = buffer_ /\ q = ReadAsString(ReadableSize)
                       /\ p = ReadAsString(ReadableSize)'
    OBVIOUS
  <1>3. /\ b \in Seq(Cells) /\ Len(b) = n
        /\ q \in Seq(Cells) /\ Len(q) = k /\ \A i \in 1..k : q[i] = b[r + i]
    BY <1>1, <1>2, Readable DEF OffsetsInv, Holds
  <1>4. len <= k /\ reader_offset_' = r + len /\ writer_offset_' = w /\ buffer_' = b
    BY <1>1, <1>2 DEF ReadAndPushOffSet
  <1>5. OffsetsInv'
    BY <1>1, <1>3, <1>4 DEF OffsetsInv
  <1>6. ReadableSize' = k - len
    BY <1>1, <1>4 DEF ReadableSize
  <1>7. p = SubSeq(b, (r + len) + 1, (r + len) + (k - len))
    BY <1>2, <1>4, <1>6 DEF ReadAsString
  <1>8. /\ p \in Seq(Cells) /\ Len(p) = k - len
        /\ \A i \in 1..(k - len) : p[i] = b[(r + len) + i]
    <2>1. r + len \in Nat /\ k - len \in Nat /\ (r + len) + (k - len) <= Len(b)
      BY <1>1, <1>3, <1>4
    <2>2. QED
      BY <1>3, <1>7, <2>1, HoldsIs DEF Holds
  <1>9. \A i \in 1..(k - len) : p[i] = q[len + i]
    <2>1. TAKE i \in 1..(k - len)
    <2>2. len + i \in 1..k /\ r + (len + i) = (r + len) + i
      BY <1>4
    <2>3. QED
      BY <1>3, <1>8, <2>2
  <1>10. p = SubSeq(q, len + 1, Len(q))
    BY <1>3, <1>4, <1>8, <1>9, TailIs
  <1>11. QED
    BY <1>1, <1>2, <1>4, <1>5, <1>10

(* A line has at least one byte. *)
LEMMA LineHasLength ==
  ASSUME OffsetsInv, GetLine # <<>>
  PROVE  Len(GetLine) \in Nat \ {0}
  <1>1. PICK k \in Nat, q \in Seq(Cells) :
          k = ReadableSize /\ q = ReadAsString(ReadableSize) /\ Len(q) = k
    BY Readable DEF Holds
  <1>2. PICK ends : ends = {i \in 1..k : q[i] = Newline}
    OBVIOUS
  <1>3. ends # {} /\ GetLine = SubSeq(q, 1, CHOOSE i \in ends : \A j \in ends : i <= j)
    BY <1>1, <1>2 DEF GetLine
  <1>4. PICK m \in ends : m = CHOOSE i \in ends : \A j \in ends : i <= j
    <2>1. ends \in SUBSET Nat
      BY <1>2
    <2>2. QED
      BY <1>3, <2>1, LeastExists
  <1>5. m \in 1..k /\ GetLine = SubSeq(q, 1, m)
    BY <1>2, <1>3, <1>4
  <1>6. QED
    BY <1>1, <1>5

(* Clear takes all that is left. *)
LEMMA ClearRefines ==
  ASSUME OffsetsInv, Clear
  PROVE  /\ OffsetsInv'
         /\ ReadAsString(ReadableSize)' = <<>>
  <1>1. reader_offset_' = 0 /\ writer_offset_' = 0 /\ buffer_' = buffer_
    BY DEF Clear
  <1>2. OffsetsInv'
    BY <1>1 DEF OffsetsInv
  <1>3. ReadAsString(ReadableSize)' = SubSeq(buffer_, 1, 0)
    BY <1>1 DEF ReadAsString, ReadableSize
  <1>4. QED
    BY <1>2, <1>3 DEF OffsetsInv

(* Every step is one of the byte queue. *)
LEMMA ServerBufferStep ==
  ASSUME OffsetsInv, [ServerBufferNext]_serverBufferVars
  PROVE  OffsetsInv' /\ [Stream!Next]_(ReadAsString(ReadableSize))
  <1> DEFINE q == ReadAsString(ReadableSize)
  <1>1. PICK k \in Nat : k = ReadableSize /\ k = Len(q) /\ q \in Seq(Cells)
    BY Readable DEF Holds
  <1>2. ASSUME NEW data \in Texts, WriteAndPushOffSet(data) PROVE OffsetsInv' /\ Stream!Next
    <2>1. OffsetsInv' /\ q' = q \o data
      BY <1>2, WriteRefines
    <2>2. QED
      BY <2>1 DEF Stream!Next, Stream!write
  <1>3. ASSUME NEW len \in Nat \ {0}, ReadAndPushOffSet(len) PROVE OffsetsInv' /\ Stream!Next
    <2>1. OffsetsInv' /\ len <= k /\ q' = SubSeq(q, len + 1, Len(q))
      BY <1>1, <1>3, ReadRefines
    <2> HIDE DEF q
    <2>2. len \in 1..Len(q) /\ len <= Len(q)
      BY <1>1, <2>1
    <2>3. QED
      BY <2>1, <2>2 DEF Stream!Next, Stream!advance, q
  <1>4. CASE GetLineAndPushOffSet
    BY <1>3, <1>4, LineHasLength DEF GetLineAndPushOffSet
  <1>5. CASE Clear
    <2>1. OffsetsInv' /\ q' = <<>> /\ k > 0
      BY <1>1, <1>5, ClearRefines DEF Clear
    <2> HIDE DEF q
    <2>2. k \in 1..Len(q) /\ k <= Len(q) /\ SubSeq(q, k + 1, Len(q)) = <<>>
      BY <1>1, <2>1
    <2>3. QED
      BY <2>1, <2>2 DEF Stream!Next, Stream!advance, q
  <1>6. CASE UNCHANGED serverBufferVars
    BY <1>6 DEF serverBufferVars, OffsetsInv, ReadAsString, ReadableSize
  <1>7. ASSUME NEW len \in 1..ReadableSize, ReadAndPushOffSet(len) PROVE OffsetsInv' /\ Stream!Next
    BY <1>1, <1>3, <1>7
  <1>8. QED
    BY <1>2, <1>4, <1>5, <1>6, <1>7 DEF ServerBufferNext

(* Buffer of server.hpp implements the byte queue, for every default size, every *)
(* alphabet and every sequence of writes, partial reads, lines and clears:      *)
(* moving the data to the front and growing behind a head that is not empty are *)
(* invisible to the readers.                                                  *)
THEOREM ServerBufferRefinement == ServerBufferSpec => ServerBufferImplementsByteQueue
  <1>1. ServerBufferInit => OffsetsInv /\ Stream!Init
    <2> SUFFICES ASSUME ServerBufferInit PROVE OffsetsInv /\ Stream!Init
      OBVIOUS
    <2>1. buffer_ \in Seq(Cells) /\ Len(buffer_) = DefaultSize /\ DefaultSize \in Nat
      BY ServerBufferAssumption DEF ServerBufferInit, Cells
    <2>2. OffsetsInv
      BY <2>1 DEF ServerBufferInit, OffsetsInv
    <2>3. ReadAsString(ReadableSize) = <<>>
      BY <2>1 DEF ServerBufferInit, ReadAsString, ReadableSize
    <2>4. QED
      BY <2>2, <2>3 DEF Stream!Init
  <1>2. OffsetsInv /\ [ServerBufferNext]_serverBufferVars
          => OffsetsInv' /\ [Stream!Next]_(ReadAsString(ReadableSize))
    BY ServerBufferStep
  <1>3. QED
    BY <1>1, <1>2, PTL DEF ServerBufferSpec, ServerBufferImplementsByteQueue, Stream!Spec
=============================================================================
