---------------------------- MODULE SimpleBuffer ----------------------------
(***************************************************************************)
(* The send buffer of a connection (muduo/include/SimpleBuffer.hpp): one   *)
(* heap block, a read and a write position, lazy sliding and doubling.     *)
(*                                                                         *)
(* The buffer is one record; its methods are operators from a buffer to a  *)
(* buffer, called by the two actions write and advance.  A block is a      *)
(* function from offsets to bytes; a byte that was never written is Junk.  *)
(* Both actions run under Connection's sendMutex_, so they are atomic.     *)
(***************************************************************************)
EXTENDS Integers, Sequences

CONSTANTS
  Bytes,            \* byte values
  Junk,             \* what new char[n] contains
  Payloads,         \* what send may be given: sequences of bytes
  InitialCapacity,  \* 4096 in the code
  MaxPending        \* bound: unread bytes

ASSUME BufferAssumption ==
  /\ Junk \notin Bytes
  /\ Payloads \subseteq Seq(Bytes)
  /\ InitialCapacity \in Nat
  /\ MaxPending \in Nat

VARIABLES
  buf,              \* [mem, bufferSize_, readPos_, writePos_]
  peak              \* history: the most bytes that were ever pending

vars == <<buf, peak>>

Larger(m, n) == IF m >= n THEN m ELSE n

size(b)   == b.writePos_ - b.readPos_
noData(b) == b.writePos_ = b.readPos_

(* new char[n], and the constructor *)
Block(n) == [i \in 0..(n - 1) |-> Junk]

NewBuffer == [mem |-> Block(InitialCapacity), bufferSize_ |-> InitialCapacity,
              readPos_ |-> 0, writePos_ |-> 0]

(* Bug: the write position is left where it was. *)
compact_KeepsWritePos(b) ==
  IF b.readPos_ = 0 THEN b ELSE
    [b EXCEPT !.mem = [i \in DOMAIN b.mem |->
                         IF i < size(b) THEN b.mem[i + b.readPos_] ELSE b.mem[i]],
              !.readPos_ = 0]

(* memmove of the unread bytes to the front of the block *)
compact(b) ==
  IF b.readPos_ = 0 THEN b ELSE
    [b EXCEPT !.mem = [i \in DOMAIN b.mem |->
                         IF i < size(b) THEN b.mem[i + b.readPos_] ELSE b.mem[i]],
              !.readPos_ = 0,
              !.writePos_ = size(b)]

(* a new block, at least twice as large, with the unread bytes in front *)
grow(b, len) ==
  LET newSize == Larger(b.bufferSize_ * 2, b.writePos_ + len) IN
  [mem |-> [i \in 0..(newSize - 1) |->
              IF i < size(b) THEN b.mem[i + b.readPos_] ELSE Junk],
   bufferSize_ |-> newSize, readPos_ |-> 0, writePos_ |-> size(b)]

(* Bug: the space in front of readPos_ is never reused. *)
ensureCapacity_NeverSlides(b, len) ==
  IF b.bufferSize_ - b.writePos_ >= len THEN b ELSE grow(b, len)

ensureCapacity(b, len) ==
  LET available == b.bufferSize_ - b.writePos_ IN
  IF available >= len THEN b
  ELSE IF b.readPos_ + available >= len THEN compact(b)
  ELSE grow(b, len)

(* memcpy of the payload behind the unread bytes *)
appended(b, data) ==
  [b EXCEPT !.mem = [i \in DOMAIN b.mem |->
                       IF i \in b.writePos_..(b.writePos_ + Len(data) - 1)
                         THEN data[i - b.writePos_ + 1] ELSE b.mem[i]],
            !.writePos_ = b.writePos_ + Len(data)]

dropped(b, len) ==
  LET read == [b EXCEPT !.readPos_ = b.readPos_ + len] IN
  IF noData(read) THEN [read EXCEPT !.readPos_ = 0, !.writePos_ = 0]
  ELSE IF read.readPos_ > read.bufferSize_ \div 2 THEN compact(read)
  ELSE read

-----------------------------------------------------------------------------
Init ==
  /\ buf = NewBuffer
  /\ peak = 0

(* Connection::send *)
write(data) ==
  /\ size(buf) + Len(data) <= MaxPending
  /\ buf' = appended(ensureCapacity(buf, Len(data)), data)
  /\ peak' = Larger(peak, size(buf'))

(* Connection::sendBufferedData: the socket took n > 0 of the unread bytes *)
advance(n) ==
  /\ buf' = dropped(buf, n)
  /\ UNCHANGED peak

Next ==
  \/ \E data \in Payloads : write(data)
  \/ \E n \in 1..size(buf) : advance(n)

Spec == Init /\ [][Next]_vars

-----------------------------------------------------------------------------
(* Properties.                                                             *)

(* The block has the size the buffer believes it has, and memcpy, memmove   *)
(* and data() stay inside it.                                              *)
TypeOK ==
  /\ buf \in [mem : [0..(buf.bufferSize_ - 1) -> Bytes \cup {Junk}],
              bufferSize_ : Nat, readPos_ : Nat, writePos_ : Nat]
  /\ peak \in Nat
  /\ buf.readPos_ <= buf.writePos_
  /\ buf.writePos_ <= buf.bufferSize_

(* No byte that was never written is ever sent. *)
NoJunkSent ==
  \A i \in buf.readPos_..(buf.writePos_ - 1) : buf.mem[i] \in Bytes

(* Sliding in advance keeps the wasted space in front of readPos_ at half   *)
(* of the block or less, also across later writes and growth.              *)
WasteBounded == 2 * buf.readPos_ <= buf.bufferSize_

(* The block grows only because of unread bytes: it is never larger than    *)
(* twice the most that was ever pending, so a steady stream of small        *)
(* writes and partial reads does not grow it.                              *)
MemoryBounded == buf.bufferSize_ <= Larger(InitialCapacity, 2 * peak)

(* The inductive invariant. *)
IInv ==
  /\ TypeOK
  /\ NoJunkSent
  /\ WasteBounded
  /\ MemoryBounded
  /\ size(buf) <= peak

(* data() and size(): the bytes the buffer holds for the socket *)
Contents == [i \in 1..size(buf) |-> buf.mem[buf.readPos_ + i - 1]]

Queue == INSTANCE ByteQueue WITH queue <- Contents

(* Sliding and growing are invisible: bytes leave in the order in which     *)
(* they were written, none lost, none twice.                               *)
ImplementsByteQueue == Queue!Spec
=============================================================================
