---------------------------- MODULE ServerBuffer ----------------------------
(***************************************************************************)
(* Buffer of muduo/server.hpp, the input and output buffer of a            *)
(* connection: a vector with a reader and a writer offset.  Data is moved  *)
(* to the front when head and tail together have room, else the vector     *)
(* grows behind the head.  The string, Buffer and pointer forms of writing *)
(* and reading do the same with their bytes.                               *)
(***************************************************************************)
EXTENDS Integers, Sequences

CONSTANTS
  Chars, Newline,   \* byte values, '\n' among them
  Zero,             \* what resize fills with
  DefaultSize,      \* BUFFER_DEFAULT_SIZE (1024)
  MaxWrite,         \* bound: bytes written at once
  MaxReadable       \* bound: bytes waiting

ASSUME ServerBufferAssumption ==
  /\ Newline \in Chars /\ Zero \notin Chars
  /\ DefaultSize \in Nat /\ MaxWrite \in Nat /\ MaxReadable \in Nat

VARIABLES
  buffer_,          \* the vector, from offset 0
  reader_offset_, writer_offset_

serverBufferVars == <<buffer_, reader_offset_, writer_offset_>>
Texts == UNION {[1..n -> Chars] : n \in 1..MaxWrite}

ReadableSize == writer_offset_ - reader_offset_
HeadWritableSize == reader_offset_
TailWritableSize == Len(buffer_) - writer_offset_
ReadAsString(len) == SubSeq(buffer_, reader_offset_ + 1, reader_offset_ + len)

ServerBufferInit ==
  /\ buffer_ = [i \in 1..DefaultSize |-> Zero]
  /\ reader_offset_ = 0 /\ writer_offset_ = 0

-----------------------------------------------------------------------------
(* Bug: the vector grows by what is missing at the tail of the whole. *)
EnsureWritableSpaceEnough_ForgetsHead(len) ==
  IF len <= TailWritableSize THEN [mem |-> buffer_, reader |-> reader_offset_]
  ELSE IF len <= HeadWritableSize + TailWritableSize
  THEN [mem |-> ReadAsString(ReadableSize)
                  \o SubSeq(buffer_, ReadableSize + 1, Len(buffer_)), reader |-> 0]
  ELSE [mem |-> [i \in 1..(writer_offset_ + len) |-> IF i <= ReadableSize THEN buffer_[i] ELSE Zero],
        reader |-> reader_offset_]

(* The vector and the reader offset with room for len bytes behind the data:  *)
(* as they are, with the data moved to the front, or with a longer vector.   *)
EnsureWritableSpaceEnough(len) ==
  IF len <= TailWritableSize THEN [mem |-> buffer_, reader |-> reader_offset_]
  ELSE IF len <= HeadWritableSize + TailWritableSize
  THEN [mem |-> ReadAsString(ReadableSize)
                  \o SubSeq(buffer_, ReadableSize + 1, Len(buffer_)), reader |-> 0]
  ELSE [mem |-> [i \in 1..(writer_offset_ + len) |-> IF i <= Len(buffer_) THEN buffer_[i] ELSE Zero],
        reader |-> reader_offset_]

(* WriteAndPushOffSet, WriteStringAndPushOffSet, WriteBufferAndPushOffSet *)
WriteAndPushOffSet(data) ==
  /\ ReadableSize + Len(data) <= MaxReadable
  /\ LET room == EnsureWritableSpaceEnough(Len(data))
         at   == room.reader + ReadableSize
     IN /\ buffer_' = [i \in 1..Len(room.mem) |->
                         IF i \in (at + 1)..(at + Len(data)) THEN data[i - at] ELSE room.mem[i]]
        /\ reader_offset_' = room.reader
        /\ writer_offset_' = at + Len(data)

(* ReadAndPushOffSet, ReadAsStringAndPushOffSet, MoveReaderOffset: what is    *)
(* read stays in the vector                                                *)
ReadAndPushOffSet(len) ==
  /\ len <= ReadableSize
  /\ reader_offset_' = reader_offset_ + len
  /\ UNCHANGED <<buffer_, writer_offset_>>

(* GetLine: up to the first newline, or nothing *)
GetLine ==
  LET data == ReadAsString(ReadableSize)
      ends == {i \in 1..ReadableSize : data[i] = Newline}
  IN IF ends = {} THEN <<>> ELSE SubSeq(data, 1, CHOOSE i \in ends : \A j \in ends : i <= j)

GetLineAndPushOffSet == GetLine # <<>> /\ ReadAndPushOffSet(Len(GetLine))

Clear ==
  /\ ReadableSize > 0
  /\ reader_offset_' = 0 /\ writer_offset_' = 0
  /\ UNCHANGED buffer_

ServerBufferNext ==
  \/ \E data \in Texts : WriteAndPushOffSet(data)
  \/ \E len \in 1..ReadableSize : ReadAndPushOffSet(len)
  \/ GetLineAndPushOffSet \/ Clear

ServerBufferSpec == ServerBufferInit /\ [][ServerBufferNext]_serverBufferVars

-----------------------------------------------------------------------------
(* Properties.                                                             *)

Stream == INSTANCE ByteQueue WITH queue <- ReadAsString(ReadableSize), Payloads <- Texts

(* Whatever sequence of writes, partial reads, lines and moves: readers get   *)
(* the bytes in the order in which they were written, none lost and none     *)
(* twice, and no byte that resize made.                                    *)
ServerBufferImplementsByteQueue == Stream!Spec
=============================================================================
