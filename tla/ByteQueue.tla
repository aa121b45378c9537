------------------------------ MODULE ByteQueue ------------------------------
(***************************************************************************)
(* What a send buffer promises: an unbounded queue of bytes.  Writing      *)
(* appends, advancing drops from the front.  SimpleBuffer implements it.   *)
(***************************************************************************)
EXTENDS Integers, Sequences

CONSTANTS
  Payloads          \* what a caller may write: sequences of bytes

VARIABLE queue

Init == queue = <<>>

write(data) == queue' = queue \o data

advance(n) ==
  /\ n <= Len(queue)
  /\ queue' = SubSeq(queue, n + 1, Len(queue))

Next ==
  \/ \E data \in Payloads : write(data)
  \/ \E n \in 1..Len(queue) : advance(n)

Spec == Init /\ [][Next]_queue
=============================================================================
