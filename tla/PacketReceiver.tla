--------------------------- MODULE PacketReceiver ---------------------------
(***************************************************************************)
(* ihs/src/what.cpp: one thread receives datagrams into buffers of a pool  *)
(* and hands them to worker threads in turn; workers give them back.       *)
(*                                                                         *)
(* The queues are the ring "what" of module Rings, with one producer and   *)
(* one consumer each, and so bounded FIFOs here.  The burst detection only *)
(* logs and is left out, as are the set-up calls before the loop.          *)
(***************************************************************************)
EXTENDS Integers, Sequences, FiniteSets

CONSTANTS
  Buffers,          \* the buffers of the pool
  WORKER_THREADS,
  QueueSize,        \* slots of a ring, one of which stays free
  MaxDatagrams,     \* bound: datagrams in the socket at a time
  NoBuffer

ASSUME PacketReceiverAssumption ==
  /\ WORKER_THREADS \in Nat \ {0} /\ QueueSize \in Nat \ {0, 1} /\ MaxDatagrams \in Nat
  /\ IsFiniteSet(Buffers) /\ NoBuffer \notin Buffers

VARIABLES
  datagrams,        \* in the socket
  free_list,        \* the pool's queue
  queues,           \* queues[w]
  mpc, buf,         \* the main thread: where it is, the buffer in its hand
  worker_index,
  packet,           \* packet[w]: the buffer in a worker's hand
  wEnded,           \* wEnded[w]: the worker has left its loop
  running

packetVars == <<datagrams, free_list, queues, mpc, buf, worker_index, packet, wEnded, running>>

Workers == 0..(WORKER_THREADS - 1)

PacketInit ==
  /\ datagrams = 0
  /\ free_list \in {s \in [1..Cardinality(Buffers) -> Buffers] :
                      \A i, j \in DOMAIN s : s[i] = s[j] => i = j}
  /\ queues = [w \in Workers |-> <<>>]
  /\ mpc = "epoll" /\ buf = NoBuffer
  /\ worker_index = 0
  /\ packet = [w \in Workers |-> NoBuffer]
  /\ wEnded = [w \in Workers |-> FALSE]
  /\ running = TRUE

(* external: a datagram arrives, or is dropped when the socket is full *)
Datagram ==
  /\ datagrams < MaxDatagrams
  /\ datagrams' = datagrams + 1
  /\ UNCHANGED <<free_list, queues, mpc, buf, worker_index, packet, wEnded, running>>

-----------------------------------------------------------------------------
(* The main thread.                                                        *)

(* epoll_wait: level-triggered, it returns for data; a failure ends the loop *)
EpollWait ==
  /\ mpc = "epoll"
  /\ \/ datagrams > 0 /\ mpc' = "acquire" /\ UNCHANGED running
     \/ mpc' = "join" /\ running' = FALSE
  /\ UNCHANGED <<datagrams, free_list, queues, buf, worker_index, packet, wEnded>>

(* MemoryPool::acquire; without a buffer a datagram, if there is one, is     *)
(* received and dropped, and the loop goes on.                             *)
Acquire ==
  /\ mpc = "acquire"
  /\ IF free_list = <<>>
       THEN /\ datagrams' = IF datagrams > 0 THEN datagrams - 1 ELSE 0
            /\ UNCHANGED <<free_list, mpc, buf>>
       ELSE /\ buf' = Head(free_list) /\ free_list' = Tail(free_list)
            /\ mpc' = "recvfrom"
            /\ UNCHANGED datagrams
  /\ UNCHANGED <<queues, worker_index, packet, wEnded, running>>

(* Bug: the buffer of a failed call is given back and used all the same. *)
Recvfrom_GoesOn ==
  /\ mpc = "recvfrom"
  /\ datagrams' = IF datagrams > 0 THEN datagrams - 1 ELSE 0
  /\ mpc' = "push"
  /\ free_list' = IF datagrams = 0 THEN Append(free_list, buf) ELSE free_list
  /\ UNCHANGED <<queues, buf, worker_index, packet, wEnded, running>>

(* recvfrom: a datagram; none (EAGAIN), which ends the inner loop; or        *)
(* another error, or a datagram of length 0 with any old errno.            *)
Recvfrom ==
  /\ mpc = "recvfrom"
  /\ \/ /\ datagrams > 0
        /\ datagrams' = datagrams - 1
        /\ mpc' = "push"
        /\ UNCHANGED <<free_list, buf>>
     \/ /\ datagrams' \in {datagrams, datagrams - 1} \cap Nat
        /\ mpc' \in IF datagrams = 0 THEN {"epoll"} ELSE {"acquire", "epoll"}
        /\ free_list' = Append(free_list, buf)
        /\ buf' = NoBuffer
  /\ UNCHANGED <<queues, worker_index, packet, wEnded, running>>

NextWorker == (worker_index + 1) % WORKER_THREADS

(* push to the worker whose turn it is; a full queue passes the turn on *)
Dispatch ==
  /\ mpc = "push"
  /\ worker_index' = NextWorker
  /\ IF Len(queues[worker_index]) = QueueSize - 1
       THEN UNCHANGED <<queues, mpc, buf>>
       ELSE /\ queues' = [queues EXCEPT ![worker_index] = Append(@, buf)]
            /\ mpc' = "acquire" /\ buf' = NoBuffer
  /\ UNCHANGED <<datagrams, free_list, packet, wEnded, running>>

(* the workers are joined *)
JoinWorkers ==
  /\ mpc = "join" /\ \A w \in Workers : wEnded[w]
  /\ mpc' = "end"
  /\ UNCHANGED <<datagrams, free_list, queues, buf, worker_index, packet, wEnded, running>>

-----------------------------------------------------------------------------
(* A worker: pops a packet, if there is one; gives its buffer back; leaves. *)

WorkerPop(w) ==
  /\ running /\ ~wEnded[w] /\ packet[w] = NoBuffer
  /\ queues[w] # <<>>
  /\ packet' = [packet EXCEPT ![w] = Head(queues[w])]
  /\ queues' = [queues EXCEPT ![w] = Tail(@)]
  /\ UNCHANGED <<datagrams, free_list, mpc, buf, worker_index, wEnded, running>>

(* Bug: the decoded packet is dropped, its buffer not given back. *)
WorkerRelease_Forgotten(w) ==
  /\ packet[w] # NoBuffer
  /\ packet' = [packet EXCEPT ![w] = NoBuffer]
  /\ UNCHANGED <<datagrams, free_list, queues, mpc, buf, worker_index, wEnded, running>>

WorkerRelease(w) ==
  /\ packet[w] # NoBuffer
  /\ free_list' = Append(free_list, packet[w])
  /\ packet' = [packet EXCEPT ![w] = NoBuffer]
  /\ UNCHANGED <<datagrams, queues, mpc, buf, worker_index, wEnded, running>>

WorkerEnd(w) ==
  /\ ~running /\ ~wEnded[w] /\ packet[w] = NoBuffer
  /\ wEnded' = [wEnded EXCEPT ![w] = TRUE]
  /\ UNCHANGED <<datagrams, free_list, queues, mpc, buf, worker_index, packet, running>>

-----------------------------------------------------------------------------
MainStep == Acquire \/ Recvfrom \/ Dispatch \/ JoinWorkers
WorkerStep(w) == WorkerPop(w) \/ WorkerRelease(w) \/ WorkerEnd(w)

PacketNext == Datagram \/ EpollWait \/ MainStep \/ \E w \in Workers : WorkerStep(w)

PacketSpec == PacketInit /\ [][PacketNext]_packetVars

-----------------------------------------------------------------------------
(* Properties.                                                             *)

(* how many places hold b: pool, main thread, queues, workers *)
Count(s, b) == Cardinality({i \in DOMAIN s : s[i] = b})
Holders(b) ==
  Count(free_list, b) + (IF buf = b THEN 1 ELSE 0) + Count(packet, b)
    + Cardinality({x \in Workers \X (1..QueueSize) :
                     x[2] <= Len(queues[x[1]]) /\ queues[x[1]][x[2]] = b})

(* Every buffer is in one place: none is leaked on a path of the receive     *)
(* loop, none is given back while the main thread or a worker still uses it. *)
OneHolder == \A b \in Buffers : Holders(b) = 1

(* A buffer handed to a worker comes back to the pool unless the program     *)
(* ends: an exhausted pool, which spins in the receive loop, recovers.      *)
BuffersReturn == \A b \in Buffers :
  (\E w \in Workers : Count(queues[w], b) > 0) ~> (Count(free_list, b) > 0 \/ ~running)
=============================================================================
