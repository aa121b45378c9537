---------------------------- MODULE MainReactor ----------------------------
(***************************************************************************)
(* The MainReactor of the muduo library: an edge-triggered listening       *)
(* socket and the distribution of what it accepts over the sub-reactors    *)
(* (muduo/src/MainReactor.cpp, muduo/include/MainReactor.hpp).             *)
(*                                                                         *)
(* Connections complete in the kernel and wait in the listening socket's   *)
(* backlog.  Each completion is an edge; epoll_wait reports the socket     *)
(* once for all edges since its last report.  handleAccept accepts once.   *)
(*                                                                         *)
(* next_sub_idx_ is an int: it wraps round, and as the left operand of %   *)
(* it is first converted to size_t.                                        *)
(***************************************************************************)
EXTENDS Integers

CONSTANTS
  SubCount,         \* sub_reactors_.size()
  IntWidth,         \* bits of int (32)
  SizeWidth,        \* bits of size_t (64)
  Backlog,          \* bound: connections that wait at a time (SOMAXCONN)
  MaxArrivals,      \* bound: connections in all
  Starts,           \* values next_sub_idx_ may start from
  Bursts,           \* may a connection complete before the one before it
                    \* has been accepted?
  OutOfFds          \* may accept fail for want of descriptors?

ASSUME MainReactorAssumption ==
  /\ SubCount \in Nat \ {0}
  /\ IntWidth \in Nat \ {0} /\ SizeWidth \in Nat /\ SizeWidth > IntWidth
  /\ Backlog \in Nat \ {0} /\ MaxArrivals \in Nat
  /\ Bursts \in BOOLEAN /\ OutOfFds \in BOOLEAN

IntMax == 2^(IntWidth - 1) - 1
IntMin == -(2^(IntWidth - 1))
SizeModulus == 2^SizeWidth
Subs == 0..(SubCount - 1)

ASSUME StartsAssumption == Starts \subseteq IntMin..IntMax

(* What the proofs use of the powers of two. *)
ASSUME WidthsAssumption ==
  /\ IntMax \in Nat /\ IntMin = -IntMax - 1
  /\ SizeModulus \in Nat /\ IntMax < SizeModulus

VARIABLES
  backlog,          \* connections waiting to be accepted
  ready,            \* the listening socket is on epoll's ready list
  loopPc,              \* "wait", "accept", "dispatch"
  next_sub_idx_,
  handed,           \* handed[s]: descriptors given to sub-reactor s
  arrived,          \* connections so far
  wraps             \* history: how often next_sub_idx_ has passed from its
                    \* greatest value to its least, or from -1 to 0

mainVars == <<backlog, ready, loopPc, next_sub_idx_, handed, arrived, wraps>>

(* std::atomic<int> without an initialiser: any value. *)
MainInit ==
  /\ backlog = 0 /\ ready = FALSE /\ loopPc = "wait"
  /\ next_sub_idx_ \in Starts
  /\ handed = [s \in Subs |-> 0]
  /\ arrived = 0
  /\ wraps = 0

(* A client's handshake completes: one more in the backlog, and an edge. *)
Arrive ==
  /\ arrived < MaxArrivals /\ backlog < Backlog
  /\ Bursts \/ (backlog = 0 /\ ~ready /\ loopPc = "wait")
  /\ arrived' = arrived + 1
  /\ backlog' = backlog + 1
  /\ ready' = TRUE
  /\ UNCHANGED <<loopPc, next_sub_idx_, handed, wraps>>

(* epoll_wait takes the socket off the list and reports it if a connection  *)
(* is waiting.                                                             *)
doEpoll ==
  /\ loopPc = "wait" /\ ready
  /\ ready' = FALSE
  /\ loopPc' = IF backlog > 0 THEN "accept" ELSE "wait"
  /\ UNCHANGED <<backlog, next_sub_idx_, handed, arrived, wraps>>

(* accept succeeds and the descriptor becomes non-blocking. *)
accept ==
  /\ loopPc = "accept"
  /\ backlog' = backlog - 1
  /\ loopPc' = "dispatch"
  /\ UNCHANGED <<ready, next_sub_idx_, handed, arrived, wraps>>

(* accept fails, which is only logged: the connection stays where it is. *)
acceptFails ==
  /\ OutOfFds
  /\ loopPc = "accept"
  /\ loopPc' = "wait"
  /\ UNCHANGED <<backlog, ready, next_sub_idx_, handed, arrived, wraps>>

(* int arithmetic and the conversion to size_t *)
Increment(i) == IF i = IntMax THEN IntMin ELSE i + 1
ToSize(i) == i % SizeModulus

(* Bug: the index is not advanced. *)
dispatch_SameSub ==
  /\ loopPc = "dispatch"
  /\ handed' = [handed EXCEPT ![ToSize(next_sub_idx_) % SubCount] = @ + 1]
  /\ loopPc' = "wait"
  /\ UNCHANGED <<backlog, ready, next_sub_idx_, arrived, wraps>>

(* The rest of handleAccept: the next sub-reactor gets the descriptor. *)
dispatch ==
  /\ loopPc = "dispatch"
  /\ handed' = [handed EXCEPT ![ToSize(next_sub_idx_) % SubCount] = @ + 1]
  /\ next_sub_idx_' = Increment(next_sub_idx_)
  /\ wraps' = IF next_sub_idx_ \in {IntMax, -1} THEN wraps + 1 ELSE wraps
  /\ loopPc' = "wait"
  /\ UNCHANGED <<backlog, ready, arrived>>

MainLoop == doEpoll \/ accept \/ acceptFails \/ dispatch

MainNext == Arrive \/ MainLoop

MainSpec == MainInit /\ [][MainNext]_mainVars

(* The main thread runs; clients owe nothing. *)
MainFairSpec == MainSpec /\ WF_mainVars(MainLoop)

-----------------------------------------------------------------------------
(* Properties.                                                             *)

(* Round robin: two sub-reactors differ by one connection at most, and by   *)
(* one more for each time the int index has wrapped round, wherever it      *)
(* started.                                                                *)
Balanced == \A s, t \in Subs : handed[s] - handed[t] <= 1 + wraps

(* A connection that has completed is given to a sub-reactor even if no     *)
(* other client ever comes ("dispatch to a sub-thread", MainReactor.cpp:63).*)
WaitingIsServed == backlog > 0 ~> backlog = 0
=============================================================================
