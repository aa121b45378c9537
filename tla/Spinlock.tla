------------------------------ MODULE Spinlock ------------------------------
(***************************************************************************)
(* The Spinlock of muduo/include/Utils.hpp and the mailbox it protects:    *)
(* enqueueNewConnection, enqueueSend and the two process functions of      *)
(* SubReactor each lock, touch the vector and unlock.                      *)
(*                                                                         *)
(* The lock is modelled access by access: exchange, the relaxed loads of   *)
(* the inner loop, the releasing store.  The vector is not atomic:         *)
(* push_back reads the vector and writes it back in two steps, and         *)
(* std::move copies it out and then empties it.                            *)
(***************************************************************************)
EXTENDS Integers, Sequences

CONSTANTS
  Pushers,          \* threads that push
  Taker,            \* the reactor's thread
  Items,            \* descriptors
  MaxPushes         \* bound: pushes of all threads

Threads == Pushers \cup {Taker}

ASSUME SpinlockAssumption ==
  /\ Taker \notin Pushers
  /\ MaxPushes \in Nat

VARIABLES
  lock_,            \* the atomic flag
  pc,               \* pc[t]: where t is
  arg,              \* arg[t]: what t is going to push
  copy,             \* copy[t]: the vector as t has read it
  mailbox,          \* the vector
  delivered,        \* history: what the taker has moved out
  pushes            \* calls of enqueue... so far

vars == <<lock_, pc, arg, copy, mailbox, delivered, pushes>>

Pcs == {"out", "exchange", "load", "in", "store", "unlock"}

Inside == {"in", "store", "unlock"}

Init ==
  /\ lock_ = FALSE
  /\ pc = [t \in Threads |-> "out"]
  /\ arg \in [Threads -> Items]
  /\ copy = [t \in Threads |-> <<>>]
  /\ mailbox = <<>>
  /\ delivered = <<>>
  /\ pushes = 0

-----------------------------------------------------------------------------
(* A thread calls enqueueNewConnection, enqueueSend or a process function. *)
call(t, x) ==
  /\ pc[t] = "out"
  /\ pc' = [pc EXCEPT ![t] = "exchange"]
  /\ \/ t = Taker /\ UNCHANGED <<arg, pushes>>
     \/ /\ t # Taker
        /\ pushes < MaxPushes
        /\ pushes' = pushes + 1
        /\ arg' = [arg EXCEPT ![t] = x]
  /\ UNCHANGED <<lock_, copy, mailbox, delivered>>

(* Bug: the flag is loaded and then stored, not exchanged. *)
lockExchange_LoadOnly(t) ==
  /\ pc[t] = "exchange"
  /\ UNCHANGED lock_
  /\ pc' = [pc EXCEPT ![t] = IF lock_ THEN "load" ELSE "in"]
  /\ UNCHANGED <<arg, copy, mailbox, delivered, pushes>>

(* lock_.exchange(true): the old value decides. *)
lockExchange(t) ==
  /\ pc[t] = "exchange"
  /\ lock_' = TRUE
  /\ pc' = [pc EXCEPT ![t] = IF lock_ THEN "load" ELSE "in"]
  /\ UNCHANGED <<arg, copy, mailbox, delivered, pushes>>

(* One turn of the inner loop; a load that sees true loops. *)
lockLoad(t) ==
  /\ pc[t] = "load"
  /\ pc' = [pc EXCEPT ![t] = IF lock_ THEN "load" ELSE "exchange"]
  /\ UNCHANGED <<lock_, arg, copy, mailbox, delivered, pushes>>

(* The first half of push_back or of the move. *)
readMailbox(t) ==
  /\ pc[t] = "in"
  /\ copy' = [copy EXCEPT ![t] = mailbox]
  /\ pc' = [pc EXCEPT ![t] = "store"]
  /\ UNCHANGED <<lock_, arg, mailbox, delivered, pushes>>

(* The second half. *)
storeMailbox(t) ==
  /\ pc[t] = "store"
  /\ pc' = [pc EXCEPT ![t] = "unlock"]
  /\ \/ /\ t = Taker
        /\ mailbox' = <<>>
        /\ delivered' = delivered \o copy[t]
     \/ /\ t # Taker
        /\ mailbox' = Append(copy[t], arg[t])
        /\ UNCHANGED delivered
  /\ UNCHANGED <<lock_, arg, copy, pushes>>

(* Bug: the lock is never released. *)
unlock_Forgotten(t) ==
  /\ pc[t] = "unlock"
  /\ pc' = [pc EXCEPT ![t] = "out"]
  /\ UNCHANGED <<lock_, arg, copy, mailbox, delivered, pushes>>

unlock(t) ==
  /\ pc[t] = "unlock"
  /\ lock_' = FALSE
  /\ pc' = [pc EXCEPT ![t] = "out"]
  /\ UNCHANGED <<arg, copy, mailbox, delivered, pushes>>

-----------------------------------------------------------------------------
Step(t) ==
  \/ lockExchange(t) \/ lockLoad(t)
  \/ readMailbox(t) \/ storeMailbox(t) \/ unlock(t)

Next == \E t \in Threads : Step(t) \/ \E x \in Items : call(t, x)

Spec == Init /\ [][Next]_vars

(* A thread inside a call is scheduled; nobody has to call. *)
FairSpec == Spec /\ \A t \in Threads : WF_vars(Step(t))

-----------------------------------------------------------------------------
(* Properties.                                                             *)

TypeOK ==
  /\ lock_ \in BOOLEAN
  /\ pc \in [Threads -> Pcs]
  /\ arg \in [Threads -> Items]
  /\ copy \in [Threads -> Seq(Items)]
  /\ mailbox \in Seq(Items)
  /\ delivered \in Seq(Items)
  /\ pushes \in 0..MaxPushes

(* Two threads are never between lock() and unlock() at once. *)
MutualExclusion ==
  \A t, u \in Threads : pc[t] \in Inside /\ pc[u] \in Inside => t = u

(* The flag is up while a thread is inside, and what a thread has read of   *)
(* the vector is still true when it writes the vector back.                *)
LockCovers ==
  /\ (\E t \in Threads : pc[t] \in Inside) => lock_
  /\ \A t \in Threads : pc[t] = "store" => copy[t] = mailbox

IInv == TypeOK /\ MutualExclusion /\ LockCovers

Box == INSTANCE Mailbox WITH box <- mailbox

(* Under the lock the two-step accesses behave as one: no push is lost, no  *)
(* descriptor is taken twice.  SubReactor relies on this.                  *)
ImplementsMailbox == Box!Spec

(* The lock never hangs: while somebody waits for it, somebody gets in. *)
Progress ==
  (\E t \in Threads : pc[t] \in {"exchange", "load"}) ~> (\E t \in Threads : pc[t] \in Inside)
=============================================================================
