---------------------------- MODULE MCStructures ----------------------------
(* The data structures of the repository on small instances.  A behaviour   *)
(* is about one of them: the mailbox under its spinlock, one ring of some   *)
(* class, the buffer of server.hpp or the order book; the others stay as    *)
(* they start.                                                             *)
EXTENDS Spinlock, Rings, ServerBuffer, OrderBook

CONSTANT Structures

ASSUME StructuresAssumption == Structures \subseteq {"mailbox", "ring", "buffer", "book"}

VARIABLE part

bookVars == <<book, status>>
allVars == <<part, vars, ringVars, serverBufferVars, bookVars>>

StructuresInit ==
  /\ part \in Structures
  /\ Init /\ RingInit /\ ServerBufferInit /\ BookInit
  /\ part # "ring" => ring = CHOOSE r \in Rings \ Running : TRUE
  /\ part # "mailbox" => arg = [t \in Threads |-> CHOOSE i \in Items : TRUE]

MailboxSteps ==
  part = "mailbox" /\ Next /\ UNCHANGED <<part, ringVars, serverBufferVars, bookVars>>
RingSteps ==
  part = "ring" /\ RingNext /\ UNCHANGED <<part, vars, serverBufferVars, bookVars>>
BufferSteps ==
  part = "buffer" /\ ServerBufferNext /\ UNCHANGED <<part, vars, ringVars, bookVars>>
BookSteps ==
  part = "book" /\ BookNext /\ UNCHANGED <<part, vars, ringVars, serverBufferVars>>

(* Threads inside an operation run, and callers of a ring try again:          *)
(* push_busywait, pop_busywait, the loops around push and pop.  Nobody has   *)
(* to begin a push.                                                        *)
StructuresSpec ==
  /\ StructuresInit /\ [][MailboxSteps \/ RingSteps \/ BufferSteps \/ BookSteps]_allVars
  /\ \A t \in Threads : WF_vars(part = "mailbox" /\ Step(t))
  /\ \A p \in RingProducers : WF_ringVars(part = "ring" /\ ~At(p, "idle") /\ PutStep(p))
  /\ \A c \in RingConsumers : WF_ringVars(part = "ring" /\ TakeStep(c))
=============================================================================
