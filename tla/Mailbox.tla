------------------------------- MODULE Mailbox -------------------------------
(***************************************************************************)
(* What newConnections_ and sendQueue_ promise to SubReactor: a push and   *)
(* the taking of the whole mailbox are each one step.                      *)
(***************************************************************************)
EXTENDS Sequences

CONSTANTS Items

VARIABLES
  box,              \* what has been pushed and not yet taken
  delivered         \* everything the reactor has taken, in order

Init ==
  /\ box = <<>>
  /\ delivered = <<>>

push(x) ==
  /\ box' = Append(box, x)
  /\ UNCHANGED delivered

take ==
  /\ delivered' = delivered \o box
  /\ box' = <<>>

Next == take \/ \E x \in Items : push(x)

Spec == Init /\ [][Next]_<<box, delivered>>
=============================================================================
