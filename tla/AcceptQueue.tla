----------------------------- MODULE AcceptQueue -----------------------------
(***************************************************************************)
(* What the socket queue of CivetWeb promises: a bounded FIFO channel      *)
(* between the master thread, which accepts connections, and the workers.  *)
(***************************************************************************)
EXTENDS Naturals, Sequences

CONSTANTS
  Conns,       \* the connections clients may open
  Capacity     \* sockets the queue holds at most

VARIABLE waiting   \* the accepted sockets no worker has taken, oldest first

Init == waiting = <<>>

Produce == \E c \in Conns :
  /\ Len(waiting) < Capacity
  /\ waiting' = Append(waiting, c)

Consume == waiting # <<>> /\ waiting' = Tail(waiting)

Next == Produce \/ Consume

Spec == Init /\ [][Next]_waiting
=============================================================================
