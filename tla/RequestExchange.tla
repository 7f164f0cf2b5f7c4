--------------------------- MODULE RequestExchange ---------------------------
(***************************************************************************)
(* What the bridge between CivetWeb and R promises an HTTP request: a FIFO *)
(* hands every request to R at most once, R answers what it was handed,    *)
(* and stopping the server refuses everything that has no answer yet.      *)
(* RequestBridge is shown to implement this.                               *)
(***************************************************************************)
EXTENDS Sequences

CONSTANT Requests

VARIABLES
  waiting,    \* requests not yet handed to R, oldest first
  handed,     \* requests R has and has not answered
  answered,   \* requests answered by R
  refused     \* requests answered 503 by a stop

vars == <<waiting, handed, answered, refused>>

InWaiting == {waiting[i] : i \in DOMAIN waiting}
Seen == InWaiting \cup handed \cup answered \cup refused

Init == waiting = <<>> /\ handed = {} /\ answered = {} /\ refused = {}

Ask(r) ==
  /\ r \notin Seen
  /\ waiting' = Append(waiting, r)
  /\ UNCHANGED <<handed, answered, refused>>

Hand ==
  /\ waiting # <<>>
  /\ handed' = handed \cup {Head(waiting)}
  /\ waiting' = Tail(waiting)
  /\ UNCHANGED <<answered, refused>>

Answer(r) ==
  /\ r \in handed
  /\ handed' = handed \ {r}
  /\ answered' = answered \cup {r}
  /\ UNCHANGED <<waiting, refused>>

Stop ==
  /\ refused' = refused \cup InWaiting \cup handed
  /\ waiting' = <<>> /\ handed' = {}
  /\ UNCHANGED answered

Next == Hand \/ Stop \/ \E r \in Requests : Ask(r) \/ Answer(r)

Spec == Init /\ [][Next]_vars
=============================================================================
