----------------------------- MODULE SocketClose -----------------------------
(* close_socket_gracefully() of civetweb.c: how a connection ends whose last  *)
(* response may still be on its way.  The socket is TCP as the code relies on *)
(* it: it sends what was written until the client has acknowledged it, close()*)
(* lets it go on in the background, but a linger time of 0, or data that was  *)
(* never read, makes close() throw the rest away and reset the connection.    *)
EXTENDS Integers

CONSTANTS
  Lingers,      \* configured linger_timeout_ms, the 0 of server.c among them; and a
                \* number below -1, for none
  MaxWritten    \* bound on the pieces of the response

VARIABLES
  config,       \* config[LINGER_TIMEOUT]
  pc,
  linger,       \* SO_LINGER of the socket: Off or a number of seconds
  written, arrived,   \* pieces mg_write() gave to the socket; pieces at the client
  unread,       \* the client has sent what nobody reads any more
  fin,          \* the client has been told that this was all
  reset,        \* the connection was reset
  gone          \* the client went away by itself

Off == -1
vars == <<config, pc, linger, written, arrived, unread, fin, reset, gone>>

Init ==
  /\ config \in Lingers /\ pc = "serve" /\ linger = Off
  /\ written = 0 /\ arrived = 0 /\ unread = FALSE
  /\ fin = FALSE /\ reset = FALSE /\ gone = FALSE

Write ==
  /\ pc = "serve" /\ written < MaxWritten
  /\ written' = written + 1
  /\ UNCHANGED <<config, pc, linger, arrived, unread, fin, reset, gone>>

(* "Send FIN to the client" *)
Shutdown ==
  /\ pc = "serve"
  /\ pc' = "linger"
  /\ UNCHANGED <<config, linger, written, arrived, unread, fin, reset, gone>>

(* A linger time in milliseconds is rounded up to seconds; below 0 there is   *)
(* none.  The option stays as it is when the configuration says nothing, when *)
(* the client has already reset the connection, or when a call fails.         *)
Seconds(t) == (t + 999) \div 1000

SetLinger ==
  /\ pc = "linger"
  /\ \/ UNCHANGED linger
     \/ /\ config >= -1
        /\ linger' = IF config >= 0 THEN Seconds(config) ELSE Off
  /\ pc' = "close"
  /\ UNCHANGED <<config, written, arrived, unread, fin, reset, gone>>

Aborts == unread \/ linger = 0

(* With a positive linger time close() waits for the acknowledgements, at     *)
(* most so long.                                                              *)
CloseSocket ==
  /\ pc = "close"
  /\ linger \in {Off, 0} \/ arrived = written \/ gone \/ Aborts
  /\ pc' = "closed"
  /\ reset' = (Aborts /\ ~(fin /\ arrived = written))
  /\ UNCHANGED <<config, linger, written, arrived, unread, fin, gone>>

LingerExpires ==
  /\ pc = "close" /\ linger \notin {Off, 0}
  /\ pc' = "closed"
  /\ UNCHANGED <<config, linger, written, arrived, unread, fin, reset, gone>>

(* The network and the client. *)
Arrive ==
  /\ ~reset /\ ~gone /\ arrived < written
  /\ arrived' = arrived + 1
  /\ UNCHANGED <<config, pc, linger, written, unread, fin, reset, gone>>
FinArrives ==
  /\ ~reset /\ ~gone /\ pc # "serve" /\ arrived = written /\ ~fin
  /\ fin' = TRUE
  /\ UNCHANGED <<config, pc, linger, written, arrived, unread, reset, gone>>
(* A body that was refused, or a further request; TCP answers what comes after*)
(* close() with a reset.                                                      *)
ClientSends ==
  /\ ~reset /\ ~gone
  /\ unread' = TRUE /\ reset' = (pc = "closed")
  /\ UNCHANGED <<config, pc, linger, written, arrived, fin, gone>>
ClientLeaves ==
  /\ ~gone /\ ~reset
  /\ gone' = TRUE
  /\ UNCHANGED <<config, pc, linger, written, arrived, unread, fin, reset>>

Server == Shutdown \/ SetLinger \/ CloseSocket \/ LingerExpires
Network == Arrive \/ FinArrives
Next == Write \/ Server \/ Network \/ ClientSends \/ ClientLeaves

(* The worker goes on; the network delivers while both ends are there.        *)
Spec == Init /\ [][Next]_vars /\ WF_vars(Server) /\ WF_vars(Network)

-----------------------------------------------------------------------------
(* Types; and a linger time only where the configuration has one.             *)
TypeOK ==
  /\ pc \in {"serve", "linger", "close", "closed"}
  /\ linger \in Nat \cup {Off} /\ (linger # Off => config >= 0)
  /\ arrived \in 0 .. written /\ written \in 0 .. MaxWritten

(* A client that stays is not left waiting: it has all that was written and   *)
(* knows that it was all, or its connection was reset.                        *)
ClientLearnsTheEnd == pc = "closed" ~> ((arrived = written /\ fin) \/ reset \/ gone)

(* "Now we know that our FIN is ACK-ed, safe to close" (civetweb.c:18347)     *)
(* holds but for a configured linger time of exactly 0, which is the one of   *)
(* server.c:818, and for data nobody has read (18254 drains only on Windows): *)
(* only then can the rest of a response be thrown away.                       *)
OnlyTheseReset == [][reset' => reset \/ unread' \/ config = 0]_vars
=============================================================================
