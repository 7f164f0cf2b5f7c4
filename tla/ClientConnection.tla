--------------------------- MODULE ClientConnection ---------------------------
(* CivetWeb as a client: mg_connect_client(), mg_get_response(),              *)
(* mg_download(), mg_connect_websocket_client() and mg_close_connection() of  *)
(* civetweb.c, compiled without TLS.  One user thread makes the calls; a      *)
(* WebSocket connection has a thread of its own that reads it.  Every call to *)
(* the operating system may fail, and the server answers when it likes, also  *)
(* with an interim response before the final one.                             *)
(*                                                                            *)
(* Time is counted in tenths of the default timeout.  What is read of a       *)
(* response after its head is in BodyStream, WebSocket frames are in          *)
(* WebSocketStream.                                                           *)
EXTENDS Integers, FiniteSets

CONSTANTS
  Apis,         \* calls the user makes: "http", "download", "ws"
  Timeouts,     \* what mg_get_response() is given, negative for "forever"
  Default,      \* the default of request_timeout_ms
  MaxClock,     \* bound on the time of one wait
  MaxRequests,  \* bound on requests
  Interims      \* whether the server may send interim responses: subset of BOOLEAN

VARIABLES
  pc,           \* the step of the user's call
  api,          \* the call that opens the connection
  held,         \* what the connection owns: memory, socket, mutex, thread data, thread ids
  misuse,       \* something was freed twice or used after it was freed
  ctype,        \* phys_ctx->context_type
  stopFlag,     \* phys_ctx->stop_flag
  thread,       \* the WebSocket client thread
  ebuf,         \* the error buffer holds a text
  ret,          \* what the opening call returned
  timeout,      \* config[REQUEST_TIMEOUT]: the number given, or Unset
  clock,        \* time spent waiting
  sent, due,    \* requests sent; final responses the server still owes
  wire,         \* responses that have arrived at the socket
  rest          \* responses in conn->buf behind the one that is looked at

ConstantsAreProper ==
  /\ Apis \subseteq {"http", "download", "ws"} /\ Timeouts \subseteq Int /\ Default \in Nat
  /\ MaxClock \in Nat /\ MaxRequests \in Nat /\ Interims \subseteq BOOLEAN

owned  == <<held, misuse, ctype>>
server == <<sent, due, wire, rest>>
waitv  == <<timeout, clock>>
vars == <<pc, api, owned, stopFlag, thread, ebuf, ret, waitv, server>>

Unset == -1000

Init ==
  /\ pc = "idle" /\ api = "none" /\ held = {} /\ misuse = FALSE /\ ctype = "http"
  /\ stopFlag = 0 /\ thread = "none" /\ ebuf = FALSE /\ ret = "none"
  /\ timeout = Unset /\ clock = 0
  /\ sent = 0 /\ due = 0 /\ wire = 0 /\ rest = 0

Take(r) == held' = held \cup {r} /\ UNCHANGED <<misuse, ctype>>
Free(rs) == held' = held \ rs /\ misuse' = (misuse \/ ~(rs \subseteq held)) /\ UNCHANGED ctype
Quiet == UNCHANGED <<stopFlag, thread, waitv, server>>

(* The opening call returns NULL with an error text, having freed `rs`.       *)
FailWith(rs) == Free(rs) /\ ebuf' = TRUE /\ ret' = "null" /\ pc' = "failed"
Goes(p) == pc' = p /\ UNCHANGED <<ebuf, ret>>

(* mg_connect_client_impl(): one block of memory for connection and context.  *)
Connect ==
  /\ pc = "idle" /\ api' \in Apis
  /\ ebuf' = FALSE
  /\ \/ pc' = "args" /\ ret' = "none" /\ Take("conn")
     \/ pc' = "failed" /\ ret' = "null" /\ Free({})
  /\ IF pc' = "failed" THEN ebuf' = TRUE ELSE TRUE
  /\ Quiet

(* connect_socket(): a host that is no address, a port out of range, socket() *)
CreateSocket ==
  /\ pc = "args"
  /\ \/ Take("sock") /\ Goes("nonblock")
     \/ FailWith({"conn"})
  /\ UNCHANGED api /\ Quiet

(* From here a failure closes the socket too. *)
SocketToo == {"sock", "conn"}
SetNonBlocking ==
  /\ pc = "nonblock"
  /\ \/ UNCHANGED owned /\ Goes("connecting")
     \/ FailWith(SocketToo)
  /\ UNCHANGED api /\ Quiet

(* connect() is done, in progress until poll() says so, or refused.           *)
PollConnect ==
  /\ pc = "connecting"
  /\ \/ UNCHANGED owned /\ Goes("mutex")
     \/ FailWith(SocketToo)
  /\ UNCHANGED api /\ Quiet

InitMutex ==
  /\ pc = "mutex"
  /\ \/ /\ Take("mutex") /\ UNCHANGED ebuf
        /\ IF api = "http" THEN pc' = "open" /\ ret' = "conn" ELSE pc' = "send" /\ UNCHANGED ret
     \/ FailWith(SocketToo)
  /\ UNCHANGED api /\ Quiet

(* After a failure mg_close_connection() frees what there is; the opening     *)
(* call then returns NULL.                                                    *)
CloseAfter(text) == ebuf' = text /\ pc' = "close" /\ ret' = "null" /\ UNCHANGED owned

(* Throwing away what the buffer holds, "Reset the previous responses". *)
ResetBuffer == rest' = 0

(* A request is sent; then the answer is waited for. *)
SendRequest ==
  /\ pc \in {"send", "open"} /\ ctype = "http" /\ sent < MaxRequests
  /\ pc = "open" => api = "http"
  /\ \/ /\ sent' = sent + 1 /\ due' = due + 1
        /\ pc' = IF pc = "open" THEN "open" ELSE "wait"
        /\ IF pc = "send" THEN ResetBuffer /\ clock' = 0 ELSE UNCHANGED <<rest, clock>>
        /\ UNCHANGED <<ebuf, ret, owned>>
     \/ /\ pc = "send" /\ CloseAfter(TRUE)
        /\ UNCHANGED <<sent, due, rest, clock>>
  /\ UNCHANGED <<api, stopFlag, thread, timeout, wire>>

(* mg_get_response(): its timeout replaces the configured one for the call.   *)
StartGet ==
  /\ pc = "open" /\ api = "http"
  /\ \E t \in Timeouts : timeout' = IF t >= 0 THEN t ELSE Unset
  /\ pc' = "wait" /\ clock' = 0 /\ ebuf' = FALSE
  /\ ResetBuffer
  /\ UNCHANGED <<api, owned, stopFlag, thread, ret, sent, due, wire>>

(* The server sends what it owes, after an interim response if it likes; one  *)
(* segment may carry both.                                                    *)
ServerAnswers ==
  /\ due > 0
  /\ \E interim \in Interims : wire' = wire + (IF interim THEN 2 ELSE 1)
  /\ due' = due - 1
  /\ UNCHANGED <<pc, api, owned, stopFlag, thread, ebuf, ret, waitv, sent, rest>>

Limit == IF timeout = Unset THEN Default ELSE timeout

(* The call ends: the configuration gets its old value back. *)
Restore(text) == timeout' = Unset
EndGet(text) ==
  /\ Restore(text)
  /\ IF api = "http"
       THEN pc' = "open" /\ ebuf' = text /\ UNCHANGED <<owned, ret>>
       ELSE IF text THEN CloseAfter(TRUE)
       ELSE /\ pc' = IF api = "download" THEN "open" ELSE "upgrade"
            /\ ret' = IF api = "download" THEN "conn" ELSE ret
            /\ UNCHANGED <<ebuf, owned>>

(* get_response() with a head that has arrived, good or bad.  All that has    *)
(* arrived goes into the buffer.                                              *)
Respond ==
  /\ pc = "wait" /\ wire > 0
  /\ \E bad \in BOOLEAN : EndGet(bad)
  /\ rest' = wire - 1 /\ wire' = 0
  /\ UNCHANGED <<api, stopFlag, thread, clock, sent, due>>

(* Nothing arrived in time, or the server closed the connection. *)
Expires(kind) ==
  /\ pc = "wait" /\ wire = 0
  /\ kind = "timeout" => clock >= Limit
  /\ EndGet(TRUE)
  /\ UNCHANGED <<api, stopFlag, thread, clock, server>>
Timeout == Expires("timeout")
PeerCloses == Expires("closed")

Tick ==
  /\ pc = "wait" /\ wire = 0 /\ clock < MaxClock /\ clock < Limit
  /\ clock' = clock + 1
  /\ UNCHANGED <<pc, api, owned, stopFlag, thread, ebuf, ret, timeout, server>>

(* mg_connect_websocket_client(): any status but 101 is an error; then the    *)
(* data and the id of the thread are allocated and the thread starts.  The    *)
(* last three failures leave no text in the error buffer.                     *)
Upgrade ==
  /\ pc = "upgrade"
  /\ \/ CloseAfter(TRUE)
     \/ CloseAfter(FALSE)
     \/ Take("cdata") /\ Goes("ids")
  /\ UNCHANGED api /\ Quiet

NoIds == /\ held' = held \ {"cdata"} /\ misuse' = (misuse \/ "cdata" \notin held)
         /\ UNCHANGED ctype
         /\ ebuf' = FALSE /\ pc' = "close" /\ ret' = "null"

AllocateIds ==
  /\ pc = "ids"
  /\ \/ NoIds
     \/ /\ held' = held \cup {"ids"} /\ ctype' = "ws" /\ UNCHANGED misuse
        /\ Goes("start")
  /\ UNCHANGED api /\ Quiet

StartThread ==
  /\ pc = "start"
  /\ \/ /\ thread' = "reading" /\ pc' = "open" /\ ret' = "conn" /\ UNCHANGED <<owned, ebuf>>
     \/ NoIds /\ UNCHANGED thread
  /\ UNCHANGED <<api, stopFlag, waitv, server>>

(* websocket_client_thread(): it reads until the server closes or stop_flag   *)
(* is set, calls the close handler, and says that it has stopped.             *)
Touch == misuse' = (misuse \/ "conn" \notin held)
ThreadEnds ==
  /\ thread = "reading"
  /\ Touch /\ thread' = "closing"
  /\ UNCHANGED <<pc, api, held, ctype, stopFlag, ebuf, ret, waitv, server>>
ThreadClosed ==
  /\ thread = "closing"
  /\ Touch /\ stopFlag' = 2 /\ thread' = "stopped"
  /\ UNCHANGED <<pc, api, held, ctype, ebuf, ret, waitv, server>>
ThreadExits ==
  /\ thread = "stopped"
  /\ Free({"cdata"}) /\ thread' = "done"
  /\ UNCHANGED <<pc, api, stopFlag, ebuf, ret, waitv, server>>
ThreadStep == (stopFlag # 0 /\ ThreadEnds) \/ ThreadClosed \/ ThreadExits

(* mg_close_connection(): the thread of a WebSocket client is told to stop    *)
(* and joined before anything is freed.                                       *)
Close ==
  /\ pc \in {"open", "close"}
  /\ pc' = "join"
  /\ stopFlag' = IF ctype = "ws" THEN 1 ELSE stopFlag
  /\ UNCHANGED <<api, owned, thread, ebuf, ret, waitv, server>>

JoinNone == TRUE
Join == thread \in {"none", "done"}
FreeAll ==
  /\ pc = "join" /\ Join
  /\ Free({"sock", "mutex", "conn"} \cup IF ctype = "ws" THEN {"ids"} ELSE {})
  /\ pc' = "closed"
  /\ UNCHANGED <<api, stopFlag, thread, ebuf, ret, waitv, server>>

UserStep ==
  \/ Connect \/ CreateSocket \/ SetNonBlocking \/ PollConnect \/ InitMutex
  \/ SendRequest \/ StartGet \/ Respond \/ Timeout \/ PeerCloses \/ Tick
  \/ Upgrade \/ AllocateIds \/ StartThread \/ Close \/ FreeAll

Next == UserStep \/ ServerAnswers \/ ThreadEnds \/ ThreadClosed \/ ThreadExits

(* The operating system runs the thread, a handler returns, and poll() wakes  *)
(* up at the latest after SOCKET_TIMEOUT_QUANTUM to look at stop_flag.        *)
Spec == Init /\ [][Next]_vars /\ WF_vars(ThreadStep) /\ WF_vars(Connect)
        /\ WF_vars(FreeAll) /\ WF_vars(Tick) /\ WF_vars(Timeout) /\ WF_vars(Respond)

-----------------------------------------------------------------------------
(* Types; and no thread without its connection. *)
TypeOK ==
  /\ held \subseteq {"conn", "sock", "mutex", "cdata", "ids"}
  /\ ctype \in {"http", "ws"} /\ stopFlag \in 0 .. 2
  /\ thread \in {"none", "reading", "closing", "stopped", "done"}
  /\ clock \in 0 .. MaxClock /\ rest >= 0
  /\ thread # "none" => ctype = "ws"

(* Memory, socket, mutex and thread data are freed once, and never while the  *)
(* thread of the connection still uses them.                                  *)
NoMisuse == ~misuse

(* A call that has failed and a connection that was closed leave nothing      *)
(* behind.                                                                    *)
NothingLeaks == pc \in {"failed", "closed"} => held = {} /\ thread \in {"none", "done"}

(* The timeout of mg_get_response() lives in a buffer of that call: the       *)
(* configuration refers to it only while the call runs, whatever its outcome. *)
TimeoutIsLocal == timeout # Unset => pc = "wait"

-----------------------------------------------------------------------------
(* The inductive invariant. What the connection owns at each step of the      *)
(* call: it grows as the call goes on, the thread has data of its own while   *)
(* it runs, and its id stays until it is joined.                              *)
Runs    == thread \in {"reading", "closing", "stopped"}
Nothing == pc \in {"idle", "failed", "closed"}
Owned ==
  {r \in {"conn", "sock", "mutex", "cdata", "ids"} :
     /\ ~Nothing
     /\ r = "sock"  => pc # "args"
     /\ r = "mutex" => pc \notin {"args", "nonblock", "connecting", "mutex"}
     /\ r = "cdata" => pc \in {"ids", "start"} \/ Runs
     /\ r = "ids"   => ctype = "ws"}

(* A WebSocket has been through its upgrade, and only it has a thread. *)
IsWebSocket ==
  /\ pc # "idle" => api \in Apis
  /\ pc \in {"upgrade", "ids", "start"} => api = "ws"
  /\ pc = "start" => ctype = "ws"
  /\ ctype = "ws" => api = "ws" /\ pc \in {"start", "open", "close", "join", "closed"}
  /\ thread # "none" => ctype = "ws" /\ pc \in {"open", "join", "closed"}
  /\ pc = "closed" => ~Runs

ClientInv ==
  /\ TypeOK /\ wire \in Nat
  /\ held = Owned /\ ~misuse /\ IsWebSocket /\ TimeoutIsLocal

=============================================================================
