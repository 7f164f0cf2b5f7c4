---------------------------- MODULE RequestBridge ----------------------------
(***************************************************************************)
(* The native half of civetwebR (src/src/server.c): CivetWeb worker        *)
(* threads run the HTTP and WebSocket callbacks, the single R thread runs  *)
(* the .Call entry points, and both meet in a FIFO of cw_request_t objects *)
(* (q_head/q_tail) and a list of anchors (active_head) under g_lock.       *)
(*                                                                         *)
(* One action is one critical section, or one stretch of code that touches *)
(* no shared state.  Objects are named in allocation order and a name is   *)
(* never used again, so a pointer kept across free() stays recognisable:   *)
(* following one is UseFreed, which ends the run with fault = TRUE.        *)
(***************************************************************************)
EXTENDS Naturals, Sequences, FiniteSets, SequencesExt

CONSTANTS
  Workers,         \* CivetWeb worker threads; each owns one mg_connection
  NoConn,          \* the NULL mg_connection pointer
  MaxObjs,         \* bound: calls of calloc(1, sizeof(cw_request_t))
  MaxStops,        \* bound: calls of civetweb_stop_server
  UserInterrupts   \* may an error or interrupt throw the R loop off a request?

ASSUME NoConnAssumption == NoConn \notin Workers
ASSUME BoundsAssumption ==
  MaxObjs \in Nat /\ MaxStops \in Nat /\ UserInterrupts \in BOOLEAN

Objs == 1..MaxObjs
Null == 0          \* the NULL cw_request_t pointer, and the id of no request

HttpPcs == {"read", "wait", "write", "free"}
WsPcs   == {"wsready", "wsopen", "wsframe", "wsclose"}
Pcs     == {"idle", "httpreq", "wsreq"} \cup HttpPcs \cup WsPcs
RPcs    == {"top", "boot", "poll", "reap", "dispatch", "respond", "wssend",
            "flag", "join"}

VARIABLES
  obj,      \* the cw_request_t objects; answer # "none" iff responded = 1
  queue,    \* q_head .. q_tail
  active,   \* members of the active_head list
  nextId,   \* next_id
  running,  \* g_running
  ctx,      \* the mg_context: none, booting (no handlers yet), up, stopping
  stops,    \* calls of civetweb_stop_server so far
  pc,       \* where each worker is
  own,      \* the worker's r of handler(), or its connection's user data
  rpc,      \* where the R thread is
  cur,      \* the object of the event the R loop is processing
  target,   \* r of civetweb_send_response and civetweb_ws_send
  sock,     \* the connection civetweb_ws_send has checked
  fault     \* a freed object has been followed

storeVars  == <<obj, queue, active, nextId>>
serverVars == <<running, ctx, stops>>
workerVars == <<pc, own>>
rVars      == <<rpc, cur, target, sock>>
vars == <<storeVars, serverVars, workerVars, rVars, fault>>

NoObj == [mem |-> "unused", ev |-> "none", id |-> Null, answer |-> "none",
          conn |-> NoConn]

RequestType ==
  [mem : {"unused", "live", "freed"}, ev : {"none", "http", "ready", "data", "close"},
   id : Nat, answer : {"none", "r", "503"}, conn : Workers \cup {NoConn}]

\* Every variable has its type.
TypeOK ==
  /\ obj \in [Objs -> RequestType]
  /\ queue \in Seq(Objs) /\ active \subseteq Objs /\ nextId \in Nat \ {0}
  /\ running \in BOOLEAN /\ ctx \in {"none", "booting", "up", "stopping"}
  /\ stops \in 0..MaxStops
  /\ pc \in [Workers -> Pcs] /\ own \in [Workers -> Objs \cup {Null}]
  /\ rpc \in RPcs /\ cur \in Objs \cup {Null} /\ target \in Objs \cup {Null}
  /\ sock \in Workers \cup {NoConn} /\ fault \in BOOLEAN

\* static int next_id = 1
FirstId == 1

Init ==
  /\ obj = [o \in Objs |-> NoObj]
  /\ queue = <<>> /\ active = {} /\ nextId = FirstId
  /\ running = FALSE /\ ctx = "none" /\ stops = 0
  /\ pc = [w \in Workers |-> "idle"] /\ own = [w \in Workers |-> Null]
  /\ rpc = "top" /\ cur = Null /\ target = Null /\ sock = NoConn
  /\ fault = FALSE

-----------------------------------------------------------------------------
(* Objects.                                                                *)

Live(o)      == obj[o].mem = "live"
Responded(o) == obj[o].answer # "none"
Unused       == {o \in Objs : obj[o].mem = "unused"}
Fresh        == {o \in Unused : \A p \in Unused : o <= p}

\* calloc and the assignments that follow it
New(event, n, c) ==
  [mem |-> "live", ev |-> event, id |-> n, answer |-> "none", conn |-> c]

Freed(o) == [obj[o] EXCEPT !.mem = "freed"]

\* (mutant) the response is filled in, responded is not
AnswerUnmarked(o, a) == obj[o]
Answer(o, a) == [obj[o] EXCEPT !.answer = a]   \* responded = 1 as well

\* next_id++
AfterId == nextId + 1

\* (mutant) the request goes before q_head
EnqueuedAtHead(o) == <<o>> \o queue

\* enqueue() follows q_tail, if there is one, and appends
TailLive    == queue # <<>> => Live(queue[Len(queue)])
Enqueued(o) == Append(queue, o)
Queued      == ToSet(queue)

WsAnchors   == {"ready"}

\* the events dequeue_timeout() moves to the active list
Anchors == {"http", "ready"}

\* (mutants) find_active() without the comparison, remove_active() without effect
FindAny(n)    == active
RemoveNone(S) == active

FindActive(n)   == {a \in active : obj[a].id = n}
RemoveActive(S) == active \ S

\* the id a WebSocket callback reads through the connection's user data
AnchorId(w) == obj[own[w]].id

\* A connection is taken on only while the bound leaves objects for all its
\* events: running out of names must not look like running out of memory.
Owing(k)  == CASE k = 1 -> {w \in Workers : pc[w] \in WsPcs \cup {"httpreq", "wsreq"}}
               [] k = 2 -> {w \in Workers : pc[w] \in {"wsreq", "wsframe"}}
Room(n)   == Cardinality(Unused) >= Cardinality(Owing(1)) + Cardinality(Owing(2)) + n

-----------------------------------------------------------------------------
(* Worker threads: HTTP.                                                   *)

\* A worker has taken a connection and parsed a request; what follows runs
\* even if the server begins to stop.
Accept(w, kind) ==
  /\ pc[w] = "idle" /\ ctx = "up"
  /\ Room(IF kind = "httpreq" THEN 1 ELSE 2)
  /\ pc' = [pc EXCEPT ![w] = kind]
  /\ UNCHANGED <<storeVars, serverVars, own, rVars, fault>>

\* (mutant) next_id++ without the check of g_running
AdmitUnchecked(w) ==
  /\ pc[w] = "httpreq"
  /\ \E o \in Fresh :
       /\ obj' = [obj EXCEPT ![o] = New("http", nextId, w)]
       /\ own' = [own EXCEPT ![w] = o]
  /\ nextId' = AfterId
  /\ pc' = [pc EXCEPT ![w] = "read"]
  /\ UNCHANGED <<queue, active, serverVars, rVars, fault>>

\* handler(): the check of g_running and next_id++, under g_lock
Admit(w) ==
  /\ pc[w] = "httpreq" /\ running
  /\ \E o \in Fresh :
       /\ obj' = [obj EXCEPT ![o] = New("http", nextId, w)]
       /\ own' = [own EXCEPT ![w] = o]
  /\ nextId' = AfterId
  /\ pc' = [pc EXCEPT ![w] = "read"]
  /\ UNCHANGED <<queue, active, serverVars, rVars, fault>>

\* handler(): g_running is 0, so 503 and no object is left behind
Refuse(w) ==
  /\ pc[w] = "httpreq" /\ ~running
  /\ pc' = [pc EXCEPT ![w] = "idle"]
  /\ UNCHANGED <<storeVars, serverVars, own, rVars, fault>>

\* handler(): headers and body are read without a lock, then enqueue()
Enqueue(w) ==
  /\ pc[w] = "read" /\ TailLive
  /\ queue' = Enqueued(own[w])
  /\ pc' = [pc EXCEPT ![w] = "wait"]
  /\ UNCHANGED <<obj, active, nextId, serverVars, own, rVars, fault>>

\* (mutant) the wait is not repeated while r->responded is 0
WakeAtOnce(w) ==
  /\ pc[w] = "wait"
  /\ pc' = [pc EXCEPT ![w] = "write"]
  /\ UNCHANGED <<storeVars, serverVars, own, rVars, fault>>

\* handler(): the wait on r->cv ends only when r->responded is set
Wake(w) ==
  /\ pc[w] = "wait" /\ Responded(own[w])
  /\ pc' = [pc EXCEPT ![w] = "write"]
  /\ UNCHANGED <<storeVars, serverVars, own, rVars, fault>>

\* handler(): the response is written, then remove_active() under g_lock
Unlink(w) ==
  /\ pc[w] = "write"
  /\ active' = RemoveActive({own[w]})
  /\ pc' = [pc EXCEPT ![w] = "free"]
  /\ UNCHANGED <<obj, queue, nextId, serverVars, own, rVars, fault>>

\* handler(): free_req() after g_lock is released
Release(w) ==
  /\ pc[w] = "free"
  /\ obj' = [obj EXCEPT ![own[w]] = Freed(own[w])]
  /\ own' = [own EXCEPT ![w] = Null]
  /\ pc' = [pc EXCEPT ![w] = "idle"]
  /\ UNCHANGED <<queue, active, nextId, serverVars, rVars, fault>>

-----------------------------------------------------------------------------
(* Worker threads: WebSocket.                                              *)

\* ws_ready_handler(): the anchor, its id and the connection's user data
WsReady(w) ==
  /\ pc[w] = "wsreq"
  /\ \E o \in Fresh :
       /\ obj' = [obj EXCEPT ![o] = New("ready", nextId, w)]
       /\ own' = [own EXCEPT ![w] = o]
  /\ nextId' = AfterId
  /\ pc' = [pc EXCEPT ![w] = "wsready"]
  /\ UNCHANGED <<queue, active, serverVars, rVars, fault>>

\* ws_ready_handler(): enqueue(), whether or not the server still runs
WsReadyEnqueue(w) ==
  /\ pc[w] = "wsready" /\ TailLive
  /\ queue' = Enqueued(own[w])
  /\ pc' = [pc EXCEPT ![w] = "wsopen"]
  /\ UNCHANGED <<obj, active, nextId, serverVars, own, rVars, fault>>

\* read_websocket(): a frame is in; the stop flag was still zero
WsFrame(w) ==
  /\ pc[w] = "wsopen" /\ ctx = "up" /\ Room(1)
  /\ pc' = [pc EXCEPT ![w] = "wsframe"]
  /\ UNCHANGED <<storeVars, serverVars, own, rVars, fault>>

\* ws_data_handler(): text and binary frames become an event; others do not
WsData(w) ==
  /\ pc[w] = "wsframe"
  /\ \/ \E o \in Fresh :
          /\ TailLive
          /\ obj' = [obj EXCEPT ![o] = New("data", AnchorId(w), NoConn)]
          /\ queue' = Enqueued(o)
     \/ UNCHANGED <<obj, queue>>
  /\ pc' = [pc EXCEPT ![w] = "wsopen"]
  /\ UNCHANGED <<active, nextId, serverVars, own, rVars, fault>>

\* (mutant) the anchor keeps its connection
WsDetachKeeping(w) ==
  /\ pc[w] = "wsopen"
  /\ pc' = [pc EXCEPT ![w] = "wsclose"]
  /\ UNCHANGED <<storeVars, serverVars, own, rVars, fault>>

\* ws_close_handler(): the client left, or the server stops; anchor->conn = NULL
WsDetach(w) ==
  /\ pc[w] = "wsopen"
  /\ obj' = [obj EXCEPT ![own[w]].conn = NoConn]
  /\ pc' = [pc EXCEPT ![w] = "wsclose"]
  /\ UNCHANGED <<queue, active, nextId, serverVars, own, rVars, fault>>

\* ws_close_handler(): the CLOSE event with the anchor's id, user data = NULL
WsClose(w) ==
  /\ pc[w] = "wsclose" /\ TailLive
  /\ \E o \in Fresh :
       /\ obj' = [obj EXCEPT ![o] = New("close", AnchorId(w), NoConn)]
       /\ queue' = Enqueued(o)
  /\ own' = [own EXCEPT ![w] = Null]
  /\ pc' = [pc EXCEPT ![w] = "idle"]
  /\ UNCHANGED <<active, nextId, serverVars, rVars, fault>>

-----------------------------------------------------------------------------
(* The R thread.  It is at top level when cur = Null and no loop polls; in  *)
(* a handler it may stop and start the server too, but enters no new loop.  *)

RBack == IF cur = Null THEN "top" ELSE "dispatch"

\* civetweb_start_server(): g_running = 1, then mg_start()
StartServer ==
  /\ rpc \in {"top", "dispatch"} /\ ctx = "none"
  /\ running' = TRUE /\ ctx' = "booting" /\ rpc' = "boot"
  /\ UNCHANGED <<storeVars, stops, workerVars, cur, target, sock, fault>>

\* civetweb_start_server(): mg_start() failed
StartFails ==
  /\ rpc = "boot"
  /\ running' = FALSE /\ ctx' = "none" /\ rpc' = RBack
  /\ UNCHANGED <<storeVars, stops, workerVars, cur, target, sock, fault>>

\* civetweb_start_server(): the handlers are registered after mg_start().
\* Connections served in between never reach this module.
RegisterHandlers ==
  /\ rpc = "boot"
  /\ ctx' = "up" /\ rpc' = RBack
  /\ UNCHANGED <<storeVars, running, stops, workerVars, cur, target, sock, fault>>

\* run_server() or serve() begins to poll
EnterLoop ==
  /\ rpc = "top" /\ ctx = "up"
  /\ rpc' = "poll"
  /\ UNCHANGED <<storeVars, serverVars, workerVars, cur, target, sock, fault>>

\* the interrupt sentinel throws run_server() off its loop; serve() leaves its
\* loop once a WebSocket handler has stopped the server
LeaveLoop ==
  /\ rpc = "poll" /\ (UserInterrupts \/ ctx = "none")
  /\ rpc' = "top"
  /\ UNCHANGED <<storeVars, serverVars, workerVars, cur, target, sock, fault>>

\* civetweb_next_request_timeout(): pop q_head; HTTP and READY become active,
\* DATA is freed once it is copied, CLOSE goes on to Reap
Dequeue ==
  /\ rpc = "poll" /\ running /\ queue # <<>> /\ Live(Head(queue))
  /\ LET o == Head(queue) IN
       /\ queue' = Tail(queue) /\ cur' = o
       /\ active' = IF obj[o].ev \in Anchors THEN active \cup {o} ELSE active
       /\ obj' = IF obj[o].ev = "data" THEN [obj EXCEPT ![o] = Freed(o)] ELSE obj
       /\ rpc' = IF obj[o].ev = "close" THEN "reap" ELSE "dispatch"
  /\ UNCHANGED <<nextId, serverVars, workerVars, target, sock, fault>>

\* civetweb_next_request_timeout(), CLOSE: the anchor and the event are freed
Reap ==
  /\ rpc = "reap"
  /\ LET gone == FindActive(obj[cur].id) IN
       /\ active' = RemoveActive(gone)
       /\ obj' = [o \in Objs |-> IF o \in gone \cup {cur} THEN Freed(o) ELSE obj[o]]
  /\ rpc' = "dispatch"
  /\ UNCHANGED <<queue, nextId, serverVars, workerVars, cur, target, sock, fault>>

\* the handlers of a WebSocket event have run
EventDone ==
  /\ rpc = "dispatch" /\ obj[cur].ev # "http"
  /\ rpc' = "poll" /\ cur' = Null
  /\ UNCHANGED <<storeVars, serverVars, workerVars, target, sock, fault>>

\* civetweb_send_response(): find_active() under g_lock
FindRequest ==
  /\ rpc = "dispatch" /\ obj[cur].ev = "http"
  /\ \E r \in FindActive(obj[cur].id) : target' = r
  /\ rpc' = "respond"
  /\ UNCHANGED <<storeVars, serverVars, workerVars, cur, sock, fault>>

\* civetweb_send_response(): "unknown request id" ends the loop
UnknownRequest ==
  /\ rpc = "dispatch" /\ obj[cur].ev = "http" /\ FindActive(obj[cur].id) = {}
  /\ rpc' = "top" /\ cur' = Null
  /\ UNCHANGED <<storeVars, serverVars, workerVars, target, sock, fault>>

\* civetweb_send_response(): apply_response_from_R() and responded = 1 under
\* r->lock, then the signal
Respond ==
  /\ rpc = "respond"
  /\ obj' = [obj EXCEPT ![target] = Answer(target, "r")]
  /\ rpc' = "poll" /\ cur' = Null /\ target' = Null
  /\ UNCHANGED <<queue, active, nextId, serverVars, workerVars, sock, fault>>

\* an error or an interrupt leaves the loop without an answer
Abandon ==
  /\ rpc = "dispatch" /\ UserInterrupts
  /\ rpc' = "top" /\ cur' = Null
  /\ UNCHANGED <<storeVars, serverVars, workerVars, target, sock, fault>>

\* civetweb_ws_send(): find_active() and the check of r->conn
WsSendCheck ==
  /\ rpc \in {"top", "dispatch"}
  /\ \E r \in active :
       /\ obj[r].ev = "ready" /\ obj[r].conn # NoConn
       /\ target' = r /\ sock' = obj[r].conn
  /\ rpc' = "wssend"
  /\ UNCHANGED <<storeVars, serverVars, workerVars, cur, fault>>

\* civetweb_ws_send(): mg_websocket_write() has returned
WsSendWrite ==
  /\ rpc = "wssend"
  /\ rpc' = RBack /\ target' = Null /\ sock' = NoConn
  /\ UNCHANGED <<storeVars, serverVars, workerVars, cur, fault>>

\* (mutant) only the requests R holds
SweptActive == active

\* the requests civetweb_stop_server() walks over, all under g_lock
Swept == Queued \cup active

\* civetweb_stop_server(): g_running = 0 and 503 for whoever has no answer
StopServer ==
  /\ rpc \in {"top", "poll", "dispatch"} /\ ctx = "up" /\ stops < MaxStops
  /\ \A o \in Queued : Live(o)
  /\ running' = FALSE /\ stops' = stops + 1 /\ rpc' = "flag"
  /\ obj' = [o \in Objs |->
               IF o \in Swept /\ ~Responded(o) THEN Answer(o, "503") ELSE obj[o]]
  /\ UNCHANGED <<queue, active, nextId, ctx, workerVars, cur, target, sock, fault>>

\* mg_stop(): stop_flag = 1
SetStopFlag ==
  /\ rpc = "flag"
  /\ ctx' = "stopping" /\ rpc' = "join"
  /\ UNCHANGED <<storeVars, running, stops, workerVars, cur, target, sock, fault>>

\* (mutant) mg_stop() does not wait for the workers
JoinNobody ==
  /\ rpc = "join"
  /\ ctx' = "none"
  /\ rpc' = RBack
  /\ UNCHANGED <<storeVars, running, stops, workerVars, cur, target, sock, fault>>

\* mg_stop(): every worker has been joined; R code goes on where it was, or an
\* error or on.exit handler that called stop_server() unwinds to top level
JoinWorkers ==
  /\ rpc = "join" /\ \A w \in Workers : pc[w] = "idle"
  /\ ctx' = "none"
  /\ \/ rpc' = RBack /\ cur' = cur
     \/ rpc' = "top" /\ cur' = Null
  /\ UNCHANGED <<storeVars, running, stops, workerVars, target, sock, fault>>

-----------------------------------------------------------------------------
\* Somebody follows q_head, q_tail or a next pointer into a freed object: what
\* happens then is undefined, so nothing after it is modelled.
FollowsFreed ==
  \/ /\ \E w \in Workers : pc[w] \in {"read", "wsready", "wsframe", "wsclose"}
     /\ ~TailLive
  \/ rpc = "poll" /\ running /\ queue # <<>> /\ ~Live(Head(queue))
  \/ /\ rpc \in {"top", "poll", "dispatch"} /\ ctx = "up" /\ stops < MaxStops
     /\ \E o \in Queued : ~Live(o)

UseFreed ==
  /\ FollowsFreed
  /\ fault' = TRUE
  /\ UNCHANGED <<storeVars, serverVars, workerVars, rVars>>

HttpStep(w) == Admit(w) \/ Refuse(w) \/ Enqueue(w) \/ Wake(w) \/ Unlink(w) \/ Release(w)

WsStep(w) == WsReady(w) \/ WsReadyEnqueue(w) \/ WsData(w) \/ WsDetach(w) \/ WsClose(w)

LoopStep == Dequeue \/ Reap \/ EventDone \/ FindRequest \/ UnknownRequest \/ Respond

StopStep == SetStopFlag \/ JoinWorkers

Next ==
  /\ ~fault
  /\ \/ \E w \in Workers :
          \/ Accept(w, "httpreq") \/ Accept(w, "wsreq") \/ WsFrame(w)
          \/ HttpStep(w) \/ WsStep(w)
     \/ StartServer \/ StartFails \/ RegisterHandlers
     \/ EnterLoop \/ LeaveLoop \/ Abandon
     \/ LoopStep \/ WsSendCheck \/ WsSendWrite
     \/ StopServer \/ StopStep
     \/ UseFreed

Spec == Init /\ [][Next]_vars

\* Threads are scheduled, a wait on a condition variable ends once its
\* predicate holds, a worker notices stop_flag at its next poll, and the R loop
\* keeps going: an R handler may call ws_send() any number of times and then
\* returns, which takes strong fairness.  Clients and users owe nothing.
FairSpec ==
  /\ Spec
  /\ \A w \in Workers :
       /\ WF_vars(~fault /\ HttpStep(w))
       /\ WF_vars(~fault /\ (WsReady(w) \/ WsReadyEnqueue(w) \/ WsData(w) \/ WsClose(w)))
       /\ WF_vars(~fault /\ ctx = "stopping" /\ WsDetach(w))
  /\ SF_vars(~fault /\ LoopStep) /\ WF_vars(~fault /\ WsSendWrite)
  /\ WF_vars(~fault /\ StopStep) /\ WF_vars(~fault /\ UseFreed)

-----------------------------------------------------------------------------
(* Safety.                                                                 *)

\* What a worker's pointer means at each place: its request from admission to
\* free_req(), its anchor from the ready handler to the close handler, and no
\* two workers share one.  handler() and the WebSocket callbacks use these
\* pointers without a lock.
WorkersOwnLiveObjects ==
  \A w \in Workers :
    /\ pc[w] \in HttpPcs => own[w] # Null /\ Live(own[w]) /\ obj[own[w]].ev = "http"
    /\ pc[w] \in WsPcs => own[w] # Null /\ Live(own[w]) /\ obj[own[w]].ev = "ready"
    /\ \A v \in Workers : own[v] = own[w] /\ own[w] # Null => v = w

\* An object the R thread can find by id is allocated, and its id is its own:
\* free_req() in handler() and in civetweb_next_request_timeout() always comes
\* after remove_active(), over every stop and restart.
ActiveIsSound ==
  \A o \in active :
    /\ Live(o) /\ obj[o].ev \in {"http", "ready"}
    /\ FindActive(obj[o].id) = {o}

\* Until the first stop nothing in the queue is freed or is there twice, and
\* nothing is both queued and active: handler() frees its request only once an
\* answer came, so only once R has dequeued it.
QueueIsSound ==
  stops = 0 =>
    /\ ~fault
    /\ IsInjective(queue) /\ Queued \cap active = {}
    /\ \A o \in Queued : Live(o)

\* A handler that waits without an answer has its request in the queue or in the
\* active list: there is always a path along which R, or stop, can reach it.
NoLostRequest ==
  \A w \in Workers :
    pc[w] = "wait" /\ ~Responded(own[w]) => own[w] \in Queued \cup active

\* civetweb_send_response() drops g_lock between find_active() and r->lock: the
\* request it holds is still the one R answers, is still waited for, and has no
\* answer yet.
AnswerMeetsItsHandler ==
  rpc = "respond" =>
    /\ target = cur /\ target # Null /\ Live(target) /\ ~Responded(target)
    /\ \E w \in Workers : own[w] = target /\ pc[w] = "wait"

\* A queued DATA or CLOSE event comes after its READY event: the anchor is
\* active already, or is further ahead in the queue.
EventsFollowReady ==
  \A i \in DOMAIN queue :
    obj[queue[i]].ev \in {"data", "close"} =>
      \/ \E a \in active : obj[a].id = obj[queue[i]].id /\ obj[a].ev = "ready"
      \/ \E j \in 1..(i-1) :
           obj[queue[j]].id = obj[queue[i]].id /\ obj[queue[j]].ev = "ready"

\* While R runs the "message" handler, ws_send() with the id of the message finds
\* the anchor of the client it came from: READY was dequeued before, CLOSE was
\* not, even if the server was stopped and started since.
MessageFindsItsAnchor ==
  rpc = "dispatch" /\ obj[cur].ev = "data" =>
    \E a \in active : obj[a].id = obj[cur].id /\ obj[a].ev = "ready"

\* An anchor whose connection is gone is about to be freed: its CLOSE event is
\* queued, being made, or being processed.  Nothing else ever frees it.
NoLeakedAnchor ==
  \A a \in Objs :
    Live(a) /\ obj[a].ev = "ready" /\ obj[a].conn = NoConn =>
      \/ \E w \in Workers : own[w] = a /\ pc[w] = "wsclose"
      \/ \E o \in Queued : obj[o].ev = "close" /\ obj[o].id = obj[a].id
      \/ rpc = "reap" /\ obj[cur].id = obj[a].id

\* The events of a connection match it, from its READY to its CLOSE, so that R sees
\* them in order and nothing of a connection stays behind it.
EventsMatchConnections == EventsFollowReady /\ MessageFindsItsAnchor /\ NoLeakedAnchor

\* The connection an anchor names is the one whose worker still serves it, so
\* the check in civetweb_ws_send() is right at the moment it is made.
AnchorNamesItsConnection ==
  \A a \in Objs :
    Live(a) /\ obj[a].ev = "ready" /\ obj[a].conn # NoConn => own[obj[a].conn] = a

\* The sweep of civetweb_stop_server() misses nobody who waits: whoever has left
\* enqueue() is answered by the step that clears g_running, so that mg_stop()
\* can join its thread.
StopAnswersWaiters ==
  [][rpc # "flag" /\ rpc' = "flag" =>
       \A w \in Workers : pc[w] = "wait" => Responded(own[w])']_vars

-----------------------------------------------------------------------------
(* The inductive invariant the proofs in RequestBridgeProofs rest on.      *)

\* What a worker holds at each place of its callback.
WorkerInv ==
  \A w \in Workers :
    /\ own[w] = Null <=> pc[w] \in {"idle", "httpreq", "wsreq"}
    /\ pc[w] \in HttpPcs => Live(own[w]) /\ obj[own[w]].ev = "http"
    /\ pc[w] \in WsPcs =>
         /\ Live(own[w]) /\ obj[own[w]].ev = "ready"
         /\ obj[own[w]].conn = (IF pc[w] = "wsclose" THEN NoConn ELSE w)
    /\ pc[w] = "read" => ~Responded(own[w])
    /\ pc[w] \in {"write", "free"} => Responded(own[w])
    /\ pc[w] \in {"read", "wsready"} => own[w] \notin Queued \cup active
    /\ pc[w] = "free" => own[w] \notin active
    /\ pc[w] = "wait" /\ ~Responded(own[w]) => own[w] \in Queued \cup active
    /\ \A v \in Workers : own[v] = own[w] /\ own[w] # Null => v = w

\* Ids name one request each; a live HTTP request has its handler, an anchor
\* with a connection is that connection's user data, and the anchor of a CLOSE
\* event has been let go by its worker.
ObjectInv ==
  \A o \in Objs :
    /\ obj[o].mem = "unused" <=> obj[o].ev = "none"
    /\ obj[o].ev \in {"http", "ready"} => 0 < obj[o].id /\ obj[o].id < nextId
    /\ \A p \in Objs :
         /\ obj[o].ev \in {"http", "ready"} /\ obj[p].ev \in {"http", "ready"}
         /\ obj[o].id = obj[p].id
         => o = p
    /\ Live(o) /\ obj[o].ev = "http" => \E w \in Workers : own[w] = o
    /\ Live(o) /\ obj[o].ev = "ready" /\ obj[o].conn # NoConn => own[obj[o].conn] = o
    /\ Live(o) /\ obj[o].ev = "close" =>
         \E a \in Objs :
           /\ obj[a].ev = "ready" /\ obj[a].id = obj[o].id
           /\ \A w \in Workers : own[w] # a

\* An object is queued once, then perhaps active.  While the server runs no
\* queued request has been answered, so none is about to be freed.
QueueInv ==
  /\ IsInjective(queue) /\ Queued \cap active = {}
  /\ \A o \in Queued : obj[o].mem # "unused"
  /\ \A o \in active : Live(o) /\ obj[o].ev \in {"http", "ready"}
  /\ running => \A o \in Queued : Live(o) /\ obj[o].ev = "http" => ~Responded(o)
  /\ stops = 0 => ~fault /\ \A o \in Queued : Live(o)

\* Where the R thread is, what it holds, and what the server is doing.
RInv ==
  /\ ctx \in {"none", "booting"} => \A w \in Workers : pc[w] = "idle"
  /\ rpc = "boot" => ctx = "booting"
  /\ ctx = "booting" => running
  /\ ctx = "up" /\ rpc # "flag" => running
  /\ ctx = "stopping" \/ rpc = "flag" => stops > 0
  /\ rpc \in {"reap", "dispatch", "respond"} => cur # Null
  /\ rpc \in {"top", "poll"} => cur = Null
  /\ rpc = "reap" => Live(cur) /\ obj[cur].ev = "close" /\ cur \notin Queued
  /\ rpc \in {"boot", "dispatch", "respond", "wssend"} /\ cur \in active /\ obj[cur].ev = "http"
       => ~Responded(cur)
  /\ rpc = "respond" => target = cur /\ cur \in active /\ obj[cur].ev = "http"

IInv == TypeOK /\ WorkerInv /\ ObjectInv /\ QueueInv /\ RInv

-----------------------------------------------------------------------------
(* Claims the code does not keep.                                          *)

\* civetweb_ws_send() writes to the connection of the anchor it found, or to one
\* that is closed: "Check if anchor exists AND connection is still live".
WsSendReachesItsClient ==
  rpc = "wssend" => own[sock] = target \/ pc[sock] = "idle"

\* No thread ever follows a pointer to a freed request.
NoUseAfterFree == ~fault

-----------------------------------------------------------------------------
(* Liveness, under FairSpec.                                               *)

\* While nobody stops the server or throws R off its loop, a request that is queued or
\* at its handler is answered and its worker is free again for the next connection:
\* neither the queue order, nor WebSocket events in between, nor ws_send() calls starve
\* it, nor requests that an earlier loop has left unanswered.
InLoop == rpc \in {"poll", "reap", "dispatch", "respond"}

RequestsAreAnswered ==
  \A w \in Workers :
    pc[w] = "wait" /\ InLoop /\ own[w] \in Queued \cup {cur}
      ~> pc[w] = "idle" \/ stops > 0 \/ rpc = "top"

\* stop_server() returns: "server running flag to unblock waits on stop", "wake
\* any request handlers waiting for a response".
StopReturns == rpc = "join" ~> rpc # "join" \/ fault

\* stop_server() returns when no handler slipped between the check of g_running
\* and enqueue(): the late request is the only thing that can hold it.
Late(w) ==
  \/ pc[w] = "read"
  \/ pc[w] = "wait" /\ ~Responded(own[w])

StopReturnsUnlessLate ==
  rpc = "join" /\ (\A w \in Workers : ~Late(w)) ~> rpc # "join" \/ fault

-----------------------------------------------------------------------------
(* What the bridge promises its HTTP clients: RequestExchange.             *)

Given(a) == {o \in Objs : obj[o].ev = "http" /\ obj[o].answer = a}

\* The elements of s that are in S, in their order: SelectSeq() of membership, with the
\* recursion as a function, which a proof can expand.
Those(S, s) ==
  LET kept[i \in 0..Len(s)] ==
        IF i = 0 THEN <<>>
        ELSE IF s[i] \in S THEN Append(kept[i - 1], s[i]) ELSE kept[i - 1]
  IN  kept[Len(s)]

Exchange == INSTANCE RequestExchange WITH
  Requests <- Objs,
  waiting  <- Those(Given("none"), queue),
  handed   <- active \cap Given("none"),
  answered <- Given("r"),
  refused  <- Given("503")

\* The bridge implements RequestExchange: requests reach R in the order in which
\* they were enqueued and at most once, R answers only what it was handed, each
\* request gets one answer or one refusal, and only a stop refuses.
ImplementsExchange == Exchange!Spec
=============================================================================
