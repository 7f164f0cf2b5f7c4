# A TLA+ model of civetwebR

civetwebR lets R code answer HTTP and WebSocket clients. CivetWeb, a C library in
`src/src/civetweb.c`, serves the clients on a pool of threads; `src/src/server.c` hands
what concerns R to the R thread; and the R code in `src/R` finds the function that
answers. This directory models the three, checks the models with TLC and proves the
safety properties of most of them with TLAPS.

* [The system](#the-system): parts, state, operations, what is hard
* [The modules](#the-modules): each part's state and actions, and its properties
* [Runs](#runs): what TLC checks, with which bounds, and why they are enough
* [Fairness](#fairness)
* [Findings](#findings): where the code does not do what it says
* [Proofs](#proofs): what holds for every value of the constants, and why
* [Not modelled](#not-modelled)
* [Plan](#plan)

## The system

```
                       CivetWeb                      server.c                R thread
 client ─ port ─▶ master ─ socket queue ─▶ worker
                  WorkerPool, AcceptQueue    │
                                             │ bytes ▶ head, body        BodyStream
                                             │ what to do with it        RequestDispatch
                                             │ which callback            HandlerTable
                        ┌────────────────────┼──────────────────────┐
                        ▼                    ▼                      ▼
                      files              handler()            ws_*_handler()
              FileResponse, FileStore,   RequestBridge  ◀──── WebSocketStream
              DirectoryListing, DavLocks     │ queue                │ frames
                        │                    ▼                      ▼
                        │            next_request ─▶ run_server(), serve()   ServeLoop
                        │                                   │ mounts         StaticMounts
                        │                                   │ handlers       HandlerRegistry
                        ▼                                   ▼
                   response ◀─── header, body ◀──── send_response            ResponseWriter
                        │ parts, quota                                       ThrottledWrite
                        ▼
                  end of the connection                                      SocketClose
```

Before and after all of this comes the life of a server (`ServerStart`); and CivetWeb
can be the client instead (`ClientConnection`).

### Inventory

| component | state | operations | what is hard | what makes it correct | modules |
|---|---|---|---|---|---|
| request bridge (`server.c`) | `q_head`/`q_tail`, `active_head`, `next_id`, `g_running`, the request objects, each connection's user data | `handler`, `ws_ready/data/close_handler`, `enqueue`, `dequeue_timeout`, `civetweb_next_request_timeout`, `civetweb_send_response`, `civetweb_ws_send`, `civetweb_start/stop_server` | threads; two kinds of lock, and pointers that outlive them; a stop at any moment; objects freed by whoever is last | nobody follows a freed object; every waiting request can be found; the answer goes to the request that was dispatched; a stop leaves nobody waiting | `RequestBridge`, `RequestExchange` |
| R life cycle and loops (`server.R`, `loop.R`, `serve.R`) | `.state$server_xptr`, `.state$loop_running`, the stack of loops | `start_server`, `stop_server`, `run_server`, `serve` and its `on.exit` | handlers that call these functions; errors and interrupts that unwind the stack | one loop at a time; no flag without its loop; `serve` never leaves a server behind | `ServeLoop` |
| handler registry (`handler.R`, `state.R`) | `handlers_env`, `ws_handlers`, `prefix_stack` | `group`, `handle`, `unhandle`, `clear_handlers`, `on_ws`, the two dispatchers | blocks and handlers that nest, register and fail in any order | a block's registrations lie under its prefix; what is dispatched is what is registered now | `HandlerRegistry`, `RouteTable` |
| static mounts (`static.R`, `serve.R`) | the list of mounts, the files | ordering by length, `.prefix_match`, `static_files`, the fall through to the router | files that come and go between the calls that look at them | the most specific mount with an answer answers; nothing outside a root, but for a file that came between two looks | `StaticMounts` |
| server start and stop (`civetweb.c`) | the context, its resources and ports | `mg_start2`, `set_ports_option`, `free_context`, `mg_stop` | every step can fail, late or on one of several ports | a context that runs has everything; what a failed start loses is known; ports are released where the code closes them | `ServerStart` |
| worker pool | the socket ring, thread counts, `stop_flag` | accept, produce, consume, spawn, stop | a stop with the ring full, workers started late, wakeups | each socket has one holder; the ring is a FIFO; a stop ends | `WorkerPool`, `AcceptQueue` |
| handler table | the list of callbacks, their counts and flags | `mg_set_*_handler`, lookup, use and release | a callback replaced while it runs | the count is exact; nothing in use is removed; a removal ends | `HandlerTable` |
| requests and bodies | the buffer of a connection and its counters | `read_message`, `mg_read`, `discard_unread_request_data`, `read_body` | lengths unknown or wrong; chunks cut anywhere by reads; keep-alive | the next request starts where the client's next message does | `BodyStream` |
| request dispatch | what is known of one request | `process_new_connection`, `handle_request`, `interpret_uri` | thirty ways out, and callbacks that decline | one answer each; checks before files | `RequestDispatch` |
| output | quota, position, `stop_flag` | `mg_write`, `mg_send_chunk`, `push_all`, `push_inner` | partial writes, timeouts, a stop at any point | what is reported has gone out | `ThrottledWrite` |
| responses | the buffered header, `request_state` | `response.inl`, `mg_send_http_*`, the response of `handler` | errors within errors; writes that are cut | the client can tell where a response ends | `ResponseWriter` |
| WebSocket connections | the bytes read, the frame, the lock | the upgrade, `read_websocket`, `mg_websocket_write` | frames cut anywhere; two writers; PINGs | callbacks get the frames sent; frames are not mixed; who was told READY is told CLOSE | `WebSocketStream` |
| files | the file system | static files, PUT, DELETE, MKCOL, MOVE, COPY, listings, PROPFIND, LOCK | calls that fail, others who change files | answers are true; what is lost is what the request named | `FileResponse`, `FileStore`, `DirectoryListing`, `DavLocks` |
| client connections | the connection, its thread and memory | `mg_connect_*`, `mg_get_response`, `mg_download`, `mg_close_connection` | two threads that free one connection | freed once, never in use | `ClientConnection` |
| end of a connection | the socket | `close_socket_gracefully` | data still on its way | the client learns the end; what may throw a rest away is known | `SocketClose` |

### Files

`<Component>.tla` models a component. The proofs are in `RequestBridgeProofs`,
`WorkerPoolProofs`, `HandlerTableProofs`, `PackageProofs` (of the R side: `HandlerRegistry`
and `ServeLoop`, and `StaticMounts` as `MCRegistry` composes it) and `OutputProofs` (of
`ThrottledWrite` and `ResponseWriter`), each for all values of the constants, and in
`ServerProofs`, `ConnectionProofs` and `FilesProofs`, which are about the compositions
`MCServer`, `MCConnection` and `MCFiles`. `MCOutput` is the part of `MCConnection` that is
about what a connection sends, so that `OutputProofs` need not see the rest. `RequestExchange`,
`AcceptQueue` and `RouteTable` are abstract specifications which `RequestBridge`,
`WorkerPool` and `HandlerRegistry` implement. `MCServer`, `MCConnection`, `MCFiles` and
`MCRegistry` are the instances TLC runs; `RequestBridge` is run directly, and so is
`ServeLoop` for its findings. Each `.cfg` is one run. `PROJECT.json` lists components, runs, the source lines
of every definition, hazards, findings, theorems, and for each property a mutant of the
model that breaks it.

A definition marked `(mutant)` is a plausible mistake in the definition after it; no
specification uses it.

## The modules

One action is one critical section, one call that another thread or the outside world
can come before or after, or one stretch of code that touches nothing shared. Names are
those of the code where TLA+ allows it.

### RequestBridge: `src/src/server.c`

One action is one critical section under `g_lock` or a request's own lock, or
one stretch of code that touches nothing shared. The places where the code
releases a lock and goes on with a pointer are therefore places where other
threads may run.

**State.** `obj` maps object names to `cw_request_t` structs: whether the memory
is unused, live or freed, the event type, the id, who answered it (`"none"`
stands for `responded = 0`, `"r"` for R, `"503"` for a stop) and the connection.
`queue` and `active` are the two linked lists; `active` is a set since it is only
searched by id. `nextId` and `running` are `next_id` and `g_running`. `ctx` is
the `mg_context`: absent, listening without handlers, serving, or with
`stop_flag` set. `pc[w]` and `own[w]` are a worker's place in its callback and
the object it works with, which for a WebSocket connection is the user data.
`rpc`, `cur`, `target` and `sock` are the R thread's place, the object of the
event it processes and the local variables of `civetweb_send_response` and
`civetweb_ws_send`.

**Freed memory.** Object names are handed out in allocation order and never
reused, so a dangling pointer stays recognisable. Where the code follows one,
the program's behaviour is undefined: `UseFreed` sets `fault` and the behaviour
ends. `enqueue` follows `q_tail`, a dequeue follows `q_head`, a stop walks the
whole queue; those are the three disjuncts of `FollowsFreed`.

**Actions and code.**

| code | actions |
|---|---|
| `handler()` | `Accept`, then `Admit` (id, under `g_lock`) or `Refuse` (503), `Enqueue`, `Wake`, `Unlink`, `Release` |
| `ws_ready_handler()` | `Accept`, `WsReady`, `WsReadyEnqueue` |
| `ws_data_handler()` | `WsFrame` (CivetWeb has a frame), `WsData` |
| `ws_close_handler()` | `WsDetach` (`anchor->conn = NULL`), `WsClose` |
| `civetweb_start_server()` | `StartServer`, then `StartFails` or `RegisterHandlers` |
| `civetweb_next_request_timeout()` | `Dequeue`, and for a close `Reap` |
| `civetweb_send_response()` | `FindRequest` or `UnknownRequest`, `Respond` |
| `civetweb_ws_send()` | `WsSendCheck`, `WsSendWrite` |
| `civetweb_stop_server()`, `mg_stop()` | `StopServer` (sweep), `SetStopFlag`, `JoinWorkers` |
| `run_server()`/`serve()`, seen from below | `EnterLoop`, `LeaveLoop`, `EventDone`, `Abandon` |

Some choices need a word.

* A data event's object is created and enqueued in one action: between
  `calloc` and `enqueue` nobody else has the pointer, and the only thing read from
  shared state, the anchor's id, never changes. The same holds for a close event.
  For HTTP and READY objects the two halves are apart because a stop between them
  makes a difference.
* The R thread is one thread, so R code runs only while `rpc` is `top` (no loop)
  or `dispatch` (inside a handler). Both may send, stop and start; a handler that
  stops the server does so while its own request is still unanswered. Loops inside
  loops are left to `ServeLoop`.
* Errors and interrupts that throw the loop off a request it has already taken are
  `Abandon`, `LeaveLoop` and the second half of `JoinWorkers`. `UserInterrupts`
  switches the first two off where a run asks about undisturbed operation.
* `Accept` requires `Room`: the finite set of object names must cover the events
  the accepted connections still owe, so that running out of names is never
  mistaken for running out of memory.
* Left out: failing allocation, the contents of bodies, headers and responses, the
  direct 200 for `HEAD /` probes (no state), connections served before the handlers
  are registered (they never reach this code), the width of `next_id`.

**Properties.** Each is aimed at a hazard of `PROJECT.json`.

* `WorkersOwnLiveObjects`: callbacks use their pointers without a lock; they are
  allocated, of the right kind, and not shared.
* `ActiveIsSound`: what `find_active` can return is allocated and unique for its id,
  over every stop and restart, although each object is freed by another thread than
  the one that searches.
* `QueueIsSound`: until the first stop, nothing in the queue is freed, twice there, or
  active as well. (After a stop this fails; see the findings.)
* `NoLostRequest`: a handler that waits unanswered is in one of the two lists.
* `AnswerMeetsItsHandler`: between `find_active` and `r->lock`, `send_response` holds
  a pointer under no lock; the object is still the dispatched one, unanswered, and its
  handler waits.
* `EventsMatchConnections`: R never sees a message before its connection, nor after
  its close, not even across a restart (`EventsFollowReady`); `ws_send` from a message
  handler finds the connection (`MessageFindsItsAnchor`); and an anchor without a
  connection has its close event under way, as nothing else would free it
  (`NoLeakedAnchor`).
* `AnchorNamesItsConnection`: a connection found through an anchor belongs to it at
  the moment of the check in `ws_send`.
* `StopAnswersWaiters` (action property): the sweep answers everybody who has left
  `enqueue`.
* `RequestsAreAnswered` (liveness): while R loops and nobody stops the server, each
  waiting request is answered and its worker freed.
* `StopReturnsUnlessLate` (liveness): `stop_server` returns unless a request had
  passed the check of `g_running` without being enqueued.
* `ImplementsExchange` (refinement): projected on HTTP requests, the bridge is the
  exchange of `RequestExchange`: in order, at most once, one answer or one refusal,
  refusals only from stops. `waiting` is the unanswered HTTP part of the queue and
  `handed` the unanswered HTTP part of the active list.

**Fairness.** `FairSpec` asks for weak fairness of each worker's own steps: the
threads are scheduled by the operating system, the locks are held for bounded
time, and the wait on `r->cv` is in a loop over its predicate and signalled
whenever the predicate becomes true. A worker that serves a WebSocket looks at
`stop_flag` on every turn of its read loop, so `WsDetach` is fair once
`ctx = "stopping"`, and otherwise not: a client may stay connected for ever. The R
loop's steps take strong fairness: a handler runs for finitely many `ws_send`
calls and then returns, but there is no bound on them, and each one disables the
loop's next step for a moment. Nothing is assumed of clients (`Accept`, `WsFrame`)
or of users (`StartServer`, `EnterLoop`, `StopServer`, `Abandon`, ...).

### ServeLoop: `src/R/server.R`, `loop.R`, `serve.R`

R code calls `run_server` and `serve` from the top level, and may call every one of
these functions from a handler that a loop is running. `loops` is the stack of
loops, each with its kind and its place; `server` and `looping` are the two
variables of `.state`. An error leaves the innermost loop and ends in the
`tryCatch` around the handler of the one below; an interrupt leaves them all; both
run the `on.exit` code. `known` says whether the request in hand can still be
answered, which it cannot after a stop. `stopped` is a history variable (a handler
on the stack has called `stop_server`), `left` records how a loop was left last,
for one property.

The native calls are assumed to return here (`RequestBridge` is about when they
do), and interrupts between `.set_loop_running(TRUE)` and the registration of
`on.exit`, two adjacent statements, are left out. `.dispatch_request` catches a
handler's error, so the errors of `LoopFails` are those outside the `tryCatch`:
`unknown request id` from the native side, a path that does not start with `/`, a
query part without a key.

* `OneLoopUnlessStopped`: unless a handler stops the server under its loop, loops do
  not nest. It rests on `FlagHasItsLoop` (`loop_running` is set only while a loop whose
  `on.exit` clears it is on the stack; otherwise the package would refuse to loop until
  restarted) and `PollingLoopIsGuarded`, which are parts of the proof.
* `ServeStopsItsServer` (action property): however a running `serve` is left, no server
  stays behind, nested loops or not.
* `StoppedServeUnwinds` (liveness): after a stop in a handler every `serve` on the
  stack ends. The same is not true of `run_server`, which polls on. Fairness: handlers
  return and loops go on.

### HandlerRegistry, RouteTable: `src/R/handler.R`, `state.R`

`frames` is the stack of calls: the expression of a `group`, a handler run by
`.dispatch_request`, a callback run by `.dispatch_ws_event`. Code in any of them may call
every exported function, so groups, registrations and dispatches nest at will; `Fail`
raises an error or an interrupt in the top frame, and `Unwind` leaves one frame after the
other, with its `on.exit`: an error up to the dispatcher that catches it, an interrupt all of
them, as `tryCatch(error =)` and `try()` let it pass. `prefixes` is `.state$prefix_stack`,
`handlers` the two levels of `handlers_env` (path, then method in capitals), `wsHandlers`
`ws_handlers`; `called` is the route or listener that ran last, with its path and method or
its event.

* `StackMatchesFrames`: the prefix in force is that of the groups that enclose the code
  that runs, although `on.exit` just drops the last element of a stack that all share.
* `ImplementsRoutes` (refinement): the registry is the table of `RouteTable`, where blocks
  carry their own prefix, the last registration of a method and path wins, and a request
  runs what is registered for its path and method when it comes, an event its listener.

### StaticMounts: `src/R/serve.R`, `static.R`

`Receive` a request, then for each mount in order `TryMount`, `Resolve` (what
`normalizePath` makes of the path under the root), `DirExists`, `FileExists`, `Index` and
`IsNoDir` (one look each at an index file), `Read`; then `Send`, with the router's answer if
no mount had one. Each of these looks once, and `Edit` changes a file or a folder between any
two of them, outside the roots too. `normalizePath(mustWork = FALSE)` (`static.R:142`) leaves
a name that it does not find as it is written, `..` included; `written` says so. Such a name
begins with the root and is not refused: it is a 404, and the next mount is asked, or, if its
file comes before the next look, it is served.
`asked` are the mounts that the loop is done with, and `Mount` the one whose turn it is: the
first of the others in the order of `order(nchar, decreasing = TRUE)`, which keeps equal ones
as the user gave them (`Ahead`). `Sites` are the mounts, files and requests of a run.

* `MountIsRight`: as long as nobody touches the files the most specific mount that has the
  path answers (`MostSpecific`); while files change, each mount that was passed over did lack
  the file at some moment of the search (`PassedOver`; `lacked` records that); only a path that
  leaves its root is refused, and a file from outside a root is served only if it came after
  `normalizePath` had not found it (`StaysInside`).
* `SearchEnds`: each search comes to an answer.

### ServerStart: `mg_start2`, `set_ports_option`, `mg_stop`

One action per step of `mg_start2` that can fail; `held` are the resources acquired, but
for the sockets: `listening` are those the context knows, `bound` the ports this process has
bound, and what is bound and does not listen is lost for the life of the process, as is what
`leaked` records. `OtherProcess` may take or leave ports meanwhile, and a failed or stopped
server may be started again. `free_context` does not close ports; only `set_ports_option` and
the master thread do. Nobody looks whether the master thread was started.

* `StartIsWhole`: a context that runs owns everything, but perhaps its master thread, and
  listens on every port of its list that is not optional, whatever other processes and
  earlier starts hold.
* `ClosedInOrder`: where the code closes ports they can be bound again; and only three ways
  lose anything (`LossesAreKnown`): sync objects of a start that could not make all of them
  (`civetweb.c:21288`), the ports of one that fails behind `set_ports_option` (`:21934`), both
  of a server without a master thread. For its third part see `SocketClose`.

### WorkerPool, AcceptQueue: the threads

Locks are `thread_mutex`; a wait on a condition variable is a state (`wait`, `full`)
which a signal or a spurious wakeup ends. `squeue`, `sq_head` and `sq_tail` are the ring
with its indexes as the code reduces them. `SpawnReserve`/`SpawnDone`/`SpawnFails` are
the two halves of `mg_start_worker_thread`, which counts a worker as idle before it
exists. `LeaveConsume` is the second look at `stop_flag` after the mutex is released.

* `SocketHasOneHolder`: until a stop an accepted socket is in one place; it is never in
  two, and nobody holds a closed one.
* `NoSocketWaits`: `idle_worker_thread_count` is exact, and no socket waits behind
  long-lived connections while another worker could be started.
* `ImplementsAcceptQueue` (refinement): the ring is a bounded FIFO.
* `ServerEnds`: `mg_stop` returns, if no worker stays with its connection for ever, as finding
  1 shows one may, and if the server listens on anything: with optional ports only, all of them
  taken, the master thread is gone before the stop and `mg_stop` waits for it (`:20644`). Also
  the liveness of the two components below.

### HandlerTable: `mg_set_handler_type`, `handle_request`

Threads set, replace and remove callbacks (`SetterStep`), workers look them up, pass the
checks of access, run and release them (`WorkerStep`). A removal waits for the count to
become 0 (`WaitForEndOfUse`). A second instance has the program of
`civetweb_start_server`: two handlers set after `mg_start`, while requests arrive.

* `HandlersAreCounted`: `refcount` is the number of users; nothing in use is removed or
  replaced; one entry for each URI.
* `StartedServerAnswers`: once `civetweb_start_server` returned, every HTTP request reaches
  `handler`, those for `/ws` too, and every upgrade that the handler for `/ws` covers reaches R.
  The lookup also goes below a URI (`/ws/x`), by prefix (`/wsx`), and without regard to case
  (`/WS`), so that it covers all of these; other upgrades never reach R, before or after.

### SocketClose: `close_socket_gracefully`

The socket is TCP as the code relies on it: `close` lets the rest of a response go on in the
background, but aborts with a linger time of 0, which `server.c:818` sets, or when the client
has sent what nobody read, which is drained on Windows only (`civetweb.c:18254`). So the
comment "Now we know that our FIN is ACK-ed, safe to close" (`:18347`) does not hold in
general. `OnlyTheseReset`, in `ClosedInOrder`: nothing else throws a rest away, whatever the
linger time, since milliseconds are rounded up to seconds. `ClientLearnsTheEnd`, in
`ServerEnds`: a client that stays has all that was written and knows it, or was reset.

### BodyStream: from bytes to requests

The client's bytes are a sequence of characters of which the server holds positions, so
that equal bytes are never confused. `ReceiveHead`, `HeadFails` and `GetRequest` are
`read_message` and `get_request`; `ReadPlain`, `SizeChar`, `Extension`, `ReadChunk`,
`EndOfChunk`, `Trailer` are the turns of the loops of `mg_read`; `DiscardReads` and
`Finish` end a request. `HandlerReads` is any handler, or with `ReadsAll` the `read_body`
of `server.c`. Reads return any number of bytes, or nothing (`pauses`).

* `RequestsAreFramed`: a kept-alive connection looks for its next head where the next
  message begins; a handler sees a prefix of the data of its message; that of `server.c`
  all of it, or the report that it is too large.

### RequestDispatch: `process_new_connection`, `handle_request`

`stepPc` is the numbered step of `handle_request` a request is at, and each action is one
step, which hands on to another, answers (`Answers`), drops the connection (`Drops`) or
does the work (`Does`). `passed` are the checks a request was let through. A callback that
declines sends the request back.

* `RequestsAreChecked`: one answer each; files are read or written only by requests that
  passed the check for it; hidden files are not served; without a document root, which is
  how the package starts CivetWeb, no file is touched.

### ThrottledWrite: `mg_write`, `mg_send_chunk`

`Send` is one call of `send` in `push_inner`, of any part; `Turn` a turn of the throttled
loop; `Leave` and the stop flag end things at any point.

* `WritesAreReported`: results never exceed what went out; a write is whole unless the client
  left or the server stops; the parts of a chunk go out in order; a second never sees more
  than three quotas.

### ResponseWriter: `response.inl`, `mg_send_http_*`, `handler`

An answer says who gives it, R or the handler itself or a caller of `mg_send_http_*`, and what
it consists of: status, names of headers, length of the body, whether R writes the head by hand.
`Answer` makes a list of operations of it (`HandlerOps`, `OkOps`, `PageOps`, ...), in the order
of the code; each action does one, and every write may be cut off. `SendError` is
`mg_send_http_error`, with the user's callback nested. A status of R may be any number:
`mg_response_header_start` refuses those outside 100..999 (`Taken`), `handler` does not look
and goes on, and the body goes out without a head (`Headless`). `ResponseInv` is why it is right; the
proofs use it, the actions do not.

* `ResponsesAreDelimited`: status line, header and body come in order, once, or a body alone
  after a refused status; a connection is
  kept only if the client can tell where the response ends; a promise to close is kept;
  the error callback does not nest.

### WebSocketStream: the upgrade, `read_websocket`, `mg_websocket_write`

`Upgrade` decides about the handshake; `Receive`, `TakeFrame`, `PullPayload`, `HandleFrame`
and `Timeout` are the turns of the read loop over bytes that arrive in pieces; `Lock`,
`SendHeader`, `SendData` are the writes of two threads.

* `FramesAreDelivered`: callbacks get what was sent, unmasked, in order, with nothing lost, PINGs
  like other frames; in an instance with `enable_websocket_ping_pong` each PING has its PONG
  instead; who was told READY is told CLOSE, and a handshake that fails behind the connect
  handler, on a key that is too long (`:14207`), ends without either.
* `PingsAreHandled`, with the options of `server.c`, is a finding.
* `FramesAreWhole`: frames of two threads do not mix, and each header announces, in the 1, 3 or 9
  bytes of its length, the data that follows it.

### ClientConnection: `mg_connect_*`, `mg_get_response`, `mg_close_connection`

Each call of the operating system may fail. `held` are the resources that exist; `Touch`
and `Free` record in `misuse` what uses or frees one that does not. `ThreadEnds` to
`ThreadExits` are the thread of a WebSocket connection, `Close`, `Join` and `FreeAll` the
user who closes it.

* `ConnectionsAreFreed`: freed once and never in use; nothing leaks; the timeout that one
  call puts into the configuration, a pointer to its own stack, does not outlive it.

`WorkEnds` is the liveness of the modules from `BodyStream` to here: requests, writes,
responses, waits, and WebSockets that one side has given up come to their end.

### DavLocks: `dav_lock_file`, `dav_unlock_file`

`Lock` is the search and the change under the mutex, `Reply` the answer that reads its slot
afterwards, `Tick` the clock.

* `OneHolder`: a path never has slots of two users, although a renewal takes a new slot and
  the table drops its oldest when full.

### FileStore: PUT, `mg_store_body`, DELETE, MKCOL, MOVE, COPY

One action per call of the file system, each of which may fail, by any number of workers.
`setting` says who runs and for what: the workers, their requests, the files that may not be
written, whether calls fail, and how many requests there are; it is chosen at the start and
never changes. `id` tells files apart whatever their name, so that a worker that still writes
to a file others have removed or renamed is not taken to write to what has its name now. What
is looked at and what is done about it are two actions throughout: `PutDir` and `MakeDir`,
`MkCol` and `MkDir`, `Move`, `Overwrite` and `Rename`, `Delete`, `Access` and `RemoveFile`,
`OpenDir`, `Entry`, `Unlink` and `EntriesDone`. `stack` is the recursion of
`remove_directory`, `seen` the file that `access` was asked about or that was opened, `quiet`
says that `mg_read` returned 0 before the end of a body: on a time-out, or on a stop. `FileResponse` is a static file with
its range, encoding, conditions, `sendfile` and error pages, while `Edit` writes the file;
`DirectoryListing` the scan with its growing array, `mg_sort` with all nine gaps, and what is
printed; `req` says which directory is asked for, how, in which order, and what fails meanwhile.

* `AnswersAreTrue`: who is told that a lock is granted is told a token of his own; who is told
  that a PUT worked has stored and closed what was read of his body, all of it unless a read
  returned 0 early (`PutIsWhole`); who is refused has changed nothing, but for a MOVE or COPY
  that may overwrite, which has removed its destination by then (`RefusedChangesNothing`); and
  nobody changes what he did not name, DELETE nothing but what is below its path while others
  move the tree about (`ChangesWithinReach`).
* `ChangesAreSafe` (action property): a lock is taken over when it expired, or for want of room;
  no step of a MOVE or COPY, by any number of workers, loses the file, unless it is moved onto
  itself (`KeepsMoved`); a file that may not be written is not written under any name, and
  loses its name only to those who do not ask (DELETE of its directory, MOVE) or who asked
  about the file that had its name before (`KeepsProtected`).
* `ContentIsAnnounced`: the body is the part of the file that the head announces, never longer.
* `ListingIsWhole`: what was there all the time is shown once, in order, and the array is not
  overrun, whichever allocation fails.
* `RequestsEnd`: all of these end, also while others change the tree.

## Runs

| run | states | shows |
|---|---|---|
| `bridge_safety` (`Bridge.cfg`) | 237 000 | `RequestBridge`: all safety properties, and the refinement of `RequestExchange`; 2 workers, 4 objects, 2 stops, interrupts |
| `bridge_live` (`BridgeLive.cfg`) | 101 000 | `RequestsAreAnswered`, `StopReturnsUnlessLate`; 1 stop |
| `server` (`Server.cfg`) | 298 000 | `WorkerPool`, `ServerStart`, `HandlerTable`, `SocketClose` |
| `connection` (`Connection.cfg`) | 487 000 | `BodyStream`, `RequestDispatch`, `ThrottledWrite`, `ResponseWriter`, `WebSocketStream`, `ClientConnection` |
| `files` (`Files.cfg`) | 479 000 | `DavLocks`, `FileStore`, `FileResponse`, `DirectoryListing` |
| `registry` (`Registry.cfg`) | 627 000 | `HandlerRegistry` and its refinement of `RouteTable`, `StaticMounts`, `ServeLoop` with 3 loops on the stack |
| `bridge_hang`, `bridge_freed`, `bridge_ws_send`, `loop_nested`, `loop_interrupted`, `websocket_ping` | until the violation | the findings, each a property the code violates |

**Components side by side.** The runs from `server` on check several components that
share no state. Interleaving them would only multiply states, so the MC modules declare the
variables of all, and a variable `part` says which component, in which instance, a
behaviour is about; the others stay as they began. A run is then the union of the runs of its
parts, and a property says `part = "x" => ...` where it is about one of them. States by
part:

* `server`: `pool` 145 388 (threads and memory may fail), `calm` 38 952 (they do not),
  `start` 27 498, `table` 54 065, `rtable` 29 547, `close` 2 144;
* `connection`: `body` 23 292, `whole` 6 196, `files` 162 944, `kinds` 22 288, `write` 89 475,
  `rate` 17 804, `respond` 7 702, `frames` 20 400, `long` 3 135, `pings` 126 468,
  `handshake` 5 728, `client` 1 800;
* `files`: `locks` 100 072, `store` 129 687, `send` 64 594, `list` 184 738;
* `registry`: `wide` 323 190, `deep` 243 920, `mounts` 55 586, `loops` 4 696.

**Why the bounds are enough.**

* *Bridge.* Two workers are the fewest between which anything can interleave; they share
  state only through the lists, and each property is about at most two of them. Four objects
  allow a WebSocket connection with a message and a close beside an HTTP request, four HTTP
  requests in a row, and a connection that survives into the sweep of a stop. Two stops
  allow a restart and a stop of the second server, where leftovers of the first would show.
* *Loops.* A stack of three lets a nested loop have one above and one below it.
* *Pool.* A ring of two slots wraps; four connections fill it, with one in the hands of the
  master and one with a worker, while both workers are taken; one worker is there from the
  start, one is spawned. Names of ended connections are used again, so the number of
  connections over time has no bound.
* *Start.* Two ports, in every combination of the suffixes, and three starts: one that fails,
  one that succeeds, and one after its stop.
* *Handlers.* Two threads that set and two workers; a URI, one below it and a pattern, so that
  each of the three steps of the lookup finds something. For the program of `server.c`: `/ws`,
  a path below it, one it is a prefix of, another spelling of it, and two that it does not cover,
  each asked for as a request and as an upgrade.
* *Closing.* Linger times on either side of 0 and of a second, none, and 0 itself, which is that of
  `server.c`; three pieces of a response, of which none, some or all are on their way.
* *Bodies.* Three messages with and without length, chunked and both; a buffer of five and a
  size line of five characters, so that heads and lines overflow; every way to cut what
  arrives; one sample of each fault in a chunk.
* *Dispatch.* Every configuration of seven switches, and of requests and files one for each
  condition some step looks at.
* *Writes.* A quota of two against writes from one to seven: less, equal, many turns.
* *WebSockets.* Payloads on either side of each form of the length (125, 126), of the buffer
  in memory, and of the space in the connection's buffer. Sent lengths 126 and 65536 take the
  longer forms.
* *Files.* Two workers on a directory with a file and a directory in it; bodies of up to two
  parts; a file of three bytes with ranges inside, across and behind its end; a table of two
  slots, which is full with two locks; MOVE onto itself, onto a file, into a directory that is
  being removed, and of and over files that may not be written; listings of four entries with an array that starts at
  one, and of seven, so that `mg_sort` uses more than one gap.
* *Registry.* Three frames with one function and method, one frame with two functions and
  three spellings; five mounts, two of them equal, and two, one in the folder of the other,
  while files change twice, with a file outside both.
* *Answers.* Statuses with and without a body, one that is refused, lengths and headers of R.

The proofs below do not depend on these numbers.

`CHECK_DEADLOCK FALSE` in all runs but those of `ServeLoop` alone, because the programs modelled
really stop: a context that is freed, a connection that is closed, a hung `stop_server`, undefined
behaviour, or a bound on requests that is reached.

## Fairness

* *Bridge.* See `RequestBridge`: weak fairness of threads, strong fairness of the R loop.
* *Loops.* Handlers return and loops go on.
* *Pool, handler table.* Every thread's own steps. Not: new connections, spurious wakeups, and not
  the end of a connection, also after `stop_flag` is set, since its worker may be in `handler`
  and wait for an answer that nobody gives (finding 1); `ServerEnds` has that as its condition.
* *Connections, files.* The one worker of a part goes on; a second writer, the client's thread
  and the clock too. Where the fairness of several parts of a run is that of one action each,
  it is stated for their union `Work`, of which one part can be enabled at most.
* *Closing.* The server's own steps, and TCP, which delivers while the client stays.

Nothing is assumed of clients, users, other processes, or of a stop.

## Findings

Each is a run whose property the code violates.

1. **A stop can wait for ever** (`bridge_hang`, `StopReturns`). `handler` checks
   `g_running` at `server.c:568`, reads the body, and enqueues at `:598` without a
   second check. If the sweep of `civetweb_stop_server` falls in between, nobody
   answers the request and `mg_stop` joins its thread for ever.
   `StopReturnsUnlessLate` shows that this is the only reason.
2. **Stopped requests stay in the queue** (`bridge_freed`, `NoUseAfterFree`). The
   sweep answers queued requests but leaves them linked; their handlers free them. A
   WebSocket close during the stop, or the first request after a restart, follows
   the stale `q_tail`.
3. **`ws_send` writes outside the lock** (`bridge_ws_send`, `WsSendReachesItsClient`).
   Between the check and the write the client can leave and the worker, whose
   `mg_connection` it is, take another one.
4. **Loops can nest** (`loop_nested`, `OneLoop`). `stop_server` in a handler resets the
   flag of the loop that runs the handler.
5. **An interrupted `run_server` fails** (`loop_interrupted`,
   `InterruptedRunReturns`). It has no case for the sentinel of the native queue and
   ends in an error instead of returning.
6. **PINGs are not answered** (`websocket_ping`, `PingsAreHandled`). "Only handle Text and
   Binary frames; let CivetWeb handle PING/PONG/CLOSE", says `server.c:491`; but the options at
   `:797` leave `enable_websocket_ping_pong` at its default "no", with which CivetWeb hands a
   PING to that very handler, which drops it.

While modelling CivetWeb and the R side, more places came up where the code differs from its
comments. They have no run of their own; the models follow the code, and the instances or
properties leave the case out where it would break a property that otherwise holds.

| where | what the code does |
|---|---|
| `civetweb.c:20218` | a worker that took a socket as `stop_flag` was set ends without closing it; sockets left in the ring are dropped by `free_context` |
| `civetweb.c:21943` | the result of starting the master thread is ignored; without it `mg_stop` returns at once and workers wait for ever |
| `civetweb.c:20318` | a worker that cannot allocate never signals `sq_empty`; if all end so, the master and `mg_stop` wait for ever |
| `civetweb.c:21934` | a start that fails after `set_ports_option` leaves its ports bound |
| `civetweb.c:21288` | a start that cannot make all its sync objects does not destroy those it made |
| `civetweb.c:20644` | `mg_stop` of a server that listens on nothing, since its ports are optional and taken, waits for ever |
| `civetweb.c:16471` | when memory fails for the second array of sockets, the context keeps a pointer to freed memory |
| `civetweb.c:14941` | the handler for `/ws` is also found for `/ws/...`, for `/wsx` and for `/WS` |
| `civetweb.c:6921` | the loop over a chunk extension takes a time-out for its end, and what follows for digits of the size |
| `civetweb.c:15402` | a callback that declines is released, and once more if access is denied afterwards |
| `civetweb.c:13812` | one PING more than `MG_MAX_UNANSWERED_PING` may be unanswered |
| `civetweb.c:14207` | a handshake that fails on a long key closes an accepted connection without the close callback |
| `civetweb.c:7059` | the rest of a quota and a whole one go out without a pause |
| `civetweb.c:7039` | a smaller quota for the next request in the same second makes `mg_write` return 0 for an open connection |
| `response.inl:310` | a header whose lines could not be written counts as sent |
| `server.c:611` | a status outside 100..999 is ignored, and the body goes out without a header |
| `civetweb.c:13224` | the lock that finds the table full drops the oldest lock, takes no slot, and answers with the dropped one's token |
| `civetweb.c:13293` | UNLOCK answers 204 and leaves the slot locked |
| `civetweb.c:10214` | removing a directory with a file in it works and answers 500 |
| `civetweb.c:12407` | a MOVE or COPY that is refused has removed its destination; a MOVE onto itself removes the file |
| `civetweb.c:11559` | a PUT whose body times out, or that a stop interrupts, is stored in part and answered with 200 |
| `civetweb.c:12663` | `access` is asked about the file, `remove` only needs the directory, and another file may have come between |
| `civetweb.c:11544` | after `100 Continue` a PUT gets no final response |
| `civetweb.c:10984` | `mg_store_body` takes a read error for the end of the body |
| `civetweb.c:10678` | a range that ends behind the file announces one byte too many |
| `civetweb.c:10667` | the check for ranges in gzipped files comes after its flag is cleared |
| `civetweb.c:10593` | error pages from files have status 200 |
| `R/handler.R:115` | a query `a&&b` is an error outside the `tryCatch`, which ends the loop |
| `R/static.R:142` | a path that leaves the root and names nothing is a 404 and not a 403; a file that comes between there and line 242 is served from outside the root |
| `civetweb.c:19370` | a negative timeout of `mg_get_response` means 30 seconds and not "forever" |
| `civetweb.c:19686` | opening a WebSocket client can fail without an error text |
| `civetweb.c:19361` | a response that arrived with the one before it is dropped |
| `server.c:818` | `linger_timeout_ms = 0` makes `close` abort, so that the end of a response can be lost |
| `civetweb.c:18254` | unread input is drained on Windows only; elsewhere `close` resets the connection |

## Proofs

| theorem | says |
|---|---|
| **RequestBridgeProofs** | for any workers, objects and stops |
| `Inductive`, `TypeCorrect` | `[]IInv`, `[]TypeOK` |
| `OwnershipCorrect`, `ActiveCorrect`, `QueueCorrect`, `NoRequestLost`, `AnswerCorrect`, `AnchorCorrect` | `WorkersOwnLiveObjects`, `ActiveIsSound`, `QueueIsSound`, `NoLostRequest`, `AnswerMeetsItsHandler`, `AnchorNamesItsConnection` |
| `StopSweeps` | `StopAnswersWaiters` |
| `EventsCorrect` | `EventsMatchConnections` |
| `BridgeIsExchange` | the refinement `ImplementsExchange` |
| **PackageProofs** | for any prefixes, paths, functions, methods, and depth of calls and loops |
| `TypeCorrect`, `GroupsNest`, `NothingLeft`, `EntriesInUse` | `TypeOK`, `StackMatchesFrames`, `NothingLeftBehind`, `NoEmptyEntry` of `HandlerRegistry` |
| `RegistryIsTable` | the refinement `ImplementsRoutes` of `HandlerRegistry` |
| `MountsAreRight` | `MountIsRight` of `MCRegistry`, for any mounts, files, requests and changes of files and folders |
| `LoopInductive`, `LoopTypeCorrect`, `FlagCorrect`, `GuardCorrect` | `[]LoopInv` and its parts, of `ServeLoop` |
| `SingleLoop`, `ServeStops` | `OneLoopUnlessStopped`, `ServeStopsItsServer` |
| **WorkerPoolProofs** | for any workers, sockets and slots, whatever fails |
| `PoolInductive`, `PoolTypeCorrect` | `[]IInv`; the indexes stay in the ring, the count never is negative |
| `IdleCorrect`, `NobodyStranded` | the two halves of `NoSocketWaits`, each under the assumption it needs |
| `SocketsHaveOneHolder`, `QueueIsFifo` | `SocketHasOneHolder`; the refinement `ImplementsAcceptQueue` |
| **HandlerTableProofs** | for any workers, threads that set handlers, and calls of theirs |
| `HandlersCorrect` | `HandlersAreCounted`, while callbacks do not decline |
| **ServerProofs** | for any sizes, ports, lists of ports, linger times and bounds |
| `StartsWhole` | `StartIsWhole` |
| `HandlersCounted`, `ServerAnswers` | `HandlersAreCounted`, `StartedServerAnswers`, for the two programs of `MCServer` |
| `ClosesInOrder` | `ClosedInOrder` |
| **OutputProofs** | lemmas for any quota, lengths, answers, error callbacks and room for headers, used by the next |
| **ConnectionProofs** | for any configurations, targets, requests, quota, lengths, answers, timeouts, bounds |
| `ClientFrees` | `ConnectionsAreFreed` |
| `RequestsChecked` | `RequestsAreChecked` |
| `WritesReported` | `WritesAreReported` |
| `ResponsesDelimited` | `ResponsesAreDelimited`, for any error callback, number of headers and answers, any status of R where connections close |
| `FramesStayWhole` | `FramesAreWhole`, for any frames, space and lengths of payloads |
| **FilesProofs** | for any users, paths, slots, durations, trees, settings, files, requests |
| `OnlyOneHolder` | `OneHolder` |
| `AnswersHold` | `AnswersAreTrue` |
| `SafeChanges` | `ChangesAreSafe` |
| `ContentAnnounced` | `ContentIsAnnounced` |
| `ListingsAreWhole` | `ListingIsWhole`, for any directories, orders and edits |

The assumptions are those the modules name on their constants: bounds are numbers, NULL is
none of the values it stands beside, a ring and a table have a slot, no more threads are
started in advance than there may be. Those of the compositions are `FewerAssumption` (a set
of connections, without NULL), `StartAssumption` (lists of entries of the ports that exist),
`TableAssumption` (requests and operations of their types, a counter wide enough for the workers),
`LingerAssumption` (linger times are numbers, with one that stands for none), `SitesAssumption` of `MCRegistry`
(mounts, trees and requests of their types; a segment has a character), `RequestAssumption`
(configurations, targets and requests of their types), `QuotaAssumption` (a quota other than 0; lengths of
one part or three), `AnswersAssumption` (answers and callbacks
of their types, where a status is any number, and room for three headers, of which the code has 64;
and where a connection may be kept, which `server.c` never allows: that the status is not refused, that
R's headers have room with the two of `server.c`, that none of them says where the response ends,
and that it is no answer to a port probe), `FramesAssumption` (clients send frames of bytes; what callbacks write is
shorter than 2^32 bytes; the buffer's size is a number) and `ClientAssumption` (timeouts are
numbers); of `MCFiles` they are
`WorkersAssumption` (finitely many workers), `StoreAssumption` (a directory above each path, with
the root alone its own; trees in which every entry is in a directory, and whose files have ids
of their own above 1000; settings of their type, with workers numbered below 10 and fewer than 100
requests, so that ids of new files are others), `SendAssumption` (files, requests and
writes of their types) and `ListingsAssumption` (directories and orders of their types; an array
that does not start empty).

**Compositions.** A property of `MCServer`, `MCConnection` or `MCFiles` says `part = "x" => ...` for
its components. Its proof shows that `part` never changes, that a step is a step of the
component of that part, and then uses the component's invariant. Where the component has a
proof module, the composition instantiates it as it instantiates the component (`TableProof`,
`RTableProof`), shows that the constants are as that module assumes and that both
instances have the same steps, and cites its lemmas. Elsewhere the lemmas of a component stand
in the proofs of its composition and name its definitions through the instance.

**RequestBridge.** None of the properties is inductive alone. That `send_response` finds its
handler waiting, for instance, rests on the request being live, which rests on the worker
not having freed it, which rests on its not having been answered, which rests on nobody else
having answered while R held it: not R, since it answers once, and not a stop, since the same
thread would have to run it. `IInv` has a part for each of the views involved, and every part
needs the others:

* `WorkerInv`: what a worker holds at each place of its callback, and that a waiting
  unanswered request is in a list;
* `ObjectInv`: ids name one object each, a live request has its handler, an anchor its
  connection, and the anchor of a close event has been let go, so that `Reap` frees
  nothing a callback still follows;
* `QueueInv`: an object is queued once and then perhaps active; while `g_running` is
  set, no queued request has been answered; until the first stop, none is freed;
* `RInv`: what the R thread holds at each place, and that a context that is absent or
  just listening has idle workers.

For each part a `...Step` lemma shows that it survives every step, one case per action;
`...Frame` lemmas settle at once the actions that touch none of its variables. Lemmas
about `ToSet` and `IsInjective` after an append and a pop stand in for the sequence
reasoning.

**Events.** `IInv` says what the lists contain; the order of events depends on where in the
queue it is. `EventInv` adds it: each event has its anchor ahead of it or in the active list
(`AnchorFirst`), no event follows the CLOSE of its connection (`CloseIsLast`), the anchor of an
open connection is in a list (`AnchorsAreListed`), and an event that R has in hand has its
anchor, with nothing behind a CLOSE (`EventInHand`). An event can be appended because its
connection is open, so no live CLOSE has its id: the anchor of such a CLOSE has been let go by
its worker (`ObjectInv`). A CLOSE can free the anchor because it was the last to need it.
`OrderKeeps`, `OrderGrows` and `OrderPops` say what the order does when the queue stays, grows
and shrinks; `SameIds`, that ids and kinds never change, carries it from state to state.

**Exchange.** The mapping to `RequestExchange` keeps of the queue what has no answer yet
(`Those`), since a stop answers requests that are still queued. `ThoseAppend` and `ThoseTail` say
what a filter does when a sequence grows or loses its head, `ThoseSame` that it only depends on
the elements, and `ThoseNone` that nothing is left after a sweep. Then `IInv` decides which step
of the exchange an action is: what `Dequeue` takes waits for its answer or is no request,
what `Respond` answers was handed over, and what `Stop` refuses is all that waits, queued or
active. Every other action leaves the four sets as they are (`ExchangeFrame`).

**ServeLoop.** `PollingLoopIsGuarded` speaks of loops that poll, but a second loop starts in
a handler, so it does not hold up by itself. `Guarded`, in `LoopInv`, says that until a
handler stops the server there is one loop at most, that its server runs, and that it holds
the flag in its handlers too: the server that runs keeps `serve` out, the flag `run_server`.

**WorkerPool.** `idle` is one number and what it counts a set. A worker that dies at its start
stays counted, so in general `idle` is only an upper bound, and `IInv` says both. A socket is
not stranded because `Covered` (as many idle workers as sockets, or a full pool) holds
wherever the master is, but for one socket between `Produce` and the start of a worker.

**Sockets.** `HolderInv` says which workers and places of the ring hold which socket, as
equalities between holders rather than as a cardinality. What makes the proof long is the
ring: sockets are at `sq_tail + j - 1` modulo its size, and both indexes drop by the size at
once when the tail passes it. `Place` names the position, and its lemmas say that places of
different sockets differ, that taking moves all of them by one, and that the new socket's is
free. The refinement follows from the same lemmas.

**HandlerTable.** `TableInv` adds what a request holds at each place (`Holding`): a callback of
the list, with the function it was found with. Whoever holds one makes its count positive
(`UsedIsCounted`), which is what keeps `mg_set_handler_type` from removing or replacing it
(`SetterFrame`); and the count is exact because taking and giving back move one worker in or
out of a set whose size stays below the width of the counter (`NoWrap`). A callback that
declines is released, and a second time if access is denied afterwards (see Findings), so the
theorem assumes `~MayDecline`; `handler()` in `server.c` always returns 1.

For the program of `server.c`, `RInv` adds that the table holds what R has set so far (`RNodes`):
first the handler of every request, then that of `/ws`; and that a worker that found a WebSocket
callback asked for one of the paths which `/ws` covers (`RFound`). `RRequestsMatch` is the lookup
in its three steps: by name, below a name, by pattern.

**DavLocks.** `OneHolder` is inductive with the types. The case that matters is a LOCK that is
let through: every slot of another user for its path has expired and is cleared
(`OthersAreCleared`). That an answer names a token of its own depends on nobody taking the slot
between the search and the answer, which is so while the table has room and nothing expired.
`SlotsInv` says why there is room: the slots in use and the LOCKs that have not searched yet are
together no more than the requests so far, so a LOCK finds a slot that is free, and no answer is
pending from it. First and oldest slots are least elements of sets of numbers (`LeastIs`, by
`WFMin`), which is also how the proofs get an index where one might think of an induction.

**FileStore.** `WorkerInv` says of each step of a request what it holds: which method it
belongs to and that no check is still ahead of a change (`StepIsOf`), the handle and the position
in a body (`BodyIsStored`), and that `remove_directory`, on a tree that others move about, never
leaves the directory it began with (`WalksBelow`; `UnderIs` says what is below a directory, as
the least set that holds it and the entries of its members). `NotSeen`: the file that a worker
asked about or opened is never one that may not be written, whatever has its name now, since
ids stay with files. With others about, nothing else can be said of the tree but that it is
one: `TreeWithDir`, `TreeWithFile`, `TreeWithout`, `TreeMoved` and `TreeWritten` show that each
call keeps it so. A step disturbs its own worker only, and `StoreKept` settles the others.
`ChangesAreSafe` follows from the invariant and one step (`MovedIsKept`, `ProtectedIsKept`). The
proof found one mistake in the model: a directory could be renamed into itself, which
`rename()` refuses.

**FileResponse.** The lengths are looked at several times, before and after the file is opened,
and by other means for a zipped file. `LengthIsCurrent` says at which step they agree with
each other while nobody writes; `BodyIsPart`, that what has been sent is the file from the
start of the range, and that what is left is in the file. When somebody writes, what remains is
`HeadComesFirst`: what was sent and what is left are together the length in the head, so a
body is never longer. `NameIsKnown` keeps the name and the encoding together over error pages
and the second look.

**DirectoryListing.** `OneEach` says that what `readdir` returned is in the array or printed, once,
as long as memory lasts, and `Stage` that the scan does not end before it returned what stayed;
`RoomIsKept` ties the count of names to the entries and these to the room for them. `mg_sort` is
a function of the array: with any gap an element that sinks permutes the others
(`FromIsOneToOne`, since multiples of a gap are a gap apart), so no pass loses or repeats one,
and the last pass, with a gap of 1, leaves the first `j` elements in order after its turn `j`
(`SinkSorts`). It is never left out unless there are fewer than two elements. That
`compare_dir_entries` is an order (`CompareIsOrder`) is used for elements that never were compared.

**HandlerRegistry.** `StackMatchesFrames` compares two stacks through all their prefixes;
`Enter` and `Leave` show what pushing and dropping does to both. The table of `RouteTable` is
set under a full path, which the code pastes from the prefixes on the stack at that moment and
the table keeps for each call that is open. `PastedAppend` (pasting one prefix more appends its segments) and
`StackMatchesFrames` make the two the same (`BaseIs`), however many calls an error has left.
`RouteSet` and `RouteRemoved` then compare the environment, which has an entry of methods for each
path, with the table, a set of routes: one entry changes, in one method, and every other route
stays, also when the last method of a path goes and its entry with it.

**StaticMounts.** The answer is compared with what the most specific mount has (`Best`), but the
loop never looks at two mounts at once. `InTurn` says of the mounts it is done with that they are
ahead of the others and that each which has the path lacked something, as `lacked` recorded
when it happened; as long as nobody touches the files, `lacked` is exactly the mounts that have
nothing. `NameIsRight` says which name the looks of a mount are about: the file's own, in the
root, or the one in the URL, and then the mount lacked the file. `FileIsAhead` says that a
mount which did not lack anything has its answer still ahead: the file, an index name that was
not looked at, or its listing; it holds until the mount is in `lacked`, so that a file that goes
between two looks is no case of its own. `FileStays` is the stronger form while nobody touches
the files, where what comes out is what the mount has. `Noticed` is the step they share: a mount
that has nothing now is in `lacked` now. The loop orders prefixes by their characters and `Best`
by their segments. Among prefixes of one path these agree, because a longer prefix has more
characters (`NCharGrows`, `AheadIsBefore`). `Mount` is the first of those that are left;
`HasFirst` shows by induction over the mounts that there is one, so that `MountIs` may use it.

**ServerStart.** `StartInv` says at each step of `mg_start2` what the context has come to own
(`Owned`), but for a master thread that nobody missed; and of the loop over the ports, that as long
as every entry was counted, each one seen is listened on or optional (`EntriesCount`). Another
process may take any port that is not bound at any time, never one that is, which is why an
entry once opened stays. What is lost (`KnownLosses`) follows from where the invariant says that
nothing listens and nothing is owned.

**SocketClose.** A close aborts only with a linger time of 0 seconds or with unread input.
`CloseInv` says that 0 seconds come only from 0 milliseconds: the code rounds up.

**ClientConnection.** `Owned` gives the resources of each step of connecting, using and
closing, for the connection with a thread and without; `ConnectionsAreFreed` follows because
`held` is never anything else. The thread and its owner meet in `Join`: until then neither
frees what the other uses.

**RequestDispatch.** A callback that declines sends its request back to an earlier step, with
flags of the first pass. `DispatchInv` says therefore of every step what the request was let
through by: nothing before `authorize`, exactly the check that its flags call for (`Check`)
from there on, so that the flags must not change in between; and that no step is reached after
an answer (`Unanswered`). `Sorted` is what the flags have excluded on the way.

**ThrottledWrite.** A result is compared with what went out over several turns and three
parts. `Pushed` relates, within a turn, what the socket took to what is counted, and says that
they differ only if the connection is broken; `Parts` relates the wire to the parts that are
done. With a quota of `q`, a second may see a part that an earlier second was granted, so
`RateInv` counts by the place of the worker (`Seen`): what is charged to this second, plus `q`
for what an earlier one granted, plus `q` for the first turn of the loop, which comes without
a pause. Three quotas are what that adds up to.

**ResponseWriter.** A response is cut short at any operation, and what is left of it is replaced
by an error page, which may itself be replaced. So the invariant does not say what was sent but
what can become of it. A client is somewhere in a response (`Views`): nothing is begun, the head is
in the buffer, it is being written by hand, or it is complete and the body comes; and it was
told a length or not.
`Course(todo, a, b)` says that the operations still to do lead from the place `a` to `b`, each
allowed where it is done, and `Headed`, that the client is at such an `a`
(`Seen`) and that `b` is `Delimited`: all has come that was told, or the connection closes. Every
answer is such a course from the start (`Answer`), an error page from any place but an open
head, and a step takes one operation off the front. A course is a sequence of places and not
a recursion over operations, so that courses can be joined and cut (`CourseJoin`,
`CourseHead`). What the client saw is the wire: `WithBody` and `Tells` tie a
place to the items on it. Where the connection closes, only the order of the items matters, which is
why a response of R that has more headers than there is room for is covered there. The assumptions
on R's headers are needed: with a `Content-Length` of R's own, or one that found no room, a
client on a connection that is kept would not know the end. `server.c` never enables
keep-alive, so that its connections close after each response. A status that is refused leads to no
place at all, so `ResponseInv` is `Headed` or `Refused`: the head was refused or will be, before any
body is written (`BodyLast`), and what is on the wire is body alone. Which of the two it is, the
status decides when the answer begins (`HandlerRefused`), and no step leads from one to the other.

**WebSocketStream.** `WritersInv` has the frame of each thread beside what is on the wire. Between
the two writes of a frame its header is the last thing written (`HeaderIsLast`), because its
writer holds the mutex (`OneWrites`). What the header says is read with `DataLen` and `HeaderLen`,
which are the reader's, `read_websocket`: `HeaderReads` shows that they read back from the
bytes of `mg_websocket_write_exec` the length that went in. A PONG repeats the payload of its
PING, so its length is one that the reader took from the client; it is less than what is in the
buffer (`ReaderTyped`). That the client's stream consists of bytes is an induction over its
frames (`FlattenIs`).

**Induction.** The theorems of induction in the library take an operator, which no prover here
can instantiate. `Induction` of `OutputProofs`, `RequestBridgeProofs`, `PackageProofs` and
`FilesProofs` is about a set of numbers instead, and follows from `WFMin`. The recursive functions in `Those`,
`Pasted`, `FlattenSeq`, `NChar`, `Pass` and `MgSort` are reasoned about with it: first that the function which the
definition chooses exists (`ThoseIs`, `PastedIs`, `FlattenIs`, `NCharIs`), then what it computes.
`StepsMake` does the first for any sequence of steps from a value, and `MadeKeeps` carries what
holds from each step to the next.

**Only model-checked.** Liveness, which the prover does not reach. The resolution of a path
(`Normal`) is a recursive function, of which `MountsAreRight` uses that it gives a name or nothing
that is there; that it is what a file system makes of `..` is not proved. `RequestsAreFramed` and
`FramesAreDelivered` of `MCConnection` have no proof yet.

## Not modelled

* TLS, CGI, Lua, HTTP/2, server-side scripts and compression on the fly are not compiled in
  (`src/src/Makevars`: `-DNO_SSL -DNO_CGI -DUSE_WEBSOCKET -DUSE_IPV6`).
* The parsing of heads, URIs, dates, cookies and form data, digests and password files are
  functions of text; the models take their results as given.
* Failing allocation in `server.c`, where it ends in an R error on a thread that is not R's, and
  the width of `next_id`.
* Checks of single arguments, printing, S3 methods and the table of `.Call` entries: no state.
* Examples, assets and CI.

Abstractions inside the modelled parts are in the head of each module and in the `note` of
its component in `PROJECT.json`.

## Plan

1. Proofs of what is only model-checked in `MCConnection`: `RequestsAreFramed` and
   `FramesAreDelivered`. Both are about a parser that reads a stream in pieces; the first step is
   an invariant that says of each place in the parser which part of the client's message is behind it.
2. `WorkerPool` and `RequestBridge` composed: that a worker of the pool is a worker of the
   bridge, so that `ServerEnds` rests on `StopReturnsUnlessLate`.
3. A fault model for allocation in `server.c`.
