------------------------------- MODULE MCServer ------------------------------
(***************************************************************************)
(* The components of CivetWeb that live as long as a server does, side by  *)
(* side: its start, its threads, its table of handlers, and the end of a   *)
(* connection.  They share nothing, so their steps are not interleaved:    *)
(* part says which of them a behaviour is about, and the others stay as    *)
(* they began.  The threads occur twice, in a machine where threads and    *)
(* memory may fail, with the CONSTANTS of the run, and in one where not.   *)
(***************************************************************************)
EXTENDS WorkerPool

CONSTANTS
  FewerConns,                     \* bound: connections where nothing fails
  Ports, PortLists, MaxStarts,    \* of ServerStart
  Lingers, MaxWritten             \* of SocketClose

VARIABLES
  part,
  at, held, leaked, list, portsTotal, portsOk, listening, bound, taken, startFlag, starts,
  nodes, handlers, sets, done, pc, request, found, info, fn,
  config, closePc, linger, written, arrived, unread, fin, reset, gone

poolVars  == vars
startVars ==
  <<at, held, leaked, list, portsTotal, portsOk, listening, bound, taken, startFlag, starts>>
tableVars == <<nodes, handlers, sets, done, pc, request, found, info, fn>>
closeVars == <<config, closePc, linger, written, arrived, unread, fin, reset, gone>>
all == <<part, poolVars, startVars, tableVars, closeVars>>

ASSUME FewerAssumption == FewerConns \subseteq Conns
Calm == INSTANCE WorkerPool WITH
  Conns <- FewerConns, ThreadsMayFail <- FALSE, AllocMayFail <- FALSE

-----------------------------------------------------------------------------
(* A start: one port or two, optional or not, with other suffixes.         *)

Entries == {[port |-> p, suffix |-> s] : p \in {80, 81}, s \in {<<>>, <<"o">>, <<"s", "r">>}}
Lists   == {<<e>> : e \in Entries} \cup {<<e, f>> : e, f \in Entries}

StartUp == INSTANCE ServerStart WITH stop_flag <- startFlag

ASSUME StartAssumption == StartUp!ConstantsAreProper

-----------------------------------------------------------------------------
(* Handlers: two threads set, replace and remove the same and different    *)
(* ones; and civetweb_start_server() of server.c sets two after mg_start(),*)
(* while requests already arrive.                                          *)

Set(type, uri)    == [type |-> type, uri |-> uri, delete |-> FALSE]
Delete(type, uri) == [type |-> type, uri |-> uri, delete |-> TRUE]
Get(path)         == [type |-> "request", path |-> path]
Upgrade(path)     == [type |-> "websocket", path |-> path]

AB == {"/a", "/a/b", "**"}
Setters ==
  [s \in {"R", "T"} |->
     IF s = "R" THEN <<Set("request", "/a"), Delete("request", "/a")>>
     ELSE <<Set("request", "**"), Set("request", "/a")>>]
Alike    == {<<u, u>> : u \in AB}
Patterns == {<<"**", p>> : p \in AB} \cup Alike
Threads  == {"w1", "w2"}

Table == INSTANCE HandlerTable WITH
  Workers <- Threads, Program <- Setters, Requests <- {Get("/a"), Get("/a/b")},
  Exact <- Alike, Below <- {<<"/a", "/a/b">>}, Pattern <- Patterns,
  MayReject <- TRUE, MayDecline <- FALSE, AllocMayFail <- TRUE, MaxSets <- 3, Word <- 8

RSetters ==
  [s \in {"R", "T"} |->
     IF s = "R" THEN <<Set("request", "**"), Set("websocket", "/ws")>> ELSE <<>>]
\* What a handler for "/ws" covers: itself, what is below it, what it is a prefix of,
\* and its other spellings, for patterns are compared without regard to case.
WsPaths   == {"/ws", "/ws/x", "/wsx", "/WS"}
RPaths    == WsPaths \cup {"/x", "/x/ws"}
RRequests == {Get(p) : p \in RPaths} \cup {Upgrade(p) : p \in RPaths}
RBelow    == {<<"/ws", "/ws/x">>}
RPatterns == {<<"**", p>> : p \in RPaths} \cup {<<"/ws", p>> : p \in WsPaths}

RTable == INSTANCE HandlerTable WITH
  Workers <- Threads, Program <- RSetters, Requests <- RRequests,
  Exact <- {<<"/ws", "/ws">>}, Below <- RBelow, Pattern <- RPatterns,
  MayReject <- FALSE, MayDecline <- FALSE, AllocMayFail <- FALSE, MaxSets <- 2, Word <- 8

ASSUME TableAssumption == Table!ConstantsAreProper /\ RTable!ConstantsAreProper

-----------------------------------------------------------------------------
(* The end of a connection: server.c sets a linger time of 0.              *)

LingersDef == {-2, -1, 0, 1, 500, 1000, 1500}
ASSUME LingerAssumption == -2 \in Lingers /\ Lingers \subseteq Int /\ MaxWritten \in Nat

Closing == INSTANCE SocketClose WITH pc <- closePc

-----------------------------------------------------------------------------
ServerInit ==
  /\ part \in {"pool", "calm", "start", "table", "rtable", "close"}
  /\ Init
  /\ StartUp!Init /\ (part # "start" => taken = {})
  /\ IF part = "rtable" THEN RTable!Init ELSE Table!Init
  /\ Closing!Init /\ (part # "close" => config = -2)

\* A step of one component.
OfPool(A)  == A /\ UNCHANGED <<part, startVars, tableVars, closeVars>>
OfStart(A) == part = "start" /\ A /\ UNCHANGED <<part, poolVars, tableVars, closeVars>>
OfTable(A) == A /\ UNCHANGED <<part, poolVars, startVars, closeVars>>
OfClose(A) == part = "close" /\ A /\ UNCHANGED <<part, poolVars, startVars, tableVars>>

ServerNext ==
  \/ part = "pool" /\ OfPool(Next)
  \/ part = "calm" /\ OfPool(Calm!Next)
  \/ OfStart(StartUp!Next)
  \/ part = "table"  /\ OfTable(Table!Next)
  \/ part = "rtable" /\ OfTable(RTable!Next)
  \/ OfClose(Closing!Next)

\* The fairness of the components, see their modules.
ServerSpec ==
  /\ ServerInit /\ [][ServerNext]_all
  /\ WF_all(part = "calm" /\ OfPool(Calm!MasterStep))
  /\ WF_all(part = "calm" /\ OfPool(Calm!StartMaster))
  /\ WF_all(part = "calm" /\ OfPool(Calm!FreeContext))
  /\ \A w \in Workers : WF_all(part = "calm" /\ OfPool(Calm!WorkerStep(w)))
  /\ \A s \in {"R", "T"} : WF_all(part = "table" /\ OfTable(Table!SetterStep(s)))
  /\ \A w \in Threads : WF_all(part = "table" /\ OfTable(Table!WorkerStep(w)))
  /\ WF_all(OfStart(StartUp!EndMaster)) /\ WF_all(OfStart(StartUp!Stopped))
  /\ WF_all(OfClose(Closing!Server)) /\ WF_all(OfClose(Closing!Network))

-----------------------------------------------------------------------------
(* Properties, beside those of WorkerPool.                                 *)

\* While threads can be created, idle_worker_thread_count is exact and no socket
\* waits in the queue with neither an idle worker nor a full pool.
NoSocketWaits == part = "calm" => Calm!IdleCountIsExact /\ Calm!NoStrandedSocket

\* mg_stop() returns if no worker stays with its connection for ever, and if the server
\* listens on any port; a client that stays learns the end of its response, or that the
\* connection was reset; and a thread that removes a handler returns, even if requests
\* for it keep coming.
ServerEnds ==
  /\ part = "calm"  => Calm!StopTerminates
  /\ part = "start" => StartUp!StopReturns
  /\ part = "table" => Table!RemovalReturns
  /\ part = "close" => Closing!ClientLearnsTheEnd

\* A context that runs owns what it needs and listens on every required port.
StartIsWhole == StartUp!ContextIsWhole /\ StartUp!RequiredPortsListen

\* Where ports are closed they can be bound again, and only a start that fails behind
\* set_ports_option(), or a server without a master thread, leaves any behind; a close
\* throws the rest of a response away only with a linger time of 0, as that of server.c,
\* or when the client has sent what nobody read.
ClosedInOrder ==
  StartUp!PortsAreReleased /\ StartUp!LossesAreKnown /\ Closing!OnlyTheseReset

\* refcount is exact, nothing in use is removed, and no URI has two entries.
HandlersAreCounted == Table!HandlersAreCounted

\* Once civetweb_start_server() has returned, every HTTP request reaches handler(), also
\* one for a path that the WebSocket handler covers, and every upgrade for a path it
\* covers reaches R; before and after, no other upgrade does.
StartedServerAnswers ==
  part = "rtable" =>
    /\ ~RTable!Busy("R") =>
         \A r \in RRequests :
           r.type = "request" \/ r.path \in WsPaths => RTable!Lookup(r.type, r.path) # 0
    /\ \A w \in Threads :
         request[w].type = "websocket" /\ found[w] /\ pc[w] = "run" => request[w].path \in WsPaths
=============================================================================
