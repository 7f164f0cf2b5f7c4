------------------------------ MODULE ServeLoop ------------------------------
(***************************************************************************)
(* The R side of civetwebR's life cycle: start_server(), stop_server(),    *)
(* run_server() and serve() (R/server.R, R/loop.R, R/serve.R) and the two  *)
(* variables they share, .state$server_xptr and .state$loop_running.       *)
(*                                                                         *)
(* User code runs at top level and inside handlers, and may call these     *)
(* functions from both: loops is the stack of loops R is in.  An error     *)
(* leaves the innermost loop and is caught by the handler around it, an    *)
(* interrupt leaves them all; either way each loop's on.exit runs.  A call *)
(* that ends in an error before it changed anything is no step.            *)
(***************************************************************************)
EXTENDS Naturals, Sequences

CONSTANT MaxDepth    \* bound: loops on the stack

ASSUME DepthAssumption == MaxDepth \in Nat

VARIABLES
  server,     \* .state$server_xptr is not NULL
  looping,    \* .state$loop_running
  loops,      \* the loops R is in, innermost last
  stopped,    \* history: a handler on this stack has called stop_server()
  left        \* the loop left last, why, and whether its function returned

loopVars == <<server, looping, loops, stopped, left>>

\* A loop of run_server() or serve(): "start" is serve() between start_server()
\* and on.exit(); in "http" and "ws" a handler runs.  known: the request is
\* still among those civetweb_send_response() can find.
LoopType == [loop : {"run", "serve"}, at : {"start", "poll", "http", "ws"}, known : BOOLEAN]

\* Types, and that only the innermost loop starts or polls: R is in a handler of
\* every loop below it.
LoopTypeOK ==
  /\ server \in BOOLEAN /\ looping \in BOOLEAN /\ stopped \in BOOLEAN
  /\ loops \in Seq(LoopType) /\ Len(loops) <= MaxDepth
  /\ \A i \in 1..(Len(loops) - 1) : loops[i].at \in {"http", "ws"}
  /\ left \in {"none", "run", "serve"} \X {"none", "stopped", "sentinel", "error", "interrupt"}
             \X BOOLEAN

LoopInit ==
  /\ server = FALSE /\ looping = FALSE /\ stopped = FALSE
  /\ loops = <<>> /\ left = <<"none", "none", FALSE>>

Innermost == loops[Len(loops)]
Below     == SubSeq(loops, 1, Len(loops) - 1)
InLoop(at) == loops # <<>> /\ Innermost.at = at
InHandler  == InLoop("http") \/ InLoop("ws")

UserCode   == loops = <<>> \/ InHandler

MoveTo(at) == [loops EXCEPT ![Len(loops)].at = at]

\* Stopping the server answers whatever its handlers waited for.
Forgotten(fs) == [i \in DOMAIN fs |-> [fs[i] EXCEPT !.known = FALSE]]

-----------------------------------------------------------------------------
(* User code.                                                              *)

\* start_server(): refused while .is_running()
StartServer ==
  /\ UserCode /\ ~server
  /\ server' = TRUE /\ looping' = FALSE
  /\ UNCHANGED <<loops, stopped, left>>

\* stop_server(): refused unless .is_running()
StopServer ==
  /\ UserCode /\ server
  /\ server' = FALSE /\ looping' = FALSE
  /\ loops' = Forgotten(loops) /\ stopped' = (stopped \/ InHandler)
  /\ UNCHANGED left

Push(loop, at) ==
  /\ Len(loops) < MaxDepth
  /\ loops' = Append(loops, [loop |-> loop, at |-> at, known |-> TRUE])

\* (mutant) run_server() without the check of .is_loop_running()
EnterRunUnchecked ==
  /\ UserCode /\ server
  /\ Push("run", "poll")
  /\ looping' = TRUE
  /\ UNCHANGED <<server, stopped, left>>

\* run_server(): refused unless .is_running(), and while .is_loop_running()
EnterRun ==
  /\ UserCode /\ server /\ ~looping
  /\ Push("run", "poll")
  /\ looping' = TRUE
  /\ UNCHANGED <<server, stopped, left>>

\* serve(): refused while .is_loop_running(); start_server()
EnterServe ==
  /\ UserCode /\ ~looping /\ ~server
  /\ Push("serve", "start")
  /\ server' = TRUE /\ looping' = FALSE
  /\ UNCHANGED <<stopped, left>>

\* serve(): the message is written, the flag set, on.exit() registered
ServeReady ==
  /\ InLoop("start")
  /\ looping' = TRUE /\ loops' = MoveTo("poll")
  /\ UNCHANGED <<server, stopped, left>>

-----------------------------------------------------------------------------
(* The two loops.                                                          *)

ExitRunning(why, returned) ==
  /\ looping' = (looping /\ Innermost.at = "start")
  /\ loops' = Below /\ stopped' = (stopped /\ Len(loops) > 1)
  /\ left' = <<Innermost.loop, why, returned>>
  /\ UNCHANGED server

\* on.exit() of the innermost loop: serve() also stops the server
ExitInnermost(why, returned) ==
  /\ IF Innermost.at = "start" THEN UNCHANGED <<server, looping>>
     ELSE /\ looping' = FALSE
          /\ server' = (server /\ Innermost.loop = "run")
  /\ loops' = IF Innermost.loop = "serve" /\ Innermost.at # "start" THEN Forgotten(Below) ELSE Below
  /\ stopped' = (stopped /\ Len(loops) > 1)
  /\ left' = <<Innermost.loop, why, returned>>

\* .next_request() has an event: the native queue gives none once it stopped
TakeEvent ==
  /\ InLoop("poll") /\ server
  /\ \E kind \in {"http", "ws"} :
       loops' = [loops EXCEPT ![Len(loops)] = [loop |-> Innermost.loop, at |-> kind, known |-> TRUE]]
  /\ UNCHANGED <<server, looping, stopped, left>>

\* (mutant) serve() without the check of .is_running()
ServeGoesOn ==
  /\ InLoop("poll") /\ Innermost.loop = "serve" /\ ~server
  /\ UNCHANGED loopVars

\* serve() sees that the server is gone
ServeEnds ==
  /\ InLoop("poll") /\ Innermost.loop = "serve" /\ ~server
  /\ ExitInnermost("stopped", TRUE)

\* .next_request() returns the interrupt sentinel: serve() stops the server and
\* breaks; run_server() has no case for it and fails on req$type == 0L
Sentinel ==
  /\ InLoop("poll") /\ server
  /\ ExitInnermost("sentinel", Innermost.loop = "serve")

\* the handler of a WebSocket event is done, with or without an error
WsDone ==
  /\ InLoop("ws")
  /\ loops' = MoveTo("poll")
  /\ UNCHANGED <<server, looping, stopped, left>>

\* .send_response(): done
Respond ==
  /\ InLoop("http") /\ Innermost.known
  /\ loops' = MoveTo("poll")
  /\ UNCHANGED <<server, looping, stopped, left>>

\* .send_response(): "unknown request id", or an error outside tryCatch() in
\* .dispatch_request() or .normalize_path()
LoopFails ==
  /\ InLoop("http") \/ InLoop("start")
  /\ ExitInnermost("error", FALSE)

\* an interrupt elsewhere unwinds every loop
Interrupt ==
  /\ loops # <<>>
  /\ LET exits == {i \in DOMAIN loops : loops[i].at # "start"} IN
       /\ looping' = (looping /\ exits = {})
       /\ server' = (server /\ \A i \in exits : loops[i].loop # "serve")
  /\ loops' = <<>> /\ stopped' = FALSE /\ left' = <<Innermost.loop, "interrupt", FALSE>>

HandlerStep == WsDone \/ Respond \/ (LoopFails /\ InLoop("http") /\ ~Innermost.known)
LoopStep    == ServeReady \/ ServeEnds \/ HandlerStep

LoopNext ==
  \/ StartServer \/ StopServer \/ EnterRun \/ EnterServe
  \/ ServeReady \/ TakeEvent \/ ServeEnds \/ Sentinel
  \/ WsDone \/ Respond \/ LoopFails \/ Interrupt

LoopSpec == LoopInit /\ [][LoopNext]_loopVars

\* Handlers return and loops go on; users and clients owe nothing.
FairSpec == LoopSpec /\ WF_loopVars(LoopStep)

-----------------------------------------------------------------------------
(* Properties.                                                             *)

\* The flag is set only while a loop is on the stack whose on.exit() will clear
\* it, whatever errors and interrupts did: run_server() and serve() are never
\* refused with "Server loop is already running" by a loop long gone.
FlagHasItsLoop == looping => \E i \in DOMAIN loops : loops[i].at # "start"

\* Unless a handler stops the server under it, a loop that polls a running server
\* holds the flag, so that no handler of its can start a second one.
PollingLoopIsGuarded == ~stopped /\ InLoop("poll") /\ server => looping

\* So run_server() and serve() do not run inside each other then.
OneLoopUnlessStopped == ~stopped => Len(loops) <= 1

\* Why the last two hold: until a handler stops the server there is one loop at
\* most, its server runs, and it holds the flag from on.exit() on, in its
\* handlers too.  With the types and FlagHasItsLoop this is inductive.
Guarded ==
  ~stopped =>
    /\ Len(loops) <= 1
    /\ loops # <<>> => server /\ (loops[1].at # "start" => looping)

LoopInv == LoopTypeOK /\ FlagHasItsLoop /\ Guarded

\* "run_server prevents double-looping", and so does serve().
OneLoop == Len(loops) <= 1

\* However serve() is left once it runs, by an error, an interrupt or because the
\* server stopped, no server is left behind.
ServeStopsItsServer ==
  [][\A i \in DOMAIN loops :
       i > Len(loops') /\ loops[i].loop = "serve" /\ loops[i].at # "start" => ~server']_loopVars

\* After stop_server() in a handler every serve() on the stack comes to its end.
StoppedServeUnwinds ==
  ~server /\ loops # <<>> /\ (\A i \in DOMAIN loops : loops[i].loop = "serve")
    ~> server \/ loops = <<>>

\* run_server() "runs until interrupted" and then "invisibly returns TRUE".
InterruptedRunReturns == left # <<"run", "sentinel", FALSE>>
=============================================================================
