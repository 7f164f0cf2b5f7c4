--------------------------- MODULE HandlerRegistry ---------------------------
(* The R handler registry: group(), handle(), unhandle(), clear_handlers(),   *)
(* on_ws(), .dispatch_request() and .dispatch_ws_event() of R/handler.R, with *)
(* the state they keep in R/state.R.                                          *)
(*                                                                            *)
(* R code runs in nested frames: the expression of a group() may open another *)
(* group, register handlers, start a loop that dispatches requests, or fail,  *)
(* and a handler may do the same.  `frames` are the calls that are running.   *)
(* An error leaves them one by one, running their on.exit, up to the call     *)
(* that catches it, and an interrupt all of them.  A path is the sequence of  *)
(* its segments.                                                              *)
EXTENDS Naturals, Sequences

CONSTANTS
  Prefixes,     \* what group() is given, as .normalize_prefix() returns it
  Paths,        \* what handle(), unhandle() and a request name
  Spellings,    \* methods as the caller writes them
  Methods,      \* methods in capitals
  Upper,        \* toupper(): Spellings -> Methods
  Funs,         \* handler functions
  Events,       \* "open", "message", "close"
  None,         \* no function: NULL
  MaxFrames     \* bound on nested calls

ASSUME RegistryAssumption ==
  /\ Upper \in [Spellings -> Methods]
  /\ None \notin Funs
  /\ MaxFrames \in Nat

VARIABLES
  handlers,     \* .state$handlers_env: path -> (method -> function)
  prefixes,     \* .state$prefix_stack
  wsHandlers,   \* .state$ws_handlers
  frames,       \* the running group(), dispatch and WebSocket calls
  raised,       \* an error or an interrupt is on its way out of them
  interrupted,  \* it is an interrupt
  called,       \* what the last dispatch ran, of which request; None if nothing
  answer        \* the status the last dispatch returned, 0 while it has none

vars == <<handlers, prefixes, wsHandlers, frames, raised, interrupted, called, answer>>

NoHandlers == [p \in {} |-> None]
NoListeners == [e \in Events |-> None]

Init ==
  /\ handlers = NoHandlers
  /\ prefixes = <<>>
  /\ wsHandlers = NoListeners
  /\ frames = <<>>
  /\ raised = FALSE
  /\ interrupted = FALSE
  /\ called = None
  /\ answer = 0

(* paste0(..., collapse = "") *)
Pasted(ps) ==
  LET joined[n \in 0 .. Len(ps)] == IF n = 0 THEN <<>> ELSE joined[n - 1] \o ps[n]
  IN  joined[Len(ps)]

CurrentPrefix == Pasted(prefixes)

Full(path) == CurrentPrefix \o path

Name(method) == Upper[method]

Entry(path) ==
  IF path \in DOMAIN handlers THEN handlers[path] ELSE [m \in {} |-> None]

GetHandler(method, path) ==
  IF Name(method) \in DOMAIN Entry(path) THEN Entry(path)[Name(method)] ELSE None

Assign(f, x, y) == [z \in DOMAIN f \cup {x} |-> IF z = x THEN y ELSE f[z]]
Without(f, x) == [z \in DOMAIN f \ {x} |-> f[z]]

(* A call enters a frame; `saved` remembers the stack it found. *)
Frame(kind, prefix) == [kind |-> kind, prefix |-> prefix, saved |-> prefixes]
Top == frames[Len(frames)]
Left(s) == SubSeq(s, 1, Len(s) - 1)
Entered(f) == Append(frames, f)

(* group() leaves by dropping the last element of the stack, whatever it is.  *)
OnExitUncaught == IF Top.kind = "group" /\ ~raised THEN Left(prefixes) ELSE prefixes

OnExit == IF Top.kind = "group" THEN Left(prefixes) ELSE prefixes

Running == ~raised
CanEnter == Running /\ Len(frames) < MaxFrames

EnterGroup ==
  \E prefix \in Prefixes :
    /\ CanEnter
    /\ frames' = Entered(Frame("group", prefix))
    /\ prefixes' = Append(prefixes, prefix)
    /\ UNCHANGED <<handlers, wsHandlers, raised, interrupted, called, answer>>

LeaveGroup ==
  /\ Running
  /\ frames # <<>> /\ Top.kind = "group"
  /\ prefixes' = OnExit
  /\ frames' = Left(frames)
  /\ UNCHANGED <<handlers, wsHandlers, raised, interrupted, called, answer>>

(* handle(): with overwrite = FALSE a method that is taken is an error. *)
HandleWith(method, path, fun, overwrite) ==
  LET full  == Full(path)
      taken == ~overwrite /\ Name(method) \in DOMAIN Entry(full)
  IN  /\ Running
      /\ raised' = taken
      /\ handlers' = IF taken THEN handlers
                     ELSE Assign(handlers, full, Assign(Entry(full), Name(method), fun))
      /\ UNCHANGED <<prefixes, wsHandlers, frames, interrupted, called, answer>>

Handle ==
  \E method \in Spellings, path \in Paths, fun \in Funs, overwrite \in BOOLEAN :
    HandleWith(method, path, fun, overwrite)

Removed(method, path) ==
  LET entry == Without(Entry(path), Name(method))
  IN  IF path \notin DOMAIN handlers THEN handlers
      ELSE IF DOMAIN entry = {} THEN Without(handlers, path)
      ELSE Assign(handlers, path, entry)

Unhandle ==
  \E method \in Spellings, path \in Paths :
    /\ Running
    /\ handlers' = Removed(method, Full(path))
    /\ UNCHANGED <<prefixes, wsHandlers, frames, raised, interrupted, called, answer>>

ClearPaths ==
  /\ Running
  /\ handlers' = NoHandlers
  /\ UNCHANGED <<wsHandlers, prefixes, frames, raised, interrupted, called, answer>>

ClearHandlers ==
  /\ Running
  /\ handlers' = NoHandlers
  /\ wsHandlers' = NoListeners
  /\ UNCHANGED <<prefixes, frames, raised, interrupted, called, answer>>

OnWs ==
  \E event \in Events, fun \in Funs \cup {None} :
    /\ Running
    /\ wsHandlers' = [wsHandlers EXCEPT ![event] = fun]
    /\ UNCHANGED <<handlers, prefixes, frames, raised, interrupted, called, answer>>

(* .dispatch_request(): no handler is a 404.  The query is parsed before the  *)
(* tryCatch: a parameter that is empty ("a&&b") is an error nobody catches    *)
(* here.  Then the handler runs in a frame of its own.                        *)
Dispatch ==
  \E method \in Spellings, path \in Paths \cup DOMAIN handlers, parses \in BOOLEAN :
    LET fun == GetHandler(method, path)
        runs == fun # None /\ parses
    IN  /\ CanEnter
        /\ called' = IF runs THEN <<path, Name(method), fun>> ELSE None
        /\ answer' = IF fun = None THEN 404 ELSE 0
        /\ raised' = (fun # None /\ ~parses)
        /\ frames' = IF runs THEN Entered(Frame("call", <<>>)) ELSE frames
        /\ UNCHANGED <<handlers, prefixes, wsHandlers, interrupted>>

(* The handler returns.  .normalize_response() takes one string or a list     *)
(* whose headers are a list; it stops on the rest, inside the tryCatch.       *)
Return ==
  \E usable \in BOOLEAN :
    /\ Running
    /\ frames # <<>> /\ Top.kind = "call"
    /\ answer' = IF usable THEN 200 ELSE 500
    /\ frames' = Left(frames)
    /\ UNCHANGED <<handlers, prefixes, wsHandlers, raised, interrupted, called>>

(* .dispatch_ws_event() *)
WsEvent ==
  \E event \in Events :
    /\ CanEnter
    /\ wsHandlers[event] # None
    /\ called' = <<event, wsHandlers[event]>>
    /\ frames' = Entered(Frame("ws", <<>>))
    /\ UNCHANGED <<handlers, prefixes, wsHandlers, raised, interrupted, answer>>

WsReturn ==
  /\ Running
  /\ frames # <<>> /\ Top.kind = "ws"
  /\ frames' = Left(frames)
  /\ UNCHANGED <<handlers, prefixes, wsHandlers, raised, interrupted, called, answer>>

(* Code of a frame fails, as by a bad argument or stop(), or the user         *)
(* interrupts it.                                                             *)
Fail ==
  /\ Running
  /\ frames # <<>>
  /\ raised' = TRUE
  /\ interrupted' \in BOOLEAN
  /\ UNCHANGED <<handlers, prefixes, wsHandlers, frames, called, answer>>

(* It leaves the innermost frame, whose on.exit runs.  The tryCatch of a      *)
(* dispatch turns an error into a 500, the try() of a WebSocket event drops   *)
(* it; both are for errors only and let an interrupt pass.                    *)
Caught == Top.kind # "group" /\ ~interrupted

Unwind ==
  /\ raised
  /\ frames # <<>>
  /\ prefixes' = OnExit
  /\ frames' = Left(frames)
  /\ raised' = ~Caught
  /\ answer' = IF Caught /\ Top.kind = "call" THEN 500 ELSE answer
  /\ UNCHANGED <<handlers, wsHandlers, interrupted, called>>

(* It reaches the prompt or the script. *)
TopLevel ==
  /\ raised
  /\ frames = <<>>
  /\ raised' = FALSE
  /\ interrupted' = FALSE
  /\ UNCHANGED <<handlers, prefixes, wsHandlers, frames, called, answer>>

Next ==
  \/ EnterGroup \/ LeaveGroup
  \/ Handle \/ Unhandle \/ ClearHandlers \/ OnWs
  \/ Dispatch \/ Return
  \/ WsEvent \/ WsReturn
  \/ Fail \/ Unwind \/ TopLevel

Spec == Init /\ [][Next]_vars

-----------------------------------------------------------------------------
FrameKinds == {"group", "call", "ws"}
FrameSet == [kind : FrameKinds, prefix : Prefixes \cup {<<>>}, saved : Seq(Prefixes)]

RoutesOK ==
  \A path \in DOMAIN handlers :
    /\ DOMAIN handlers[path] \subseteq Methods
    /\ \A m \in DOMAIN handlers[path] : handlers[path][m] \in Funs

CallsOK ==
  /\ prefixes \in Seq(Prefixes)
  /\ frames \in Seq(FrameSet) /\ Len(frames) <= MaxFrames
  /\ \A k \in 1 .. Len(frames) : frames[k].kind = "group" => frames[k].prefix \in Prefixes

(* Types: the stack holds prefixes, and a path leads to functions that were   *)
(* registered under methods in capitals.                                      *)
TypeOK ==
  /\ CallsOK
  /\ RoutesOK
  /\ wsHandlers \in [Events -> Funs \cup {None}]
  /\ raised \in BOOLEAN /\ interrupted \in BOOLEAN
  /\ called = None \/ called[Len(called)] \in Funs
  /\ answer \in {0, 200, 404, 500}

(* What the first k frames have put on the stack. *)
Expected(k) ==
  IF k = 0 THEN <<>>
  ELSE IF frames[k].kind = "group" THEN Append(frames[k].saved, frames[k].prefix)
  ELSE frames[k].saved

(* group() drops the last element of the stack when it exits, whatever it is: *)
(* the stack holds the prefixes of the groups that are running, and a frame   *)
(* finds it on its exit as it left it, after errors in nested groups too.     *)
StackMatchesFrames ==
  /\ prefixes = Expected(Len(frames))
  /\ \A k \in 1 .. Len(frames) : frames[k].saved = Expected(k - 1)

(* When everything has returned or failed, no prefix is left behind: a later  *)
(* handle() at the top level registers the path it names.                     *)
NothingLeftBehind == frames = <<>> => prefixes = <<>>

(* A path whose last method was removed is gone: exists() is what dispatch    *)
(* asks first.                                                                *)
NoEmptyEntry == \A path \in DOMAIN handlers : DOMAIN handlers[path] # {}

(* The registry implements the table of routes: what group() is in force is    *)
(* decided by the calls that are running, the last handle() of a method and   *)
(* path wins, unhandle() and clear_handlers() take effect at once, and a      *)
(* dispatch or an event runs what is registered for it at that moment.        *)
Bases == [k \in 1 .. Len(frames) |-> Pasted(Expected(k))]
RoutesNow ==
  UNION {{<<path, m, handlers[path][m]>> : m \in DOMAIN handlers[path]} :
           path \in DOMAIN handlers}
Routes == INSTANCE RouteTable WITH
            routes <- RoutesNow, listeners <- wsHandlers, bases <- Bases
ImplementsRoutes == Routes!Spec
=============================================================================
