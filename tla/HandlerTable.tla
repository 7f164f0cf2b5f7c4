----------------------------- MODULE HandlerTable -----------------------------
(***************************************************************************)
(* The table of callbacks in civetweb.c: mg_set_handler_type() changes it, *)
(* and handle_request() looks callbacks up, runs them and gives them back, *)
(* in many threads at once.  A callback for HTTP requests is counted while *)
(* it is in use, and is not removed or replaced before it is free.         *)
(*                                                                         *)
(* One action is one critical section under the context's lock, or a call  *)
(* of a callback.                                                          *)
(***************************************************************************)
EXTENDS Integers, Sequences, SequencesExt, FiniteSets

CONSTANTS
  Workers,   \* the worker threads
  Program,   \* what each thread that sets handlers does: a sequence of [type, uri, delete]
  Requests,  \* what clients ask for: [type, path]
  Exact, Below, Pattern,  \* the pairs <<uri, path>> that match in each of the three steps
  MayReject, \* access may be denied, by a callback or a password file
  MayDecline,\* a callback may return 0
  AllocMayFail,
  MaxSets,   \* bound: the handlers ever set, at least those of the programs
  Word       \* bound: refcount is an unsigned int of that many values

Setters == DOMAIN Program
Nobody  == 0

VARIABLES
  nodes,     \* every mg_handler_info ever allocated: [type, uri, fn, refcount, removing]
  handlers,  \* dom_ctx->handlers, the numbers of the nodes in the order of the list
  sets,      \* how many handlers were set: each is a function of its own
  done,      \* how many operations of its program each setter has completed
  pc,        \* where each worker is in handle_request()
  request,   \* the request it serves
  found,     \* is_callback_resource
  info, fn   \* handler_info and callback_handler

table == <<nodes, handlers, sets>>
conn  == <<pc, request, found, info, fn>>
vars  == <<table, done, conn>>

NoRequest == [type |-> "none", path |-> "none"]

\* What the constants are in the code: lists of calls, and a counter that is wider than
\* there are workers.
ConstantsAreProper ==
  /\ \A s \in Setters : Program[s] \in Seq([type : STRING, uri : STRING, delete : BOOLEAN])
  /\ NoRequest \notin Requests
  /\ IsFiniteSet(Workers) /\ Word \in Nat /\ Cardinality(Workers) < Word
  /\ MaxSets \in Nat

Init ==
  /\ nodes = <<>> /\ handlers = <<>> /\ sets = 0
  /\ done = [s \in Setters |-> 0]
  /\ pc = [w \in Workers |-> "idle"] /\ request = [w \in Workers |-> NoRequest]
  /\ found = [w \in Workers |-> FALSE]
  /\ info = [w \in Workers |-> Nobody] /\ fn = [w \in Workers |-> 0]

-----------------------------------------------------------------------------
(* mg_set_handler_type().                                                  *)

Op(s) == Program[s][done[s] + 1]
Busy(s) == done[s] < Len(Program[s])

Entry(op) == {n \in Range(handlers) : nodes[n].type = op.type /\ nodes[n].uri = op.uri}
Completes(s) == done' = [done EXCEPT ![s] = @ + 1]

\* Only callbacks for requests are counted.
InUse(n) == nodes[n].type = "request" /\ nodes[n].refcount # 0

\* One round of the loop that waits for the end of use; a callback that is to be
\* removed is marked, so that nobody takes it any more.
WaitForEndOfUse(s) ==
  /\ Busy(s)
  /\ \E n \in Entry(Op(s)) :
       /\ InUse(n)
       /\ Op(s).delete /\ nodes' = [nodes EXCEPT ![n].removing = TRUE]
  /\ UNCHANGED <<handlers, sets, done, conn>>

UpdateHandler(s) ==
  /\ Busy(s) /\ ~Op(s).delete /\ sets < MaxSets
  /\ \E n \in Entry(Op(s)) : ~InUse(n) /\ nodes' = [nodes EXCEPT ![n].fn = sets + 1]
  /\ sets' = sets + 1 /\ Completes(s)
  /\ UNCHANGED <<handlers, conn>>

RemoveHandler(s) ==
  /\ Busy(s) /\ Op(s).delete
  /\ \E i \in DOMAIN handlers :
       /\ handlers[i] \in Entry(Op(s)) /\ ~InUse(handlers[i])
       /\ handlers' = RemoveAt(handlers, i)
  /\ Completes(s)
  /\ UNCHANGED <<nodes, sets, conn>>

\* Nothing to remove, a new entry at the end of the list, or no memory for it.
NoSuchHandler(s) ==
  /\ Busy(s) /\ Entry(Op(s)) = {}
  /\ \/ (Op(s).delete \/ AllocMayFail) /\ UNCHANGED table
     \/ /\ ~Op(s).delete /\ sets < MaxSets
        /\ nodes' = Append(nodes, [type |-> Op(s).type, uri |-> Op(s).uri, fn |-> sets + 1,
                                   refcount |-> 0, removing |-> FALSE])
        /\ handlers' = Append(handlers, Len(nodes) + 1) /\ sets' = sets + 1
  /\ Completes(s)
  /\ UNCHANGED conn

-----------------------------------------------------------------------------
(* get_request_handler(): an exact match is preferred to one of a parent   *)
(* path, and that to one of a pattern; within each, the first of the list. *)

Steps == <<Exact, Below, Pattern>>

\* <<step, i>>: entry i of the list matches in that step
Matching(type, path, steps) ==
  {m \in steps \X DOMAIN handlers :
     /\ nodes[handlers[m[2]]].type = type
     /\ <<nodes[handlers[m[2]]].uri, path>> \in Steps[m[1]]}

\* (mutant) there is no third step
AllButPatterns(type, path) == Matching(type, path, 1..2)

AllMatches(type, path) == Matching(type, path, 1..3)

Best(type, path) ==
  {m \in AllMatches(type, path) : \A k \in AllMatches(type, path) :
     \/ m[1] < k[1]
     \/ m[1] = k[1] /\ m[2] <= k[2]}

\* A callback that is being removed counts as none, even if others would match.
Lookup(type, path) ==
  LET usable == {n \in {handlers[m[2]] : m \in Best(type, path)} : ~nodes[n].removing}
  IN IF usable = {} THEN Nobody ELSE CHOOSE n \in usable : TRUE

Goes(w, where) == pc' = [pc EXCEPT ![w] = where]

Arrives(w) ==
  /\ pc[w] = "idle"
  /\ \E r \in Requests : request' = [request EXCEPT ![w] = r]
  /\ info' = [info EXCEPT ![w] = Nobody]
  /\ Goes(w, "find")
  /\ UNCHANGED <<table, done, found, fn>>

Find(w) ==
  /\ pc[w] = "find"
  /\ LET n == Lookup(request[w].type, request[w].path) IN
     /\ found' = [found EXCEPT ![w] = n # Nobody]
     /\ IF n = Nobody THEN UNCHANGED <<nodes, info, fn>>
        ELSE /\ fn' = [fn EXCEPT ![w] = nodes[n].fn]
             /\ IF request[w].type = "request"
                THEN /\ nodes' = [nodes EXCEPT ![n].refcount = (@ + 1) % Word]
                     /\ info' = [info EXCEPT ![w] = n]
                ELSE UNCHANGED <<nodes, info>>
  /\ Goes(w, "auth")
  /\ UNCHANGED <<handlers, sets, done, request>>

\* The authorization callback if there is one, the password files if there is none.
Authorize(w) ==
  /\ pc[w] = "auth"
  /\ \/ Goes(w, IF found[w] THEN "run" ELSE "idle")
     \/ /\ MayReject \/ Lookup("auth", request[w].path) # Nobody
        /\ Goes(w, "rejected")
  /\ UNCHANGED <<table, done, request, found, info, fn>>

\* The callback returns: it has served the request, or declares itself not
\* responsible.  A WebSocket callback ends with its connection.
CallbackReturns(w) ==
  /\ pc[w] = "run"
  /\ \/ request[w].type = "request" /\ Goes(w, "served")
     \/ request[w].type = "request" /\ MayDecline /\ Goes(w, "declined")
     \/ request[w].type = "websocket" /\ Goes(w, "idle")
  /\ UNCHANGED <<table, done, request, found, info, fn>>

\* (mutant) a rejected request keeps its reference
ReleaseUnlessRejected(w) ==
  /\ pc[w] \in {"rejected", "served", "declined"}
  /\ IF info[w] = Nobody \/ pc[w] = "rejected" THEN UNCHANGED nodes
     ELSE nodes' = [nodes EXCEPT ![info[w]].refcount = (@ - 1) % Word]
  /\ found' = [found EXCEPT ![w] = @ /\ pc[w] # "declined"]
  /\ Goes(w, IF pc[w] = "declined" THEN "auth" ELSE "idle")
  /\ UNCHANGED <<handlers, sets, done, request, info, fn>>

\* release_handler_ref(); a request that was declined is looked for among the files
\* after that, with its authorization to be checked again.
Release(w) ==
  /\ pc[w] \in {"rejected", "served", "declined"}
  /\ IF info[w] = Nobody THEN UNCHANGED nodes
     ELSE nodes' = [nodes EXCEPT ![info[w]].refcount = (@ - 1) % Word]
  /\ found' = [found EXCEPT ![w] = @ /\ pc[w] # "declined"]
  /\ Goes(w, IF pc[w] = "declined" THEN "auth" ELSE "idle")
  /\ UNCHANGED <<handlers, sets, done, request, info, fn>>

-----------------------------------------------------------------------------
SetterStep(s) == WaitForEndOfUse(s) \/ UpdateHandler(s) \/ RemoveHandler(s) \/ NoSuchHandler(s)
WorkerStep(w) == Find(w) \/ Authorize(w) \/ CallbackReturns(w) \/ Release(w)

Next == (\E s \in Setters : SetterStep(s)) \/ (\E w \in Workers : Arrives(w) \/ WorkerStep(w))

\* Threads go on; callbacks return (a WebSocket callback with its connection).
Spec ==
  /\ Init /\ [][Next]_vars
  /\ \A s \in Setters : WF_vars(SetterStep(s))
  /\ \A w \in Workers : WF_vars(WorkerStep(w))

-----------------------------------------------------------------------------
(* Properties.                                                             *)

Nodes == 1..Len(nodes)
TypeOK ==
  /\ \A n \in Nodes : nodes[n].refcount \in 0..(Word - 1) /\ nodes[n].fn \in 1..sets
  /\ Range(handlers) \subseteq Nodes /\ IsInjective(handlers)
  /\ sets \in 0..MaxSets /\ \A s \in Setters : done[s] \in 0..Len(Program[s])
  /\ pc \in [Workers -> {"idle", "find", "auth", "run", "served", "declined", "rejected"}]
  /\ info \in [Workers -> Nodes \cup {Nobody}] /\ found \in [Workers -> BOOLEAN]

\* the workers between get_request_handler() and release_handler_ref()
Holders(n) == {w \in Workers : info[w] = n /\ found[w] /\
                                 pc[w] \in {"auth", "run", "served", "declined", "rejected"}}

\* refcount, which all workers change, is the number of workers that use the callback.
RefcountIsExact == \A n \in Nodes : nodes[n].refcount = Cardinality(Holders(n))

\* civetweb.h says of mg_set_request_handler() that it waits until a handler that
\* is removed or updated becomes unused: no worker runs, or is about to run, a
\* callback whose registration has been removed or replaced.
HandlersInUseAreRegistered ==
  \A w \in Workers :
    /\ request[w].type = "request" /\ found[w] /\ pc[w] \in {"auth", "run"}
    => info[w] \in Range(handlers) /\ nodes[info[w]].fn = fn[w]

\* There is never a second entry for the same URI: what was set last is what is
\* found, however many threads set and remove handlers for it.
OneEntryPerUri ==
  \A n, m \in Range(handlers) :
    nodes[n].type = nodes[m].type /\ nodes[n].uri = nodes[m].uri => n = m

HandlersAreCounted == RefcountIsExact /\ HandlersInUseAreRegistered /\ OneEntryPerUri

\* Whoever removes a handler returns, even if requests for it keep coming.
RemovalReturns ==
  \A s \in Setters : (Busy(s) /\ Op(s).delete) ~> (~Busy(s) \/ ~Op(s).delete)
=============================================================================
