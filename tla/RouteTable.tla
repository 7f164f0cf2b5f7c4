------------------------------ MODULE RouteTable ------------------------------
(* What the handler registry promises its callers: blocks nest, what a block  *)
(* registers lies under the paths of the blocks around it, the last           *)
(* registration of a method and path wins, and a request runs the function    *)
(* that is registered when it comes.                                          *)
EXTENDS Naturals, Sequences

CONSTANTS Prefixes, Paths, Methods, Funs, Events, None

VARIABLES
  routes,       \* set of <<path, method, function>>
  listeners,    \* event -> function
  bases,        \* the path under which each open block registers
  called        \* the route or listener that was run last, None if a request found none

vars == <<routes, listeners, bases, called>>

Init ==
  /\ routes = {}
  /\ listeners = [e \in Events |-> None]
  /\ bases = <<>>
  /\ called = None

Base == IF bases = <<>> THEN <<>> ELSE bases[Len(bases)]
At(path, method) == {r \in routes : r[1] = path /\ r[2] = method}

Open ==
  /\ \E prefix \in Prefixes : bases' = Append(bases, Base \o prefix)
  /\ UNCHANGED <<routes, listeners, called>>

End ==
  /\ bases # <<>>
  /\ bases' = SubSeq(bases, 1, Len(bases) - 1)
  /\ UNCHANGED <<routes, listeners, called>>

Set ==
  /\ \E path \in Paths, method \in Methods, fun \in Funs :
       routes' = (routes \ At(Base \o path, method)) \cup {<<Base \o path, method, fun>>}
  /\ UNCHANGED <<listeners, bases, called>>

Remove ==
  /\ \E path \in Paths, method \in Methods : routes' = routes \ At(Base \o path, method)
  /\ UNCHANGED <<listeners, bases, called>>

Clear ==
  /\ routes' = {}
  /\ listeners' = [e \in Events |-> None]
  /\ UNCHANGED <<bases, called>>

Listen ==
  /\ \E e \in Events, fun \in Funs \cup {None} :
       listeners' = [listeners EXCEPT ![e] = fun]
  /\ UNCHANGED <<routes, bases, called>>

(* A request runs the function of its path and method, an event its listener, *)
(* because it is registered now.                                              *)
Run ==
  /\ \/ called' \in routes
     \/ \E e \in Events : listeners[e] # None /\ called' = <<e, listeners[e]>>
  /\ bases' = Append(bases, Base)
  /\ UNCHANGED <<routes, listeners>>

(* No function was found, or the call failed before it ran. *)
Miss ==
  /\ called' = None
  /\ UNCHANGED <<routes, listeners, bases>>

Next == Open \/ End \/ Set \/ Remove \/ Clear \/ Listen \/ Run \/ Miss

Spec == Init /\ [][Next]_vars
=============================================================================
