-------------------------- MODULE HandlerTableProofs --------------------------
(***************************************************************************)
(* HandlerTable, for any threads and programs of theirs: the reference     *)
(* counts are exact, so that no callback in use is removed or replaced,    *)
(* and no URI has two entries.  It takes callbacks that do not decline, as *)
(* handler() of server.c does not: a request that was declined can be      *)
(* released twice.                                                         *)
(***************************************************************************)
EXTENDS HandlerTable, FiniteSetTheorems, TLAPS

NodeType == [type : STRING, uri : STRING, fn : Nat, refcount : Nat, removing : BOOLEAN]
InHandle == {"auth", "run", "served", "rejected"}

Types ==
  /\ nodes \in Seq(NodeType) /\ handlers \in Seq(Nodes) /\ sets \in Nat
  /\ done \in [Setters -> Nat]
  /\ pc \in [Workers -> InHandle \cup {"idle", "find"}]
  /\ request \in [Workers -> Requests \cup {NoRequest}]
  /\ found \in [Workers -> BOOLEAN]
  /\ info \in [Workers -> Nat] /\ fn \in [Workers -> Nat]

\* What a request holds between get_request_handler() and release_handler_ref().
Holding ==
  \A w \in Workers :
    /\ pc[w] = "find" => info[w] = Nobody
    /\ pc[w] \in InHandle /\ ~(request[w].type = "request" /\ found[w]) => info[w] = Nobody
    /\ pc[w] \in InHandle /\ request[w].type = "request" /\ found[w] =>
         /\ info[w] \in Range(handlers)
         /\ nodes[info[w]].type = "request" /\ nodes[info[w]].fn = fn[w]

TableInv == Types /\ IsInjective(handlers) /\ Holding /\ RefcountIsExact /\ OneEntryPerUri

-----------------------------------------------------------------------------
(* What the count says, and lists.                                         *)

\* Below its width a counter does not wrap.
LEMMA NoWrap ==
  ASSUME NEW m \in Nat, NEW x \in 0..(m - 1)
  PROVE  x % m = x
OBVIOUS

LEMMA HoldersFinite ==
  ASSUME ConstantsAreProper, NEW n
  PROVE  /\ IsFiniteSet(Holders(n)) /\ Cardinality(Holders(n)) \in Nat
         /\ Cardinality(Holders(n)) <= Cardinality(Workers) /\ Cardinality(Workers) \in Nat
<1>1. Holders(n) \in SUBSET Workers
  BY DEF Holders
<1> QED
  BY <1>1, FS_Subset, FS_CardinalityType DEF ConstantsAreProper

\* Whoever holds a callback holds one of the list, and it counts as in use.
LEMMA UsedIsCounted ==
  ASSUME ConstantsAreProper, TableInv, NEW w \in Workers, pc[w] \in InHandle,
         request[w].type = "request", found[w]
  PROVE  info[w] \in Nodes /\ w \in Holders(info[w]) /\ InUse(info[w])
<1>1. /\ info[w] \in Range(handlers) /\ info[w] \in Nodes
      /\ nodes[info[w]].type = "request"
  BY DEF TableInv, Types, Holding, Range
<1>2. w \in Holders(info[w])
  BY DEF Holders, InHandle
<1>3. Cardinality(Holders(info[w])) # 0
  BY <1>2, HoldersFinite, FS_EmptySet
<1> QED
  BY <1>1, <1>2, <1>3 DEF TableInv, RefcountIsExact, InUse

\* Only what is in the list is held.
LEMMA HeldIsListed ==
  ASSUME TableInv, NEW n \in Nat, n # Nobody, NEW w \in Holders(n)
  PROVE  n \in Nodes /\ request[w].type = "request"
<1>1. w \in Workers /\ pc[w] \in InHandle /\ info[w] = n /\ found[w]
  BY DEF Holders, InHandle, TableInv, Types
<1>2. request[w].type = "request" /\ n \in Range(handlers)
  BY <1>1 DEF TableInv, Holding
<1> QED
  BY <1>2 DEF TableInv, Types, Range

LEMMA RemoveOne ==
  ASSUME NEW S, NEW s \in Seq(S), IsInjective(s), NEW i \in DOMAIN s
  PROVE  /\ RemoveAt(s, i) \in Seq(S) /\ IsInjective(RemoveAt(s, i))
         /\ Range(RemoveAt(s, i)) = Range(s) \ {s[i]}
<1> DEFINE r == RemoveAt(s, i)
<1>1. /\ Len(s) \in Nat /\ i \in 1..Len(s) /\ DOMAIN s = 1..Len(s)
      /\ r \in Seq(S) /\ DOMAIN r = 1..(Len(s) - 1)
      /\ \A j \in 1..(Len(s) - 1) : r[j] = s[IF j < i THEN j ELSE j + 1]
  <2> DEFINE a == SubSeq(s, 1, i - 1)
             b == SubSeq(s, i + 1, Len(s))
  <2>1. Len(s) \in Nat /\ i \in 1..Len(s) /\ DOMAIN s = 1..Len(s)
    OBVIOUS
  <2>2. a \in Seq(S) /\ Len(a) = i - 1 /\ \A j \in 1..(i - 1) : a[j] = s[j]
    BY <2>1
  <2>3. b \in Seq(S) /\ Len(b) = Len(s) - i /\ \A j \in 1..(Len(s) - i) : b[j] = s[i + j]
    BY <2>1
  <2>4. r = a \o b
    BY DEF RemoveAt
  <2> HIDE DEF a, b, r
  <2>5. r \in Seq(S) /\ Len(r) = Len(s) - 1
    <3>1. ASSUME NEW x \in Seq(S), NEW y \in Seq(S)
          PROVE  x \o y \in Seq(S) /\ Len(x \o y) = Len(x) + Len(y)
      OBVIOUS
    <3>2. r \in Seq(S) /\ Len(r) = Len(a) + Len(b)
      BY <2>2, <2>3, <2>4, <3>1
    <3> QED
      BY <2>1, <2>2, <2>3, <3>2
  <2>6. ASSUME NEW j \in 1..(Len(s) - 1) PROVE r[j] = s[IF j < i THEN j ELSE j + 1]
    <3>1. CASE j < i
      BY <2>1, <2>2, <2>3, <2>4, <3>1
    <3>2. CASE j >= i
      <4>1. j - (i - 1) \in 1..(Len(s) - i) /\ i + (j - (i - 1)) = j + 1
        BY <2>1, <3>2
      <4>2. r[j] = b[j - (i - 1)]
        BY <2>1, <2>2, <2>3, <2>4, <3>2
      <4> QED
        BY <2>1, <2>3, <3>2, <4>1, <4>2
    <3> QED
      BY <2>1, <3>1, <3>2
  <2> QED
    BY <2>1, <2>5, <2>6
<1> HIDE DEF r
<1>2. IsInjective(r)
  <2>1. ASSUME NEW j \in DOMAIN r, NEW k \in DOMAIN r, r[j] = r[k] PROVE j = k
    <3>1. (IF j < i THEN j ELSE j + 1) = (IF k < i THEN k ELSE k + 1)
      BY <1>1, <2>1 DEF IsInjective
    <3> QED
      BY <1>1, <3>1
  <2> QED
    BY <2>1 DEF IsInjective
<1>3. ASSUME NEW j \in DOMAIN r PROVE r[j] \in Range(s) \ {s[i]}
  <2>1. PICK k \in DOMAIN s : k = (IF j < i THEN j ELSE j + 1)
    BY <1>1
  <2>2. k # i /\ r[j] = s[k]
    BY <1>1, <2>1
  <2> QED
    BY <1>1, <2>2 DEF IsInjective, Range
<1>4. ASSUME NEW k \in DOMAIN s, k # i PROVE s[k] \in Range(r)
  <2>1. PICK j \in DOMAIN r : k = (IF j < i THEN j ELSE j + 1)
    <3>1. CASE k < i
      BY <1>1, <3>1
    <3>2. CASE k > i
      <4>1. k - 1 \in DOMAIN r /\ ~(k - 1 < i) /\ k - 1 + 1 = k
        BY <1>1, <3>2
      <4> QED
        BY <4>1
    <3> QED
      BY <1>1, <1>4, <3>1, <3>2
  <2> QED
    BY <1>1, <2>1 DEF Range
<1>5. Range(r) = Range(s) \ {s[i]}
  BY <1>3, <1>4 DEF Range
<1> QED
  BY <1>1, <1>2, <1>5 DEF r

LEMMA AppendOne ==
  ASSUME NEW S, NEW s \in Seq(S), IsInjective(s), NEW x, x \notin Range(s)
  PROVE  /\ Append(s, x) \in Seq(S \cup {x}) /\ IsInjective(Append(s, x))
         /\ Range(Append(s, x)) = Range(s) \cup {x}
<1> DEFINE r == Append(s, x)
<1>1. /\ Len(s) \in Nat /\ DOMAIN s = 1..Len(s) /\ r \in Seq(S \cup {x})
      /\ DOMAIN r = 1..(Len(s) + 1) /\ r[Len(s) + 1] = x
      /\ \A j \in 1..Len(s) : r[j] = s[j]
  OBVIOUS
<1> HIDE DEF r
<1>2. IsInjective(r)
  BY <1>1 DEF IsInjective, Range
<1>3. ASSUME NEW y PROVE y \in Range(r) <=> y \in Range(s) \cup {x}
  <2>1. CASE y = x
    <3>1. Len(s) + 1 \in DOMAIN r
      BY <1>1
    <3> QED
      BY <1>1, <2>1, <3>1 DEF Range
  <2>2. CASE y # x
    <3>1. y \in Range(r) => y \in Range(s)
      BY <1>1, <2>2 DEF Range
    <3>2. y \in Range(s) => y \in Range(r)
      BY <1>1 DEF Range
    <3> QED
      BY <2>2, <3>1, <3>2
  <2> QED
    BY <2>1, <2>2
<1> QED
  BY <1>1, <1>2, <1>3 DEF r

\* Assigning to one field of a node.
LEMMA ChangeOne ==
  ASSUME NEW S, NEW s \in Seq(S), NEW i \in DOMAIN s, NEW x \in S
  PROVE  /\ [s EXCEPT ![i] = x] \in Seq(S) /\ Len([s EXCEPT ![i] = x]) = Len(s)
         /\ \A j \in DOMAIN s : [s EXCEPT ![i] = x][j] = IF j = i THEN x ELSE s[j]
OBVIOUS

-----------------------------------------------------------------------------
(* Threads that set handlers.                                              *)

\* Nothing changes for the requests while callbacks in use keep their entry.
LEMMA SetterFrame ==
  ASSUME ConstantsAreProper, TableInv, UNCHANGED conn, nodes' \in Seq(NodeType),
         Len(nodes) <= Len(nodes'),
         \A n \in Nodes : /\ nodes'[n].type = nodes[n].type
                          /\ nodes'[n].refcount = nodes[n].refcount
                          /\ InUse(n) => nodes'[n].fn = nodes[n].fn,
         \A n \in Nodes' \ Nodes : nodes'[n].refcount = 0,
         \A n \in Range(handlers) : InUse(n) => n \in Range(handlers')
  PROVE  Holding' /\ RefcountIsExact'
<1>1. UNCHANGED <<pc, request, found, info, fn>>
  BY DEF conn
<1>2. \A n : Holders(n)' = Holders(n)
  BY <1>1 DEF Holders
<1>3. Holding'
  <2>1. ASSUME NEW w \in Workers, pc[w] \in InHandle, request[w].type = "request", found[w]
        PROVE  /\ info[w] \in Range(handlers')
               /\ nodes'[info[w]].type = "request" /\ nodes'[info[w]].fn = fn[w]
    <3>1. info[w] \in Nodes /\ InUse(info[w])
      BY <2>1, UsedIsCounted
    <3> QED
      BY <2>1, <3>1 DEF TableInv, Holding
  <2> QED
    BY <1>1, <2>1 DEF TableInv, Holding
<1>4. ASSUME NEW n \in Nodes' PROVE nodes'[n].refcount = Cardinality(Holders(n))
  <2>1. CASE n \in Nodes
    BY <2>1 DEF TableInv, RefcountIsExact
  <2>2. CASE n \notin Nodes
    <3>1. n \in Nat /\ n # Nobody
      BY DEF Nodes, Nobody
    <3>2. Holders(n) = {}
      BY <2>2, <3>1, HeldIsListed
    <3> QED
      BY <1>4, <2>2, <3>2, FS_EmptySet
  <2> QED
    BY <2>1, <2>2
<1> QED
  BY <1>2, <1>3, <1>4 DEF RefcountIsExact

LEMMA SetterKeeps ==
  ASSUME ConstantsAreProper, TableInv, NEW s \in Setters, SetterStep(s)
  PROVE  TableInv'
<1>1. /\ nodes \in Seq(NodeType) /\ handlers \in Seq(Nodes) /\ sets \in Nat
      /\ done \in [Setters -> Nat] /\ Len(nodes) \in Nat /\ DOMAIN nodes = Nodes
      /\ \A n \in Nodes : nodes[n] \in NodeType
      /\ Range(handlers) \subseteq Nodes /\ IsInjective(handlers)
  BY DEF TableInv, Types, Nodes, Range
<1>2. ASSUME Busy(s) PROVE Op(s).type \in STRING /\ Op(s).uri \in STRING
  <2> DEFINE OpType == [type : STRING, uri : STRING, delete : BOOLEAN]
  <2>1. Program[s] \in Seq(OpType) /\ done[s] \in Nat /\ done[s] < Len(Program[s])
    BY <1>1, <1>2 DEF ConstantsAreProper, Busy
  <2> HIDE DEF OpType
  <2>2. Program[s][done[s] + 1] \in OpType
    BY <2>1
  <2> QED
    BY <2>2 DEF Op, OpType
<1>3. UNCHANGED conn /\ Busy(s)
  BY DEF SetterStep, WaitForEndOfUse, UpdateHandler, RemoveHandler, NoSuchHandler
<1>4. ASSUME nodes' \in Seq(NodeType), handlers' \in Seq(Nodes'), sets' \in Nat, done' \in [Setters -> Nat]
      PROVE  Types'
  BY <1>3, <1>4 DEF conn, TableInv, Types
<1>5. CASE WaitForEndOfUse(s)
  <2>1. PICK n \in Nodes : nodes' = [nodes EXCEPT ![n].removing = TRUE]
    BY <1>1, <1>5 DEF WaitForEndOfUse, Entry
  <2>2. UNCHANGED <<handlers, sets, done>>
    BY <1>5 DEF WaitForEndOfUse
  <2>3. nodes' \in Seq(NodeType) /\ Len(nodes') = Len(nodes) /\ Nodes' = Nodes
    <3>1. nodes' = [nodes EXCEPT ![n] = [nodes[n] EXCEPT !.removing = TRUE]]
      BY <2>1
    <3>2. [nodes[n] EXCEPT !.removing = TRUE] \in NodeType
      BY <1>1 DEF NodeType
    <3> QED
      BY <1>1, <3>1, <3>2, ChangeOne DEF Nodes
  <2>4. \A m \in Nodes : /\ nodes'[m].type = nodes[m].type /\ nodes'[m].uri = nodes[m].uri
                         /\ nodes'[m].refcount = nodes[m].refcount /\ nodes'[m].fn = nodes[m].fn
    BY <1>1, <2>1 DEF NodeType
  <2>5. Holding' /\ RefcountIsExact'
    BY <1>1, <1>3, <2>2, <2>3, <2>4, SetterFrame
  <2>6. OneEntryPerUri'
    BY <1>1, <2>2, <2>4 DEF TableInv, OneEntryPerUri
  <2> QED
    BY <1>1, <1>4, <2>2, <2>3, <2>5, <2>6 DEF TableInv
<1>6. CASE UpdateHandler(s)
  <2>1. PICK n \in Nodes : ~InUse(n) /\ nodes' = [nodes EXCEPT ![n].fn = sets + 1]
    BY <1>1, <1>6 DEF UpdateHandler, Entry
  <2>2. handlers' = handlers /\ sets' = sets + 1 /\ done' \in [Setters -> Nat]
    BY <1>1, <1>6 DEF UpdateHandler, Completes
  <2>3. nodes' \in Seq(NodeType) /\ Len(nodes') = Len(nodes) /\ Nodes' = Nodes
    <3>1. nodes' = [nodes EXCEPT ![n] = [nodes[n] EXCEPT !.fn = sets + 1]]
      BY <2>1
    <3>2. ASSUME NEW k \in Nat PROVE [nodes[n] EXCEPT !.fn = k] \in NodeType
      BY <1>1 DEF NodeType
    <3>3. PICK k \in Nat : k = sets + 1
      BY <1>1
    <3> QED
      BY <1>1, <3>1, <3>2, <3>3, ChangeOne DEF Nodes
  <2>4. \A m \in Nodes : /\ nodes'[m].type = nodes[m].type /\ nodes'[m].uri = nodes[m].uri
                         /\ nodes'[m].refcount = nodes[m].refcount
                         /\ m # n => nodes'[m].fn = nodes[m].fn
    BY <1>1, <2>1 DEF NodeType
  <2>5. Holding' /\ RefcountIsExact'
    BY <1>1, <1>3, <2>1, <2>2, <2>3, <2>4, SetterFrame
  <2>6. OneEntryPerUri'
    BY <1>1, <2>2, <2>4 DEF TableInv, OneEntryPerUri
  <2> QED
    BY <1>1, <1>4, <2>2, <2>3, <2>5, <2>6 DEF TableInv
<1>7. CASE RemoveHandler(s)
  <2>1. PICK i \in DOMAIN handlers : ~InUse(handlers[i]) /\ handlers' = RemoveAt(handlers, i)
    BY <1>7 DEF RemoveHandler
  <2>2. nodes' = nodes /\ sets' = sets /\ done' \in [Setters -> Nat]
    BY <1>1, <1>7 DEF RemoveHandler, Completes
  <2>3. /\ handlers' \in Seq(Nodes) /\ IsInjective(handlers')
        /\ Range(handlers') = Range(handlers) \ {handlers[i]}
    BY <1>1, <2>1, RemoveOne
  <2>4. Nodes' = Nodes
    BY <2>2 DEF Nodes
  <2>5. Holding' /\ RefcountIsExact'
    BY <1>1, <1>3, <2>1, <2>2, <2>3, <2>4, SetterFrame
  <2>6. OneEntryPerUri'
    BY <2>2, <2>3 DEF TableInv, OneEntryPerUri
  <2> QED
    BY <1>1, <1>4, <2>2, <2>3, <2>4, <2>5, <2>6 DEF TableInv
<1>8. CASE NoSuchHandler(s)
  <2>1. done' \in [Setters -> Nat] /\ Entry(Op(s)) = {}
    BY <1>1, <1>8 DEF NoSuchHandler, Completes
  <2>2. CASE UNCHANGED table
    <3>1. UNCHANGED <<nodes, handlers, sets>> /\ Nodes' = Nodes
      BY <2>2 DEF table, Nodes
    <3>2. Holding' /\ RefcountIsExact'
      BY <1>1, <1>3, <3>1, SetterFrame
    <3> QED
      BY <1>1, <1>4, <2>1, <3>1, <3>2 DEF TableInv, OneEntryPerUri
  <2>3. ASSUME NEW h, h = [type |-> Op(s).type, uri |-> Op(s).uri, fn |-> sets + 1,
                           refcount |-> 0, removing |-> FALSE],
               nodes' = Append(nodes, h), handlers' = Append(handlers, Len(nodes) + 1),
               sets' = sets + 1
        PROVE  TableInv'
    <3> DEFINE new == Len(nodes) + 1
    <3>1. h \in NodeType /\ h.type = Op(s).type /\ h.uri = Op(s).uri /\ h.refcount = 0
      BY <1>1, <1>2, <1>3, <2>3 DEF NodeType
    <3>2. /\ nodes' \in Seq(NodeType) /\ Len(nodes') = new /\ Nodes' = Nodes \cup {new}
          /\ new \notin Nodes /\ nodes'[new] = h /\ \A n \in Nodes : nodes'[n] = nodes[n]
      BY <1>1, <2>3, <3>1 DEF Nodes
    <3> HIDE DEF new
    <3>3. new \notin Range(handlers) /\ handlers' = Append(handlers, new)
      BY <1>1, <2>3, <3>2 DEF new
    <3>4. handlers' \in Seq(Nodes') /\ Range(handlers') = Range(handlers) \cup {new}
      BY <1>1, <3>2, <3>3, AppendOne
    <3>5. IsInjective(handlers')
      BY <1>1, <3>3, AppendOne
    <3>6. Holding' /\ RefcountIsExact'
      BY <1>1, <1>3, <2>3, <3>1, <3>2, <3>4, SetterFrame DEF new
    <3>7. OneEntryPerUri'
      BY <1>1, <2>1, <3>1, <3>2, <3>4 DEF TableInv, OneEntryPerUri, Entry
    <3> QED
      BY <1>1, <1>4, <2>1, <2>3, <3>2, <3>4, <3>5, <3>6, <3>7 DEF TableInv
  <2> QED
    BY <1>8, <2>2, <2>3 DEF NoSuchHandler
<1> QED
  BY <1>5, <1>6, <1>7, <1>8 DEF SetterStep

-----------------------------------------------------------------------------
(* Workers.                                                                *)

\* What get_request_handler() returns is a callback of that type in the list.
LEMMA LookupIsListed ==
  ASSUME NEW type, NEW path, Lookup(type, path) # Nobody
  PROVE  Lookup(type, path) \in Range(handlers) /\ nodes[Lookup(type, path)].type = type
<1>1. \A m \in Best(type, path) : m[2] \in DOMAIN handlers /\ nodes[handlers[m[2]]].type = type
  BY DEF Best, AllMatches, Matching
<1> QED
  BY <1>1 DEF Lookup, Range

\* A step of a worker that takes or gives back nothing.
LEMMA WorkerFrame ==
  ASSUME ConstantsAreProper, TableInv, UNCHANGED table,
         \A n \in Nodes : Holders(n)' = Holders(n)
  PROVE  RefcountIsExact' /\ OneEntryPerUri' /\ IsInjective(handlers')
<1>1. UNCHANGED <<nodes, handlers, sets>> /\ Nodes' = Nodes
  BY DEF table, Nodes
<1> QED
  BY <1>1 DEF TableInv, RefcountIsExact, OneEntryPerUri

LEMMA Arriving ==
  ASSUME ConstantsAreProper, TableInv, NEW w \in Workers, Arrives(w)
  PROVE  TableInv'
<1>1. PICK q \in Requests : request' = [request EXCEPT ![w] = q]
  BY DEF Arrives
<1>2. /\ info' = [info EXCEPT ![w] = Nobody] /\ pc' = [pc EXCEPT ![w] = "find"]
      /\ UNCHANGED table /\ UNCHANGED <<nodes, handlers, sets, done, found, fn>>
      /\ pc[w] = "idle" /\ Nodes' = Nodes
  BY DEF Arrives, Goes, table, Nodes
<1>3. \A n \in Nodes : Holders(n)' = Holders(n)
  BY <1>2 DEF Holders, TableInv, Types
<1>4. Types'
  BY <1>1, <1>2 DEF TableInv, Types, Nobody
<1>5. Holding'
  BY <1>1, <1>2 DEF TableInv, Types, Holding, InHandle
<1> QED
  BY <1>2, <1>3, <1>4, <1>5, WorkerFrame DEF TableInv

LEMMA Authorizing ==
  ASSUME ConstantsAreProper, TableInv, NEW w \in Workers, Authorize(w)
  PROVE  TableInv'
<1>1. PICK p \in {"run", "idle", "rejected"} : pc' = [pc EXCEPT ![w] = p] /\ (p = "idle" => ~found[w])
  BY DEF Authorize, Goes, TableInv, Types
<1>2. /\ UNCHANGED table /\ UNCHANGED <<nodes, handlers, sets, done, request, found, info, fn>>
      /\ pc[w] = "auth" /\ Nodes' = Nodes
  BY DEF Authorize, table, Nodes
<1>3. \A n \in Nodes : Holders(n)' = Holders(n)
  BY <1>1, <1>2 DEF Holders, TableInv, Types
<1>4. Types'
  BY <1>1, <1>2 DEF TableInv, Types, InHandle
<1>5. Holding'
  BY <1>1, <1>2 DEF TableInv, Types, Holding, InHandle
<1> QED
  BY <1>2, <1>3, <1>4, <1>5, WorkerFrame DEF TableInv

LEMMA Returning ==
  ASSUME ConstantsAreProper, ~MayDecline, TableInv, NEW w \in Workers, CallbackReturns(w)
  PROVE  TableInv'
<1>1. PICK p \in {"served", "idle"} :
        pc' = [pc EXCEPT ![w] = p] /\ (p = "idle" => request[w].type # "request")
  BY DEF CallbackReturns, Goes
<1>2. /\ UNCHANGED table /\ UNCHANGED <<nodes, handlers, sets, done, request, found, info, fn>>
      /\ pc[w] = "run" /\ Nodes' = Nodes
  BY DEF CallbackReturns, table, Nodes
<1>3. ASSUME NEW n \in Nodes PROVE Holders(n)' = Holders(n)
  <2>1. n # Nobody
    BY DEF Nodes, Nobody
  <2>2. request[w].type # "request" => info[w] = Nobody
    BY <1>2 DEF TableInv, Holding, InHandle
  <2> QED
    BY <1>1, <1>2, <2>1, <2>2 DEF Holders, TableInv, Types
<1>4. Types'
  BY <1>1, <1>2 DEF TableInv, Types, InHandle
<1>5. Holding'
  BY <1>1, <1>2 DEF TableInv, Types, Holding, InHandle
<1> QED
  BY <1>2, <1>3, <1>4, <1>5, WorkerFrame DEF TableInv

\* get_request_handler() counts the worker in.
LEMMA Finding ==
  ASSUME ConstantsAreProper, TableInv, NEW w \in Workers, Find(w)
  PROVE  TableInv'
<1>1. PICK n : n = Lookup(request[w].type, request[w].path)
  OBVIOUS
<1>2. /\ pc[w] = "find" /\ info[w] = Nobody
      /\ pc' = [pc EXCEPT ![w] = "auth"] /\ found' = [found EXCEPT ![w] = n # Nobody]
      /\ UNCHANGED <<handlers, sets, done, request>>
  BY <1>1 DEF Find, Goes, TableInv, Holding
<1>3. n # Nobody => n \in Range(handlers) /\ n \in Nodes /\ nodes[n].type = request[w].type
  BY <1>1, LookupIsListed DEF TableInv, Types, Range
<1>4. \A m \in Nodes : m # Nobody
  BY DEF Nodes, Nobody
<1>5. /\ nodes \in Seq(NodeType) /\ Len(nodes) \in Nat /\ DOMAIN nodes = Nodes
      /\ \A m \in Nodes : nodes[m] \in NodeType
  BY DEF TableInv, Types, Nodes
<1>6. CASE n = Nobody \/ request[w].type # "request"
  <2>1. /\ UNCHANGED <<nodes, info>> /\ Nodes' = Nodes /\ UNCHANGED table
        /\ fn' \in [Workers -> Nat] /\ \A v \in Workers : v # w => fn'[v] = fn[v]
    <3>1. CASE n = Nobody
      BY <1>1, <1>2, <3>1 DEF Find, Nodes, table, TableInv, Types
    <3>2. CASE n # Nobody
      <4>1. nodes[n].fn \in Nat
        BY <1>3, <1>5, <3>2 DEF NodeType
      <4> QED
        BY <1>1, <1>2, <1>6, <3>2, <4>1 DEF Find, Nodes, table, TableInv, Types
    <3> QED
      BY <3>1, <3>2
  <2>2. \A m \in Nodes : Holders(m)' = Holders(m)
    BY <1>2, <1>4, <2>1 DEF Holders, TableInv, Types
  <2>3. Types'
    BY <1>2, <2>1 DEF TableInv, Types, InHandle
  <2>4. Holding'
    BY <1>2, <1>6, <2>1 DEF TableInv, Types, Holding, InHandle
  <2> QED
    BY <2>1, <2>2, <2>3, <2>4, WorkerFrame DEF TableInv
<1>7. CASE n # Nobody /\ request[w].type = "request"
  <2> DEFINE c == nodes[n].refcount
  <2>1. /\ n \in Nodes /\ nodes[n] \in NodeType /\ c \in Nat /\ nodes[n].fn \in Nat /\ n \in Nat
        /\ nodes' = [nodes EXCEPT ![n].refcount = (@ + 1) % Word]
        /\ info' = [info EXCEPT ![w] = n] /\ fn' = [fn EXCEPT ![w] = nodes[n].fn]
    BY <1>1, <1>3, <1>5, <1>7 DEF Find, NodeType, Nodes
  <2>2. /\ Holders(n)' = Holders(n) \cup {w} /\ w \notin Holders(n)
        /\ \A m \in Nodes : m # n => Holders(m)' = Holders(m)
    BY <1>2, <1>4, <1>7, <2>1 DEF Holders, TableInv, Types
  <2>3. c = Cardinality(Holders(n))
    BY <2>1 DEF TableInv, RefcountIsExact
  <2>4. Cardinality(Holders(n) \cup {w}) = c + 1
    BY <2>2, <2>3, HoldersFinite, FS_AddElement
  <2>5. c + 1 < Word
    <3>1. Holders(n) \cup {w} \in SUBSET Workers
      BY DEF Holders
    <3> QED
      BY <2>1, <2>4, <3>1, HoldersFinite, FS_Subset, FS_CardinalityType DEF ConstantsAreProper
  <2>6. (c + 1) % Word = c + 1
    <3>1. Word \in Nat /\ c + 1 \in 0..(Word - 1)
      BY <2>1, <2>5 DEF ConstantsAreProper
    <3> HIDE DEF c
    <3> QED
      BY <3>1, NoWrap
  <2>7. nodes' = [nodes EXCEPT ![n] = [nodes[n] EXCEPT !.refcount = c + 1]]
    BY <2>1, <2>6
  <2>8. ASSUME NEW k \in Nat PROVE [nodes[n] EXCEPT !.refcount = k] \in NodeType
    BY <2>1 DEF NodeType
  <2>9. c + 1 \in Nat
    BY <2>1
  <2>10. /\ nodes' \in Seq(NodeType) /\ Len(nodes') = Len(nodes) /\ Nodes' = Nodes
         /\ \A m \in Nodes : nodes'[m] = IF m = n THEN [nodes[n] EXCEPT !.refcount = c + 1] ELSE nodes[m]
    <3>1. PICK x \in NodeType : x = [nodes[n] EXCEPT !.refcount = c + 1]
      BY <2>8, <2>9
    <3>2. nodes' = [nodes EXCEPT ![n] = x]
      BY <2>7, <3>1
    <3>3. nodes' \in Seq(NodeType) /\ Len(nodes') = Len(nodes)
      BY <1>5, <2>1, <3>2, ChangeOne
    <3>4. \A m \in Nodes : nodes'[m] = IF m = n THEN x ELSE nodes[m]
      BY <1>5, <2>1, <3>2
    <3> QED
      BY <3>1, <3>3, <3>4 DEF Nodes
  <2>11. \A m \in Nodes : /\ nodes'[m].type = nodes[m].type /\ nodes'[m].uri = nodes[m].uri
                          /\ nodes'[m].fn = nodes[m].fn
                          /\ nodes'[m].refcount = IF m = n THEN c + 1 ELSE nodes[m].refcount
    BY <1>5, <2>1, <2>10 DEF NodeType
  <2> HIDE DEF c
  <2>12. Types'
    BY <1>2, <2>1, <2>10 DEF TableInv, Types, InHandle
  <2>13. RefcountIsExact'
    BY <1>5, <2>2, <2>4, <2>10, <2>11 DEF TableInv, RefcountIsExact
  <2>14. OneEntryPerUri' /\ Range(handlers) \subseteq Nodes
    BY <1>2, <2>11 DEF TableInv, Types, OneEntryPerUri, Range
  <2>15. Holding'
    <3>1. /\ pc'[w] = "auth" /\ info'[w] = n /\ fn'[w] = nodes[n].fn
          /\ \A v \in Workers : v # w => /\ pc'[v] = pc[v] /\ info'[v] = info[v]
                                        /\ fn'[v] = fn[v] /\ found'[v] = found[v]
      BY <1>2, <2>1 DEF TableInv, Types
    <3>2. ASSUME NEW v \in Workers, v # w PROVE
            /\ pc'[v] = "find" => info'[v] = Nobody
            /\ pc'[v] \in InHandle /\ ~(request[v].type = "request" /\ found'[v]) => info'[v] = Nobody
            /\ pc'[v] \in InHandle /\ request[v].type = "request" /\ found'[v] =>
                 /\ info'[v] \in Range(handlers)
                 /\ nodes'[info'[v]].type = "request" /\ nodes'[info'[v]].fn = fn'[v]
      BY <2>11, <2>14, <3>1, <3>2 DEF TableInv, Holding
    <3>3. /\ n \in Range(handlers) /\ nodes'[n].type = "request" /\ nodes'[n].fn = fn'[w]
          /\ found'[w]
      BY <1>2, <1>3, <1>7, <2>1, <2>11, <3>1 DEF TableInv, Types
    <3> QED
      BY <1>2, <1>7, <3>1, <3>2, <3>3 DEF Holding, InHandle
  <2> QED
    BY <1>2, <2>12, <2>13, <2>14, <2>15 DEF TableInv
<1> QED
  BY <1>6, <1>7

\* release_handler_ref() counts the worker out.
LEMMA Releasing ==
  ASSUME ConstantsAreProper, TableInv, NEW w \in Workers, Release(w)
  PROVE  TableInv'
<1>1. /\ pc[w] \in {"rejected", "served"} /\ pc' = [pc EXCEPT ![w] = "idle"]
      /\ found' = [found EXCEPT ![w] = @] /\ UNCHANGED <<handlers, sets, done, request, info, fn>>
  BY DEF Release, Goes, TableInv, Types, InHandle
<1>2. found' = found
  BY <1>1 DEF TableInv, Types
<1>3. /\ nodes \in Seq(NodeType) /\ Len(nodes) \in Nat /\ DOMAIN nodes = Nodes
      /\ \A m \in Nodes : nodes[m] \in NodeType /\ m # Nobody
  BY DEF TableInv, Types, Nodes, Nobody
<1>4. CASE info[w] = Nobody
  <2>1. UNCHANGED table /\ Nodes' = Nodes /\ nodes' = nodes
    BY <1>1, <1>4 DEF Release, table, Nodes
  <2>2. \A m \in Nodes : Holders(m)' = Holders(m)
    BY <1>1, <1>2, <1>3, <1>4 DEF Holders, TableInv, Types
  <2>3. Types'
    BY <1>1, <1>2, <2>1 DEF TableInv, Types, InHandle
  <2>4. Holding'
    BY <1>1, <1>2, <2>1 DEF TableInv, Types, Holding, InHandle
  <2> QED
    BY <2>1, <2>2, <2>3, <2>4, WorkerFrame DEF TableInv
<1>5. CASE info[w] # Nobody
  <2>1. PICK n : n = info[w]
    OBVIOUS
  <2> DEFINE c == nodes[n].refcount
  <2>2. request[w].type = "request" /\ found[w]
    BY <1>1, <1>5 DEF TableInv, Holding, InHandle
  <2>3. /\ n \in Nodes /\ w \in Holders(n) /\ nodes[n] \in NodeType /\ c \in Nat
        /\ nodes' = [nodes EXCEPT ![n].refcount = (@ - 1) % Word]
    BY <1>1, <1>3, <1>5, <2>1, <2>2, UsedIsCounted DEF Release, NodeType, InHandle
  <2>4. /\ Holders(n)' = Holders(n) \ {w}
        /\ \A m \in Nodes : m # n => Holders(m)' = Holders(m)
    BY <1>1, <1>2, <2>1, <2>3 DEF Holders, TableInv, Types
  <2>5. c = Cardinality(Holders(n)) /\ c <= Cardinality(Workers) /\ Cardinality(Workers) \in Nat
    BY <2>3, HoldersFinite DEF TableInv, RefcountIsExact
  <2>6. Cardinality(Holders(n) \ {w}) = c - 1 /\ c - 1 \in Nat
    <3>1. Cardinality(Holders(n) \ {w}) = Cardinality(Holders(n)) - 1
      BY <2>3, HoldersFinite, FS_RemoveElement
    <3>2. Cardinality(Holders(n) \ {w}) \in Nat
      BY HoldersFinite, FS_RemoveElement, FS_CardinalityType
    <3> QED
      BY <2>5, <3>1, <3>2
  <2>7. (c - 1) % Word = c - 1
    <3>1. Word \in Nat /\ c - 1 \in 0..(Word - 1)
      BY <2>3, <2>5, <2>6 DEF ConstantsAreProper
    <3> HIDE DEF c
    <3> QED
      BY <3>1, NoWrap
  <2>8. PICK x \in NodeType : x = [nodes[n] EXCEPT !.refcount = c - 1]
    <3>1. ASSUME NEW k \in Nat PROVE [nodes[n] EXCEPT !.refcount = k] \in NodeType
      BY <2>3 DEF NodeType
    <3> QED
      BY <2>6, <3>1
  <2>9. nodes' = [nodes EXCEPT ![n] = x]
    BY <2>3, <2>7, <2>8
  <2>10. nodes' \in Seq(NodeType) /\ Len(nodes') = Len(nodes) /\ Nodes' = Nodes
    BY <1>3, <2>3, <2>9, ChangeOne DEF Nodes
  <2>11. \A m \in Nodes : nodes'[m] = IF m = n THEN x ELSE nodes[m]
    BY <1>3, <2>3, <2>9
  <2>12. \A m \in Nodes : /\ nodes'[m].type = nodes[m].type /\ nodes'[m].uri = nodes[m].uri
                          /\ nodes'[m].fn = nodes[m].fn
                          /\ nodes'[m].refcount = IF m = n THEN c - 1 ELSE nodes[m].refcount
    BY <1>3, <2>3, <2>8, <2>11 DEF NodeType
  <2> HIDE DEF c
  <2>13. Types'
    BY <1>1, <1>2, <2>10 DEF TableInv, Types, InHandle
  <2>14. RefcountIsExact'
    BY <1>3, <2>4, <2>6, <2>10, <2>12 DEF TableInv, RefcountIsExact
  <2>15. OneEntryPerUri' /\ Range(handlers) \subseteq Nodes
    BY <1>1, <2>12 DEF TableInv, Types, OneEntryPerUri, Range
  <2>16. Holding'
    <3>1. pc'[w] = "idle" /\ \A v \in Workers : v # w => pc'[v] = pc[v]
      BY <1>1 DEF TableInv, Types
    <3> QED
      BY <1>1, <1>2, <2>12, <2>15, <3>1 DEF TableInv, Holding, InHandle
  <2> QED
    BY <1>1, <2>13, <2>14, <2>15, <2>16 DEF TableInv
<1> QED
  BY <1>4, <1>5

-----------------------------------------------------------------------------
(* The theorem.                                                            *)

LEMMA TableInit == ConstantsAreProper /\ Init => TableInv
<1> SUFFICES ASSUME ConstantsAreProper, Init PROVE TableInv
  OBVIOUS
<1>1. Nodes = {} /\ Range(handlers) = {} /\ IsInjective(handlers)
  BY DEF Init, Nodes, Range, IsInjective
<1>2. Types
  BY DEF Init, Types, Nobody
<1>3. Holding
  BY DEF Init, Holding, InHandle
<1> QED
  BY <1>1, <1>2, <1>3 DEF TableInv, RefcountIsExact, OneEntryPerUri

LEMMA TableStep ==
  ASSUME ConstantsAreProper, ~MayDecline, TableInv, [Next]_vars
  PROVE  TableInv'
<1>1. ASSUME NEW s \in Setters, SetterStep(s) PROVE TableInv'
  BY <1>1, SetterKeeps
<1>2. ASSUME NEW w \in Workers, Arrives(w) \/ WorkerStep(w) PROVE TableInv'
  BY <1>2, Arriving, Finding, Authorizing, Returning, Releasing DEF WorkerStep
<1>3. CASE UNCHANGED vars
  <2>1. UNCHANGED <<nodes, handlers, sets, done, pc, request, found, info, fn>>
    BY <1>3 DEF vars, table, conn
  <2>2. \A n : Holders(n)' = Holders(n)
    BY <2>1 DEF Holders
  <2> QED
    BY <2>1, <2>2 DEF TableInv, Types, Holding, RefcountIsExact, OneEntryPerUri, Nodes
<1> QED
  BY <1>1, <1>2, <1>3 DEF Next

LEMMA InvIsEnough == TableInv => HandlersAreCounted
<1> SUFFICES ASSUME TableInv PROVE HandlersInUseAreRegistered
  BY DEF TableInv, HandlersAreCounted
<1> QED
  BY DEF TableInv, Holding, InHandle, HandlersInUseAreRegistered

\* While callbacks do not decline, the reference count of a callback is the number of
\* workers that use it, a callback in use is neither removed nor replaced, and a URI has
\* one entry: for any number of workers, of threads that set handlers, and of calls.
THEOREM HandlersCorrect ==
  ConstantsAreProper /\ ~MayDecline => (Spec => []HandlersAreCounted)
<1> SUFFICES ASSUME ConstantsAreProper, ~MayDecline PROVE Spec => []HandlersAreCounted
  OBVIOUS
<1>1. Init => TableInv
  BY TableInit
<1>2. TableInv /\ [Next]_vars => TableInv'
  BY TableStep
<1> QED
  BY <1>1, <1>2, InvIsEnough, PTL DEF Spec
=============================================================================
