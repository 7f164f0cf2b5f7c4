------------------------- MODULE RequestBridgeProofs -------------------------
(***************************************************************************)
(* Theorems about RequestBridge, for any set of workers, any number of     *)
(* objects and any number of stops.  The four parts of IInv need each      *)
(* other: every lemma "...Step" assumes IInv and proves one part after     *)
(* the step, with one case per action.                                     *)
(***************************************************************************)
EXTENDS RequestBridge, WellFoundedInduction, TLAPS

\* calloc() and free_req() give a request object a value of its type.
LEMMA NewType ==
  ASSUME NEW e \in {"none", "http", "ready", "data", "close"}, NEW n \in Nat,
         NEW c \in Workers \cup {NoConn}
  PROVE  New(e, n, c) \in RequestType
BY DEF New, RequestType

\* free_req() leaves everything else of the object as it was, so its type too.
LEMMA FreedType ==
  ASSUME TypeOK, NEW o \in Objs
  PROVE  Freed(o) \in RequestType
BY DEF Freed, RequestType, TypeOK

\* So do the assignments to conn and to the response.
LEMMA ChangeType ==
  ASSUME NEW q \in RequestType
  PROVE  /\ [q EXCEPT !.conn = NoConn] \in RequestType
         /\ [q EXCEPT !.answer = "r"] \in RequestType
         /\ [q EXCEPT !.answer = "503"] \in RequestType
<1>1. [q EXCEPT !.conn = NoConn] \in RequestType
  BY DEF RequestType
<1>2. [q EXCEPT !.answer = "r"] \in RequestType
  BY DEF RequestType
<1>3. [q EXCEPT !.answer = "503"] \in RequestType
  BY DEF RequestType
<1> QED
  BY <1>1, <1>2, <1>3

\* A worker inside a callback holds an object.
LEMMA OwnIsObject ==
  ASSUME TypeOK, WorkerInv, NEW w \in Workers,
         pc[w] \notin {"idle", "httpreq", "wsreq"}
  PROVE  own[w] \in Objs
BY DEF TypeOK, WorkerInv

\* What a queue of objects holds after enqueue() and after a pop.
LEMMA EnqueueElements ==
  ASSUME NEW q \in Seq(Objs), NEW o \in Objs
  PROVE  /\ Append(q, o) \in Seq(Objs)
         /\ ToSet(Append(q, o)) = ToSet(q) \cup {o}
         /\ IsInjective(q) /\ o \notin ToSet(q) => IsInjective(Append(q, o))
<1> DEFINE s == Append(q, o)
<1>1. /\ s \in Seq(Objs) /\ DOMAIN s = 1..(Len(q) + 1) /\ DOMAIN q = 1..Len(q)
      /\ Len(q) \in Nat /\ s[Len(q) + 1] = o /\ \A i \in 1..Len(q) : s[i] = q[i]
  OBVIOUS
<1> HIDE DEF s
<1>2. ToSet(s) = ToSet(q) \cup {o}
  <2>1. ToSet(s) \subseteq ToSet(q) \cup {o}
    BY <1>1 DEF ToSet
  <2>2. ToSet(q) \subseteq ToSet(s)
    BY <1>1 DEF ToSet
  <2>3. o \in ToSet(s)
    <3>1. Len(q) + 1 \in DOMAIN s
      BY <1>1
    <3> QED
      BY <1>1, <3>1 DEF ToSet
  <2> QED
    BY <2>1, <2>2, <2>3
<1>3. IsInjective(q) /\ o \notin ToSet(q) => IsInjective(s)
  BY <1>1 DEF ToSet, IsInjective
<1> QED
  BY <1>1, <1>2, <1>3 DEF s

\* A pop takes the head off: what is left is the rest of the queue, and in an
\* injective queue the head is not among it.
LEMMA PopElements ==
  ASSUME NEW q \in Seq(Objs), q # <<>>
  PROVE  /\ Head(q) \in Objs /\ Tail(q) \in Seq(Objs)
         /\ ToSet(q) = ToSet(Tail(q)) \cup {Head(q)}
         /\ IsInjective(q) => IsInjective(Tail(q)) /\ Head(q) \notin ToSet(Tail(q))
<1> DEFINE t == Tail(q)
<1>1. /\ t \in Seq(Objs) /\ Head(q) \in Objs /\ Head(q) = q[1]
      /\ DOMAIN q = 1..Len(q) /\ Len(q) \in Nat \ {0}
      /\ DOMAIN t = 1..(Len(q) - 1) /\ \A i \in 1..(Len(q) - 1) : t[i] = q[i + 1]
  OBVIOUS
<1> HIDE DEF t
<1>2. ToSet(q) = ToSet(t) \cup {Head(q)}
  <2>1. ASSUME NEW i \in DOMAIN q PROVE q[i] \in ToSet(t) \cup {Head(q)}
    <3>1. CASE i = 1
      BY <1>1, <3>1
    <3>2. CASE i # 1
      <4>1. i - 1 \in DOMAIN t /\ t[i - 1] = q[i]
        BY <1>1, <2>1, <3>2
      <4> QED
        BY <4>1 DEF ToSet
    <3> QED
      BY <3>1, <3>2
  <2>2. ToSet(t) \subseteq ToSet(q) /\ Head(q) \in ToSet(q)
    BY <1>1 DEF ToSet
  <2> QED
    BY <2>1, <2>2 DEF ToSet
<1>3. ASSUME IsInjective(q) PROVE IsInjective(t) /\ Head(q) \notin ToSet(t)
  <2>1. ASSUME NEW i \in DOMAIN t, NEW j \in DOMAIN t, t[i] = t[j] PROVE i = j
    <3>1. i + 1 \in DOMAIN q /\ j + 1 \in DOMAIN q /\ q[i + 1] = q[j + 1]
      BY <1>1, <2>1
    <3>2. i + 1 = j + 1
      BY <1>3, <3>1 DEF IsInjective
    <3> QED
      BY <1>1, <3>2
  <2>2. ASSUME NEW i \in DOMAIN t PROVE t[i] # Head(q)
    <3>1. i + 1 \in DOMAIN q /\ 1 \in DOMAIN q /\ i + 1 # 1 /\ t[i] = q[i + 1]
      BY <1>1
    <3> QED
      BY <1>1, <1>3, <3>1 DEF IsInjective
  <2> QED
    BY <2>1, <2>2 DEF ToSet, IsInjective
<1> QED
  BY <1>1, <1>2, <1>3 DEF t

\* Every step keeps the types.
LEMMA TypeStep ==
  ASSUME IInv, [Next]_vars
  PROVE  TypeOK'
<1> USE BoundsAssumption, NewType, FreedType
<1>0. TypeOK /\ WorkerInv /\ RInv
  BY DEF IInv
<1>1. ASSUME NEW w \in Workers, NEW kind \in {"httpreq", "wsreq"}, Accept(w, kind) PROVE TypeOK'
  BY <1>0, <1>1 DEF TypeOK, Accept, Pcs, storeVars, serverVars, rVars
<1>2. ASSUME NEW w \in Workers, Admit(w) PROVE TypeOK'
  BY <1>0, <1>2 DEF TypeOK, Admit, AfterId, Pcs, HttpPcs, serverVars, rVars, Fresh, Unused
<1>3. ASSUME NEW w \in Workers, Refuse(w) PROVE TypeOK'
  BY <1>0, <1>3 DEF TypeOK, Refuse, Pcs, storeVars, serverVars, rVars
<1>4. ASSUME NEW w \in Workers, Enqueue(w) PROVE TypeOK'
  BY <1>0, <1>4, OwnIsObject DEF TypeOK, Enqueue, Enqueued, Pcs, HttpPcs, serverVars, rVars
<1>5. ASSUME NEW w \in Workers, Wake(w) PROVE TypeOK'
  BY <1>0, <1>5 DEF TypeOK, Wake, Pcs, HttpPcs, storeVars, serverVars, rVars
<1>6. ASSUME NEW w \in Workers, Unlink(w) PROVE TypeOK'
  BY <1>0, <1>6 DEF TypeOK, Unlink, RemoveActive, Pcs, HttpPcs, serverVars, rVars
<1>7. ASSUME NEW w \in Workers, Release(w) PROVE TypeOK'
  BY <1>0, <1>7 DEF TypeOK, Release, Pcs, serverVars, rVars
<1>8. ASSUME NEW w \in Workers, WsReady(w) PROVE TypeOK'
  BY <1>0, <1>8 DEF TypeOK, WsReady, AfterId, Pcs, WsPcs, serverVars, rVars, Fresh, Unused
<1>9. ASSUME NEW w \in Workers, WsReadyEnqueue(w) PROVE TypeOK'
  BY <1>0, <1>9, OwnIsObject DEF TypeOK, WsReadyEnqueue, Enqueued, Pcs, WsPcs, serverVars, rVars
<1>10. ASSUME NEW w \in Workers, WsFrame(w) PROVE TypeOK'
  BY <1>0, <1>10 DEF TypeOK, WsFrame, Pcs, WsPcs, storeVars, serverVars, rVars
<1>11. ASSUME NEW w \in Workers, WsData(w) PROVE TypeOK'
  <2>1. own[w] \in Objs /\ obj[own[w]].id \in Nat
    BY <1>0, <1>11, OwnIsObject DEF WsData, TypeOK, RequestType
  <2>2. NoConn \in Workers \cup {NoConn}
    OBVIOUS
  <2>3. \A o \in Objs : New("data", obj[own[w]].id, NoConn) \in RequestType
    BY <2>1, <2>2
  <2> QED
    BY <1>0, <1>11, <2>3, EnqueueElements
      DEF TypeOK, WsData, Enqueued, AnchorId, Pcs, WsPcs, serverVars, rVars, Fresh, Unused
<1>12. ASSUME NEW w \in Workers, WsDetach(w) PROVE TypeOK'
  <2>1. own[w] \in Objs
    BY <1>0, <1>12, OwnIsObject DEF WsDetach
  <2>2. [obj[own[w]] EXCEPT !.conn = NoConn] \in RequestType
    BY <1>0, <2>1, ChangeType DEF TypeOK
  <2> QED
    BY <1>0, <1>12, <2>2 DEF TypeOK, WsDetach, Pcs, WsPcs, serverVars, rVars
<1>13. ASSUME NEW w \in Workers, WsClose(w) PROVE TypeOK'
  <2>1. own[w] \in Objs /\ obj[own[w]].id \in Nat
    BY <1>0, <1>13, OwnIsObject DEF WsClose, TypeOK, RequestType
  <2>2. NoConn \in Workers \cup {NoConn}
    OBVIOUS
  <2>3. \A o \in Objs : New("close", obj[own[w]].id, NoConn) \in RequestType
    BY <2>1, <2>2
  <2> QED
    BY <1>0, <1>13, <2>3
      DEF TypeOK, WsClose, Enqueued, AnchorId, Pcs, serverVars, rVars, Fresh, Unused
<1>14. CASE StartServer
  BY <1>0, <1>14 DEF TypeOK, StartServer, RPcs, storeVars, workerVars
<1>15. CASE StartFails
  BY <1>0, <1>15 DEF TypeOK, StartFails, RBack, RPcs, storeVars, workerVars
<1>16. CASE RegisterHandlers
  BY <1>0, <1>16 DEF TypeOK, RegisterHandlers, RBack, RPcs, storeVars, workerVars
<1>17. CASE EnterLoop
  BY <1>0, <1>17 DEF TypeOK, EnterLoop, RPcs, storeVars, serverVars, workerVars
<1>18. CASE LeaveLoop
  BY <1>0, <1>18 DEF TypeOK, LeaveLoop, RPcs, storeVars, serverVars, workerVars
<1>19. CASE Dequeue
  BY <1>0, <1>19 DEF TypeOK, Dequeue, RPcs, serverVars, workerVars
<1>20. CASE Reap
  BY <1>0, <1>20 DEF TypeOK, Reap, RemoveActive, RPcs, serverVars, workerVars
<1>21. CASE EventDone
  BY <1>0, <1>21 DEF TypeOK, EventDone, RPcs, storeVars, serverVars, workerVars
<1>22. CASE FindRequest
  BY <1>0, <1>22 DEF TypeOK, FindRequest, RPcs, storeVars, serverVars, workerVars, FindActive
<1>23. CASE UnknownRequest
  BY <1>0, <1>23 DEF TypeOK, UnknownRequest, RPcs, storeVars, serverVars, workerVars
<1>24. CASE Respond
  <2>1. target \in Objs
    BY <1>0, <1>24 DEF Respond, TypeOK, RInv
  <2>2. [obj[target] EXCEPT !.answer = "r"] \in RequestType
    BY <1>0, <2>1, ChangeType DEF TypeOK
  <2> QED
    BY <1>0, <1>24, <2>2 DEF TypeOK, Respond, Answer, RPcs, serverVars, workerVars
<1>25. CASE Abandon
  BY <1>0, <1>25 DEF TypeOK, Abandon, RPcs, storeVars, serverVars, workerVars
<1>26. CASE WsSendCheck
  BY <1>0, <1>26 DEF TypeOK, WsSendCheck, RPcs, storeVars, serverVars, workerVars, RequestType
<1>27. CASE WsSendWrite
  BY <1>0, <1>27 DEF TypeOK, WsSendWrite, RPcs, storeVars, serverVars, workerVars, RBack
<1>28. CASE StopServer
  <2>1. \A o \in Objs : [obj[o] EXCEPT !.answer = "503"] \in RequestType
    BY <1>0, ChangeType DEF TypeOK
  <2>2. stops + 1 \in 0..MaxStops
    BY <1>0, <1>28 DEF TypeOK, StopServer, Answer
  <2> QED
    BY <1>0, <1>28, <2>1, <2>2 DEF TypeOK, StopServer, Answer, RPcs, workerVars
<1>29. CASE SetStopFlag
  BY <1>0, <1>29 DEF TypeOK, SetStopFlag, RPcs, storeVars, workerVars
<1>30. CASE JoinWorkers
  BY <1>0, <1>30 DEF TypeOK, JoinWorkers, RPcs, storeVars, workerVars, RBack
<1>31. CASE UseFreed
  BY <1>0, <1>31 DEF TypeOK, UseFreed, storeVars, serverVars, workerVars, rVars
<1>32. CASE UNCHANGED vars
  BY <1>0, <1>32 DEF TypeOK, vars, storeVars, serverVars, workerVars, rVars
<1> QED
  BY <1>1, <1>2, <1>3, <1>4, <1>5, <1>6, <1>7, <1>8, <1>9, <1>10, <1>11, <1>12, <1>13, <1>14,
     <1>15, <1>16, <1>17, <1>18, <1>19, <1>20, <1>21, <1>22, <1>23, <1>24, <1>25, <1>26, <1>27,
        <1>28, <1>29, <1>30, <1>31, <1>32
  DEF Next, HttpStep, WsStep, LoopStep, StopStep

\* Every variable of the bridge keeps its type along every behaviour.
LEMMA TypeInit == Init => TypeOK
<1> SUFFICES ASSUME Init PROVE TypeOK
  OBVIOUS
<1>1. NoObj \in RequestType
  BY DEF NoObj, RequestType, Null
<1>2. queue \in Seq(Objs)
  BY DEF Init, FirstId
<1>3. obj \in [Objs -> RequestType] /\ active \subseteq Objs /\ nextId \in Nat \ {0}
  BY <1>1 DEF Init, FirstId
<1>4. pc \in [Workers -> Pcs] /\ own \in [Workers -> Objs \cup {Null}]
  BY DEF Init, FirstId, Pcs
<1>5. stops \in 0..MaxStops
  BY BoundsAssumption DEF Init, FirstId
<1> QED
  BY <1>2, <1>3, <1>4, <1>5 DEF Init, TypeOK, RPcs

\* A fresh object is unknown to everybody.
LEMMA FreshIsUnknown ==
  ASSUME IInv, NEW o \in Fresh
  PROVE  /\ o \in Objs /\ obj[o].mem = "unused" /\ obj[o].ev = "none"
         /\ o \notin Queued \cup active
         /\ \A v \in Workers : own[v] # o
<1>1. o \in Objs /\ obj[o].mem = "unused" /\ obj[o].ev = "none"
  BY DEF Fresh, Unused, IInv, ObjectInv
<1>2. o \notin Queued \cup active
  BY <1>1 DEF IInv, QueueInv, Live
<1>3. \A v \in Workers : own[v] # o
  <2>1. \A v \in Workers : own[v] # Null => Live(own[v])
    BY DEF IInv, TypeOK, WorkerInv, Pcs
  <2>2. o # Null
    BY <1>1 DEF Objs, Null
  <2> QED
    BY <1>1, <2>1, <2>2 DEF Live
<1> QED
  BY <1>1, <1>2, <1>3

\* What calloc() by a worker leaves as it was.
LEMMA FreshStep ==
  ASSUME IInv, NEW o \in Fresh, NEW q, obj' = [obj EXCEPT ![o] = q]
  PROVE  /\ obj'[o] = q
         /\ \A p \in Objs \ {o} : obj'[p] = obj[p]
         /\ o # Null
<1> QED
  BY FreshIsUnknown DEF IInv, TypeOK, Objs, Null

-----------------------------------------------------------------------------
(* Workers and what they hold.                                            *)

\* WorkerInv speaks of nothing but the objects and where they are.
LEMMA WorkerFrame ==
  ASSUME WorkerInv, UNCHANGED <<obj, queue, active, pc, own>>
  PROVE  WorkerInv'
BY DEF WorkerInv, Live, Responded, Queued

\* Admission and the ready handler give an idle worker a new object.
LEMMA WorkerNew ==
  ASSUME IInv, TypeOK', NEW w \in Workers, NEW o \in Fresh,
         NEW e \in {"http", "ready"},
         obj' = [obj EXCEPT ![o] = New(e, nextId, w)], own' = [own EXCEPT ![w] = o],
         pc' = [pc EXCEPT ![w] = IF e = "http" THEN "read" ELSE "wsready"],
         queue' = queue, active' = active
  PROVE  WorkerInv'
<1>1. o # Null
  BY FreshIsUnknown DEF Objs, Null
<1>2. obj'[o] = New(e, nextId, w) /\ own'[w] = o
  BY FreshIsUnknown DEF IInv, TypeOK
<1>3. \A v \in Workers \ {w} :
        /\ own'[v] = own[v] /\ pc'[v] = pc[v]
        /\ own[v] # o /\ obj'[own[v]] = obj[own[v]]
  BY FreshIsUnknown DEF IInv, TypeOK
<1>4. Queued' = Queued /\ o \notin Queued \cup active
  BY FreshIsUnknown DEF Queued
<1>5. pc'[w] = IF e = "http" THEN "read" ELSE "wsready"
  BY DEF IInv, TypeOK
<1> QED
  BY <1>1, <1>2, <1>3, <1>4, <1>5 DEF IInv, WorkerInv, New, Live, Responded, HttpPcs, WsPcs

\* ws_data_handler() adds an event that no worker holds.
LEMMA WorkerWsData ==
  ASSUME IInv, TypeOK', NEW w \in Workers, WsData(w)
  PROVE WorkerInv'
<1>1. CASE UNCHANGED <<obj, queue>>
  BY <1>1 DEF WsData, IInv, WorkerInv, HttpPcs, WsPcs, Live, Responded, Queued
<1>2. ASSUME NEW o \in Fresh, obj' = [obj EXCEPT ![o] = New("data", obj[own[w]].id, NoConn)],
             queue' = Append(queue, o)
      PROVE  WorkerInv'
  <2>1. \A v \in Workers : own[v] # o /\ own'[v] = own[v] /\ obj'[own[v]] = obj[own[v]]
    BY <1>2, FreshIsUnknown DEF WsData
  <2>2. Queued' = Queued \cup {o} /\ active' = active
    BY <1>2, EnqueueElements DEF TypeOK, WsData, Queued
  <2>3. /\ pc[w] = "wsframe" /\ pc'[w] = "wsopen"
        /\ \A v \in Workers \ {w} : pc'[v] = pc[v]
    BY DEF IInv, TypeOK, WsData, Enqueued, AnchorId
  <2> QED
    BY <2>1, <2>2, <2>3 DEF IInv, WorkerInv, Live, Responded, HttpPcs, WsPcs
<1> QED
  BY <1>1, <1>2 DEF WsData, Enqueued, AnchorId

\* Every step keeps what the workers hold.
LEMMA WorkerStep ==
  ASSUME IInv, [Next]_vars
  PROVE  WorkerInv'
<1>0. TypeOK /\ WorkerInv /\ ObjectInv /\ QueueInv /\ RInv
  BY DEF IInv
<1>t. TypeOK'
  BY TypeStep
<1>1. ASSUME NEW w \in Workers, NEW kind \in {"httpreq", "wsreq"}, Accept(w, kind) PROVE WorkerInv'
  BY <1>0, <1>1 DEF Accept, storeVars, WorkerInv, Live, Responded, Queued, HttpPcs, WsPcs
<1>2. ASSUME NEW w \in Workers, Admit(w) PROVE WorkerInv'
  <2>1. PICK o \in Fresh : /\ obj' = [obj EXCEPT ![o] = New("http", nextId, w)]
                           /\ own' = [own EXCEPT ![w] = o]
    BY <1>2 DEF Admit, AfterId
  <2>2. pc' = [pc EXCEPT ![w] = "read"] /\ queue' = queue /\ active' = active
    BY <1>2 DEF Admit, AfterId
  <2> QED
    BY <1>t, <2>1, <2>2, WorkerNew
<1>3. ASSUME NEW w \in Workers, Refuse(w) PROVE WorkerInv'
  BY <1>0, <1>3 DEF Refuse, storeVars, WorkerInv, Live, Responded, Queued, HttpPcs, WsPcs
<1>4. ASSUME NEW w \in Workers, Enqueue(w) PROVE WorkerInv'
  BY <1>0, <1>4, EnqueueElements
    DEF Enqueue, Enqueued, TypeOK, WorkerInv, Live, Responded, Queued, HttpPcs, WsPcs
<1>5. ASSUME NEW w \in Workers, Wake(w) PROVE WorkerInv'
  BY <1>0, <1>5 DEF Wake, storeVars, WorkerInv, Live, Responded, Queued, HttpPcs, WsPcs
<1>6. ASSUME NEW w \in Workers, Unlink(w) PROVE WorkerInv'
  BY <1>0, <1>6 DEF Unlink, RemoveActive, WorkerInv, Live, Responded, Queued, HttpPcs, WsPcs
<1>7. ASSUME NEW w \in Workers, Release(w) PROVE WorkerInv'
  BY <1>0, <1>7 DEF Release, TypeOK, WorkerInv, Live, Responded, Queued, HttpPcs, WsPcs
<1>8. ASSUME NEW w \in Workers, WsReady(w) PROVE WorkerInv'
  <2>1. PICK o \in Fresh : /\ obj' = [obj EXCEPT ![o] = New("ready", nextId, w)]
                           /\ own' = [own EXCEPT ![w] = o]
    BY <1>8 DEF WsReady, AfterId
  <2>2. pc' = [pc EXCEPT ![w] = "wsready"] /\ queue' = queue /\ active' = active
    BY <1>8 DEF WsReady, AfterId
  <2> QED
    BY <1>t, <2>1, <2>2, WorkerNew
<1>9. ASSUME NEW w \in Workers, WsReadyEnqueue(w) PROVE WorkerInv'
  BY <1>0, <1>9, EnqueueElements
    DEF WsReadyEnqueue, Enqueued, TypeOK, WorkerInv, RInv, Live, Responded, Queued, Pcs, HttpPcs
<1>10. ASSUME NEW w \in Workers, WsFrame(w) PROVE WorkerInv'
  BY <1>0, <1>10
    DEF WsFrame, storeVars, TypeOK, WorkerInv, Live, Responded, Queued, Pcs, HttpPcs
<1>11. ASSUME NEW w \in Workers, WsData(w) PROVE WorkerInv'
  BY <1>t, <1>11, WorkerWsData
<1>12. ASSUME NEW w \in Workers, WsDetach(w) PROVE WorkerInv'
  BY <1>0, <1>12 DEF WsDetach, TypeOK, WorkerInv, Live, Responded, Queued, Pcs, HttpPcs
<1>13. ASSUME NEW w \in Workers, WsClose(w) PROVE WorkerInv'
  BY <1>0, <1>13, EnqueueElements
    DEF WsClose, Enqueued, TypeOK, WorkerInv, Live, Responded, Queued, HttpPcs, WsPcs, Fresh,
        Unused
<1>14. CASE StartServer
  BY <1>0, <1>14, WorkerFrame DEF StartServer, storeVars, workerVars
<1>15. CASE StartFails
  BY <1>0, <1>15, WorkerFrame DEF StartFails, storeVars, workerVars
<1>16. CASE RegisterHandlers
  BY <1>0, <1>16, WorkerFrame DEF RegisterHandlers, storeVars, workerVars
<1>17. CASE EnterLoop
  BY <1>0, <1>17, WorkerFrame DEF EnterLoop, storeVars, workerVars
<1>18. CASE LeaveLoop
  BY <1>0, <1>18, WorkerFrame DEF LeaveLoop, storeVars, workerVars
<1>19. CASE Dequeue
  BY <1>0, <1>19, PopElements
    DEF Dequeue, Anchors, workerVars, TypeOK, WorkerInv, QueueInv, Live, Responded, Queued,
        HttpPcs
<1>20. CASE Reap
  BY <1>0, <1>t, <1>20
    DEF Reap, RemoveActive, workerVars, TypeOK, WorkerInv, RInv, Live, Responded, Queued,
        HttpPcs, WsPcs, FindActive, ObjectInv
<1>21. CASE EventDone
  BY <1>0, <1>21, WorkerFrame DEF EventDone, storeVars, workerVars
<1>22. CASE FindRequest
  BY <1>0, <1>22, WorkerFrame DEF FindRequest, storeVars, workerVars
<1>23. CASE UnknownRequest
  BY <1>0, <1>23, WorkerFrame DEF UnknownRequest, storeVars, workerVars
<1>24. CASE Respond
  BY <1>0, <1>24 DEF Respond, Answer, workerVars, WorkerInv, RInv, Live, Responded, Queued
<1>25. CASE Abandon
  BY <1>0, <1>25, WorkerFrame DEF Abandon, storeVars, workerVars
<1>26. CASE WsSendCheck
  BY <1>0, <1>26, WorkerFrame DEF WsSendCheck, storeVars, workerVars
<1>27. CASE WsSendWrite
  BY <1>0, <1>27, WorkerFrame DEF WsSendWrite, storeVars, workerVars
<1>28. CASE StopServer
  BY <1>0, <1>28
    DEF StopServer, Answer, workerVars, TypeOK, WorkerInv, Live, Responded, Queued, HttpPcs,
        WsPcs, Swept
<1>29. CASE SetStopFlag
  BY <1>0, <1>29, WorkerFrame DEF SetStopFlag, storeVars, workerVars
<1>30. CASE JoinWorkers
  BY <1>0, <1>30, WorkerFrame DEF JoinWorkers, storeVars, workerVars
<1>31. CASE UseFreed
  BY <1>0, <1>31, WorkerFrame DEF UseFreed, storeVars, workerVars
<1>32. CASE UNCHANGED vars
  BY <1>0, <1>32, WorkerFrame DEF vars, storeVars, workerVars
<1> QED
  BY <1>1, <1>2, <1>3, <1>4, <1>5, <1>6, <1>7, <1>8, <1>9, <1>10, <1>11, <1>12, <1>13, <1>14,
     <1>15, <1>16, <1>17, <1>18, <1>19, <1>20, <1>21, <1>22, <1>23, <1>24, <1>25, <1>26, <1>27,
        <1>28, <1>29, <1>30, <1>31, <1>32
  DEF Next, HttpStep, WsStep, LoopStep, StopStep

-----------------------------------------------------------------------------
(* Objects and their ids.                                                  *)

\* ObjectInv speaks of the objects and of who holds them.
LEMMA ObjectFrame ==
  ASSUME ObjectInv, UNCHANGED <<obj, own, nextId>>
  PROVE  ObjectInv'
BY DEF ObjectInv, Live

\* A new request or anchor takes the next id, which no other object has.
LEMMA ObjectNew ==
  ASSUME IInv, TypeOK', NEW w \in Workers, NEW o \in Fresh, NEW e \in {"http", "ready"},
         obj' = [obj EXCEPT ![o] = New(e, nextId, w)], own' = [own EXCEPT ![w] = o],
         own[w] = Null, nextId' = nextId + 1
  PROVE ObjectInv'
<1>1. obj'[o] = New(e, nextId, w) /\ o # Null /\ o \in Objs /\ own'[w] = o
  BY FreshStep, FreshIsUnknown DEF IInv, TypeOK
<1>2. \A p \in Objs \ {o} : obj'[p] = obj[p]
  BY FreshStep
<1>4. nextId \in Nat \ {0}
  BY DEF IInv, TypeOK
<1>5. ASSUME NEW p \in Objs PROVE own[w] # p
  BY <1>5 DEF Objs, Null
<1>7. ASSUME NEW p \in Objs \ {o}
      PROVE  /\ obj'[p].mem = "unused" <=> obj'[p].ev = "none"
             /\ obj'[p].ev \in {"http", "ready"} => 0 < obj'[p].id /\ obj'[p].id < nextId'
             /\ Live(p)' /\ obj'[p].ev = "http" => \E v \in Workers : own'[v] = p
             /\ Live(p)' /\ obj'[p].ev = "ready" /\ obj'[p].conn # NoConn => own'[obj'[p].conn] = p
  <2>1. /\ obj[p].mem = "unused" <=> obj[p].ev = "none"
        /\ obj[p].ev \in {"http", "ready"} => 0 < obj[p].id /\ obj[p].id < nextId
        /\ Live(p) /\ obj[p].ev = "http" => \E v \in Workers : own[v] = p
        /\ Live(p) /\ obj[p].ev = "ready" /\ obj[p].conn # NoConn => own[obj[p].conn] = p
    BY DEF IInv, ObjectInv
  <2>2. obj[p].id \in Nat /\ obj[p].conn \in Workers \cup {NoConn}
    BY DEF IInv, TypeOK, RequestType
  <2> QED
    BY <1>4, <1>5, <2>1, <2>2 DEF Live
<1>8. ASSUME NEW p \in Objs, NEW q \in Objs, obj'[p].ev \in {"http", "ready"}, obj'[q].ev \in {"http", "ready"},
             obj'[p].id = obj'[q].id
      PROVE  p = q
  BY <1>8 DEF New, IInv, TypeOK, ObjectInv
<1>9. ASSUME NEW p \in Objs, Live(p)', obj'[p].ev = "close"
      PROVE  \E a \in Objs : /\ obj'[a].ev = "ready" /\ obj'[a].id = obj'[p].id
                             /\ \A v \in Workers : own'[v] # a
  <2>1. p # o /\ obj'[p] = obj[p]
    BY <1>1, <1>2, <1>9 DEF New
  <2>2. PICK a \in Objs : /\ obj[a].ev = "ready" /\ obj[a].id = obj[p].id
                          /\ \A v \in Workers : own[v] # a
    BY <1>9, <2>1 DEF IInv, ObjectInv, Live
  <2>3. a # o
    BY <2>2, FreshIsUnknown
  <2> QED
    BY <2>1, <2>2, <2>3
<1> QED
  BY <1>1, <1>4, <1>7, <1>8, <1>9 DEF ObjectInv, New

\* free_req() in handler() is given the request that worker held.
LEMMA ObjectRelease ==
  ASSUME IInv, TypeOK', NEW w \in Workers, Release(w)
  PROVE ObjectInv'
<1>1. own[w] \in Objs /\ Live(own[w]) /\ obj[own[w]].ev = "http" /\ own[w] # Null
  BY OwnIsObject DEF Release, IInv, WorkerInv, HttpPcs
<1>2. /\ obj'[own[w]] = Freed(own[w])
      /\ \A p \in Objs \ {own[w]} : obj'[p] = obj[p]
  BY <1>1 DEF Release, IInv, TypeOK
<1>3. own'[w] = Null /\ \A v \in Workers \ {w} : own'[v] = own[v]
  BY DEF Release, IInv, TypeOK
<1>4. nextId' = nextId
  BY DEF Release
<1>5. \A p \in Objs : obj'[p].ev = obj[p].ev /\ obj'[p].id = obj[p].id /\ obj'[p].conn = obj[p].conn
                      /\ (obj'[p].mem = "unused" <=> obj[p].mem = "unused")
  <2>1. obj[own[w]] \in RequestType /\ obj[own[w]].mem = "live"
    BY <1>1 DEF IInv, TypeOK, Live
  <2>2. /\ obj'[own[w]].ev = obj[own[w]].ev /\ obj'[own[w]].id = obj[own[w]].id
        /\ obj'[own[w]].conn = obj[own[w]].conn /\ obj'[own[w]].mem = "freed"
    BY <1>2, <2>1 DEF Freed, RequestType
  <2> QED
    BY <1>2, <2>1, <2>2
<1>6. \A p \in Objs : Live(p)' => Live(p) /\ p # own[w]
  BY <1>2 DEF Freed, TypeOK, RequestType, Live
<1>7. \A p \in Objs, v \in Workers : own'[v] = p <=> own[v] = p /\ v # w
  BY <1>1, <1>3 DEF Objs, Null
<1>8. \A p \in Objs : Live(p) /\ obj[p].ev = "ready" /\ obj[p].conn # NoConn => obj[p].conn \in Workers
  BY DEF IInv, TypeOK, RequestType
<1> QED
  BY <1>4, <1>5, <1>6, <1>7, <1>8 DEF IInv, ObjectInv

\* A DATA or CLOSE event is allocated; the worker may let go of its anchor.
LEMMA ObjectEvent ==
  ASSUME IInv, TypeOK', NEW w \in Workers, NEW o \in Fresh, NEW e \in {"data", "close"},
         pc[w] \in WsPcs, nextId' = nextId,
         obj' = [obj EXCEPT ![o] = New(e, obj[own[w]].id, NoConn)],
         \/ e = "data" /\ own' = own
         \/ e = "close" /\ own' = [own EXCEPT ![w] = Null] /\ pc[w] = "wsclose"
  PROVE ObjectInv'
<1>1. obj'[o] = New(e, obj[own[w]].id, NoConn) /\ o # Null /\ o \in Objs
  BY FreshStep, FreshIsUnknown DEF IInv, TypeOK
<1>2. \A p \in Objs \ {o} : obj'[p] = obj[p]
  BY FreshStep
<1>3. /\ own[w] \in Objs \ {o} /\ Live(own[w]) /\ obj[own[w]].ev = "ready"
      /\ e = "close" => obj[own[w]].conn = NoConn
  BY OwnIsObject, FreshIsUnknown DEF IInv, WorkerInv, WsPcs
<1>4. /\ \A v \in Workers \ {w} : own'[v] = own[v]
      /\ own'[w] = IF e = "data" THEN own[w] ELSE Null
  BY DEF IInv, TypeOK
<1>6. \A p \in Objs : p # Null
  BY DEF Objs, Null
<1>7. ASSUME NEW p \in Objs \ {o}
      PROVE  /\ obj'[p].mem = "unused" <=> obj'[p].ev = "none"
             /\ obj'[p].ev \in {"http", "ready"} => 0 < obj'[p].id /\ obj'[p].id < nextId'
             /\ Live(p)' /\ obj'[p].ev = "http" => \E v \in Workers : own'[v] = p
             /\ Live(p)' /\ obj'[p].ev = "ready" /\ obj'[p].conn # NoConn => own'[obj'[p].conn] = p
  <2>1. /\ obj[p].mem = "unused" <=> obj[p].ev = "none"
        /\ obj[p].ev \in {"http", "ready"} => 0 < obj[p].id /\ obj[p].id < nextId
        /\ Live(p) /\ obj[p].ev = "http" => \E v \in Workers : own[v] = p
        /\ Live(p) /\ obj[p].ev = "ready" /\ obj[p].conn # NoConn => own[obj[p].conn] = p
    BY DEF IInv, ObjectInv
  <2>2. obj[p].conn \in Workers \cup {NoConn}
    BY DEF IInv, TypeOK, RequestType
  <2>3. own[w] = p /\ e = "close" => obj[p].ev = "ready" /\ obj[p].conn = NoConn
    BY <1>3
  <2> QED
    BY <1>4, <2>1, <2>2, <2>3 DEF Live
<1>8. ASSUME NEW p \in Objs, NEW q \in Objs, obj'[p].ev \in {"http", "ready"}, obj'[q].ev \in {"http", "ready"},
             obj'[p].id = obj'[q].id
      PROVE  p = q
  BY <1>8 DEF New, IInv, ObjectInv
<1>9. ASSUME NEW p \in Objs, Live(p)', obj'[p].ev = "close"
      PROVE  \E a \in Objs : /\ obj'[a].ev = "ready" /\ obj'[a].id = obj'[p].id
                             /\ \A v \in Workers : own'[v] # a
  <2>1. CASE p = o
    <3>1. e = "close"
      BY <1>1, <1>9, <2>1 DEF New
    <3>2. obj'[own[w]] = obj[own[w]] /\ obj'[p].id = obj[own[w]].id
      BY <1>1, <1>2, <1>3, <2>1 DEF New
    <3>3. \A v \in Workers : own'[v] # own[w]
      BY <1>4, <3>1 DEF IInv, WorkerInv
    <3> QED
      BY <1>3, <3>2, <3>3
  <2>2. CASE p # o
    <3>1. obj'[p] = obj[p]
      BY <1>2, <2>2
    <3>2. PICK a \in Objs : /\ obj[a].ev = "ready" /\ obj[a].id = obj[p].id
                            /\ \A v \in Workers : own[v] # a
      BY <1>9, <3>1 DEF IInv, ObjectInv, Live
    <3>3. a # o
      BY <3>2, FreshIsUnknown
    <3> QED
      BY <1>4, <1>6, <3>1, <3>2, <3>3
  <2> QED
    BY <2>1, <2>2
<1> QED
  BY <1>1, <1>7, <1>8, <1>9 DEF ObjectInv, New

\* R frees an object that is neither an HTTP request nor one some worker holds.
LEMMA ObjectFree ==
  ASSUME IInv, TypeOK', NEW S \in SUBSET Objs,
         \A o \in S : obj[o].mem # "unused" /\ obj[o].ev # "http",
         obj' = [o \in Objs |-> IF o \in S THEN Freed(o) ELSE obj[o]],
         own' = own, nextId' = nextId
  PROVE ObjectInv'
<1>1. \A p \in Objs : /\ obj'[p].ev = obj[p].ev /\ obj'[p].id = obj[p].id /\ obj'[p].conn = obj[p].conn
                      /\ (obj'[p].mem = "unused" <=> obj[p].mem = "unused")
                      /\ (Live(p)' => Live(p))
  BY DEF Freed, IInv, TypeOK, RequestType, Live
<1> QED
  BY <1>1 DEF IInv, ObjectInv

\* A DATA event is freed once R has copied it.
LEMMA ObjectDequeue ==
  ASSUME IInv, TypeOK', Dequeue
  PROVE ObjectInv'
<1> DEFINE o == Head(queue)
<1>1. o \in Objs /\ obj[o].mem # "unused"
  BY DEF Dequeue, TypeOK, Live
<1>2. CASE obj[o].ev = "data"
  <2>1. obj' = [obj EXCEPT ![o] = Freed(o)] /\ own' = own /\ nextId' = nextId
    BY <1>2 DEF Dequeue, Anchors, workerVars
  <2>2. obj' = [p \in Objs |-> IF p \in {o} THEN Freed(p) ELSE obj[p]]
    BY <1>1, <2>1 DEF IInv, TypeOK
  <2> HIDE DEF o
  <2> QED
    BY <1>1, <1>2, <2>1, <2>2, ObjectFree
<1>3. CASE obj[o].ev # "data"
  BY <1>3 DEF Dequeue, workerVars, IInv, ObjectInv, Live
<1> QED
  BY <1>2, <1>3

\* Every step keeps ids unique and the holders of live objects.
LEMMA ObjectStep ==
  ASSUME IInv, [Next]_vars
  PROVE  ObjectInv'
<1>0. TypeOK /\ WorkerInv /\ ObjectInv /\ QueueInv /\ RInv
  BY DEF IInv
<1>t. TypeOK'
  BY TypeStep
<1>1. ASSUME NEW w \in Workers, NEW kind \in {"httpreq", "wsreq"}, Accept(w, kind) PROVE ObjectInv'
  BY <1>0, <1>1, ObjectFrame DEF Accept, storeVars
<1>2. ASSUME NEW w \in Workers, Admit(w) PROVE ObjectInv'
  <2>1. PICK o \in Fresh : /\ obj' = [obj EXCEPT ![o] = New("http", nextId, w)]
                           /\ own' = [own EXCEPT ![w] = o]
    BY <1>2 DEF Admit, AfterId
  <2>2. own[w] = Null /\ nextId' = nextId + 1
    BY <1>0, <1>2 DEF Admit, AfterId, WorkerInv
  <2> QED
    BY <1>t, <2>1, <2>2, ObjectNew
<1>3. ASSUME NEW w \in Workers, Refuse(w) PROVE ObjectInv'
  BY <1>0, <1>3, ObjectFrame DEF Refuse, storeVars
<1>4. ASSUME NEW w \in Workers, Enqueue(w) PROVE ObjectInv'
  BY <1>0, <1>4, ObjectFrame DEF Enqueue, Enqueued
<1>5. ASSUME NEW w \in Workers, Wake(w) PROVE ObjectInv'
  BY <1>0, <1>5, ObjectFrame DEF Wake, storeVars
<1>6. ASSUME NEW w \in Workers, Unlink(w) PROVE ObjectInv'
  BY <1>0, <1>6, ObjectFrame DEF Unlink, RemoveActive
<1>7. ASSUME NEW w \in Workers, Release(w) PROVE ObjectInv'
  BY <1>t, <1>7, ObjectRelease
<1>8. ASSUME NEW w \in Workers, WsReady(w) PROVE ObjectInv'
  <2>1. PICK o \in Fresh : /\ obj' = [obj EXCEPT ![o] = New("ready", nextId, w)]
                           /\ own' = [own EXCEPT ![w] = o]
    BY <1>8 DEF WsReady, AfterId
  <2>2. own[w] = Null /\ nextId' = nextId + 1
    BY <1>0, <1>8 DEF WsReady, AfterId, WorkerInv
  <2> QED
    BY <1>t, <2>1, <2>2, ObjectNew
<1>9. ASSUME NEW w \in Workers, WsReadyEnqueue(w) PROVE ObjectInv'
  BY <1>0, <1>9, ObjectFrame DEF WsReadyEnqueue, Enqueued
<1>10. ASSUME NEW w \in Workers, WsFrame(w) PROVE ObjectInv'
  BY <1>0, <1>10, ObjectFrame DEF WsFrame, storeVars
<1>11. ASSUME NEW w \in Workers, WsData(w) PROVE ObjectInv'
  <2>1. CASE UNCHANGED <<obj, queue>>
    BY <1>0, <1>11, <2>1, ObjectFrame DEF WsData
  <2>2. ASSUME NEW o \in Fresh, obj' = [obj EXCEPT ![o] = New("data", obj[own[w]].id, NoConn)]
        PROVE  ObjectInv'
    <3>1. pc[w] \in WsPcs /\ nextId' = nextId /\ own' = own
      BY <1>11 DEF WsData, Enqueued, AnchorId, WsPcs
    <3> QED
      BY <1>t, <2>2, <3>1, ObjectEvent
  <2> QED
    BY <1>11, <2>1, <2>2 DEF WsData, AnchorId
<1>12. ASSUME NEW w \in Workers, WsDetach(w) PROVE ObjectInv'
  <2>1. own[w] \in Objs
    BY <1>0, <1>12, OwnIsObject DEF WsDetach
  <2>2. \A p \in Objs : /\ obj'[p].mem = obj[p].mem /\ obj'[p].ev = obj[p].ev /\ obj'[p].id = obj[p].id
                        /\ obj'[p].conn = obj[p].conn \/ obj'[p].conn = NoConn
    BY <1>12 DEF WsDetach
  <2>3. own' = own /\ nextId' = nextId
    BY <1>12 DEF WsDetach
  <2> QED
    BY <1>0, <2>2, <2>3 DEF ObjectInv, Live
<1>13. ASSUME NEW w \in Workers, WsClose(w) PROVE ObjectInv'
  <2>1. PICK o \in Fresh : obj' = [obj EXCEPT ![o] = New("close", obj[own[w]].id, NoConn)]
    BY <1>13 DEF WsClose, Enqueued, AnchorId
  <2>2. pc[w] = "wsclose" /\ pc[w] \in WsPcs /\ nextId' = nextId /\ own' = [own EXCEPT ![w] = Null]
    BY <1>13 DEF WsClose, Enqueued, AnchorId, WsPcs
  <2> QED
    BY <1>t, <2>1, <2>2, ObjectEvent
<1>14. CASE StartServer
  BY <1>0, <1>14, ObjectFrame DEF StartServer, storeVars, workerVars
<1>15. CASE StartFails
  BY <1>0, <1>15, ObjectFrame DEF StartFails, storeVars, workerVars
<1>16. CASE RegisterHandlers
  BY <1>0, <1>16, ObjectFrame DEF RegisterHandlers, storeVars, workerVars
<1>17. CASE EnterLoop
  BY <1>0, <1>17, ObjectFrame DEF EnterLoop, storeVars, workerVars
<1>18. CASE LeaveLoop
  BY <1>0, <1>18, ObjectFrame DEF LeaveLoop, storeVars, workerVars
<1>19. CASE Dequeue
  BY <1>t, <1>19, ObjectDequeue
<1>20. CASE Reap
  <2> DEFINE S == FindActive(obj[cur].id) \cup {cur}
  <2>1. S \in SUBSET Objs /\ \A o \in S : obj[o].mem # "unused" /\ obj[o].ev # "http"
    <3>1. cur \in Objs /\ Live(cur) /\ obj[cur].ev = "close"
      BY <1>0, <1>20 DEF Reap, RInv, TypeOK
    <3>2. PICK a \in Objs : obj[a].ev = "ready" /\ obj[a].id = obj[cur].id
      BY <1>0, <3>1 DEF ObjectInv
    <3>3. \A o \in FindActive(obj[cur].id) : o \in Objs /\ o = a /\ Live(o)
      BY <1>0, <3>2 DEF FindActive, TypeOK, QueueInv, ObjectInv
    <3> QED
      BY <3>1, <3>2, <3>3 DEF Live
  <2>2. /\ obj' = [o \in Objs |-> IF o \in S THEN Freed(o) ELSE obj[o]]
        /\ own' = own /\ nextId' = nextId
    BY <1>20 DEF Reap, RemoveActive, workerVars
  <2> HIDE DEF S
  <2> QED
    BY <1>t, <2>1, <2>2, ObjectFree
<1>21. CASE EventDone
  BY <1>0, <1>21, ObjectFrame DEF EventDone, storeVars, workerVars
<1>22. CASE FindRequest
  BY <1>0, <1>22, ObjectFrame DEF FindRequest, storeVars, workerVars
<1>23. CASE UnknownRequest
  BY <1>0, <1>23, ObjectFrame DEF UnknownRequest, storeVars, workerVars
<1>24. CASE Respond
  <2>1. \A p \in Objs : /\ obj'[p].mem = obj[p].mem /\ obj'[p].ev = obj[p].ev
                        /\ obj'[p].id = obj[p].id /\ obj'[p].conn = obj[p].conn
    BY <1>24 DEF Respond, Answer
  <2>2. own' = own /\ nextId' = nextId
    BY <1>24 DEF Respond, Answer, workerVars
  <2> QED
    BY <1>0, <2>1, <2>2 DEF ObjectInv, Live
<1>25. CASE Abandon
  BY <1>0, <1>25, ObjectFrame DEF Abandon, storeVars, workerVars
<1>26. CASE WsSendCheck
  BY <1>0, <1>26, ObjectFrame DEF WsSendCheck, storeVars, workerVars
<1>27. CASE WsSendWrite
  BY <1>0, <1>27, ObjectFrame DEF WsSendWrite, storeVars, workerVars
<1>28. CASE StopServer
  <2>1. \A p \in Objs : /\ obj'[p].mem = obj[p].mem /\ obj'[p].ev = obj[p].ev
                        /\ obj'[p].id = obj[p].id /\ obj'[p].conn = obj[p].conn
    BY <1>28 DEF StopServer, Answer
  <2>2. own' = own /\ nextId' = nextId
    BY <1>28 DEF StopServer, Answer, workerVars
  <2> QED
    BY <1>0, <2>1, <2>2 DEF ObjectInv, Live
<1>29. CASE SetStopFlag
  BY <1>0, <1>29, ObjectFrame DEF SetStopFlag, storeVars, workerVars
<1>30. CASE JoinWorkers
  BY <1>0, <1>30, ObjectFrame DEF JoinWorkers, storeVars, workerVars
<1>31. CASE UseFreed
  BY <1>0, <1>31, ObjectFrame DEF UseFreed, storeVars, workerVars
<1>32. CASE UNCHANGED vars
  BY <1>0, <1>32, ObjectFrame DEF vars, storeVars, workerVars
<1> QED
  BY <1>1, <1>2, <1>3, <1>4, <1>5, <1>6, <1>7, <1>8, <1>9, <1>10, <1>11, <1>12, <1>13, <1>14,
     <1>15, <1>16, <1>17, <1>18, <1>19, <1>20, <1>21, <1>22, <1>23, <1>24, <1>25, <1>26, <1>27,
        <1>28, <1>29, <1>30, <1>31, <1>32
  DEF Next, HttpStep, WsStep, LoopStep, StopStep

-----------------------------------------------------------------------------
(* The queue and the active list.                                          *)

\* QueueInv speaks of the two lists and of g_running.
LEMMA QueueFrame ==
  ASSUME QueueInv, UNCHANGED <<obj, queue, active, running, stops, fault>>
  PROVE  QueueInv'
BY DEF QueueInv, Live, Responded, Queued

\* enqueue() of a DATA event adds a live object that is in no list.
LEMMA QueueWsData ==
  ASSUME IInv, TypeOK', NEW w \in Workers, WsData(w)
  PROVE QueueInv'
<1>1. CASE UNCHANGED <<obj, queue>>
  BY <1>1 DEF WsData, IInv, QueueInv, Live, Responded, Queued, serverVars
<1>2. ASSUME NEW o \in Fresh, TailLive, obj' = [obj EXCEPT ![o] = New("data", obj[own[w]].id, NoConn)],
             queue' = Append(queue, o)
      PROVE  QueueInv'
  <2>1. Queued' = Queued \cup {o} /\ IsInjective(queue') /\ o \in Objs /\ o \notin Queued \cup active
    BY <1>2, FreshIsUnknown, EnqueueElements DEF IInv, TypeOK, QueueInv, Queued
  <2>2. obj'[o].mem = "live" /\ obj'[o].ev = "data"
    <3>1. obj'[o] = New("data", obj[own[w]].id, NoConn)
      BY <1>2, FreshStep
    <3> QED
      BY <3>1 DEF New
  <2>3. \A p \in Objs \ {o} : obj'[p] = obj[p]
    BY <1>2, FreshStep
  <2>4. active \subseteq Objs \ {o} /\ Queued \subseteq Objs \ {o}
    BY <2>1 DEF IInv, TypeOK, Queued, ToSet
  <2>5. active' = active /\ running' = running /\ stops' = stops /\ fault' = fault
    BY DEF WsData, Enqueued, AnchorId, serverVars
  <2> QED
    BY <2>1, <2>2, <2>3, <2>4, <2>5 DEF IInv, QueueInv, Live, Responded
<1> QED
  BY <1>1, <1>2 DEF WsData, Enqueued, AnchorId

\* g_running is set only when no worker is busy, so no HTTP request is alive.
LEMMA QueueStartServer ==
  ASSUME IInv, TypeOK', StartServer
  PROVE QueueInv'
<1>1. \A w \in Workers : own[w] = Null
  BY DEF StartServer, IInv, RInv, WorkerInv
<1>2. \A o \in Objs : ~(Live(o) /\ obj[o].ev = "http")
  BY <1>1 DEF IInv, ObjectInv, Objs, Null
<1>3. Queued \subseteq Objs
  BY DEF IInv, TypeOK, Queued, ToSet
<1> QED
  BY <1>2, <1>3 DEF StartServer, IInv, QueueInv, Live, Queued, storeVars

\* The anchor of a CLOSE event is active, so not queued.
LEMMA QueueReap ==
  ASSUME IInv, TypeOK', Reap
  PROVE QueueInv'
<1> DEFINE S == FindActive(obj[cur].id) \cup {cur}
<1>1. /\ cur \in Objs /\ cur \notin Queued /\ Live(cur) /\ obj[cur].ev = "close"
  BY DEF Reap, RemoveActive, IInv, RInv, TypeOK
<1>2. S \subseteq Objs /\ S \cap Queued = {}
  BY <1>1 DEF FindActive, IInv, TypeOK, QueueInv
<1>3. \A p \in Objs \ S : obj'[p] = obj[p]
  BY DEF Reap, RemoveActive
<1>4. Queued' = Queued /\ Queued \subseteq Objs
  BY DEF Reap, TypeOK, Queued, ToSet
<1>5. active' \subseteq active /\ active' \cap S = {} /\ active' \subseteq Objs
  BY <1>1 DEF Reap, RemoveActive, IInv, TypeOK, QueueInv
<1>6. queue' = queue /\ running' = running /\ stops' = stops /\ fault' = fault
  BY DEF Reap, RemoveActive, serverVars
<1> HIDE DEF S
<1> QED
  BY <1>2, <1>3, <1>4, <1>5, <1>6 DEF IInv, QueueInv, Live, Responded

\* The stop sweep gives answers but moves and frees nothing.
LEMMA QueueStopServer ==
  ASSUME IInv, TypeOK', StopServer
  PROVE QueueInv'
<1>1. \A p \in Objs : obj'[p].mem = obj[p].mem /\ obj'[p].ev = obj[p].ev
  BY DEF StopServer, Answer, IInv, TypeOK, RequestType
<1>2. Queued' = Queued /\ Queued \subseteq Objs /\ active \subseteq Objs
  BY DEF StopServer, TypeOK, Queued, ToSet
<1>3. queue' = queue /\ active' = active /\ running' = FALSE /\ stops' # 0
  BY DEF StopServer, Answer, IInv, TypeOK
<1> QED
  BY <1>1, <1>2, <1>3 DEF IInv, QueueInv, Live

\* Before the first stop the ends of the queue are live.
LEMMA QueueUseFreed ==
  ASSUME IInv, UseFreed
  PROVE QueueInv'
<1>1. stops # 0
  <2>1. SUFFICES ASSUME stops = 0 PROVE ~FollowsFreed
    BY DEF UseFreed
  <2>2. queue \in Seq(Objs) /\ \A o \in Queued : Live(o)
    BY <2>1 DEF IInv, TypeOK, QueueInv
  <2>3. queue # <<>> => Head(queue) \in Queued /\ queue[Len(queue)] \in Queued
    <3>1. queue # <<>> => /\ 1 \in DOMAIN queue /\ Len(queue) \in DOMAIN queue
                          /\ Head(queue) = queue[1]
      BY <2>2
    <3> QED
      BY <3>1 DEF Queued, ToSet
  <2> QED
    BY <2>2, <2>3 DEF FollowsFreed, TailLive
<1> QED
  BY <1>1 DEF UseFreed, IInv, QueueInv, Live, Responded, Queued, storeVars, serverVars

\* Every step keeps the two lists apart and, until a stop, free of freed objects.
LEMMA QueueStep ==
  ASSUME IInv, [Next]_vars
  PROVE  QueueInv'
<1>0. TypeOK /\ WorkerInv /\ ObjectInv /\ QueueInv /\ RInv
  BY DEF IInv
<1>t. TypeOK'
  BY TypeStep
<1>1. ASSUME NEW w \in Workers, NEW kind \in {"httpreq", "wsreq"}, Accept(w, kind) PROVE QueueInv'
  BY <1>0, <1>1, QueueFrame DEF Accept, storeVars, serverVars
<1>2. ASSUME NEW w \in Workers, Admit(w) PROVE QueueInv'
  BY <1>0, <1>2 DEF Admit, serverVars, QueueInv, Live, Responded, Queued, Fresh, Unused
<1>3. ASSUME NEW w \in Workers, Refuse(w) PROVE QueueInv'
  BY <1>0, <1>3, QueueFrame DEF Refuse, storeVars, serverVars
<1>4. ASSUME NEW w \in Workers, Enqueue(w) PROVE QueueInv'
  BY <1>0, <1>4, EnqueueElements
    DEF Enqueue, Enqueued, serverVars, TypeOK, WorkerInv, QueueInv, Live, Responded, Queued,
        HttpPcs
<1>5. ASSUME NEW w \in Workers, Wake(w) PROVE QueueInv'
  BY <1>0, <1>5, QueueFrame DEF Wake, storeVars, serverVars
<1>6. ASSUME NEW w \in Workers, Unlink(w) PROVE QueueInv'
  BY <1>0, <1>6 DEF Unlink, RemoveActive, serverVars, QueueInv, Live, Responded, Queued
<1>7. ASSUME NEW w \in Workers, Release(w) PROVE QueueInv'
  BY <1>0, <1>7
    DEF Release, serverVars, TypeOK, WorkerInv, QueueInv, RInv, Live, Responded, Queued,
        HttpPcs, Freed
<1>8. ASSUME NEW w \in Workers, WsReady(w) PROVE QueueInv'
  BY <1>0, <1>8 DEF WsReady, serverVars, QueueInv, Live, Responded, Queued, Fresh, Unused
<1>9. ASSUME NEW w \in Workers, WsReadyEnqueue(w) PROVE QueueInv'
  BY <1>0, <1>9, EnqueueElements
    DEF WsReadyEnqueue, Enqueued, serverVars, TypeOK, WorkerInv, QueueInv, Live, Responded,
        Queued, WsPcs
<1>10. ASSUME NEW w \in Workers, WsFrame(w) PROVE QueueInv'
  BY <1>0, <1>10, QueueFrame DEF WsFrame, storeVars, serverVars
<1>11. ASSUME NEW w \in Workers, WsData(w) PROVE QueueInv'
  BY <1>t, <1>11, QueueWsData
<1>12. ASSUME NEW w \in Workers, WsDetach(w) PROVE QueueInv'
  BY <1>0, <1>12 DEF WsDetach, serverVars, QueueInv, Live, Responded, Queued
<1>13. ASSUME NEW w \in Workers, WsClose(w) PROVE QueueInv'
  BY <1>0, <1>13, EnqueueElements
    DEF WsClose, Enqueued, serverVars, TypeOK, QueueInv, Live, Responded, Queued, Fresh,
        Unused, New
<1>14. CASE StartServer
  BY <1>t, <1>14, QueueStartServer
<1>15. CASE StartFails
  BY <1>0, <1>15 DEF StartFails, storeVars, QueueInv, Live, Queued
<1>16. CASE RegisterHandlers
  BY <1>0, <1>16, QueueFrame DEF RegisterHandlers, storeVars
<1>17. CASE EnterLoop
  BY <1>0, <1>17, QueueFrame DEF EnterLoop, storeVars, serverVars
<1>18. CASE LeaveLoop
  BY <1>0, <1>18, QueueFrame DEF LeaveLoop, storeVars, serverVars
<1>19. CASE Dequeue
  BY <1>0, <1>19, PopElements
    DEF Dequeue, Anchors, serverVars, TypeOK, QueueInv, Live, Responded, Queued
<1>20. CASE Reap
  BY <1>t, <1>20, QueueReap
<1>21. CASE EventDone
  BY <1>0, <1>21, QueueFrame DEF EventDone, storeVars, serverVars
<1>22. CASE FindRequest
  BY <1>0, <1>22, QueueFrame DEF FindRequest, storeVars, serverVars
<1>23. CASE UnknownRequest
  BY <1>0, <1>23, QueueFrame DEF UnknownRequest, storeVars, serverVars
<1>24. CASE Respond
  BY <1>0, <1>24 DEF Respond, Answer, serverVars, QueueInv, RInv, Live, Responded, Queued
<1>25. CASE Abandon
  BY <1>0, <1>25, QueueFrame DEF Abandon, storeVars, serverVars
<1>26. CASE WsSendCheck
  BY <1>0, <1>26, QueueFrame DEF WsSendCheck, storeVars, serverVars
<1>27. CASE WsSendWrite
  BY <1>0, <1>27, QueueFrame DEF WsSendWrite, storeVars, serverVars
<1>28. CASE StopServer
  BY <1>t, <1>28, QueueStopServer
<1>29. CASE SetStopFlag
  BY <1>0, <1>29, QueueFrame DEF SetStopFlag, storeVars
<1>30. CASE JoinWorkers
  BY <1>0, <1>30, QueueFrame DEF JoinWorkers, storeVars
<1>31. CASE UseFreed
  BY <1>t, <1>31, QueueUseFreed
<1>32. CASE UNCHANGED vars
  BY <1>0, <1>32, QueueFrame DEF vars, storeVars, serverVars
<1> QED
  BY <1>1, <1>2, <1>3, <1>4, <1>5, <1>6, <1>7, <1>8, <1>9, <1>10, <1>11, <1>12, <1>13, <1>14,
     <1>15, <1>16, <1>17, <1>18, <1>19, <1>20, <1>21, <1>22, <1>23, <1>24, <1>25, <1>26, <1>27,
        <1>28, <1>29, <1>30, <1>31, <1>32
  DEF Next, HttpStep, WsStep, LoopStep, StopStep

-----------------------------------------------------------------------------
(* The R thread and the life of the server.                                *)

\* RInv speaks of the R thread, the server and the object R is at.
LEMMA RFrame ==
  ASSUME RInv, UNCHANGED <<obj, queue, active, running, ctx, stops, pc, rpc, cur, target>>
  PROVE  RInv'
BY DEF RInv, Live, Responded, Queued

\* A DATA event is not what R is at.
LEMMA RWsData ==
  ASSUME IInv, TypeOK', NEW w \in Workers, WsData(w)
  PROVE RInv'
<1>1. CASE UNCHANGED <<obj, queue>>
  BY <1>1 DEF WsData, IInv, RInv, Live, Responded, Queued, serverVars, rVars
<1>2. ASSUME NEW o \in Fresh, obj' = [obj EXCEPT ![o] = New("data", obj[own[w]].id, NoConn)],
             queue' = Append(queue, o)
      PROVE  RInv'
  <2>1. Queued' = Queued \cup {o} /\ o \in Objs /\ o \notin active /\ obj[o].mem = "unused"
    BY <1>2, FreshIsUnknown, EnqueueElements DEF TypeOK, Queued
  <2>2. \A p \in Objs \ {o} : obj'[p] = obj[p]
    BY <1>2, FreshStep
  <2>3. /\ active' = active /\ cur' = cur /\ rpc' = rpc /\ target' = target
        /\ running' = running /\ stops' = stops /\ ctx' = ctx
    BY DEF WsData, Enqueued, AnchorId, serverVars, rVars
  <2>4. ctx \in {"none", "booting"} => FALSE
    BY DEF WsData, Enqueued, AnchorId, IInv, RInv
  <2>5. active \subseteq Objs /\ cur \in Objs \cup {Null}
    BY DEF IInv, TypeOK
  <2> QED
    BY <2>1, <2>2, <2>3, <2>4, <2>5 DEF IInv, RInv, Live, Responded
<1> QED
  BY <1>1, <1>2 DEF WsData, Enqueued, AnchorId

\* While the server runs no queued request has an answer.
LEMMA RDequeue ==
  ASSUME IInv, TypeOK', Dequeue
  PROVE RInv'
<1> DEFINE o == Head(queue)
<1>1. o \in Objs /\ Live(o) /\ o \in Queued /\ o \notin Queued'
  BY PopElements DEF Dequeue, IInv, TypeOK, QueueInv, Queued
<1>2. obj[o].ev = "http" => ~Responded(o)
  BY <1>1 DEF Dequeue, Anchors, IInv, QueueInv
<1>3. cur' = o /\ rpc' = IF obj[o].ev = "close" THEN "reap" ELSE "dispatch"
  BY DEF Dequeue, Anchors
<1>4. obj[o].ev \in {"http", "close"} => obj' = obj
  BY DEF Dequeue, Anchors
<1>5. obj[o].ev \notin {"http", "close"} => obj'[o].ev = obj[o].ev
  BY DEF Dequeue, Freed
<1>6. running' = running /\ stops' = stops /\ ctx' = ctx /\ pc' = pc /\ running /\ rpc = "poll"
  BY DEF Dequeue, Anchors, serverVars, workerVars
<1>7. o # Null
  BY <1>1 DEF Objs, Null
<1> HIDE DEF o
<1> QED
  BY <1>1, <1>2, <1>3, <1>4, <1>5, <1>6, <1>7 DEF IInv, RInv, Live, Responded

\* What R dispatches is answered by nobody else while it is active.
LEMMA RWsSendCheck ==
  ASSUME IInv, TypeOK', WsSendCheck
  PROVE RInv'
<1>1. cur' = cur /\ obj' = obj /\ active' = active /\ pc' = pc
      /\ running' = running /\ stops' = stops /\ ctx' = ctx /\ rpc' = "wssend"
  BY DEF WsSendCheck, storeVars, serverVars, workerVars
<1>2. cur = Null => cur \notin active
  BY DEF IInv, TypeOK, Objs, Null
<1> QED
  BY <1>1, <1>2 DEF WsSendCheck, IInv, RInv, Responded

\* A server is started from top level, where R is at no object, or in a handler.
LEMMA RStartServer ==
  ASSUME IInv, TypeOK', StartServer
  PROVE RInv'
<1>1. cur' = cur /\ obj' = obj /\ active' = active /\ pc' = pc /\ stops' = stops
      /\ rpc' = "boot" /\ ctx' = "booting" /\ running'
  BY DEF StartServer, storeVars, workerVars
<1>2. cur = Null => cur \notin active
  BY DEF IInv, TypeOK, Objs, Null
<1> QED
  BY <1>1, <1>2 DEF StartServer, IInv, RInv, Responded

\* Every step keeps what the R thread relies on.
LEMMA RStep ==
  ASSUME IInv, [Next]_vars
  PROVE  RInv'
<1>0. TypeOK /\ WorkerInv /\ ObjectInv /\ QueueInv /\ RInv
  BY DEF IInv
<1>t. TypeOK'
  BY TypeStep
<1>1. ASSUME NEW w \in Workers, NEW kind \in {"httpreq", "wsreq"}, Accept(w, kind) PROVE RInv'
  BY <1>0, <1>1 DEF Accept, storeVars, serverVars, rVars, RInv, Live, Responded, Queued
<1>2. ASSUME NEW w \in Workers, Admit(w) PROVE RInv'
  BY <1>0, <1>2
    DEF Admit, serverVars, rVars, QueueInv, RInv, Live, Responded, Queued, Fresh, Unused
<1>3. ASSUME NEW w \in Workers, Refuse(w) PROVE RInv'
  BY <1>0, <1>3 DEF Refuse, storeVars, serverVars, rVars, RInv, Live, Responded, Queued
<1>4. ASSUME NEW w \in Workers, Enqueue(w) PROVE RInv'
  BY <1>0, <1>4, EnqueueElements
    DEF Enqueue, Enqueued, serverVars, rVars, TypeOK, WorkerInv, RInv, Live, Responded, Queued,
        Pcs
<1>5. ASSUME NEW w \in Workers, Wake(w) PROVE RInv'
  BY <1>0, <1>5 DEF Wake, storeVars, serverVars, rVars, RInv, Live, Responded, Queued
<1>6. ASSUME NEW w \in Workers, Unlink(w) PROVE RInv'
  BY <1>0, <1>6
    DEF Unlink, RemoveActive, serverVars, rVars, WorkerInv, RInv, Live, Responded, Queued
<1>7. ASSUME NEW w \in Workers, Release(w) PROVE RInv'
  BY <1>0, <1>7
    DEF Release, serverVars, rVars, TypeOK, WorkerInv, RInv, Live, Responded, Queued, Pcs
<1>8. ASSUME NEW w \in Workers, WsReady(w) PROVE RInv'
  BY <1>0, <1>8
    DEF WsReady, serverVars, rVars, QueueInv, RInv, Live, Responded, Queued, Fresh, Unused
<1>9. ASSUME NEW w \in Workers, WsReadyEnqueue(w) PROVE RInv'
  BY <1>0, <1>9, EnqueueElements
    DEF WsReadyEnqueue, Enqueued, serverVars, rVars, TypeOK, WorkerInv, RInv, Live, Responded,
        Queued, Pcs
<1>10. ASSUME NEW w \in Workers, WsFrame(w) PROVE RInv'
  BY <1>0, <1>10 DEF WsFrame, storeVars, serverVars, rVars, RInv, Live, Responded, Queued
<1>11. ASSUME NEW w \in Workers, WsData(w) PROVE RInv'
  BY <1>t, <1>11, RWsData
<1>12. ASSUME NEW w \in Workers, WsDetach(w) PROVE RInv'
  BY <1>0, <1>12 DEF WsDetach, serverVars, rVars, RInv, Live, Responded, Queued
<1>13. ASSUME NEW w \in Workers, WsClose(w) PROVE RInv'
  BY <1>0, <1>13, EnqueueElements
    DEF WsClose, Enqueued, serverVars, rVars, TypeOK, QueueInv, RInv, Live, Responded, Queued,
        Fresh, Unused
<1>14. CASE StartServer
  BY <1>t, <1>14, RStartServer
<1>15. CASE StartFails
  BY <1>0, <1>15
    DEF StartFails, RBack, storeVars, workerVars, TypeOK, WorkerInv, ObjectInv, QueueInv, RInv
<1>16. CASE RegisterHandlers
  BY <1>0, <1>16
    DEF RegisterHandlers, RBack, storeVars, TypeOK, WorkerInv, ObjectInv, QueueInv, RInv
<1>17. CASE EnterLoop
  BY <1>0, <1>17 DEF EnterLoop, serverVars, RInv
<1>18. CASE LeaveLoop
  BY <1>0, <1>18 DEF LeaveLoop, serverVars, workerVars, RInv
<1>19. CASE Dequeue
  BY <1>t, <1>19, RDequeue
<1>20. CASE Reap
  BY <1>0, <1>20 DEF Reap, RemoveActive, serverVars, workerVars, QueueInv, RInv
<1>21. CASE EventDone
  BY <1>0, <1>21 DEF EventDone, serverVars, workerVars, RInv
<1>22. CASE FindRequest
  BY <1>0, <1>22
    DEF FindRequest, storeVars, serverVars, TypeOK, WorkerInv, ObjectInv, QueueInv, RInv,
        Responded, FindActive
<1>23. CASE UnknownRequest
  BY <1>0, <1>23 DEF UnknownRequest, serverVars, workerVars, RInv
<1>24. CASE Respond
  BY <1>0, <1>24 DEF Respond, serverVars, workerVars, RInv
<1>25. CASE Abandon
  BY <1>0, <1>25 DEF Abandon, serverVars, workerVars, RInv
<1>26. CASE WsSendCheck
  BY <1>t, <1>26, RWsSendCheck
<1>27. CASE WsSendWrite
  BY <1>0, <1>27 DEF WsSendWrite, storeVars, serverVars, workerVars, RInv, Responded, RBack
<1>28. CASE StopServer
  BY <1>0, <1>28 DEF StopServer, TypeOK, RInv
<1>29. CASE SetStopFlag
  BY <1>0, <1>29 DEF SetStopFlag, RInv
<1>30. CASE JoinWorkers
  BY <1>0, <1>30
    DEF JoinWorkers, storeVars, workerVars, TypeOK, WorkerInv, ObjectInv, QueueInv, RInv, RBack
<1>31. CASE UseFreed
  BY <1>0, <1>31, RFrame DEF UseFreed, storeVars, serverVars, workerVars, rVars
<1>32. CASE UNCHANGED vars
  BY <1>0, <1>32, RFrame DEF vars, storeVars, serverVars, workerVars, rVars
<1> QED
  BY <1>1, <1>2, <1>3, <1>4, <1>5, <1>6, <1>7, <1>8, <1>9, <1>10, <1>11, <1>12, <1>13, <1>14,
     <1>15, <1>16, <1>17, <1>18, <1>19, <1>20, <1>21, <1>22, <1>23, <1>24, <1>25, <1>26, <1>27,
        <1>28, <1>29, <1>30, <1>31, <1>32
  DEF Next, HttpStep, WsStep, LoopStep, StopStep

-----------------------------------------------------------------------------
(* The theorems.                                                           *)

\* Before anything ran nobody holds anything and both lists are empty.
LEMMA InitIInv == Init => IInv
<1> SUFFICES ASSUME Init PROVE IInv
  OBVIOUS
<1>1. Queued = {} /\ active = {} /\ IsInjective(queue)
  BY DEF Init, FirstId, Queued, ToSet, IsInjective
<1>2. \A o \in Objs : obj[o].mem = "unused" /\ obj[o].ev = "none"
  BY DEF Init, FirstId, NoObj
<1>3. WorkerInv
  BY DEF Init, FirstId, WorkerInv, HttpPcs, WsPcs
<1>4. ObjectInv
  BY <1>2 DEF ObjectInv, Live
<1>5. QueueInv
  BY <1>1 DEF Init, FirstId, QueueInv
<1>6. RInv
  BY DEF Init, FirstId, RInv
<1> QED
  BY <1>3, <1>4, <1>5, <1>6, TypeInit DEF IInv

\* The inductive invariant holds along every behaviour of the bridge.
THEOREM Inductive == Spec => []IInv
<1>1. Init => IInv
  BY InitIInv
<1>2. IInv /\ [Next]_vars => IInv'
  BY TypeStep, WorkerStep, ObjectStep, QueueStep, RStep DEF IInv
<1> QED
  BY <1>1, <1>2, PTL DEF Spec

\* Every variable of the bridge keeps its type.
THEOREM TypeCorrect == Spec => []TypeOK
<1>1. IInv => TypeOK
  BY DEF IInv
<1> QED
  BY <1>1, Inductive, PTL

\* The r of handler() and the anchor of the WebSocket callbacks are allocated
\* whenever the callback follows them, and no two workers hold the same one.
THEOREM OwnershipCorrect == Spec => []WorkersOwnLiveObjects
<1>1. IInv => WorkersOwnLiveObjects
  BY DEF IInv, WorkerInv, WorkersOwnLiveObjects, HttpPcs, WsPcs
<1> QED
  BY <1>1, Inductive, PTL

\* What find_active() can return is allocated, and one id finds one object,
\* over every stop and restart.
THEOREM ActiveCorrect == Spec => []ActiveIsSound
<1>1. IInv => ActiveIsSound
  <2> SUFFICES ASSUME IInv, NEW o \in active
               PROVE  /\ Live(o) /\ obj[o].ev \in {"http", "ready"}
                      /\ FindActive(obj[o].id) = {o}
    BY DEF ActiveIsSound
  <2>1. \A a \in active : a \in Objs /\ Live(a) /\ obj[a].ev \in {"http", "ready"}
    BY DEF IInv, TypeOK, QueueInv
  <2>2. \A a \in active : obj[a].id = obj[o].id => a = o
    BY <2>1 DEF IInv, ObjectInv
  <2> QED
    BY <2>1, <2>2 DEF FindActive
<1> QED
  BY <1>1, Inductive, PTL

\* Until the first stop no thread follows a freed object through the queue.
THEOREM QueueCorrect == Spec => []QueueIsSound
<1>1. IInv => QueueIsSound
  BY DEF IInv, QueueInv, QueueIsSound
<1> QED
  BY <1>1, Inductive, PTL

\* A handler that waits without an answer can be reached by R or by a stop.
THEOREM NoRequestLost == Spec => []NoLostRequest
<1>1. IInv => NoLostRequest
  BY DEF IInv, WorkerInv, NoLostRequest
<1> QED
  BY <1>1, Inductive, PTL

\* civetweb_send_response() answers the request R dispatched, which its handler
\* still waits for and nobody has answered or freed.
THEOREM AnswerCorrect == Spec => []AnswerMeetsItsHandler
<1>1. IInv => AnswerMeetsItsHandler
  <2> SUFFICES ASSUME IInv, rpc = "respond"
               PROVE  /\ target = cur /\ target # Null /\ Live(target) /\ ~Responded(target)
                      /\ \E w \in Workers : own[w] = target /\ pc[w] = "wait"
    BY DEF AnswerMeetsItsHandler
  <2>1. /\ target = cur /\ target \in active /\ target \in Objs /\ target # Null
        /\ obj[target].ev = "http" /\ ~Responded(target) /\ Live(target)
    BY DEF IInv, TypeOK, RInv, QueueInv
  <2>2. PICK w \in Workers : own[w] = target
    BY <2>1 DEF IInv, ObjectInv
  <2>3. pc[w] \in HttpPcs \cup WsPcs
    BY <2>1, <2>2 DEF IInv, TypeOK, WorkerInv, Pcs
  <2>4. pc[w] = "wait"
    BY <2>1, <2>2, <2>3 DEF IInv, WorkerInv, HttpPcs
  <2> QED
    BY <2>1, <2>2, <2>4
<1> QED
  BY <1>1, Inductive, PTL

\* The connection civetweb_ws_send() reads from an anchor is being served by the
\* worker that holds this anchor.
THEOREM AnchorCorrect == Spec => []AnchorNamesItsConnection
<1>1. IInv => AnchorNamesItsConnection
  BY DEF IInv, ObjectInv, AnchorNamesItsConnection
<1> QED
  BY <1>1, Inductive, PTL

\* The sweep of civetweb_stop_server() answers every handler that waits.
THEOREM StopSweeps == Spec => StopAnswersWaiters
<1> DEFINE Sweeps == rpc # "flag" /\ rpc' = "flag" =>
                       \A w \in Workers : pc[w] = "wait" => Responded(own[w])'
<1>1. ASSUME IInv, [Next]_vars PROVE [Sweeps]_vars
  <2> SUFFICES ASSUME rpc # "flag", rpc' = "flag", NEW w \in Workers, pc[w] = "wait"
               PROVE  Responded(own[w])'
    OBVIOUS
  <2>1. StopServer
    BY <1>1 DEF Next, vars, rVars, HttpStep, WsStep, LoopStep, StopStep, RBack,
         Accept, Admit, Refuse, Enqueue, Wake, Unlink, Release, WsReady, WsReadyEnqueue,
         WsFrame, WsData, WsDetach, WsClose, StartServer, StartFails, RegisterHandlers,
         EnterLoop, LeaveLoop, Dequeue, Reap, EventDone, FindRequest, UnknownRequest,
         Respond, Abandon, WsSendCheck, WsSendWrite, SetStopFlag, JoinWorkers, UseFreed
  <2>2. own[w] \in Objs /\ own' = own
    BY <1>1, <2>1, OwnIsObject DEF IInv, StopServer, workerVars
  <2>3. Responded(own[w]) \/ own[w] \in Swept
    BY <1>1 DEF IInv, WorkerInv, Swept
  <2>4. obj'[own[w]] = IF own[w] \in Swept /\ ~Responded(own[w]) THEN Answer(own[w], "503")
                       ELSE obj[own[w]]
    BY <2>1, <2>2 DEF StopServer, Answer
  <2>5. Answer(own[w], "503").answer = "503"
    BY DEF Answer
  <2> QED
    BY <2>2, <2>3, <2>4, <2>5 DEF Responded
<1> QED
  BY <1>1, Inductive, PTL DEF Spec, StopAnswersWaiters

-----------------------------------------------------------------------------
(* The order of WebSocket events, for any workers, objects and stops: R    *)
(* sees the events of a connection between its READY and its CLOSE, and    *)
(* each anchor that is let go is freed.  Above it is said what the lists   *)
(* contain; here it matters where in the queue it is.                      *)

IsEvent(o)    == obj[o].ev \in {"data", "close"}
IsAnchor(a,o) == obj[a].ev = "ready" /\ obj[a].id = obj[o].id

\* Each event has its anchor before it.
AnchorFirst ==
  \A i \in DOMAIN queue : IsEvent(queue[i]) =>
    \E a \in Objs : /\ IsAnchor(a, queue[i])
                    /\ a \in active \/ \E j \in 1..(i - 1) : queue[j] = a

\* No event of a connection comes after its CLOSE.
CloseIsLast ==
  \A i, j \in DOMAIN queue :
    /\ obj[queue[i]].ev = "close" /\ IsEvent(queue[j])
    /\ obj[queue[i]].id = obj[queue[j]].id
    => j <= i

\* Only HTTP requests are freed while they are queued.
EventsAreLive == \A o \in Queued : obj[o].ev # "http" => Live(o)

\* The anchor of an open connection can be found, or will be.
AnchorsAreListed ==
  \A w \in Workers : pc[w] \in {"wsopen", "wsframe", "wsclose"} => own[w] \in Queued \cup active

\* What R processes has its anchor, and nothing follows a CLOSE it processes.
EventInHand ==
  /\ cur # Null => obj[cur].mem # "unused"
  /\ cur # Null /\ obj[cur].ev = "data" => \E a \in active : IsAnchor(a, cur)
  /\ rpc = "reap" =>
       /\ \E a \in active : IsAnchor(a, cur)
       /\ \A o \in Queued : IsEvent(o) => obj[o].id # obj[cur].id

EventInv ==
  AnchorFirst /\ CloseIsLast /\ EventsAreLive /\ AnchorsAreListed /\ EventInHand /\ NoLeakedAnchor

-----------------------------------------------------------------------------
(* Ids and kinds never change, so the order changes with the lists only.   *)

SameIds ==
  \A o \in Objs : obj[o].mem # "unused" =>
    obj'[o].mem # "unused" /\ obj'[o].ev = obj[o].ev /\ obj'[o].id = obj[o].id

LEMMA IdsStep ==
  ASSUME IInv, [Next]_vars
  PROVE  SameIds
<1>1. ASSUME UNCHANGED obj PROVE SameIds
  BY <1>1 DEF SameIds
<1>2. ASSUME NEW o \in Fresh, NEW r, obj' = [obj EXCEPT ![o] = r] PROVE SameIds
  BY <1>2 DEF SameIds, Fresh, Unused, IInv, TypeOK
<1>3. ASSUME NEW S \in SUBSET Objs, obj' = [o \in Objs |-> IF o \in S THEN Freed(o) ELSE obj[o]]
      PROVE  SameIds
  BY <1>3 DEF SameIds, Freed, IInv, TypeOK, RequestType
<1>4. ASSUME NEW o \in Objs, obj' = [obj EXCEPT ![o] = Freed(o)] PROVE SameIds
  BY <1>4 DEF SameIds, Freed, IInv, TypeOK, RequestType
<1>5. ASSUME NEW w \in Workers, HttpStep(w) PROVE SameIds
  <2>1. ASSUME Release(w) PROVE SameIds
    BY <1>4, <2>1, OwnIsObject DEF Release, IInv
  <2>2. ASSUME Admit(w) PROVE SameIds
    BY <1>2, <2>2 DEF Admit
  <2>3. ASSUME Refuse(w) \/ Enqueue(w) \/ Wake(w) \/ Unlink(w) PROVE SameIds
    BY <1>1, <2>3 DEF Refuse, Enqueue, Wake, Unlink, storeVars
  <2> QED
    BY <1>5, <2>1, <2>2, <2>3 DEF HttpStep
<1>6. ASSUME NEW w \in Workers, WsStep(w) PROVE SameIds
  <2>1. ASSUME WsReady(w) PROVE SameIds
    BY <1>2, <2>1 DEF WsReady
  <2>2. ASSUME WsReadyEnqueue(w) PROVE SameIds
    BY <1>1, <2>2 DEF WsReadyEnqueue
  <2>3. ASSUME WsData(w) PROVE SameIds
    BY <1>1, <1>2, <2>3 DEF WsData
  <2>4. ASSUME WsDetach(w) PROVE SameIds
    BY <2>4, OwnIsObject DEF SameIds, WsDetach, IInv, TypeOK, RequestType
  <2>5. ASSUME WsClose(w) PROVE SameIds
    BY <1>2, <2>5 DEF WsClose
  <2> QED
    BY <1>6, <2>1, <2>2, <2>3, <2>4, <2>5 DEF WsStep
<1>7. CASE Dequeue
  <2>1. Head(queue) \in Objs
    BY <1>7, PopElements DEF Dequeue, IInv, TypeOK
  <2> QED
    BY <1>1, <1>4, <1>7, <2>1 DEF Dequeue
<1>8. CASE Reap
  <2>1. FindActive(obj[cur].id) \cup {cur} \in SUBSET Objs
    BY <1>8 DEF Reap, FindActive, IInv, TypeOK, RInv
  <2> QED
    BY <1>3, <1>8, <2>1 DEF Reap
<1>9. CASE Respond
  BY <1>9 DEF SameIds, Respond, Answer, IInv, TypeOK, RequestType
<1>10. CASE StopServer
  BY <1>10 DEF SameIds, StopServer, Answer, IInv, TypeOK, RequestType
<1>11. ASSUME UNCHANGED storeVars PROVE SameIds
  BY <1>1, <1>11 DEF storeVars
<1> QED
  BY <1>5, <1>6, <1>7, <1>8, <1>9, <1>10, <1>11
  DEF Next, vars, LoopStep, StopStep, Accept, WsFrame, StartServer, StartFails, RegisterHandlers,
      EnterLoop, LeaveLoop, Abandon, EventDone, FindRequest, UnknownRequest, WsSendCheck,
      WsSendWrite, SetStopFlag, JoinWorkers, UseFreed

\* Objects in the lists and anchors are allocated, so SameIds is about them.
LEMMA ListedAreKnown ==
  ASSUME IInv
  PROVE  /\ \A o \in Queued \cup active : o \in Objs /\ obj[o].mem # "unused"
         /\ \A o \in Objs : obj[o].ev # "none" => obj[o].mem # "unused"
         /\ \A i \in DOMAIN queue : queue[i] \in Queued
         /\ \A a, b \in Objs : obj[a].ev = "ready" /\ obj[b].ev = "ready" /\ obj[a].id = obj[b].id
                                 => a = b
<1>1. \A o \in Queued : o \in Objs /\ obj[o].mem # "unused"
  BY DEF IInv, TypeOK, QueueInv, Queued, ToSet
<1>2. \A o \in active : o \in Objs /\ obj[o].mem # "unused"
  BY DEF IInv, TypeOK, QueueInv, Live
<1>3. \A i \in DOMAIN queue : queue[i] \in Queued
  BY DEF Queued, ToSet
<1>4. \A o \in Objs : obj[o].ev # "none" => obj[o].mem # "unused"
  BY DEF IInv, ObjectInv
<1>5. \A a, b \in Objs : obj[a].ev = "ready" /\ obj[b].ev = "ready" /\ obj[a].id = obj[b].id => a = b
  BY DEF IInv, ObjectInv
<1> QED
  BY <1>1, <1>2, <1>3, <1>4, <1>5

-----------------------------------------------------------------------------
(* The order in the queue: when it stays, grows and shrinks.               *)

LEMMA OrderKeeps ==
  ASSUME IInv, SameIds, AnchorFirst, CloseIsLast, queue' = queue,
         \A a \in active : obj[a].ev = "ready" => a \in active'
  PROVE  AnchorFirst' /\ CloseIsLast'
<1>1. \A i \in DOMAIN queue : /\ queue[i] \in Objs
                              /\ obj'[queue[i]].ev = obj[queue[i]].ev
                              /\ obj'[queue[i]].id = obj[queue[i]].id
  BY ListedAreKnown DEF SameIds
<1>2. CloseIsLast'
  BY <1>1 DEF CloseIsLast, IsEvent
<1>3. ASSUME NEW i \in DOMAIN queue, IsEvent(queue[i])
      PROVE  \E a \in Objs : /\ IsAnchor(a, queue[i])'
                             /\ a \in active' \/ \E j \in 1..(i - 1) : queue[j] = a
  <2>1. PICK a \in Objs : /\ IsAnchor(a, queue[i])
                          /\ a \in active \/ \E j \in 1..(i - 1) : queue[j] = a
    BY <1>3 DEF AnchorFirst
  <2>2. IsAnchor(a, queue[i])'
    BY <1>1, <1>3, <2>1, ListedAreKnown DEF IsAnchor, SameIds
  <2> QED
    BY <2>1, <2>2 DEF IsAnchor
<1> QED
  BY <1>1, <1>2, <1>3 DEF AnchorFirst, IsEvent

LEMMA OrderGrows ==
  ASSUME IInv, SameIds, AnchorFirst, CloseIsLast, NEW o \in Objs,
         queue' = Append(queue, o), active' = active,
         IsEvent(o)' => /\ \E a \in Objs : IsAnchor(a, o)' /\ a \in Queued \cup active
                        /\ \A p \in Queued : obj[p].ev = "close" => obj[p].id # obj'[o].id
  PROVE  AnchorFirst' /\ CloseIsLast'
<1> DEFINE n == Len(queue)
<1>1. /\ n \in Nat /\ DOMAIN queue = 1..n /\ DOMAIN queue' = 1..(n + 1)
      /\ queue'[n + 1] = o /\ \A i \in 1..n : queue'[i] = queue[i]
  BY DEF IInv, TypeOK
<1>2. \A i \in 1..n : /\ queue[i] \in Objs /\ queue[i] \in Queued
                      /\ obj'[queue[i]].ev = obj[queue[i]].ev
                      /\ obj'[queue[i]].id = obj[queue[i]].id
  BY <1>1, ListedAreKnown DEF SameIds
<1> HIDE DEF n
<1>3. ASSUME NEW i \in 1..(n + 1), IsEvent(queue[i])'
      PROVE  \E a \in Objs : /\ IsAnchor(a, queue[i])'
                             /\ a \in active' \/ \E j \in 1..(i - 1) : queue'[j] = a
  <2>1. CASE i = n + 1
    <3>1. PICK a \in Objs : IsAnchor(a, o)' /\ a \in Queued \cup active
      BY <1>1, <1>3, <2>1 DEF IsEvent
    <3>2. a \in Queued => \E j \in 1..n : queue[j] = a
      BY <1>1 DEF Queued, ToSet
    <3>3. a \in active' \/ \E j \in 1..(i - 1) : queue'[j] = a
      BY <1>1, <2>1, <3>1, <3>2
    <3> QED
      BY <1>1, <2>1, <3>1, <3>3 DEF IsAnchor
  <2>2. CASE i \in 1..n
    <3>1. IsEvent(queue[i])
      BY <1>1, <1>2, <1>3, <2>2 DEF IsEvent
    <3>2. PICK a \in Objs : /\ IsAnchor(a, queue[i])
                            /\ a \in active \/ \E j \in 1..(i - 1) : queue[j] = a
      BY <1>1, <2>2, <3>1 DEF AnchorFirst
    <3>3. obj'[a].ev = obj[a].ev /\ obj'[a].id = obj[a].id
      BY <3>2, ListedAreKnown DEF IsAnchor, SameIds
    <3>4. \A j \in 1..(i - 1) : queue'[j] = queue[j]
      BY <1>1, <2>2
    <3> QED
      BY <1>1, <1>2, <2>2, <3>2, <3>3, <3>4 DEF IsAnchor
  <2> QED
    BY <1>1, <1>3, <2>1, <2>2
<1>4. AnchorFirst'
  BY <1>1, <1>3 DEF AnchorFirst, IsAnchor, IsEvent
<1>5. ASSUME NEW i \in 1..(n + 1), NEW j \in 1..(n + 1), obj'[queue'[i]].ev = "close",
             IsEvent(queue[j])', obj'[queue'[i]].id = obj'[queue'[j]].id
      PROVE  j <= i
  <2>1. CASE i = n + 1
    BY <1>1, <2>1
  <2>2. CASE i \in 1..n /\ j \in 1..n
    BY <1>1, <1>2, <1>5, <2>2 DEF CloseIsLast, IsEvent
  <2>3. CASE i \in 1..n /\ j = n + 1
    BY <1>1, <1>2, <1>5, <2>3 DEF IsEvent
  <2> QED
    BY <1>1, <2>1, <2>2, <2>3
<1> QED
  BY <1>1, <1>4, <1>5 DEF CloseIsLast, IsEvent

LEMMA OrderPops ==
  ASSUME IInv, SameIds, AnchorFirst, CloseIsLast, queue # <<>>, queue' = Tail(queue),
         active \subseteq active', obj[Head(queue)].ev = "ready" => Head(queue) \in active'
  PROVE  AnchorFirst' /\ CloseIsLast'
<1> DEFINE n == Len(queue) - 1
<1>1. /\ n \in Nat /\ DOMAIN queue = 1..(n + 1) /\ DOMAIN queue' = 1..n
      /\ Head(queue) = queue[1] /\ \A i \in 1..n : queue'[i] = queue[i + 1]
  BY DEF IInv, TypeOK
<1>2. \A i \in 1..(n + 1) : /\ queue[i] \in Objs
                            /\ obj'[queue[i]].ev = obj[queue[i]].ev
                            /\ obj'[queue[i]].id = obj[queue[i]].id
  BY <1>1, ListedAreKnown DEF SameIds
<1> HIDE DEF n
<1>3. \A i \in 1..n : i + 1 \in 1..(n + 1)
  BY <1>1
<1>4. ASSUME NEW i \in 1..n, IsEvent(queue[i])'
      PROVE  \E a \in Objs : /\ IsAnchor(a, queue[i])'
                             /\ a \in active' \/ \E j \in 1..(i - 1) : queue'[j] = a
  <2>1. IsEvent(queue[i + 1])
    BY <1>1, <1>2, <1>3, <1>4 DEF IsEvent
  <2>2. PICK a \in Objs : /\ IsAnchor(a, queue[i + 1])
                          /\ a \in active \/ \E j \in 1..(i + 1 - 1) : queue[j] = a
    BY <1>1, <1>3, <2>1 DEF AnchorFirst
  <2>3. obj'[a].ev = obj[a].ev /\ obj'[a].id = obj[a].id /\ obj[a].ev = "ready"
    BY <2>2, ListedAreKnown DEF IsAnchor, SameIds
  <2>4. a \in active' \/ \E j \in 1..(i - 1) : queue'[j] = a
    <3>1. ASSUME NEW j \in 1..i, queue[j] = a PROVE a \in active' \/ \E k \in 1..(i - 1) : queue'[k] = a
      <4>1. CASE j = 1
        BY <1>1, <2>3, <3>1, <4>1
      <4>2. CASE j # 1
        <5>1. j - 1 \in 1..(i - 1) /\ j - 1 \in 1..n /\ j - 1 + 1 = j
          BY <1>1, <4>2
        <5> QED
          BY <1>1, <3>1, <5>1
      <4> QED
        BY <4>1, <4>2
    <3>2. i + 1 - 1 = i
      BY <1>1
    <3> QED
      BY <2>2, <3>1, <3>2
  <2>5. IsAnchor(a, queue[i])'
    BY <1>1, <1>2, <1>3, <2>2, <2>3 DEF IsAnchor
  <2> QED
    BY <2>4, <2>5
<1>5. AnchorFirst'
  BY <1>1, <1>4 DEF AnchorFirst, IsAnchor, IsEvent
<1>6. ASSUME NEW i \in 1..n, NEW j \in 1..n, obj'[queue'[i]].ev = "close",
             IsEvent(queue[j])', obj'[queue'[i]].id = obj'[queue'[j]].id
      PROVE  j <= i
  <2>1. j + 1 <= i + 1
    BY <1>1, <1>2, <1>3, <1>6 DEF CloseIsLast, IsEvent
  <2> QED
    BY <1>1, <2>1
<1> QED
  BY <1>1, <1>5, <1>6 DEF CloseIsLast, IsEvent

-----------------------------------------------------------------------------
(* The steps.                                                              *)

OpenPcs == {"wsopen", "wsframe", "wsclose"}

\* A live event or anchor is not freed but by R's own steps.
NothingFreed ==
  \A o \in Objs : Live(o) /\ obj[o].ev # "http" => Live(o)'

\* An anchor loses its connection only to a worker that is about to make its CLOSE.
Letting ==
  \A a \in Objs :
    (Live(a) /\ obj[a].ev = "ready" /\ obj[a].conn = NoConn)' =>
      \/ Live(a) /\ obj[a].ev = "ready" /\ obj[a].conn = NoConn
      \/ \E w \in Workers : (own[w] = a /\ pc[w] = "wsclose")'

\* Steps that do not touch the queue, and the active list but for HTTP requests.
LEMMA EventFrame ==
  ASSUME IInv, EventInv, SameIds, NothingFreed, Letting, queue' = queue,
         \A a \in active : obj[a].ev = "ready" => a \in active',
         \A w \in Workers : pc'[w] \in OpenPcs => pc[w] \in OpenPcs /\ own'[w] = own[w],
         \A w \in Workers : pc[w] = "wsclose" => pc'[w] = "wsclose" /\ own'[w] = own[w],
         cur' \in {cur, Null}, rpc' = "reap" <=> rpc = "reap", rpc = "reap" => cur' = cur
  PROVE  EventInv'
<1>1. AnchorFirst' /\ CloseIsLast'
  BY OrderKeeps DEF EventInv
<1>2. Queued' = Queued
  BY DEF Queued
<1>3. \A o \in Queued : /\ o \in Objs
                        /\ obj'[o].ev = obj[o].ev /\ obj'[o].id = obj[o].id
  BY ListedAreKnown DEF SameIds
<1>4. EventsAreLive'
  BY <1>2, <1>3 DEF EventInv, EventsAreLive, NothingFreed
<1>5. AnchorsAreListed'
  <2>1. ASSUME NEW w \in Workers, pc'[w] \in OpenPcs PROVE own'[w] \in Queued \cup active'
    <3>1. pc[w] \in OpenPcs /\ own'[w] = own[w]
      BY <2>1
    <3>2. obj[own[w]].ev = "ready"
      BY <3>1 DEF OpenPcs, IInv, WorkerInv, WsPcs
    <3> QED
      BY <3>1, <3>2 DEF EventInv, AnchorsAreListed, OpenPcs
  <2> QED
    BY <1>2, <2>1 DEF AnchorsAreListed, OpenPcs
<1>6. EventInHand'
  <2>1. CASE cur' = Null
    BY <2>1 DEF EventInHand, EventInv, IInv, RInv
  <2>2. CASE cur' = cur /\ cur # Null
    <3>1. /\ cur \in Objs /\ obj[cur].mem # "unused" /\ obj'[cur].mem # "unused"
          /\ obj'[cur].ev = obj[cur].ev /\ obj'[cur].id = obj[cur].id
      BY <2>2 DEF EventInv, EventInHand, SameIds, IInv, TypeOK
    <3>2. ASSUME NEW a \in active, IsAnchor(a, cur) PROVE a \in active' /\ IsAnchor(a, cur)'
      BY <2>2, <3>1, <3>2, ListedAreKnown DEF IsAnchor, SameIds
    <3>3. ASSUME rpc = "reap", NEW o \in Queued, IsEvent(o)' PROVE obj'[o].id # obj'[cur].id
      BY <1>3, <3>1, <3>3 DEF EventInv, EventInHand, IsEvent
    <3> QED
      BY <1>2, <2>2, <3>1, <3>2, <3>3 DEF EventInv, EventInHand
  <2> QED
    BY <2>1, <2>2
<1>7. NoLeakedAnchor'
  <2> SUFFICES ASSUME NEW a \in Objs, (Live(a) /\ obj[a].ev = "ready" /\ obj[a].conn = NoConn)',
                      ~ \E w \in Workers : (own[w] = a /\ pc[w] = "wsclose")'
               PROVE  \/ \E o \in Queued' : obj'[o].ev = "close" /\ obj'[o].id = obj'[a].id
                      \/ rpc' = "reap" /\ obj'[cur'].id = obj'[a].id
    BY DEF NoLeakedAnchor
  <2>1. Live(a) /\ obj[a].ev = "ready" /\ obj[a].conn = NoConn
    BY DEF Letting
  <2>2. obj'[a].id = obj[a].id
    BY <2>1 DEF SameIds, Live
  <2>3. \A w \in Workers : ~(own[w] = a /\ pc[w] = "wsclose")
    OBVIOUS
  <2>4. CASE \E o \in Queued : obj[o].ev = "close" /\ obj[o].id = obj[a].id
    BY <1>2, <1>3, <2>2, <2>4
  <2>5. CASE rpc = "reap" /\ obj[cur].id = obj[a].id
    <3>1. cur \in Objs /\ obj[cur].mem # "unused"
      BY <2>5 DEF IInv, TypeOK, RInv, EventInv, EventInHand
    <3> QED
      BY <2>2, <2>5, <3>1 DEF SameIds
  <2> QED
    BY <2>1, <2>3, <2>4, <2>5 DEF EventInv, NoLeakedAnchor
<1> QED
  BY <1>1, <1>4, <1>5, <1>6, <1>7 DEF EventInv

\* enqueue() by one of the callbacks.
LEMMA EventAppend ==
  ASSUME IInv, EventInv, SameIds, NothingFreed, NEW o \in Objs,
         queue' = Append(queue, o), active' = active, UNCHANGED <<rpc, cur>>,
         obj'[o].ev # "http" => Live(o)',
         IsEvent(o)' => /\ \E a \in Objs : IsAnchor(a, o)' /\ a \in Queued \cup active
                        /\ \A p \in Queued : obj[p].ev = "close" => obj[p].id # obj'[o].id
                        /\ rpc = "reap" => obj[cur].id # obj'[o].id,
         \A w \in Workers : pc'[w] \in OpenPcs =>
           \/ pc[w] \in OpenPcs /\ own'[w] = own[w]
           \/ own'[w] = o,
         \A w \in Workers : pc[w] = "wsclose" =>
           \/ pc'[w] = "wsclose" /\ own'[w] = own[w]
           \/ obj'[o].ev = "close" /\ obj'[o].id = obj[own[w]].id,
         \A a \in Objs : (Live(a) /\ obj[a].ev = "ready" /\ obj[a].conn = NoConn)' =>
           Live(a) /\ obj[a].ev = "ready" /\ obj[a].conn = NoConn
  PROVE  EventInv'
<1>1. AnchorFirst' /\ CloseIsLast'
  BY OrderGrows DEF EventInv
<1>2. Queued' = Queued \cup {o}
  BY EnqueueElements DEF IInv, TypeOK, Queued
<1>3. \A p \in Queued : /\ p \in Objs
                        /\ obj'[p].ev = obj[p].ev /\ obj'[p].id = obj[p].id
  BY ListedAreKnown DEF SameIds
<1>4. EventsAreLive'
  BY <1>2, <1>3 DEF EventInv, EventsAreLive, NothingFreed
<1>5. AnchorsAreListed'
  BY <1>2 DEF EventInv, AnchorsAreListed, OpenPcs
<1>6. EventInHand'
  <2>1. CASE cur = Null
    BY <2>1 DEF EventInHand, IInv, RInv
  <2>2. CASE cur # Null
    <3>1. /\ cur \in Objs /\ obj[cur].mem # "unused" /\ obj'[cur].mem # "unused"
          /\ obj'[cur].ev = obj[cur].ev /\ obj'[cur].id = obj[cur].id
      BY <2>2 DEF EventInv, EventInHand, SameIds, IInv, TypeOK
    <3>2. ASSUME NEW a \in active, IsAnchor(a, cur) PROVE IsAnchor(a, cur)'
      BY <2>2, <3>1, <3>2, ListedAreKnown DEF IsAnchor, SameIds
    <3>3. ASSUME rpc = "reap", NEW p \in Queued', IsEvent(p)' PROVE obj'[p].id # obj'[cur].id
      BY <1>2, <1>3, <3>1, <3>3 DEF EventInv, EventInHand, IsEvent
    <3> QED
      BY <2>2, <3>1, <3>2, <3>3 DEF EventInv, EventInHand
  <2> QED
    BY <2>1, <2>2
<1>7. NoLeakedAnchor'
  <2> SUFFICES ASSUME NEW a \in Objs, (Live(a) /\ obj[a].ev = "ready" /\ obj[a].conn = NoConn)',
                      ~ \E w \in Workers : (own[w] = a /\ pc[w] = "wsclose")'
               PROVE  \/ \E p \in Queued' : obj'[p].ev = "close" /\ obj'[p].id = obj'[a].id
                      \/ rpc' = "reap" /\ obj'[cur'].id = obj'[a].id
    BY DEF NoLeakedAnchor
  <2>1. Live(a) /\ obj[a].ev = "ready" /\ obj[a].conn = NoConn
    OBVIOUS
  <2>2. obj'[a].id = obj[a].id
    BY <2>1 DEF SameIds, Live
  <2>3. CASE \E w \in Workers : own[w] = a /\ pc[w] = "wsclose"
    BY <1>2, <2>2, <2>3
  <2>4. CASE \E p \in Queued : obj[p].ev = "close" /\ obj[p].id = obj[a].id
    BY <1>2, <1>3, <2>2, <2>4
  <2>5. CASE rpc = "reap" /\ obj[cur].id = obj[a].id
    <3>1. cur \in Objs /\ obj[cur].mem # "unused"
      BY <2>5 DEF IInv, TypeOK, RInv, EventInv, EventInHand
    <3> QED
      BY <2>2, <2>5, <3>1 DEF SameIds
  <2> QED
    BY <2>1, <2>3, <2>4, <2>5 DEF EventInv, NoLeakedAnchor
<1> QED
  BY <1>1, <1>4, <1>5, <1>6, <1>7 DEF EventInv

\* Steps that leave the lists and the objects alone.
LEMMA EventStill ==
  ASSUME IInv, EventInv, UNCHANGED storeVars,
         \A w \in Workers : pc'[w] \in OpenPcs => pc[w] \in OpenPcs /\ own'[w] = own[w],
         \A w \in Workers : pc[w] = "wsclose" => pc'[w] = "wsclose" /\ own'[w] = own[w],
         \/ cur' \in {cur, Null} /\ rpc # "reap" /\ rpc' # "reap"
         \/ UNCHANGED <<rpc, cur>>
  PROVE  EventInv'
<1>1. SameIds /\ NothingFreed /\ Letting
  BY DEF SameIds, NothingFreed, Letting, storeVars, Live
<1> QED
  BY <1>1, EventFrame DEF storeVars

\* handler(), but for its enqueue().
LEMMA EventHttp ==
  ASSUME IInv, EventInv, SameIds, NEW w \in Workers,
         Refuse(w) \/ Admit(w) \/ Wake(w) \/ Unlink(w) \/ Release(w)
  PROVE  EventInv'
<1>1. CASE Refuse(w) \/ Wake(w)
  BY <1>1, EventStill DEF Refuse, Wake, OpenPcs, rVars, IInv, TypeOK
<1>2. CASE Admit(w)
  <2>1. NothingFreed
    BY <1>2 DEF Admit, NothingFreed, Fresh, Unused, Live
  <2>2. Letting
    BY <1>2 DEF Admit, Letting, Fresh, Unused, Live, New, IInv, TypeOK
  <2> QED
    BY <1>2, <2>1, <2>2, EventFrame DEF Admit, OpenPcs, rVars, IInv, TypeOK
<1>3. CASE Unlink(w)
  <2>1. NothingFreed /\ Letting
    BY <1>3 DEF Unlink, NothingFreed, Letting, Live
  <2>2. obj[own[w]].ev = "http"
    BY <1>3 DEF Unlink, IInv, WorkerInv, HttpPcs
  <2> QED
    BY <1>3, <2>1, <2>2, EventFrame DEF Unlink, RemoveActive, OpenPcs, rVars, IInv, TypeOK
<1>4. CASE Release(w)
  <2>1. own[w] \in Objs /\ obj[own[w]].ev = "http"
    BY <1>4, OwnIsObject DEF Release, IInv, WorkerInv, HttpPcs
  <2>2. NothingFreed
    BY <1>4, <2>1 DEF Release, NothingFreed, Live
  <2>3. Letting
    BY <1>4, <2>1 DEF Release, Letting, Live, Freed, IInv, TypeOK, RequestType
  <2> QED
    BY <1>4, <2>1, <2>2, <2>3, EventFrame DEF Release, OpenPcs, rVars, IInv, TypeOK
<1> QED
  BY <1>1, <1>2, <1>3, <1>4

\* The enqueue() of handler() and of ws_ready_handler(): no event, nothing to match.
LEMMA EventEnqueue ==
  ASSUME IInv, EventInv, SameIds, NEW w \in Workers, Enqueue(w) \/ WsReadyEnqueue(w)
  PROVE  EventInv'
<1>1. own[w] \in Objs /\ pc[w] \in {"read", "wsready"} /\ pc' = [pc EXCEPT ![w] = pc'[w]]
  BY OwnIsObject DEF Enqueue, WsReadyEnqueue, IInv, TypeOK
<1>2. /\ Live(own[w])
      /\ obj[own[w]].ev = IF pc[w] = "read" THEN "http" ELSE "ready"
  BY <1>1 DEF IInv, WorkerInv, HttpPcs, WsPcs
<1>3. /\ queue' = Append(queue, own[w]) /\ active' = active /\ UNCHANGED <<obj, own, rpc, cur>>
      /\ pc'[w] \notin {"wsframe", "wsclose"}
  BY DEF Enqueue, WsReadyEnqueue, Enqueued, rVars, IInv, TypeOK
<1>4. NothingFreed
  BY <1>3 DEF NothingFreed, Live
<1>5. ~ IsEvent(own[w])' /\ Live(own[w])'
  BY <1>2, <1>3 DEF IsEvent, Live
<1>6. /\ \A v \in Workers : pc'[v] \in OpenPcs =>
           (pc[v] \in OpenPcs /\ own'[v] = own[v]) \/ own'[v] = own[w]
      /\ \A v \in Workers : pc[v] = "wsclose" => pc'[v] = "wsclose" /\ own'[v] = own[v]
  BY <1>1, <1>3 DEF OpenPcs, IInv, TypeOK
<1>7. \A a \in Objs : (Live(a) /\ obj[a].ev = "ready" /\ obj[a].conn = NoConn)' =>
        Live(a) /\ obj[a].ev = "ready" /\ obj[a].conn = NoConn
  BY <1>3 DEF Live
<1> QED
  BY <1>1, <1>3, <1>4, <1>5, <1>6, <1>7, EventAppend DEF IsEvent

\* The anchor of an open connection is in a list, and no CLOSE has its id.
LEMMA OpenAnchor ==
  ASSUME IInv, EventInv, NEW w \in Workers, pc[w] \in {"wsframe", "wsclose"}
  PROVE  /\ own[w] \in Objs /\ own[w] \in Queued \cup active
         /\ Live(own[w]) /\ obj[own[w]].ev = "ready"
         /\ \A p \in Queued : obj[p].ev = "close" => obj[p].id # AnchorId(w)
         /\ rpc = "reap" => obj[cur].id # AnchorId(w)
<1>1. own[w] \in Objs /\ own[w] \in Queued \cup active
  BY OwnIsObject DEF EventInv, AnchorsAreListed, IInv
<1>2. Live(own[w]) /\ obj[own[w]].ev = "ready"
  BY DEF IInv, WorkerInv, WsPcs
<1>3. ASSUME NEW p \in Objs, Live(p), obj[p].ev = "close" PROVE obj[p].id # AnchorId(w)
  <2>1. PICK a \in Objs : /\ obj[a].ev = "ready" /\ obj[a].id = obj[p].id
                          /\ \A v \in Workers : own[v] # a
    BY <1>3 DEF IInv, ObjectInv
  <2> QED
    BY <1>1, <1>2, <2>1, ListedAreKnown DEF AnchorId
<1>4. \A p \in Queued : obj[p].ev = "close" => Live(p) /\ p \in Objs
  BY ListedAreKnown DEF EventInv, EventsAreLive
<1>5. rpc = "reap" => cur \in Objs /\ Live(cur) /\ obj[cur].ev = "close"
  BY DEF IInv, TypeOK, RInv
<1> QED
  BY <1>1, <1>2, <1>3, <1>4, <1>5

\* ws_data_handler() and ws_close_handler(): an event joins the queue behind its anchor.
LEMMA EventWs ==
  ASSUME IInv, EventInv, SameIds, NEW w \in Workers, NEW o \in Fresh, NEW e \in {"data", "close"},
         pc[w] = (IF e = "data" THEN "wsframe" ELSE "wsclose"),
         obj' = [obj EXCEPT ![o] = New(e, AnchorId(w), NoConn)],
         queue' = Append(queue, o), active' = active, UNCHANGED <<rpc, cur>>,
         pc' = [pc EXCEPT ![w] = IF e = "data" THEN "wsopen" ELSE "idle"],
         own' = IF e = "data" THEN own ELSE [own EXCEPT ![w] = Null]
  PROVE  EventInv'
<1>1. /\ own[w] \in Objs /\ own[w] \in Queued \cup active
      /\ Live(own[w]) /\ obj[own[w]].ev = "ready"
      /\ \A p \in Queued : obj[p].ev = "close" => obj[p].id # AnchorId(w)
      /\ rpc = "reap" => obj[cur].id # AnchorId(w)
  BY OpenAnchor
<1>2. /\ o \in Objs /\ obj[o].mem = "unused" /\ o # own[w]
      /\ obj'[o] = New(e, AnchorId(w), NoConn)
      /\ \A a \in Objs : a # o => obj'[a] = obj[a]
  BY <1>1 DEF Fresh, Unused, Live, IInv, TypeOK
<1>3. obj'[o].ev = e /\ obj'[o].id = AnchorId(w) /\ obj'[o].mem = "live"
  BY <1>2 DEF New
<1>4. NothingFreed
  BY <1>2 DEF NothingFreed, Live
<1>5. \E a \in Objs : IsAnchor(a, o)' /\ a \in Queued \cup active
  <2>1. PICK a \in Objs : a = own[w]
    BY <1>1
  <2>2. IsAnchor(a, o)'
    BY <1>1, <1>2, <1>3, <2>1 DEF IsAnchor, AnchorId
  <2> QED
    BY <1>1, <2>1, <2>2
<1>6. \A a \in Objs : (Live(a) /\ obj[a].ev = "ready" /\ obj[a].conn = NoConn)' =>
        Live(a) /\ obj[a].ev = "ready" /\ obj[a].conn = NoConn
  BY <1>2, <1>3 DEF Live
<1>7. \A v \in Workers : pc'[v] \in OpenPcs =>
        (pc[v] \in OpenPcs /\ own'[v] = own[v]) \/ own'[v] = o
  BY DEF OpenPcs, IInv, TypeOK
<1>8. \A v \in Workers : pc[v] = "wsclose" =>
        \/ pc'[v] = "wsclose" /\ own'[v] = own[v]
        \/ obj'[o].ev = "close" /\ obj'[o].id = obj[own[v]].id
  BY <1>3 DEF AnchorId, IInv, TypeOK
<1>9. /\ \E a \in Objs : IsAnchor(a, o)' /\ a \in Queued \cup active
      /\ \A p \in Queued : obj[p].ev = "close" => obj[p].id # obj'[o].id
      /\ rpc = "reap" => obj[cur].id # obj'[o].id
  BY <1>1, <1>3, <1>5
<1> QED
  BY <1>2, <1>3, <1>4, <1>6, <1>7, <1>8, <1>9, EventAppend DEF Live

\* The WebSocket callbacks.
LEMMA EventWsStep ==
  ASSUME IInv, EventInv, SameIds, NEW w \in Workers, WsStep(w)
  PROVE  EventInv'
<1>1. CASE WsReady(w)
  <2>1. NothingFreed
    BY <1>1 DEF WsReady, NothingFreed, Fresh, Unused, Live
  <2>2. Letting
    BY <1>1, NoConnAssumption DEF WsReady, Letting, Fresh, Unused, Live, New, IInv, TypeOK
  <2> QED
    BY <1>1, <2>1, <2>2, EventFrame DEF WsReady, OpenPcs, rVars, IInv, TypeOK
<1>2. CASE WsReadyEnqueue(w)
  BY <1>2, EventEnqueue
<1>3. CASE WsData(w)
  <2>1. CASE UNCHANGED <<obj, queue>>
    BY <1>3, <2>1, EventStill DEF WsData, OpenPcs, storeVars, rVars, IInv, TypeOK
  <2>2. ASSUME NEW o \in Fresh, obj' = [obj EXCEPT ![o] = New("data", AnchorId(w), NoConn)],
               queue' = Enqueued(o)
        PROVE  EventInv'
    BY <1>3, <2>2, EventWs DEF WsData, Enqueued, rVars
  <2> QED
    BY <1>3, <2>1, <2>2 DEF WsData
<1>4. CASE WsDetach(w)
  <2>1. own[w] \in Objs
    BY <1>4, OwnIsObject DEF WsDetach, IInv
  <2>2. NothingFreed
    BY <1>4, <2>1 DEF WsDetach, NothingFreed, Live, IInv, TypeOK, RequestType
  <2>3. Letting
    BY <1>4, <2>1 DEF WsDetach, Letting, Live, IInv, TypeOK, RequestType
  <2> QED
    BY <1>4, <2>2, <2>3, EventFrame DEF WsDetach, OpenPcs, rVars, IInv, TypeOK
<1>5. CASE WsClose(w)
  <2>1. PICK o \in Fresh : /\ obj' = [obj EXCEPT ![o] = New("close", AnchorId(w), NoConn)]
                           /\ queue' = Enqueued(o)
    BY <1>5 DEF WsClose
  <2> QED
    BY <1>5, <2>1, EventWs DEF WsClose, Enqueued, rVars
<1> QED
  BY <1>1, <1>2, <1>3, <1>4, <1>5 DEF WsStep

\* civetweb_next_request_timeout(): the head leaves the queue.
LEMMA EventDequeue ==
  ASSUME IInv, EventInv, SameIds, Dequeue
  PROVE  EventInv'
<1>0. PICK o \in Objs : o = Head(queue)
  BY PopElements DEF Dequeue, IInv, TypeOK
<1>1. /\ Queued = Queued' \cup {o} /\ o \notin Queued' /\ o \in Queued
      /\ \A p \in Queued : p \in Objs
  <2>1. Queued = Queued' \cup {o} /\ o \notin Queued'
    BY <1>0, PopElements DEF Dequeue, IInv, TypeOK, QueueInv, Queued
  <2> QED
    BY <2>1, ListedAreKnown
<1>2. /\ Live(o) /\ queue # <<>> /\ queue' = Tail(queue) /\ cur' = o /\ rpc = "poll"
      /\ active \subseteq active' /\ (obj[o].ev = "ready" => o \in active')
      /\ rpc' = (IF obj[o].ev = "close" THEN "reap" ELSE "dispatch")
      /\ \A p \in Objs : p # o => obj'[p] = obj[p]
      /\ UNCHANGED <<pc, own>>
  BY <1>0, <1>1 DEF Dequeue, Anchors, workerVars, IInv, TypeOK
<1>3. obj'[o].ev = obj[o].ev /\ obj'[o].id = obj[o].id /\ obj'[o].mem # "unused"
  BY <1>1, <1>2 DEF SameIds, Live
<1>4. o = queue[1] /\ 1 \in DOMAIN queue
  BY <1>0, <1>2 DEF IInv, TypeOK
<1>5. AnchorFirst' /\ CloseIsLast'
  BY <1>0, <1>2, OrderPops DEF EventInv
<1>6. EventsAreLive'
  BY <1>1, <1>2 DEF EventInv, EventsAreLive, Live
<1>7. AnchorsAreListed'
  <2>1. ASSUME NEW w \in Workers, pc[w] \in OpenPcs PROVE own[w] \in Queued' \cup active'
    <3>1. obj[own[w]].ev = "ready" /\ own[w] \in Queued \cup active
      BY <2>1 DEF OpenPcs, IInv, WorkerInv, WsPcs, EventInv, AnchorsAreListed
    <3> QED
      BY <1>1, <1>2, <3>1
  <2> QED
    BY <1>2, <2>1 DEF AnchorsAreListed, OpenPcs
<1>8. ASSUME IsEvent(o) PROVE \E a \in active' : IsAnchor(a, o)'
  <2>1. PICK a \in Objs : IsAnchor(a, o) /\ a \in active
    BY <1>4, <1>8 DEF EventInv, AnchorFirst
  <2>2. IsAnchor(a, o)'
    BY <1>3, <2>1, ListedAreKnown DEF IsAnchor, SameIds
  <2> QED
    BY <1>2, <2>1, <2>2
<1>9. ASSUME obj[o].ev = "close", NEW p \in Queued', IsEvent(p)' PROVE obj'[p].id # obj'[o].id
  <2>1. p \in Queued /\ p # o /\ p \in Objs /\ obj'[p] = obj[p]
    BY <1>1, <1>2, <1>9
  <2>2. PICK j \in DOMAIN queue : queue[j] = p
    BY <2>1 DEF Queued, ToSet
  <2>3. j # 1 /\ j \in Nat \ {0}
    BY <1>4, <2>1, <2>2 DEF IInv, TypeOK
  <2>4. ~(j <= 1)
    BY <2>3
  <2> QED
    BY <1>3, <1>4, <1>9, <2>1, <2>2, <2>4 DEF EventInv, CloseIsLast, IsEvent
<1>10. EventInHand'
  BY <1>2, <1>3, <1>8, <1>9 DEF EventInHand, IsEvent
<1>11. NoLeakedAnchor'
  <2> SUFFICES ASSUME NEW a \in Objs, (Live(a) /\ obj[a].ev = "ready" /\ obj[a].conn = NoConn)',
                      ~ \E w \in Workers : own[w] = a /\ pc[w] = "wsclose"
               PROVE  \/ \E p \in Queued' : obj'[p].ev = "close" /\ obj'[p].id = obj'[a].id
                      \/ rpc' = "reap" /\ obj'[cur'].id = obj'[a].id
    BY <1>2 DEF NoLeakedAnchor
  <2>1. obj'[a] = obj[a]
    <3>1. CASE a = o
      BY <1>0, <1>3, <3>1 DEF Dequeue
    <3>2. CASE a # o
      BY <1>2, <3>2
    <3> QED
      BY <3>1, <3>2
  <2>2. PICK p \in Queued : obj[p].ev = "close" /\ obj[p].id = obj[a].id
    BY <1>2, <2>1 DEF EventInv, NoLeakedAnchor, Live
  <2>3. obj'[p].ev = "close" /\ obj'[p].id = obj'[a].id
    BY <1>1, <1>2, <1>3, <2>1, <2>2
  <2> QED
    BY <1>1, <1>2, <2>2, <2>3
<1> QED
  BY <1>5, <1>6, <1>7, <1>10, <1>11 DEF EventInv

\* civetweb_next_request_timeout(), CLOSE: the anchor goes, and nothing needs it any more.
LEMMA EventReap ==
  ASSUME IInv, EventInv, SameIds, Reap
  PROVE  EventInv'
<1> DEFINE gone == FindActive(obj[cur].id)
<1>1. /\ cur \in Objs /\ Live(cur) /\ obj[cur].ev = "close" /\ cur \notin Queued
      /\ UNCHANGED <<queue, cur, pc, own>> /\ rpc = "reap" /\ rpc' = "dispatch"
      /\ active' = active \ gone
      /\ \A p \in Objs \ (gone \cup {cur}) : obj'[p] = obj[p]
      /\ \A p \in gone \cup {cur} : p \in Objs => obj'[p].mem = "freed"
  BY DEF Reap, RemoveActive, Freed, workerVars, IInv, TypeOK, RInv, RequestType
<1>2. \A p \in Objs : obj[p].mem # "unused" => /\ obj'[p].mem # "unused"
                                               /\ obj'[p].ev = obj[p].ev /\ obj'[p].id = obj[p].id
  BY DEF SameIds
<1>3. /\ \A a \in gone : a \in active /\ a \notin Queued /\ obj[a].id = obj[cur].id
      /\ \A a \in active : obj[a].id = obj[cur].id => a \in gone
  BY DEF FindActive, IInv, QueueInv
<1>4. /\ \A o \in Queued : o \in Objs /\ obj[o].mem # "unused"
      /\ \A o \in Queued : IsEvent(o) => obj[o].id # obj[cur].id
      /\ Queued' = Queued
  BY <1>1, ListedAreKnown DEF Queued, EventInv, EventInHand
<1> HIDE DEF gone
<1>5. AnchorFirst'
  <2>1. ASSUME NEW i \in DOMAIN queue, IsEvent(queue[i])'
        PROVE  \E a \in Objs : /\ IsAnchor(a, queue[i])'
                               /\ a \in active' \/ \E j \in 1..(i - 1) : queue[j] = a
    <3>1. queue[i] \in Queued /\ IsEvent(queue[i])
      BY <1>1, <1>2, <1>4, <2>1, ListedAreKnown DEF IsEvent
    <3>2. PICK a \in Objs : /\ IsAnchor(a, queue[i])
                            /\ a \in active \/ \E j \in 1..(i - 1) : queue[j] = a
      BY <3>1 DEF EventInv, AnchorFirst
    <3>3. IsAnchor(a, queue[i])'
      BY <1>1, <1>2, <1>4, <3>1, <3>2, ListedAreKnown DEF IsAnchor
    <3>4. obj[a].id # obj[cur].id
      BY <1>4, <3>1, <3>2 DEF IsAnchor, IsEvent
    <3>5. a \notin gone
      BY <1>3, <3>4
    <3> QED
      BY <1>1, <3>2, <3>3, <3>5
  <2> QED
    BY <1>1, <2>1 DEF AnchorFirst, IsEvent, IsAnchor
<1>6. CloseIsLast'
  <2>1. \A i \in DOMAIN queue : obj'[queue[i]].ev = obj[queue[i]].ev /\ obj'[queue[i]].id = obj[queue[i]].id
    BY <1>2, <1>4, ListedAreKnown
  <2> QED
    BY <1>1, <2>1 DEF EventInv, CloseIsLast, IsEvent
<1>7. EventsAreLive'
  <2>1. ASSUME NEW o \in Queued PROVE obj'[o] = obj[o]
    <3>1. o \notin gone /\ o # cur /\ o \in Objs
      BY <1>1, <1>3, <1>4
    <3> QED
      BY <1>1, <3>1
  <2> QED
    BY <1>4, <2>1 DEF EventInv, EventsAreLive, Live
<1>8. AnchorsAreListed'
  <2>1. ASSUME NEW w \in Workers, pc[w] \in OpenPcs PROVE own[w] \in Queued \cup active'
    <3>1. own[w] \in Objs /\ own[w] \in Queued \cup active /\ obj[own[w]].ev = "ready"
      BY <2>1, OwnIsObject DEF OpenPcs, IInv, WorkerInv, WsPcs, EventInv, AnchorsAreListed
    <3>2. PICK a \in Objs : /\ obj[a].ev = "ready" /\ obj[a].id = obj[cur].id
                            /\ \A v \in Workers : own[v] # a
      BY <1>1 DEF IInv, ObjectInv
    <3>3. own[w] \notin gone
      BY <1>3, <3>1, <3>2, ListedAreKnown
    <3> QED
      BY <1>1, <3>1, <3>3
  <2> QED
    BY <1>1, <1>4, <2>1 DEF AnchorsAreListed, OpenPcs
<1>9. EventInHand'
  BY <1>1, <1>2 DEF EventInHand, Live
<1>10. NoLeakedAnchor'
  <2> SUFFICES ASSUME NEW a \in Objs, (Live(a) /\ obj[a].ev = "ready" /\ obj[a].conn = NoConn)',
                      ~ \E w \in Workers : own[w] = a /\ pc[w] = "wsclose"
               PROVE  \E p \in Queued' : obj'[p].ev = "close" /\ obj'[p].id = obj'[a].id
    BY <1>1 DEF NoLeakedAnchor
  <2>1. a \notin gone /\ obj'[a] = obj[a]
    BY <1>1 DEF Live
  <2>2. obj[cur].id # obj[a].id
    <3>1. PICK b \in active : IsAnchor(b, cur)
      BY <1>1 DEF EventInv, EventInHand
    <3> QED
      BY <1>3, <2>1, <3>1, ListedAreKnown DEF IsAnchor
  <2>3. PICK p \in Queued : obj[p].ev = "close" /\ obj[p].id = obj[a].id
    BY <2>1, <2>2 DEF EventInv, NoLeakedAnchor, Live
  <2>4. p \in Queued' /\ obj'[p].ev = "close" /\ obj'[p].id = obj'[a].id
    BY <1>2, <1>4, <2>1, <2>3
  <2> QED
    BY <2>4
<1> QED
  BY <1>5, <1>6, <1>7, <1>8, <1>9, <1>10 DEF EventInv

\* civetweb_send_response() and the sweep of civetweb_stop_server() write answers only.
LEMMA EventAnswers ==
  ASSUME IInv, EventInv, SameIds, Respond \/ StopServer
  PROVE  EventInv'
<1>1. \A o \in Objs : /\ obj'[o].mem = obj[o].mem /\ obj'[o].ev = obj[o].ev
                      /\ obj'[o].conn = obj[o].conn
  <2>1. CASE Respond
    BY <2>1 DEF Respond, Answer, IInv, TypeOK, RequestType
  <2>2. CASE StopServer
    BY <2>2 DEF StopServer, Answer, IInv, TypeOK, RequestType
  <2> QED
    BY <2>1, <2>2
<1>2. NothingFreed /\ Letting
  BY <1>1 DEF NothingFreed, Letting, Live
<1>3. /\ UNCHANGED <<queue, active, pc, own>>
      /\ cur' \in {cur, Null} /\ rpc # "reap" /\ rpc' # "reap"
  BY DEF Respond, StopServer, workerVars
<1> QED
  BY <1>2, <1>3, EventFrame DEF OpenPcs

-----------------------------------------------------------------------------
(* The theorem.                                                            *)

LEMMA EventInit == Init => EventInv
<1> SUFFICES ASSUME Init PROVE EventInv
  OBVIOUS
<1>1. queue = <<>> /\ DOMAIN queue = {} /\ Queued = {}
  BY DEF Init, Queued, ToSet
<1>2. /\ cur = Null /\ rpc = "top"
      /\ \A w \in Workers : pc[w] = "idle"
      /\ \A o \in Objs : ~ Live(o)
  BY DEF Init, NoObj, Live
<1>3. AnchorFirst /\ CloseIsLast
  BY <1>1 DEF AnchorFirst, CloseIsLast
<1>4. EventsAreLive /\ AnchorsAreListed /\ EventInHand /\ NoLeakedAnchor
  BY <1>1, <1>2 DEF EventsAreLive, AnchorsAreListed, EventInHand, NoLeakedAnchor
<1> QED
  BY <1>3, <1>4 DEF EventInv

LEMMA EventStep ==
  ASSUME IInv, EventInv, [Next]_vars
  PROVE  EventInv'
<1>1. SameIds
  BY IdsStep
<1>2. ASSUME NEW w \in Workers, NEW kind \in {"httpreq", "wsreq"}, Accept(w, kind) \/ WsFrame(w)
      PROVE  EventInv'
  BY <1>2, EventStill DEF Accept, WsFrame, OpenPcs, rVars, IInv, TypeOK
<1>3. ASSUME NEW w \in Workers, HttpStep(w) PROVE EventInv'
  BY <1>1, <1>3, EventHttp, EventEnqueue DEF HttpStep
<1>4. ASSUME NEW w \in Workers, WsStep(w) PROVE EventInv'
  BY <1>1, <1>4, EventWsStep
<1>5. CASE StartServer \/ StartFails \/ RegisterHandlers \/ EnterLoop \/ LeaveLoop
  BY <1>5, EventStill
  DEF StartServer, StartFails, RegisterHandlers, EnterLoop, LeaveLoop, RBack, workerVars
<1>6. CASE Abandon \/ EventDone \/ FindRequest \/ UnknownRequest \/ WsSendCheck \/ WsSendWrite
  BY <1>6, EventStill
  DEF Abandon, EventDone, FindRequest, UnknownRequest, WsSendCheck, WsSendWrite, RBack, workerVars
<1>7. CASE Dequeue \/ Reap
  BY <1>1, <1>7, EventDequeue, EventReap
<1>8. CASE Respond \/ StopServer
  BY <1>1, <1>8, EventAnswers
<1>9. CASE StopStep
  BY <1>9, EventStill DEF StopStep, SetStopFlag, JoinWorkers, RBack, workerVars
<1>10. CASE UseFreed \/ UNCHANGED vars
  BY <1>10, EventStill DEF UseFreed, vars, workerVars, rVars
<1> QED
  BY <1>2, <1>3, <1>4, <1>5, <1>6, <1>7, <1>8, <1>9, <1>10 DEF Next, LoopStep

\* R sees the events of a WebSocket connection between its READY and its CLOSE, a message
\* finds the anchor of its client, and an anchor whose connection is gone is freed by the
\* CLOSE behind it: for any workers, objects, stops and restarts.
THEOREM EventsCorrect == Spec => []EventsMatchConnections
<1>1. Init => EventInv
  BY EventInit
<1>2. IInv /\ EventInv /\ [Next]_vars => EventInv'
  BY EventStep
<1>3. IInv /\ EventInv => EventsMatchConnections
  <2> SUFFICES ASSUME IInv, EventInv PROVE EventsMatchConnections
    OBVIOUS
  <2>1. EventsFollowReady
    <3> SUFFICES ASSUME NEW i \in DOMAIN queue, IsEvent(queue[i])
                 PROVE  \/ \E a \in active : obj[a].id = obj[queue[i]].id /\ obj[a].ev = "ready"
                        \/ \E j \in 1..(i-1) :
                             obj[queue[j]].id = obj[queue[i]].id /\ obj[queue[j]].ev = "ready"
      BY DEF EventsFollowReady, IsEvent
    <3>1. PICK a \in Objs : /\ IsAnchor(a, queue[i])
                            /\ a \in active \/ \E j \in 1..(i - 1) : queue[j] = a
      BY DEF EventInv, AnchorFirst
    <3> QED
      BY <3>1 DEF IsAnchor
  <2>2. MessageFindsItsAnchor
    BY DEF EventInv, EventInHand, MessageFindsItsAnchor, IsAnchor, IInv, RInv
  <2> QED
    BY <2>1, <2>2 DEF EventsMatchConnections, EventInv
<1> QED
  BY <1>1, <1>2, <1>3, Inductive, PTL DEF Spec

-----------------------------------------------------------------------------
(* What a filter of a sequence keeps.  Lemmas about a recursive function: an *)
(* induction over sets of numbers, as those over operators are out of reach.  *)

\* A set of numbers has a least element.
LEMMA LeastIs ==
  ASSUME NEW S \in SUBSET Nat, S # {}
  PROVE  \E i \in S : \A j \in S : i <= j
<1> DEFINE R == OpToRel(<, Nat)
<1>1. IsWellFoundedOn(R, Nat)
  BY NatLessThanWellFounded
<1>2. \A x, y \in Nat : (<<x, y>> \in R) <=> (x < y)
  BY DEF OpToRel
<1> HIDE DEF R
<1>3. PICK i \in S : \A j \in S : ~ (<<j, i>> \in R)
  BY <1>1, WFMin
<1>4. \A j \in S : i <= j
  <2> TAKE j \in S
  <2>1. i \in Nat /\ j \in Nat /\ ~(j < i)
    BY <1>2, <1>3
  <2> QED BY <2>1
<1> QED BY <1>4

\* What holds of 0, and of the next number with each, holds of all: as sets of numbers.
LEMMA Induction ==
  ASSUME NEW T, 0 \in T, \A k \in Nat : k \in T => k + 1 \in T
  PROVE  Nat \subseteq T
<1> SUFFICES ASSUME Nat \ T # {} PROVE FALSE
  OBVIOUS
<1>1. PICK k \in Nat \ T : \A j \in Nat \ T : k <= j
  BY LeastIs
<1>2. k \in Nat /\ k # 0 /\ k \notin T
  OBVIOUS
<1>3. k - 1 \in Nat /\ ~(k <= k - 1)
  BY <1>2
<1>4. k - 1 \in T
  BY <1>1, <1>3
<1>5. (k - 1) + 1 \in T /\ (k - 1) + 1 = k
  BY <1>2, <1>3, <1>4
<1> QED BY <1>2, <1>5

\* FlattenSeq() appends one sequence after the other: there is a function of what has
\* been appended.

\* A function of what has been kept of the first i.
Keeps(f, S, s, k) ==
  /\ f \in [0 .. k -> Seq(S)] /\ f[0] = <<>>
  /\ \A i \in 1 .. k : f[i] = IF s[i] \in S THEN Append(f[i - 1], s[i]) ELSE f[i - 1]

\* There is one that goes on to the next.
LEMMA KeepsMore ==
  ASSUME NEW S, NEW s, NEW k \in Nat, NEW f, Keeps(f, S, s, k)
  PROVE  \E g : Keeps(g, S, s, k + 1)
<1> DEFINE m == k + 1
           e == IF s[m] \in S THEN Append(f[k], s[m]) ELSE f[k]
           g == [i \in 0 .. m |-> IF i = m THEN e ELSE f[i]]
<1>1. /\ m \in Nat /\ m = k + 1 /\ k = m - 1 /\ 0 # m /\ k # m
      /\ 0 \in 0 .. m /\ k \in 0 .. m /\ m \in 0 .. m /\ k \in 0 .. k
      /\ \A i \in 0 .. m : i # m => i \in 0 .. k
      /\ \A i \in 1 .. m : i # m => i \in 1 .. k /\ i - 1 \in 0 .. m /\ i - 1 # m
      /\ \A i \in 1 .. m : i \in 0 .. m
  OBVIOUS
<1>2. e \in Seq(S)
  BY <1>1 DEF Keeps
<1>0. e = IF s[m] \in S THEN Append(f[k], s[m]) ELSE f[k]
  OBVIOUS
<1> HIDE DEF m, e
<1>3. g \in [0 .. m -> Seq(S)] /\ g[0] = <<>>
  BY <1>1, <1>2 DEF Keeps
<1>4. ASSUME NEW i \in 1 .. m
      PROVE  g[i] = IF s[i] \in S THEN Append(g[i - 1], s[i]) ELSE g[i - 1]
  <2>1. CASE i = m
    <3>1. g[m] = e /\ g[k] = f[k]
      BY <1>1
    <3> HIDE DEF g
    <3> QED BY <1>0, <1>1, <2>1, <3>1
  <2>2. CASE i # m
    <3>1. g[i] = f[i] /\ g[i - 1] = f[i - 1] /\ i \in 1 .. k
      BY <1>1, <2>2
    <3> HIDE DEF g
    <3> QED BY <3>1 DEF Keeps
  <2> QED BY <2>1, <2>2
<1>5. Keeps(g, S, s, m)
  <2> HIDE DEF g
  <2> QED BY <1>3, <1>4 DEF Keeps
<1> QED BY <1>1, <1>5

\* Those() is what such a function has kept at the end.
LEMMA ThoseIs ==
  ASSUME NEW S, NEW T, NEW s \in Seq(T)
  PROVE  \E f : Keeps(f, S, s, Len(s)) /\ Those(S, s) = f[Len(s)]
<1> DEFINE n == Len(s)
           Up(g) == g = [i \in 0 .. n |->
                           IF i = 0 THEN <<>>
                           ELSE IF s[i] \in S THEN Append(g[i - 1], s[i]) ELSE g[i - 1]]
           K == {k \in Nat : \E g : Keeps(g, S, s, k)}
<1>1. n \in Nat
  OBVIOUS
<1>2. 0 \in K
  <2> DEFINE g == [i \in 0 .. 0 |-> <<>>]
  <2>1. g \in [0 .. 0 -> Seq(S)] /\ g[0] = <<>>
    OBVIOUS
  <2>2. 1 .. 0 = {}
    OBVIOUS
  <2> HIDE DEF g
  <2>3. Keeps(g, S, s, 0)
    BY <2>1, <2>2 DEF Keeps
  <2> QED BY <2>3
<1>3. ASSUME NEW k \in Nat, k \in K PROVE k + 1 \in K
  BY <1>3, KeepsMore
<1>4. Nat \subseteq K
  <2> HIDE DEF K
  <2> QED BY <1>2, <1>3, Induction
<1>5. PICK g : Keeps(g, S, s, n)
  BY <1>1, <1>4
<1>6. Up(g)
  <2> DEFINE h == [i \in 0 .. n |->
                     IF i = 0 THEN <<>>
                     ELSE IF s[i] \in S THEN Append(g[i - 1], s[i]) ELSE g[i - 1]]
  <2>1. ASSUME NEW i \in 0 .. n PROVE g[i] = h[i]
    <3>1. i = 0 \/ i \in 1 .. n
      BY <1>1
    <3>2. CASE i = 0
      BY <1>5, <3>2 DEF Keeps
    <3>3. CASE i \in 1 .. n /\ i # 0
      BY <1>5, <3>3 DEF Keeps
    <3> QED BY <3>1, <3>2, <3>3
  <2>2. g = [i \in 0 .. n |-> g[i]]
    BY <1>5 DEF Keeps
  <2>3. h = [i \in 0 .. n |-> h[i]]
    OBVIOUS
  <2> HIDE DEF h
  <2>4. g = h
    BY <2>1, <2>2, <2>3
  <2> QED BY <2>4 DEF h
<1> DEFINE f == CHOOSE f : Up(f)
<1>7. Up(f)
  <2> HIDE DEF Up
  <2> QED BY <1>6
<1>8. Those(S, s) = f[n]
  BY DEF Those
<1> HIDE DEF f
<1>9. f[0] = <<>>
  BY <1>1, <1>7
<1>10. ASSUME NEW i \in 1 .. n
       PROVE  f[i] = IF s[i] \in S THEN Append(f[i - 1], s[i]) ELSE f[i - 1]
  <2>1. i \in 0 .. n /\ i # 0
    BY <1>1
  <2> QED BY <1>7, <2>1
<1>11. \A i \in 0 .. n : f[i] \in Seq(S)
  <2> DEFINE V == {k \in Nat : k \in 0 .. n => f[k] \in Seq(S)}
  <2>1. ASSUME NEW k \in Nat, k \in V PROVE k + 1 \in V
    <3> SUFFICES ASSUME k + 1 \in 0 .. n PROVE f[k + 1] \in Seq(S)
      OBVIOUS
    <3> DEFINE m == k + 1
    <3>1. m \in 1 .. n /\ m - 1 = k /\ k \in 0 .. n
      BY <1>1
    <3>2. f[k] \in Seq(S)
      BY <2>1, <3>1
    <3> HIDE DEF m
    <3>3. f[m] = IF s[m] \in S THEN Append(f[k], s[m]) ELSE f[k]
      BY <1>10, <3>1
    <3>4. f[m] \in Seq(S)
      BY <3>2, <3>3
    <3> QED BY <3>4 DEF m
  <2>0. <<>> \in Seq(S) /\ 0 \in Nat
    OBVIOUS
  <2>2. 0 \in V
    BY <1>9, <2>0
  <2>3. Nat \subseteq V
    <3> HIDE DEF V
    <3> QED BY <2>1, <2>2, Induction
  <2> QED BY <1>1, <2>3
<1>12. f \in [0 .. n -> Seq(S)]
  <2>1. f = [i \in 0 .. n |-> f[i]]
    BY <1>7
  <2> QED BY <1>11, <2>1
<1>13. Keeps(f, S, s, n)
  BY <1>9, <1>10, <1>12 DEF Keeps
<1> QED BY <1>8, <1>13

\* Two such functions agree as long as the sequences and what is kept of them do.
LEMMA KeepsAlike ==
  ASSUME NEW S1, NEW S2, NEW s, NEW t, NEW f, NEW g, NEW m \in Nat, NEW n \in Nat, NEW k \in Nat,
         Keeps(f, S1, s, m), Keeps(g, S2, t, n), k <= m, k <= n,
         \A i \in 1 .. k : s[i] = t[i] /\ (s[i] \in S1 <=> t[i] \in S2)
  PROVE  f[k] = g[k]
<1> DEFINE V == {i \in Nat : i <= k => f[i] = g[i]}
<1>1. 0 \in V
  BY DEF Keeps
<1>2. ASSUME NEW i \in Nat, i \in V PROVE i + 1 \in V
  <2> SUFFICES ASSUME i + 1 <= k PROVE f[i + 1] = g[i + 1]
    OBVIOUS
  <2> DEFINE j == i + 1
  <2>1. j \in 1 .. k /\ j \in 1 .. m /\ j \in 1 .. n /\ j - 1 = i /\ f[i] = g[i]
    BY <1>2
  <2> HIDE DEF j
  <2>2. f[j] = g[j]
    BY <2>1 DEF Keeps
  <2> QED BY <2>2 DEF j
<1>3. Nat \subseteq V
  <2> HIDE DEF V
  <2> QED BY <1>1, <1>2, Induction
<1> QED BY <1>3

\* What is kept does not depend on what is not in the sequence.
LEMMA ThoseSame ==
  ASSUME NEW S1, NEW S2, NEW T, NEW s \in Seq(T), \A e \in ToSet(s) : e \in S1 <=> e \in S2
  PROVE  Those(S1, s) = Those(S2, s)
<1>1. PICK f : Keeps(f, S1, s, Len(s)) /\ Those(S1, s) = f[Len(s)]
  BY ThoseIs
<1>2. PICK g : Keeps(g, S2, s, Len(s)) /\ Those(S2, s) = g[Len(s)]
  BY ThoseIs
<1>3. Len(s) \in Nat /\ Len(s) <= Len(s) /\ \A i \in 1 .. Len(s) : s[i] \in ToSet(s)
  BY DEF ToSet
<1>4. \A i \in 1 .. Len(s) : s[i] = s[i] /\ (s[i] \in S1 <=> s[i] \in S2)
  BY <1>3
<1> QED BY <1>1, <1>2, <1>3, <1>4, KeepsAlike

\* What comes to the end of the sequence comes to the end of what is kept.
LEMMA ThoseAppend ==
  ASSUME NEW S, NEW T, NEW s \in Seq(T), NEW e \in T
  PROVE  Those(S, Append(s, e)) = IF e \in S THEN Append(Those(S, s), e) ELSE Those(S, s)
<1> DEFINE t == Append(s, e)
           n == Len(s)
           m == n + 1
<1>1. /\ t \in Seq(T) /\ Len(t) = m /\ n \in Nat /\ m \in Nat /\ n <= m /\ n <= n /\ m - 1 = n
      /\ m \in 1 .. m
      /\ t[m] = e /\ \A i \in 1 .. n : s[i] = t[i]
  OBVIOUS
<1> HIDE DEF t, m
<1>2. PICK f : Keeps(f, S, s, n) /\ Those(S, s) = f[n]
  BY ThoseIs
<1>3. PICK g : Keeps(g, S, t, m) /\ Those(S, t) = g[m]
  <2>1. \E g : Keeps(g, S, t, Len(t)) /\ Those(S, t) = g[Len(t)]
    BY <1>1, ThoseIs
  <2> QED BY <1>1, <2>1
<1> HIDE DEF n
<1>4. \A i \in 1 .. n : s[i] = t[i] /\ (s[i] \in S <=> t[i] \in S)
  BY <1>1
<1>5. f[n] = g[n]
  BY <1>1, <1>2, <1>3, <1>4, KeepsAlike
<1>6. g[m] = IF t[m] \in S THEN Append(g[n], t[m]) ELSE g[n]
  BY <1>1, <1>3 DEF Keeps
<1>7. Those(S, t) = IF e \in S THEN Append(Those(S, s), e) ELSE Those(S, s)
  BY <1>1, <1>2, <1>3, <1>5, <1>6
<1> QED BY <1>7 DEF t

\* What is taken off the sequence is taken off what is kept, if it is.
LEMMA ThoseTail ==
  ASSUME NEW S, NEW T, NEW s \in Seq(T), s # <<>>
  PROVE  /\ Those(S, s) = (IF Head(s) \in S THEN <<Head(s)>> ELSE <<>>) \o Those(S, Tail(s))
         /\ Those(S, Tail(s)) \in Seq(S)
<1> DEFINE t == Tail(s)
           n == Len(t)
           m == n + 1
           a == IF s[1] \in S THEN <<s[1]>> ELSE <<>>
<1>1. /\ t \in Seq(T) /\ Len(s) = m /\ n \in Nat /\ m \in Nat /\ 1 \in 1 .. m /\ Head(s) = s[1]
      /\ \A i \in 1 .. n : t[i] = s[i + 1] /\ i + 1 \in 1 .. m /\ i - 1 \in 0 .. n
      /\ n \in 0 .. n /\ n <= n /\ m = n + 1 /\ 1 - 1 = 0
  OBVIOUS
<1>2. a \in Seq(S) /\ a \o <<>> = a
  OBVIOUS
<1>0. a = IF s[1] \in S THEN <<s[1]>> ELSE <<>>
  OBVIOUS
<1> HIDE DEF t, a
<1>3. PICK g : Keeps(g, S, t, n) /\ Those(S, t) = g[n]
  BY <1>1, ThoseIs
<1> HIDE DEF n
<1>4. PICK f : Keeps(f, S, s, m) /\ Those(S, s) = f[m]
  <2>1. \E f : Keeps(f, S, s, Len(s)) /\ Those(S, s) = f[Len(s)]
    BY ThoseIs
  <2> HIDE DEF m
  <2> QED BY <1>1, <2>1
<1>5. \A i \in 0 .. n : g[i] \in Seq(S)
  BY <1>3 DEF Keeps
<1> HIDE DEF m
<1> DEFINE V == {i \in Nat : i <= n => f[i + 1] = a \o g[i]}
<1>6. 0 \in V
  <2>1. f[1] = IF s[1] \in S THEN Append(<<>>, s[1]) ELSE <<>>
    BY <1>1, <1>4 DEF Keeps
  <2>2. f[1] = a
    BY <1>0, <2>1
  <2>3. f[0 + 1] = f[1] /\ g[0] = <<>>
    BY <1>3 DEF Keeps
  <2> QED BY <1>2, <2>2, <2>3
<1>7. ASSUME NEW i \in Nat, i \in V PROVE i + 1 \in V
  <2> SUFFICES ASSUME i + 1 <= n PROVE f[(i + 1) + 1] = a \o g[i + 1]
    OBVIOUS
  <2> DEFINE j == i + 1
             l == j + 1
  <2>1. /\ j \in 1 .. n /\ j - 1 = i /\ l \in 1 .. m /\ l - 1 = j /\ i \in 0 .. n /\ f[j] = a \o g[i]
        /\ t[j] = s[l]
    BY <1>1, <1>7
  <2> HIDE DEF l, j, V
  <2>2. f[l] = IF s[l] \in S THEN Append(f[j], s[l]) ELSE f[j]
    BY <1>4, <2>1 DEF Keeps
  <2>3. g[j] = IF s[l] \in S THEN Append(g[i], s[l]) ELSE g[i]
    BY <1>3, <2>1 DEF Keeps
  <2>4. CASE s[l] \in S
    <3>1. Append(a \o g[i], s[l]) = a \o Append(g[i], s[l])
      <4>1. a \in Seq(S) /\ g[i] \in Seq(S)
        BY <1>2, <1>5, <2>1
      <4> DEFINE b == g[i]
                 e == s[l]
      <4>2. a \in Seq(S) /\ b \in Seq(S) /\ e \in S
        BY <2>4, <4>1
      <4> HIDE DEF b, e
      <4>3. Append(a \o b, e) = a \o Append(b, e)
        BY <4>2
      <4> QED BY <4>3 DEF b, e
    <3> QED BY <2>1, <2>2, <2>3, <2>4, <3>1 DEF l, j
  <2>5. CASE s[l] \notin S
    BY <2>1, <2>2, <2>3, <2>5 DEF l, j
  <2> QED BY <2>4, <2>5
<1>8. Nat \subseteq V
  <2> HIDE DEF V
  <2> QED BY <1>6, <1>7, Induction
<1>9. f[m] = a \o g[n]
  <2>1. n \in V
    BY <1>1, <1>8
  <2> QED BY <1>1, <2>1
<1>10. Those(S, s) = a \o Those(S, t) /\ Those(S, t) \in Seq(S)
  BY <1>1, <1>3, <1>4, <1>5, <1>9
<1> QED BY <1>0, <1>1, <1>10 DEF t

\* What a sequence holds after an append.
LEMMA AppendElements ==
  ASSUME NEW S, NEW q \in Seq(S), NEW o \in S
  PROVE  ToSet(Append(q, o)) = ToSet(q) \cup {o}
<1> DEFINE s == Append(q, o)
<1>1. /\ DOMAIN s = 1..(Len(q) + 1) /\ DOMAIN q = 1..Len(q)
      /\ Len(q) \in Nat /\ s[Len(q) + 1] = o /\ \A i \in 1..Len(q) : s[i] = q[i]
  OBVIOUS
<1> HIDE DEF s
<1>2. Len(q) + 1 \in DOMAIN s
  BY <1>1
<1>3. ToSet(s) = ToSet(q) \cup {o}
  BY <1>1, <1>2 DEF ToSet
<1> QED BY <1>3 DEF s

\* What is kept are the elements that are in the set.
LEMMA ThoseElements ==
  ASSUME NEW S, NEW T, NEW s \in Seq(T)
  PROVE  Those(S, s) \in Seq(S) /\ ToSet(Those(S, s)) = ToSet(s) \cap S
<1> DEFINE n == Len(s)
<1>1. PICK f : Keeps(f, S, s, n) /\ Those(S, s) = f[n]
  BY ThoseIs
<1>2. n \in Nat /\ n \in 0 .. n /\ \A e : e \in ToSet(s) <=> \E i \in 1 .. n : s[i] = e
  BY DEF ToSet
<1> HIDE DEF n
<1> DEFINE V == {k \in Nat : k <= n =>
                   \A e : e \in ToSet(f[k]) <=> e \in S /\ \E i \in 1 .. k : s[i] = e}
<1>3. 0 \in V
  <2>1. f[0] = <<>>
    BY <1>1 DEF Keeps
  <2>2. ToSet(<<>>) = {}
    BY DEF ToSet
  <2> QED BY <2>1, <2>2
<1>4. ASSUME NEW k \in Nat, k \in V PROVE k + 1 \in V
  <2> SUFFICES ASSUME k + 1 <= n, NEW e
               PROVE  e \in ToSet(f[k + 1]) <=> e \in S /\ \E i \in 1 .. k + 1 : s[i] = e
    OBVIOUS
  <2> DEFINE m == k + 1
  <2>1. /\ m \in 1 .. n /\ m - 1 = k /\ k \in 0 .. n
        /\ e \in ToSet(f[k]) <=> e \in S /\ \E i \in 1 .. k : s[i] = e
        /\ (\E i \in 1 .. m : s[i] = e) <=> (\E i \in 1 .. k : s[i] = e) \/ s[m] = e
    BY <1>2, <1>4
  <2> HIDE DEF m, V
  <2>2. f[m] = (IF s[m] \in S THEN Append(f[k], s[m]) ELSE f[k]) /\ f[k] \in Seq(S)
    BY <1>1, <2>1 DEF Keeps
  <2>3. CASE s[m] \in S
    <3>1. ToSet(Append(f[k], s[m])) = ToSet(f[k]) \cup {s[m]}
      BY <2>2, <2>3, AppendElements
    <3> QED BY <2>1, <2>2, <2>3, <3>1 DEF m
  <2>4. CASE s[m] \notin S
    <3>1. e \in ToSet(f[m]) <=> e \in S /\ \E i \in 1 .. m : s[i] = e
      BY <2>1, <2>2, <2>4
    <3> QED BY <3>1 DEF m
  <2> QED BY <2>3, <2>4
<1>5. Nat \subseteq V
  <2> HIDE DEF V
  <2> QED BY <1>3, <1>4, Induction
<1>6. n \in V /\ n <= n
  BY <1>2, <1>5
<1>7. \A e : e \in ToSet(f[n]) <=> e \in S /\ \E i \in 1 .. n : s[i] = e
  BY <1>6
<1>8. f[n] \in Seq(S)
  BY <1>1, <1>2 DEF Keeps
<1> QED BY <1>1, <1>2, <1>7, <1>8

\* If there are none, nothing is kept.
LEMMA ThoseNone ==
  ASSUME NEW S, NEW T, NEW s \in Seq(T), ToSet(s) \cap S = {}
  PROVE  Those(S, s) = <<>>
<1> DEFINE w == Those(S, s)
<1>1. w \in Seq(S) /\ ToSet(w) = {}
  BY ThoseElements
<1> HIDE DEF w
<1>2. Len(w) \in Nat /\ DOMAIN w = 1 .. Len(w)
  BY <1>1
<1>3. \A i \in DOMAIN w : w[i] \in ToSet(w)
  BY DEF ToSet
<1>4. ~(1 \in 1 .. Len(w))
  BY <1>1, <1>2, <1>3
<1>5. w = <<>>
  BY <1>1, <1>2, <1>4
<1> QED BY <1>5 DEF w

-----------------------------------------------------------------------------
(* The refinement.                                                         *)


\* Who is answered, and how, only depends on kinds and answers.
LEMMA GivenSame ==
  ASSUME \A o \in Objs : /\ obj'[o].ev = "http" <=> obj[o].ev = "http"
                         /\ obj[o].ev = "http" => obj'[o].answer = obj[o].answer
  PROVE  \A a : Given(a)' = Given(a)
BY DEF Given

\* A step that moves no request, and neither comes up with one nor answers one, is none
\* of the exchange.
LEMMA ExchangeStill ==
  ASSUME IInv, queue' = queue,
         \A o \in Queued \cup active \cup active' : o \in Given("none")' <=> o \in Given("none"),
         active' \cap Given("none")' = active \cap Given("none"),
         Given("r")' = Given("r"), Given("503")' = Given("503")
  PROVE  UNCHANGED Exchange!vars
<1>1. Those(Given("none"), queue)' = Those(Given("none"), queue)
  <2> DEFINE U == Given("none")'
             S == Given("none")
  <2>1. queue \in Seq(Objs) /\ \A e \in ToSet(queue) : e \in U <=> e \in S
    BY DEF IInv, TypeOK, Queued
  <2> HIDE DEF U, S
  <2>2. Those(U, queue) = Those(S, queue)
    BY <2>1, ThoseSame
  <2>3. Those(U, queue) = Those(Given("none"), queue)'
    BY DEF U, Those
  <2> QED BY <2>2, <2>3 DEF S
<1> QED BY <1>1 DEF Exchange!vars

\* So is one that does nothing to the objects and lists.
LEMMA ExchangeFrame ==
  ASSUME IInv, UNCHANGED <<obj, queue, active>>
  PROVE  UNCHANGED Exchange!vars
<1>1. \A a : Given(a)' = Given(a)
  BY DEF Given
<1> QED BY <1>1, ExchangeStill

\* A new object was in no list; only a request has to be answered.
LEMMA ExchangeNew ==
  ASSUME IInv, NEW o \in Fresh, NEW e, NEW n, NEW c, obj' = [obj EXCEPT ![o] = New(e, n, c)]
  PROVE  /\ Given("r")' = Given("r") /\ Given("503")' = Given("503")
         /\ Given("none")' = Given("none") \cup (IF e = "http" THEN {o} ELSE {})
         /\ o \notin Given("none")
<1>1. /\ o \in Objs /\ obj[o].ev = "none" /\ obj'[o].ev = e /\ obj'[o].answer = "none"
      /\ \A p \in Objs \ {o} : obj'[p] = obj[p]
  <2> DEFINE q == New(e, n, c)
  <2>1. q.ev = e /\ q.answer = "none"
    BY DEF New
  <2>2. obj' = [obj EXCEPT ![o] = q]
    OBVIOUS
  <2> HIDE DEF q
  <2>3. obj'[o] = q /\ \A p \in Objs \ {o} : obj'[p] = obj[p]
    BY <2>2, FreshStep
  <2> QED BY <2>1, <2>3, FreshIsUnknown
<1>2. ASSUME NEW a \in {"r", "503"} PROVE Given(a)' = Given(a)
  <2>1. \A p \in Objs : obj'[p].ev = "http" /\ obj'[p].answer = a
                          <=> obj[p].ev = "http" /\ obj[p].answer = a
    BY <1>1
  <2> QED BY <2>1 DEF Given
<1>3. o \notin Given("none")
  BY <1>1 DEF Given
<1>4. Given("none")' = Given("none") \cup (IF e = "http" THEN {o} ELSE {})
  <2>1. \A p \in Objs \ {o} : p \in Given("none")' <=> p \in Given("none")
    BY <1>1 DEF Given
  <2>2. o \in Given("none")' <=> e = "http"
    BY <1>1 DEF Given
  <2>3. Given("none") \subseteq Objs /\ Given("none")' \subseteq Objs
    BY DEF Given
  <2> QED BY <1>3, <2>1, <2>2, <2>3
<1> QED BY <1>2, <1>3, <1>4

\* An event that comes to the queue is no request.
LEMMA ExchangeEvent ==
  ASSUME IInv, NEW o \in Objs, queue' = Append(queue, o), active' = active,
         o \notin Given("none"), \A a \in {"none", "r", "503"} : Given(a)' = Given(a)
  PROVE  UNCHANGED Exchange!vars
<1> DEFINE S == Given("none")
<1>1. queue \in Seq(Objs) /\ S' = S
  BY DEF IInv, TypeOK
<1>2. Those(S, Append(queue, o)) = Those(S, queue)
  <2> HIDE DEF S
  <2>1. o \notin S
    BY DEF S
  <2> QED BY <1>1, <2>1, ThoseAppend
<1>3. Those(S, queue)' = Those(S, Append(queue, o))
  <2> HIDE DEF S
  <2> QED BY <1>1 DEF Those
<1> QED BY <1>1, <1>2, <1>3 DEF Exchange!vars

\* Nobody has asked for anything.
LEMMA ExchangeInit == Init => Exchange!Init
<1> SUFFICES ASSUME Init PROVE Exchange!Init
  OBVIOUS
<1>1. Those(Given("none"), queue) = <<>>
  <2>1. queue \in Seq(Objs) /\ ToSet(queue) = {}
    BY DEF Init, ToSet
  <2> DEFINE S == Given("none")
  <2> HIDE DEF S
  <2>2. Those(S, queue) = <<>>
    BY <2>1, ThoseNone
  <2> QED BY <2>2 DEF S
<1>2. \A a : Given(a) = {} /\ active = {}
  BY DEF Init, Given, NoObj
<1> QED BY <1>1, <1>2 DEF Exchange!Init

\* handler() puts its request at the end of the queue: a client asks.
LEMMA ExchangeEnqueue ==
  ASSUME IInv, NEW w \in Workers, Enqueue(w)
  PROVE  Exchange!Ask(own[w])
<1> DEFINE S == Given("none")
           o == own[w]
           W == Those(S, queue)
<1>1. /\ o \in Objs /\ o \in S /\ queue \in Seq(Objs) /\ o \notin ToSet(queue) \cup active
      /\ o \notin Given("r") \cup Given("503")
  <2>1. o \in Objs /\ obj[o].ev = "http" /\ obj[o].answer = "none" /\ o \notin Queued \cup active
    BY OwnIsObject DEF IInv, WorkerInv, TypeOK, Enqueue, HttpPcs, Responded
  <2> QED BY <2>1 DEF Given, IInv, TypeOK, Queued
<1>2. \A a : Given(a)' = Given(a)
  BY DEF Given, Enqueue
<1>3. queue' = Append(queue, o) /\ active' = active
  BY DEF Enqueue, Enqueued
<1>4. S' = S
  BY <1>2
<1> HIDE DEF S, o
<1>5. Those(S, Append(queue, o)) = Append(W, o)
  BY <1>1, ThoseAppend
<1>6. Those(S, queue)' = Append(W, o)
  BY <1>3, <1>4, <1>5 DEF Those
<1>7. o \notin ToSet(W)
  BY <1>1, ThoseElements
<1>8. o \notin Exchange!Seen
  <2>1. o \notin {W[i] : i \in DOMAIN W}
    BY <1>7 DEF ToSet
  <2> QED BY <1>1, <2>1 DEF Exchange!Seen, Exchange!InWaiting, S
<1> QED BY <1>2, <1>3, <1>4, <1>6, <1>8 DEF Exchange!Ask, S, o

\* civetweb_next_request_timeout() hands over the oldest request, or an event.
LEMMA ExchangeDequeue ==
  ASSUME IInv, Dequeue
  PROVE  Exchange!Hand \/ UNCHANGED Exchange!vars
<1> DEFINE S == Given("none")
           o == Head(queue)
           W == Those(S, queue)
           V == Those(S, Tail(queue))
<1>1. /\ o \in Objs /\ queue \in Seq(Objs) /\ queue # <<>> /\ queue' = Tail(queue)
      /\ active' = IF obj[o].ev \in Anchors THEN active \cup {o} ELSE active
  BY PopElements DEF Dequeue, IInv, TypeOK
<1>2. \A a : Given(a)' = Given(a)
  <2>1. CASE UNCHANGED obj
    BY <2>1 DEF Given
  <2>2. CASE obj[o].ev = "data" /\ obj' = [obj EXCEPT ![o] = Freed(o)]
    <3>1. \A p \in Objs : obj'[p].ev = obj[p].ev /\ obj'[p].answer = obj[p].answer
      BY <1>1, <2>2 DEF Freed, IInv, TypeOK, RequestType
    <3> QED BY <3>1, GivenSame
  <2> QED BY <2>1, <2>2 DEF Dequeue
<1>3. S' = S
  BY <1>2
<1>4. o \in S => obj[o].ev \in Anchors
  BY DEF Given, Anchors
<1> HIDE DEF S, o
<1>5. W = (IF o \in S THEN <<o>> ELSE <<>>) \o V /\ V \in Seq(S)
  BY <1>1, ThoseTail DEF o
<1>6. Those(S, queue)' = V
  BY <1>1, <1>3 DEF Those
<1>7. CASE o \in S
  <2>1. active' \cap S = (active \cap S) \cup {o}
    BY <1>1, <1>4, <1>7
  <2> HIDE DEF V
  <2>2. W = <<o>> \o V /\ V \in Seq(S)
    BY <1>5, <1>7
  <2>3. W # <<>> /\ Head(W) = o /\ Tail(W) = V
    <3> HIDE DEF W
    <3> QED BY <1>7, <2>2
  <2>4. Exchange!Hand
    BY <1>2, <1>3, <1>6, <2>1, <2>3 DEF Exchange!Hand, S, W
  <2> QED BY <2>4
<1>8. CASE o \notin S
  <2>1. active' \cap S = active \cap S
    BY <1>1, <1>8
  <2> HIDE DEF V
  <2>2. W = V
    BY <1>5, <1>8
  <2> QED BY <1>2, <1>3, <1>6, <2>1, <2>2 DEF Exchange!vars, S, W
<1> QED BY <1>7, <1>8

\* civetweb_send_response() answers a request that R was handed.
LEMMA ExchangeRespond ==
  ASSUME IInv, Respond
  PROVE  target \in Objs /\ Exchange!Answer(target)
<1> DEFINE o == target
<1>1. /\ o \in Objs /\ o \in active /\ obj[o].ev = "http" /\ obj[o].answer = "none"
      /\ o \notin Queued /\ queue \in Seq(Objs)
  BY DEF IInv, RInv, TypeOK, QueueInv, Respond, Responded
<1>2. /\ obj'[o].ev = "http" /\ obj'[o].answer = "r"
      /\ \A p \in Objs \ {o} : obj'[p] = obj[p]
  BY <1>1 DEF Respond, Answer, IInv, TypeOK, RequestType
<1>3. queue' = queue /\ active' = active
  BY DEF Respond
<1> HIDE DEF o
<1>4. Given("503")' = Given("503")
  <2>1. \A p \in Objs : obj'[p].ev = "http" /\ obj'[p].answer = "503"
                          <=> obj[p].ev = "http" /\ obj[p].answer = "503"
    BY <1>1, <1>2
  <2> QED BY <2>1 DEF Given
<1>5. Given("r")' = Given("r") \cup {o}
  <2>1. \A p \in Objs : obj'[p].ev = "http" /\ obj'[p].answer = "r"
                          <=> (obj[p].ev = "http" /\ obj[p].answer = "r") \/ p = o
    BY <1>1, <1>2
  <2> QED BY <1>1, <2>1 DEF Given
<1>6. Given("none")' = Given("none") \ {o} /\ o \in Given("none")
  <2>1. \A p \in Objs : obj'[p].ev = "http" /\ obj'[p].answer = "none"
                          <=> (obj[p].ev = "http" /\ obj[p].answer = "none") /\ p # o
    BY <1>1, <1>2
  <2> QED BY <1>1, <2>1 DEF Given
<1> DEFINE S == Given("none")
           U == S \ {o}
<1>7. S' = U /\ o \in S
  BY <1>6
<1> HIDE DEF S
<1>8. Those(U, queue) = Those(S, queue)
  <2>1. \A e \in ToSet(queue) : e \in U <=> e \in S
    BY <1>1 DEF Queued
  <2> HIDE DEF U
  <2> QED BY <1>1, <2>1, ThoseSame
<1>9. Those(S, queue)' = Those(S, queue)
  BY <1>3, <1>7, <1>8 DEF Those
<1>10. o \in active \cap S /\ active' \cap S' = (active \cap S) \ {o}
  BY <1>1, <1>3, <1>7
<1>11. Exchange!Answer(o)
  BY <1>4, <1>5, <1>9, <1>10 DEF Exchange!Answer, S
<1> QED BY <1>1, <1>11 DEF o

\* civetweb_stop_server() refuses whoever has no answer, in the queue and at R.
LEMMA ExchangeStop ==
  ASSUME IInv, StopServer
  PROVE  Exchange!Stop
<1> DEFINE S == Given("none")
           W == Those(S, queue)
<1>1. queue \in Seq(Objs) /\ ToSet(queue) \subseteq Objs /\ active \subseteq Objs
  BY ListedAreKnown DEF IInv, TypeOK, Queued
<1>2. queue' = queue /\ active' = active
  BY DEF StopServer
<1>3. \A p \in Objs : obj'[p].ev = obj[p].ev
                      /\ obj'[p].answer = (IF p \in ToSet(queue) \cup active /\ obj[p].answer = "none"
                                           THEN "503" ELSE obj[p].answer)
  BY DEF StopServer, Swept, Queued, Answer, Responded, IInv, TypeOK, RequestType
<1>4. Given("r")' = Given("r")
  <2>1. \A p \in Objs : obj'[p].ev = "http" /\ obj'[p].answer = "r"
                          <=> obj[p].ev = "http" /\ obj[p].answer = "r"
    BY <1>3
  <2> QED BY <2>1 DEF Given
<1>5. Given("503")' = Given("503") \cup (ToSet(queue) \cap S) \cup (active \cap S)
  <2>1. \A p \in Objs : obj'[p].ev = "http" /\ obj'[p].answer = "503"
                          <=> \/ obj[p].ev = "http" /\ obj[p].answer = "503"
                              \/ /\ p \in ToSet(queue) \cup active
                                 /\ obj[p].ev = "http" /\ obj[p].answer = "none"
    BY <1>3
  <2> QED BY <1>1, <2>1 DEF Given
<1>6. S' \cap ToSet(queue) = {} /\ S' \cap active = {}
  <2>1. \A p \in ToSet(queue) \cup active : ~(obj'[p].ev = "http" /\ obj'[p].answer = "none")
    BY <1>1, <1>3
  <2> QED BY <2>1 DEF Given
<1> DEFINE U == S'
<1> HIDE DEF S, U
<1>7. Those(S, queue)' = Those(U, queue)
  BY <1>2 DEF Those, U
<1>8. Those(U, queue) = <<>>
  <2>1. ToSet(queue) \cap U = {}
    BY <1>6 DEF U
  <2> QED BY <1>1, <2>1, ThoseNone
<1>9. ToSet(queue) \cap S = {W[i] : i \in DOMAIN W}
  <2>1. ToSet(W) = ToSet(queue) \cap S
    BY <1>1, ThoseElements
  <2> QED BY <2>1 DEF ToSet
<1>10. ToSet(queue) \cap S = Exchange!InWaiting
  BY <1>9 DEF Exchange!InWaiting, S
<1>11. active' \cap S' = {}
  BY <1>2, <1>6
<1> QED BY <1>4, <1>5, <1>7, <1>8, <1>10, <1>11 DEF Exchange!Stop, S

\* Every step of the bridge is one of the exchange, or none.
LEMMA ExchangeStep ==
  ASSUME IInv, [Next]_vars
  PROVE  [Exchange!Next]_Exchange!vars
<1>0. TypeOK /\ WorkerInv /\ ObjectInv /\ QueueInv /\ RInv
  BY DEF IInv
<1> DEFINE Still == UNCHANGED Exchange!vars
<1>f. ASSUME UNCHANGED <<obj, queue, active>> PROVE Still
  BY <1>f, ExchangeFrame
<1>s. ASSUME queue' = queue, active' = active, \A a : Given(a)' = Given(a) PROVE Still
  BY <1>s, ExchangeStill
<1>1. ASSUME UNCHANGED storeVars PROVE Still
  BY <1>1, <1>f DEF storeVars
<1>2. ASSUME NEW w \in Workers, Admit(w) PROVE Still
  <2>1. PICK o \in Fresh : obj' = [obj EXCEPT ![o] = New("http", nextId, w)]
    BY <1>2 DEF Admit
  <2>2. queue' = queue /\ active' = active
    BY <1>2 DEF Admit
  <2>3. /\ Given("r")' = Given("r") /\ Given("503")' = Given("503")
        /\ Given("none")' = Given("none") \cup {o}
    BY <2>1, ExchangeNew
  <2>4. o \notin Queued \cup active
    BY FreshIsUnknown
  <2>5. active' \cap Given("none")' = active \cap Given("none")
    BY <2>2, <2>3, <2>4
  <2>6. \A p \in Queued \cup active \cup active' : p \in Given("none")' <=> p \in Given("none")
    BY <2>2, <2>3, <2>4
  <2> QED BY <2>2, <2>3, <2>5, <2>6, ExchangeStill
<1>3. ASSUME NEW w \in Workers, Enqueue(w) PROVE Exchange!Next
  <2>1. own[w] \in Objs
    BY <1>0, <1>3, OwnIsObject DEF Enqueue
  <2> QED BY <1>3, <2>1, ExchangeEnqueue DEF Exchange!Next
<1>4. ASSUME NEW w \in Workers, Unlink(w) PROVE Still
  <2>1. obj' = obj /\ queue' = queue /\ active' = active \ {own[w]}
    BY <1>4 DEF Unlink, RemoveActive
  <2>2. own[w] \notin Given("none")
    BY <1>0, <1>4 DEF Unlink, WorkerInv, Given, Responded
  <2>3. \A a : Given(a)' = Given(a)
    BY <2>1 DEF Given
  <2>4. active' \cap Given("none")' = active \cap Given("none")
    BY <2>1, <2>2, <2>3
  <2> QED BY <2>1, <2>3, <2>4, ExchangeStill
<1>5. ASSUME NEW w \in Workers, Release(w) PROVE Still
  <2>1. queue' = queue /\ active' = active /\ own[w] \in Objs
    BY <1>0, <1>5, OwnIsObject DEF Release
  <2>2. \A p \in Objs : obj'[p].ev = obj[p].ev /\ obj'[p].answer = obj[p].answer
    BY <1>0, <1>5, <2>1 DEF Release, Freed, TypeOK, RequestType
  <2> QED BY <1>s, <2>1, <2>2, GivenSame
<1>6. ASSUME NEW w \in Workers, WsReady(w) PROVE Still
  <2>1. PICK o \in Fresh : obj' = [obj EXCEPT ![o] = New("ready", nextId, w)]
    BY <1>6 DEF WsReady
  <2>2. queue' = queue /\ active' = active
    BY <1>6 DEF WsReady
  <2>3. PICK e \in {"ready"} : obj' = [obj EXCEPT ![o] = New(e, nextId, w)]
    BY <2>1
  <2>4. /\ Given("r")' = Given("r") /\ Given("503")' = Given("503")
        /\ Given("none")' = Given("none") \cup (IF e = "http" THEN {o} ELSE {})
    BY <2>3, ExchangeNew
  <2>5. Given("none")' = Given("none")
    BY <2>3, <2>4
  <2> QED BY <2>2, <2>4, <2>5, ExchangeStill
<1>7. ASSUME NEW w \in Workers, WsReadyEnqueue(w) PROVE Still
  <2>1. obj' = obj /\ queue' = Append(queue, own[w]) /\ active' = active
    BY <1>7 DEF WsReadyEnqueue, Enqueued
  <2>2. own[w] \in Objs /\ own[w] \notin Given("none")
    BY <1>0, <1>7, OwnIsObject DEF WsReadyEnqueue, WorkerInv, WsPcs, Given
  <2>3. \A a : Given(a)' = Given(a)
    BY <2>1 DEF Given
  <2> QED BY <2>1, <2>2, <2>3, ExchangeEvent
<1>8. ASSUME NEW o \in Fresh, NEW e \in {"data", "close"}, NEW n, NEW c, active' = active,
             obj' = [obj EXCEPT ![o] = New(e, n, c)], queue' = Append(queue, o)
      PROVE  Still
  <2>1. /\ Given("r")' = Given("r") /\ Given("503")' = Given("503")
        /\ Given("none")' = Given("none") /\ o \notin Given("none") /\ o \in Objs
    BY <1>8, ExchangeNew, FreshIsUnknown
  <2> QED BY <1>8, <2>1, ExchangeEvent
<1>9. ASSUME NEW w \in Workers, WsData(w) PROVE Still
  <2>1. CASE UNCHANGED <<obj, queue>>
    BY <1>9, <1>f, <2>1 DEF WsData
  <2>2. ASSUME NEW o \in Fresh, obj' = [obj EXCEPT ![o] = New("data", AnchorId(w), NoConn)],
               queue' = Enqueued(o)
        PROVE  Still
    BY <1>8, <1>9, <2>2 DEF WsData, Enqueued
  <2> QED BY <1>9, <2>1, <2>2 DEF WsData
<1>10. ASSUME NEW w \in Workers, WsDetach(w) PROVE Still
  <2>1. queue' = queue /\ active' = active /\ own[w] \in Objs
    BY <1>0, <1>10, OwnIsObject DEF WsDetach
  <2>2. \A p \in Objs : obj'[p].ev = obj[p].ev /\ obj'[p].answer = obj[p].answer
    BY <1>0, <1>10, <2>1 DEF WsDetach, TypeOK, RequestType
  <2> QED BY <1>s, <2>1, <2>2, GivenSame
<1>11. ASSUME NEW w \in Workers, WsClose(w) PROVE Still
  <2>1. PICK o \in Fresh : /\ obj' = [obj EXCEPT ![o] = New("close", AnchorId(w), NoConn)]
                           /\ queue' = Enqueued(o)
    BY <1>11 DEF WsClose
  <2> QED BY <1>8, <1>11, <2>1 DEF WsClose, Enqueued
<1>12. ASSUME Dequeue PROVE Exchange!Next \/ Still
  BY <1>12, ExchangeDequeue DEF Exchange!Next
<1>13. ASSUME Reap PROVE Still
  <2> DEFINE gone == FindActive(obj[cur].id)
  <2>1. /\ queue' = queue /\ active' = active \ gone
        /\ obj' = [o \in Objs |-> IF o \in gone \cup {cur} THEN Freed(o) ELSE obj[o]]
    BY <1>13 DEF Reap, RemoveActive
  <2>2. \A o \in gone : o \in Objs /\ obj[o].ev # "http"
    <3>1. cur \in Objs /\ Live(cur) /\ obj[cur].ev = "close"
      BY <1>0, <1>13 DEF Reap, RInv, TypeOK
    <3>2. PICK a \in Objs : obj[a].ev = "ready" /\ obj[a].id = obj[cur].id
      BY <1>0, <3>1 DEF ObjectInv
    <3>3. \A o \in gone : o \in Objs /\ o = a
      BY <1>0, <3>2 DEF FindActive, TypeOK, QueueInv, ObjectInv
    <3> QED BY <3>2, <3>3
  <2> HIDE DEF gone
  <2>3. \A p \in Objs : obj'[p].ev = obj[p].ev /\ obj'[p].answer = obj[p].answer
    BY <1>0, <2>1 DEF Freed, TypeOK, RequestType
  <2>4. \A a : Given(a)' = Given(a)
    BY <2>3, GivenSame
  <2>5. gone \cap Given("none") = {}
    BY <2>2 DEF Given
  <2>6. active' \cap Given("none")' = active \cap Given("none")
    BY <2>1, <2>4, <2>5
  <2> QED BY <2>1, <2>4, <2>6, ExchangeStill
<1>14. ASSUME Respond PROVE Exchange!Next
  BY <1>14, ExchangeRespond DEF Exchange!Next
<1>15. ASSUME StopServer PROVE Exchange!Next
  BY <1>15, ExchangeStop DEF Exchange!Next
<1> HIDE DEF Still
<1>16. Exchange!Next \/ Still
  <2>1. ASSUME NEW w \in Workers, HttpStep(w) PROVE Exchange!Next \/ Still
    BY <1>1, <1>2, <1>3, <1>4, <1>5, <2>1 DEF HttpStep, Refuse, Wake
  <2>2. ASSUME NEW w \in Workers, WsStep(w) PROVE Exchange!Next \/ Still
    BY <1>6, <1>7, <1>9, <1>10, <1>11, <2>2 DEF WsStep
  <2> QED
    BY <1>1, <1>12, <1>13, <1>14, <1>15, <2>1, <2>2
    DEF Next, vars, LoopStep, StopStep, Accept, WsFrame, StartServer, StartFails,
        RegisterHandlers, EnterLoop, LeaveLoop, Abandon, EventDone, FindRequest,
        UnknownRequest, WsSendCheck, WsSendWrite, SetStopFlag, JoinWorkers, UseFreed
<1> QED BY <1>16 DEF Still

\* The bridge implements RequestExchange: a FIFO hands every request to R at most once, R
\* answers what it was handed, a stop refuses the rest.
THEOREM BridgeIsExchange == Spec => ImplementsExchange
  BY ExchangeInit, ExchangeStep, Inductive, PTL DEF Spec, ImplementsExchange, Exchange!Spec
=============================================================================
