-------------------------- MODULE WorkerPoolProofs ---------------------------
(***************************************************************************)
(* Proofs about WorkerPool: its types and the indexes of the ring, the     *)
(* count of idle workers, and that no socket is stranded.  The difficulty  *)
(* is the count: idle is one number, what it counts is a set that actions  *)
(* enlarge or shrink by one.                                               *)
(***************************************************************************)
EXTENDS WorkerPool, FiniteSetTheorems, TLAPS

LEMMA FiniteWorkers == IsFiniteSet(Workers)
<1>1. 0 \in Int /\ MaxWorkers - 1 \in Int  BY SizeAssumption
<1> QED  BY <1>1, FS_Interval DEF Workers

LEMMA IdlersFinite == IsFiniteSet(Idlers) /\ Cardinality(Idlers) \in Nat
<1>1. Idlers \subseteq Workers  BY DEF Idlers
<1> QED  BY <1>1, FiniteWorkers, FS_Subset, FS_CardinalityType

\* A worker that goes idle is one more.
LEMMA Joins ==
  ASSUME TypeOK, NEW w \in Workers, wpc[w] \notin InConsume,
         NEW p \in InConsume, wpc' = [wpc EXCEPT ![w] = p]
  PROVE  Cardinality(Idlers)' = Cardinality(Idlers) + 1
<1>1. Idlers' = Idlers \cup {w}  BY DEF Idlers, TypeOK
<1>2. w \notin Idlers  BY DEF Idlers
<1> QED  BY <1>1, <1>2, IdlersFinite, FS_AddElement

\* A worker that was idle and no longer is, is one less.
LEMMA Leaves ==
  ASSUME TypeOK, NEW w \in Workers, wpc[w] \in InConsume,
         NEW p, p \notin InConsume, wpc' = [wpc EXCEPT ![w] = p]
  PROVE  Cardinality(Idlers)' = Cardinality(Idlers) - 1 /\ Cardinality(Idlers) >= 1
<1>1. Idlers' = Idlers \ {w}  BY DEF Idlers, TypeOK
<1>2. w \in Idlers  BY DEF Idlers
<1>3. Cardinality(Idlers \ {w}) = Cardinality(Idlers) - 1
  BY <1>2, IdlersFinite, FS_RemoveElement
<1>4. Cardinality(Idlers \ {w}) \in Nat
  BY IdlersFinite, FS_RemoveElement, FS_CardinalityType
<1> QED  BY <1>1, <1>3, <1>4, IdlersFinite

\* Nothing changes for the count while nobody joins or leaves.
LEMMA Stays ==
  ASSUME \A w \in Workers : (wpc[w] \in InConsume) <=> (wpc'[w] \in InConsume)
  PROVE  Cardinality(Idlers)' = Cardinality(Idlers)
<1>1. Idlers' = Idlers  BY DEF Idlers
<1> QED  BY <1>1

-----------------------------------------------------------------------------

LEMMA IInvInit == Init => IInv
<1> SUFFICES ASSUME Init PROVE IInv  OBVIOUS
<1>1. TypeOK
  BY SizeAssumption, PrespawnAssumption
     DEF Init, TypeOK, Slots, Fill, InConsume, Workers
<1>2. Idlers = {}  BY DEF Init, Idlers, InConsume
<1>3. Cardinality(Idlers) = 0  BY <1>2, FS_EmptySet
<1> QED
  BY <1>1, <1>3, PrespawnAssumption, SizeAssumption
     DEF Init, IInv, IdleCountIsExact, Reserved, Covered, Fill, Workers

\* The arithmetic of a socket that is queued, and of one that is taken.
LEMMA OneMore ==
  ASSUME NEW i \in Nat, NEW f \in Nat, NEW g \in Nat, g \in {f, f + 1}, i >= f
  PROVE  i + 1 >= g
<1> QED  OBVIOUS

LEMMA RingGrows ==
  ASSUME NEW h \in Nat, NEW t \in 0..SqSize, h - t \in 0..SqSize,
         NEW h2 \in {h, h + 1}, h2 - t \in 0..SqSize
  PROVE  /\ h2 \in Nat /\ h - t \in Nat /\ h2 - t \in Nat
         /\ h2 - t \in {h - t, h - t + 1}
<1> QED  BY SizeAssumption

LEMMA OneLess ==
  ASSUME NEW i \in Nat, NEW j \in Nat, NEW f \in Nat, NEW g \in Nat, i + 1 >= f,
         (g = f /\ f = 0) \/ (g = f - 1 /\ j >= i - 1)
  PROVE  j + 1 >= g
<1> QED  OBVIOUS

\* One lemma per group of actions: those of the master, of the workers, of the
\* thread that starts and stops the server.

LEMMA MasterStepKeeps == IInv /\ MasterStep => IInv'
<1> SUFFICES ASSUME IInv, MasterStep PROVE IInv'  OBVIOUS
<1> USE SizeAssumption, PrespawnAssumption DEF IInv, TypeOK, queueVars, masterVars
<1>0. Cardinality(Idlers) \in Nat  BY IdlersFinite
<1>1. CASE SpawnNot
  <2>1. Cardinality(Idlers)' = Cardinality(Idlers)  BY <1>1, Stays DEF SpawnNot
  <2> QED  BY <1>0, <1>1, <2>1
      DEF SpawnNot, Starting, EnoughIdle, IdleCountIsExact, Reserved, Covered, Fill, Workers
<1>2. CASE SpawnReserve
  <2>1. Cardinality(Idlers)' = Cardinality(Idlers)  BY <1>2, Stays DEF SpawnReserve
  <2> QED  BY <1>0, <1>2, <2>1
      DEF SpawnReserve, Starting, EnoughIdle, IdleCountIsExact, Reserved, Covered, Fill, Workers
<1>3. CASE SpawnDone
  <2>1. spawned \in Workers  BY <1>3 DEF SpawnDone, Workers
  <2>6. wpc[spawned] = "none"  BY <2>1
  <2>7. "start" \in InConsume /\ "none" \notin InConsume  BY DEF InConsume
  <2>2. Cardinality(Idlers)' = Cardinality(Idlers) + 1
    BY <1>3, <2>1, <2>6, <2>7, Joins DEF SpawnDone
  <2>3. mpc' \in {"spawn", "off", "poll"} /\ (mpc' = "spawn" => Starting)
    BY <1>3 DEF SpawnDone, AfterSpawn
  <2>4. Starting => mpc' \in {"off", "spawn"} /\ (mpc' = "spawn" => spawned' < Prespawn)
    BY <1>3 DEF SpawnDone, AfterSpawn
  <2>5. TypeOK'
    BY <1>3, <2>1, <2>3 DEF SpawnDone, InConsume, Fill, Workers
  <2> QED  BY <1>0, <1>3, <2>1, <2>2, <2>3, <2>4, <2>5
      DEF SpawnDone, Starting, IdleCountIsExact, Reserved, Covered, Fill, Workers
<1>4. CASE SpawnFails
  <2>1. Cardinality(Idlers)' = Cardinality(Idlers)  BY <1>4, Stays DEF SpawnFails
  <2> QED  BY <1>0, <1>4, <2>1
      DEF SpawnFails, Starting, IdleCountIsExact, Reserved, Covered, Fill, Workers
<1>5. CASE ProduceWaits
  <2>1. Cardinality(Idlers)' = Cardinality(Idlers)  BY <1>5, Stays DEF ProduceWaits
  <2> QED  BY <1>0, <1>5, <2>1
      DEF ProduceWaits, IdleCountIsExact, Reserved, Covered, Fill, Workers
<1>6. CASE Produce
  <2>1. /\ wpc' \in [Workers -> {"none", "enter", "leave", "serve", "ended"} \cup InConsume]
        /\ \A w \in Workers : (wpc[w] \in InConsume) <=> (wpc'[w] \in InConsume)
        /\ \A w \in Workers : wpc[w] = "none" => wpc'[w] = "none"
    <3>1. CASE UNCHANGED wpc  BY <3>1
    <3>2. CASE \E w \in Workers : wpc[w] = "wait" /\ wpc' = [wpc EXCEPT ![w] = "woken"]
      BY <3>2 DEF InConsume
    <3> QED  BY <1>6, <3>1, <3>2 DEF Produce, SignalFull
  <2>2. Cardinality(Idlers)' = Cardinality(Idlers)  BY <2>1, Stays
  <2>3. sq_head % SqSize \in Slots  BY DEF Slots, Fill
  <2>4. /\ squeue' \in [Slots -> Conns \cup {NoConn}]
        /\ sq_tail' = sq_tail
        /\ sq_head' \in {sq_head, sq_head + 1} /\ sq_head' - sq_tail \in 0..SqSize
    <3>1. CASE Fill < SqSize
      BY <1>6, <2>3, <3>1 DEF Produce, Fill
    <3>2. CASE ~(Fill < SqSize)
      BY <1>6, <3>2 DEF Produce, Fill
    <3> QED  BY <3>1, <3>2
  <2>7. /\ sq_head' \in Nat /\ Fill \in Nat /\ Fill' \in Nat /\ Fill' \in {Fill, Fill + 1}
        /\ sq_tail' \in 0..SqSize /\ Fill' \in 0..SqSize
    <3> HIDE DEF IInv, TypeOK
    <3>1. sq_head \in Nat /\ sq_tail \in 0..SqSize /\ sq_head - sq_tail \in 0..SqSize
      BY DEF IInv, TypeOK, Fill
    <3> QED  BY <2>4, <3>1, RingGrows DEF Fill
  <2>5. TypeOK'
    <3>1. sq_head' \in Nat /\ sq_tail' \in 0..SqSize /\ Fill' \in 0..SqSize
      BY <2>7
    <3>2. /\ accepted' = NoConn /\ mpc' = "spawn"
          /\ UNCHANGED <<stop_flag, spawned, idle, client, main, open>>
      BY <1>6 DEF Produce
    <3> QED  BY <2>1, <2>4, <3>1, <3>2
  <2>6. /\ mpc = "produce" /\ mpc' = "spawn"
        /\ UNCHANGED <<idle, spawned, main>>
    BY <1>6 DEF Produce
  <2>8. idle >= Fill => idle' + 1 >= Fill'
    <3> HIDE DEF IInv, Fill
    <3>1. idle \in Nat  BY DEF IInv
    <3> QED  BY <2>6, <2>7, <3>1, OneMore
  <2>9. ~ThreadsMayFail => idle' + 1 >= Fill' \/ spawned' = MaxWorkers
    BY <2>6, <2>8 DEF Covered
  <2>10. main # "prespawn"  BY <2>6
  <2>11. Reserved = 0 /\ Reserved' = 0  BY <2>6 DEF Reserved
  <2>12. /\ idle' >= Cardinality(Idlers)' + Reserved'
         /\ ~AllocMayFail => IdleCountIsExact'
    BY <2>2, <2>6, <2>11 DEF IdleCountIsExact
  <2>13. \A w \in Workers : w >= spawned' => wpc'[w] = "none"  BY <2>1, <2>6
  <2> HIDE DEF TypeOK
  <2> QED  BY <2>5, <2>6, <2>9, <2>10, <2>12, <2>13
<1>7. CASE EndAccepting
  <2>1. Cardinality(Idlers)' = Cardinality(Idlers)  BY <1>7, Stays DEF EndAccepting
  <2> QED  BY <1>0, <1>7, <2>1 DEF EndAccepting, IdleCountIsExact, Reserved, Covered, Fill
<1>8. CASE WakeWorkers
  <2>1. /\ wpc' \in [Workers -> {"none", "enter", "leave", "serve", "ended"} \cup InConsume]
        /\ \A w \in Workers : (wpc[w] \in InConsume) <=> (wpc'[w] \in InConsume)
        /\ \A w \in Workers : wpc[w] = "none" => wpc'[w] = "none"
    BY <1>8 DEF WakeWorkers, WakeAll, InConsume
  <2>2. Cardinality(Idlers)' = Cardinality(Idlers)  BY <2>1, Stays
  <2>3. TypeOK'  BY <1>8, <2>1 DEF WakeWorkers, Fill
  <2> QED  BY <1>0, <1>8, <2>1, <2>2, <2>3
      DEF WakeWorkers, IdleCountIsExact, Reserved, Covered, Fill
<1>9. CASE JoinWorkers
  <2>1. Cardinality(Idlers)' = Cardinality(Idlers)  BY <1>9, Stays DEF JoinWorkers
  <2> QED  BY <1>0, <1>9, <2>1 DEF JoinWorkers, IdleCountIsExact, Reserved, Covered, Fill
<1> QED  BY <1>1, <1>2, <1>3, <1>4, <1>5, <1>6, <1>7, <1>8, <1>9 DEF MasterStep

\* A worker that takes a socket keeps the indexes within the ring.
LEMMA TakeKeepsRing ==
  ASSUME TypeOK, NEW w \in Workers, sq_head > sq_tail, Take(w)
  PROVE  /\ sq_tail' \in 0..SqSize /\ sq_head' \in Nat /\ Fill' = Fill - 1 /\ Fill' \in 0..SqSize
         /\ squeue' = squeue /\ client' \in [Workers -> Conns \cup {NoConn}]
<1> USE SizeAssumption DEF TypeOK, Fill
<1>1. sq_tail % SqSize \in Slots  BY DEF Slots
<1>2. client' \in [Workers -> Conns \cup {NoConn}]  BY <1>1 DEF Take
<1>3. CASE sq_tail + 1 > SqSize
  BY <1>2, <1>3 DEF Take, HeadAfterTake, Wrap
<1>4. CASE ~(sq_tail + 1 > SqSize)
  BY <1>2, <1>4 DEF Take, HeadAfterTake, Wrap
<1> QED  BY <1>3, <1>4

LEMMA ConsumeKeeps ==
  ASSUME IInv, NEW w \in Workers, Consume(w)
  PROVE  IInv'
<1> USE SizeAssumption, PrespawnAssumption DEF IInv, TypeOK, queueVars
<1>0. Cardinality(Idlers) \in Nat  BY IdlersFinite
<1>1. /\ sq_tail' \in 0..SqSize /\ sq_head' \in Nat /\ Fill' \in 0..SqSize
      /\ Fill' = Fill \/ Fill' = Fill - 1
      /\ stop_flag = 0 => Fill' = Fill - 1
      /\ Fill' = Fill => Fill = 0
      /\ squeue' = squeue /\ client' \in [Workers -> Conns \cup {NoConn}]
  <2>1. CASE sq_head > sq_tail
    BY <2>1, TakeKeepsRing DEF Consume, TakeIfAny, Fill
  <2>2. CASE ~(sq_head > sq_tail)
    BY <2>2 DEF Consume, TakeIfAny, Fill
  <2> QED  BY <2>1, <2>2
<1>2. mpc' \in {mpc, "produce"} /\ (mpc' # mpc => mpc = "full")
  BY DEF Consume, SignalEmpty
<1>3. wpc' = [wpc EXCEPT ![w] = "leave"] /\ UNCHANGED <<stop_flag, spawned, accepted, main, open>>
  BY DEF Consume
<1>4. Reserved' = Reserved /\ Reserved \in {0, 1}  BY <1>2 DEF Reserved
<1>5. /\ idle' \in Nat
      /\ idle' >= Cardinality(Idlers)' + Reserved'
      /\ idle' >= idle - 1
      /\ ~AllocMayFail => IdleCountIsExact'
  <2>1. CASE wpc[w] = "enter"
    <3>1. Cardinality(Idlers)' = Cardinality(Idlers)
      BY <2>1, <1>3, Stays DEF InConsume
    <3>2. idle' = idle  BY <2>1 DEF Consume, Counted
    <3> QED  BY <1>0, <1>4, <3>1, <3>2 DEF IdleCountIsExact
  <2>2. CASE wpc[w] \in InConsume
    <3>1. Cardinality(Idlers)' = Cardinality(Idlers) - 1 /\ Cardinality(Idlers) >= 1
      BY <2>2, <1>3, Leaves DEF InConsume
    <3>2. idle' = idle - 1  BY <2>2 DEF Consume, Counted, InConsume
    <3> QED  BY <1>0, <1>4, <3>1, <3>2 DEF IdleCountIsExact
  <2> QED  BY <2>1, <2>2 DEF Consume, AtConsume, InConsume
<1>6. wpc' \in [Workers -> {"none", "enter", "leave", "serve", "ended"} \cup InConsume]
      /\ \A v \in Workers : wpc[v] = "none" => wpc'[v] = "none"
  BY <1>3 DEF Consume, AtConsume
<1>7. TypeOK'  BY <1>1, <1>2, <1>3, <1>5, <1>6
<1>8. main = "prespawn" => Fill' = 0  BY <1>1
<1>9. Covered => Covered'  BY <1>1, <1>3, <1>5, <1>7 DEF Covered
<1>10. idle + 1 >= Fill \/ spawned = MaxWorkers => idle' + 1 >= Fill' \/ spawned' = MaxWorkers
  <2> HIDE DEF IInv
  <2>1. idle \in Nat /\ Fill \in Nat  BY DEF IInv
  <2>2. idle' \in Nat /\ Fill' \in Nat  BY <1>1, <1>5
  <2>3. (Fill' = Fill /\ Fill = 0) \/ (Fill' = Fill - 1 /\ idle' >= idle - 1)
    BY <1>1, <1>5
  <2>4. spawned' = spawned  BY <1>3
  <2> QED  BY <2>1, <2>2, <2>3, <2>4, OneLess
<1> QED  BY <1>2, <1>3, <1>5, <1>6, <1>7, <1>8, <1>9, <1>10

LEMMA WorkerStepKeeps ==
  ASSUME IInv, NEW w \in Workers,
         ConsumeWaits(w) \/ LeaveConsume(w) \/ WorkerFails(w) \/ CloseConnection(w)
           \/ SpuriousWakeup(w)
  PROVE  IInv'
<1> USE SizeAssumption, PrespawnAssumption DEF IInv, TypeOK, queueVars, masterVars
<1>0. Cardinality(Idlers) \in Nat  BY IdlersFinite
<1>1. CASE ConsumeWaits(w)
  <2>1. wpc' = [wpc EXCEPT ![w] = "wait"] /\ wpc[w] # "none"
    BY <1>1 DEF ConsumeWaits, AtConsume
  <2>2. CASE wpc[w] = "enter"
    <3>1. Cardinality(Idlers)' = Cardinality(Idlers) + 1
      BY <2>1, <2>2, Joins DEF InConsume
    <3> QED  BY <1>0, <1>1, <2>1, <2>2, <3>1
        DEF ConsumeWaits, Counted, IdleCountIsExact, Reserved, Covered, Fill, InConsume
  <2>3. CASE wpc[w] \in InConsume
    <3>1. Cardinality(Idlers)' = Cardinality(Idlers)
      BY <2>1, <2>3, Stays DEF InConsume
    <3> QED  BY <1>0, <1>1, <2>1, <2>3, <3>1
        DEF ConsumeWaits, Counted, IdleCountIsExact, Reserved, Covered, Fill, InConsume
  <2> QED  BY <1>1, <2>2, <2>3 DEF ConsumeWaits, AtConsume, InConsume
<1>2. CASE LeaveConsume(w)
  <2>1. \E p \in {"serve", "ended"} : wpc' = [wpc EXCEPT ![w] = p]
    BY <1>2 DEF LeaveConsume
  <2>2. Cardinality(Idlers)' = Cardinality(Idlers)
    BY <1>2, <2>1, Stays DEF LeaveConsume, InConsume
  <2> QED  BY <1>0, <1>2, <2>1, <2>2
      DEF LeaveConsume, IdleCountIsExact, Reserved, Covered, Fill
<1>3. CASE WorkerFails(w)
  <2>1. Cardinality(Idlers)' = Cardinality(Idlers) - 1 /\ Cardinality(Idlers) >= 1
    BY <1>3, Leaves DEF WorkerFails, InConsume
  <2> QED  BY <1>0, <1>3, <2>1
      DEF WorkerFails, Reserved, Covered, Fill, InConsume
<1>4. CASE CloseConnection(w)
  <2>1. Cardinality(Idlers)' = Cardinality(Idlers)
    BY <1>4, Stays DEF CloseConnection, InConsume
  <2> QED  BY <1>0, <1>4, <2>1
      DEF CloseConnection, IdleCountIsExact, Reserved, Covered, Fill
<1>5. CASE SpuriousWakeup(w)
  <2>1. Cardinality(Idlers)' = Cardinality(Idlers)
    BY <1>5, Stays DEF SpuriousWakeup, InConsume
  <2> QED  BY <1>0, <1>5, <2>1
      DEF SpuriousWakeup, IdleCountIsExact, Reserved, Covered, Fill, InConsume
<1> QED  BY <1>1, <1>2, <1>3, <1>4, <1>5

LEMMA MainStepKeeps ==
  IInv /\ (StartMaster \/ Stop \/ FreeContext \/ ProduceSpurious \/ \E c \in Conns : Accept(c))
    => IInv'
<1> SUFFICES ASSUME IInv,
                    StartMaster \/ Stop \/ FreeContext \/ ProduceSpurious
                      \/ \E c \in Conns : Accept(c)
             PROVE  IInv'
  OBVIOUS
<1> USE SizeAssumption, PrespawnAssumption DEF IInv, TypeOK, queueVars, masterVars
<1>0. Cardinality(Idlers) \in Nat  BY IdlersFinite
<1>1. UNCHANGED <<wpc, idle, spawned, queueVars>>
  BY DEF StartMaster, Stop, FreeContext, ProduceSpurious, Accept
<1>2. Cardinality(Idlers)' = Cardinality(Idlers)  BY <1>1, Stays
<1>3. CASE StartMaster
  BY <1>0, <1>2, <1>3 DEF StartMaster, Starting, IdleCountIsExact, Reserved, Covered, Fill
<1>4. CASE Stop
  BY <1>0, <1>2, <1>4 DEF Stop, IdleCountIsExact, Reserved, Covered, Fill
<1>5. CASE FreeContext
  BY <1>0, <1>2, <1>5 DEF FreeContext, IdleCountIsExact, Reserved, Covered, Fill
<1>6. CASE ProduceSpurious
  BY <1>0, <1>2, <1>6 DEF ProduceSpurious, IdleCountIsExact, Reserved, Covered, Fill
<1>7. CASE \E c \in Conns : Accept(c)
  BY <1>0, <1>2, <1>7 DEF Accept, IdleCountIsExact, Reserved, Covered, Fill
<1> QED  BY <1>3, <1>4, <1>5, <1>6, <1>7

\* Every step of every thread keeps the invariant, and so does a step of none.
LEMMA IInvStep == IInv /\ [Next]_vars => IInv'
<1> SUFFICES ASSUME IInv, [Next]_vars PROVE IInv'  OBVIOUS
<1>1. CASE UNCHANGED vars
  <2>1. Cardinality(Idlers)' = Cardinality(Idlers)
    BY <1>1, Stays DEF vars
  <2> QED  BY <1>1, <2>1
      DEF vars, queueVars, masterVars, IInv, TypeOK, IdleCountIsExact, Reserved, Covered, Fill
<1>2. CASE Next
  BY <1>2, MasterStepKeeps, MainStepKeeps, WorkerStepKeeps, ConsumeKeeps DEF Next, WorkerStep
<1> QED  BY <1>1, <1>2

\* The inductive invariant holds in every behaviour of the pool, whatever fails.
THEOREM PoolInductive == Spec => []IInv
<1> QED  BY IInvInit, IInvStep, PTL DEF Spec

\* Every variable has its type: in particular the indexes of the ring never leave
\* it, and the unsigned count of idle workers never goes below zero.
THEOREM PoolTypeCorrect == Spec => []TypeOK
<1>1. IInv => TypeOK  BY DEF IInv
<1> QED  BY <1>1, PoolInductive, PTL

\* While no worker dies at its start, the count of idle workers is exact.
THEOREM IdleCorrect == ~AllocMayFail => (Spec => []IdleCountIsExact)
<1>1. ~AllocMayFail /\ IInv => IdleCountIsExact  BY DEF IInv
<1>2. CASE ~AllocMayFail
  <2>1. IInv => IdleCountIsExact  BY <1>1, <1>2
  <2>2. Spec => []IdleCountIsExact  BY <2>1, PoolInductive, PTL
  <2> QED  BY <2>2
<1> QED  BY <1>2

\* While threads can be created, the master never goes back to accepting with a
\* socket for which there is neither an idle worker nor a reason.
THEOREM NobodyStranded == ~ThreadsMayFail => (Spec => []NoStrandedSocket)
<1>1. ~ThreadsMayFail /\ IInv => NoStrandedSocket
  BY DEF IInv, Covered, NoStrandedSocket
<1>2. CASE ~ThreadsMayFail
  <2>1. IInv => NoStrandedSocket  BY <1>1, <1>2
  <2>2. Spec => []NoStrandedSocket  BY <2>1, PoolInductive, PTL
  <2> QED  BY <2>2
<1> QED  BY <1>2

-----------------------------------------------------------------------------
(* The sockets: each has one holder, and the ring is a queue.  What makes  *)
(* these proofs differ from those above is the ring: its indexes are       *)
(* reduced now and then, and used modulo its size, so the lemmas about     *)
(* Place come first.                                                       *)

LEMMA ModSmall == ASSUME NEW x \in 0..(SqSize - 1) PROVE x % SqSize = x
  BY SizeAssumption, SMTT(30)

LEMMA ModLarge == ASSUME NEW x \in SqSize..(2 * SqSize - 1) PROVE x % SqSize = x - SqSize
  BY SizeAssumption, SMTT(30)

\* Where the j-th socket of the queue is in the ring.
Place(j) == (sq_tail + j - 1) % SqSize

\* The places of the queue, and the one behind it while there is room, are distinct.
LEMMA PlacesDiffer ==
  ASSUME TypeOK, NEW j \in 1..SqSize, NEW k \in 1..SqSize, Place(j) = Place(k)
  PROVE  j = k
<1> DEFINE a == sq_tail + j - 1
           b == sq_tail + k - 1
<1>1. SqSize \in Nat \ {0} /\ sq_tail \in 0..SqSize  BY SizeAssumption DEF TypeOK
<1>2. a \in 0..(2 * SqSize - 1) /\ b \in 0..(2 * SqSize - 1) /\ a - b = j - k  BY <1>1
<1>3. a % SqSize = b % SqSize  BY DEF Place
<1>4. a % SqSize = IF a < SqSize THEN a ELSE a - SqSize  BY <1>1, <1>2, ModSmall, ModLarge
<1>5. b % SqSize = IF b < SqSize THEN b ELSE b - SqSize  BY <1>1, <1>2, ModSmall, ModLarge
<1> HIDE DEF a, b
<1>6. j - k \in -(SqSize - 1)..(SqSize - 1)  BY <1>1
<1> QED  BY <1>1, <1>2, <1>3, <1>4, <1>5, <1>6

LEMMA PlaceInRing == ASSUME TypeOK, NEW j \in 1..SqSize PROVE Place(j) \in Slots
  BY SizeAssumption DEF TypeOK, Place, Slots

-----------------------------------------------------------------------------
(* What taking and adding a socket do to the queue, also where the indexes *)
(* are reduced.                                                            *)

LEMMA TakeMoves ==
  ASSUME TypeOK, NEW w \in Workers, sq_head > sq_tail, Take(w)
  PROVE  /\ Fill \in 1..SqSize /\ Fill' = Fill - 1
         /\ squeue' = squeue /\ client' = [client EXCEPT ![w] = squeue[Place(1)]]
         /\ \A j \in 1..(Fill - 1) : Place(j)' = Place(j + 1)
<1> USE SizeAssumption DEF TypeOK, Fill
<1>1. squeue' = squeue /\ client' = [client EXCEPT ![w] = squeue[Place(1)]]
  <2>1. sq_tail + 1 - 1 = sq_tail  OBVIOUS
  <2> QED  BY <2>1 DEF Take, Place
<1>2. Fill' = Fill - 1 /\ Fill \in 1..SqSize  BY TakeKeepsRing
<1>3. ASSUME NEW j \in 1..(Fill - 1) PROVE Place(j)' = Place(j + 1)
  <2>1. CASE sq_tail + 1 > SqSize
    <3>1. sq_tail = SqSize /\ sq_tail' = 1  BY <2>1 DEF Take, Wrap
    <3>2. Place(j)' = j % SqSize
      <4>1. sq_tail' + j - 1 = j  BY <3>1
      <4> QED  BY <4>1 DEF Place
    <3>3. Place(j + 1) = (SqSize + j) % SqSize
      <4>1. sq_tail + (j + 1) - 1 = SqSize + j  BY <3>1
      <4> QED  BY <4>1 DEF Place
    <3>4. j \in 0..(SqSize - 1) /\ SqSize + j \in SqSize..(2 * SqSize - 1)  BY <1>2
    <3>5. j % SqSize = j  BY <3>4, ModSmall
    <3>6. (SqSize + j) % SqSize = j  BY <3>4, ModLarge
    <3> QED  BY <3>2, <3>3, <3>5, <3>6
  <2>2. CASE ~(sq_tail + 1 > SqSize)
    <3>1. sq_tail' = sq_tail + 1  BY <2>2 DEF Take, Wrap
    <3>2. sq_tail' + j - 1 = sq_tail + (j + 1) - 1  BY <3>1
    <3> QED  BY <3>2 DEF Place
  <2> QED  BY <2>1, <2>2
<1> QED  BY <1>1, <1>2, <1>3

LEMMA ProduceAdds ==
  ASSUME TypeOK, Produce, Fill < SqSize
  PROVE  /\ Fill \in 0..(SqSize - 1) /\ Fill' = Fill + 1
         /\ squeue' = [squeue EXCEPT ![Place(Fill + 1)] = accepted]
         /\ \A j \in 1..SqSize : Place(j)' = Place(j)
<1> USE SizeAssumption DEF TypeOK, Fill
<1>1. sq_head' = sq_head + 1 /\ sq_tail' = sq_tail
      /\ squeue' = [squeue EXCEPT ![sq_head % SqSize] = accepted]
  BY DEF Produce
<1>2. sq_tail + (Fill + 1) - 1 = sq_head  OBVIOUS
<1>3. Place(Fill + 1) = sq_head % SqSize  BY <1>2 DEF Place
<1> QED  BY <1>1, <1>3 DEF Place

-----------------------------------------------------------------------------
(* The inductive invariant: what is in the queue, in the hands of the      *)
(* master and in those of a worker is open and not the same, and who may   *)
(* hold a socket is known by where he is.                                  *)

QueueHolds ==
  /\ \A j \in 1..Fill : squeue[Place(j)] \in open
  /\ \A j, k \in 1..Fill : squeue[Place(j)] = squeue[Place(k)] => j = k

MasterHolds ==
  /\ accepted # NoConn <=> mpc \in {"produce", "full"}
  /\ accepted # NoConn => accepted \in open /\ \A j \in 1..Fill : squeue[Place(j)] # accepted

WorkersHold ==
  \A w \in Workers : client[w] # NoConn =>
    /\ client[w] \in open /\ wpc[w] \in {"leave", "serve", "ended"}
    /\ \A v \in Workers : client[v] = client[w] => v = w
    /\ \A j \in 1..Fill : squeue[Place(j)] # client[w]
    /\ accepted # client[w]

OpenIsHeld ==
  stop_flag = 0 => \A c \in open :
    accepted = c \/ (\E w \in Workers : client[w] = c) \/ (\E j \in 1..Fill : squeue[Place(j)] = c)

HolderInv == IInv /\ QueueHolds /\ MasterHolds /\ WorkersHold /\ OpenIsHeld

LEMMA HolderInit == Init => HolderInv
<1> SUFFICES ASSUME Init PROVE HolderInv  OBVIOUS
<1>1. IInv  BY IInvInit
<1>2. Fill = 0 /\ 1..Fill = {}  BY DEF Init, Fill
<1> QED  BY <1>1, <1>2 DEF Init, HolderInv, QueueHolds, MasterHolds, WorkersHold, OpenIsHeld

\* A step that leaves the queue, the sockets and their holders alone.
LEMMA HolderFrame ==
  ASSUME HolderInv, IInv', UNCHANGED <<queueVars, accepted, client, open>>,
         stop_flag # 0 => stop_flag' # 0,
         mpc \in {"produce", "full"} <=> mpc' \in {"produce", "full"},
         \A w \in Workers : wpc[w] \in {"leave", "serve", "ended"} => wpc'[w] \in {"leave", "serve", "ended"}
  PROVE  HolderInv'
<1>1. Fill' = Fill /\ \A j \in 1..Fill : Place(j)' = Place(j)  BY DEF queueVars, Fill, Place
<1>2. QueueHolds'  BY <1>1 DEF queueVars, HolderInv, QueueHolds
<1>3. MasterHolds'  BY <1>1 DEF queueVars, HolderInv, MasterHolds
<1>4. WorkersHold'  BY <1>1 DEF queueVars, HolderInv, WorkersHold
<1>5. OpenIsHeld'  BY <1>1 DEF queueVars, HolderInv, OpenIsHeld
<1> QED  BY <1>2, <1>3, <1>4, <1>5 DEF HolderInv

LEMMA HolderAccept ==
  ASSUME HolderInv, IInv', NEW c \in Conns, Accept(c)
  PROVE  HolderInv'
<1> USE DEF HolderInv, queueVars
<1>1. Fill' = Fill /\ \A j \in 1..Fill : Place(j)' = Place(j)  BY DEF Accept, Fill, Place
<1>2. accepted = NoConn /\ c \notin open /\ open' = open \cup {c} /\ accepted' = c /\ mpc' = "produce"
      /\ UNCHANGED <<squeue, client, wpc, stop_flag>>
  BY DEF Accept, MasterHolds
<1>3. c # NoConn  BY ConnAssumption
<1>4. QueueHolds'  BY <1>1, <1>2 DEF QueueHolds
<1>5. MasterHolds'  BY <1>1, <1>2, <1>3 DEF MasterHolds, QueueHolds
<1>6. WorkersHold'  BY <1>1, <1>2 DEF WorkersHold
<1>7. OpenIsHeld'
  <2> SUFFICES ASSUME stop_flag = 0, NEW d \in open, d # c
               PROVE  (\E w \in Workers : client[w] = d) \/ (\E j \in 1..Fill : squeue[Place(j)] = d)
    BY <1>1, <1>2 DEF OpenIsHeld
  <2> QED  BY <1>2, ConnAssumption DEF OpenIsHeld, IInv, TypeOK
<1> QED  BY <1>4, <1>5, <1>6, <1>7

LEMMA HolderProduce ==
  ASSUME HolderInv, IInv', Produce
  PROVE  HolderInv'
<1> USE DEF HolderInv
<1>0. TypeOK /\ mpc = "produce" /\ accepted' = NoConn /\ mpc' = "spawn"
      /\ UNCHANGED <<stop_flag, client, open>>
  BY DEF Produce, IInv
<1>1. \A w \in Workers : wpc[w] \in {"leave", "serve", "ended"} => wpc'[w] \in {"leave", "serve", "ended"}
  BY <1>0 DEF Produce, SignalFull, TypeOK
<1>2. accepted # NoConn /\ accepted \in open  BY <1>0 DEF MasterHolds
<1>3. CASE Fill < SqSize
  <2>1. /\ Fill \in 0..(SqSize - 1) /\ Fill' = Fill + 1
        /\ squeue' = [squeue EXCEPT ![Place(Fill + 1)] = accepted]
        /\ \A j \in 1..SqSize : Place(j)' = Place(j)
    BY <1>0, <1>3, ProduceAdds
  <2>2. SqSize \in Nat \ {0} /\ squeue \in [Slots -> Conns \cup {NoConn}]
    BY <1>0, SizeAssumption DEF TypeOK
  <2>3. PICK n \in 1..SqSize : n = Fill + 1  BY <2>1, <2>2
  <2>4. 1..Fill' = 1..Fill \cup {n} /\ \A j \in 1..Fill : j \in 1..SqSize /\ j # n
    BY <2>1, <2>2, <2>3
  <2>5. \A j \in 1..SqSize : Place(j) \in Slots  BY <1>0, PlaceInRing
  <2>6. \A j \in 1..Fill : Place(j) # Place(n)  BY <1>0, <2>4, PlacesDiffer
  <2>7. squeue' = [squeue EXCEPT ![Place(n)] = accepted]  BY <2>1, <2>3
  <2>8. squeue'[Place(n)'] = accepted  BY <2>1, <2>2, <2>5, <2>7
  <2>9. \A j \in 1..Fill : squeue'[Place(j)'] = squeue[Place(j)]
    BY <2>1, <2>2, <2>4, <2>5, <2>6, <2>7
  <2>10. QueueHolds'
    BY <1>0, <1>2, <2>4, <2>8, <2>9 DEF QueueHolds, MasterHolds
  <2>11. MasterHolds'  BY <1>0 DEF MasterHolds
  <2>12. WorkersHold'
    BY <1>0, <1>1, <1>2, <2>4, <2>8, <2>9, ConnAssumption DEF WorkersHold
  <2>13. OpenIsHeld'
    <3> SUFFICES ASSUME stop_flag = 0, NEW c \in open
                 PROVE  (\E w \in Workers : client[w] = c) \/ (\E j \in 1..Fill' : squeue'[Place(j)'] = c)
      BY <1>0 DEF OpenIsHeld
    <3>1. CASE accepted = c  BY <2>4, <2>8, <3>1
    <3>2. CASE accepted # c  BY <2>4, <2>9, <3>2 DEF OpenIsHeld
    <3> QED  BY <3>1, <3>2
  <2> QED  BY <2>10, <2>11, <2>12, <2>13
<1>4. CASE ~(Fill < SqSize)
  <2>1. stop_flag # 0 /\ UNCHANGED queueVars  BY <1>4 DEF Produce, Fill
  <2>2. Fill' = Fill /\ squeue' = squeue /\ \A j \in 1..Fill : Place(j)' = Place(j)
    BY <2>1 DEF queueVars, Fill, Place
  <2>3. QueueHolds'  BY <1>0, <2>2 DEF QueueHolds
  <2>4. MasterHolds'  BY <1>0 DEF MasterHolds
  <2>5. WorkersHold'  BY <1>0, <1>1, <2>2 DEF WorkersHold
  <2>6. OpenIsHeld'  BY <1>0, <2>1 DEF OpenIsHeld
  <2> QED  BY <2>3, <2>4, <2>5, <2>6
<1> QED  BY <1>3, <1>4

LEMMA HolderConsume ==
  ASSUME HolderInv, IInv', NEW w \in Workers, Consume(w)
  PROVE  HolderInv'
<1> USE DEF HolderInv
<1>0. /\ TypeOK /\ client[w] = NoConn
      /\ mpc' \in {"produce", "full"} <=> mpc \in {"produce", "full"}
      /\ wpc' = [wpc EXCEPT ![w] = "leave"] /\ UNCHANGED <<stop_flag, accepted, open>>
  BY DEF Consume, AtConsume, SignalEmpty, WorkersHold, IInv
<1>1. \A v \in Workers : wpc[v] \in {"leave", "serve", "ended"} => wpc'[v] \in {"leave", "serve", "ended"}
  BY <1>0 DEF TypeOK
<1>2. CASE sq_head > sq_tail
  <2>1. /\ Fill \in 1..SqSize /\ Fill' = Fill - 1
        /\ squeue' = squeue /\ client' = [client EXCEPT ![w] = squeue[Place(1)]]
        /\ \A j \in 1..(Fill - 1) : Place(j)' = Place(j + 1)
    BY <1>0, <1>2, TakeMoves DEF Consume, TakeIfAny
  <2>2. SqSize \in Nat \ {0} /\ client \in [Workers -> Conns \cup {NoConn}]
    BY <1>0, SizeAssumption DEF TypeOK
  <2>3. PICK c : c = squeue[Place(1)]  OBVIOUS
  <2>4. client' = [client EXCEPT ![w] = c]  BY <2>1, <2>3
  <2>5. 1 \in 1..Fill /\ \A j \in 1..Fill' : j + 1 \in 1..Fill /\ j + 1 # 1  BY <2>1, <2>2
  <2>6. c \in open /\ c # NoConn /\ c # accepted
    BY <1>0, <2>3, <2>5, ConnAssumption DEF QueueHolds, MasterHolds, TypeOK
  <2>7. \A j \in 1..Fill' : squeue'[Place(j)'] = squeue[Place(j + 1)]  BY <2>1
  <2>8. \A j \in 1..Fill' : squeue[Place(j + 1)] # c  BY <2>3, <2>5 DEF QueueHolds
  <2>9. \A v \in Workers : client[v] # c  BY <2>3, <2>5, <2>6 DEF WorkersHold
  <2>10. QueueHolds'
    <3>1. \A j \in 1..Fill' : squeue'[Place(j)'] \in open'  BY <1>0, <2>5, <2>7 DEF QueueHolds
    <3>2. ASSUME NEW j \in 1..Fill', NEW k \in 1..Fill', squeue'[Place(j)'] = squeue'[Place(k)']
          PROVE  j = k
      <4>1. j + 1 = k + 1  BY <2>5, <2>7, <3>2 DEF QueueHolds
      <4> QED  BY <2>1, <2>2, <4>1
    <3> QED  BY <3>1, <3>2 DEF QueueHolds
  <2>11. MasterHolds'  BY <1>0, <2>5, <2>7 DEF MasterHolds
  <2>12. WorkersHold'
    <3>1. ASSUME NEW v \in Workers, client'[v] # NoConn, v # w
          PROVE  /\ client'[v] \in open' /\ wpc'[v] \in {"leave", "serve", "ended"}
                 /\ \A u \in Workers : client'[u] = client'[v] => u = v
                 /\ \A j \in 1..Fill' : squeue'[Place(j)'] # client'[v]
                 /\ accepted' # client'[v]
      <4>1. client'[v] = client[v]  BY <2>2, <2>4, <3>1
      <4>2. \A u \in Workers : client'[u] = IF u = w THEN c ELSE client[u]  BY <2>2, <2>4
      <4> QED  BY <1>0, <1>1, <2>5, <2>7, <2>9, <3>1, <4>1, <4>2 DEF WorkersHold
    <3>2. /\ client'[w] \in open' /\ wpc'[w] \in {"leave", "serve", "ended"}
          /\ \A u \in Workers : client'[u] = client'[w] => u = w
          /\ \A j \in 1..Fill' : squeue'[Place(j)'] # client'[w]
          /\ accepted' # client'[w]
      <4>1. client'[w] = c /\ wpc'[w] = "leave"  BY <1>0, <2>2, <2>4 DEF TypeOK
      <4>2. \A u \in Workers : client'[u] = IF u = w THEN c ELSE client[u]  BY <2>2, <2>4
      <4> QED  BY <1>0, <2>6, <2>7, <2>8, <2>9, <4>1, <4>2
    <3> QED  BY <3>1, <3>2 DEF WorkersHold
  <2>13. OpenIsHeld'
    <3> SUFFICES ASSUME stop_flag = 0, NEW d \in open, accepted # d
                 PROVE  (\E v \in Workers : client'[v] = d) \/ (\E j \in 1..Fill' : squeue'[Place(j)'] = d)
      BY <1>0 DEF OpenIsHeld
    <3>1. d # NoConn  BY <1>0, ConnAssumption DEF TypeOK
    <3>2. CASE \E v \in Workers : client[v] = d  BY <1>0, <2>2, <2>4, <3>1, <3>2
    <3>3. CASE d = c  BY <2>2, <2>4, <3>3
    <3>4. CASE \E k \in 1..Fill : squeue[Place(k)] = d /\ d # c
      <4>1. PICK k \in 1..Fill : squeue[Place(k)] = d /\ d # c  BY <3>4
      <4>2. k # 1  BY <2>3, <4>1
      <4>3. k - 1 \in 1..Fill' /\ (k - 1) + 1 = k  BY <2>1, <2>2, <4>2
      <4>4. PICK i \in 1..Fill' : i + 1 = k  BY <4>3
      <4> QED  BY <2>7, <4>1, <4>4
    <3> QED  BY <3>2, <3>3, <3>4 DEF OpenIsHeld
  <2> QED  BY <2>10, <2>11, <2>12, <2>13
<1>3. CASE ~(sq_head > sq_tail)
  <2>1. UNCHANGED <<queueVars, client>>  BY <1>3 DEF Consume, TakeIfAny
  <2> QED  BY <1>0, <1>1, <2>1, HolderFrame
<1> QED  BY <1>2, <1>3

LEMMA HolderClose ==
  ASSUME HolderInv, IInv', NEW w \in Workers, CloseConnection(w)
  PROVE  HolderInv'
<1> USE DEF HolderInv
<1>0. /\ TypeOK /\ open' = open \ {client[w]} /\ client' = [client EXCEPT ![w] = NoConn]
      /\ wpc' = [wpc EXCEPT ![w] = "enter"]
      /\ UNCHANGED <<squeue, sq_head, sq_tail, mpc, accepted, stop_flag>>
  BY DEF CloseConnection, queueVars, masterVars, IInv
<1>1. Fill' = Fill /\ \A j \in 1..Fill : Place(j)' = Place(j)  BY <1>0 DEF Fill, Place
<1>2. /\ \A v \in Workers \ {w} : client'[v] = client[v] /\ wpc'[v] = wpc[v]
      /\ client'[w] = NoConn
  BY <1>0 DEF TypeOK
<1>3. NoConn \notin open  BY <1>0, ConnAssumption DEF TypeOK
<1>4. QueueHolds'  BY <1>0, <1>1, <1>3 DEF QueueHolds, WorkersHold
<1>5. MasterHolds'  BY <1>0, <1>1, <1>3 DEF MasterHolds, WorkersHold
<1>6. WorkersHold'
  <2>1. ASSUME NEW v \in Workers, v # w, client[v] # NoConn PROVE client[v] \in open'
    BY <1>0, <2>1 DEF WorkersHold
  <2> QED  BY <1>0, <1>1, <1>2, <2>1 DEF WorkersHold
<1>7. OpenIsHeld'
  <2> SUFFICES ASSUME stop_flag = 0, NEW d \in open, d # client[w], accepted # d
               PROVE  (\E v \in Workers : client'[v] = d) \/ (\E j \in 1..Fill : squeue[Place(j)] = d)
    BY <1>0, <1>1 DEF OpenIsHeld
  <2> QED  BY <1>2 DEF OpenIsHeld
<1> QED  BY <1>4, <1>5, <1>6, <1>7

LEMMA HolderStep == HolderInv /\ IInv' /\ [Next]_vars => HolderInv'
<1> SUFFICES ASSUME HolderInv, IInv', [Next]_vars PROVE HolderInv'  OBVIOUS
<1> DEFINE Frame ==
      /\ UNCHANGED <<queueVars, accepted, client, open>>
      /\ stop_flag # 0 => stop_flag' # 0
      /\ mpc \in {"produce", "full"} <=> mpc' \in {"produce", "full"}
      /\ \A w \in Workers : wpc[w] \in {"leave", "serve", "ended"} => wpc'[w] \in {"leave", "serve", "ended"}
<1>0. TypeOK /\ \A w \in Workers : w >= spawned => wpc[w] = "none"  BY DEF HolderInv, IInv
<1>1. Frame => HolderInv'  BY HolderFrame
<1>2. CASE UNCHANGED vars  BY <1>1, <1>2 DEF vars, masterVars
<1>3. CASE SpawnNot \/ SpawnReserve \/ SpawnFails \/ ProduceWaits \/ EndAccepting \/ JoinWorkers
           \/ StartMaster \/ Stop \/ FreeContext \/ ProduceSpurious
  BY <1>0, <1>1, <1>3 DEF SpawnNot, SpawnReserve, SpawnFails, ProduceWaits, EndAccepting, JoinWorkers,
                          StartMaster, Stop, FreeContext, ProduceSpurious, masterVars, TypeOK
<1>4. CASE SpawnDone
  <2>1. \A w \in Workers : w = spawned => wpc[w] = "none"  BY <1>0 DEF TypeOK, Workers
  <2> QED  BY <1>0, <1>1, <1>4, <2>1 DEF SpawnDone, AfterSpawn, TypeOK
<1>5. CASE WakeWorkers
  BY <1>0, <1>1, <1>5 DEF WakeWorkers, WakeAll, TypeOK
<1>6. CASE \E w \in Workers : ConsumeWaits(w) \/ LeaveConsume(w) \/ WorkerFails(w) \/ SpuriousWakeup(w)
  BY <1>0, <1>1, <1>6
     DEF ConsumeWaits, AtConsume, LeaveConsume, WorkerFails, SpuriousWakeup, masterVars, TypeOK
<1>7. CASE Produce  BY <1>7, HolderProduce
<1>8. CASE \E c \in Conns : Accept(c)  BY <1>8, HolderAccept
<1>9. CASE \E w \in Workers : Consume(w)  BY <1>9, HolderConsume
<1>10. CASE \E w \in Workers : CloseConnection(w)  BY <1>10, HolderClose
<1> QED
  BY <1>2, <1>3, <1>4, <1>5, <1>6, <1>7, <1>8, <1>9, <1>10 DEF Next, MasterStep, WorkerStep

LEMMA HolderInductive == Spec => []HolderInv
<1>1. HolderInv /\ [Next]_vars => HolderInv'  BY HolderStep, IInvStep DEF HolderInv
<1> QED  BY <1>1, HolderInit, PTL DEF Spec

-----------------------------------------------------------------------------
(* The theorems.                                                           *)

LEMMA AtMostOne == ASSUME NEW S, \A x, y \in S : x = y PROVE Cardinality(S) <= 1
<1>1. CASE S = {}  BY <1>1, FS_EmptySet
<1>2. CASE S # {}
  <2>1. PICK x \in S : TRUE  BY <1>2
  <2>2. S = {x}  BY <2>1
  <2> QED  BY <2>2, FS_Singleton
<1> QED  BY <1>1, <1>2

LEMMA HoldersOf ==
  ASSUME TypeOK, NEW c
  PROVE  Holders(c) = {<<"queue", j>> : j \in {i \in 1..Fill : squeue[Place(i)] = c}}
                 \cup {<<"worker", w>> : w \in {v \in Workers : client[v] = c}}
                 \cup {<<"master", 0>> : m \in {accepted} \cap {c}}
<1>1. DOMAIN Queued = 1..Fill /\ \A i \in 1..Fill : Queued[i] = squeue[Place(i)]
  BY DEF Queued, Place, TypeOK
<1> QED  BY <1>1 DEF Holders

\* Until somebody stops the server each open socket is in exactly one place, and never
\* in two (SocketHasOneHolder), for any number of connections, workers and slots, and
\* whatever threads and allocations fail: produce_socket(), consume_socket() and
\* worker_thread_run() hand it over without losing or copying it.
THEOREM SocketsHaveOneHolder == Spec => []SocketHasOneHolder
<1>1. ASSUME HolderInv PROVE SocketHasOneHolder
  <2> USE <1>1 DEF HolderInv
  <2>0. TypeOK /\ NoConn \notin Conns /\ open \subseteq Conns  BY ConnAssumption DEF IInv, TypeOK
  <2>1. ASSUME NEW c \in Conns PROVE Cardinality(Holders(c)) <= 1
    <3>1. \A x, y \in Holders(c) : x = y
      BY <2>0, HoldersOf DEF QueueHolds, MasterHolds, WorkersHold
    <3> QED  BY <3>1, AtMostOne
  <2>2. ASSUME NEW c \in Conns \ open PROVE Holders(c) = {}
    BY <2>0, HoldersOf DEF QueueHolds, MasterHolds, WorkersHold
  <2>3. ASSUME stop_flag = 0, NEW c \in open PROVE Holders(c) # {}
    <3>1. CASE accepted = c
      <4>1. <<"master", 0>> \in Holders(c)  BY <2>0, <3>1, HoldersOf
      <4> QED  BY <4>1
    <3>2. CASE \E w \in Workers : client[w] = c
      <4>1. PICK w \in Workers : client[w] = c  BY <3>2
      <4>2. <<"worker", w>> \in Holders(c)  BY <2>0, <4>1, HoldersOf
      <4> QED  BY <4>2
    <3>3. CASE \E j \in 1..Fill : squeue[Place(j)] = c
      <4>1. PICK j \in 1..Fill : squeue[Place(j)] = c  BY <3>3
      <4>2. <<"queue", j>> \in Holders(c)  BY <2>0, <4>1, HoldersOf
      <4> QED  BY <4>2
    <3> QED  BY <2>3, <3>1, <3>2, <3>3 DEF OpenIsHeld
  <2> QED  BY <2>1, <2>2, <2>3 DEF SocketHasOneHolder
<1> QED  BY <1>1, HolderInductive, PTL

-----------------------------------------------------------------------------
(* The ring is a queue: what its steps do to the sequence of sockets in it.*)

QueueIsThat ==
  /\ Queued \in Seq(Conns \cup {NoConn}) /\ Len(Queued) = Fill
  /\ \A j \in 1..Fill : Queued[j] = squeue[Place(j)]

LEMMA QueuedIs == TypeOK => QueueIsThat
<1> SUFFICES ASSUME TypeOK PROVE QueueIsThat  OBVIOUS
<1>1. Fill \in 0..SqSize /\ SqSize \in Nat  BY SizeAssumption DEF TypeOK
<1>2. \A j \in 1..Fill : squeue[Place(j)] \in Conns \cup {NoConn}
  BY <1>1, PlaceInRing DEF TypeOK
<1>3. Queued = [j \in 1..Fill |-> squeue[Place(j)]]  BY DEF Queued, Place
<1> HIDE DEF Fill
<1> QED  BY <1>1, <1>2, <1>3 DEF QueueIsThat

LEMMA QueuedIsThen == TypeOK' => QueueIsThat'
<1> QED  BY QueuedIs, PTL

LEMMA QueueStays ==
  ASSUME TypeOK, TypeOK', UNCHANGED queueVars PROVE Queued' = Queued
<1>1. Fill' = Fill /\ squeue' = squeue /\ sq_tail' = sq_tail  BY DEF queueVars, Fill
<1> QED  BY <1>1 DEF Queued

LEMMA ProduceAppends ==
  ASSUME HolderInv, TypeOK', Produce, Fill < SqSize
  PROVE  accepted \in Conns /\ Len(Queued) < SqSize /\ Queued' = Append(Queued, accepted)
<1>0. TypeOK /\ mpc = "produce"  BY DEF HolderInv, IInv, Produce
<1>1. accepted \in Conns  BY <1>0 DEF HolderInv, MasterHolds, TypeOK
<1>2. /\ Fill \in 0..(SqSize - 1) /\ Fill' = Fill + 1
      /\ squeue' = [squeue EXCEPT ![Place(Fill + 1)] = accepted]
      /\ \A j \in 1..SqSize : Place(j)' = Place(j)
  BY <1>0, ProduceAdds
<1>3. SqSize \in Nat \ {0} /\ squeue \in [Slots -> Conns \cup {NoConn}]
  BY <1>0, SizeAssumption DEF TypeOK
<1>4. PICK n \in 1..SqSize : n = Fill + 1  BY <1>2, <1>3
<1>5. \A j \in 1..Fill : j \in 1..SqSize /\ j # n  BY <1>2, <1>3, <1>4
<1>6. \A j \in 1..Fill : Place(j) # Place(n)  BY <1>0, <1>5, PlacesDiffer
<1>7. /\ squeue'[Place(n)'] = accepted
      /\ \A j \in 1..Fill : squeue'[Place(j)'] = squeue[Place(j)]
  BY <1>0, <1>2, <1>3, <1>4, <1>5, <1>6, PlaceInRing
<1>8. /\ Queued \in Seq(Conns \cup {NoConn}) /\ Len(Queued) = Fill
      /\ \A j \in 1..Fill : Queued[j] = squeue[Place(j)]
  BY <1>0, QueuedIs DEF QueueIsThat
<1>9. /\ Queued' \in Seq(Conns \cup {NoConn}) /\ Len(Queued') = Fill'
      /\ \A j \in 1..Fill' : Queued'[j] = squeue'[Place(j)']
  BY QueuedIsThen DEF QueueIsThat
<1>10. \A j \in 1..Fill' : Queued'[j] = IF j = n THEN accepted ELSE Queued[j]
  BY <1>2, <1>4, <1>7, <1>8, <1>9
<1>11. Queued' = Append(Queued, accepted)
  <2> DEFINE q == Queued  r == Queued'  k == Fill
  <2>1. /\ k \in Nat /\ q \in Seq(Conns \cup {NoConn}) /\ Len(q) = k
        /\ r \in Seq(Conns \cup {NoConn}) /\ Len(r) = k + 1
        /\ \A j \in 1..(k + 1) : r[j] = IF j = k + 1 THEN accepted ELSE q[j]
    BY <1>2, <1>4, <1>8, <1>9, <1>10
  <2> HIDE DEF q, r, k
  <2>2. r = Append(q, accepted)  BY <2>1
  <2> QED  BY <2>2 DEF q, r
<1> QED  BY <1>1, <1>8, <1>11

LEMMA TakeRemoves ==
  ASSUME TypeOK, TypeOK', NEW w \in Workers, sq_head > sq_tail, Take(w)
  PROVE  Queued # <<>> /\ Queued' = Tail(Queued)
<1>1. /\ Fill \in 1..SqSize /\ Fill' = Fill - 1 /\ squeue' = squeue
      /\ \A j \in 1..(Fill - 1) : Place(j)' = Place(j + 1)
  BY TakeMoves
<1>2. /\ Queued \in Seq(Conns \cup {NoConn}) /\ Len(Queued) = Fill
      /\ \A j \in 1..Fill : Queued[j] = squeue[Place(j)]
  BY QueuedIs DEF QueueIsThat
<1>3. /\ Queued' \in Seq(Conns \cup {NoConn}) /\ Len(Queued') = Fill'
      /\ \A j \in 1..Fill' : Queued'[j] = squeue'[Place(j)']
  BY QueuedIsThen DEF QueueIsThat
<1>4. SqSize \in Nat  BY SizeAssumption
<1> DEFINE q == Queued  r == Queued'  k == Fill
<1>5. /\ k \in Nat \ {0} /\ q \in Seq(Conns \cup {NoConn}) /\ Len(q) = k
      /\ r \in Seq(Conns \cup {NoConn}) /\ Len(r) = k - 1
      /\ \A j \in 1..(k - 1) : r[j] = q[j + 1]
  <2>1. \A j \in 1..(Fill - 1) : j + 1 \in 1..Fill  BY <1>1, <1>4
  <2> QED  BY <1>1, <1>2, <1>3, <1>4, <2>1
<1> HIDE DEF q, r, k
<1>6. q # <<>> /\ r = Tail(q)  BY <1>5
<1> QED  BY <1>6 DEF q, r

\* The queue implements its abstract specification (ImplementsAcceptQueue): for any size,
\* with indexes that are reduced while others use them, produce_socket() adds at the end
\* and consume_socket() takes from the beginning, and nothing else changes it.
THEOREM QueueIsFifo == Spec => ImplementsAcceptQueue
<1>1. Init => Channel!Init
  <2> SUFFICES ASSUME Init PROVE Queued = <<>>  BY DEF Channel!Init
  <2>1. TypeOK  BY IInvInit DEF IInv
  <2>2. Fill = 0  BY DEF Init, Fill
  <2> QED  BY <2>1, <2>2, QueuedIs DEF QueueIsThat
<1>2. ASSUME HolderInv, HolderInv', [Next]_vars PROVE [Channel!Next]_Queued
  <2>0. TypeOK /\ TypeOK'  BY <1>2 DEF HolderInv, IInv
  <2>1. CASE UNCHANGED queueVars  BY <2>0, <2>1, QueueStays
  <2>2. CASE Produce /\ Fill < SqSize
    BY <1>2, <2>0, <2>2, ProduceAppends DEF Channel!Next, Channel!Produce
  <2>3. CASE \E w \in Workers : sq_head > sq_tail /\ Consume(w)
    BY <2>0, <2>3, TakeRemoves DEF Consume, TakeIfAny, Channel!Next, Channel!Consume
  <2>4. CASE Produce /\ ~(Fill < SqSize)  BY <2>1, <2>4 DEF Produce
  <2>5. CASE \E w \in Workers : ~(sq_head > sq_tail) /\ Consume(w)
    BY <2>1, <2>5 DEF Consume, TakeIfAny
  <2>6. CASE UNCHANGED vars  BY <2>1, <2>6 DEF vars
  <2> QED
    BY <1>2, <2>1, <2>2, <2>3, <2>4, <2>5, <2>6
       DEF Next, MasterStep, WorkerStep, SpawnNot, SpawnReserve, SpawnDone, SpawnFails, ProduceWaits,
           EndAccepting, WakeWorkers, JoinWorkers, StartMaster, Stop, FreeContext, ProduceSpurious,
           Accept, ConsumeWaits, LeaveConsume, WorkerFails, CloseConnection, SpuriousWakeup
<1>3. HolderInv /\ HolderInv' /\ [Next]_vars => [Channel!Next]_Queued  BY <1>2
<1> QED  BY <1>1, <1>3, HolderInductive, PTL DEF Spec, ImplementsAcceptQueue, Channel!Spec
=============================================================================
