----------------------------- MODULE WorkerPool ------------------------------
(***************************************************************************)
(* CivetWeb's threads (civetweb.c): mg_start2() starts workers and the     *)
(* master thread, the master accepts connections and queues their sockets, *)
(* the workers serve them, further workers are started on demand, and      *)
(* mg_stop() ends them all.                                                *)
(*                                                                         *)
(* One action is one critical section under ctx->thread_mutex, or a        *)
(* stretch of code outside of it.  A thread in pthread_cond_wait() waits   *)
(* until a signal, or a spurious wakeup, makes it compete for the mutex    *)
(* again.                                                                  *)
(***************************************************************************)
EXTENDS Integers, FiniteSets, Sequences

CONSTANTS
  Conns,          \* bound: the connections clients open
  NoConn,         \* not one of them
  MaxWorkers,     \* cfg_max_worker_threads, option num_threads
  Prespawn,       \* option prespawn_threads
  SqSize,         \* sq_size, option connection_queue
  ThreadsMayFail, \* pthread_create() may fail
  AllocMayFail    \* a worker may fail to allocate its buffer or its mutex

ASSUME SizeAssumption == SqSize \in Nat \ {0} /\ MaxWorkers \in Nat \ {0}
ASSUME PrespawnAssumption == Prespawn \in 0..MaxWorkers
ASSUME ConnAssumption == NoConn \notin Conns

VARIABLES
  squeue,     \* the ring of sockets
  sq_head, sq_tail,
  stop_flag,  \* 0, 1: stop, 2: the master thread is done
  spawned,    \* spawned_worker_threads
  idle,       \* idle_worker_thread_count
  wpc,        \* where each worker is
  client,     \* conn->client.sock of each worker
  mpc,        \* where the master is, and the starter while it starts workers
  accepted,   \* the socket in the hands of the master
  main,       \* where the thread is that calls mg_start2() and mg_stop()
  open        \* the sockets accept() returned and nobody has closed

queueVars  == <<squeue, sq_head, sq_tail>>
masterVars == <<spawned, mpc, accepted>>
vars == <<queueVars, masterVars, stop_flag, idle, wpc, client, main, open>>

Workers == 0..(MaxWorkers - 1)
Slots   == 0..(SqSize - 1)
Fill    == sq_head - sq_tail
InConsume == {"start", "wait", "woken"}   \* workers that count as idle

\* Types; the indexes of the ring stay small enough for an int whatever the
\* number of connections, and never cross.
TypeOK ==
  /\ squeue \in [Slots -> Conns \cup {NoConn}]
  /\ sq_head \in Nat /\ sq_tail \in 0..SqSize /\ Fill \in 0..SqSize
  /\ stop_flag \in 0..2 /\ spawned \in 0..MaxWorkers /\ idle \in Nat
  /\ wpc \in [Workers -> {"none", "enter", "leave", "serve", "ended"} \cup InConsume]
  /\ client \in [Workers -> Conns \cup {NoConn}]
  /\ mpc \in {"off", "poll", "produce", "full", "spawn", "create", "close", "join", "done"}
  /\ accepted \in Conns \cup {NoConn} /\ open \subseteq Conns
  /\ main \in {"prespawn", "running", "stopping", "freed", "failed", "returned"}

Init ==
  /\ squeue = [i \in Slots |-> NoConn] /\ sq_head = 0 /\ sq_tail = 0
  /\ stop_flag = 0 /\ spawned = 0 /\ idle = 0
  /\ wpc = [w \in Workers |-> "none"] /\ client = [w \in Workers |-> NoConn]
  /\ mpc = IF Prespawn = 0 THEN "off" ELSE "spawn"
  /\ accepted = NoConn /\ main = "prespawn" /\ open = {}

-----------------------------------------------------------------------------
(* Starting a worker: mg_start_worker_thread(), called by mg_start2() for  *)
(* each worker to prespawn and by the master after each accepted socket.   *)

Starting == main = "prespawn"

\* (mutant) without looking at the sockets in the queue
SomeIdle == idle > 0

\* Idle workers beyond the sockets that wait for one.
EnoughIdle == idle > Fill

\* Where a call returns to: the loop of mg_start2(), or the accept loop.
AfterSpawn == IF Starting /\ spawned' < Prespawn THEN "spawn"
              ELSE IF Starting THEN "off" ELSE "poll"

SpawnNot ==
  /\ mpc = "spawn"
  /\ spawned = MaxWorkers \/ (~Starting /\ EnoughIdle)
  /\ mpc' = "poll"
  /\ UNCHANGED <<queueVars, stop_flag, spawned, idle, wpc, client, accepted, main, open>>

SpawnReserve ==
  /\ mpc = "spawn" /\ spawned < MaxWorkers
  /\ Starting \/ ~EnoughIdle
  /\ mpc' = "create" /\ idle' = idle + 1
  /\ UNCHANGED <<queueVars, stop_flag, spawned, wpc, client, accepted, main, open>>

SpawnDone ==
  /\ mpc = "create"
  /\ wpc' = [wpc EXCEPT ![spawned] = "start"] /\ spawned' = spawned + 1
  /\ mpc' = AfterSpawn
  /\ UNCHANGED <<queueVars, stop_flag, idle, client, accepted, main, open>>

SpawnFails ==
  /\ ThreadsMayFail /\ mpc = "create"
  /\ idle' = idle - 1
  /\ mpc' = IF Starting THEN "off" ELSE "poll"
  /\ main' = IF Starting /\ spawned = 0 THEN "failed" ELSE main
  /\ UNCHANGED <<queueVars, stop_flag, spawned, wpc, client, accepted, open>>

-----------------------------------------------------------------------------
(* The last lines of mg_start2(), and mg_stop().                           *)

StartMaster ==
  /\ Starting /\ mpc = "off"
  /\ main' = "running"
  /\ mpc' = "poll" \/ (ThreadsMayFail /\ mpc' = "off")
  /\ UNCHANGED <<queueVars, stop_flag, spawned, idle, wpc, client, accepted, open>>

\* masterthreadid is 0 if the master thread could not be created
Stop ==
  /\ main = "running"
  /\ IF mpc = "off" THEN main' = "returned" /\ UNCHANGED stop_flag
     ELSE main' = "stopping" /\ stop_flag' = 1
  /\ UNCHANGED <<queueVars, masterVars, idle, wpc, client, open>>

FreeContext ==
  /\ main = "stopping" /\ stop_flag = 2
  /\ main' = "freed"
  /\ UNCHANGED <<queueVars, masterVars, stop_flag, idle, wpc, client, open>>

-----------------------------------------------------------------------------
(* The workers.                                                            *)

\* worker_thread_run() returns before it ever calls consume_socket()
WorkerFails(w) ==
  /\ AllocMayFail /\ wpc[w] = "start"
  /\ wpc' = [wpc EXCEPT ![w] = "ended"]
  /\ UNCHANGED <<queueVars, masterVars, stop_flag, idle, client, main, open>>

\* The first call was counted by who started the worker.
Counted(w) == IF wpc[w] = "enter" THEN 1 ELSE 0

AtConsume(w) == wpc[w] \in {"start", "enter", "woken"}

ConsumeWaits(w) ==
  /\ AtConsume(w) /\ sq_head = sq_tail /\ stop_flag = 0
  /\ idle' = idle + Counted(w)
  /\ wpc' = [wpc EXCEPT ![w] = "wait"]
  /\ UNCHANGED <<queueVars, masterVars, stop_flag, client, main, open>>

\* what both indexes are reduced by after a socket is taken
Wrap(tail) == IF tail > SqSize THEN SqSize ELSE 0

\* (mutant) the head stays where it is
WrapTailOnly == sq_head

HeadAfterTake == sq_head - Wrap(sq_tail + 1)

\* (mutant) the newest socket is taken
TakeNewest(w) ==
  /\ client' = [client EXCEPT ![w] = squeue[(sq_head - 1) % SqSize]]
  /\ sq_tail' = sq_tail + 1 - Wrap(sq_tail + 1)
  /\ sq_head' = HeadAfterTake
  /\ UNCHANGED squeue

Take(w) ==
  /\ client' = [client EXCEPT ![w] = squeue[sq_tail % SqSize]]
  /\ sq_tail' = sq_tail + 1 - Wrap(sq_tail + 1)
  /\ sq_head' = HeadAfterTake
  /\ UNCHANGED squeue

SignalEmpty == IF mpc = "full" THEN "produce" ELSE mpc

TakeIfAny(w) ==
  IF sq_head > sq_tail THEN Take(w) ELSE UNCHANGED <<queueVars, client>>

Consume(w) ==
  /\ AtConsume(w)
  /\ sq_head > sq_tail \/ stop_flag # 0
  /\ TakeIfAny(w)
  /\ mpc' = SignalEmpty
  /\ idle' = idle + Counted(w) - 1
  /\ wpc' = [wpc EXCEPT ![w] = "leave"]
  /\ UNCHANGED <<stop_flag, spawned, accepted, main, open>>

\* consume_socket() looks at stop_flag again after it has released the mutex
LeaveConsume(w) ==
  /\ wpc[w] = "leave"
  /\ wpc' = [wpc EXCEPT ![w] = IF stop_flag = 0 THEN "serve" ELSE "ended"]
  /\ UNCHANGED <<queueVars, masterVars, stop_flag, idle, client, main, open>>

\* process_new_connection() ends in close_connection()
CloseConnection(w) ==
  /\ wpc[w] = "serve"
  /\ open' = open \ {client[w]} /\ client' = [client EXCEPT ![w] = NoConn]
  /\ wpc' = [wpc EXCEPT ![w] = "enter"]
  /\ UNCHANGED <<queueVars, masterVars, stop_flag, idle, main>>

SpuriousWakeup(w) ==
  /\ wpc[w] = "wait"
  /\ wpc' = [wpc EXCEPT ![w] = "woken"]
  /\ UNCHANGED <<queueVars, masterVars, stop_flag, idle, client, main, open>>

-----------------------------------------------------------------------------
(* The master thread.                                                      *)

\* accept_new_connection(); connections that are over no longer matter, so
\* their names are used again
Accept(c) ==
  /\ mpc = "poll" /\ stop_flag = 0
  /\ c \notin open
  /\ open' = open \cup {c} /\ accepted' = c /\ mpc' = "produce"
  /\ UNCHANGED <<queueVars, stop_flag, spawned, idle, wpc, client, main>>

\* pthread_cond_signal(&sq_full): any one of the workers that wait
SignalFull ==
  IF \E w \in Workers : wpc[w] = "wait"
  THEN \E w \in Workers : wpc[w] = "wait" /\ wpc' = [wpc EXCEPT ![w] = "woken"]
  ELSE UNCHANGED wpc

ProduceWaits ==
  /\ mpc = "produce" /\ stop_flag = 0 /\ Fill >= SqSize
  /\ mpc' = "full"
  /\ UNCHANGED <<queueVars, stop_flag, spawned, idle, wpc, client, accepted, main, open>>

Produce ==
  /\ mpc = "produce" /\ (stop_flag # 0 \/ Fill < SqSize)
  /\ IF Fill < SqSize
     THEN /\ squeue' = [squeue EXCEPT ![sq_head % SqSize] = accepted]
          /\ sq_head' = sq_head + 1 /\ UNCHANGED sq_tail
     ELSE UNCHANGED queueVars
  /\ SignalFull
  /\ accepted' = NoConn /\ mpc' = "spawn"
  /\ UNCHANGED <<stop_flag, spawned, idle, client, main, open>>

ProduceSpurious ==
  /\ mpc = "full" /\ mpc' = "produce"
  /\ UNCHANGED <<queueVars, stop_flag, spawned, idle, wpc, client, accepted, main, open>>

\* The accept loop ends, the listening sockets are closed.
EndAccepting ==
  /\ mpc = "poll" /\ stop_flag # 0
  /\ mpc' = "close"
  /\ UNCHANGED <<queueVars, stop_flag, spawned, idle, wpc, client, accepted, main, open>>

\* (mutant) a signal in place of the broadcast
WakeOne == SignalFull

WakeAll == wpc' = [w \in Workers |-> IF wpc[w] = "wait" THEN "woken" ELSE wpc[w]]

WakeWorkers ==
  /\ mpc = "close"
  /\ WakeAll
  /\ mpc' = "join"
  /\ UNCHANGED <<queueVars, stop_flag, spawned, idle, client, accepted, main, open>>

JoinWorkers ==
  /\ mpc = "join" /\ \A w \in Workers : w < spawned => wpc[w] = "ended"
  /\ mpc' = "done" /\ stop_flag' = 2
  /\ UNCHANGED <<queueVars, spawned, idle, wpc, client, accepted, main, open>>

-----------------------------------------------------------------------------
MasterStep == SpawnNot \/ SpawnReserve \/ SpawnDone \/ SpawnFails \/ ProduceWaits \/ Produce
              \/ EndAccepting \/ WakeWorkers \/ JoinWorkers

WorkerStep(w) == ConsumeWaits(w) \/ Consume(w) \/ LeaveConsume(w)

Next ==
  \/ MasterStep \/ StartMaster \/ Stop \/ FreeContext \/ ProduceSpurious
  \/ \E c \in Conns : Accept(c)
  \/ \E w \in Workers :
       WorkerStep(w) \/ WorkerFails(w) \/ CloseConnection(w) \/ SpuriousWakeup(w)

Spec == Init /\ [][Next]_vars

\* The operating system schedules every thread.  A connection may stay open for
\* ever, also behind a stop: handler() of server.c waits for R without a limit.
FairSpec ==
  /\ Spec
  /\ WF_vars(MasterStep) /\ WF_vars(StartMaster) /\ WF_vars(FreeContext)
  /\ \A w \in Workers : WF_vars(WorkerStep(w))

-----------------------------------------------------------------------------
(* Properties.                                                             *)

Queued == [i \in 1..Fill |-> squeue[(sq_tail + i - 1) % SqSize]]

Holders(c) == {<<"queue", i>> : i \in {j \in DOMAIN Queued : Queued[j] = c}}
         \cup {<<"worker", w>> : w \in {v \in Workers : client[v] = c}}
         \cup {<<"master", 0>> : m \in {accepted} \cap {c}}

\* Until somebody stops the server, each socket accept() returned is in exactly
\* one place, the queue, the master or a worker, until it is closed; it is never
\* in two, and nobody holds a closed one.
SocketHasOneHolder ==
  /\ \A c \in Conns : Cardinality(Holders(c)) <= 1
  /\ \A c \in Conns \ open : Holders(c) = {}
  /\ stop_flag = 0 => \A c \in open : Holders(c) # {}

Idlers   == {w \in Workers : wpc[w] \in InConsume}
Reserved == IF mpc = "create" THEN 1 ELSE 0

\* idle_worker_thread_count, which workers, starter and master all update, is the
\* number of workers inside consume_socket(), those about to be created included.
IdleCountIsExact == idle = Cardinality(Idlers) + Reserved

\* When the master goes back to accepting, each queued socket has an idle worker
\* coming for it, or all the workers there may be exist: no socket waits behind
\* long-lived connections while there is room for another worker.
NoStrandedSocket ==
  mpc = "poll" => idle >= Fill \/ spawned = MaxWorkers

\* mg_stop() returns, whatever the threads were doing and however full the queue
\* was, unless a worker stays with its connection for ever.
StopTerminates ==
  (\A w \in Workers : []<>(wpc[w] # "serve")) => (main = "stopping" ~> main = "freed")

\* The ring with its wrapping indexes, its two condition variables and its many
\* workers is a bounded FIFO queue: sockets are served in the order accepted.
Channel == INSTANCE AcceptQueue WITH Capacity <- SqSize, waiting <- Queued
ImplementsAcceptQueue == Channel!Spec

-----------------------------------------------------------------------------
(* The inductive invariant behind them.                                    *)

\* Where the master is, there are at least as many idle workers as sockets.
Covered == idle >= Fill \/ spawned = MaxWorkers

IInv ==
  /\ TypeOK
  /\ \A w \in Workers : w >= spawned => wpc[w] = "none"
  /\ mpc = "create" => spawned < MaxWorkers
  /\ idle >= Cardinality(Idlers) + Reserved
  /\ ~AllocMayFail => IdleCountIsExact
  /\ ~ThreadsMayFail /\ mpc \in {"off", "poll", "produce", "full", "create"} => Covered
  /\ ~ThreadsMayFail /\ mpc = "spawn" => idle + 1 >= Fill \/ spawned = MaxWorkers
  /\ main = "prespawn" => Fill = 0 /\ mpc \in {"off", "spawn", "create"}
  /\ main = "prespawn" /\ mpc # "off" => spawned < Prespawn
=============================================================================
