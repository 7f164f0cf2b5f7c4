----------------------------- MODULE ServerStart -----------------------------
(***************************************************************************)
(* The life of a CivetWeb context: mg_start2() acquires one resource after *)
(* the other, each step can fail and then releases most of what came       *)
(* before, and mg_stop() waits for the master thread.  What is not         *)
(* released is lost to the process: ports stay bound, sync objects stay.   *)
(* Ports are shared with the other processes of the machine; a failed or   *)
(* stopped server can be started again.  The threads are in WorkerPool.    *)
(***************************************************************************)
EXTENDS Naturals, Sequences, FiniteSets

CONSTANTS
  Ports,         \* bound: the port numbers that occur
  PortLists,     \* bound: values of the option listening_ports, sequences of
                 \* entries [port |-> a port, suffix |-> a sequence of letters]
  MaxStarts      \* bound: calls of mg_start2(), a natural number

VARIABLES
  at,          \* where mg_start2() and mg_stop() are
  held,        \* what the context owns, listening sockets aside
  leaked,      \* what contexts owned that are gone without freeing it
  list,        \* the entries of listening_ports
  portsTotal, portsOk,   \* entries seen, and opened or optional
  listening,   \* ctx->listening_sockets
  bound,       \* ports this process has bound
  taken,       \* ports other processes have bound
  stop_flag,
  starts       \* how often mg_start2() was called

portVars == <<list, portsTotal, portsOk, listening, bound>>
vars == <<at, held, leaked, portVars, taken, stop_flag, starts>>

Resources == {"ctx", "sync", "config", "squeue", "arrays", "worker", "master"}

EntryType == [port : Ports, suffix : Seq(STRING)]

ConstantsAreProper ==
  /\ PortLists \subseteq Seq(EntryType)
  /\ MaxStarts \in Nat

\* Types; and the sockets of the context are bound, each port once.
TypeOK ==
  /\ at \in {"none", "create", "options", "sizes", "ports", "user", "arrays", "threads",
             "running", "stopping", "freed"}
  /\ held \subseteq Resources /\ leaked \subseteq Resources
  /\ list \in PortLists \cup {<<>>} /\ portsTotal \in 0..Len(list) /\ portsOk \in 0..portsTotal
  /\ bound \subseteq Ports /\ listening \subseteq bound
  /\ taken \subseteq Ports /\ taken \cap bound = {}
  /\ stop_flag \in 0..2 /\ starts \in 0..MaxStarts

Init ==
  /\ at = "none" /\ held = {} /\ leaked = {} /\ list = <<>> /\ portsTotal = 0 /\ portsOk = 0
  /\ listening = {} /\ bound = {} /\ taken \in SUBSET Ports /\ stop_flag = 0 /\ starts = 0

-----------------------------------------------------------------------------
(* mg_start2(), step by step.                                              *)

\* free_context() frees everything but the listening sockets, whose owner is the
\* master thread: ports that are open stay bound, although no context knows them
FreeContext ==
  held' = {} /\ at' = "freed" /\ listening' = {} /\ UNCHANGED <<leaked, bound>>

Obtain(next, res) ==
  held' = held \cup res /\ at' = next /\ UNCHANGED <<leaked, listening, bound>>

\* A step of mg_start2() that acquires res and goes on, or fails.
Acquire(here, next, res) ==
  /\ at = here
  /\ Obtain(next, res) \/ FreeContext
  /\ UNCHANGED <<list, portsTotal, portsOk, taken, stop_flag, starts>>

Start ==
  /\ at \in {"none", "freed"} /\ starts < MaxStarts
  /\ at' = "create" /\ starts' = starts + 1 /\ stop_flag' = 0
  /\ UNCHANGED <<held, leaked, portVars, taken>>

\* Without memory there is no context; when a mutex, a condition variable or the
\* socket pair cannot be made only its memory is freed, not those made before.
CreateContext ==
  /\ at = "create"
  /\ \/ Obtain("options", {"ctx", "sync"})
     \/ FreeContext
     \/ leaked' = leaked \cup {"sync"} /\ at' = "freed" /\ UNCHANGED <<held, listening, bound>>
  /\ UNCHANGED <<list, portsTotal, portsOk, taken, stop_flag, starts>>

\* Unknown names and missing values are errors, defaults fill in the rest.
StoreOptions == Acquire("options", "sizes", {"config"})

\* max_request_size, connection_queue, num_threads; then the list of ports
CheckSizes ==
  /\ at = "sizes"
  /\ \/ /\ Obtain("ports", {"squeue"})
        /\ list' \in PortLists /\ portsTotal' = 0 /\ portsOk' = 0
     \/ FreeContext /\ UNCHANGED <<list, portsTotal, portsOk>>
  /\ UNCHANGED <<taken, stop_flag, starts>>

\* parse_port_string(): each letter once, and not both redirected and TLS
ValidSuffix(suffix) ==
  /\ \A i \in DOMAIN suffix : suffix[i] # "?"
  /\ \A i, j \in DOMAIN suffix : suffix[i] = suffix[j] => i = j
  /\ \E l \in {"r", "s"} : \A i \in DOMAIN suffix : suffix[i] # l

Optional(entry) == \E i \in DOMAIN entry.suffix : entry.suffix[i] = "o"

InUse(entry)    == entry.port \in bound \cup taken

\* One turn of the loop of set_ports_option().
Entry == list[portsTotal + 1]

NextEntry ==
  /\ at = "ports" /\ portsTotal < Len(list)
  /\ portsTotal' = portsTotal + 1
  /\ UNCHANGED <<at, held, leaked, list, taken, stop_flag, starts>>

OpenPort ==
  /\ NextEntry
  /\ ValidSuffix(Entry.suffix) /\ ~InUse(Entry)
  /\ bound' = bound \cup {Entry.port} /\ listening' = listening \cup {Entry.port}
  /\ portsOk' = portsOk + 1

\* (mutant) a port that cannot be bound is always skipped
SkipAnyPort ==
  /\ NextEntry
  /\ ValidSuffix(Entry.suffix)
  /\ portsOk' = portsOk + 1
  /\ UNCHANGED <<listening, bound>>

\* socket() or bind() failed, because the port is in use or for another reason
NoSocket ==
  /\ NextEntry
  /\ ValidSuffix(Entry.suffix)
  /\ portsOk' = IF Optional(Entry) THEN portsOk + 1 ELSE portsOk
  /\ UNCHANGED <<listening, bound>>

\* listen(), getsockname(), memory, or a specification that cannot be parsed: an
\* optional entry does not count here either.  (Left out: when memory fails for the
\* second of two arrays, ctx keeps a pointer to the first as it was before it grew.)
PortFails ==
  /\ NextEntry
  /\ UNCHANGED <<portsOk, listening, bound>>

\* (mutant) the sockets opened so far stay open
KeepSockets == UNCHANGED <<listening, bound>>

CloseAllListeningSockets == bound' = bound \ listening /\ listening' = {}

PortsDone ==
  /\ at = "ports" /\ portsTotal = Len(list)
  /\ portsOk = portsTotal /\ portsOk > 0 /\ at' = "user"
  /\ UNCHANGED <<held, leaked, portVars, taken, stop_flag, starts>>

PortsFailed ==
  /\ at = "ports" /\ portsTotal = Len(list)
  /\ portsOk # portsTotal \/ portsOk = 0
  /\ IF portsOk # portsTotal THEN CloseAllListeningSockets ELSE UNCHANGED <<listening, bound>>
  /\ held' = {} /\ at' = "freed"
  /\ UNCHANGED <<leaked, list, portsTotal, portsOk, taken, stop_flag, starts>>

\* set_uid_option() and set_acl_option()
SetUser == Acquire("user", "arrays", {})

AllocateWorkers == Acquire("arrays", "threads", {"arrays"})

\* The first worker must start; nobody looks whether the master thread did.
StartThreads ==
  \/ Acquire("threads", "running", {"worker"})
  \/ Acquire("threads", "running", {"worker", "master"})

-----------------------------------------------------------------------------
(* mg_stop(), and the master thread.                                       *)

Stop ==
  /\ at = "running" /\ "master" \in held
  /\ at' = "stopping" /\ stop_flag' = 1
  /\ UNCHANGED <<held, leaked, portVars, taken, starts>>

\* masterthreadid is 0: mg_stop() returns at once, and the context is forgotten with
\* its threads and its ports.
StopNothing ==
  /\ at = "running" /\ "master" \notin held
  /\ at' = "freed" /\ held' = {} /\ leaked' = leaked \cup held /\ listening' = {}
  /\ UNCHANGED <<list, portsTotal, portsOk, bound, taken, stop_flag, starts>>

\* master_thread_run() has returned long ago, without a sign to mg_stop(), when
\* nothing listens.
EndMaster ==
  /\ stop_flag = 1 /\ listening # {}
  /\ CloseAllListeningSockets
  /\ stop_flag' = 2 /\ held' = held \ {"worker", "master"}
  /\ UNCHANGED <<at, leaked, list, portsTotal, portsOk, taken, starts>>

Stopped ==
  /\ at = "stopping" /\ stop_flag = 2
  /\ FreeContext
  /\ UNCHANGED <<list, portsTotal, portsOk, taken, stop_flag, starts>>

\* Other processes come and go.
OtherProcess ==
  /\ at \in {"none", "freed"}
  /\ taken' \in SUBSET (Ports \ bound)
  /\ UNCHANGED <<at, held, leaked, portVars, stop_flag, starts>>

Next ==
  \/ Start \/ CreateContext \/ StoreOptions \/ CheckSizes \/ OpenPort \/ NoSocket \/ PortFails
  \/ PortsDone \/ PortsFailed \/ SetUser \/ AllocateWorkers \/ StartThreads
  \/ Stop \/ StopNothing \/ EndMaster \/ Stopped \/ OtherProcess

Spec == Init /\ [][Next]_vars

\* The threads of the server are scheduled.
FairSpec == Spec /\ WF_vars(EndMaster) /\ WF_vars(Stopped)

-----------------------------------------------------------------------------
(* Properties.                                                             *)

\* A server that runs owns everything, but perhaps its master thread; and of one
\* that is gone nothing but leaked tells.
ContextIsWhole ==
  /\ at = "running" => Resources \ {"master"} \subseteq held
  /\ at = "freed" => held = {}

\* The list of ports is all or nothing, optional entries aside: a server that
\* gets past set_ports_option() listens on every port it was told to, whatever
\* other processes and earlier starts hold.
RequiredPortsListen ==
  at \in {"user", "arrays", "threads", "running"} =>
    \A i \in DOMAIN list : list[i].port \in listening \/ Optional(list[i])

\* When set_ports_option() fails, or the server stops, its sockets are closed:
\* another start can have the same ports.
PortsAreReleased ==
  [][(at \in {"ports", "stopping"} /\ at' = "freed") => listening \cap bound' = {}]_vars

\* Ports that no context knows: they stay bound for the life of the process.
Lost == bound \ listening

\* What is lost stays lost, and only these lose anything: a start whose sync objects
\* cannot all be made loses those it made; one that fails behind set_ports_option()
\* loses its ports; and mg_stop() of a server without a master thread loses both.
KnownLosses ==
  /\ leaked \subseteq leaked' /\ Lost \subseteq Lost'
  /\ leaked' # leaked => at = "create" \/ (at = "running" /\ "master" \notin held)
  /\ Lost' # Lost => /\ at' = "freed"
                    /\ \/ at \in {"user", "arrays", "threads"}
                       \/ at = "running" /\ "master" \notin held
LossesAreKnown == [][KnownLosses]_vars

\* mg_stop() returns once the threads are gone, if the server listens at all.
StopReturns == at = "stopping" /\ listening # {} ~> at = "freed"

-----------------------------------------------------------------------------
(* The inductive invariant behind them.                                    *)

\* What the context owns where mg_start2() is.
Owned ==
  CASE at \in {"none", "create", "freed"}  -> {}
    [] at = "options"                      -> {"ctx", "sync"}
    [] at = "sizes"                        -> {"ctx", "sync", "config"}
    [] at \in {"ports", "user", "arrays"}   -> {"ctx", "sync", "config", "squeue"}
    [] at = "threads"                      -> Resources \ {"worker", "master"}
    [] OTHER -> IF stop_flag = 2 THEN Resources \ {"worker", "master"} ELSE Resources

\* The entries of the list that were seen are open or optional, if so many were counted.
EntriesCount ==
  portsOk = portsTotal =>
    \A i \in 1..portsTotal : list[i].port \in listening \/ Optional(list[i])

StartInv ==
  /\ TypeOK
  /\ held = Owned \/ (at = "running" /\ held = Owned \ {"master"})
  /\ stop_flag = 1 => at = "stopping"
  /\ stop_flag = 2 => at \in {"stopping", "freed"}
  /\ at \in {"none", "create", "options", "sizes", "freed"} => listening = {}
  /\ at = "stopping" /\ stop_flag = 2 => listening = {}
  /\ at = "ports" => EntriesCount /\ (portsTotal = 0 => listening = {})
  /\ at \in {"user", "arrays", "threads", "running"} =>
       EntriesCount /\ portsOk = portsTotal /\ portsTotal = Len(list)
=============================================================================
