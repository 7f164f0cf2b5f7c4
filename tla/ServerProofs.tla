---------------------------- MODULE ServerProofs -----------------------------
(***************************************************************************)
(* Proofs of MCServer: what is true of the start, the table of handlers    *)
(* and the end of a connection, as they run side by side, for every value  *)
(* of the constants of MCServer; WorkerPoolProofs has those of the threads.*)
(* Where a component has proofs of its own they are instantiated as the    *)
(* component is; what is left then is that the two instances say the same. *)
(***************************************************************************)
EXTENDS MCServer, TLAPS

-----------------------------------------------------------------------------
(* The start of a server.                                                  *)

\* At first nothing is owned and nothing listens.
LEMMA StartInit == StartUp!Init => StartUp!StartInv
  BY StartAssumption
     DEF StartUp!Init, StartUp!StartInv, StartUp!TypeOK, StartUp!Owned,
     StartUp!ConstantsAreProper

\* An entry of the list is one of its type.
LEMMA EntryIs ==
  ASSUME StartUp!StartInv, portsTotal < Len(list)
  PROVE  /\ list \in Seq(StartUp!EntryType)
         /\ portsTotal + 1 \in DOMAIN list /\ StartUp!Entry.port \in Ports
<1>1. list \in Seq(StartUp!EntryType)
  <2>1. list \in PortLists \cup {<<>>} /\ PortLists \subseteq Seq(StartUp!EntryType)
    BY StartAssumption DEF StartUp!StartInv, StartUp!TypeOK, StartUp!ConstantsAreProper
  <2>2. CASE list = <<>>
    <3> HIDE DEF StartUp!EntryType
    <3> QED
      BY <2>2
  <2> QED
    BY <2>1, <2>2
<1>2. portsTotal \in Nat /\ Len(list) \in Nat
  BY <1>1 DEF StartUp!StartInv, StartUp!TypeOK
<1>3. portsTotal + 1 \in DOMAIN list
  BY <1>1, <1>2
<1> QED
  <2>1. list[portsTotal + 1] \in StartUp!EntryType
    BY <1>1, <1>3
  <2> QED
    BY <1>1, <1>3, <2>1 DEF StartUp!Entry, StartUp!EntryType

\* One turn of the loop over the list of ports.
LEMMA EntrySeen ==
  ASSUME StartUp!StartInv, StartUp!OpenPort \/ StartUp!NoSocket \/ StartUp!PortFails
  PROVE  StartUp!StartInv'
<1> USE DEF StartUp!NextEntry
<1>1. /\ at = "ports" /\ portsTotal < Len(list) /\ portsTotal' = portsTotal + 1
      /\ UNCHANGED <<at, held, leaked, list, taken, startFlag, starts>>
  BY DEF StartUp!OpenPort, StartUp!NoSocket, StartUp!PortFails
<1>2. /\ list \in Seq(StartUp!EntryType)
      /\ portsTotal + 1 \in DOMAIN list /\ StartUp!Entry.port \in Ports
  BY <1>1, EntryIs
<1>3. portsTotal \in Nat /\ portsOk \in 0..portsTotal /\ Len(list) \in Nat
  BY <1>2 DEF StartUp!StartInv, StartUp!TypeOK
<1>4. /\ portsOk' \in {portsOk, portsOk + 1} /\ listening \subseteq listening'
      /\ portsOk' = portsOk + 1 => StartUp!Entry.port \in listening' \/ StartUp!Optional(StartUp!Entry)
  BY <1>3 DEF StartUp!OpenPort, StartUp!NoSocket, StartUp!PortFails
<1>5. StartUp!TypeOK'
  <2>1. bound' \subseteq Ports /\ listening' \subseteq bound' /\ taken' \cap bound' = {}
    BY <1>1, <1>2 DEF StartUp!StartInv, StartUp!TypeOK, StartUp!OpenPort, StartUp!NoSocket,
       StartUp!PortFails, StartUp!InUse
  <2> QED
    BY <1>1, <1>3, <1>4, <2>1 DEF StartUp!StartInv, StartUp!TypeOK
<1>6. StartUp!EntriesCount'
  <2> SUFFICES ASSUME portsOk' = portsTotal', NEW i \in 1..portsTotal'
               PROVE  list[i].port \in listening' \/ StartUp!Optional(list[i])
    BY <1>1 DEF StartUp!EntriesCount, StartUp!Optional
  <2>1. portsOk = portsTotal /\ portsOk' = portsOk + 1
    BY <1>1, <1>3, <1>4
  <2>2. CASE i = portsTotal + 1
    BY <1>4, <2>1, <2>2 DEF StartUp!Entry
  <2>3. CASE i \in 1..portsTotal
    BY <1>1, <1>4, <2>1, <2>3 DEF StartUp!StartInv, StartUp!EntriesCount
  <2> QED
    BY <1>1, <1>3, <2>2, <2>3
<1>7. held = StartUp!Owned /\ held' = StartUp!Owned'
  BY <1>1 DEF StartUp!StartInv, StartUp!Owned
<1> QED
  BY <1>1, <1>3, <1>5, <1>6, <1>7 DEF StartUp!StartInv

\* Each step of mg_start2() and mg_stop() leaves the context with what it has come to
\* own, and the ports with what the entries before portsTotal asked for.
LEMMA StartStep == StartUp!StartInv /\ [StartUp!Next]_startVars => StartUp!StartInv'
<1> SUFFICES ASSUME StartUp!StartInv, [StartUp!Next]_startVars PROVE StartUp!StartInv'
  OBVIOUS
<1> USE StartAssumption DEF StartUp!StartInv, StartUp!TypeOK, StartUp!Owned,
        StartUp!EntriesCount,
    StartUp!Optional, StartUp!portVars, StartUp!Resources, StartUp!ConstantsAreProper
<1>1. CASE StartUp!Start
  BY <1>1 DEF StartUp!Start
<1>2. CASE StartUp!CreateContext
  BY <1>2 DEF StartUp!CreateContext, StartUp!Obtain, StartUp!FreeContext
<1>3. CASE StartUp!StoreOptions
  BY <1>3 DEF StartUp!StoreOptions, StartUp!Acquire, StartUp!Obtain, StartUp!FreeContext
<1>4. CASE StartUp!CheckSizes
  BY <1>4 DEF StartUp!CheckSizes, StartUp!Obtain, StartUp!FreeContext
<1>5. CASE StartUp!OpenPort \/ StartUp!NoSocket \/ StartUp!PortFails
  BY <1>5, EntrySeen
<1>6. CASE StartUp!PortsDone
  BY <1>6 DEF StartUp!PortsDone
<1>7. CASE StartUp!PortsFailed
  BY <1>7 DEF StartUp!PortsFailed, StartUp!CloseAllListeningSockets
<1>8. CASE StartUp!SetUser
  BY <1>8 DEF StartUp!SetUser, StartUp!Acquire, StartUp!Obtain, StartUp!FreeContext
<1>9. CASE StartUp!AllocateWorkers
  BY <1>9 DEF StartUp!AllocateWorkers, StartUp!Acquire, StartUp!Obtain, StartUp!FreeContext
<1>10. CASE StartUp!StartThreads
  BY <1>10 DEF StartUp!StartThreads, StartUp!Acquire, StartUp!Obtain, StartUp!FreeContext
<1>11. CASE StartUp!Stop
  BY <1>11 DEF StartUp!Stop
<1>12. CASE StartUp!EndMaster
  BY <1>12 DEF StartUp!EndMaster, StartUp!CloseAllListeningSockets
<1>13. CASE StartUp!Stopped
  BY <1>13 DEF StartUp!Stopped, StartUp!FreeContext
<1>14. CASE StartUp!OtherProcess
  BY <1>14 DEF StartUp!OtherProcess
<1>15. CASE UNCHANGED startVars
  BY <1>15 DEF startVars
<1>16. CASE StartUp!StopNothing
  BY <1>16 DEF StartUp!StopNothing
<1> QED
  BY <1>1, <1>2, <1>3, <1>4, <1>5, <1>6, <1>7, <1>8, <1>9, <1>10, <1>11, <1>12, <1>13, <1>14,
     <1>15, <1>16 DEF StartUp!Next

\* What the properties of a start need is in the invariant.
LEMMA StartIs == StartUp!StartInv => StartIsWhole
<1> SUFFICES ASSUME StartUp!StartInv PROVE StartUp!ContextIsWhole /\ StartUp!RequiredPortsListen
  BY DEF StartIsWhole
<1>1. StartUp!ContextIsWhole
  BY DEF StartUp!StartInv, StartUp!Owned, StartUp!ContextIsWhole
<1>2. StartUp!RequiredPortsListen
  BY StartAssumption DEF StartUp!StartInv, StartUp!EntriesCount, StartUp!RequiredPortsListen,
     StartUp!TypeOK,
     StartUp!ConstantsAreProper
<1> QED
  BY <1>1, <1>2

\* What PortsAreReleased says of a step: what was listened on is bound no longer.
Releases == at \in {"ports", "stopping"} /\ at' = "freed" => listening \cap bound' = {}

\* Both ways out of a context that listens close all its sockets; the others lose them.
LEMMA StartReleases == StartUp!StartInv /\ [StartUp!Next]_startVars => Releases /\ StartUp!KnownLosses
<1> SUFFICES ASSUME StartUp!StartInv, [StartUp!Next]_startVars
             PROVE  Releases /\ StartUp!KnownLosses
  OBVIOUS
<1> USE DEF Releases, StartUp!KnownLosses, StartUp!Lost
<1>1. listening \subseteq bound /\ taken \cap bound = {}
  BY DEF StartUp!StartInv, StartUp!TypeOK
<1>2. at \in {"none", "create", "options", "sizes", "freed"} => listening = {}
  BY DEF StartUp!StartInv
<1>3. CASE StartUp!PortsFailed
  <2>1. portsOk = portsTotal => listening = {}
    BY <1>3 DEF StartUp!PortsFailed, StartUp!StartInv, StartUp!TypeOK
  <2> QED
    BY <1>1, <1>3, <2>1 DEF StartUp!PortsFailed, StartUp!CloseAllListeningSockets
<1>4. CASE StartUp!Stopped
  BY <1>1, <1>4 DEF StartUp!Stopped, StartUp!FreeContext, StartUp!StartInv
<1>5. CASE StartUp!CreateContext \/ StartUp!StoreOptions \/ StartUp!CheckSizes
  BY <1>1, <1>2, <1>5 DEF StartUp!CreateContext, StartUp!StoreOptions, StartUp!CheckSizes,
     StartUp!Acquire, StartUp!Obtain, StartUp!FreeContext
<1>6. CASE StartUp!SetUser \/ StartUp!AllocateWorkers \/ StartUp!StartThreads
  BY <1>1, <1>6 DEF StartUp!SetUser, StartUp!AllocateWorkers, StartUp!StartThreads,
     StartUp!Acquire, StartUp!Obtain, StartUp!FreeContext
<1>7. CASE StartUp!OpenPort
  <2>1. bound' \ listening' = bound \ listening
    <3>1. StartUp!Entry.port \notin bound
      BY <1>7 DEF StartUp!OpenPort, StartUp!InUse
    <3>2. /\ bound' = bound \cup {StartUp!Entry.port}
          /\ listening' = listening \cup {StartUp!Entry.port}
      BY <1>7 DEF StartUp!OpenPort
    <3> QED
      BY <1>1, <3>1, <3>2
  <2>2. at = "ports" /\ at' = at /\ leaked' = leaked
    BY <1>7 DEF StartUp!OpenPort, StartUp!NextEntry
  <2> QED
    BY <2>1, <2>2
<1>8. CASE StartUp!NoSocket \/ StartUp!PortFails \/ StartUp!PortsDone \/ StartUp!Start
  BY <1>8 DEF StartUp!NoSocket, StartUp!PortFails, StartUp!PortsDone, StartUp!Start,
     StartUp!NextEntry, StartUp!portVars
<1>9. CASE StartUp!Stop \/ StartUp!OtherProcess \/ UNCHANGED startVars
  BY <1>9 DEF StartUp!Stop, StartUp!OtherProcess, startVars, StartUp!portVars
<1>10. CASE StartUp!EndMaster
  BY <1>1, <1>10 DEF StartUp!EndMaster, StartUp!CloseAllListeningSockets, StartUp!StartInv
<1>11. CASE StartUp!StopNothing
  BY <1>1, <1>11 DEF StartUp!StopNothing
<1> QED
  BY <1>3, <1>4, <1>5, <1>6, <1>7, <1>8, <1>9, <1>10, <1>11 DEF StartUp!Next

-----------------------------------------------------------------------------
(* The table of handlers, with each of the two programs.                   *)

TableProof == INSTANCE HandlerTableProofs WITH
  Workers <- Threads, Program <- Setters, Requests <- {Get("/a"), Get("/a/b")},
  Exact <- Alike, Below <- {<<"/a", "/a/b">>}, Pattern <- Patterns,
  MayReject <- TRUE, MayDecline <- FALSE, AllocMayFail <- TRUE, MaxSets <- 3, Word <- 8

\* Handlers set, replaced and deleted by three threads: the invariant of
\* HandlerTableProofs, and that it says enough.
LEMMA TableStep ==
  /\ Table!Init => TableProof!TableInv
  /\ TableProof!TableInv /\ [Table!Next]_tableVars => TableProof!TableInv'
  /\ TableProof!TableInv => Table!HandlersAreCounted
<1>1. TableProof!Init <=> Table!Init
  BY DEF TableProof!Init, TableProof!Setters, TableProof!Nobody, TableProof!NoRequest,
     Table!Init,
     Table!Setters, Table!Nobody, Table!NoRequest
<1>2. TableProof!Next <=> Table!Next
  BY DEF TableProof!Next, TableProof!SetterStep, TableProof!WorkerStep, TableProof!Setters,
     TableProof!WaitForEndOfUse, TableProof!UpdateHandler, TableProof!RemoveHandler,
     TableProof!NoSuchHandler, TableProof!Op, TableProof!Busy, TableProof!Entry,
     TableProof!Completes, TableProof!InUse, TableProof!Arrives, TableProof!Find,
     TableProof!Authorize, TableProof!CallbackReturns, TableProof!Release, TableProof!Lookup,
     TableProof!Best, TableProof!AllMatches, TableProof!Matching, TableProof!Steps,
     TableProof!Goes, TableProof!Nobody, TableProof!table, TableProof!conn, TableProof!Range,
     TableProof!RemoveAt, Table!Next, Table!SetterStep, Table!WorkerStep, Table!Setters,
     Table!WaitForEndOfUse, Table!UpdateHandler, Table!RemoveHandler, Table!NoSuchHandler,
     Table!Op, Table!Busy, Table!Entry, Table!Completes, Table!InUse, Table!Arrives,
     Table!Find, Table!Authorize, Table!CallbackReturns, Table!Release, Table!Lookup,
     Table!Best, Table!AllMatches, Table!Matching, Table!Steps, Table!Goes, Table!Nobody,
     Table!table, Table!conn, Table!Range, Table!RemoveAt
<1>3. UNCHANGED tableVars => UNCHANGED TableProof!vars
  BY DEF TableProof!vars, TableProof!table, TableProof!conn, tableVars
<1>4. TableProof!ConstantsAreProper <=> Table!ConstantsAreProper
  BY DEF TableProof!ConstantsAreProper, TableProof!Setters, TableProof!NoRequest,
     TableProof!IsFiniteSet, TableProof!Cardinality, Table!ConstantsAreProper, Table!Setters,
     Table!NoRequest, Table!IsFiniteSet, Table!Cardinality
<1>5. TableProof!ConstantsAreProper
  BY <1>4, TableAssumption
<1>6. TableProof!TableInv => TableProof!HandlersAreCounted
  BY TableProof!InvIsEnough
<1>7. TableProof!HandlersAreCounted <=> Table!HandlersAreCounted
  BY DEF TableProof!HandlersAreCounted, TableProof!RefcountIsExact,
     TableProof!HandlersInUseAreRegistered, TableProof!OneEntryPerUri, TableProof!Nodes,
     TableProof!Holders, TableProof!Range, TableProof!Cardinality, Table!HandlersAreCounted,
     Table!RefcountIsExact, Table!HandlersInUseAreRegistered, Table!OneEntryPerUri,
     Table!Nodes, Table!Holders, Table!Range, Table!Cardinality
<1>8. TableProof!Init => TableProof!TableInv
  BY <1>5, TableProof!TableInit
<1>9. TableProof!TableInv /\ [TableProof!Next]_(TableProof!vars) => TableProof!TableInv'
  BY <1>5, TableProof!TableStep
<1> QED
  BY <1>1, <1>2, <1>3, <1>6, <1>7, <1>8, <1>9

RTableProof == INSTANCE HandlerTableProofs WITH
  Workers <- Threads, Program <- RSetters, Requests <- RRequests,
  Exact <- {<<"/ws", "/ws">>}, Below <- RBelow, Pattern <- RPatterns,
  MayReject <- FALSE, MayDecline <- FALSE, AllocMayFail <- FALSE, MaxSets <- 2, Word <- 8

\* The same for the program of server.c.
LEMMA RTableStep ==
  /\ RTable!Init => RTableProof!TableInv
  /\ RTableProof!TableInv /\ [RTable!Next]_tableVars => RTableProof!TableInv'
  /\ RTableProof!TableInv => Table!HandlersAreCounted
<1>1. RTableProof!Init <=> RTable!Init
  BY DEF RTableProof!Init, RTableProof!Setters, RTableProof!Nobody, RTableProof!NoRequest,
     RTable!Init, RTable!Setters, RTable!Nobody, RTable!NoRequest
<1>2. RTableProof!Next <=> RTable!Next
  BY DEF RTableProof!Next, RTableProof!SetterStep, RTableProof!WorkerStep, RTableProof!Setters,
     RTableProof!WaitForEndOfUse, RTableProof!UpdateHandler, RTableProof!RemoveHandler,
     RTableProof!NoSuchHandler, RTableProof!Op, RTableProof!Busy, RTableProof!Entry,
     RTableProof!Completes, RTableProof!InUse, RTableProof!Arrives, RTableProof!Find,
     RTableProof!Authorize, RTableProof!CallbackReturns, RTableProof!Release,
     RTableProof!Lookup, RTableProof!Best, RTableProof!AllMatches, RTableProof!Matching,
     RTableProof!Steps, RTableProof!Goes, RTableProof!Nobody, RTableProof!table,
     RTableProof!conn, RTableProof!Range, RTableProof!RemoveAt, RTable!Next,
     RTable!SetterStep, RTable!WorkerStep, RTable!Setters, RTable!WaitForEndOfUse,
     RTable!UpdateHandler, RTable!RemoveHandler, RTable!NoSuchHandler, RTable!Op, RTable!Busy,
     RTable!Entry, RTable!Completes, RTable!InUse, RTable!Arrives, RTable!Find,
     RTable!Authorize, RTable!CallbackReturns, RTable!Release, RTable!Lookup, RTable!Best,
     RTable!AllMatches, RTable!Matching, RTable!Steps, RTable!Goes, RTable!Nobody,
     RTable!table, RTable!conn, RTable!Range, RTable!RemoveAt
<1>3. UNCHANGED tableVars => UNCHANGED RTableProof!vars
  BY DEF RTableProof!vars, RTableProof!table, RTableProof!conn, tableVars
<1>4. RTableProof!ConstantsAreProper <=> RTable!ConstantsAreProper
  BY DEF RTableProof!ConstantsAreProper, RTableProof!Setters, RTableProof!NoRequest,
     RTableProof!IsFiniteSet, RTableProof!Cardinality, RTable!ConstantsAreProper,
     RTable!Setters, RTable!NoRequest, RTable!IsFiniteSet, RTable!Cardinality
<1>5. RTableProof!ConstantsAreProper
  BY <1>4, TableAssumption
<1>6. RTableProof!TableInv => RTableProof!HandlersAreCounted
  BY RTableProof!InvIsEnough
<1>7. RTableProof!HandlersAreCounted <=> Table!HandlersAreCounted
  BY DEF RTableProof!HandlersAreCounted, RTableProof!RefcountIsExact,
     RTableProof!HandlersInUseAreRegistered, RTableProof!OneEntryPerUri, RTableProof!Nodes,
     RTableProof!Holders, RTableProof!Range, RTableProof!Cardinality,
     Table!HandlersAreCounted, Table!RefcountIsExact, Table!HandlersInUseAreRegistered,
     Table!OneEntryPerUri, Table!Nodes, Table!Holders, Table!Range, Table!Cardinality
<1>8. RTableProof!Init => RTableProof!TableInv
  BY <1>5, RTableProof!TableInit
<1>9. RTableProof!TableInv /\ [RTableProof!Next]_(RTableProof!vars) => RTableProof!TableInv'
  BY <1>5, RTableProof!TableStep
<1> QED
  BY <1>1, <1>2, <1>3, <1>6, <1>7, <1>8, <1>9

-----------------------------------------------------------------------------
(* What civetweb_start_server() registers is found.                        *)

\* The nodes are those of its program, as far as it has come.
RNodes ==
  /\ done["T"] = 0 /\ done["R"] \in 0..2 /\ sets = done["R"]
  /\ Len(nodes) = done["R"] /\ handlers = [i \in 1..done["R"] |-> i]
  /\ done["R"] >= 1 => nodes[1].type = "request" /\ nodes[1].uri = "**" /\ ~nodes[1].removing
  /\ done["R"] = 2 => nodes[2].type = "websocket" /\ nodes[2].uri = "/ws" /\ ~nodes[2].removing

\* Whoever has found a callback for an upgrade asked for a path that /ws covers.
RFound ==
  \A w \in Threads :
    request[w].type = "websocket" /\ found[w] /\ pc[w] \notin {"idle", "find"} => request[w].path \in WsPaths

RInv == RTableProof!TableInv /\ RNodes /\ RFound

\* The types that the invariant of the table gives.
LEMMA RTypes ==
  ASSUME RInv
  PROVE  /\ nodes \in Seq(RTableProof!NodeType)
         /\ done \in [{"R", "T"} -> Nat] /\ DOMAIN done = {"R", "T"}
         /\ DOMAIN pc = Threads /\ DOMAIN found = Threads /\ DOMAIN request = Threads
<1>1. RTableProof!Setters = {"R", "T"}
  BY DEF RTableProof!Setters, RSetters
<1> QED
  BY <1>1 DEF RInv, RTableProof!TableInv, RTableProof!Types

\* At first nothing is registered and nobody has found anything.
LEMMA RInit == RTable!Init => RInv
<1> SUFFICES ASSUME RTable!Init PROVE RNodes /\ RFound
  BY RTableStep DEF RInv
<1>1. done = [s \in {"R", "T"} |-> 0]
  BY DEF RTable!Init, RTable!Setters, RSetters
<1>2. RNodes
  BY <1>1 DEF RTable!Init, RNodes
<1>3. RFound
  BY DEF RTable!Init, RFound
<1> QED
  BY <1>2, <1>3

\* The program of R sets first the one and then the other; the other thread sets nothing.
LEMMA RSetting ==
  ASSUME RInv, NEW s \in RTable!Setters, RTable!SetterStep(s)
  PROVE  RNodes' /\ RFound'
<1> DEFINE d  == done["R"]
           op == IF d = 0 THEN Set("request", "**") ELSE Set("websocket", "/ws")
<1>0. s \in {"R", "T"}
  BY DEF RTable!Setters, RSetters
<1>1. s = "R" /\ d \in 0..1
  <2>1. done[s] < Len(RSetters[s])
    BY DEF RTable!SetterStep, RTable!WaitForEndOfUse, RTable!UpdateHandler,
       RTable!RemoveHandler,
       RTable!NoSuchHandler, RTable!Busy
  <2>2. Len(RSetters["T"]) = 0 /\ Len(RSetters["R"]) = 2
    BY DEF RSetters
  <2>3. s # "T"
    BY <2>1, <2>2 DEF RInv, RNodes
  <2>4. s = "R" /\ done["R"] < 2
    BY <1>0, <2>1, <2>2, <2>3
  <2>5. done["R"] \in 0..2
    BY DEF RInv, RNodes
  <2> QED
    BY <2>4, <2>5
<1>2. RTable!Op(s) = op /\ ~op.delete
  <2>1. RTable!Op(s) = <<Set("request", "**"), Set("websocket", "/ws")>>[d + 1]
    BY <1>1 DEF RTable!Op, RSetters
  <2>2. CASE d = 0
    BY <2>1, <2>2 DEF Set
  <2>3. CASE d = 1
    BY <2>1, <2>3 DEF Set
  <2> QED
    BY <1>1, <2>2, <2>3
<1>3. RTable!Entry(RTable!Op(s)) = {}
  <2>1. CASE d = 0
    BY <2>1 DEF RInv, RNodes, RTable!Entry, RTable!Range
  <2>2. CASE d = 1
    BY <1>2, <2>2 DEF RInv, RNodes, RTable!Entry, RTable!Range, Set
  <2> QED
    BY <1>1, <2>1, <2>2
<1>4. /\ nodes' = Append(nodes, [type |-> op.type, uri |-> op.uri, fn |-> sets + 1,
                                 refcount |-> 0, removing |-> FALSE])
      /\ handlers' = Append(handlers, Len(nodes) + 1) /\ sets' = sets + 1
      /\ done' = [done EXCEPT !["R"] = @ + 1]
      /\ UNCHANGED <<request, found, pc>>
  BY <1>1, <1>2, <1>3 DEF RTable!SetterStep, RTable!WaitForEndOfUse, RTable!UpdateHandler,
     RTable!RemoveHandler, RTable!NoSuchHandler, RTable!Completes, RTable!conn
<1>5. RFound'
  BY <1>4 DEF RInv, RFound
<1>6. done'["R"] = d + 1 /\ done'["T"] = 0
  BY <1>4, RTypes DEF RInv, RNodes
<1>7. Len(nodes') = d + 1 /\ handlers' = [i \in 1..(d + 1) |-> i] /\ sets' = d + 1
  BY <1>1, <1>4, RTypes DEF RInv, RNodes
<1>8. nodes'[d + 1].type = op.type /\ nodes'[d + 1].uri = op.uri /\ ~nodes'[d + 1].removing
  BY <1>1, <1>4, RTypes DEF RInv, RNodes
<1>9. d = 1 => nodes'[1] = nodes[1]
  BY <1>4, RTypes DEF RInv, RNodes
<1>10. RNodes'
  <2>1. CASE d = 0
    BY <1>6, <1>7, <1>8, <2>1 DEF RNodes, Set
  <2>2. CASE d = 1
    BY <1>6, <1>7, <1>8, <1>9, <2>2 DEF RInv, RNodes, Set
  <2> QED
    BY <1>1, <2>1, <2>2
<1> QED
  BY <1>5, <1>10

\* Workers change nothing of a node but its count.
LEMMA RKept ==
  ASSUME RInv, RTableProof!TableInv', UNCHANGED <<handlers, sets, done>>,
         UNCHANGED nodes \/ \E n, k : nodes' = [nodes EXCEPT ![n].refcount = k]
  PROVE  RNodes'
<1>1. nodes \in Seq(RTableProof!NodeType) /\ nodes' \in Seq(RTableProof!NodeType)
  BY RTypes DEF RTableProof!TableInv, RTableProof!Types
<1>2. /\ DOMAIN nodes' = DOMAIN nodes
      /\ \A n \in DOMAIN nodes :
           /\ nodes'[n].type = nodes[n].type /\ nodes'[n].uri = nodes[n].uri
           /\ nodes'[n].removing = nodes[n].removing
  <2>1. ASSUME NEW n, NEW k, nodes' = [nodes EXCEPT ![n].refcount = k], NEW i \in DOMAIN nodes
        PROVE  /\ nodes'[i].type = nodes[i].type /\ nodes'[i].uri = nodes[i].uri
               /\ nodes'[i].removing = nodes[i].removing
    <3>1. nodes[i] \in RTableProof!NodeType
      BY <1>1
    <3>2. nodes'[i] = IF i = n THEN [nodes[i] EXCEPT !.refcount = k] ELSE nodes[i]
      BY <2>1
    <3> QED
      BY <3>1, <3>2 DEF RTableProof!NodeType
  <2>2. DOMAIN nodes' = DOMAIN nodes
    OBVIOUS
  <2>3. CASE UNCHANGED nodes
    BY <2>3
  <2> QED
    BY <2>1, <2>2, <2>3
<1>3. Len(nodes') = Len(nodes)
  BY <1>1, <1>2
<1>4. (done["R"] >= 1 => 1 \in DOMAIN nodes) /\ (done["R"] = 2 => 2 \in DOMAIN nodes)
  BY <1>1 DEF RInv, RNodes
<1> QED
  BY <1>2, <1>3, <1>4 DEF RInv, RNodes

\* What is found for an upgrade is found for a path that /ws covers.
LEMMA RUpgrades ==
  ASSUME RInv, NEW path, RTable!Lookup("websocket", path) # 0
  PROVE  path \in WsPaths
<1>0. /\ DOMAIN handlers = 1..done["R"] /\ done["R"] \in 0..2
      /\ \A i \in DOMAIN handlers : handlers[i] = i
  BY DEF RInv, RNodes
<1>1. RTable!Best("websocket", path) # {}
  BY DEF RTable!Lookup, RTable!Nobody
<1>2. RTable!Matching("websocket", path, 1..3) # {}
  BY <1>1 DEF RTable!Best, RTable!AllMatches
<1>3. PICK m \in (1..3) \X DOMAIN handlers :
        /\ nodes[handlers[m[2]]].type = "websocket"
        /\ <<nodes[handlers[m[2]]].uri, path>> \in RTable!Steps[m[1]]
  BY <1>2 DEF RTable!Matching
<1>4. nodes[handlers[m[2]]].uri = "/ws"
  <2>1. m[2] \in DOMAIN handlers /\ handlers[m[2]] = m[2]
    BY <1>0, <1>3
  <2>2. m[2] # 1
    BY <1>0, <1>3, <2>1 DEF RInv, RNodes
  <2>3. m[2] = 2 /\ done["R"] = 2
    BY <1>0, <2>1, <2>2
  <2> QED
    BY <2>1, <2>3 DEF RInv, RNodes
<1>5. <<"/ws", path>> \in {<<"/ws", "/ws">>} \cup RBelow \cup RPatterns
  <2>1. m[1] \in 1..3
    BY <1>3
  <2>2. RTable!Steps[m[1]] \subseteq {<<"/ws", "/ws">>} \cup RBelow \cup RPatterns
    BY <2>1 DEF RTable!Steps
  <2> QED
    BY <1>3, <1>4, <2>2
<1> QED
  BY <1>5 DEF RBelow, RPatterns, WsPaths

\* The node that R has set for requests of a type: the first or the second.
NodeOf(type) == IF type = "request" THEN 1 ELSE 2

\* A path matches the node of its type in the third step, if not before.
LEMMA RMatches ==
  ASSUME RInv, done["R"] = 2, NEW type \in {"request", "websocket"}, NEW path \in RPaths,
         type = "request" \/ path \in WsPaths
  PROVE  /\ <<3, NodeOf(type)>> \in RTable!AllMatches(type, path)
         /\ \A m \in RTable!AllMatches(type, path) : m \in (1..3) \X {NodeOf(type)}
<1> DEFINE k == NodeOf(type)
<1>0. /\ DOMAIN handlers = 1..2 /\ \A i \in DOMAIN handlers : handlers[i] = i
  BY DEF RInv, RNodes
<1>1. /\ nodes[1].type = "request" /\ nodes[1].uri = "**"
      /\ nodes[2].type = "websocket" /\ nodes[2].uri = "/ws"
  BY DEF RInv, RNodes
<1>2. k \in 1..2 /\ handlers[k] = k /\ nodes[k].type = type
  BY <1>0, <1>1 DEF NodeOf
<1>3. <<nodes[k].uri, path>> \in RTable!Steps[3]
  <2>1. <<nodes[k].uri, path>> \in RPatterns
    BY <1>1 DEF NodeOf, RPatterns
  <2> QED
    BY <2>1 DEF RTable!Steps
<1>4. <<3, k>> \in RTable!AllMatches(type, path)
  BY <1>0, <1>2, <1>3 DEF RTable!AllMatches, RTable!Matching
<1>5. ASSUME NEW m \in RTable!AllMatches(type, path) PROVE m \in (1..3) \X {k}
  <2>1. m \in (1..3) \X DOMAIN handlers /\ nodes[handlers[m[2]]].type = type
    BY <1>5 DEF RTable!AllMatches, RTable!Matching
  <2>2. m[2] \in 1..2 /\ nodes[m[2]].type = type
    BY <1>0, <2>1
  <2>3. m[2] = k
    BY <1>1, <2>2 DEF NodeOf
  <2> QED
    BY <2>1, <2>3
<1> QED
  BY <1>4, <1>5

\* So it is found.
LEMMA RRequestsMatch ==
  ASSUME RInv, done["R"] = 2, NEW type \in {"request", "websocket"}, NEW path \in RPaths,
         type = "request" \/ path \in WsPaths
  PROVE  RTable!Lookup(type, path) # 0
<1> DEFINE k   == NodeOf(type)
           all3 == RTable!AllMatches(type, path)
<1>1. k \in 1..2 /\ handlers[k] = k /\ ~nodes[k].removing
  BY DEF RInv, RNodes, NodeOf
<1>2. <<3, k>> \in all3 /\ \A m \in all3 : m \in (1..3) \X {k}
  BY RMatches
<1>3. PICK b \in all3 : \A m \in all3 : b[1] <= m[1]
  <2> HIDE DEF all3, k
  <2>1. CASE \E m \in all3 : m[1] = 1
    BY <1>2, <2>1
  <2>2. CASE ~(\E m \in all3 : m[1] = 1) /\ \E m \in all3 : m[1] = 2
    BY <1>2, <2>2
  <2>3. CASE ~(\E m \in all3 : m[1] = 1) /\ ~\E m \in all3 : m[1] = 2
    BY <1>2, <2>3
  <2> QED
    BY <2>1, <2>2, <2>3
<1>4. b \in RTable!Best(type, path)
  <2>1. \A m \in all3 : b[1] \in 1..3 /\ m[1] \in 1..3 /\ b[2] = k /\ m[2] = k
    BY <1>2, <1>3
  <2>2. \A m \in all3 : b[1] < m[1] \/ (b[1] = m[1] /\ b[2] <= m[2])
    BY <1>1, <1>3, <2>1
  <2> QED
    BY <2>2 DEF RTable!Best
<1>5. RTable!Best(type, path) \subseteq all3
  BY DEF RTable!Best
<1>6. {n \in {handlers[m[2]] : m \in RTable!Best(type, path)} : ~nodes[n].removing} = {k}
  <2>1. \A m \in RTable!Best(type, path) : handlers[m[2]] = k
    BY <1>1, <1>2, <1>5
  <2> HIDE DEF k, all3
  <2> QED
    BY <1>1, <1>4, <2>1
<1>7. RTable!Lookup(type, path) = k
  BY <1>6 DEF RTable!Lookup
<1> QED
  BY <1>1, <1>7

\* A worker that looks up, asks and calls a callback.
LEMMA RWorking ==
  ASSUME RInv, RTableProof!TableInv', NEW w \in Threads, RTable!Arrives(w) \/ RTable!WorkerStep(w)
  PROVE  RNodes' /\ RFound'
<1>1. RNodes'
  <2>1. /\ UNCHANGED <<handlers, sets, done>>
        /\ UNCHANGED nodes \/ \E n, k : nodes' = [nodes EXCEPT ![n].refcount = k]
    BY DEF RTable!Arrives, RTable!WorkerStep, RTable!Find, RTable!Authorize,
       RTable!CallbackReturns,
       RTable!Release, RTable!table
  <2> QED
    BY <2>1, RKept
<1>2. \A v \in Threads \ {w} : pc'[v] = pc[v] /\ request'[v] = request[v] /\ found'[v] = found[v]
  BY RTypes DEF RTable!Arrives, RTable!WorkerStep, RTable!Find, RTable!Authorize,
     RTable!CallbackReturns, RTable!Release, RTable!Goes
<1>3. request'[w].type = "websocket" /\ found'[w] /\ pc'[w] \notin {"idle", "find"} => request'[w].path \in WsPaths
  <2>1. CASE RTable!Arrives(w)
    BY <2>1, RTypes DEF RTable!Arrives, RTable!Goes
  <2>2. CASE RTable!Find(w)
    <3>1. request' = request /\ found'[w] = (RTable!Lookup(request[w].type, request[w].path) # 0)
      BY <2>2, RTypes DEF RTable!Find, RTable!Nobody
    <3> QED
      BY <3>1, RUpgrades
  <2>3. CASE RTable!Authorize(w) \/ RTable!CallbackReturns(w) \/ RTable!Release(w)
    <3>1. request' = request /\ (found'[w] => found[w]) /\ pc[w] \notin {"idle", "find"}
      BY <2>3, RTypes DEF RTable!Authorize, RTable!CallbackReturns, RTable!Release
    <3> QED
      BY <3>1 DEF RInv, RFound
  <2> QED
    BY <2>1, <2>2, <2>3 DEF RTable!WorkerStep
<1> QED
  BY <1>1, <1>2, <1>3 DEF RInv, RFound

\* All steps of the table keep what is known of R's program.
LEMMA RStep == RInv /\ [RTable!Next]_tableVars => RInv'
<1> SUFFICES ASSUME RInv, [RTable!Next]_tableVars PROVE RInv'
  OBVIOUS
<1>1. RTableProof!TableInv'
  BY RTableStep DEF RInv
<1>2. CASE RTable!Next
  <2>1. RTable!Next = ((\E s \in RTable!Setters : RTable!SetterStep(s))
                       \/ \E w \in Threads : RTable!Arrives(w) \/ RTable!WorkerStep(w))
    BY DEF RTable!Next
  <2> QED
    BY <1>1, <1>2, <2>1, RSetting, RWorking DEF RInv
<1>3. CASE UNCHANGED tableVars
  BY <1>1, <1>3 DEF tableVars, RInv, RNodes, RFound
<1> QED
  BY <1>2, <1>3

\* What is known of R's program is what StartedServerAnswers says.
LEMMA RAnswers == RInv /\ part = "rtable" => StartedServerAnswers
<1> SUFFICES ASSUME RInv
             PROVE  /\ ~RTable!Busy("R") =>
                         \A r \in RRequests :
                           r.type = "request" \/ r.path \in WsPaths
                             => RTable!Lookup(r.type, r.path) # 0
                    /\ \A w \in Threads :
                         request[w].type = "websocket" /\ found[w] /\ pc[w] = "run"
                           => request[w].path \in WsPaths
  BY DEF StartedServerAnswers
<1>1. ASSUME ~RTable!Busy("R"), NEW r \in RRequests, r.type = "request" \/ r.path \in WsPaths
      PROVE  RTable!Lookup(r.type, r.path) # 0
  <2>1. Len(RSetters["R"]) = 2
    BY DEF RSetters
  <2>2. done["R"] = 2
    BY <1>1, <2>1 DEF RTable!Busy, RInv, RNodes
  <2>3. r.path \in RPaths /\ r.type \in {"request", "websocket"}
    BY DEF RRequests, Get, Upgrade
  <2> QED
    BY <1>1, <2>2, <2>3, RRequestsMatch
<1> QED
  BY <1>1 DEF RInv, RFound

-----------------------------------------------------------------------------
(* The end of a connection.                                                *)

\* A linger time of 0 seconds, with which a close aborts, is only set where 0 is configured.
CloseInv == config \in Lingers /\ (linger = 0 => config = 0)

\* At first there is none.
LEMMA CloseInit == Closing!Init => CloseInv
  BY DEF Closing!Init, Closing!Off, CloseInv

\* SetLinger rounds up to seconds, so that no other time becomes 0.
LEMMA CloseStep == CloseInv /\ [Closing!Next]_closeVars => CloseInv'
<1> SUFFICES ASSUME CloseInv, [Closing!Next]_closeVars PROVE CloseInv'
  OBVIOUS
<1> USE DEF Closing!Next, Closing!Write, Closing!Server, Closing!Network, Closing!ClientSends,
        Closing!ClientLeaves, Closing!Shutdown, Closing!CloseSocket, Closing!LingerExpires,
        Closing!Arrive, Closing!FinArrives, closeVars
<1>1. config' = config
  BY DEF Closing!SetLinger
<1>2. CASE Closing!SetLinger
  <2>1. config \in Int
    BY LingerAssumption DEF CloseInv
  <2>2. config >= 0 /\ config # 0 => (config + 999) \div 1000 # 0
    BY <2>1
  <2> QED
    BY <1>1, <1>2, <2>1, <2>2 DEF CloseInv, Closing!SetLinger, Closing!Seconds, Closing!Off
<1>3. CASE UNCHANGED linger
  BY <1>1, <1>3 DEF CloseInv
<1> QED
  BY <1>2, <1>3

\* What OnlyTheseReset says of a step.
Resets == reset' => reset \/ unread' \/ config = 0

\* A close aborts only with a linger time of 0 or something unread.
LEMMA CloseSafe == CloseInv /\ [Closing!Next]_closeVars => [Resets]_closeVars
<1> SUFFICES ASSUME CloseInv, Closing!Next PROVE Resets
  OBVIOUS
<1>1. CASE Closing!CloseSocket
  <2>1. unread' = unread /\ (reset' => unread \/ linger = 0)
    BY <1>1, ZenonT(40) DEF Closing!CloseSocket, Closing!Aborts
  <2>2. linger = 0 => config = 0
    BY DEF CloseInv
  <2> QED
    BY <2>1, <2>2 DEF Resets
<1>2. CASE Closing!ClientSends
  BY <1>2 DEF Closing!ClientSends, Resets
<1>3. CASE UNCHANGED reset
  BY <1>3 DEF Resets
<1> QED
  BY <1>1, <1>2, <1>3 DEF Closing!Next, Closing!Write, Closing!Server, Closing!Network,
     Closing!ClientLeaves, Closing!Shutdown, Closing!SetLinger, Closing!LingerExpires,
     Closing!Arrive, Closing!FinArrives

-----------------------------------------------------------------------------
(* All together.                                                           *)

\* Each component keeps its own invariant, whichever of them moves.
ServerInv ==
  /\ StartUp!StartInv
  /\ IF part = "rtable" THEN RInv ELSE TableProof!TableInv
  /\ CloseInv

\* All of them begin with theirs.
LEMMA ServerInvInit == ServerInit => ServerInv
  BY StartInit, TableStep, RInit, CloseInit DEF ServerInit, ServerInv

\* A step of a component, or none.
LEMMA OneMoves ==
  ASSUME [ServerNext]_all
  PROVE  /\ part' = part
         /\ [StartUp!Next]_startVars
         /\ part = "rtable" => [RTable!Next]_tableVars
         /\ part # "rtable" => [Table!Next]_tableVars
         /\ [Closing!Next]_closeVars
  BY DEF ServerNext, all, OfPool, OfStart, OfTable, OfClose

\* A step of one component keeps the invariants of all.
LEMMA ServerInvStep == ServerInv /\ [ServerNext]_all => ServerInv'
<1> SUFFICES ASSUME ServerInv, [ServerNext]_all PROVE ServerInv'
  OBVIOUS
<1>2. StartUp!StartInv'
  BY OneMoves, StartStep DEF ServerInv
<1>3. IF part = "rtable" THEN RInv' ELSE TableProof!TableInv'
  BY OneMoves, RStep, TableStep DEF ServerInv
<1>4. CloseInv'
  BY OneMoves, CloseStep DEF ServerInv
<1> QED
  BY <1>2, <1>3, <1>4, OneMoves DEF ServerInv

\* The invariant of the server.
LEMMA ServerInductive == ServerSpec => []ServerInv
  BY ServerInvInit, ServerInvStep, PTL DEF ServerSpec

\* A context that runs owns what it needs and listens on every required port: for any
\* option listening_ports.
THEOREM StartsWhole == ServerSpec => []StartIsWhole
<1>1. ServerInv => StartIsWhole
  BY StartIs DEF ServerInv
<1> QED
  BY <1>1, ServerInductive, PTL

\* The reference counts are exact with the programs of both parts, of which the second
\* is what server.c registers.
THEOREM HandlersCounted == ServerSpec => []HandlersAreCounted
<1>1. ServerInv => HandlersAreCounted
  BY TableStep, RTableStep DEF ServerInv, RInv, HandlersAreCounted
<1> QED
  BY <1>1, ServerInductive, PTL

\* Once civetweb_start_server() has returned, every HTTP request reaches handler() and
\* every upgrade that the WebSocket handler covers reaches R; no other ever does.
THEOREM ServerAnswers == ServerSpec => []StartedServerAnswers
<1>1. ServerInv => StartedServerAnswers
  BY RAnswers DEF ServerInv, StartedServerAnswers
<1> QED
  BY <1>1, ServerInductive, PTL

\* Where ports are closed they can be bound again, only the starts and stops that
\* LossesAreKnown names lose anything, and only a linger time of 0 or unread data resets
\* a connection: for any ports, and any linger times.
THEOREM ClosesInOrder == ServerSpec => ClosedInOrder
<1>1. ServerInv /\ [ServerNext]_all => [Releases /\ StartUp!KnownLosses]_startVars
  BY OneMoves, StartReleases DEF ServerInv
<1>2. ServerInv /\ [ServerNext]_all => [Resets]_closeVars
  BY OneMoves, CloseSafe DEF ServerInv
<1>3. ServerSpec => [][Releases /\ StartUp!KnownLosses]_startVars
  BY <1>1, ServerInductive, PTL DEF ServerSpec
<1>4. ServerSpec => [][Resets]_closeVars
  BY <1>2, ServerInductive, PTL DEF ServerSpec
<1>5. [Releases /\ StartUp!KnownLosses]_startVars => [Releases]_startVars /\ [StartUp!KnownLosses]_startVars
  OBVIOUS
<1>6. ServerSpec => [][Releases]_startVars /\ [][StartUp!KnownLosses]_startVars
  BY <1>3, <1>5, PTL
<1> QED
  <2>1. ServerSpec => StartUp!PortsAreReleased
    BY <1>6 DEF StartUp!PortsAreReleased, Releases, startVars, StartUp!vars, StartUp!portVars
  <2>2. ServerSpec => StartUp!LossesAreKnown
    BY <1>6 DEF StartUp!LossesAreKnown, startVars, StartUp!vars, StartUp!portVars
  <2>3. ServerSpec => Closing!OnlyTheseReset
    BY <1>4 DEF Closing!OnlyTheseReset, Resets, closeVars, Closing!vars
  <2> QED
    BY <2>1, <2>2, <2>3 DEF ClosedInOrder
=============================================================================
