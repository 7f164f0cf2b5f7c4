--------------------------- MODULE ConnectionProofs ---------------------------
(***************************************************************************)
(* Proofs about a connection: a connection of the client, the steps that a *)
(* request is dispatched in, the frames of a WebSocket; and these and what *)
(* OutputProofs is about together, as MCConnection composes them.          *)
(***************************************************************************)
EXTENDS MCConnection, OutputProofs

-----------------------------------------------------------------------------
(* A connection of the client.                                             *)

\* A client's connection begins with nothing that has to be freed.
LEMMA ClientInit == Client!Init => Client!ClientInv
  BY ClientAssumption
     DEF Client!Init, Client!ClientInv, Client!TypeOK, Client!Owned, Client!Nothing,
         Client!IsWebSocket, Client!Runs,
     Client!TimeoutIsLocal, Client!ConstantsAreProper

\* The thread uses and frees only what is there.
LEMMA ThreadIsCareful ==
  ASSUME ~misuse, {"conn", "cdata"} \subseteq held,
         Client!ThreadEnds \/ Client!ThreadClosed \/ Client!ThreadExits
  PROVE  ~misuse'
  BY DEF Client!ThreadEnds, Client!ThreadClosed, Client!ThreadExits, Client!Touch, Client!Free

\* Every step of a call, of the thread and of the server.
LEMMA ClientStep == Client!ClientInv /\ [Client!Next]_clientVars => Client!ClientInv'
<1> SUFFICES ASSUME Client!ClientInv, [Client!Next]_clientVars PROVE Client!ClientInv'
  OBVIOUS
<1> USE ClientAssumption DEF Client!ConstantsAreProper, Client!ClientInv, Client!TypeOK,
       Client!Owned,
    Client!Nothing, Client!Runs, Client!IsWebSocket, Client!TimeoutIsLocal, Client!Quiet,
    Client!Take,
    Client!Free, Client!FailWith, Client!Goes, Client!SocketToo, Client!CloseAfter, Client!owned,
    Client!server, Client!waitv, Client!Unset
<1>1. CASE Client!Connect
  BY <1>1 DEF Client!Connect
<1>2. CASE Client!CreateSocket
  <2> USE <1>2 DEF Client!CreateSocket
  <2>1. Client!TypeOK' /\ arrived' \in Nat
    OBVIOUS
  <2>2. held' = Client!Owned'
    OBVIOUS
  <2>3. ~misuse'
    OBVIOUS
  <2>4. Client!IsWebSocket' /\ Client!TimeoutIsLocal'
    OBVIOUS
  <2> QED
    BY <2>1, <2>2, <2>3, <2>4
<1>3. CASE Client!SetNonBlocking
  <2> USE <1>3 DEF Client!SetNonBlocking
  <2>1. Client!TypeOK' /\ arrived' \in Nat
    OBVIOUS
  <2>2. held' = Client!Owned'
    OBVIOUS
  <2>3. ~misuse'
    OBVIOUS
  <2>4. Client!IsWebSocket' /\ Client!TimeoutIsLocal'
    OBVIOUS
  <2> QED
    BY <2>1, <2>2, <2>3, <2>4
<1>4. CASE Client!PollConnect
  <2> USE <1>4 DEF Client!PollConnect
  <2>1. Client!TypeOK' /\ arrived' \in Nat
    OBVIOUS
  <2>2. held' = Client!Owned'
    OBVIOUS
  <2>3. ~misuse'
    OBVIOUS
  <2>4. Client!IsWebSocket' /\ Client!TimeoutIsLocal'
    OBVIOUS
  <2> QED
    BY <2>1, <2>2, <2>3, <2>4
<1>5. CASE Client!InitMutex
  <2> USE <1>5 DEF Client!InitMutex
  <2>1. Client!TypeOK' /\ arrived' \in Nat
    OBVIOUS
  <2>2. held' = Client!Owned'
    OBVIOUS
  <2>3. ~misuse'
    OBVIOUS
  <2>4. Client!IsWebSocket' /\ Client!TimeoutIsLocal'
    OBVIOUS
  <2> QED
    BY <2>1, <2>2, <2>3, <2>4
<1>6. CASE Client!SendRequest
  BY <1>6 DEF Client!SendRequest, Client!ResetBuffer
<1>7. CASE Client!StartGet
  BY <1>7 DEF Client!StartGet, Client!ResetBuffer
<1>8. CASE Client!Respond
  <2> USE <1>8 DEF Client!Respond, Client!EndGet, Client!Restore
  <2>1. Client!TypeOK' /\ arrived' \in Nat
    OBVIOUS
  <2>2. held' = Client!Owned'
    OBVIOUS
  <2>3. ~misuse'
    OBVIOUS
  <2>4. Client!IsWebSocket'
    OBVIOUS
  <2>5. Client!TimeoutIsLocal'
    OBVIOUS
  <2> QED
    BY <2>1, <2>2, <2>3, <2>4, <2>5
<1>9. CASE Client!Timeout \/ Client!PeerCloses
  BY <1>9 DEF Client!Timeout, Client!PeerCloses, Client!Expires, Client!EndGet, Client!Restore
<1>10. CASE Client!Tick
  BY <1>10 DEF Client!Tick
<1>11. CASE Client!Upgrade
  <2> USE <1>11 DEF Client!Upgrade
  <2>1. Client!TypeOK' /\ arrived' \in Nat
    OBVIOUS
  <2>2. held' = Client!Owned'
    OBVIOUS
  <2>3. ~misuse'
    OBVIOUS
  <2>4. Client!IsWebSocket' /\ Client!TimeoutIsLocal'
    OBVIOUS
  <2> QED
    BY <2>1, <2>2, <2>3, <2>4
<1>12. CASE Client!AllocateIds
  <2> USE <1>12 DEF Client!AllocateIds, Client!NoIds
  <2>1. Client!TypeOK' /\ arrived' \in Nat
    OBVIOUS
  <2>2. held' = Client!Owned'
    OBVIOUS
  <2>3. ~misuse'
    OBVIOUS
  <2>4. Client!IsWebSocket' /\ Client!TimeoutIsLocal'
    OBVIOUS
  <2> QED
    BY <2>1, <2>2, <2>3, <2>4
<1>13. CASE Client!StartThread
  <2> USE <1>13 DEF Client!StartThread, Client!NoIds
  <2>1. Client!TypeOK' /\ arrived' \in Nat
    OBVIOUS
  <2>2. held' = Client!Owned'
    OBVIOUS
  <2>3. ~misuse'
    OBVIOUS
  <2>4. Client!IsWebSocket' /\ Client!TimeoutIsLocal'
    OBVIOUS
  <2> QED
    BY <2>1, <2>2, <2>3, <2>4
<1>14. CASE Client!Close
  BY <1>14 DEF Client!Close
<1>15. CASE Client!FreeAll
  <2> USE <1>15 DEF Client!FreeAll, Client!Join
  <2>1. Client!TypeOK' /\ arrived' \in Nat
    OBVIOUS
  <2>2. held' = Client!Owned'
    OBVIOUS
  <2>3. ~misuse'
    OBVIOUS
  <2>4. Client!IsWebSocket' /\ Client!TimeoutIsLocal'
    OBVIOUS
  <2> QED
    BY <2>1, <2>2, <2>3, <2>4
<1>16. CASE Client!ServerAnswers
  BY <1>16 DEF Client!ServerAnswers
<1>17. CASE Client!ThreadEnds \/ Client!ThreadClosed \/ Client!ThreadExits
  <2> USE <1>17 DEF Client!ThreadEnds, Client!ThreadClosed, Client!ThreadExits, Client!Touch
  <2>1. UNCHANGED <<userPc, api, ctype, timeout>> /\ Client!Runs
    OBVIOUS
  <2>2. userPc \notin {"idle", "failed", "closed", "args"} /\ thread # "none"
    BY <2>1
  <2>3. {"conn", "cdata"} \subseteq held
    BY <2>1, <2>2
  <2>4. Client!TypeOK' /\ arrived' \in Nat
    OBVIOUS
  <2>5. held' = Client!Owned'
    BY <2>1, <2>2
  <2>6. ~misuse'
    BY <2>3, ThreadIsCareful
  <2>7. Client!IsWebSocket' /\ Client!TimeoutIsLocal'
    BY <2>1, <2>2
  <2> QED
    BY <2>4, <2>5, <2>6, <2>7
<1>18. CASE UNCHANGED clientVars
  BY <1>18 DEF clientVars
<1> QED
  BY <1>1, <1>2, <1>3, <1>4, <1>5, <1>6, <1>7, <1>8, <1>9, <1>10, <1>11, <1>12, <1>13, <1>14,
     <1>15, <1>16, <1>17, <1>18 DEF Client!Next, Client!UserStep

\* So each exit has freed everything once.
LEMMA ClientIs == Client!ClientInv => ConnectionsAreFreed
  BY DEF Client!ClientInv, ConnectionsAreFreed, Client!NoMisuse, Client!NothingLeaks, Client!Owned,
     Client!IsWebSocket, Client!Runs, Client!TypeOK, Client!Nothing

-----------------------------------------------------------------------------
(* What is done with a request.                                            *)

\* The first answer is one answer.
LEMMA OneAppended == \A s : Len(Append(<<>>, s)) = 1
<1> SUFFICES ASSUME NEW s PROVE Len(Append(<<>>, s)) = 1
  OBVIOUS
<1>1. <<>> \in Seq({s})
  OBVIOUS
<1> QED
  BY <1>1

\* The handler goes on as long as there is no answer.
LEMMA OneAnswered ==
  ASSUME Kinds!DispatchInv, Kinds!Next
  PROVE  stepPc # "done" /\ answers = <<>> /\ did = {} /\ Len(answers') <= 1
<1>1. stepPc # "done" /\ (answers' = answers \/ \E st : answers' = Append(answers, st))
  BY ZenonT(40) DEF Kinds!Next, Kinds!Classify, Kinds!Begin, Kinds!Preflight, Kinds!LookUp, Kinds!Interpret,
     Kinds!CheckWebDav, Kinds!Authorize, Kinds!Passes, Kinds!Rejects, Kinds!PutPassword,
     Kinds!Password, Kinds!CallBack, Kinds!NobodyHandles, Kinds!Write, Kinds!Exists, Kinds!Method,
     Kinds!Serve, Kinds!Goes, Kinds!Answers, Kinds!Does, Kinds!Drops, Kinds!At
<1>2. answers = <<>> /\ did = {}
  BY <1>1 DEF Kinds!DispatchInv, Kinds!Unanswered
<1>3. ASSUME NEW st, answers' = Append(answers, st) PROVE Len(answers') = 1
  BY <1>2, <1>3, OneAppended
<1>4. Len(answers') <= 1
  <2>1. CASE answers' = answers
    BY <1>2, <2>1
  <2>2. CASE Len(answers') = 1
    BY <2>2
  <2> QED
    BY <1>1, <1>3, <2>1, <2>2
<1> QED
  BY <1>1, <1>2, <1>4

\* A request that was received is not answered, and has passed no check.
LEMMA DispatchInit == Kinds!Init \/ Files!Init => Kinds!DispatchInv
<1> SUFFICES ASSUME Kinds!Init \/ Files!Init PROVE Kinds!DispatchInv
  OBVIOUS
<1> USE DEF Kinds!Init, Files!Init
<1>1. Kinds!FlagsOK /\ Kinds!Steps
  BY DEF Kinds!FlagsOK, Kinds!Steps
<1>2. Kinds!Unanswered /\ Kinds!Authorized /\ Kinds!Sorted
  BY DEF Kinds!Unanswered, Kinds!Authorized, Kinds!Sorted
<1>3. Kinds!HiddenIsNotServed /\ Kinds!NoRootNoFiles /\ Kinds!WritesAreAuthorized
      /\ Kinds!ReadsAreAuthorized
  BY DEF Kinds!HiddenIsNotServed, Kinds!NoRootNoFiles, Kinds!WritesAreAuthorized,
     Kinds!ReadsAreAuthorized, Kinds!Range
<1>4. Len(answers) <= 1
  OBVIOUS
<1> QED
  BY <1>1, <1>2, <1>3, <1>4 DEF Kinds!DispatchInv

\* Every step of handle_request() keeps what was passed, answered and touched together.
LEMMA DispatchStep == Kinds!DispatchInv /\ Kinds!Next => Kinds!DispatchInv'
<1> SUFFICES ASSUME Kinds!DispatchInv, Kinds!Next PROVE Kinds!DispatchInv'
  OBVIOUS
<1> USE DEF Kinds!DispatchInv, Kinds!Goes, Kinds!Answers, Kinds!Does, Kinds!Drops, Kinds!At,
    Kinds!input, Kinds!flags
<1>1. answers = <<>> /\ did = {} /\ Len(answers') <= 1
  BY OneAnswered
<1>2. CASE Kinds!Classify
  <2> USE <1>2 DEF Kinds!Classify, Kinds!Protocol
  <2>1. Kinds!FlagsOK' /\ Kinds!Steps'
    BY DEF Kinds!FlagsOK, Kinds!Steps
  <2>2. Kinds!Unanswered' /\ did' \subseteq {"read", "list", "write"}
    BY <1>1 DEF Kinds!Unanswered
  <2>3. Kinds!Authorized' /\ Kinds!Sorted'
    BY DEF Kinds!Authorized, Kinds!Check, Kinds!NeedsPutPassword, Kinds!Sorted, Kinds!Missing
  <2>4. Kinds!HiddenIsNotServed'
    BY <1>1 DEF Kinds!HiddenIsNotServed, Kinds!Range, Kinds!Sorted, Kinds!Missing
  <2>5. Kinds!NoRootNoFiles' /\ Kinds!WritesAreAuthorized' /\ Kinds!ReadsAreAuthorized'
    BY <1>1 DEF Kinds!NoRootNoFiles, Kinds!WritesAreAuthorized, Kinds!ReadsAreAuthorized,
       Kinds!Sorted, Kinds!Authorized, Kinds!Check, Kinds!NeedsPutPassword
  <2> QED
    BY <1>1, <2>1, <2>2, <2>3, <2>4, <2>5
<1>3. CASE Kinds!Begin
  <2> USE <1>3 DEF Kinds!Begin
  <2>1. Kinds!FlagsOK' /\ Kinds!Steps'
    BY DEF Kinds!FlagsOK, Kinds!Steps
  <2>2. Kinds!Unanswered' /\ did' \subseteq {"read", "list", "write"}
    BY <1>1 DEF Kinds!Unanswered
  <2>3. Kinds!Authorized' /\ Kinds!Sorted'
    BY DEF Kinds!Authorized, Kinds!Check, Kinds!NeedsPutPassword, Kinds!Sorted, Kinds!Missing
  <2>4. Kinds!HiddenIsNotServed'
    BY <1>1 DEF Kinds!HiddenIsNotServed, Kinds!Range, Kinds!Sorted, Kinds!Missing
  <2>5. Kinds!NoRootNoFiles' /\ Kinds!WritesAreAuthorized' /\ Kinds!ReadsAreAuthorized'
    BY <1>1 DEF Kinds!NoRootNoFiles, Kinds!WritesAreAuthorized, Kinds!ReadsAreAuthorized,
       Kinds!Sorted, Kinds!Authorized, Kinds!Check, Kinds!NeedsPutPassword
  <2> QED
    BY <1>1, <2>1, <2>2, <2>3, <2>4, <2>5
<1>4. CASE Kinds!Preflight
  <2> USE <1>4 DEF Kinds!Preflight
  <2>1. Kinds!FlagsOK' /\ Kinds!Steps'
    BY DEF Kinds!FlagsOK, Kinds!Steps
  <2>2. Kinds!Unanswered' /\ did' \subseteq {"read", "list", "write"}
    BY <1>1 DEF Kinds!Unanswered
  <2>3. Kinds!Authorized' /\ Kinds!Sorted'
    BY DEF Kinds!Authorized, Kinds!Check, Kinds!NeedsPutPassword, Kinds!Sorted, Kinds!Missing
  <2>4. Kinds!HiddenIsNotServed'
    BY <1>1 DEF Kinds!HiddenIsNotServed, Kinds!Range, Kinds!Sorted, Kinds!Missing
  <2>5. Kinds!NoRootNoFiles' /\ Kinds!WritesAreAuthorized' /\ Kinds!ReadsAreAuthorized'
    BY <1>1 DEF Kinds!NoRootNoFiles, Kinds!WritesAreAuthorized, Kinds!ReadsAreAuthorized,
       Kinds!Sorted, Kinds!Authorized, Kinds!Check, Kinds!NeedsPutPassword
  <2> QED
    BY <1>1, <2>1, <2>2, <2>3, <2>4, <2>5
<1>5. CASE Kinds!LookUp
  <2> USE <1>5 DEF Kinds!LookUp
  <2>1. Kinds!FlagsOK' /\ Kinds!Steps'
    <3>1. callback' \in BOOLEAN /\ websocket' \in BOOLEAN
      BY DEF Kinds!FlagsOK
    <3>2. write' \in BOOLEAN
      <4>1. write' = write \/ write' = (request.method \in Kinds!Writing)
        OBVIOUS
      <4>2. CASE write' = write
        BY <4>2 DEF Kinds!FlagsOK
      <4>3. CASE write' = (request.method \in Kinds!Writing)
        BY <4>3
      <4> QED
        BY <4>1, <4>2, <4>3
    <3>3. webdav' \in BOOLEAN
      BY DEF Kinds!FlagsOK
    <3>4. template' \in BOOLEAN /\ found' \in BOOLEAN
      BY DEF Kinds!FlagsOK
    <3>5. directory' \in BOOLEAN /\ gzipped' \in BOOLEAN
      BY DEF Kinds!FlagsOK
    <3>6. Kinds!Steps'
      BY DEF Kinds!Steps
    <3> QED
      BY <3>1, <3>2, <3>3, <3>4, <3>5, <3>6 DEF Kinds!FlagsOK
  <2>2. Kinds!Unanswered' /\ did' \subseteq {"read", "list", "write"}
    BY <1>1 DEF Kinds!Unanswered
  <2>3. Kinds!Authorized' /\ Kinds!Sorted'
    BY DEF Kinds!Authorized, Kinds!Check, Kinds!NeedsPutPassword, Kinds!Sorted, Kinds!Missing
  <2>4. Kinds!HiddenIsNotServed'
    BY <1>1 DEF Kinds!HiddenIsNotServed, Kinds!Range, Kinds!Sorted, Kinds!Missing
  <2>5. Kinds!NoRootNoFiles' /\ Kinds!WritesAreAuthorized' /\ Kinds!ReadsAreAuthorized'
    BY <1>1 DEF Kinds!NoRootNoFiles, Kinds!WritesAreAuthorized, Kinds!ReadsAreAuthorized,
       Kinds!Sorted, Kinds!Authorized, Kinds!Check, Kinds!NeedsPutPassword
  <2> QED
    BY <1>1, <2>1, <2>2, <2>3, <2>4, <2>5
<1>6. CASE Kinds!Interpret
  <2> USE <1>6 DEF Kinds!Interpret, Kinds!Existing, Kinds!Indexed, Kinds!Unzips
  <2>1. Kinds!FlagsOK' /\ Kinds!Steps'
    <3>1. callback' \in BOOLEAN /\ websocket' \in BOOLEAN
      BY DEF Kinds!FlagsOK
    <3>2. write' \in BOOLEAN
      <4>1. write' = write \/ write' = (request.method \in Kinds!Writing)
        OBVIOUS
      <4>2. CASE write' = write
        BY <4>2 DEF Kinds!FlagsOK
      <4>3. CASE write' = (request.method \in Kinds!Writing)
        BY <4>3
      <4> QED
        BY <4>1, <4>2, <4>3
    <3>3. webdav' \in BOOLEAN
      BY DEF Kinds!FlagsOK
    <3>4. template' \in BOOLEAN /\ found' \in BOOLEAN
      BY DEF Kinds!FlagsOK
    <3>5. directory' \in BOOLEAN /\ gzipped' \in BOOLEAN
      BY DEF Kinds!FlagsOK
    <3>6. Kinds!Steps'
      BY DEF Kinds!Steps
    <3> QED
      BY <3>1, <3>2, <3>3, <3>4, <3>5, <3>6 DEF Kinds!FlagsOK
  <2>2. Kinds!Unanswered' /\ did' \subseteq {"read", "list", "write"}
    BY <1>1 DEF Kinds!Unanswered
  <2>3. Kinds!Authorized' /\ Kinds!Sorted'
    BY DEF Kinds!Authorized, Kinds!Check, Kinds!NeedsPutPassword, Kinds!Sorted, Kinds!Missing
  <2>4. Kinds!HiddenIsNotServed'
    BY <1>1 DEF Kinds!HiddenIsNotServed, Kinds!Range, Kinds!Sorted, Kinds!Missing
  <2>5. Kinds!NoRootNoFiles' /\ Kinds!WritesAreAuthorized' /\ Kinds!ReadsAreAuthorized'
    BY <1>1 DEF Kinds!NoRootNoFiles, Kinds!WritesAreAuthorized, Kinds!ReadsAreAuthorized,
       Kinds!Sorted, Kinds!Authorized, Kinds!Check, Kinds!NeedsPutPassword
  <2> QED
    BY <1>1, <2>1, <2>2, <2>3, <2>4, <2>5
<1>7. CASE Kinds!CheckWebDav
  <2> USE <1>7 DEF Kinds!CheckWebDav
  <2>1. Kinds!FlagsOK' /\ Kinds!Steps'
    BY DEF Kinds!FlagsOK, Kinds!Steps
  <2>2. Kinds!Unanswered' /\ did' \subseteq {"read", "list", "write"}
    BY <1>1 DEF Kinds!Unanswered
  <2>3. Kinds!Authorized' /\ Kinds!Sorted'
    BY DEF Kinds!Authorized, Kinds!Check, Kinds!NeedsPutPassword, Kinds!Sorted, Kinds!Missing
  <2>4. Kinds!HiddenIsNotServed'
    BY <1>1 DEF Kinds!HiddenIsNotServed, Kinds!Range, Kinds!Sorted, Kinds!Missing
  <2>5. Kinds!NoRootNoFiles' /\ Kinds!WritesAreAuthorized' /\ Kinds!ReadsAreAuthorized'
    BY <1>1 DEF Kinds!NoRootNoFiles, Kinds!WritesAreAuthorized, Kinds!ReadsAreAuthorized,
       Kinds!Sorted, Kinds!Authorized, Kinds!Check, Kinds!NeedsPutPassword
  <2> QED
    BY <1>1, <2>1, <2>2, <2>3, <2>4, <2>5
<1>8. CASE Kinds!Authorize
  <2> USE <1>8 DEF Kinds!Authorize, Kinds!Passes, Kinds!Rejects, Kinds!PutPassword, Kinds!Password
  <2>1. Kinds!FlagsOK' /\ Kinds!Steps'
    BY DEF Kinds!FlagsOK, Kinds!Steps
  <2>2. Kinds!Unanswered' /\ did' \subseteq {"read", "list", "write"}
    BY <1>1 DEF Kinds!Unanswered
  <2>3. Kinds!Authorized' /\ Kinds!Sorted'
    BY DEF Kinds!Authorized, Kinds!Check, Kinds!NeedsPutPassword, Kinds!Sorted, Kinds!Missing
  <2>4. Kinds!HiddenIsNotServed'
    BY <1>1 DEF Kinds!HiddenIsNotServed, Kinds!Range, Kinds!Sorted, Kinds!Missing
  <2>5. Kinds!NoRootNoFiles' /\ Kinds!WritesAreAuthorized' /\ Kinds!ReadsAreAuthorized'
    BY <1>1 DEF Kinds!NoRootNoFiles, Kinds!WritesAreAuthorized, Kinds!ReadsAreAuthorized,
       Kinds!Sorted, Kinds!Authorized, Kinds!Check, Kinds!NeedsPutPassword
  <2> QED
    BY <1>1, <2>1, <2>2, <2>3, <2>4, <2>5
<1>9. CASE Kinds!CallBack
  <2> USE <1>9 DEF Kinds!CallBack
  <2>1. Kinds!FlagsOK' /\ Kinds!Steps'
    BY DEF Kinds!FlagsOK, Kinds!Steps
  <2>2. Kinds!Unanswered' /\ did' \subseteq {"read", "list", "write"}
    BY <1>1 DEF Kinds!Unanswered
  <2>3. Kinds!Authorized' /\ Kinds!Sorted'
    BY DEF Kinds!Authorized, Kinds!Check, Kinds!NeedsPutPassword, Kinds!Sorted, Kinds!Missing
  <2>4. Kinds!HiddenIsNotServed'
    BY <1>1 DEF Kinds!HiddenIsNotServed, Kinds!Range, Kinds!Sorted, Kinds!Missing
  <2>5. Kinds!NoRootNoFiles' /\ Kinds!WritesAreAuthorized' /\ Kinds!ReadsAreAuthorized'
    BY <1>1 DEF Kinds!NoRootNoFiles, Kinds!WritesAreAuthorized, Kinds!ReadsAreAuthorized,
       Kinds!Sorted, Kinds!Authorized, Kinds!Check, Kinds!NeedsPutPassword
  <2> QED
    BY <1>1, <2>1, <2>2, <2>3, <2>4, <2>5
<1>10. CASE Kinds!NobodyHandles
  <2> USE <1>10 DEF Kinds!NobodyHandles, Kinds!Root
  <2>1. Kinds!FlagsOK' /\ Kinds!Steps'
    BY DEF Kinds!FlagsOK, Kinds!Steps
  <2>2. Kinds!Unanswered' /\ did' \subseteq {"read", "list", "write"}
    BY <1>1 DEF Kinds!Unanswered
  <2>3. Kinds!Authorized' /\ Kinds!Sorted'
    BY DEF Kinds!Authorized, Kinds!Check, Kinds!NeedsPutPassword, Kinds!Sorted, Kinds!Missing
  <2>4. Kinds!HiddenIsNotServed'
    BY <1>1 DEF Kinds!HiddenIsNotServed, Kinds!Range, Kinds!Sorted, Kinds!Missing
  <2>5. Kinds!NoRootNoFiles' /\ Kinds!WritesAreAuthorized' /\ Kinds!ReadsAreAuthorized'
    BY <1>1 DEF Kinds!NoRootNoFiles, Kinds!WritesAreAuthorized, Kinds!ReadsAreAuthorized,
       Kinds!Sorted, Kinds!Authorized, Kinds!Check, Kinds!NeedsPutPassword
  <2> QED
    BY <1>1, <2>1, <2>2, <2>3, <2>4, <2>5
<1>11. CASE Kinds!Write
  <2> USE <1>11 DEF Kinds!Write
  <2>1. Kinds!FlagsOK' /\ Kinds!Steps'
    BY DEF Kinds!FlagsOK, Kinds!Steps
  <2>2. Kinds!Unanswered' /\ did' \subseteq {"read", "list", "write"}
    BY <1>1 DEF Kinds!Unanswered
  <2>3. Kinds!Authorized' /\ Kinds!Sorted'
    BY DEF Kinds!Authorized, Kinds!Check, Kinds!NeedsPutPassword, Kinds!Sorted, Kinds!Missing
  <2>4. Kinds!HiddenIsNotServed'
    BY <1>1 DEF Kinds!HiddenIsNotServed, Kinds!Range, Kinds!Sorted, Kinds!Missing
  <2>5. Kinds!NoRootNoFiles' /\ Kinds!WritesAreAuthorized' /\ Kinds!ReadsAreAuthorized'
    BY <1>1 DEF Kinds!NoRootNoFiles, Kinds!WritesAreAuthorized, Kinds!ReadsAreAuthorized,
       Kinds!Sorted, Kinds!Authorized, Kinds!Check, Kinds!NeedsPutPassword
  <2> QED
    BY <1>1, <2>1, <2>2, <2>3, <2>4, <2>5
<1>12. CASE Kinds!Exists
  <2> USE <1>12 DEF Kinds!Exists
  <2>1. Kinds!FlagsOK' /\ Kinds!Steps'
    BY DEF Kinds!FlagsOK, Kinds!Steps
  <2>2. Kinds!Unanswered' /\ did' \subseteq {"read", "list", "write"}
    BY <1>1 DEF Kinds!Unanswered
  <2>3. Kinds!Authorized' /\ Kinds!Sorted'
    BY DEF Kinds!Authorized, Kinds!Check, Kinds!NeedsPutPassword, Kinds!Sorted, Kinds!Missing
  <2>4. Kinds!HiddenIsNotServed'
    BY <1>1 DEF Kinds!HiddenIsNotServed, Kinds!Range, Kinds!Sorted, Kinds!Missing
  <2>5. Kinds!NoRootNoFiles' /\ Kinds!WritesAreAuthorized' /\ Kinds!ReadsAreAuthorized'
    BY <1>1 DEF Kinds!NoRootNoFiles, Kinds!WritesAreAuthorized, Kinds!ReadsAreAuthorized,
       Kinds!Sorted, Kinds!Authorized, Kinds!Check, Kinds!NeedsPutPassword
  <2> QED
    BY <1>1, <2>1, <2>2, <2>3, <2>4, <2>5
<1>13. CASE Kinds!Method
  <2> USE <1>13 DEF Kinds!Method
  <2>1. Kinds!FlagsOK' /\ Kinds!Steps'
    BY DEF Kinds!FlagsOK, Kinds!Steps
  <2>2. Kinds!Unanswered' /\ did' \subseteq {"read", "list", "write"}
    BY <1>1 DEF Kinds!Unanswered
  <2>3. Kinds!Authorized' /\ Kinds!Sorted'
    BY DEF Kinds!Authorized, Kinds!Check, Kinds!NeedsPutPassword, Kinds!Sorted, Kinds!Missing
  <2>4. Kinds!HiddenIsNotServed'
    BY <1>1 DEF Kinds!HiddenIsNotServed, Kinds!Range, Kinds!Sorted, Kinds!Missing
  <2>5. Kinds!NoRootNoFiles' /\ Kinds!WritesAreAuthorized' /\ Kinds!ReadsAreAuthorized'
    BY <1>1 DEF Kinds!NoRootNoFiles, Kinds!WritesAreAuthorized, Kinds!ReadsAreAuthorized,
       Kinds!Sorted, Kinds!Authorized, Kinds!Check, Kinds!NeedsPutPassword
  <2> QED
    BY <1>1, <2>1, <2>2, <2>3, <2>4, <2>5
<1>14. CASE Kinds!Serve
  <2> USE <1>14 DEF Kinds!Serve
  <2>1. Kinds!FlagsOK' /\ Kinds!Steps'
    BY DEF Kinds!FlagsOK, Kinds!Steps
  <2>2. Kinds!Unanswered' /\ did' \subseteq {"read", "list", "write"}
    BY <1>1 DEF Kinds!Unanswered
  <2>3. Kinds!Authorized' /\ Kinds!Sorted'
    BY DEF Kinds!Authorized, Kinds!Check, Kinds!NeedsPutPassword, Kinds!Sorted, Kinds!Missing
  <2>4. Kinds!HiddenIsNotServed'
    BY <1>1 DEF Kinds!HiddenIsNotServed, Kinds!Range, Kinds!Sorted, Kinds!Missing
  <2>5. Kinds!NoRootNoFiles' /\ Kinds!WritesAreAuthorized' /\ Kinds!ReadsAreAuthorized'
    BY <1>1 DEF Kinds!NoRootNoFiles, Kinds!WritesAreAuthorized, Kinds!ReadsAreAuthorized,
       Kinds!Sorted, Kinds!Authorized, Kinds!Check, Kinds!NeedsPutPassword
  <2> QED
    BY <1>1, <2>1, <2>2, <2>3, <2>4, <2>5
<1> QED
  BY <1>2, <1>3, <1>4, <1>5, <1>6, <1>7, <1>8, <1>9, <1>10, <1>11, <1>12, <1>13, <1>14
     DEF Kinds!Next

\* The configurations and requests of the two instances differ, and so does whether
\* memory may fail; what a step does is the same.
LEMMA FilesNext == Files!Next => Kinds!Next
<1> SUFFICES ASSUME Files!Next PROVE Kinds!Next
  OBVIOUS
<1> USE DEF Files!Goes, Files!Answers, Files!Does, Files!Drops, Files!At, Files!input, Files!flags,
    Kinds!Goes, Kinds!Answers, Kinds!Does, Kinds!Drops, Kinds!At, Kinds!input, Kinds!flags
<1>1. Files!Classify => Kinds!Classify
  BY DEF Files!Classify, Files!Protocol, Kinds!Classify, Kinds!Protocol
<1>2. Files!Begin => Kinds!Begin
  BY DEF Files!Begin, Kinds!Begin
<1>3. Files!Preflight => Kinds!Preflight
  BY DEF Files!Preflight, Kinds!Preflight
<1>4. Files!LookUp => Kinds!LookUp
  BY DEF Files!LookUp, Files!Writing, Kinds!LookUp, Kinds!Writing
<1>5. Files!Interpret => Kinds!Interpret
  BY DEF Files!Interpret, Files!Existing, Files!Indexed, Files!Unzips, Files!Writing, Files!Dav,
     Kinds!Interpret, Kinds!Existing, Kinds!Indexed, Kinds!Unzips, Kinds!Writing, Kinds!Dav
<1>6. Files!CheckWebDav => Kinds!CheckWebDav
  BY DEF Files!CheckWebDav, Kinds!CheckWebDav
<1>7. Files!Authorize => Kinds!Authorize
  BY DEF Files!Authorize, Files!Passes, Files!Rejects, Files!PutPassword, Files!Password,
     Files!NeedsPutPassword, Kinds!Authorize, Kinds!Passes, Kinds!Rejects, Kinds!PutPassword,
     Kinds!Password, Kinds!NeedsPutPassword
<1>8. Files!CallBack => Kinds!CallBack
  BY DEF Files!CallBack, Kinds!CallBack
<1>9. Files!NobodyHandles => Kinds!NobodyHandles
  BY DEF Files!NobodyHandles, Files!Root, Kinds!NobodyHandles, Kinds!Root
<1>10. Files!Write => Kinds!Write
  BY DEF Files!Write, Kinds!Write
<1>11. Files!Exists => Kinds!Exists
  BY DEF Files!Exists, Files!Missing, Kinds!Exists, Kinds!Missing
<1>12. (Files!Method => Kinds!Method) /\ (Files!Serve => Kinds!Serve)
  BY DEF Files!Method, Files!Serve, Kinds!Method, Kinds!Serve
<1> QED
  BY <1>1, <1>2, <1>3, <1>4, <1>5, <1>6, <1>7, <1>8, <1>9, <1>10, <1>11, <1>12
     DEF Files!Next, Kinds!Next

\* Where there is memory, only what is not looked at, and what a callback takes, is
\* not answered.
FilesInv == Kinds!DispatchInv /\ request \in FileRequests /\ Files!OneAnswer

\* The requests for files alone: those can be relied on to be answered.
LEMMA FilesInitially == Files!Init => FilesInv
<1>1. Files!Init => Len(answers) <= 1 /\ stepPc # "done" /\ request \in FileRequests
  BY DEF Files!Init
<1> QED
  BY <1>1, DispatchInit DEF FilesInv, Files!OneAnswer

\* Their steps are steps of all requests, and they are answered.
LEMMA FilesStep == FilesInv /\ Files!Next => FilesInv'
<1> SUFFICES ASSUME FilesInv, Files!Next PROVE FilesInv'
  OBVIOUS
<1>1. Kinds!Next /\ Kinds!DispatchInv /\ Kinds!DispatchInv'
  BY FilesNext, DispatchStep DEF FilesInv
<1>2. /\ UNCHANGED <<request, config>>
      /\ \/ \E st : answers' = Append(answers, st)
         \/ stepPc' # "done"
         \/ stepPc = "received" /\ request.uri \notin {"invalid", "local"}
         \/ stepPc = "begin" /\ config.begin
  BY DEF Files!Next, Files!Classify, Files!Begin, Files!Preflight, Files!LookUp, Files!Interpret,
     Files!CheckWebDav, Files!Authorize, Files!Passes, Files!Rejects, Files!PutPassword,
     Files!Password, Files!CallBack, Files!NobodyHandles, Files!Write, Files!Exists, Files!Method,
     Files!Serve, Files!Goes, Files!Answers, Files!Does, Files!Drops, Files!At, Files!input
<1>3. answers = <<>> /\ Len(answers') <= 1
  BY <1>1, OneAnswered
<1>4. request.uri \in Files!Uris
  BY RequestAssumption DEF FilesInv, Files!ConstantsAreProper
<1>5. Files!OneAnswer'
  <2>1. ASSUME NEW st, answers' = Append(answers, st) PROVE Len(answers') = 1
    BY <1>3, <2>1, OneAppended
  <2>2. stepPc' = "done" /\ ~Files!Silent' => Len(answers') = 1
    BY <1>2, <1>4, <2>1 DEF Files!Silent, Files!Uris
  <2> QED
    BY <1>3, <2>2 DEF Files!OneAnswer
<1> QED
  BY <1>1, <1>2, <1>5 DEF FilesInv

\* What the two invariants promise.
LEMMA AnswersOnce ==
  /\ FilesInv /\ part = "files" => RequestsAreChecked
  /\ Kinds!DispatchInv /\ part = "kinds" => RequestsAreChecked
<1>1. ASSUME Kinds!DispatchInv PROVE Cardinality(passed) <= 1
  <2>1. PICK c : passed \subseteq {c}
    BY <1>1 DEF Kinds!DispatchInv, Kinds!Authorized, Kinds!Steps
  <2>2. passed = {} \/ passed = {c}
    BY <2>1
  <2>3. Cardinality({}) = 0 /\ Cardinality({c}) = 1
    BY FS_EmptySet, FS_Singleton
  <2> QED
    BY <2>2, <2>3
<1>2. ASSUME Kinds!DispatchInv PROVE passed \subseteq {"callback", "put", "password", "open"}
  BY <1>2 DEF Kinds!DispatchInv, Kinds!Authorized, Kinds!Steps, Kinds!Check
<1>3. Files!Cardinality(passed) = Cardinality(passed)
  BY DEF Files!Cardinality, Cardinality, Files!IsFiniteSet, IsFiniteSet
<1>4. Kinds!DispatchInv => Files!TypeOK
  BY <1>1, <1>2, <1>3 DEF Kinds!DispatchInv, Kinds!FlagsOK, Kinds!Steps, Kinds!Sorted,
     Files!TypeOK, Files!FlagsOK
<1>5. Kinds!DispatchInv => Files!HiddenIsNotServed /\ Files!NoRootNoFiles
  BY DEF Kinds!DispatchInv, Files!HiddenIsNotServed, Files!NoRootNoFiles, Kinds!HiddenIsNotServed,
     Kinds!NoRootNoFiles, Files!Range, Kinds!Range
<1>6. Kinds!DispatchInv => Files!WritesAreAuthorized /\ Files!ReadsAreAuthorized
  BY DEF Kinds!DispatchInv, Files!WritesAreAuthorized, Files!ReadsAreAuthorized,
     Kinds!WritesAreAuthorized, Kinds!ReadsAreAuthorized
<1>7. Kinds!DispatchInv => Kinds!OneAnswer
  BY DEF Kinds!DispatchInv, Kinds!OneAnswer, Kinds!Silent
<1> QED
  BY <1>4, <1>5, <1>6, <1>7 DEF FilesInv, RequestsAreChecked

-----------------------------------------------------------------------------
(* What is written, with and without a quota: by the lemmas of OutputProofs *)

\* The quota and the lengths are as those lemmas need them.
LEMMA QuotaHolds ==
  /\ Quota \in Nat /\ Quota > 0 /\ MaxSome \in Nat /\ OneQuota
  /\ SomeJobs \subseteq Write!Writable /\ LongJobs \subseteq Write!Writable
  BY QuotaAssumption DEF Write!ConstantsAreProper, Rate!ConstantsAreProper, Write!Writable,
     Rate!Writable, OneQuota

\* Where there is always a quota all begins as where there may be one.
LEMMA QuotaBegins == Rate!Init => Write!Init
  BY QuotaHolds DEF Write!Init, Rate!Init

\* The steps of both are steps that those lemmas are about.
LEMMA WriteSteps == (Write!Next => WriteStep) /\ (Rate!Next => WriteStep)
<1> USE DEF WriteStep, Calls, Write!NextRequest, Write!Work,
     Write!Write, Write!PushEnds, Write!FirstDone, Write!AgainDone,
     Write!Returned, Write!Send, Write!Tick, Write!Leave, Write!Stop,
     Write!Pushing, Write!Cut, Write!Turn, Write!Returns, Write!Least,
     Write!Chunk, Write!Total, Write!Part, Write!quota, Write!call,
     Write!seen, Write!env
<1>1. Write!Next => WriteStep
  BY QuotaHolds DEF Write!Next, Write!Call,
     Write!NextRequest, Write!Work, Write!Write, Write!PushEnds, Write!FirstDone, Write!AgainDone,
     Write!Returned, Write!Send, Write!Tick, Write!Leave, Write!Stop, Write!Pushing, Write!Cut,
     Write!Turn, Write!Returns, Write!Least, Write!Chunk, Write!Total, Write!Part, Write!quota,
     Write!call, Write!seen, Write!env
<1>2. Rate!Next => WriteStep
  BY QuotaHolds DEF Rate!Next, Rate!Call,
     Rate!NextRequest, Rate!Work, Rate!Write, Rate!PushEnds, Rate!FirstDone, Rate!AgainDone,
     Rate!Returned, Rate!Send, Rate!Tick, Rate!Leave, Rate!Stop, Rate!Pushing, Rate!Cut,
     Rate!Turn, Rate!Returns, Rate!Least, Rate!Chunk, Rate!Total, Rate!Part, Rate!quota,
     Rate!call, Rate!seen, Rate!env
<1> QED
  BY <1>1, <1>2

\* A quota is not changed where there is only one.
LEMMA QuotaStays == throttle = Quota /\ Rate!Next => throttle' = Quota
  BY DEF Rate!Next, Rate!NextRequest, Rate!Call, Rate!Work, Rate!Write, Rate!PushEnds,
     Rate!FirstDone,
     Rate!AgainDone, Rate!Returned, Rate!Send, Rate!Tick, Rate!Leave, Rate!Stop, Rate!quota

\* Calls are counted up to their bound.
LEMMA JobsStay == jobs \in 0 .. MaxSome /\ Write!Next => jobs' \in 0 .. MaxSome
<1> SUFFICES ASSUME jobs \in 0 .. MaxSome, Write!Next PROVE jobs' \in 0 .. MaxSome
  OBVIOUS
<1>1. (\E j \in SomeJobs : Write!Call(j)) \/ jobs' = jobs
  <2>1. CASE \E t \in {0, Quota} : Write!NextRequest(t)
    BY <2>1 DEF Write!NextRequest
  <2>2. CASE \E n \in 1 .. allowed : Write!Send(n)
    BY <2>2 DEF Write!Send
  <2>3. CASE Write!Write \/ Write!PushEnds \/ Write!FirstDone \/ Write!AgainDone \/ Write!Returned
    BY <2>3, Zenon DEF Write!Write, Write!PushEnds, Write!FirstDone, Write!AgainDone, Write!Returned
  <2>4. CASE Write!Tick \/ Write!Leave \/ Write!Stop
    BY <2>4 DEF Write!Tick, Write!Leave, Write!Stop
  <2> QED
    BY <2>1, <2>2, <2>3, <2>4 DEF Write!Next, Write!Work
<1>2. jobs' = jobs \/ (jobs < MaxSome /\ jobs' = jobs + 1)
  BY <1>1 DEF Write!Call
<1> QED
  BY <1>2, QuotaHolds

-----------------------------------------------------------------------------
(* The frames of a WebSocket: what two threads write, one with the mutex.  *)

\* FlattenSeq() appends one sequence after the other: there is a function of what has
\* been appended.
LEMMA FlattenIs ==
  ASSUME NEW S, NEW s \in Seq(Seq(S)), s # <<>>
  PROVE  \E f \in [1 .. Len(s) -> Seq(S)] :
           /\ f[1] = s[1] /\ FlattenSeq(s) = f[Len(s)]
           /\ \A i \in 2 .. Len(s) : f[i] = f[i - 1] \o s[i]
<1> DEFINE n == Len(s)
           Up(g, k) == g = [i \in 1 .. k |-> IF i = 1 THEN s[i] ELSE g[i - 1] \o s[i]]
           Is(g, k) == /\ g \in [1 .. k -> Seq(S)] /\ g[1] = s[1]
                       /\ \A i \in 2 .. k : g[i] = g[i - 1] \o s[i]
           T == {k \in Nat : k \in 1 .. n => \E g : Is(g, k)}
<1>1. n \in Nat /\ n > 0 /\ \A i \in 1 .. n : s[i] \in Seq(S)
  OBVIOUS
<1> HIDE DEF n, Is, Up
<1>2. ASSUME NEW k \in Nat, k \in T PROVE k + 1 \in T
  <2> SUFFICES ASSUME k + 1 \in 1 .. n PROVE \E g : Is(g, k + 1)
    BY <1>1
  <2>1. CASE k = 0
    <3>1. Is([i \in 1 .. 1 |-> s[1]], 1)
      BY <1>1 DEF Is
    <3>2. k + 1 = 1
      BY <2>1
    <3> QED BY <3>1, <3>2
  <2>2. CASE k > 0
    <3>1. PICK g : Is(g, k)
      BY <1>1, <1>2, <2>2
    <3>0. /\ g \in [1 .. k -> Seq(S)] /\ g[1] = s[1]
          /\ \A i \in 2 .. k : g[i] = g[i - 1] \o s[i]
      BY <3>1 DEF Is
    <3> DEFINE m == k + 1
               h == [i \in 1 .. m |-> IF i = m THEN g[k] \o s[m] ELSE g[i]]
    <3>2. m \in 1 .. n /\ m = k + 1 /\ \A i \in 1 .. m : i = m \/ i \in 1 .. k
      BY <1>2, <2>2
    <3>3. g[k] \o s[m] \in Seq(S) /\ m - 1 = k
      BY <1>1, <2>2, <3>0, <3>2
    <3> HIDE DEF m
    <3>4. h \in [1 .. m -> Seq(S)]
      BY <3>0, <3>2, <3>3
    <3>5. h[1] = s[1]
      BY <2>2, <3>0, <3>2
    <3>6. \A i \in 2 .. m : h[i] = h[i - 1] \o s[i]
      <4> TAKE i \in 2 .. m
      <4>1. CASE i = m
        <5>0. m \in 1 .. m
          BY <1>1, <3>2
        <5>1. h[m] = g[k] \o s[m]
          BY <5>0
        <5>2. k \in 1 .. m /\ k # m
          BY <1>1, <2>2, <3>2
        <5>3. h[k] = g[k]
          BY <5>2
        <5> HIDE DEF h
        <5> QED BY <3>3, <4>1, <5>1, <5>3
      <4>2. CASE i \in 2 .. k
        <5>1. i \in 1 .. m /\ i # m /\ i - 1 \in 1 .. m /\ i - 1 # m
          BY <3>2, <4>2
        <5> QED BY <3>0, <4>2, <5>1
      <4>3. i \in 1 .. m /\ i > 1
        BY <1>1, <3>2
      <4>4. i = m \/ i \in 2 .. k
        BY <3>2, <4>3
      <4> QED BY <4>1, <4>2, <4>4
    <3>7. Is(h, m)
      BY <3>4, <3>5, <3>6 DEF Is
    <3> HIDE DEF h
    <3> QED BY <3>7 DEF m
  <2> QED BY <2>1, <2>2
<1>3. Nat \subseteq T
  <2>1. 0 \in T
    BY <1>1
  <2> HIDE DEF T
  <2> QED BY <1>2, <2>1, Induction
<1>4. \E g : Is(g, n)
  <2>1. n \in 1 .. n
    BY <1>1
  <2>2. n \in T
    <3> HIDE DEF T
    <3> QED BY <1>1, <1>3
  <2> QED BY <2>1, <2>2
<1>5. PICK g : Is(g, n)
  BY <1>4
<1>6. Up(g, n)
  <2>1. g = [i \in 1 .. n |-> g[i]]
    BY <1>5 DEF Is
  <2>2. \A i \in 1 .. n : g[i] = IF i = 1 THEN s[i] ELSE g[i - 1] \o s[i]
    <3> TAKE i \in 1 .. n
    <3>1. i = 1 \/ i \in 2 .. n
      BY <1>1
    <3>2. ~(1 \in 2 .. n)
      OBVIOUS
    <3>3. g[1] = s[1] /\ (i \in 2 .. n => g[i] = g[i - 1] \o s[i])
      BY <1>5 DEF Is
    <3> QED BY <3>1, <3>2, <3>3
  <2> QED BY <2>1, <2>2 DEF Up
<1> DEFINE f == CHOOSE x : Up(x, n)
<1>7. Up(f, n)
  BY <1>6
<1>8. FlattenSeq(s) = f[n]
  BY <1>1 DEF FlattenSeq, n, Up
<1> HIDE DEF f
<1>9. f[1] = s[1] /\ \A i \in 2 .. n : f[i] = f[i - 1] \o s[i]
  <2>1. \A i \in 1 .. n : f[i] = IF i = 1 THEN s[i] ELSE f[i - 1] \o s[i]
    BY <1>7 DEF Up
  <2>2. 1 \in 1 .. n /\ \A i \in 2 .. n : i \in 1 .. n /\ i # 1
    BY <1>1
  <2> QED BY <2>1, <2>2
<1>10. \A i \in 1 .. n : f[i] \in Seq(S)
  <2> DEFINE V == {k \in Nat : k \in 1 .. n => f[k] \in Seq(S)}
  <2>1. ASSUME NEW k \in Nat, k \in V PROVE k + 1 \in V
    <3> SUFFICES ASSUME k + 1 \in 1 .. n PROVE f[k + 1] \in Seq(S)
      OBVIOUS
    <3>1. CASE k = 0
      BY <1>1, <1>9, <3>1
    <3>2. CASE k > 0
      <4> DEFINE m == k + 1
      <4>1. m \in 2 .. n /\ m - 1 = k /\ k \in 1 .. n
        BY <1>1, <2>1, <3>2
      <4>2. f[k] \in Seq(S) /\ s[m] \in Seq(S)
        BY <1>1, <2>1, <4>1
      <4> HIDE DEF m
      <4>3. f[m] = f[k] \o s[m]
        BY <1>9, <4>1
      <4>4. f[m] \in Seq(S)
        BY <4>2, <4>3
      <4> QED BY <4>4 DEF m
    <3> QED BY <3>1, <3>2
  <2>2. 0 \in V
    BY <1>1
  <2>3. Nat \subseteq V
    <3> HIDE DEF V
    <3> QED BY <2>1, <2>2, Induction
  <2> QED BY <1>1, <2>3
<1>11. f \in [1 .. n -> Seq(S)]
  <2>1. f = [i \in 1 .. n |-> f[i]]
    BY <1>7 DEF Up
  <2> QED BY <1>10, <2>1
<1> QED BY <1>8, <1>9, <1>11 DEF n

\* A number is its quotient and its remainder.
LEMMA Divided ==
  ASSUME NEW n \in Nat
  PROVE  \E q \in Nat, r \in 0 .. 255 : q = n \div 256 /\ r = n % 256 /\ n = q * 256 + r
<1>1. \E q, r \in Int : q = n \div 256 /\ r = n % 256 /\ n = q * 256 + r
  OBVIOUS
<1>2. n \div 256 \in Nat /\ n % 256 \in 0 .. 255
  OBVIOUS
<1> QED BY <1>1, <1>2

\* Two bytes, and four, are the number they are taken from.
LEMMA TwoBytes ==
  ASSUME NEW n \in Nat, n < 65536
  PROVE  ((n \div 256) % 256) * 256 + ((n \div 1) % 256) = n
<1>1. PICK q \in Nat, r \in 0 .. 255 : q = n \div 256 /\ r = n % 256 /\ n = q * 256 + r
  BY SMT, Divided
<1>2. q < 256 /\ n \div 1 = n
  BY SMT, <1>1
<1>3. q % 256 = q
  BY SMT, <1>2
<1>4. q * 256 + r = n
  BY SMT, <1>1
<1> QED BY SMT, <1>1, <1>2, <1>3, <1>4

LEMMA FourBytes ==
  ASSUME NEW n \in Nat, n \div 16777216 < 256
  PROVE  ((n \div 16777216) % 256) * 16777216 + ((n \div 65536) % 256) * 65536
           + ((n \div 256) % 256) * 256 + ((n \div 1) % 256) = n
<1>1. PICK x \in Nat, d \in 0 .. 255 : x = n \div 256 /\ d = n % 256 /\ n = x * 256 + d
  BY SMT, Divided
<1>2. PICK y \in Nat, c \in 0 .. 255 : y = x \div 256 /\ c = x % 256 /\ x = y * 256 + c
  BY SMT, Divided
<1>3. PICK z \in Nat, b \in 0 .. 255 : z = y \div 256 /\ b = y % 256 /\ y = z * 256 + b
  BY SMT, Divided
<1>4. n = y * 65536 + c * 256 + d /\ n = z * 16777216 + b * 65536 + c * 256 + d
  BY SMT, <1>1, <1>2, <1>3
<1>5. n \div 65536 = y
  BY SMT, <1>4
<1>6. n \div 16777216 = z
  BY SMT, <1>4
<1>7. z < 256 /\ n \div 1 = n
  BY SMT, <1>6
<1>8. z % 256 = z
  BY SMT, <1>7
<1>9. n \div 256 = x /\ x % 256 = c /\ y % 256 = b /\ n % 256 = d
  BY <1>1, <1>2, <1>3
<1> QED BY SMT, <1>4, <1>5, <1>6, <1>7, <1>8, <1>9

\* The header of a frame without a key is two bytes and what the length takes.
LEMMA HeaderOf ==
  ASSUME NEW op, NEW k, NEW s \in Seq(Int)
  PROVE  Pings!Header(op, <<k>> \o s, <<>>) = <<128 + op, k + 0>> \o s
<1>1. Head(<<k>> \o s) = k /\ Tail(<<k>> \o s) = s
  OBVIOUS
<1>2. s \o <<>> = s
  OBVIOUS
<1> QED BY <1>1, <1>2 DEF Pings!Header

LEMMA FieldOf1 == ASSUME NEW n \in Nat, n < 126 PROVE Pings!LengthField(n) = <<n>>
BY SMT DEF Pings!LengthField

LEMMA FieldOf2 ==
  ASSUME NEW n \in Nat, n >= 126, n <= 65535
  PROVE  Pings!LengthField(n) = <<126>> \o <<(n \div 256) % 256, (n \div 1) % 256>>
<1> DEFINE a == (n \div 256) % 256
           b == (n \div 1) % 256
           s == Pings!BigEndian(n, 2)
<1>1. s = [i \in 1 .. 2 |-> IF i = 1 THEN a ELSE b]
  BY SMT DEF Pings!BigEndian, Pings!Power
<1>2. a \in Int /\ b \in Int
  BY SMT
<1>3. Pings!LengthField(n) = <<126>> \o s
  BY SMT DEF Pings!LengthField
<1> HIDE DEF a, b, s
<1>4. s = <<a, b>>
  BY SMT, <1>1, <1>2
<1>5. Pings!LengthField(n) = <<126>> \o <<a, b>>
  BY <1>3, <1>4
<1> QED BY <1>5 DEF a, b

LEMMA FieldOf8 ==
  ASSUME NEW n \in Nat, n > 65535
  PROVE  Pings!LengthField(n) = <<127>> \o
           <<0, 0, 0, 0, (n \div 16777216) % 256, (n \div 65536) % 256,
             (n \div 256) % 256, (n \div 1) % 256>>
<1> DEFINE a == (n \div 16777216) % 256
           b == (n \div 65536) % 256
           c == (n \div 256) % 256
           d == (n \div 1) % 256
           s == Pings!BigEndian(n, 8)
<1>1. s = [i \in 1 .. 8 |-> IF i < 5 THEN 0 ELSE IF i = 5 THEN a
                            ELSE IF i = 6 THEN b ELSE IF i = 7 THEN c ELSE d]
  BY SMT DEF Pings!BigEndian, Pings!Power
<1>2. a \in Int /\ b \in Int /\ c \in Int /\ d \in Int
  BY SMT
<1>3. Pings!LengthField(n) = <<127>> \o s
  BY SMT DEF Pings!LengthField
<1> HIDE DEF a, b, c, d, s
<1>4. s = <<0, 0, 0, 0, a, b, c, d>>
  BY SMT, <1>1, <1>2
<1>5. Pings!LengthField(n) = <<127>> \o <<0, 0, 0, 0, a, b, c, d>>
  BY <1>3, <1>4
<1> QED BY <1>5 DEF a, b, c, d

\* What mg_websocket_write_exec() writes as the header, read_websocket() reads as it.
LEMMA HeaderReads ==
  ASSUME NEW op \in 0 .. 15, NEW n, Pings!IsLength(n)
  PROVE  LET h == Pings!Header(op, Pings!LengthField(n), <<>>)
         IN  Pings!DataLen(h) = n /\ Pings!HeaderLen(h) = Len(h) /\ h \in Seq(Int)
<1> DEFINE h == Pings!Header(op, Pings!LengthField(n), <<>>)
<1>0. n \in Nat /\ n \div 16777216 < 256
  BY SMT DEF Pings!IsLength, Pings!Power
<1> SUFFICES Pings!DataLen(h) = n /\ Pings!HeaderLen(h) = Len(h) /\ h \in Seq(Int)
  OBVIOUS
<1>1. CASE n < 126
  <2>1. h = <<128 + op, n>>
    <3>1. Pings!LengthField(n) = <<n>>
      BY SMT, <1>0, <1>1, FieldOf1
    <3>2. Pings!Header(op, <<n>>, <<>>) = <<128 + op, n>>
      BY SMT, <1>0 DEF Pings!Header
    <3> QED BY <3>1, <3>2
  <2> HIDE DEF h
  <2>2. Pings!MaskLen(h) = 0 /\ Pings!Code(h) = n /\ Len(h) = 2
    BY SMT, <1>0, <2>1, <1>1 DEF Pings!MaskLen, Pings!Code
  <2>3. Pings!HeaderLen(h) = 2
    BY SMT, <1>0, <2>2, <1>1 DEF Pings!HeaderLen
  <2>4. Pings!DataLen(h) = n
    BY SMT, <2>2, <2>3 DEF Pings!DataLen
  <2>5. h \in Seq(Int)
    BY <1>0, <2>1
  <2> QED BY <2>2, <2>3, <2>4, <2>5
<1>2. CASE n >= 126 /\ n <= 65535
  <2> DEFINE a == (n \div 256) % 256
             b == (n \div 1) % 256
  <2>1. a \in 0 .. 255 /\ b \in 0 .. 255
    BY SMT, <1>0
  <2>2. a * 256 + b = n
    BY SMT, <1>0, <1>2, TwoBytes
  <2>3. Pings!LengthField(n) = <<126>> \o <<a, b>>
    BY <1>0, <1>2, FieldOf2
  <2> HIDE DEF a, b
  <2>4. <<a, b>> \in Seq(Int)
    BY SMT, <2>1
  <2>5. h = <<128 + op, 126 + 0>> \o <<a, b>>
    <3>1. Pings!Header(op, <<126>> \o <<a, b>>, <<>>) = <<128 + op, 126 + 0>> \o <<a, b>>
      BY ZenonT(40), HeaderOf, <2>4
    <3> QED BY <2>3, <3>1
  <2> HIDE DEF h
  <2>6. h \in Seq(Int) /\ Len(h) = 4 /\ h[2] = 126 /\ h[3] = a /\ h[4] = b
    BY SMT, <2>1, <2>5
  <2>7. Pings!MaskLen(h) = 0 /\ Pings!Code(h) = 126
    BY SMT, <2>6 DEF Pings!MaskLen, Pings!Code
  <2>8. Pings!HeaderLen(h) = 4
    BY SMT, <2>6, <2>7 DEF Pings!HeaderLen
  <2>9. Pings!DataLen(h) = n
    BY SMT, <2>1, <2>2, <2>6, <2>7, <2>8 DEF Pings!DataLen
  <2> QED BY <2>6, <2>8, <2>9
<1>3. CASE n > 65535
  <2> DEFINE a == (n \div 16777216) % 256
             b == (n \div 65536) % 256
             c == (n \div 256) % 256
             d == (n \div 1) % 256
  <2>1. a \in 0 .. 255 /\ b \in 0 .. 255 /\ c \in 0 .. 255 /\ d \in 0 .. 255
    BY SMT, <1>0
  <2>2. a * 16777216 + b * 65536 + c * 256 + d = n
    BY SMT, <1>0, FourBytes
  <2>3. Pings!LengthField(n) = <<127>> \o <<0, 0, 0, 0, a, b, c, d>>
    BY <1>0, <1>3, FieldOf8
  <2> HIDE DEF a, b, c, d
  <2>4. <<0, 0, 0, 0, a, b, c, d>> \in Seq(Int)
    BY SMT, <2>1
  <2>5. h = <<128 + op, 127 + 0>> \o <<0, 0, 0, 0, a, b, c, d>>
    <3>1. Pings!Header(op, <<127>> \o <<0, 0, 0, 0, a, b, c, d>>, <<>>)
            = <<128 + op, 127 + 0>> \o <<0, 0, 0, 0, a, b, c, d>>
      BY ZenonT(40), HeaderOf, <2>4
    <3> QED BY <2>3, <3>1
  <2> HIDE DEF h
  <2>6. /\ h \in Seq(Int) /\ Len(h) = 10 /\ h[2] = 127
        /\ h[7] = a /\ h[8] = b /\ h[9] = c /\ h[10] = d
    BY SMT, <2>1, <2>5
  <2>7. Pings!MaskLen(h) = 0 /\ Pings!Code(h) = 127
    BY SMT, <2>6 DEF Pings!MaskLen, Pings!Code
  <2>8. Pings!HeaderLen(h) = 10
    BY SMT, <2>6, <2>7 DEF Pings!HeaderLen
  <2>9. Pings!DataLen(h) = n
    BY SMT, <2>1, <2>2, <2>6, <2>7, <2>8 DEF Pings!DataLen, Pings!Power
  <2> QED BY <2>6, <2>8, <2>9
<1> QED BY SMT, <1>0, <1>1, <1>2, <1>3

\* What is written of a number is bytes.
LEMMA NumberBytes ==
  ASSUME NEW n \in Nat, NEW w \in Nat
  PROVE  Pings!BigEndian(n, w) \in Seq(Pings!Byte)
<1>1. ASSUME NEW i \in 1 .. w
      PROVE  (IF w - i > 3 THEN 0 ELSE (n \div Pings!Power(w - i)) % 256) \in Pings!Byte
  <2>1. Pings!Power(w - i) \in Nat /\ Pings!Power(w - i) > 0
    BY SMT DEF Pings!Power
  <2> DEFINE p == Pings!Power(w - i)
  <2> HIDE DEF p
  <2>2. n \div p \in Int
    BY SMT, <2>1 DEF p
  <2> DEFINE q == n \div p
  <2> HIDE DEF q
  <2>3. q % 256 \in 0 .. 255
    BY SMT, <2>2 DEF q
  <2> QED BY SMT, <2>3 DEF Pings!Byte, p, q
<1>2. Pings!BigEndian(n, w) \in [1 .. w -> Pings!Byte]
  BY <1>1 DEF Pings!BigEndian
<1> QED BY <1>2

LEMMA LengthBytes ==
  ASSUME NEW f \in Pings!FrameType
  PROVE  /\ Pings!LengthOf(f) \in Seq(Pings!Byte) /\ Pings!LengthOf(f) # <<>>
         /\ Head(Pings!LengthOf(f)) < 128
<1> DEFINE n == Len(f.data)
<1>0. n \in Nat
  BY DEF Pings!FrameType
<1> HIDE DEF n
<1>1. ASSUME NEW b \in 0 .. 127, NEW w \in Nat
      PROVE  LET s == <<b>> \o Pings!BigEndian(n, w)
             IN  s \in Seq(Pings!Byte) /\ s # <<>> /\ Head(s) < 128
  <2> DEFINE t == Pings!BigEndian(n, w)
  <2>1. t \in Seq(Pings!Byte) /\ <<b>> \in Seq(Pings!Byte)
    BY SMT, <1>0, NumberBytes DEF Pings!Byte
  <2> HIDE DEF t
  <2>2. <<b>> \o t \in Seq(Pings!Byte) /\ Len(<<b>> \o t) > 0 /\ (<<b>> \o t)[1] = b
    BY <2>1
  <2> DEFINE s == <<b>> \o t
  <2> HIDE DEF s
  <2>3. s \in Seq(Pings!Byte) /\ s # <<>> /\ Head(s) < 128
    BY <2>2 DEF s
  <2> QED BY <2>3 DEF s, t
<1>2. LET s == Pings!LengthField(n) IN s \in Seq(Pings!Byte) /\ s # <<>> /\ Head(s) < 128
  <2>1. CASE n < 126
    BY SMT, <1>0, <2>1 DEF Pings!LengthField, Pings!Byte
  <2>2. CASE n >= 126 /\ n <= 65535
    <3>1. Pings!LengthField(n) = <<126>> \o Pings!BigEndian(n, 2)
      BY SMT, <1>0, <2>2 DEF Pings!LengthField
    <3> QED BY <1>1, <3>1
  <2>3. CASE n > 65535
    <3>1. Pings!LengthField(n) = <<127>> \o Pings!BigEndian(n, 8)
      BY SMT, <1>0, <2>3 DEF Pings!LengthField
    <3> QED BY <1>1, <3>1
  <2> QED BY SMT, <1>0, <2>1, <2>2, <2>3
<1>3. LET s == <<127, 0, 0, 0, 0, 127, 255, 0, 1>>
      IN  s \in Seq(Pings!Byte) /\ s # <<>> /\ Head(s) < 128
  BY SMT DEF Pings!Byte
<1>4. LET s == <<126>> \o Pings!BigEndian(n, 2)
      IN  s \in Seq(Pings!Byte) /\ s # <<>> /\ Head(s) < 128
  BY <1>1
<1>5. LET s == <<127>> \o Pings!BigEndian(n, 8)
      IN  s \in Seq(Pings!Byte) /\ s # <<>> /\ Head(s) < 128
  BY <1>1
<1> QED BY <1>2, <1>3, <1>4, <1>5 DEF Pings!LengthOf, n

LEMMA XorByte ==
  ASSUME NEW a \in Pings!Byte, NEW b \in Pings!Byte
  PROVE  Pings!Xor(a, b) \in Pings!Byte
<1>1. ASSUME NEW p \in Nat \ {0} PROVE Pings!Bit(a, b, p) \in 0 .. p
  <2>1. a \div p \in Int /\ b \div p \in Int
    BY SMT DEF Pings!Byte
  <2>2. (a \div p + b \div p) % 2 \in 0 .. 1
    BY SMT, <2>1
  <2> DEFINE r == (a \div p + b \div p) % 2
  <2> HIDE DEF r
  <2>3. r = 0 \/ r = 1
    BY <2>2 DEF r
  <2>4. Pings!Bit(a, b, p) = p * r
    BY DEF Pings!Bit, r
  <2> QED BY SMT, <2>3, <2>4
<1> DEFINE P == Nat \ {0}
<1>2. 1 \in P /\ 2 \in P /\ 4 \in P /\ 8 \in P /\ 16 \in P /\ 32 \in P /\ 64 \in P /\ 128 \in P
  OBVIOUS
<1>3. \A p \in P : Pings!Bit(a, b, p) \in 0 .. p
  BY <1>1
<1> HIDE DEF P
<1>4. /\ Pings!Bit(a, b, 1) \in 0 .. 1 /\ Pings!Bit(a, b, 2) \in 0 .. 2
      /\ Pings!Bit(a, b, 4) \in 0 .. 4
      /\ Pings!Bit(a, b, 8) \in 0 .. 8 /\ Pings!Bit(a, b, 16) \in 0 .. 16
      /\ Pings!Bit(a, b, 32) \in 0 .. 32
      /\ Pings!Bit(a, b, 64) \in 0 .. 64 /\ Pings!Bit(a, b, 128) \in 0 .. 128
  BY <1>2, <1>3, Zenon
<1> DEFINE c == Pings!Bit(a, b, 1)   d == Pings!Bit(a, b, 2)
           e == Pings!Bit(a, b, 4)   f == Pings!Bit(a, b, 8)
           g == Pings!Bit(a, b, 16)  h == Pings!Bit(a, b, 32)
           i == Pings!Bit(a, b, 64)  j == Pings!Bit(a, b, 128)
<1>5. /\ c \in 0 .. 1 /\ d \in 0 .. 2 /\ e \in 0 .. 4 /\ f \in 0 .. 8
      /\ g \in 0 .. 16 /\ h \in 0 .. 32 /\ i \in 0 .. 64 /\ j \in 0 .. 128
  BY <1>4
<1> HIDE DEF c, d, e, f, g, h, i, j
<1>6. c + d + e + f + g + h + i + j \in 0 .. 255
  BY SMT, <1>5
<1> QED BY <1>6 DEF Pings!Xor, Pings!Byte, c, d, e, f, g, h, i, j

LEMMA MaskBytes ==
  ASSUME NEW s \in Seq(Pings!Byte),
         NEW k \in {<<>>} \cup (Pings!Byte \X Pings!Byte \X Pings!Byte \X Pings!Byte)
  PROVE  Pings!MaskData(s, k) \in Seq(Pings!Byte)
<1>2. CASE k = <<>>
  BY <1>2 DEF Pings!MaskData
<1>3. CASE k # <<>>
  <2>1. k \in Pings!Byte \X Pings!Byte \X Pings!Byte \X Pings!Byte
    BY <1>3
  <2>2. k[1] \in Pings!Byte /\ k[2] \in Pings!Byte /\ k[3] \in Pings!Byte /\ k[4] \in Pings!Byte
    BY <2>1
  <2>3. ASSUME NEW i \in DOMAIN s PROVE Pings!Xor(s[i], k[((i - 1) % 4) + 1]) \in Pings!Byte
    <3>1. i \in Nat /\ i > 0 /\ s[i] \in Pings!Byte
      OBVIOUS
    <3>2. ((i - 1) % 4) + 1 \in {1, 2, 3, 4}
      BY <3>1
    <3>3. k[((i - 1) % 4) + 1] \in Pings!Byte
      BY <2>2, <3>2
    <3> QED BY XorByte, <3>1, <3>3
  <2>4. Pings!MaskData(s, k) = [i \in 1 .. Len(s) |-> Pings!Xor(s[i], k[((i - 1) % 4) + 1])]
    BY <1>3 DEF Pings!MaskData
  <2>5. Pings!MaskData(s, k) \in [1 .. Len(s) -> Pings!Byte]
    BY <2>3, <2>4
  <2> QED BY <2>5
<1> QED BY <1>2, <1>3

LEMMA EncodeBytes == ASSUME NEW f \in Pings!FrameType PROVE Pings!Encode(f) \in Seq(Pings!Byte)
<1> DEFINE t == Pings!LengthOf(f)
           b == Head(t) + (IF f.key = <<>> THEN 0 ELSE 128)
<1>0. f.key \in {<<>>} \cup (Pings!Byte \X Pings!Byte \X Pings!Byte \X Pings!Byte)
  BY DEF Pings!FrameType
<1>1. f.op \in 0 .. 15 /\ f.data \in Seq(Pings!Byte)
  BY DEF Pings!FrameType
<1>2. t \in Seq(Pings!Byte) /\ t # <<>> /\ Head(t) < 128
  BY LengthBytes
<1> HIDE DEF t
<1>3. Head(t) \in Pings!Byte /\ Tail(t) \in Seq(Pings!Byte)
  BY <1>2
<1>4. b \in Pings!Byte /\ 128 + f.op \in Pings!Byte
  <2> DEFINE h == Head(t)
  <2>1. h \in 0 .. 255 /\ h < 128
    BY <1>2, <1>3 DEF Pings!Byte
  <2> HIDE DEF h
  <2>2. h + 0 \in 0 .. 255 /\ h + 128 \in 0 .. 255
    BY SMT, <2>1
  <2>3. b = h + 0 \/ b = h + 128
    BY DEF h
  <2>4. 128 + f.op \in 0 .. 255
    <3>1. \A o \in 0 .. 15 : 128 + o \in 0 .. 255
      BY SMT
    <3> QED BY <1>1, <3>1
  <2> HIDE DEF b
  <2> QED BY <2>2, <2>3, <2>4 DEF Pings!Byte
<1> HIDE DEF b
<1>5. f.key \in Seq(Pings!Byte)
  <2>1. CASE f.key \in Pings!Byte \X Pings!Byte \X Pings!Byte \X Pings!Byte
    <3>1. PICK c \in Pings!Byte, d \in Pings!Byte, e \in Pings!Byte, g \in Pings!Byte :
            f.key = <<c, d, e, g>>
      BY <2>1
    <3> QED BY <3>1
  <2>2. f.key = <<>> => f.key \in Seq(Pings!Byte)
    OBVIOUS
  <2> QED BY <1>0, <2>1, <2>2
<1>6. Pings!Header(f.op, t, f.key) \in Seq(Pings!Byte)
  <2>1. <<128 + f.op, b>> \in Seq(Pings!Byte)
    BY <1>4
  <2>2. <<128 + f.op, b>> \o Tail(t) \o f.key \in Seq(Pings!Byte)
    BY <1>3, <1>5, <2>1
  <2> QED BY <2>2 DEF Pings!Header, b
<1>7. Pings!MaskData(f.data, f.key) \in Seq(Pings!Byte)
  BY <1>0, <1>1, MaskBytes
<1> QED BY <1>6, <1>7 DEF Pings!Encode, t

LEMMA FlattenBytes ==
  ASSUME NEW s \in Seq(Seq(Pings!Byte))
  PROVE  Pings!FlattenSeq(s) \in Seq(Pings!Byte)
<1>0. Pings!FlattenSeq(s) = FlattenSeq(s)
  BY DEF Pings!FlattenSeq, FlattenSeq
<1>1. CASE s = <<>>
  BY <1>0, <1>1 DEF FlattenSeq
<1>2. CASE s # <<>>
  <2>1. PICK f \in [1 .. Len(s) -> Seq(Pings!Byte)] : Pings!FlattenSeq(s) = f[Len(s)]
    BY <1>0, <1>2, FlattenIs
  <2>2. Len(s) \in 1 .. Len(s)
    BY <1>2
  <2> QED BY <2>1, <2>2
<1> QED BY <1>1, <1>2

LEMMA StreamBytes == Pings!Init => bytes \in Seq(Pings!Byte)
<1> SUFFICES ASSUME Pings!Init PROVE bytes \in Seq(Pings!Byte)
  OBVIOUS
<1>1. script \in Seq(Pings!FrameType)
  BY FramesAssumption DEF Pings!Init, Pings!ConstantsAreProper
<1> DEFINE s == [i \in DOMAIN script |-> Pings!Encode(script[i])]
           text == Pings!FlattenSeq(s)
<1>2. s \in Seq(Seq(Pings!Byte))
  <2>1. \A i \in 1 .. Len(script) : Pings!Encode(script[i]) \in Seq(Pings!Byte)
    BY <1>1, EncodeBytes
  <2>2. s \in [1 .. Len(script) -> Seq(Pings!Byte)]
    BY <1>1, <2>1
  <2> QED BY <1>1, <2>2
<1> HIDE DEF s
<1>3. text \in Seq(Pings!Byte)
  BY <1>2, FlattenBytes
<1>4. \E n \in 0 .. Len(text) : bytes = SubSeq(text, 1, n)
  <2>1. \E n \in IF FALSE THEN 0 .. Len(text) ELSE {Len(text)} : bytes = SubSeq(text, 1, n)
    BY DEF Pings!Init, s
  <2> HIDE DEF text
  <2>2. Len(text) \in 0 .. Len(text)
    BY <1>3
  <2> QED BY <2>1, <2>2
<1> HIDE DEF text
<1> QED BY <1>3, <1>4

\* What a reader takes for the length of a frame that is not too long is one.
LEMMA AnnouncedIs ==
  ASSUME queue \in Seq(Pings!Byte), Pings!HeaderComplete, ~Pings!TooLong(queue)
  PROVE  Pings!IsLength(Pings!DataLen(queue)) /\ queue[1] % 16 \in 0 .. 15 /\ Len(queue) >= 2
<1>1. Len(queue) \in Nat /\ Len(queue) >= 2 /\ \A i \in 1 .. Len(queue) : queue[i] \in 0 .. 255
  <2>1. Len(queue) \in Nat /\ \A i \in 1 .. Len(queue) : queue[i] \in 0 .. 255
    <3>1. Len(queue) \in Nat /\ \A i \in 1 .. Len(queue) : queue[i] \in Pings!Byte
      OBVIOUS
    <3> QED BY <3>1 DEF Pings!Byte
  <2>2. Len(queue) < 2 => Pings!HeaderLen(queue) = 0
    BY DEF Pings!HeaderLen
  <2> QED BY <2>1, <2>2 DEF Pings!HeaderComplete
<1>2. queue[1] \in 0 .. 255 /\ queue[2] \in 0 .. 255
  BY <1>1
<1>3. /\ Pings!Code(queue) \in 0 .. 127 /\ Pings!MaskLen(queue) \in {0, 4}
      /\ queue[1] % 16 \in 0 .. 15
  <2>1. \A x \in 0 .. 255 : x % 128 \in 0 .. 127 /\ x % 16 \in 0 .. 15
    BY SMT
  <2> QED BY <1>2, <2>1 DEF Pings!Code, Pings!MaskLen
<1>4. CASE Pings!HeaderLen(queue) = 2 + Pings!MaskLen(queue)
  <2>1. Pings!DataLen(queue) = Pings!Code(queue)
    BY <1>4 DEF Pings!DataLen
  <2>2. \A x \in 0 .. 127 : x \in Nat /\ x \div Pings!Power(3) < 256
    BY SMT DEF Pings!Power
  <2> QED BY ZenonT(40), <1>1, <1>3, <2>1, <2>2 DEF Pings!IsLength
<1>5. CASE /\ Pings!HeaderLen(queue) # 2 + Pings!MaskLen(queue)
           /\ Pings!HeaderLen(queue) = 4 + Pings!MaskLen(queue)
  <2>1. Len(queue) >= 4
    BY <1>1, <1>3, <1>5 DEF Pings!HeaderComplete
  <2>2. queue[3] \in 0 .. 255 /\ queue[4] \in 0 .. 255
    BY <1>1, <2>1
  <2>3. Pings!DataLen(queue) = queue[3] * 256 + queue[4]
    BY <1>5 DEF Pings!DataLen
  <2>4. \A x, y \in 0 .. 255 : x * 256 + y \in Nat /\ (x * 256 + y) \div Pings!Power(3) < 256
    BY SMT DEF Pings!Power
  <2> QED BY ZenonT(40), <1>1, <1>3, <2>2, <2>3, <2>4 DEF Pings!IsLength
<1>6. CASE /\ Pings!HeaderLen(queue) # 2 + Pings!MaskLen(queue)
           /\ Pings!HeaderLen(queue) # 4 + Pings!MaskLen(queue)
  <2>1. Pings!HeaderLen(queue) = 10 + Pings!MaskLen(queue) /\ Len(queue) >= 10
    <3>1. Pings!HeaderLen(queue) = 10 + Pings!MaskLen(queue)
      BY <1>1, <1>3, <1>6 DEF Pings!HeaderComplete, Pings!HeaderLen
    <3> QED BY <1>1, <1>3, <3>1 DEF Pings!HeaderComplete
  <2> DEFINE a == queue[7]  b == queue[8]  c == queue[9]  d == queue[10]
  <2>2. a \in 0 .. 255 /\ b \in 0 .. 255 /\ c \in 0 .. 255 /\ d \in 0 .. 255
    BY <1>1, <2>1
  <2>3. ~(a >= 128)
    <3>1. Pings!HeaderLen(queue) > 9
      BY <1>3, <2>1
    <3> QED BY <2>1, <3>1 DEF Pings!TooLong
  <2>4. Pings!DataLen(queue) = a * Pings!Power(3) + b * Pings!Power(2) + c * 256 + d
    BY <1>6 DEF Pings!DataLen
  <2> DEFINE n == Pings!DataLen(queue)  p == Pings!Power(3)
  <2>5. p = 16777216 /\ Pings!Power(2) = 65536
    BY SMT DEF Pings!Power
  <2> HIDE DEF a, b, c, d, n, p
  <2>6. n = a * p + b * 65536 + c * 256 + d
    BY SMT, <2>4, <2>5 DEF n, p
  <2>7. n \in Nat /\ n \div p < 256
    BY SMT, <2>2, <2>3, <2>5, <2>6
  <2> QED BY <1>1, <1>3, <2>7 DEF Pings!IsLength, n, p
<1> QED BY <1>1, <1>3, <1>4, <1>5, <1>6

LEMMA WritersBegin == Pings!Init => Pings!WritersInv
<1> SUFFICES ASSUME Pings!Init PROVE Pings!WritersInv
  OBVIOUS
<1>0. Pings!IsLength(0)
  BY SMT DEF Pings!IsLength, Pings!Power
<1>1. Pings!ReaderTyped
  <2>1. queue = <<>> /\ pos = 0 /\ loopPc = "upgrade" /\ frame.op = 0 /\ frame.need = 0
    BY DEF Pings!Init, Pings!NoFrame
  <2> QED BY <1>0, <2>1, StreamBytes DEF Pings!ReaderTyped
<1>2. Pings!WriterTyped
  <2>1. /\ lock = "free" /\ at = [w \in Pings!Writers |-> "none"] /\ frames = <<>>
        /\ task = [w \in Pings!Writers |-> [op |-> 0, len |-> 0]]
    BY DEF Pings!Init, Pings!NoJob
  <2>2. /\ task \in [Pings!Writers -> [op : 0 .. 15, len : Nat]]
        /\ \A w \in Pings!Writers : task[w].len = 0
    BY <2>1
  <2> QED BY <1>0, <2>1, <2>2 DEF Pings!WriterTyped, Pings!Writers
<1>3. Pings!OneWrites
  BY DEF Pings!Init, Pings!OneWrites, Pings!Writers
<1>4. Pings!HeaderIsLast
  BY DEF Pings!Init, Pings!HeaderIsLast
<1>5. Pings!FramesAreWhole
  <2>1. frames = <<>>
    BY DEF Pings!Init
  <2> QED BY <2>1 DEF Pings!FramesAreWhole
<1> QED BY <1>1, <1>2, <1>3, <1>4, <1>5 DEF Pings!WritersInv

\* What was written does not change while nobody writes.
LEMMA OutStays == Pings!FramesAreWhole /\ frames' = frames => Pings!FramesAreWhole'
  BY DEF Pings!FramesAreWhole

\* The loop moves and writes nothing.
LEMMA LoopMoves ==
  ASSUME Pings!WritersInv, UNCHANGED <<bytes, Pings!writes>>, loopPc # "write", loopPc' # "write",
         loopPc' \in {"upgrade", "loop", "pull", "frame", "write", "over"},
         pos' \in Nat, queue' \in Seq(Pings!Byte),
         frame'.op \in 0 .. 15, Pings!IsLength(frame'.need)
  PROVE  Pings!WritersInv'
<1>1. Pings!ReaderTyped'
  BY DEF Pings!WritersInv, Pings!ReaderTyped, Pings!IsLength
<1>2. Pings!WriterTyped'
  BY DEF Pings!WritersInv, Pings!WriterTyped, Pings!writes, Pings!IsLength
<1>3. Pings!OneWrites'
  BY DEF Pings!WritersInv, Pings!OneWrites, Pings!writes
<1>4. Pings!HeaderIsLast'
  BY DEF Pings!WritersInv, Pings!HeaderIsLast, Pings!writes
<1>5. Pings!FramesAreWhole'
  BY OutStays DEF Pings!WritersInv, Pings!writes
<1> QED BY <1>1, <1>2, <1>3, <1>4, <1>5 DEF Pings!WritersInv

\* A writer calls mg_websocket_write(): nothing is written yet.
LEMMA WriterBegins ==
  ASSUME Pings!WritersInv, NEW w \in Pings!Writers, NEW op \in 0 .. 15, NEW n, Pings!IsLength(n),
         Pings!StartsWrite(w, op, n), at[w] = "none", UNCHANGED <<bytes, pos, queue>>,
         w = "R" => UNCHANGED <<loopPc, frame>>, w = "worker" => loopPc' = "write",
         frame'.op \in 0 .. 15, Pings!IsLength(frame'.need)
  PROVE  Pings!WritersInv'
<1> USE DEF Pings!StartsWrite
<1>0. at' = [at EXCEPT ![w] = "lock"] /\ task' = [task EXCEPT ![w] = [op |-> op, len |-> n]]
      /\ at \in [Pings!Writers -> {"none", "lock", "header", "data"}] /\ n \in Nat
  BY DEF Pings!WritersInv, Pings!WriterTyped, Pings!IsLength
<1>1. Pings!ReaderTyped'
  BY DEF Pings!WritersInv, Pings!ReaderTyped, Pings!IsLength, Pings!Writers
<1>2. Pings!WriterTyped'
  <2>1. task' \in [Pings!Writers -> [op : 0 .. 15, len : Nat]]
    BY <1>0 DEF Pings!WritersInv, Pings!WriterTyped
  <2>2. \A v \in Pings!Writers : Pings!IsLength(task'[v].len)
    BY <1>0 DEF Pings!WritersInv, Pings!WriterTyped
  <2> QED BY <1>0, <2>1, <2>2 DEF Pings!WritersInv, Pings!WriterTyped, Pings!IsLength
<1>3. Pings!OneWrites'
  BY <1>0 DEF Pings!WritersInv, Pings!OneWrites, Pings!Writers
<1>4. Pings!HeaderIsLast'
  <2>1. \A v \in Pings!Writers :
          (at'[v] = "data" <=> at[v] = "data") /\ (at[v] = "data" => task'[v] = task[v])
    BY <1>0 DEF Pings!WritersInv, Pings!WriterTyped
  <2> QED BY <2>1 DEF Pings!WritersInv, Pings!HeaderIsLast
<1>5. Pings!FramesAreWhole'
  BY OutStays DEF Pings!WritersInv
<1> QED BY <1>1, <1>2, <1>3, <1>4, <1>5 DEF Pings!WritersInv

\* What is cut out of bytes is bytes.
LEMMA BytesCut ==
  ASSUME NEW s \in Seq(Pings!Byte), NEW m \in Nat \ {0}, NEW n \in 0 .. Len(s), m <= n + 1
  PROVE  SubSeq(s, m, n) \in Seq(Pings!Byte)
  OBVIOUS

\* read_websocket(), and handle_websocket_request() before it.
LEMMA ReaderStep ==
  ASSUME Pings!WritersInv,
         \/ Pings!Upgrade \/ Pings!SeesStop \/ Pings!FrameTooBig \/ Pings!TakeFrame
         \/ Pings!PullPayload \/ Pings!Receive \/ Pings!ReadFails
         \/ Pings!Timeout \/ Pings!HandleFrame \/ Pings!StopServer
  PROVE  Pings!WritersInv'
<1> USE DEF Pings!WritersInv, Pings!ReaderTyped
<1>0. /\ bytes \in Seq(Pings!Byte) /\ pos \in Nat /\ queue \in Seq(Pings!Byte)
      /\ frame.op \in 0 .. 15 /\ Pings!IsLength(frame.need)
  OBVIOUS
<1>1. CASE Pings!Upgrade
  BY <1>1, LoopMoves DEF Pings!Upgrade, Pings!client, Pings!inbox, Pings!Ends
<1>2. CASE Pings!SeesStop \/ Pings!FrameTooBig
  BY <1>2, LoopMoves DEF Pings!SeesStop, Pings!FrameTooBig, Pings!LoopHead, Pings!LoopEnds,
       Pings!Ends, Pings!client, Pings!inbox
<1>3. CASE Pings!TakeFrame
  <2>1. Pings!HeaderComplete /\ ~Pings!TooLong(queue)
    BY <1>3 DEF Pings!TakeFrame
  <2>2. frame'.op = queue[1] % 16 /\ frame'.need = Pings!DataLen(queue)
    BY <1>3 DEF Pings!TakeFrame
  <2>3. frame'.op \in 0 .. 15 /\ Pings!IsLength(frame'.need)
    BY <1>0, <2>1, <2>2, AnnouncedIs
  <2>4. queue' \in Seq(Pings!Byte)
    <3> DEFINE e == Pings!HeaderLen(queue) + Pings!DataLen(queue)
    <3>1. queue' = <<>> \/ (~(e > Len(queue)) /\ queue' = Pings!Rest(e))
      BY <1>3 DEF Pings!TakeFrame
    <3>2. Pings!HeaderLen(queue) \in Nat /\ Pings!DataLen(queue) \in Nat
      <4>1. Pings!DataLen(queue) \in Nat
        BY <1>0, <2>1, AnnouncedIs DEF Pings!IsLength
      <4>2. Pings!HeaderLen(queue) \in Nat
        BY DEF Pings!HeaderLen, Pings!MaskLen
      <4> QED BY <4>1, <4>2
    <3>3. e \in Nat
      BY <3>2
    <3> HIDE DEF e
    <3>4. CASE ~(e > Len(queue)) /\ queue' = Pings!Rest(e)
      <4>1. Len(queue) \in Nat
        BY <1>0
      <4>2. e + 1 \in Nat \ {0} /\ Len(queue) \in 0 .. Len(queue) /\ e + 1 <= Len(queue) + 1
        BY <3>3, <3>4, <4>1
      <4> QED BY <1>0, <3>4, <4>2, BytesCut DEF Pings!Rest
    <3>5. CASE queue' = <<>>
      BY <3>5
    <3> QED BY <3>1, <3>4, <3>5
  <2> QED BY <1>0, <1>3, <2>3, <2>4, LoopMoves DEF Pings!TakeFrame, Pings!LoopHead, Pings!client
<1>4. CASE Pings!PullPayload
  <2>1. pos' \in Nat
    BY <1>0, <1>4 DEF Pings!PullPayload, Pings!Arriving
  <2> QED BY <1>0, <1>4, <2>1, LoopMoves DEF Pings!PullPayload, Pings!client
<1>5. CASE Pings!Receive
  <2>1. PICK k \in Pings!Arriving(Space - Len(queue)) :
          queue' = queue \o SubSeq(bytes, pos + 1, pos + k) /\ pos' = pos + k
    BY <1>5 DEF Pings!Receive
  <2>2. k \in Nat /\ pos + k <= Len(bytes)
    <3> DEFINE room == Space - Len(queue)  more == Len(bytes) - pos
    <3>1. room \in Int /\ more \in Int
      BY <1>0, FramesAssumption DEF Pings!ConstantsAreProper
    <3> HIDE DEF room, more
    <3>2. k \in 1 .. (IF room < more THEN room ELSE more)
      BY <2>1 DEF Pings!Arriving, room, more
    <3>3. k \in Nat /\ k <= more
      BY <3>1, <3>2
    <3> QED BY <1>0, <3>3 DEF more
  <2>3. SubSeq(bytes, pos + 1, pos + k) \in Seq(Pings!Byte)
    <3>1. pos + 1 \in Nat \ {0} /\ pos + k \in 0 .. Len(bytes) /\ pos + 1 <= pos + k + 1
      BY <1>0, <2>2
    <3> QED BY <1>0, <3>1, BytesCut
  <2>4. pos' \in Nat /\ queue' \in Seq(Pings!Byte)
    BY <1>0, <2>1, <2>2, <2>3
  <2> QED BY <1>0, <1>5, <2>4, LoopMoves DEF Pings!Receive, Pings!LoopHead, Pings!client
<1>6. CASE Pings!ReadFails
  BY <1>6, LoopMoves DEF Pings!ReadFails, Pings!LoopHead, Pings!LoopEnds, Pings!Ends,
       Pings!client, Pings!inbox
<1>7. CASE Pings!Timeout
  <2>1. CASE Pings!TooMany
    BY <1>7, <2>1, LoopMoves DEF Pings!Timeout, Pings!LoopHead, Pings!LoopEnds, Pings!Ends,
         Pings!client, Pings!inbox
  <2>2. CASE ~Pings!TooMany
    <3>1. at["worker"] = "none"
      BY <1>7 DEF Pings!Timeout, Pings!LoopHead, Pings!OneWrites, Pings!WriterTyped
    <3>2. Pings!IsLength(0)
      BY DEF Pings!IsLength, Pings!Power
    <3>3. /\ Pings!StartsWrite("worker", Pings!Ping, 0) /\ loopPc' = "write"
          /\ UNCHANGED <<frame, bytes, pos, queue>>
      BY <1>7, <2>2 DEF Pings!Timeout, Pings!client, Pings!inbox
    <3>4. "worker" \in Pings!Writers /\ Pings!Ping \in 0 .. 15
      BY DEF Pings!Writers, Pings!Ping
    <3> QED BY <1>0, <3>1, <3>2, <3>3, <3>4, WriterBegins
  <2> QED BY <2>1, <2>2
<1>8. CASE Pings!HandleFrame
  <2>0. frame' = Pings!NoFrame /\ Pings!IsLength(0) /\ UNCHANGED <<bytes, pos, queue>>
    BY <1>8 DEF Pings!HandleFrame, Pings!client, Pings!inbox, Pings!IsLength, Pings!Power
  <2>1. CASE UNCHANGED Pings!writes
    <3>1. loopPc = "frame" /\ pos' = pos /\ queue' = queue /\ frame'.op = 0 /\ frame'.need = 0
      BY <1>8, <2>0 DEF Pings!HandleFrame, Pings!NoFrame
    <3>2. loopPc' = "loop" \/ loopPc' = "over"
      <4>1. at["worker"] = "none" /\ at \in [Pings!Writers -> {"none", "lock", "header", "data"}]
        BY <3>1 DEF Pings!OneWrites, Pings!WriterTyped
      <4>2. ~Pings!StartsWrite("worker", Pings!Pong, frame.need)
        BY <2>1, <4>1 DEF Pings!StartsWrite, Pings!writes, Pings!Writers
      <4> QED BY <1>8, <4>2 DEF Pings!HandleFrame, Pings!LoopEnds, Pings!Ends
    <3> QED BY <1>0, <2>0, <2>1, <3>1, <3>2, LoopMoves
  <2>2. CASE Pings!StartsWrite("worker", Pings!Pong, frame.need) /\ loopPc' = "write"
    <3>1. at["worker"] = "none"
      BY <1>8 DEF Pings!HandleFrame, Pings!OneWrites, Pings!WriterTyped
    <3>2. "worker" \in Pings!Writers /\ Pings!Pong \in 0 .. 15
      BY DEF Pings!Writers, Pings!Pong
    <3> QED BY <1>0, <2>0, <2>2, <3>1, <3>2, WriterBegins DEF Pings!NoFrame
  <2> QED BY <1>8, <2>1, <2>2 DEF Pings!HandleFrame
<1>9. CASE Pings!StopServer
  <2>1. UNCHANGED <<bytes, pos, queue, loopPc, frame, lock, at, task, frames>>
    BY <1>9 DEF Pings!StopServer, Pings!client, Pings!inbox, Pings!loop, Pings!writes
  <2> QED
    BY <2>1 DEF Pings!WriterTyped, Pings!OneWrites, Pings!HeaderIsLast, Pings!FramesAreWhole,
         Pings!IsLength
<1> QED BY <1>1, <1>2, <1>3, <1>4, <1>5, <1>6, <1>7, <1>8, <1>9

\* mg_write() is called, for a header or for data.
LEMMA PieceWritten ==
  ASSUME Pings!WritersInv, NEW p \in Pings!PieceType, frames' = Append(frames, p),
         \/ /\ p.part = "header" /\ Pings!HeaderLen(p.header) = Len(p.header)
            /\ \A v \in Pings!Writers : at[v] # "data"
         \/ /\ p.part = "data" /\ frames # <<>>
            /\ frames[Len(frames)].part = "header"
            /\ Pings!DataLen(frames[Len(frames)].header) = p.len
  PROVE  Pings!FramesAreWhole'
<1> DEFINE n == Len(frames)
<1>1. /\ frames \in Seq(Pings!PieceType) /\ n \in Nat /\ Len(frames') = n + 1
      /\ DOMAIN frames' = 1 .. n + 1
      /\ frames'[n + 1] = p /\ \A i \in 1 .. n : frames'[i] = frames[i]
  BY DEF Pings!WritersInv, Pings!WriterTyped
<1> SUFFICES ASSUME NEW i \in 1 .. n + 1, \A j \in 1 .. i : frames'[j].whole
             PROVE  IF frames'[i].part = "header"
                    THEN /\ Pings!HeaderLen(frames'[i].header) = Len(frames'[i].header)
                         /\ (Pings!DataLen(frames'[i].header) > 0 /\ i < n + 1) =>
                           (/\ frames'[i + 1].part = "data"
                            /\ frames'[i + 1].len = Pings!DataLen(frames'[i].header))
                    ELSE i > 1 /\ frames'[i - 1].part = "header"
  BY <1>1 DEF Pings!FramesAreWhole
<1>2. frames # <<>> <=> n > 0
  BY <1>1
<1> HIDE DEF n
<1>3. CASE i = n + 1
  <2>1. frames'[i] = p /\ p.whole
    BY <1>1, <1>3
  <2>2. CASE p.part = "header"
    BY <1>1, <1>3, <2>1, <2>2
  <2>3. CASE p.part = "data"
    <3>1. n > 0 /\ frames[n].part = "header"
      BY <1>1, <1>2, <2>1, <2>3 DEF n
    <3>2. i - 1 = n /\ frames'[n] = frames[n] /\ i > 1
      BY <1>1, <1>3, <3>1
    <3> QED BY <2>1, <2>3, <3>1, <3>2
  <2> QED BY <2>2, <2>3 DEF Pings!PieceType
<1>4. CASE i # n + 1
  <2>1. /\ i \in 1 .. n /\ frames'[i] = frames[i]
        /\ \A j \in 1 .. i : j \in 1 .. n /\ frames[j].whole
    BY <1>1, <1>4
  <2>2. IF frames[i].part = "header"
        THEN /\ Pings!HeaderLen(frames[i].header) = Len(frames[i].header)
             /\ (Pings!DataLen(frames[i].header) > 0 /\ i < n) =>
                  (/\ frames[i + 1].part = "data"
                   /\ frames[i + 1].len = Pings!DataLen(frames[i].header))
        ELSE i > 1 /\ frames[i - 1].part = "header"
    <3>1. DOMAIN frames = 1 .. n
      BY <1>1 DEF n
    <3> QED BY <2>1, <3>1 DEF Pings!WritersInv, Pings!FramesAreWhole, n
  <2>3. CASE frames[i].part # "header"
    <3>1. i - 1 \in 1 .. n
      BY <1>1, <2>1, <2>2, <2>3
    <3> QED BY <1>1, <2>1, <2>2, <2>3, <3>1
  <2>4. CASE frames[i].part = "header" /\ i < n
    <3>1. i + 1 \in 1 .. n
      BY <1>1, <2>1, <2>4
    <3> QED BY <1>1, <2>1, <2>2, <2>4, <3>1
  <2>5. CASE frames[i].part = "header" /\ i = n
    <3>1. SUFFICES ASSUME Pings!DataLen(frames[n].header) > 0
                   PROVE  /\ frames'[n + 1].part = "data"
                          /\ frames'[n + 1].len = Pings!DataLen(frames[n].header)
      BY <2>1, <2>2, <2>5
    <3>2. \A j \in DOMAIN frames : frames[j].whole
      <4>1. DOMAIN frames = 1 .. n
        BY <1>1 DEF n
      <4> QED BY <1>1, <2>1, <2>5, <4>1
    <3>3. frames # <<>>
      BY <1>2, <2>1, <2>5
    <3>4. \E v \in Pings!Writers : at[v] = "data"
      BY <2>5, <3>1, <3>2, <3>3 DEF Pings!WritersInv, Pings!HeaderIsLast, n
    <3> QED BY <1>1, <3>4 DEF n
  <2> QED BY <1>1, <2>1, <2>3, <2>4, <2>5
<1> QED BY <1>3, <1>4

\* A call returns: its writer has the mutex no more.
LEMMA WriterEnds ==
  ASSUME Pings!WritersInv, NEW w \in Pings!Writers, NEW ok, Pings!Written(w, ok),
         at[w] \in {"header", "data"},
         UNCHANGED <<bytes, pos, queue, frame>>
  PROVE  /\ Pings!ReaderTyped' /\ Pings!OneWrites'
         /\ lock' \in Pings!Writers \cup {"free"}
         /\ at' \in [Pings!Writers -> {"none", "lock", "header", "data"}]
         /\ task' \in [Pings!Writers -> [op : 0..15, len : Nat]]
         /\ \A v \in Pings!Writers : Pings!IsLength(task'[v].len)
         /\ \A v \in Pings!Writers : at'[v] # "data"
<1>0. /\ at' = [at EXCEPT ![w] = "none"] /\ task' = [task EXCEPT ![w] = Pings!NoJob]
      /\ lock' = "free"
      /\ at \in [Pings!Writers -> {"none", "lock", "header", "data"}]
      /\ task \in [Pings!Writers -> [op : 0 .. 15, len : Nat]]
      /\ \A v \in Pings!Writers : Pings!IsLength(task[v].len)
      /\ \A v \in Pings!Writers : lock = v <=> at[v] \in {"header", "data"}
  BY DEF Pings!WritersInv, Pings!WriterTyped, Pings!OneWrites, Pings!Written
<1>1. IF w = "worker" THEN loopPc' = "loop" \/ loopPc' = "over" ELSE loopPc' = loopPc
  BY DEF Pings!Written, Pings!LoopEnds, Pings!Ends
<1>2. Pings!ReaderTyped'
  BY <1>1 DEF Pings!WritersInv, Pings!ReaderTyped, Pings!IsLength
<1>3. \A v \in Pings!Writers : at'[v] \notin {"header", "data"}
  BY <1>0
<1>4. Pings!OneWrites'
  <2>1. loopPc' = "write" <=> at'["worker"] # "none"
    <3>1. w = "worker" \/ at'["worker"] = at["worker"]
      BY <1>0 DEF Pings!Writers
    <3> QED BY <1>0, <1>1, <3>1 DEF Pings!WritersInv, Pings!OneWrites, Pings!Writers
  <2> QED BY <1>0, <1>3, <2>1 DEF Pings!OneWrites, Pings!Writers
<1>5. /\ task' \in [Pings!Writers -> [op : 0 .. 15, len : Nat]]
      /\ \A v \in Pings!Writers : Pings!IsLength(task'[v].len)
  <2>1. Pings!NoJob \in [op : 0 .. 15, len : Nat] /\ Pings!IsLength(Pings!NoJob.len)
    BY DEF Pings!NoJob, Pings!IsLength, Pings!Power
  <2>2. \A v \in Pings!Writers : task'[v] = task[v] \/ task'[v] = Pings!NoJob
    BY <1>0
  <2>3. task' \in [Pings!Writers -> [op : 0 .. 15, len : Nat]]
    BY <1>0, <2>1
  <2> QED BY <1>0, <2>1, <2>2, <2>3
<1> QED BY <1>0, <1>2, <1>3, <1>4, <1>5

\* What is written has its type, whatever writes it.
LEMMA OutTyped ==
  ASSUME frames \in Seq(Pings!PieceType), NEW p \in Pings!PieceType, frames' = Append(frames, p)
  PROVE  /\ frames' \in Seq(Pings!PieceType) /\ frames' # <<>> /\ frames'[Len(frames')] = p
         /\ (\A j \in DOMAIN frames' : frames'[j].whole) => p.whole
<1>1. /\ frames' \in Seq(Pings!PieceType) /\ Len(frames') = Len(frames) + 1
      /\ frames'[Len(frames) + 1] = p /\ Len(frames) \in Nat
  OBVIOUS
<1>2. Len(frames) + 1 \in DOMAIN frames' /\ frames' # <<>>
  BY <1>1
<1> QED BY <1>1, <1>2

\* Each writer: it waits for the mutex, writes the header, then the data.
LEMMA WriterMoves ==
  ASSUME Pings!WritersInv, NEW w \in Pings!Writers, Pings!WriterStep(w) PROVE Pings!WritersInv'
<1>0. /\ at \in [Pings!Writers -> {"none", "lock", "header", "data"}]
      /\ frames \in Seq(Pings!PieceType)
      /\ task \in [Pings!Writers -> [op : 0 .. 15, len : Nat]]
      /\ \A v \in Pings!Writers : Pings!IsLength(task[v].len)
      /\ \A v \in Pings!Writers : lock = v <=> at[v] \in {"header", "data"}
      /\ task[w].op \in 0 .. 15 /\ task[w].len \in Nat /\ Pings!IsLength(task[w].len)
  BY DEF Pings!WritersInv, Pings!WriterTyped, Pings!OneWrites
<1>1. CASE Pings!Lock(w)
  <2>1. /\ at' = [at EXCEPT ![w] = "header"] /\ lock' = w /\ lock = "free" /\ at[w] = "lock"
        /\ UNCHANGED <<bytes, pos, queue, loopPc, frame, task, frames>>
    BY <1>1 DEF Pings!Lock, Pings!MayLock, Pings!client, Pings!inbox, Pings!loop
  <2>2. \A v \in Pings!Writers :
          at[v] \notin {"header", "data"} /\ (at'[v] = IF v = w THEN "header" ELSE at[v])
    BY <1>0, <2>1 DEF Pings!Writers
  <2>3. Pings!ReaderTyped' /\ Pings!WriterTyped'
    BY <1>0, <2>1 DEF Pings!WritersInv, Pings!ReaderTyped, Pings!WriterTyped, Pings!IsLength
  <2>4. Pings!OneWrites'
    BY <2>1, <2>2 DEF Pings!WritersInv, Pings!OneWrites, Pings!Writers
  <2>5. Pings!HeaderIsLast'
    <3>1. /\ ~(\E v \in Pings!Writers : at[v] = "data")
          /\ ~(\E v \in Pings!Writers : at'[v] = "data")
      BY <2>2
    <3> QED BY <2>1, <3>1 DEF Pings!WritersInv, Pings!HeaderIsLast
  <2> QED BY <2>1, <2>3, <2>4, <2>5, OutStays DEF Pings!WritersInv
<1>2. CASE Pings!SendHeader(w)
  <2> DEFINE h == Pings!Header(task[w].op, Pings!LengthField(task[w].len), <<>>)
  <2>1. PICK whole \in BOOLEAN :
          /\ frames' = Append(frames, Pings!Piece("header", h, 0, whole))
          /\ IF whole /\ task[w].len > 0
             THEN /\ at' = [at EXCEPT ![w] = "data"]
                  /\ UNCHANGED <<lock, task, loopPc, why, calls, pings>>
             ELSE Pings!Written(w, whole)
    BY <1>2 DEF Pings!SendHeader
  <2>2. at[w] = "header" /\ UNCHANGED <<bytes, pos, queue, frame>>
    BY <1>2 DEF Pings!SendHeader, Pings!client, Pings!inbox
  <2>3. Pings!DataLen(h) = task[w].len /\ Pings!HeaderLen(h) = Len(h) /\ h \in Seq(Int)
    BY <1>0, HeaderReads
  <2> DEFINE p == Pings!Piece("header", h, 0, whole)
  <2> HIDE DEF h
  <2>4. p \in Pings!PieceType /\ p.part = "header" /\ p.header = h /\ p.whole = whole
    BY <2>1, <2>3 DEF Pings!Piece, Pings!PieceType
  <2>5. \A v \in Pings!Writers : v # w => at[v] \notin {"header", "data"}
    BY <1>0, <2>2
  <2>6. \A v \in Pings!Writers : at[v] # "data"
    BY <2>2, <2>5
  <2>7. frames' = Append(frames, p)
    BY <2>1
  <2> HIDE DEF p
  <2>8. Pings!FramesAreWhole'
    BY <2>3, <2>4, <2>6, <2>7, PieceWritten
  <2>9. /\ frames' \in Seq(Pings!PieceType) /\ frames' # <<>> /\ frames'[Len(frames')] = p
        /\ (\A j \in DOMAIN frames' : frames'[j].whole) => whole
    BY <1>0, <2>4, <2>7, OutTyped
  <2>10. CASE whole /\ task[w].len > 0
    <3>1. at' = [at EXCEPT ![w] = "data"] /\ UNCHANGED <<lock, task, loopPc>>
      BY <2>1, <2>10
    <3>2. Pings!ReaderTyped' /\ Pings!WriterTyped'
      BY <1>0, <2>2, <2>9, <3>1 DEF Pings!WritersInv, Pings!ReaderTyped, Pings!WriterTyped,
           Pings!IsLength
    <3>3. Pings!OneWrites'
      BY <1>0, <2>2, <3>1 DEF Pings!WritersInv, Pings!OneWrites, Pings!Writers
    <3>4. Pings!HeaderIsLast'
      <4>1. at'[w] = "data" /\ \A v \in Pings!Writers : at'[v] = "data" => v = w
        BY <1>0, <2>6, <3>1
      <4> QED BY <2>3, <2>4, <2>9, <2>10, <3>1, <4>1 DEF Pings!HeaderIsLast
    <3> QED BY <2>8, <3>2, <3>3, <3>4 DEF Pings!WritersInv
  <2>11. CASE ~(whole /\ task[w].len > 0)
    <3>1. Pings!Written(w, whole)
      BY <2>1, <2>11
    <3>2. /\ Pings!ReaderTyped' /\ Pings!OneWrites' /\ \A v \in Pings!Writers : at'[v] # "data"
          /\ lock' \in Pings!Writers \cup {"free"}
          /\ at' \in [Pings!Writers -> {"none", "lock", "header", "data"}]
          /\ task' \in [Pings!Writers -> [op : 0..15, len : Nat]]
          /\ \A v \in Pings!Writers : Pings!IsLength(task'[v].len)
      BY <2>2, <3>1, WriterEnds
    <3>3. Pings!WriterTyped'
      BY <2>9, <3>2 DEF Pings!WriterTyped, Pings!IsLength
    <3>4. Pings!HeaderIsLast'
      <4>1. whole => ~(Pings!DataLen(p.header) > 0)
        BY <1>0, <2>3, <2>4, <2>11
      <4> QED BY <2>9, <3>2, <4>1 DEF Pings!HeaderIsLast
    <3> QED BY <2>8, <3>2, <3>3, <3>4 DEF Pings!WritersInv
  <2> QED BY <2>10, <2>11
<1>3. CASE Pings!SendData(w)
  <2>1. PICK whole \in BOOLEAN :
          /\ frames' = Append(frames, Pings!Piece("data", <<>>, task[w].len, whole))
          /\ Pings!Written(w, whole)
    BY <1>3 DEF Pings!SendData
  <2>2. at[w] = "data" /\ UNCHANGED <<bytes, pos, queue, frame>>
    BY <1>3 DEF Pings!SendData, Pings!client, Pings!inbox
  <2> DEFINE p == Pings!Piece("data", <<>>, task[w].len, whole)
  <2>3. p \in Pings!PieceType /\ p.part = "data" /\ p.len = task[w].len
    <3> DEFINE e == <<>>
    <3>1. e \in Seq(Int)
      OBVIOUS
    <3> HIDE DEF e
    <3>2. p = Pings!Piece("data", e, task[w].len, whole)
      BY DEF e
    <3> QED BY <1>0, <2>1, <3>1, <3>2 DEF Pings!Piece, Pings!PieceType
  <2>4. frames' = Append(frames, p)
    BY <2>1
  <2> HIDE DEF p
  <2>5. /\ frames # <<>> /\ frames[Len(frames)].part = "header"
        /\ Pings!DataLen(frames[Len(frames)].header) = p.len
    BY <2>2, <2>3 DEF Pings!WritersInv, Pings!HeaderIsLast
  <2>6. Pings!FramesAreWhole'
    BY <2>3, <2>4, <2>5, PieceWritten
  <2>7. frames' \in Seq(Pings!PieceType) /\ frames'[Len(frames')] = p
    BY <1>0, <2>3, <2>4, OutTyped
  <2>8. /\ Pings!ReaderTyped' /\ Pings!OneWrites' /\ \A v \in Pings!Writers : at'[v] # "data"
        /\ lock' \in Pings!Writers \cup {"free"}
        /\ at' \in [Pings!Writers -> {"none", "lock", "header", "data"}]
        /\ task' \in [Pings!Writers -> [op : 0..15, len : Nat]]
        /\ \A v \in Pings!Writers : Pings!IsLength(task'[v].len)
    BY <2>1, <2>2, WriterEnds
  <2>9. Pings!WriterTyped'
    BY <2>7, <2>8 DEF Pings!WriterTyped, Pings!IsLength
  <2>10. Pings!HeaderIsLast'
    BY <2>3, <2>7, <2>8 DEF Pings!HeaderIsLast
  <2> QED BY <2>6, <2>8, <2>9, <2>10 DEF Pings!WritersInv
<1> QED BY <1>1, <1>2, <1>3 DEF Pings!WriterStep

\* R's thread sends a message.
LEMMA SendStarts ==
  ASSUME Pings!WritersInv, NEW n \in Lengths, Pings!Sends(n)
  PROVE  Pings!WritersInv'
<1>1. Pings!IsLength(n)
  BY FramesAssumption DEF Pings!ConstantsAreProper
<1>2. "R" \in Pings!Writers /\ Pings!Text \in 0 .. 15
  BY DEF Pings!Writers, Pings!Text
<1>3. frame.op \in 0 .. 15 /\ Pings!IsLength(frame.need)
  BY DEF Pings!WritersInv, Pings!ReaderTyped
<1>4. /\ Pings!StartsWrite("R", Pings!Text, n) /\ at["R"] = "none"
      /\ UNCHANGED <<bytes, pos, queue, loopPc, frame>>
  BY DEF Pings!Sends, Pings!client, Pings!inbox, Pings!loop
<1> QED BY <1>1, <1>2, <1>3, <1>4, WriterBegins

\* Every step.
LEMMA WritersStep == Pings!WritersInv /\ [Pings!Next]_wsVars => Pings!WritersInv'
<1> SUFFICES ASSUME Pings!WritersInv, [Pings!Next]_wsVars PROVE Pings!WritersInv'
  OBVIOUS
<1>1. CASE Pings!Next
  BY <1>1, ReaderStep, WriterMoves, SendStarts DEF Pings!Next, Pings!LoopStep
<1>2. CASE UNCHANGED wsVars
  <2>1. UNCHANGED <<bytes, pos, queue, loopPc, frame, lock, at, task, frames>>
    BY <1>2 DEF wsVars
  <2> QED
    BY <2>1 DEF Pings!WritersInv, Pings!ReaderTyped, Pings!WriterTyped, Pings!OneWrites,
         Pings!HeaderIsLast, Pings!FramesAreWhole, Pings!IsLength
<1> QED BY <1>1, <1>2

-----------------------------------------------------------------------------
(* The parts together.                                                     *)

RequestInv ==
  /\ part = "files" => FilesInv
  /\ part = "kinds" => Kinds!DispatchInv
OutputInv ==
  /\ Write!WriteInv
  /\ part = "write" => jobs \in 0 .. MaxSome
  /\ part = "rate" => throttle = Quota /\ Write!RateInv(Quota)
SocketInv     == part = "pings" => Pings!WritersInv
AnswerInv     == part = "respond" => Respond!ResponseInv
ConnectionInv == Client!ClientInv /\ RequestInv /\ OutputInv /\ SocketInv /\ AnswerInv

\* Where a behaviour begins.
LEMMA ConnectionBegins == ConnectionInit => ConnectionInv
<1> SUFFICES ASSUME ConnectionInit PROVE ConnectionInv
  OBVIOUS
<1>1. Client!ClientInv
  BY ClientInit DEF ConnectionInit
<1>2. RequestInv
  BY DispatchInit, FilesInitially DEF ConnectionInit, RequestInv
<1>3. OutputInv
  <2>1. Write!Init \/ Rate!Init
    BY DEF ConnectionInit
  <2>2. part = "write" => jobs \in 0 .. MaxSome
    BY <2>1, QuotaHolds DEF Write!Init, Rate!Init
  <2>3. ASSUME part = "rate" PROVE throttle = Quota /\ Write!RateInv(Quota)
    <3>1. Rate!Init
      BY <2>3 DEF ConnectionInit
    <3>2. throttle = Quota
      BY <3>1 DEF Rate!Init
    <3> QED
      BY <3>1, <3>2, QuotaHolds, QuotaBegins, RateBegins
  <2> QED
    BY <2>1, <2>2, <2>3, QuotaHolds, QuotaBegins, WriteInit DEF OutputInv
<1>4. SocketInv
  BY WritersBegin DEF ConnectionInit, SocketInv
<1>5. AnswerInv
  BY ResponsesBegin DEF ConnectionInit, AnswerInv
<1> QED
  BY <1>1, <1>2, <1>3, <1>4, <1>5 DEF ConnectionInv

\* A step is one of the component that the behaviour is about.
LEMMA PartMoves ==
  ASSUME [ConnectionNext]_all
  PROVE  /\ part' = part
         /\ [Client!Next]_clientVars
         /\ \/ UNCHANGED stepVars
            \/ part = "files" /\ Files!Next
            \/ part = "kinds" /\ Kinds!Next
         /\ \/ UNCHANGED writeVars
            \/ part = "write" /\ Write!Next
            \/ part = "rate" /\ Rate!Next
         /\ part = "pings" => [Pings!Next]_wsVars
         /\ part = "respond" => [Respond!Next]_answerVars
  BY DEF ConnectionNext, all, OfBody, OfRequest, OfWrite, OfAnswer, OfWs, OfClient

\* A request does not change while another part moves.
LEMMA RequestStays == Kinds!DispatchInv /\ UNCHANGED stepVars => Kinds!DispatchInv'
<1> SUFFICES ASSUME Kinds!DispatchInv, UNCHANGED stepVars PROVE Kinds!DispatchInv'
  OBVIOUS
<1> USE DEF stepVars, Kinds!DispatchInv
<1>1. Kinds!FlagsOK' /\ Kinds!Steps'
  BY DEF Kinds!FlagsOK, Kinds!Steps
<1>2. Kinds!Unanswered' /\ Kinds!Sorted'
  BY DEF Kinds!Unanswered, Kinds!Sorted, Kinds!Missing
<1>3. Kinds!Authorized'
  BY DEF Kinds!Authorized, Kinds!Check, Kinds!NeedsPutPassword
<1>4. Kinds!HiddenIsNotServed' /\ Kinds!NoRootNoFiles' /\ Kinds!WritesAreAuthorized'
      /\ Kinds!ReadsAreAuthorized'
  BY DEF Kinds!HiddenIsNotServed, Kinds!NoRootNoFiles, Kinds!WritesAreAuthorized,
     Kinds!ReadsAreAuthorized, Kinds!Range
<1>5. (Len(answers) <= 1)'
  OBVIOUS
<1> QED
  BY <1>1, <1>2, <1>3, <1>4, <1>5

\* Nor does what the requests for files were told.
LEMMA FilesStay == FilesInv /\ UNCHANGED stepVars => FilesInv'
  BY RequestStays DEF FilesInv, stepVars, Files!OneAnswer, Files!Silent

\* Nor what was written, while another part moves.
LEMMA OutputStays == OutputInv /\ UNCHANGED <<part, writeVars>> => OutputInv'
<1> SUFFICES ASSUME OutputInv, UNCHANGED <<part, writeVars>> PROVE OutputInv'
  OBVIOUS
<1>1. Write!WriteInv'
  BY DEF OutputInv, writeVars, Write!WriteInv, Write!Ranges, Write!Parts,
     Write!Chunk, Write!Pushed, Write!Pushing, Write!Before,
     Write!InFirst, Write!Broken, Write!Reported, Write!Charged
<1>2. Write!RateInv(Quota) => Write!RateInv(Quota)'
  BY DEF writeVars, Write!RateInv, Write!Seen, Write!InFirst, Write!Broken
<1> QED
  BY <1>1, <1>2 DEF OutputInv, writeVars

\* Every step.
LEMMA ConnectionStep == ConnectionInv /\ [ConnectionNext]_all => ConnectionInv'
<1> SUFFICES ASSUME ConnectionInv, [ConnectionNext]_all PROVE ConnectionInv'
  OBVIOUS
<1>1. Client!ClientInv'
  BY PartMoves, ClientStep DEF ConnectionInv
<1>2. RequestInv'
  BY PartMoves, RequestStays, FilesStay, DispatchStep, FilesStep DEF ConnectionInv, RequestInv
<1>3. OutputInv'
  <2>1. CASE UNCHANGED writeVars
    BY <2>1, PartMoves, OutputStays DEF ConnectionInv
  <2>2. CASE part = "write" /\ Write!Next
    <3>1. Write!WriteInv' /\ part' = part
      BY <2>2, PartMoves, WriteSteps, QuotaHolds, WriteInvStep DEF ConnectionInv, OutputInv
    <3> QED
      BY <2>2, <3>1, JobsStay DEF ConnectionInv, OutputInv
  <2>3. CASE part = "rate" /\ Rate!Next
    <3>1. Write!WriteInv' /\ part' = part
      BY <2>3, PartMoves, WriteSteps, QuotaHolds, WriteInvStep DEF ConnectionInv, OutputInv
    <3>2. throttle = Quota /\ throttle' = Quota
      BY <2>3, QuotaStays DEF ConnectionInv, OutputInv
    <3>3. Write!RateInv(Quota)'
      BY <2>3, <3>2, WriteSteps, QuotaHolds, RateStep DEF ConnectionInv, OutputInv
    <3> QED
      BY <2>3, <3>1, <3>2, <3>3 DEF OutputInv
  <2> QED
    BY <2>1, <2>2, <2>3, PartMoves
<1>4. SocketInv'
  BY PartMoves, WritersStep DEF ConnectionInv, SocketInv
<1>5. AnswerInv'
  <2>1. part' = part /\ (part = "respond" => [Respond!Next]_answerVars)
    BY PartMoves
  <2>2. part = "respond" => Respond!ResponseInv'
    BY <2>1, ResponsesStep DEF ConnectionInv, AnswerInv
  <2> QED
    BY <2>1, <2>2 DEF AnswerInv
<1> QED
  BY <1>1, <1>2, <1>3, <1>4, <1>5 DEF ConnectionInv

\* All parts hold along every behaviour.
LEMMA ConnectionInductive == ConnectionSpec => []ConnectionInv
  BY ConnectionBegins, ConnectionStep, PTL DEF ConnectionSpec

\* What a connection of the client owns is freed once, also by calls that fail, and
\* never under its thread: for any ways to connect, timeouts and numbers of requests.
THEOREM ClientFrees == ConnectionSpec => []ConnectionsAreFreed
<1>1. ConnectionInv => ConnectionsAreFreed
  BY ClientIs DEF ConnectionInv
<1> QED
  BY <1>1, ConnectionInductive, PTL

\* A request is answered once, and touches only files that its checks were passed for:
\* for any configurations, targets and requests.
THEOREM RequestsChecked == ConnectionSpec => []RequestsAreChecked
<1>1. ConnectionInv => RequestsAreChecked
  BY AnswersOnce DEF ConnectionInv, RequestInv, RequestsAreChecked
<1> QED
  BY <1>1, ConnectionInductive, PTL

\* What is reported as written has left, in order, whole unless the connection is
\* broken, and near the quota: for any quota and any lengths.
THEOREM WritesReported == ConnectionSpec => []WritesAreReported
<1>1. ASSUME OutputInv PROVE WritesAreReported
  <2>1. /\ Write!Ranges /\ Write!ReportsAtMostWhatWent
        /\ Write!WholeUnlessBroken /\ Write!PartsInOrder
    BY <1>1, QuotaHolds, WritePromises DEF OutputInv
  <2>2. part = "write" => Write!TypeOK
    BY <1>1, <2>1 DEF OutputInv, Write!TypeOK, Write!WriteInv, Write!Ranges, Write!Total, Write!Part
  <2>3. part = "rate" => Rate!NearThrottle
    BY <1>1 DEF OutputInv, Write!RateInv, Rate!NearThrottle
  <2> QED
    BY <2>1, <2>2, <2>3 DEF WritesAreReported
<1> QED
  BY <1>1, ConnectionInductive, PTL DEF ConnectionInv

\* Frames of the worker and of another thread do not mix on the wire, and each header
\* announces the data behind it as read_websocket() reads it: for any frames of the
\* client, any lengths that four bytes hold, and any writes that fail.
THEOREM FramesStayWhole == ConnectionSpec => []FramesAreWhole
<1>1. ConnectionInv => FramesAreWhole
  BY DEF ConnectionInv, SocketInv, Pings!WritersInv, FramesAreWhole
<1> QED
  BY <1>1, ConnectionInductive, PTL

\* However a response is cut short, and whatever an error handler does, the client gets
\* one head before the body, or no head at all after a status that CivetWeb refuses; a
\* connection goes on only after a response whose end the client can see, and never after
\* a "close": for any status and headers that R gives where connections are closed, as
\* server.c has it, and where they are kept for those that ConstantsAreProper names; for
\* any callback for errors and any lengths.
THEOREM ResponsesDelimited == ConnectionSpec => []ResponsesAreDelimited
<1>1. ConnectionInv => ResponsesAreDelimited
  BY ResponsesDelimit DEF ConnectionInv, AnswerInv, ResponsesAreDelimited
<1> QED
  BY <1>1, ConnectionInductive, PTL

==============================================================================
