----------------------------- MODULE MCConnection ----------------------------
(***************************************************************************)
(* The components of CivetWeb that live as long as a connection does, side *)
(* by side: its requests and their bodies, what is done with a request,    *)
(* what is written and how, a WebSocket, and a connection of the client.   *)
(* As in MCServer they share nothing, so their steps are not interleaved:  *)
(* part says which of them a behaviour is about, and for which instance of *)
(* it, and the others stay as they began.                                  *)
(***************************************************************************)
EXTENDS MCOutput

CONSTANTS
  Configs, Targets, FileRequests, AllRequests, PackageConfigs,     \* of RequestDispatch
  PingScripts, Space, MemSize, MaxPings, Lengths, MaxSends,         \* of WebSocketStream
  Apis, Timeouts, Default, MaxClock, MaxRequests, Interims          \* of ClientConnection

VARIABLES
  part,
  \* BodyStream
  stream, pulled, stalled, stop_flag, buf, request_len, content_len, consumed_content, is_chunked,
  must_close, handled_requests, readPc, reader, left, all_read, line, crlf_count, returned,
  req_body, too_large, failed,
  \* RequestDispatch
  config, target, request, handler, stepPc, protocol, callback, websocket, write, webdav, template,
  found, directory, gzipped, passed, answers, did,
  \* WebSocketStream
  upgrade, calls, answer, chosen, script, bytes, closes, pos, queue, loopPc, why, frame, data, taken,
  got, pings, wsStop, lock, task, at, sends, frames,
  \* ClientConnection
  userPc, api, held, misuse, ctype, stopFlag, thread, ebuf, ret, timeout, clock, sent, due, arrived,
  rest

bodyVars   == <<stream, pulled, stalled, stop_flag, buf, request_len, content_len, consumed_content,
                is_chunked, must_close, handled_requests, readPc, reader, left, all_read, line,
                crlf_count, returned, req_body, too_large, failed>>
stepVars   == <<config, target, request, handler, stepPc, protocol, callback, websocket, write, webdav,
                template, found, directory, gzipped, passed, answers, did>>
wsVars     == <<upgrade, calls, answer, chosen, script, bytes, closes, pos, queue, loopPc, why, frame,
                data, taken, got, pings, wsStop, lock, task, at, sends, frames>>
clientVars == <<userPc, api, held, misuse, ctype, stopFlag, thread, ebuf, ret, timeout, clock, sent, due,
                arrived, rest>>
all == <<part, bodyVars, stepVars, writeVars, answerVars, wsVars, clientVars>>

-----------------------------------------------------------------------------
(* What clients send to BodyStream: sequences of encoded messages.         *)

\* A message: what its head says, its body as it is sent, and which of those
\* characters are data.
Msg(kind, length, keepalive, chars, payload, bad) ==
  [framing |-> kind, length |-> length, keepalive |-> keepalive, broken |-> bad,
   text |-> <<"h", "end">> \o chars, data |-> payload]

Fixed(n)  == Msg("length", n, TRUE, [i \in 1..n |-> IF i = 1 THEN "end" ELSE "d"],
                 [i \in 1..n |-> i + 2], FALSE)
Bodiless  == Msg("none", -1, TRUE, <<>>, <<>>, FALSE)
CloseIt   == Msg("none", -1, FALSE, <<>>, <<>>, TRUE)
Short     == Msg("length", 3, TRUE, <<"d">>, <<3>>, TRUE)
TwoChunks == Msg("chunked", -1, TRUE,
                 <<"2", "CR", "LF", "d", "LF", "CR", "LF", "0", "1", "CR", "LF", "CR", "CR", "LF",
                   "0", "CR", "LF", "x", "CR", "LF", "CR", "LF">>, <<6, 7, 14>>, FALSE)
\* a message with both headers is framed by its chunks
BothHeaders == Msg("chunked", 2, TRUE,
                   <<"1", "CR", "LF", "d", "CR", "LF", "0", "CR", "LF", "CR", "LF">>, <<6>>, FALSE)
Extended  == Msg("chunked", -1, TRUE,
                 <<"1", ";", "a", "CR", "LF", "d", "CR", "LF", "0", "CR", "LF", "CR", "LF">>,
                 <<8>>, FALSE)
BadSize   == Msg("chunked", -1, TRUE, <<"x", "CR", "LF", "d">>, <<>>, TRUE)
LongLine  == Msg("chunked", -1, TRUE, <<"0", "0", "0", "0", "0", "0", "CR", "LF">>, <<>>, TRUE)
TooShort  == Msg("chunked", -1, TRUE, <<"1", "CR", "LF", "d", "d", "CR", "LF">>, <<6>>, TRUE)
BadEnd    == Msg("chunked", -1, TRUE, <<"0", "CR", "LF", "CR", "x">>, <<>>, TRUE)
BadHead   == Msg("malformed", -1, TRUE, <<>>, <<>>, TRUE)
Control   == [BadHead EXCEPT !.text = <<"ctl", "end">>]
LongHead  == [BadHead EXCEPT !.text = <<"h", "h", "h", "h", "h", "h", "end">>]

\* Where message i of the sequence starts.
First(msgs, i) == 1 + FoldLeft(LAMBDA n, m : n + Len(m.text), 0, SubSeq(msgs, 1, i - 1))

Sent(msgs, pauses) ==
  [text     |-> FlattenSeq([i \in DOMAIN msgs |-> msgs[i].text]),
   pauses   |-> pauses,
   messages |-> [i \in DOMAIN msgs |->
     [first     |-> First(msgs, i),         framing   |-> msgs[i].framing,
      length    |-> msgs[i].length,         keepalive |-> msgs[i].keepalive,
      broken    |-> msgs[i].broken,
      data      |-> [k \in DOMAIN msgs[i].data |-> First(msgs, i) - 1 + msgs[i].data[k]]]]]

AnyStream ==
  {Sent(<<Fixed(3), Bodiless, Fixed(1)>>, TRUE), Sent(<<TwoChunks, Fixed(2), CloseIt, Bodiless>>, TRUE),
   Sent(<<BothHeaders, Bodiless>>, TRUE), Sent(<<Extended, Bodiless>>, FALSE)}
  \cup {Sent(<<m, Bodiless>>, FALSE) :
          m \in {BadSize, LongLine, TooShort, BadEnd, BadHead, Control, LongHead}}
  \cup {Sent(<<Bodiless, Short>>, FALSE)}

\* Any handler, and that of server.c, which reads every body.
Body == INSTANCE BodyStream WITH
  Streams <- AnyStream, BufSize <- 5, LineSize <- 5, ReadSizes <- {1, 2, 4}, DiscardSize <- 8,
  MaxBody <- 2, KeepAlive <- TRUE, ReadsAll <- FALSE, pc <- readPc
Whole == INSTANCE BodyStream WITH
  Streams <- AnyStream, BufSize <- 5, LineSize <- 5, ReadSizes <- {2}, DiscardSize <- 8,
  MaxBody <- 1, KeepAlive <- TRUE, ReadsAll <- TRUE, pc <- readPc

-----------------------------------------------------------------------------
(* Requests for files under any configuration; and all kinds of requests   *)
(* under that of server.c, and others with a callback for all requests.    *)

Get == [method |-> "GET", uri |-> "local", upgrade |-> "none", preflight |-> FALSE,
        gzip |-> FALSE, slash |-> FALSE, cached |-> FALSE]
ForFiles ==
  {Get, [Get EXCEPT !.slash = TRUE], [Get EXCEPT !.cached = TRUE], [Get EXCEPT !.gzip = TRUE],
   [Get EXCEPT !.gzip = TRUE, !.cached = TRUE]}
  \cup {[Get EXCEPT !.method = "OPTIONS", !.preflight = p] : p \in BOOLEAN}
  \cup {[Get EXCEPT !.method = m] : m \in {"POST", "PUT", "MKCOL", "PATCH", "LOCK"}}
  \cup {[Get EXCEPT !.method = "PROPFIND", !.slash = s] : s \in BOOLEAN}
AllKinds ==
  {[Get EXCEPT !.method = m, !.uri = u, !.upgrade = h] :
     m \in {"GET", "PUT", "OPTIONS", "PROPFIND"}, u \in {"local", "asterisk", "foreign", "invalid"},
     h \in {"none", "bare", "websocket", "h2", "other"}}

AnyConfig ==
  [cors : BOOLEAN, root : BOOLEAN, webdav : BOOLEAN, listing : BOOLEAN, putFile : BOOLEAN,
   begin : {FALSE}, authCallback : BOOLEAN]
Package == [cors |-> FALSE, root |-> FALSE, webdav |-> FALSE, listing |-> TRUE, putFile |-> FALSE,
            begin |-> FALSE, authCallback |-> FALSE]
PackageDef == {[Package EXCEPT !.begin = b, !.root = r] : b, r \in BOOLEAN}
Nothing == [node |-> "none", index |-> "none", zipped |-> FALSE, template |-> FALSE,
            hidden |-> FALSE, protected |-> FALSE]
SomeTargets ==
  { Nothing, [Nothing EXCEPT !.zipped = TRUE],
    [Nothing EXCEPT !.node = "file", !.template = TRUE], [Nothing EXCEPT !.node = "file", !.hidden = TRUE],
    [Nothing EXCEPT !.node = "file", !.protected = TRUE], [Nothing EXCEPT !.node = "directory"],
    [Nothing EXCEPT !.node = "directory", !.index = "file", !.protected = TRUE],
    [Nothing EXCEPT !.node = "directory", !.index = "template"] }

Files == INSTANCE RequestDispatch WITH
  Requests <- FileRequests, Handlers <- BOOLEAN, MayDecline <- TRUE, MemoryMayFail <- FALSE,
  pc <- stepPc
Kinds == INSTANCE RequestDispatch WITH
  Configs <- PackageConfigs, Requests <- AllRequests, Handlers <- BOOLEAN, MayDecline <- TRUE,
  MemoryMayFail <- TRUE, pc <- stepPc

ASSUME RequestAssumption == Files!ConstantsAreProper /\ Kinds!ConstantsAreProper

-----------------------------------------------------------------------------
(* Writes of one part and chunks of three, with and without a quota.       *)

SomeJobsDef == {<<1>>, <<5>>, <<1, 2, 1>>}
LongJobsDef == {<<2>>, <<7>>}

-----------------------------------------------------------------------------
(* What R answers, what CivetWeb answers, and errors before and after a    *)
(* response was begun; with more headers than there is room for, with a    *)
(* status that CivetWeb refuses, and the answer to a port probe, where     *)
(* connections are closed anyway, as those of server.c are.                *)

FromServer == [by : {"server"}, status : {500, 503}]
FromR ==
  [by : {"R"}, status : {200, 404}, manual : BOOLEAN, names : {<<>>, <<"Content-Type">>, <<"Date", "X-A">>},
   body : {0, 5}]
BadStatus ==
  [by : {"R"}, status : {42}, manual : BOOLEAN, names : {<<"Date", "X-A">>}, body : {0, 5}]
ManyHeaders ==
  [by : {"R"}, status : {200}, manual : BOOLEAN, names : {<<"X-A", "X-B", "X-C", "X-D">>}, body : {0, 5}]
FromCivetWeb ==
       [by : {"ok", "closing"}, body : {5}] \cup [by : {"parts"}, parts : {<<3, 2>>}]
  \cup [by : {"fails"}, body : {5}, status : {500}]
  \cup [by : {"redirect"}, status : {301, 307}] \cup [by : {"error"}, status : {304, 404}]
RepliesDef ==
  [k \in BOOLEAN |-> FromServer \cup FromR \cup FromCivetWeb
     \cup (IF k THEN {} ELSE ManyHeaders \cup BadStatus \cup [by : {"server"}, status : {200}])]
CallbacksDef ==
  [by : {"none"}] \cup [by : {"page"}, body : {2}, handles : {TRUE}]
                  \cup [by : {"error"}, status : {500}, handles : BOOLEAN]

-----------------------------------------------------------------------------
(* WebSockets: frames of clients, empty and short ones, masked and not, in *)
(* each form of the length, and at the ends of the forms; PINGs while      *)
(* another thread sends; and requests for an upgrade.                      *)

Key == <<1, 2, 3, 7>>
F(op, payload, key, form) == [op |-> op, data |-> payload, key |-> key, form |-> form]
Masked(op, payload) == F(op, payload, Key, "own")
Long(n) == [i \in 1..n |-> i % 4]

ShortScripts ==
  { <<Masked(1, <<5, 6, 7, 8, 9>>), Masked(8, <<>>)>>,
    <<F(1, <<5>>, <<>>, "64"), F(2, <<6, 7, 8>>, Key, "16"), Masked(1, <<>>)>>,
    <<Masked(9, <<5, 6>>), Masked(10, <<>>), Masked(1, Long(9))>>,
    <<Masked(1, <<4>>), F(1, <<>>, Key, "huge")>> }
LongScripts == { <<Masked(1, Long(125)), Masked(1, Long(126)), Masked(9, <<1>>)>> }
LengthsDef == {126, 65536}
PingScriptsDef == { <<F(9, <<5, 6>>, <<>>, "own"), F(1, <<>>, <<>>, "own")>>, <<>> }

Good == [key |-> "ok", hixie |-> FALSE, body |-> FALSE, version |-> "13", offers |-> <<>>]
AnyUpgrade ==
  [key : {"none", "ok", "long"}, hixie : BOOLEAN, body : BOOLEAN, version : {"13", "8", "none"},
   offers : {<<>>, << <<"b", "a">>, <<"c">> >>}]

Frames == INSTANCE WebSocketStream WITH
  Upgrades <- {Good}, Callback <- TRUE, Subprotocols <- <<>>, ConnectMayRefuse <- FALSE,
  Scripts <- ShortScripts, MayTruncate <- TRUE, Space <- 16, MemSize <- 8,
  AllocMayFail <- TRUE, ReadMayFail <- TRUE, WriteMayFail <- FALSE, PingPong <- FALSE, MaxPings <- 1,
  Lengths <- {}, MaxSends <- 0,
  stream <- bytes, pc <- loopPc, stop <- wsStop, job <- task, out <- frames
LongFrames == INSTANCE WebSocketStream WITH
  Upgrades <- {Good}, Callback <- TRUE, Subprotocols <- <<>>, ConnectMayRefuse <- FALSE,
  Scripts <- LongScripts, MayTruncate <- FALSE, Space <- 40, MemSize <- 4096,
  AllocMayFail <- FALSE, ReadMayFail <- TRUE, WriteMayFail <- FALSE, PingPong <- FALSE, MaxPings <- 1,
  Lengths <- {}, MaxSends <- 0,
  stream <- bytes, pc <- loopPc, stop <- wsStop, job <- task, out <- frames
Pings == INSTANCE WebSocketStream WITH
  Upgrades <- {Good}, Callback <- TRUE, Subprotocols <- <<>>, ConnectMayRefuse <- FALSE,
  Scripts <- PingScripts, MayTruncate <- FALSE,
  AllocMayFail <- TRUE, ReadMayFail <- FALSE, WriteMayFail <- TRUE, PingPong <- TRUE,
  stream <- bytes, pc <- loopPc, stop <- wsStop, job <- task, out <- frames
Handshake == INSTANCE WebSocketStream WITH
  Upgrades <- AnyUpgrade, Callback <- TRUE, Subprotocols <- <<"c", "a">>, ConnectMayRefuse <- TRUE,
  Scripts <- PingScripts, MayTruncate <- TRUE, Space <- 16, MemSize <- 8,
  AllocMayFail <- TRUE, ReadMayFail <- TRUE, WriteMayFail <- FALSE, PingPong <- FALSE, MaxPings <- 1,
  Lengths <- {}, MaxSends <- 0,
  stream <- bytes, pc <- loopPc, stop <- wsStop, job <- task, out <- frames

ASSUME FramesAssumption == Pings!ConstantsAreProper

-----------------------------------------------------------------------------
(* The client side: all three ways to connect.                             *)

TimeoutsDef == {-1, 0, 2}

Client == INSTANCE ClientConnection WITH pc <- userPc, wire <- arrived

ASSUME ClientAssumption == Client!ConstantsAreProper

-----------------------------------------------------------------------------
IdleStream == Sent(<<Bodiless, Short>>, FALSE)

ConnectionInit ==
  /\ part \in {"body", "whole", "files", "kinds", "write", "rate", "respond", "frames",
                "long", "pings", "handshake", "client"}
  /\ IF part = "body" THEN Body!Init ELSE Whole!Init
  /\ part \notin {"body", "whole"} => stream = IdleStream
  /\ IF part = "write" THEN Write!Init ELSE Rate!Init
  /\ Respond!Init
  /\ part # "respond" => ~keepAlive /\ onError = CHOOSE c \in Callbacks : TRUE
  /\ IF part = "frames" THEN Frames!Init
     ELSE IF part = "long" THEN LongFrames!Init
     ELSE IF part = "handshake" THEN Handshake!Init ELSE Pings!Init
  /\ part \notin {"frames", "long", "pings", "handshake"} => script = <<>> /\ ~closes
  /\ IF part = "files" THEN Files!Init ELSE Kinds!Init
  /\ part \notin {"files", "kinds"} =>
       config = Package /\ target = Nothing /\ request = Get /\ ~handler
  /\ Client!Init

\* A step of one component.
OfBody(A)    == A /\ UNCHANGED <<part, stepVars, writeVars, answerVars, wsVars, clientVars>>
OfRequest(A) == A /\ UNCHANGED <<part, bodyVars, writeVars, answerVars, wsVars, clientVars>>
OfWrite(A)   == A /\ UNCHANGED <<part, bodyVars, stepVars, answerVars, wsVars, clientVars>>
OfAnswer(A)  == A /\ UNCHANGED <<part, bodyVars, stepVars, writeVars, wsVars, clientVars>>
OfWs(A)      == A /\ UNCHANGED <<part, bodyVars, stepVars, writeVars, answerVars, clientVars>>
OfClient(A)  == part = "client" /\ A /\ UNCHANGED <<part, bodyVars, stepVars, writeVars, answerVars, wsVars>>

ConnectionNext ==
  \/ part = "body"      /\ OfBody(Body!Next)
  \/ part = "whole"     /\ OfBody(Whole!Next)
  \/ part = "files"     /\ OfRequest(Files!Next)
  \/ part = "kinds"     /\ OfRequest(Kinds!Next)
  \/ part = "write"     /\ OfWrite(Write!Next)
  \/ part = "rate"      /\ OfWrite(Rate!Next)
  \/ part = "respond"   /\ OfAnswer(Respond!Next)
  \/ part = "frames"    /\ OfWs(Frames!Next)
  \/ part = "long"      /\ OfWs(LongFrames!Next)
  \/ part = "pings"     /\ OfWs(Pings!Next)
  \/ part = "handshake" /\ OfWs(Handshake!Next)
  \/ OfClient(Client!Next)

\* The fairness of the components, see their modules.  Where it is that of one action
\* only, the actions of the components, of which one can be enabled at most, are one.
Work ==
  \/ part = "body"    /\ OfBody(Body!Step)
  \/ part = "files"   /\ OfRequest(Files!Next)
  \/ part = "write"   /\ OfWrite(Write!Work)
  \/ part = "respond" /\ OfAnswer(Respond!Next)
  \/ part = "frames"  /\ OfWs(Frames!LoopStep)
  \/ part = "pings"   /\ OfWs(Pings!LoopStep)
  \/ OfClient(Client!ThreadStep)

ConnectionSpec ==
  /\ ConnectionInit /\ [][ConnectionNext]_all
  /\ WF_all(Work)
  /\ \A w \in {"worker", "R"} : WF_all(part = "pings" /\ OfWs(Pings!WriterStep(w)))
  /\ WF_all(OfClient(Client!Connect)) /\ WF_all(OfClient(Client!FreeAll))
  /\ WF_all(OfClient(Client!Tick)) /\ WF_all(OfClient(Client!Timeout))
  /\ WF_all(OfClient(Client!Respond))

\* A WebSocket alone, without PING and PONG, as server.c has it.
WebSocketSpec == ConnectionInit /\ part = "frames" /\ [][OfWs(Frames!Next)]_all

-----------------------------------------------------------------------------
(* Properties.                                                             *)

\* After each request kept alive the next head is looked for where the client's next
\* message begins; a handler sees a prefix of the data of its message, and server.c's
\* the whole of it or a report that it is too large.
RequestsAreFramed ==
  /\ part = "body"  => Body!TypeOK /\ Body!RequestsStartAtMessages /\ Body!BodyIsPrefix
  /\ part = "whole" => Whole!RequestsStartAtMessages /\ Whole!BodyIsReported

\* A request is answered once, and touches only files that its checks were passed for,
\* that are not hidden, and none in the configuration of server.c.
RequestsAreChecked ==
  /\ part = "files" =>
       /\ Files!TypeOK /\ Files!OneAnswer /\ Files!HiddenIsNotServed /\ Files!NoRootNoFiles
       /\ Files!WritesAreAuthorized /\ Files!ReadsAreAuthorized
  /\ part = "kinds" => Kinds!OneAnswer

\* What a handler is told was written has left; nothing is cut but by the end of the
\* connection; the parts of a chunk go out in order, near the quota.
WritesAreReported ==
  /\ part = "write" =>
       Write!TypeOK /\ Write!ReportsAtMostWhatWent /\ Write!WholeUnlessBroken /\ Write!PartsInOrder
  /\ part = "rate"  => Rate!NearThrottle

\* A client can tell where a response ends, or the connection closes, as it says it
\* does; also with errors while a response is on its way.
ResponsesAreDelimited ==
  part = "respond" =>
       /\ Respond!TypeOK /\ Respond!InOrder /\ Respond!KeptOnlyIfDelimited /\ Respond!CloseIsKept
       /\ Respond!CallbackNotNested

\* Callbacks get the frames the client sent, all of them, PINGs like others as server.c
\* runs CivetWeb; where enable_websocket_ping_pong is set each PING gets its PONG instead;
\* and who was told that a connection is ready is told of its end, but not who accepted
\* one whose handshake then failed.
FramesAreDelivered ==
  /\ part = "frames"    => Frames!TypeOK /\ Frames!FramesAreDelivered /\ Frames!NothingIsLost
  /\ part = "long"      => LongFrames!FramesAreDelivered /\ LongFrames!NothingIsLost
  /\ part = "pings"     => Pings!PingsAreAnswered
  /\ part = "handshake" => Handshake!AcceptedIsClosed

\* "Let CivetWeb handle PING/PONG/CLOSE", says server.c of its data handler, which drops
\* them; it does not set the option under which CivetWeb handles the first two.
PingsAreHandled == part = "frames" => Frames!PingsAreAnswered

\* Frames of the worker and of another thread do not mix, and announce what they have.
FramesAreWhole == part = "pings" => Pings!FramesAreWhole

\* What a connection of the client owns is freed once, also by calls that fail, and
\* never under its thread; the timeout of one call does not outlive it.
ConnectionsAreFreed == Client!TypeOK /\ Client!NoMisuse /\ Client!NothingLeaks /\ Client!TimeoutIsLocal

\* Connections, requests, writes, responses, waits and WebSockets that one side has
\* given up all come to their end.
Busy ==
  CASE part = "body"    -> readPc # "closed"
    [] part = "files"   -> stepPc # "done"
    [] part = "write"   -> writePc # "idle"
    [] part = "respond" -> phase = "busy"
    [] part \in {"frames", "pings"} -> (closes \/ wsStop) /\ loopPc # "over"
    [] part = "client"  -> userPc \in {"wait", "join"}
    [] OTHER            -> FALSE
WorkEnds == Busy ~> ~Busy
=============================================================================
