--------------------------- MODULE WebSocketStream ----------------------------
(***************************************************************************)
(* A WebSocket connection of civetweb.c: handle_websocket_request() decides *)
(* about the upgrade, read_websocket() cuts what arrives into frames, and   *)
(* mg_websocket_write() is called by the worker, for PING and PONG, and by  *)
(* another thread, which is R's in civetweb_ws_send().                      *)
(*                                                                         *)
(* The client's bytes arrive in pieces of any size.  Bytes are numbers, and *)
(* what is written is kept as the pieces mg_write() was called for.         *)
(***************************************************************************)
EXTENDS Integers, Sequences, SequencesExt, FiniteSets

CONSTANTS
  Upgrades,     \* requests: [key, hixie, body, version, offers]
  Callback,     \* is_callback_resource
  Subprotocols, \* those the server supports, <<>> if it has no list
  ConnectMayRefuse,
  Scripts,      \* the clients: sequences of frames [op, data, key, form]
  MayTruncate,  \* a client may stop in the middle of its script
  Space,        \* bytes of conn->buf behind the upgrade request
  MemSize,      \* size of mem[], above which payload is allocated
  AllocMayFail, ReadMayFail, WriteMayFail,
  PingPong,     \* enable_websocket_ping_pong
  MaxPings,     \* MG_MAX_UNANSWERED_PING
  Lengths,      \* lengths of the data the other thread sends
  MaxSends      \* bound: messages it sends

Text == 1  Binary == 2  Close == 8  Ping == 9  Pong == 10
Writers == {"worker", "R"}

VARIABLES
  upgrade, calls, answer, chosen,         \* the request, and what came of it
  script, stream, closes,                 \* the client: its frames, its bytes, it hangs up
  pos, queue,                             \* bytes received, and those waiting in buf
  pc, why, frame, data, taken, got,       \* the loop of read_websocket()
  pings, stop,                            \* ping_count, stop_flag
  lock, job, at, sends, out               \* the writers, and what they wrote

shake  == <<upgrade, calls, answer, chosen>>
client == <<script, stream, closes>>
inbox  == <<pos, queue>>
loop   == <<pc, why, frame, data, taken, got>>
writes == <<lock, job, at, sends, out>>
vars   == <<shake, client, inbox, loop, pings, stop, writes>>

-----------------------------------------------------------------------------
(* Frames as they are written.                                             *)

Power(k)     == IF k = 0 THEN 1 ELSE IF k = 1 THEN 256 ELSE IF k = 2 THEN 65536 ELSE 16777216
BigEndian(n, width) == [i \in 1..width |-> IF width - i > 3 THEN 0 ELSE (n \div Power(width - i)) % 256]

LengthField(n) ==
  IF n < 126 THEN <<n>> ELSE IF n <= 65535 THEN <<126>> \o BigEndian(n, 2)
  ELSE <<127>> \o BigEndian(n, 8)

Header(op, field, key) ==
  <<128 + op, Head(field) + (IF key = <<>> THEN 0 ELSE 128)>> \o Tail(field) \o key

\* mask_data(), and the unmasking of read_websocket(), which must undo it.
\* The exclusive or of two bytes, bit by bit.
Bit(a, b, k) == k * ((a \div k + b \div k) % 2)
Xor(a, b) ==
  Bit(a, b, 1) + Bit(a, b, 2) + Bit(a, b, 4) + Bit(a, b, 8)
    + Bit(a, b, 16) + Bit(a, b, 32) + Bit(a, b, 64) + Bit(a, b, 128)
MaskData(bytes, key) ==
  IF key = <<>> THEN bytes ELSE [i \in DOMAIN bytes |-> Xor(bytes[i], key[((i - 1) % 4) + 1])]

\* A frame of a client: mg_websocket_client_write(), or of a foreign client, which may
\* use a longer form of the length than it needs, or announce more than it sends.
LengthOf(f) ==
  IF f.form = "own" THEN LengthField(Len(f.data))
  ELSE IF f.form = "16" THEN <<126>> \o BigEndian(Len(f.data), 2)
  ELSE IF f.form = "64" THEN <<127>> \o BigEndian(Len(f.data), 8)
  ELSE <<127, 0, 0, 0, 0, 127, 255, 0, 1>>
Encode(f) == Header(f.op, LengthOf(f), f.key) \o MaskData(f.data, f.key)

-----------------------------------------------------------------------------
(* Frames as they are read, from what is in the queue.                     *)

MaskLen(q) == IF q[2] >= 128 THEN 4 ELSE 0
Code(q)    == q[2] % 128

HeaderLen(q) ==
  IF Len(q) < 2 THEN 0
  ELSE IF Code(q) < 126 /\ Len(q) >= MaskLen(q) THEN 2 + MaskLen(q)
  ELSE IF Code(q) = 126 /\ Len(q) >= 4 + MaskLen(q) THEN 4 + MaskLen(q)
  ELSE IF Len(q) >= 10 + MaskLen(q) THEN 10 + MaskLen(q) ELSE 0

\* more than 0x7FFF0000
TooLong(q) ==
  /\ HeaderLen(q) > 9 /\ HeaderLen(q) = 10 + MaskLen(q)
  /\ \/ \E i \in 3..6 : q[i] # 0
     \/ q[7] >= 128
     \/ q[7] = 127 /\ q[8] = 255 /\ q[9] + q[10] > 0

DataLen(q) ==
  IF HeaderLen(q) = 2 + MaskLen(q) THEN Code(q)
  ELSE IF HeaderLen(q) = 4 + MaskLen(q) THEN q[3] * 256 + q[4]
  ELSE q[7] * Power(3) + q[8] * Power(2) + q[9] * 256 + q[10]

HeaderComplete == HeaderLen(queue) > 0 /\ Len(queue) >= HeaderLen(queue)

-----------------------------------------------------------------------------
Byte == 0..255

\* A length that four bytes hold.  (bound: longer messages are not modelled)
IsLength(n) == n \in Nat /\ n \div Power(3) < 256

FrameType ==
  [op : 0..15, data : Seq(Byte), key : {<<>>} \cup (Byte \X Byte \X Byte \X Byte),
   form : {"own", "16", "64", "huge"}]
ConstantsAreProper ==
  Space \in Nat /\ Scripts \subseteq Seq(FrameType) /\ \A n \in Lengths : IsLength(n)

NoFrame == [op |-> 0, mask |-> <<>>, need |-> 0]
NoJob   == [op |-> 0, len |-> 0]

Init ==
  /\ upgrade \in Upgrades /\ calls = <<>> /\ answer = 0 /\ chosen = "none"
  /\ script \in Scripts /\ closes \in BOOLEAN
  /\ LET all == FlattenSeq([i \in DOMAIN script |-> Encode(script[i])]) IN
     \E n \in IF MayTruncate THEN 0..Len(all) ELSE {Len(all)} : stream = SubSeq(all, 1, n)
  /\ pos = 0 /\ queue = <<>>
  /\ pc = "upgrade" /\ why = "" /\ frame = NoFrame /\ data = <<>> /\ taken = 0 /\ got = <<>>
  /\ pings = 0 /\ stop = FALSE
  /\ lock = "free" /\ job = [w \in Writers |-> NoJob] /\ at = [w \in Writers |-> "none"]
  /\ sends = 0 /\ out = <<>>

\* handle_websocket_request(): what is wrong with the request, 0 if nothing is.
Fault(u) ==
  IF u.key = "none" THEN IF u.hixie /\ u.body THEN 426 ELSE 400
  ELSE IF u.version # "13" THEN 426 ELSE 0

\* The first protocol the client offers, in any of its headers, that the server has.
Choice(offers) ==
  LET fits == SelectSeq(FlattenSeq(offers), LAMBDA p : p \in Range(Subprotocols)) IN
  IF fits = <<>> THEN "none" ELSE Head(fits)

Ends(reason) == pc' = "over" /\ why' = reason

Upgrade ==
  /\ pc = "upgrade"
  /\ chosen' = IF Fault(upgrade) = 0 /\ Callback THEN Choice(upgrade.offers) ELSE chosen
  /\ \/ /\ Fault(upgrade) # 0 /\ answer' = Fault(upgrade) /\ Ends("fault")
        /\ UNCHANGED calls
     \/ /\ Fault(upgrade) = 0 /\ ~Callback /\ answer' = 404 /\ Ends("nobody")
        /\ UNCHANGED calls
     \/ /\ Fault(upgrade) = 0 /\ Callback /\ ConnectMayRefuse
        /\ calls' = <<"refused">> /\ Ends("refused")
        /\ UNCHANGED answer
     \/ /\ Fault(upgrade) = 0 /\ Callback
        /\ IF upgrade.key = "long"
           THEN answer' = 500 /\ Ends("handshake") /\ calls' = <<"connect">>
           ELSE answer' = 101 /\ pc' = "loop" /\ calls' = <<"connect", "ready">> /\ UNCHANGED why
  /\ UNCHANGED <<upgrade, client, inbox, frame, data, taken, got, pings, stop, writes>>

-----------------------------------------------------------------------------
(* read_websocket().                                                       *)

\* The loop ends, and after it the close handler is called.
LoopEnds(reason) == Ends(reason) /\ calls' = Append(calls, "close")

\* (mutant) the rest of the queue is dropped with the frame
RestDropped(n) == <<>>

Rest(n) == SubSeq(queue, n + 1, Len(queue))

LoopHead == pc = "loop" /\ ~stop

SeesStop ==
  /\ pc = "loop" /\ stop /\ LoopEnds("stop")
  /\ UNCHANGED <<upgrade, answer, chosen, client, inbox, frame, data, taken, got, pings, stop, writes>>

FrameTooBig ==
  /\ LoopHead
  /\ \/ TooLong(queue)
     \/ HeaderComplete /\ AllocMayFail /\ DataLen(queue) + 4 > MemSize
  /\ LoopEnds("memory")
  /\ UNCHANGED <<upgrade, answer, chosen, client, inbox, frame, data, taken, got, pings, stop, writes>>

Mask(h) == IF MaskLen(queue) = 0 THEN <<>> ELSE SubSeq(queue, h - 3, h)

\* A header is complete: the payload that is in the queue is taken out of it.
TakeFrame ==
  /\ LoopHead /\ HeaderComplete /\ ~TooLong(queue)
  /\ LET h == HeaderLen(queue)  n == DataLen(queue) IN
     /\ frame' = [op |-> queue[1] % 16, mask |-> Mask(h), need |-> n]
     /\ IF h + n > Len(queue)
        THEN data' = Rest(h) /\ queue' = <<>> /\ pc' = "pull"
        ELSE data' = SubSeq(queue, h + 1, h + n) /\ queue' = Rest(h + n) /\ pc' = "frame"
  /\ UNCHANGED <<shake, client, pos, why, taken, got, pings, stop, writes>>

Arriving(room) == 1..(IF room < Len(stream) - pos THEN room ELSE Len(stream) - pos)

\* The rest of a payload is read into data, as long as it takes.
PullPayload ==
  /\ pc = "pull" /\ ~stop
  /\ \E k \in Arriving(frame.need - Len(data)) :
       /\ data' = data \o SubSeq(stream, pos + 1, pos + k) /\ pos' = pos + k
  /\ pc' = IF Len(data') = frame.need THEN "frame" ELSE "pull"
  /\ UNCHANGED <<shake, client, queue, why, frame, taken, got, pings, stop, writes>>

\* No header is complete: more is read behind what the queue has.
Receive ==
  /\ LoopHead /\ ~HeaderComplete /\ ~TooLong(queue)
  /\ \E k \in Arriving(Space - Len(queue)) :
       queue' = queue \o SubSeq(stream, pos + 1, pos + k) /\ pos' = pos + k
  /\ pings' = 0
  /\ UNCHANGED <<shake, client, pc, why, frame, data, taken, got, stop, writes>>

\* Reads that fail: the server stops, the connection is lost, the client has hung up,
\* or there is no room to read into.
ReadFails ==
  /\ pc = "pull" \/ (LoopHead /\ ~HeaderComplete /\ ~TooLong(queue))
  /\ \/ stop /\ LoopEnds("stop")
     \/ ReadMayFail /\ LoopEnds("error")
     \/ closes /\ pos = Len(stream) /\ LoopEnds("eof")
     \/ pc = "loop" /\ Len(queue) = Space /\ LoopEnds("room")
  /\ UNCHANGED <<upgrade, answer, chosen, client, inbox, frame, data, taken, got, pings, stop, writes>>

StartsWrite(w, op, n) ==
  /\ at' = [at EXCEPT ![w] = "lock"] /\ job' = [job EXCEPT ![w] = [op |-> op, len |-> n]]
  /\ UNCHANGED <<lock, out>>

TooMany == pings > MaxPings

\* A read times out (without PINGs, the loop just goes round).
Timeout ==
  /\ LoopHead /\ ~HeaderComplete /\ ~TooLong(queue)
  /\ \/ TooMany /\ LoopEnds("silent") /\ UNCHANGED <<writes, answer>>
     \/ /\ ~TooMany /\ PingPong
        /\ StartsWrite("worker", Ping, 0) /\ pc' = "write"
        /\ UNCHANGED <<calls, answer, why, sends>>
  /\ UNCHANGED <<upgrade, chosen, client, inbox, frame, data, taken, got, pings, stop>>

Filtered(op) == PingPong /\ op \in {Ping, Pong}

\* A frame has been read: it is filtered, or the callback gets it.
HandleFrame ==
  /\ pc = "frame"
  /\ taken' = taken + 1
  /\ \/ /\ PingPong /\ frame.op = Pong /\ pings' = 0 /\ pc' = "loop"
        /\ UNCHANGED <<calls, why, got, writes>>
     \/ /\ PingPong /\ frame.op = Ping
        /\ StartsWrite("worker", Pong, frame.need) /\ pc' = "write"
        /\ UNCHANGED <<calls, why, got, pings, sends>>
     \/ /\ ~Filtered(frame.op)
        /\ got' = Append(got, [op |-> frame.op, data |-> MaskData(data, frame.mask)])
        /\ \/ frame.op # Close /\ pc' = "loop" /\ UNCHANGED <<calls, why>>
           \/ LoopEnds(IF frame.op = Close THEN "close" ELSE "callback")
        /\ UNCHANGED <<pings, writes>>
  /\ frame' = NoFrame /\ data' = <<>>
  /\ UNCHANGED <<upgrade, answer, chosen, client, inbox, stop>>

StopServer ==
  /\ ~stop /\ pc \in {"loop", "pull", "frame", "write"} /\ stop' = TRUE
  /\ UNCHANGED <<shake, client, inbox, loop, pings, writes>>

-----------------------------------------------------------------------------
(* mg_websocket_write_exec(), under the connection's mutex.                *)

Sends(n) ==
  /\ pc \in {"loop", "pull", "frame", "write"} /\ at["R"] = "none" /\ sends < MaxSends
  /\ sends' = sends + 1 /\ StartsWrite("R", Text, n)
  /\ UNCHANGED <<shake, client, inbox, loop, pings, stop>>

\* (mutant) the mutex is not taken
NotLocked(w) == TRUE

MayLock(w) == lock = "free"

Lock(w) ==
  /\ at[w] = "lock" /\ MayLock(w)
  /\ lock' = w /\ at' = [at EXCEPT ![w] = "header"]
  /\ UNCHANGED <<shake, client, inbox, loop, pings, stop, job, sends, out>>

\* The call returns; a PING or PONG that failed ends the connection.
Written(w, ok) ==
  /\ lock' = "free" /\ at' = [at EXCEPT ![w] = "none"] /\ job' = [job EXCEPT ![w] = NoJob]
  /\ IF w = "worker"
     THEN IF ok THEN /\ pc' = "loop" /\ pings' = pings + (IF job[w].op = Ping THEN 1 ELSE 0)
                     /\ UNCHANGED <<calls, why>>
          ELSE LoopEnds("write") /\ UNCHANGED pings
     ELSE UNCHANGED <<pc, why, calls, pings>>

Piece(part, header, len, whole) == [part |-> part, header |-> header, len |-> len, whole |-> whole]

SendHeader(w) ==
  /\ at[w] = "header"
  /\ \E whole \in {TRUE, ~WriteMayFail} :
       /\ out' = Append(out, Piece("header", Header(job[w].op, LengthField(job[w].len), <<>>), 0, whole))
       /\ IF whole /\ job[w].len > 0
          THEN at' = [at EXCEPT ![w] = "data"] /\ UNCHANGED <<lock, job, pc, why, calls, pings>>
          ELSE Written(w, whole)
  /\ UNCHANGED <<upgrade, answer, chosen, client, inbox, frame, data, taken, got, stop, sends>>

SendData(w) ==
  /\ at[w] = "data"
  /\ \E whole \in {TRUE, ~WriteMayFail} :
       out' = Append(out, Piece("data", <<>>, job[w].len, whole)) /\ Written(w, whole)
  /\ UNCHANGED <<upgrade, answer, chosen, client, inbox, frame, data, taken, got, stop, sends>>

-----------------------------------------------------------------------------
WriterStep(w) == Lock(w) \/ SendHeader(w) \/ SendData(w)
LoopStep == Upgrade \/ SeesStop \/ FrameTooBig \/ TakeFrame \/ PullPayload \/ Receive \/ ReadFails \/ Timeout \/ HandleFrame

Next == LoopStep \/ StopServer \/ (\E n \in Lengths : Sends(n)) \/ (\E w \in Writers : WriterStep(w))

\* Threads go on, reads return what has arrived, and time out where nothing does.
Spec == Init /\ [][Next]_vars /\ WF_vars(LoopStep) /\ \A w \in Writers : WF_vars(WriterStep(w))

-----------------------------------------------------------------------------
(* Properties.                                                             *)

TypeOK ==
  /\ answer \in {0, 101, 400, 404, 426, 500} /\ pos \in 0..Len(stream) /\ Len(queue) <= Space
  /\ pc \in {"upgrade", "loop", "pull", "frame", "write", "over"} /\ (pc = "over" <=> why # "")
  /\ Len(data) <= frame.need /\ pings \in 0..(MaxPings + 1)
  /\ lock \in Writers \cup {"free"} /\ at \in [Writers -> {"none", "lock", "header", "data"}]

\* What callbacks get is what the client sent, frame by frame and unmasked, however its
\* bytes were split among reads and however much of them was in the buffer before: its
\* PINGs and PONGs too, unless enable_websocket_ping_pong keeps those for CivetWeb.
Visible(frames) == SelectSeq(frames, LAMBDA f : ~Filtered(f.op))
FramesAreDelivered ==
  /\ taken <= Len(script)
  /\ LET sent == Visible(SubSeq(script, 1, taken)) IN
     got = [i \in DOMAIN sent |-> [op |-> sent[i].op, data |-> sent[i].data]]

\* A client that hangs up has had every frame handled that it sent completely.
FrameEnd(n) == Len(FlattenSeq([i \in 1..n |-> Encode(script[i])]))
NothingIsLost ==
  why = "eof" => \A n \in DOMAIN script : FrameEnd(n) <= Len(stream) => n <= taken

\* Frames of the two threads never mix on the wire, and each header announces the
\* data behind it, as read_websocket() itself would read it; until a write fails.
FramesAreWhole ==
  \A i \in DOMAIN out : (\A j \in 1..i : out[j].whole) =>
    IF out[i].part = "header" THEN
      LET n == DataLen(out[i].header) IN
      /\ HeaderLen(out[i].header) = Len(out[i].header)
      /\ (n > 0 /\ i < Len(out)) => (out[i + 1].part = "data" /\ out[i + 1].len = n)
    ELSE i > 1 /\ out[i - 1].part = "header"

\* Each PING of the client is answered by a PONG with as much data, in their order, before
\* the next frame is looked at: so with enable_websocket_ping_pong.  Without it, and neither
\* CivetWeb's default nor server.c sets it, no PING is answered.
Pongs == SelectSeq(out, LAMBDA p : p.whole /\ p.part = "header" /\ p.header[1] = 128 + Pong)
PingsAreAnswered ==
  pc = "loop" =>
    LET asked == SelectSeq(SubSeq(script, 1, taken), LAMBDA f : f.op = Ping) IN
    [i \in DOMAIN asked |-> Len(asked[i].data)] = [i \in DOMAIN Pongs |-> DataLen(Pongs[i].header)]

\* The close handler is called once for each connection that the ready handler was called
\* for, and last.  A handshake that fails comes between the connect handler and the ready
\* handler: the connection was accepted, and ends without either of them.
AcceptedIsClosed ==
  pc = "over" /\ "connect" \in Range(calls) =>
    IF answer = 101 THEN calls = <<"connect", "ready", "close">> ELSE calls = <<"connect">>

-----------------------------------------------------------------------------
(* Why frames are whole: who holds the mutex is between its two writes.    *)

PieceType   == [part : {"header", "data"}, header : Seq(Int), len : Nat, whole : BOOLEAN]

ReaderTyped ==
  /\ stream \in Seq(Byte) /\ pos \in Nat /\ queue \in Seq(Byte)
  /\ pc \in {"upgrade", "loop", "pull", "frame", "write", "over"}
  /\ frame.op \in 0..15 /\ IsLength(frame.need)
WriterTyped ==
  /\ lock \in Writers \cup {"free"} /\ at \in [Writers -> {"none", "lock", "header", "data"}]
  /\ job \in [Writers -> [op : 0..15, len : Nat]] /\ out \in Seq(PieceType)
  /\ \A w \in Writers : IsLength(job[w].len)

\* The worker writes or reads, and who writes has the mutex.
OneWrites ==
  /\ pc = "write" <=> at["worker"] # "none"
  /\ \A w \in Writers : lock = w <=> at[w] \in {"header", "data"}

\* Between the writes of a frame its header is what was written last; and after a header
\* that announces data, who wrote it is about to write them.
HeaderIsLast ==
  /\ \A w \in Writers : at[w] = "data" =>
       /\ out # <<>> /\ out[Len(out)].part = "header"
       /\ job[w].len > 0 /\ DataLen(out[Len(out)].header) = job[w].len
  /\ (out # <<>> /\ (\A j \in DOMAIN out : out[j].whole)) =>
       ((out[Len(out)].part = "header" /\ DataLen(out[Len(out)].header) > 0)
         => \E w \in Writers : at[w] = "data")

WritersInv == ReaderTyped /\ WriterTyped /\ OneWrites /\ HeaderIsLast /\ FramesAreWhole

=============================================================================
