--------------------------- MODULE ResponseWriter ---------------------------
(***************************************************************************)
(* How a response gets its status line, headers and body: the buffered     *)
(* header of response.inl, the answers of civetweb.c built on it, and what *)
(* handler() of server.c sends for the answer of R.  A response is a list  *)
(* of operations; each write may be cut off by a stop or a client that     *)
(* left, or be lost because the client does not read for a while.          *)
(***************************************************************************)
EXTENDS Integers, Sequences, FiniteSets, SequencesExt

CONSTANTS
  Replies,     \* Replies[k]: what requests are answered with, where keepAlive is k
  Callbacks,   \* http_error, or none
  MaxHeaders,  \* MG_MAX_HEADERS
  MayStall     \* a write may time out, and the next one succeed

VARIABLES
  keepAlive,   \* enable_keep_alive is "yes", and the client asks for it
  callback,
  state,       \* conn->request_state
  status,      \* conn->status_code
  headers,     \* conn->response_info.http_headers
  mustClose, inError,
  todo,        \* operations still to be done
  wire,        \* what the client has got of this response
  broken,      \* nothing gets out any more: stop_flag, or the socket failed
  sendResult,  \* what the last mg_response_header_send() returned
  phase        \* "idle", "busy", "closed"

config == <<keepAlive, callback>>
conn   == <<state, status, headers, mustClose, inError>>
vars   == <<config, conn, todo, wire, broken, sendResult, phase>>

Line(code)      == [k |-> "status", v |-> code]
Header(name, n) == [k |-> "header", name |-> name, v |-> n]
Blank           == [k |-> "blank"]
Bytes(n)        == [k |-> "body", v |-> n]

Op(name)     == [op |-> name]
Start(code)  == [op |-> "start", code |-> code]
Add(name, n) == [op |-> "add", item |-> Header(name, n)]
Raw(item)    == [op |-> "raw", item |-> item]
Error(code)  == [op |-> "error", code |-> code]
Left(c, code) == [op |-> "left", handles |-> c.handles, code |-> code]

Bodiless(code) == code \in 100 .. 199 \cup {204, 304}

-----------------------------------------------------------------------------
(* The answers, as operations.                                             *)

\* server.c, handler(): a response with a status text of its own is written by hand.
\* `names' are the headers R asked for.
HandlerOps(r) ==
  LET put(name, n) == IF r.manual THEN Raw(Header(name, n)) ELSE Add(name, n)
  IN   (IF r.manual THEN <<Raw(Line(r.status)), Op("close")>> ELSE <<Start(r.status)>>)
    \o [i \in 1 .. Len(r.names) |-> put(r.names[i], 0)]
    \o (IF Contains(r.names, "Content-Type") THEN <<>> ELSE <<put("Content-Type", 0)>>)
    \o <<put("Content-Length", r.body)>>
    \o (IF r.manual THEN <<Raw(Blank)>> ELSE <<Op("send")>>)
    \o (IF r.body > 0 THEN <<Raw(Bytes(r.body))>> ELSE <<>>)

\* handler() before R is asked: a port probe, no memory, no server.
ShortOps(code) ==
     <<Raw(Line(code))>> \o (IF code = 200 THEN <<Raw(Header("Connection", 0))>> ELSE <<>>)
  \o <<Raw(Header("Content-Length", 0)), Raw(Blank)>>

\* mg_send_http_ok(); a length of -1 is not known.
OkOps(n) ==
  <<Start(200), Add("Cache-Control", 0), Add("Content-Type", 0),
    IF n < 0 THEN Add("Transfer-Encoding", 0) ELSE Add("Content-Length", n), Op("send")>>

RedirectOps(code) ==
  IF code \in {301, 302, 303, 307, 308}
  THEN <<Start(code), Add("Location", 0), Add("Cache-Control", 0), Add("Content-Length", 0), Op("send")>>
  ELSE <<>>

\* (mutant) the page does not ask for the end of the connection
PageOpsOpen(code) ==
     <<Start(code), Add("Cache-Control", 0)>>
  \o (IF Bodiless(code) THEN <<Op("send")>>
      ELSE <<Add("Content-Type", 0), Op("send"), Raw(Bytes(9))>>)

\* The default page of mg_send_http_error_impl(): it has no length, the end of the
\* connection ends it.
PageOps(code) ==
     <<Op("close"), Start(code), Add("Cache-Control", 0)>>
  \o (IF Bodiless(code) THEN <<Op("send")>>
      ELSE <<Add("Content-Type", 0), Op("send"), Raw(Bytes(9))>>)

\* Who answers, and how: the handler of server.c, and callers of mg_send_http_ok(), which
\* write the body, in parts if they do not know its length, close afterwards, or fail.
Answer(a) ==
  IF a.by = "R" THEN HandlerOps(a)
  ELSE IF a.by = "server" THEN ShortOps(a.status)
  ELSE IF a.by = "ok" THEN OkOps(a.body) \o <<Raw(Bytes(a.body))>>
  ELSE IF a.by = "parts" THEN OkOps(-1) \o [i \in 1 .. Len(a.parts) |-> Raw(Bytes(a.parts[i]))]
  ELSE IF a.by = "closing" THEN <<Op("close")>> \o OkOps(a.body) \o <<Raw(Bytes(a.body))>>
  ELSE IF a.by = "fails" THEN OkOps(a.body) \o <<Error(a.status)>>
  ELSE IF a.by = "redirect" THEN RedirectOps(a.status)
  ELSE <<Error(a.status)>>

\* The user's callback for errors: a page of its own, or an error that it reports.
CallbackOps(c) ==
  IF c.by = "page" THEN <<Op("close")>> \o OkOps(c.body) \o <<Raw(Bytes(c.body))>>
  ELSE <<Error(c.status)>>

\* The names of headers; those that the code itself sets are listed for the provers, which
\* do not know that a literal is a string.
Framing == {"Content-Length", "Transfer-Encoding", "Connection"}
Names   == STRING \cup Framing \cup {"Cache-Control", "Content-Type", "Location", "Date"}

Codes == 100 .. 999
AnswerType ==
       [by : {"R"}, status : Int, manual : BOOLEAN, names : Seq(Names), body : Nat]
  \cup [by : {"server", "redirect", "error"}, status : Codes]
  \cup [by : {"ok", "closing"}, body : Nat]
  \cup [by : {"parts"}, parts : Seq(Nat)]
  \cup [by : {"fails"}, body : Nat, status : Codes]
CallbackType ==
  [by : {"none"}] \cup [by : {"page"}, body : Nat, handles : BOOLEAN]
                  \cup [by : {"error"}, status : Codes, handles : BOOLEAN]

\* mg_response_header_start() takes the status.
Taken(a) == a.by = "R" => a.manual \/ a.status \in Codes

\* Where connections are kept, the headers of an answer have room, R sets none of those that
\* say where it ends, and has a status CivetWeb takes.  server.c keeps no connection, and
\* answers port probes with "close"; there anything goes.
ConstantsAreProper ==
  /\ MayStall \in BOOLEAN /\ MaxHeaders \in Nat /\ MaxHeaders >= 3 /\ Callbacks \subseteq CallbackType
  /\ \A k \in BOOLEAN : Replies[k] \subseteq AnswerType
  /\ \A a \in Replies[TRUE] :
       /\ Taken(a)
       /\ a.by = "R" => /\ Len(a.names) + 2 <= MaxHeaders
                        /\ \A i \in 1 .. Len(a.names) : a.names[i] \notin Framing
       /\ a.by = "server" => a.status # 200

-----------------------------------------------------------------------------
Init ==
  /\ keepAlive \in BOOLEAN /\ callback \in Callbacks
  /\ state = 0 /\ status = -1 /\ headers = <<>> /\ mustClose = FALSE /\ inError = FALSE
  /\ todo = <<>> /\ wire = <<>> /\ broken = FALSE /\ sendResult = 0 /\ phase = "idle"

\* process_new_connection() reads a request; nothing is left of the last response.
Request(a) ==
  /\ phase = "idle" /\ phase' = "busy" /\ todo' = Answer(a)
  /\ state' = 0 /\ status' = -1 /\ headers' = <<>> /\ mustClose' = FALSE
  /\ wire' = <<>> /\ sendResult' = 0
  /\ UNCHANGED <<config, inError, broken>>

At(name) == phase = "busy" /\ todo # <<>> /\ Head(todo).op = name /\ UNCHANGED <<config, phase>>
Arg      == Head(todo).code
Then     == todo' = Tail(todo)

\* What may come out of a sequence of writes: all of it, a part until the connection
\* breaks, or all but some writes that timed out.
Outcomes(items) ==
       (IF broken THEN {} ELSE {[out |-> items, broken |-> FALSE]})
  \cup (IF broken THEN {[out |-> <<>>, broken |-> TRUE]}
        ELSE {[out |-> SubSeq(items, 1, i), broken |-> TRUE] : i \in 0 .. Len(items)})
  \cup (IF MayStall /\ ~broken
        THEN {[out |-> RemoveAt(items, i), broken |-> FALSE] : i \in 1 .. Len(items)} ELSE {})

\* mg_response_header_start()
StartResponse ==
  /\ At("start") /\ Then
  /\ IF Arg \in Codes /\ state = 0
     THEN status' = Arg /\ state' = 1 /\ headers' = <<>>
     ELSE UNCHANGED <<status, state, headers>>
  /\ UNCHANGED <<mustClose, inError, wire, broken, sendResult>>

\* mg_response_header_add(): without memory, or beyond the last slot, the header is
\* left out.
AddHeader ==
  /\ At("add") /\ Then
  /\ headers' = IF state = 1 /\ Len(headers) < MaxHeaders THEN Append(headers, Head(todo).item) ELSE headers
  /\ UNCHANGED <<state, status, mustClose, inError, wire, broken, sendResult>>

\* suggest_connection_header(): 1 to keep the connection
KeepsAlive == keepAlive /\ ~mustClose
Suggested  == IF KeepsAlive THEN 1 ELSE 0

HasHeader(name) == \E i \in 1 .. Len(headers) : headers[i].name = name

\* What mg_response_header_send() writes.
FullHeader ==
     <<Line(status)>> \o headers
  \o (IF HasHeader("Date") THEN <<>> ELSE <<Header("Date", 0)>>)
  \o (IF HasHeader("Connection") THEN <<>> ELSE <<Header("Connection", Suggested)>>)
  \o <<Blank>>

\* Without the status line nothing else is sent; the results of the other writes are
\* not looked at.
SendHeader ==
  /\ At("send") /\ Then
  /\ IF state # 1 THEN sendResult' = -3 /\ UNCHANGED <<state, headers, wire, broken>>
     ELSE \E o \in Outcomes(FullHeader) :
            LET ok == o.out # <<>> /\ o.out[1].k = "status"
            IN /\ broken' = o.broken /\ headers' = <<>>
               /\ wire' = IF ok THEN wire \o o.out ELSE wire
               /\ state' = IF ok THEN 3 ELSE 10
               /\ sendResult' = IF ok THEN 0 ELSE -4
  /\ UNCHANGED <<status, mustClose, inError>>

\* mg_write() and mg_printf()
WriteRaw ==
  /\ At("raw") /\ Then
  /\ state' = 10
  /\ \E o \in Outcomes(<<Head(todo).item>>) : wire' = wire \o o.out /\ broken' = o.broken
  /\ UNCHANGED <<status, headers, mustClose, inError, sendResult>>

\* mg_disable_connection_keep_alive()
Close ==
  /\ At("close") /\ Then
  /\ mustClose' = TRUE
  /\ UNCHANGED <<state, status, headers, inError, wire, broken, sendResult>>

\* mg_send_http_error_impl(): the callback is asked first, but not for an error that it
\* reports itself.
SendError ==
  /\ At("error")
  /\ status' = Arg
  /\ IF callback.by # "none" /\ ~inError
     THEN inError' = TRUE /\ todo' = CallbackOps(callback) \o <<Left(callback, Arg)>> \o Tail(todo)
     ELSE UNCHANGED inError /\ todo' = PageOps(Arg) \o Tail(todo)
  /\ UNCHANGED <<state, headers, mustClose, wire, broken, sendResult>>

CallbackLeft ==
  /\ At("left")
  /\ inError' = FALSE
  /\ todo' = (IF Head(todo).handles THEN <<>> ELSE PageOps(Arg)) \o Tail(todo)
  /\ UNCHANGED <<state, status, headers, mustClose, wire, broken, sendResult>>

\* process_new_connection() after the request: keep_alive, for a request whose body was
\* read.  A lost write does not end the connection.
End ==
  /\ phase = "busy" /\ todo = <<>>
  /\ phase' = IF KeepsAlive /\ ~broken THEN "idle" ELSE "closed"
  /\ headers' = <<>>
  /\ UNCHANGED <<config, state, status, mustClose, inError, todo, wire, broken, sendResult>>

Next ==
  \/ \E a \in Replies[keepAlive] : Request(a)
  \/ StartResponse \/ AddHeader \/ SendHeader \/ WriteRaw \/ Close \/ SendError \/ CallbackLeft
  \/ End

Spec == Init /\ [][Next]_vars /\ WF_vars(Next)

-----------------------------------------------------------------------------
TypeOK ==
  /\ keepAlive \in BOOLEAN /\ callback \in Callbacks
  /\ state \in {0, 1, 3, 10} /\ status \in Int /\ Len(headers) <= MaxHeaders
  /\ mustClose \in BOOLEAN /\ inError \in BOOLEAN /\ broken \in BOOLEAN
  /\ sendResult \in {0, -3, -4} /\ phase \in {"idle", "busy", "closed"}

Rank           == [status |-> 1, header |-> 2, blank |-> 3, body |-> 4]
Is(s, kind)    == {i \in 1 .. Len(s) : s[i].k = kind}
Named(s, name) == {s[i].v : i \in {j \in Is(s, "header") : s[j].name = name}}
Size(item)     == IF item.k = "body" THEN item.v ELSE 0
BodyOf(s)      ==
  LET sum[i \in 0 .. Len(s)] == IF i = 0 THEN 0 ELSE sum[i - 1] + Size(s[i]) IN sum[Len(s)]

\* A body without a head: handler() does not look at what mg_response_header_start() says
\* of R's status, and writes the body after mg_response_header_send() has refused.
Headless == state = 10 /\ sendResult = -3 /\ \A i \in 1 .. Len(wire) : wire[i].k = "body"

\* However a response is cut short, and whatever is sent after it was begun, the client
\* sees one status line, then headers, one blank line and the body, and never a body
\* that no header announced (response.inl, mg_send_http_error_impl(), handler()), unless
\* mg_response_header_send() refused to send any header at all.
InOrder ==
  ~MayStall =>
    \/ Headless
    \/ /\ Cardinality(Is(wire, "status")) <= 1 /\ Cardinality(Is(wire, "blank")) <= 1
       /\ wire # <<>> => wire[1].k = "status"
       /\ \A i \in 1 .. Len(wire) - 1 : Rank[wire[i].k] <= Rank[wire[i + 1].k]
       /\ Is(wire, "body") # {} => Is(wire, "blank") # {}

\* A connection that goes on has an end of the response to go on from: a length that is
\* the length of the body, chunks, or a status that has no body.  Everything else
\* closes (should_keep_alive(), mg_send_http_error_impl()).
KeptOnlyIfDelimited ==
  (phase = "idle" /\ wire # <<>> /\ ~MayStall) =>
     \/ Bodiless(wire[1].v) /\ BodyOf(wire) = 0
     \/ Named(wire, "Transfer-Encoding") # {}
     \/ Named(wire, "Content-Length") = {BodyOf(wire)}

\* CivetWeb's own Connection header is kept to: after "close" the connection closes.
CloseIsKept == phase = "idle" => 0 \notin Named(wire, "Connection")

Lefts(s) == {i \in 1 .. Len(s) : s[i].op = "left"}

\* The callback for errors is never entered from itself (in_error_handler).
CallbackNotNested == Cardinality(Lefts(todo)) <= 1

-----------------------------------------------------------------------------
(* Why it is so.  A client that has the response as it is so far, and will *)
(* get the rest of it, is at one of four places; where the connection may  *)
(* be kept it also knows what it was told of the length (-1: chunks, -2:   *)
(* nothing), what it has got of the body, and the room for headers left.   *)

Views == [at : {"none", "begun", "head", "body"}, told : Int, room : Int, got : Int, closes : BOOLEAN]

Told(a, h) ==
  IF a.closes THEN a
  ELSE [a EXCEPT !.told = IF h.name = "Content-Length" THEN h.v
                          ELSE IF h.name = "Transfer-Encoding" THEN -1 ELSE @]

\* What an operation makes of that, and where it may be done.
AfterRaw(a, item) ==
  IF item.k = "status" THEN [a EXCEPT !.at = "head"]
  ELSE IF item.k = "header" THEN Told(a, item)
  ELSE IF item.k = "blank" THEN [a EXCEPT !.at = "body"]
  ELSE IF a.closes THEN a ELSE [a EXCEPT !.got = @ + item.v]
After(a, o) ==
  IF o.op = "start" THEN IF a.at = "none" THEN [a EXCEPT !.at = "begun"] ELSE a
  ELSE IF o.op = "add" THEN IF a.closes THEN a ELSE [Told(a, o.item) EXCEPT !.room = @ - 1]
  ELSE IF o.op = "send" THEN IF a.at = "begun" THEN [a EXCEPT !.at = "body"] ELSE a
  ELSE IF o.op = "raw" THEN AfterRaw(a, o.item)
  ELSE IF o.op = "close" THEN [a EXCEPT !.closes = TRUE]
  ELSE [a EXCEPT !.at = "body", !.closes = TRUE]

MayTell(a, h) ==
  a.closes \/ (h.name # "Connection" /\ (h.name \in Framing => a.told = -2))
Place == [status |-> "none", header |-> "head", blank |-> "head", body |-> "body"]
Allowed(a, o) ==
  /\ o.op = "add" => MayTell(a, o.item) /\ (a.closes \/ (a.at = "begun" /\ a.room > 0))
  /\ o.op = "raw" => /\ a.at = Place[o.item.k]
                     /\ o.item.k = "header" => MayTell(a, o.item)
  /\ o.op = "error" => a.at # "head"
  /\ o.op = "left" => a.at = "body" /\ a.closes

\* The operations of p lead from a to b.
Course(p, a, b) ==
  \E f \in [0 .. Len(p) -> Views] :
    /\ f[0] = a /\ f[Len(p)] = b
    /\ \A i \in 1 .. Len(p) : Allowed(f[i - 1], p[i]) /\ f[i] = After(f[i - 1], p[i])

\* All there was to get, or the connection will be closed.
Delimited(a) ==
  a.closes \/ a.at \in {"none", "begun"} \/ (a.at = "body" /\ (a.told = -1 \/ a.told = a.got))

\* Headers that tell no more than that of a length, and promise nothing else.
Tells(s, n) ==
  /\ 0 \notin Named(s, "Connection")
  /\ IF n = -1 THEN Named(s, "Transfer-Encoding") # {}
     ELSE Named(s, "Content-Length") = IF n = -2 THEN {} ELSE {n}

HeadOnly(s) == Len(s) > 0 /\ s[1].k = "status" /\ \A i \in 2 .. Len(s) : s[i].k = "header"
WithBody(s) == \E b \in 2 .. Len(s) :
  /\ s[1].k = "status" /\ s[b].k = "blank"
  /\ \A i \in 2 .. b - 1 : s[i].k = "header"
  /\ \A i \in b + 1 .. Len(s) : s[i].k = "body"

\* The client is where a says.
Seen(a) ==
  /\ a \in Views /\ a.closes = ~KeepsAlive
  /\ a.at = "none" => state = 0 /\ wire = <<>>
  /\ a.at = "begun" => state = 1 /\ wire = <<>>
  /\ a.at = "head" => state = 10 /\ HeadOnly(wire)
  /\ a.at = "body" => state \in {3, 10} /\ WithBody(wire)
  /\ ~a.closes =>
       /\ BodyOf(wire) = a.got
       /\ a.at = "none" => a.told = -2 /\ a.room = MaxHeaders
       /\ a.at = "begun" => Len(headers) + a.room <= MaxHeaders /\ Tells(headers, a.told)
       /\ a.at \in {"head", "body"} => Tells(wire, a.told)

HeaderType == [k : {"header"}, name : Names, v : Nat]
ItemType   == HeaderType \cup [k : {"status"}, v : Int] \cup [k : {"blank"}] \cup [k : {"body"}, v : Nat]
Operations ==
  [op : {"send", "close"}] \cup [op : {"start", "error"}, code : Codes] \cup [op : {"add"}, item : HeaderType]
  \cup [op : {"raw"}, item : ItemType] \cup [op : {"left"}, handles : BOOLEAN, code : Codes]

Headed ==
  /\ TypeOK /\ headers \in Seq(HeaderType) /\ wire \in Seq(ItemType) /\ todo \in Seq(Operations)
  /\ wire = <<>> \/ HeadOnly(wire) \/ WithBody(wire)
  /\ \A i, j \in Lefts(todo) : i = j
  /\ ~inError => Lefts(todo) = {}
  /\ phase = "busy" /\ ~broken => \E a, b \in Views : Seen(a) /\ Course(todo, a, b) /\ Delimited(b)
  /\ phase = "idle" => /\ ~broken /\ 0 \notin Named(wire, "Connection")
                       /\ \/ wire = <<>>
                          \/ Named(wire, "Transfer-Encoding") # {}
                          \/ Named(wire, "Content-Length") = {BodyOf(wire)}

\* Or the status was refused: so will the head be, before any body is written.
RefusedOps ==
  [op : {"send"}] \cup [op : {"start"}, code : Int \ Codes] \cup [op : {"add"}, item : HeaderType]
  \cup [op : {"raw"}, item : [k : {"body"}, v : Nat]]
BodyLast(p) == \A i \in 1 .. Len(p) : p[i].op = "raw" => \E j \in 1 .. i - 1 : p[j].op = "send"
Refused ==
  /\ TypeOK /\ phase # "idle" /\ ~KeepsAlive
  /\ todo \in Seq(RefusedOps) /\ wire \in Seq(ItemType)
  /\ sendResult = -3 \/ BodyLast(todo)
  /\ (state = 0 /\ wire = <<>>) \/ Headless

ResponseInv == Headed \/ Refused

\* Every response ends, errors in error handlers included.
ResponseEnds == phase = "busy" ~> phase # "busy"

=============================================================================
