----------------------------- MODULE BodyStream ------------------------------
(***************************************************************************)
(* How a worker cuts the bytes of a connection into requests and bodies    *)
(* (civetweb.c: process_new_connection(), get_request(), read_message(),   *)
(* mg_read()), with read_body() of server.c as the reader of the bodies.   *)
(*                                                                         *)
(* The client sends stream.text, a sequence of characters; what the server *)
(* holds are positions in it, so that a byte is never mistaken for an      *)
(* equal one.  A character is one the code looks at, or stands for any     *)
(* other.  The last character of a head, "end", stands for the empty line. *)
(* One action is one call of mg_read_inner() or pull_inner().              *)
(***************************************************************************)
EXTENDS Integers, Sequences, SequencesExt, FiniteSetsExt

CONSTANTS
  Streams,        \* what the client may send, see MCConnection
  BufSize,        \* conn->buf_size, option max_request_size
  LineSize,       \* sizeof(lenbuf) - 1 in mg_read()
  ReadSizes,      \* the lengths the handler passes to mg_read()
  DiscardSize,    \* MG_BUF_LEN
  MaxBody,        \* g_max_body_size
  KeepAlive,      \* option enable_keep_alive is "yes"
  ReadsAll        \* the handler is server.c's, which reads every body

VARIABLES
  stream,   \* [text, messages, pauses]
  pulled,   \* how many bytes recv() returned so far
  stalled,  \* a read timed out and the client sends no more
  stop_flag,
  buf,      \* conn->buf[0 .. data_len - 1]
  request_len, content_len, consumed_content, is_chunked, must_close,
  handled_requests,
  pc,
  reader,   \* who called mg_read(): the handler or discard_unread_request_data()
  left, all_read, \* mg_read()'s len, and the bytes it has put into its buffer
  line,     \* lenbuf: the characters of a chunk size
  crlf_count,
  returned, \* what the last mg_read() returned: a positive number, 0 or -1
  req_body, too_large,  \* the request's req_body and req_body_too_large
  failed    \* history: a read of this body came short

framing == <<request_len, content_len, consumed_content, is_chunked>>
call    == <<reader, left, all_read, line, crlf_count>>
body    == <<req_body, too_large, failed>>
vars == <<stream, pulled, stalled, stop_flag, buf, framing, must_close, handled_requests, pc,
          call, returned, body>>

Char(p)   == stream.text[p]
Upto(n)   == IF stalled THEN 0 ELSE Min({n, Len(stream.text) - pulled})
Pulled(k) == [i \in 1..k |-> pulled + i]    \* the next k bytes of the socket

\* Heads the parser accepts, by their first position.
Heads == {m \in Range(stream.messages) : m.framing # "malformed"}
HeadOf(p) == CHOOSE m \in Heads : m.first = p
ThisHead  == HeadOf(buf[1])
Published == IF ThisHead.framing = "length" THEN ThisHead.length ELSE -1

ResetAttributes ==
  /\ request_len' = 0 /\ content_len' = -1 /\ consumed_content' = 0 /\ is_chunked' = 0
  /\ must_close' = FALSE

Init ==
  /\ stream \in Streams
  /\ pulled = 0 /\ stalled = FALSE /\ stop_flag = FALSE /\ buf = <<>>
  /\ request_len = 0 /\ content_len = -1 /\ consumed_content = 0 /\ is_chunked = 0
  /\ must_close = FALSE /\ handled_requests = 0
  /\ pc = "head" /\ reader = "handler" /\ left = 0 /\ all_read = <<>> /\ line = <<>>
  /\ crlf_count = 0 /\ returned = 1
  /\ req_body = <<>> /\ too_large = FALSE /\ failed = FALSE

-----------------------------------------------------------------------------
(* read_message(): bytes are received until the head is complete.          *)

\* get_http_header_len(): 0 if there is no end of a head yet, -1 if a control
\* character comes first
HeaderLen ==
  LET marks == {i \in DOMAIN buf : Char(buf[i]) \in {"end", "ctl"}}
  IN IF marks = {} THEN 0
     ELSE IF Char(buf[Min(marks)]) = "ctl" THEN -1 ELSE Min(marks)

ReceiveHead ==
  /\ pc = "head" /\ HeaderLen = 0 /\ ~stop_flag /\ Len(buf) < BufSize
  /\ \E k \in 1..Upto(BufSize - Len(buf)) : buf' = buf \o Pulled(k) /\ pulled' = pulled + k
  /\ UNCHANGED <<stream, stalled, stop_flag, framing, must_close, handled_requests, pc, call,
                 returned, body>>

\* stopped, too long, closed by the client, timed out, or malformed: if anything was
\* received an error is sent, and the connection is closed in any case
HeadFails ==
  /\ pc = "head" /\ (HeaderLen = 0 \/ HeaderLen = -1)
  /\ must_close' = TRUE /\ pc' = "finish"
  /\ UNCHANGED <<stream, pulled, stalled, stop_flag, buf, framing, handled_requests, call,
                 returned, body>>

\* Transfer-Encoding has precedence over Content-Length.
Framing(m) == m.framing

\* get_request(), once the head is there
GetRequest ==
  /\ pc = "head" /\ HeaderLen > 0
  /\ request_len' = HeaderLen
  /\ IF \E m \in Heads : m.first = buf[1]
     THEN /\ content_len' = CASE Framing(ThisHead) = "chunked" -> 0
                              [] Framing(ThisHead) = "length" -> ThisHead.length
                              [] OTHER -> 0
          /\ is_chunked' = IF Framing(ThisHead) = "chunked" THEN 1 ELSE 0
          /\ pc' = "handler" /\ UNCHANGED must_close
          /\ too_large' = (Published > MaxBody)
     ELSE /\ must_close' = TRUE /\ pc' = "finish"
          /\ UNCHANGED <<content_len, is_chunked, too_large>>
  /\ reader' = "handler" /\ returned' = 1 /\ req_body' = <<>> /\ failed' = FALSE
  /\ UNCHANGED <<stream, pulled, stalled, stop_flag, buf, consumed_content, handled_requests,
                 left, all_read, line, crlf_count>>

-----------------------------------------------------------------------------
(* mg_read_inner(): first what is in the buffer, then from the socket.     *)

Buffered == Max({0, Len(buf) - request_len - consumed_content})

Wanted(n, length) == Min({n, length - consumed_content})

\* bytes is what a read of n bytes of a content of that length returns; it is less than
\* that when the client has closed, the server stops, or the time is over
Inner(n, length, bytes) ==
  LET want == IF consumed_content < length THEN Wanted(n, length) ELSE 0
      old  == Min({want, Buffered})
      k    == Len(bytes) - old
  IN /\ k \in 0..Upto(want - old)
     /\ bytes = SubSeq(buf, request_len + consumed_content + 1,
                       request_len + consumed_content + old) \o Pulled(k)
     /\ pulled' = pulled + k /\ consumed_content' = consumed_content + Len(bytes)
     /\ stalled' = (stalled \/ (k < want - old /\ ~stream.pauses))
     /\ failed' = (failed \/ k < want - old)

Reads(n, length) ==   \* the results an Inner may have
  LET want == IF consumed_content < length THEN Wanted(n, length) ELSE 0
      old  == Min({want, Buffered})
  IN {SubSeq(buf, request_len + consumed_content + 1, request_len + consumed_content + old)
        \o Pulled(k) : k \in 0..Upto(want - old)}

-----------------------------------------------------------------------------
(* mg_read(), and what its two callers do with what it returns.            *)

\* Room in the buffer of read_body(): the published length, or the limit.
Cap == IF Published > 0 /\ Published <= MaxBody THEN Published ELSE MaxBody

FirstOf(s, n) == SubSeq(s, 1, Min({n, Len(s)}))
Copy(bytes) == FirstOf(req_body \o bytes, Cap)

\* mg_read() returns n; read_body() copies what fits
Return(n, bytes) ==
  /\ pc' = reader /\ returned' = n
  /\ IF reader = "handler" /\ n > 0
     THEN /\ req_body' = Copy(bytes)
          /\ too_large' = (too_large \/ Len(req_body) + Len(bytes) > Cap)
     ELSE UNCHANGED <<req_body, too_large>>

Continue(where) == pc' = where /\ UNCHANGED <<returned, req_body, too_large>>

CallRead(n) ==
  /\ pc' = "read" /\ left' = n /\ all_read' = <<>>
  /\ UNCHANGED <<stream, pulled, stalled, stop_flag, buf, framing, must_close,
                 handled_requests, reader, line, crlf_count, returned, body>>

\* read_body() does not read at all when the length is 0
HandlerReads ==
  /\ pc = "handler" /\ returned > 0 /\ ~(ReadsAll /\ Published = 0)
  /\ \E n \in ReadSizes : CallRead(n)

\* (mutant) only an error ends the loop
NotFailed == returned >= 0

MoreToDiscard == returned > 0

DiscardReads == pc = "discard" /\ MoreToDiscard /\ CallRead(DiscardSize)

\* After the callback handle_request() reads the rest, unless the callback has
\* made up its mind to close the connection.
HandlerReturns ==
  /\ pc = "handler"
  /\ ReadsAll => returned <= 0 \/ Published = 0
  /\ must_close' \in BOOLEAN
  /\ pc' = IF must_close' THEN "finish" ELSE "discard"
  /\ reader' = "discard" /\ returned' = 1
  /\ UNCHANGED <<stream, pulled, stalled, stop_flag, buf, framing, handled_requests, left,
                 all_read, line, crlf_count, body>>

DiscardEnds ==
  /\ pc = "discard" /\ ~MoreToDiscard
  /\ pc' = "finish"
  /\ UNCHANGED <<stream, pulled, stalled, stop_flag, buf, framing, must_close,
                 handled_requests, call, returned, body>>

ReadPlain ==
  /\ pc = "read" /\ is_chunked = 0
  /\ \E bytes \in Reads(left, content_len) :
       Inner(left, content_len, bytes) /\ Return(Len(bytes), bytes)
  /\ UNCHANGED <<stream, stop_flag, buf, request_len, content_len, is_chunked, must_close,
                 handled_requests, call>>

AllRead(bytes) == Return(Len(bytes), bytes)

\* The loop of mg_read() ends: enough was read, the body has ended, or it is broken.
ReadReturns ==
  /\ pc = "read"
  /\ \/ left = 0 /\ AllRead(all_read)
     \/ left > 0 /\ is_chunked >= 3 /\ Return(0, <<>>)
     \/ left > 0 /\ is_chunked = 2 /\ Return(-1, <<>>)
  /\ UNCHANGED <<stream, pulled, stalled, stop_flag, buf, framing, must_close,
                 handled_requests, call, failed>>

\* a protocol violation, or nothing to read: the body is broken for good
Broken == is_chunked' = 2 /\ Return(-1, <<>>)

ReadChunk ==
  /\ pc = "read" /\ is_chunked = 1 /\ left > 0 /\ consumed_content # content_len
  /\ \E bytes \in Reads(left, content_len) :
       /\ Inner(left, content_len, bytes)
       /\ IF bytes = <<>> THEN Broken /\ UNCHANGED <<left, all_read>>
          ELSE /\ all_read' = all_read \o bytes /\ left' = left - Len(bytes)
               /\ UNCHANGED is_chunked
               /\ Continue(IF consumed_content' = content_len THEN "crlf" ELSE "read")
  /\ UNCHANGED <<stream, stop_flag, buf, request_len, content_len, must_close,
                 handled_requests, reader, line, crlf_count>>

Chars(bytes) == [i \in DOMAIN bytes |-> Char(bytes[i])]

EndOfChunk ==
  /\ pc = "crlf"
  /\ content_len' = content_len + 2
  /\ \E bytes \in Reads(2, content_len') :
       /\ Inner(2, content_len', bytes)
       /\ IF Chars(bytes) = <<"CR", "LF">> THEN Continue("read") /\ UNCHANGED is_chunked
          ELSE Broken
  /\ UNCHANGED <<stream, stop_flag, buf, request_len, must_close, handled_requests, call>>

NextChunk ==
  /\ pc = "read" /\ is_chunked = 1 /\ left > 0 /\ consumed_content = content_len
  /\ line' = <<>> /\ Continue("size")
  /\ UNCHANGED <<stream, pulled, stalled, stop_flag, buf, framing, must_close,
                 handled_requests, reader, left, all_read, crlf_count, failed>>

-----------------------------------------------------------------------------
(* The line with the size of a chunk, and the trailer of the last one.     *)

HexValue == [c \in {"0", "1", "2", "3", "a"} |->
               CASE c = "0" -> 0 [] c = "1" -> 1 [] c = "2" -> 2 [] c = "3" -> 3 [] c = "a" -> 10]
IsHex(c) == c \in DOMAIN HexValue

\* strtoul(lenbuf, &end, 16): the line is digits and a carriage return
ChunkSize(digits) == FoldLeft(LAMBDA n, c : 16 * n + HexValue[c], 0, Front(digits))

\* What the loop does with the character that ended up in lenbuf[i].
Take(c) ==
  LET before == IF line = <<>> THEN "none" ELSE Last(line) IN
  \/ /\ IsHex(c) \/ (line # <<>> /\ c = "CR" /\ before # "CR")
     /\ line' = Append(line, c)
     /\ IF Len(line') < LineSize THEN Continue("size") /\ UNCHANGED is_chunked ELSE Broken
     /\ UNCHANGED crlf_count
  \/ /\ Len(line) > 1 /\ c = "LF" /\ before = "CR"
     /\ UNCHANGED line
     /\ IF ChunkSize(line) = 0
        THEN is_chunked' = 3 /\ crlf_count' = 2 /\ Continue("trailer")
        ELSE UNCHANGED <<is_chunked, crlf_count>> /\ Continue("read")
  \/ /\ ~IsHex(c) /\ ~(line # <<>> /\ c = "CR" /\ before # "CR")
     /\ ~(Len(line) > 1 /\ c = "LF" /\ before = "CR")
     /\ Broken /\ UNCHANGED <<line, crlf_count>>

\* the size is added to the content length when the line is complete
Added(c) == IF c = "LF" /\ Len(line) > 1 /\ Last(line) = "CR" THEN ChunkSize(line) ELSE 0

SizeChar ==
  /\ pc = "size"
  /\ \E bytes \in Reads(1, content_len + 1) :
       LET c == IF bytes = <<>> THEN "NUL" ELSE Char(bytes[1]) IN
       /\ Inner(1, content_len + 1, bytes)
       /\ content_len' = content_len + 1 + Added(c)
       /\ IF c = ";" /\ line # <<>>
          THEN Continue("ext") /\ UNCHANGED <<line, is_chunked, crlf_count>>
          ELSE Take(c)
  /\ UNCHANGED <<stream, stop_flag, buf, request_len, must_close, handled_requests, reader,
                 left, all_read>>

LastRead == IF request_len + consumed_content <= Len(buf)
            THEN buf[request_len + consumed_content] ELSE pulled

\* The extension is skipped up to the next carriage return; if no character can be
\* read the loop ends as well, with the last one still in lenbuf[i].
Extension ==
  /\ pc = "ext"
  /\ \E bytes \in Reads(1, content_len + 1) :
       /\ Inner(1, content_len + 1, bytes)
       /\ content_len' = content_len + 1 + (IF bytes = <<>> THEN Added(Char(LastRead)) ELSE 0)
       /\ IF bytes = <<>> THEN Take(Char(LastRead))
          ELSE IF Char(bytes[1]) = "CR" THEN Take("CR")
          ELSE Continue("ext") /\ UNCHANGED <<line, is_chunked, crlf_count>>
  /\ UNCHANGED <<stream, stop_flag, buf, request_len, must_close, handled_requests, reader,
                 left, all_read>>

\* crlf_count after a character: only "CR LF" twice in a row ends the trailer
TrailerCount(count, c) ==
  IF count \in {0, 2} THEN (IF c = "CR" THEN count + 1 ELSE 0)
  ELSE IF c = "LF" THEN count + 1 ELSE -1

Trailer ==
  /\ pc = "trailer" /\ is_chunked = 3
  /\ content_len' = content_len + 1
  /\ \E bytes \in Reads(1, content_len') :
       LET count == IF bytes = <<>> THEN -1 ELSE TrailerCount(crlf_count, Char(bytes[1])) IN
       /\ Inner(1, content_len', bytes)
       /\ crlf_count' = count
       /\ CASE count = -1 -> Broken
            [] count = 4 -> is_chunked' = 4 /\ AllRead(all_read)
            [] OTHER -> Continue("trailer") /\ UNCHANGED is_chunked
  /\ UNCHANGED <<stream, stop_flag, buf, request_len, must_close, handled_requests, reader,
                 left, all_read, line>>

-----------------------------------------------------------------------------
(* The end of a request in process_new_connection(), and mg_stop().        *)

ShouldKeepAlive == ~must_close /\ KeepAlive /\ ThisHead.keepalive

\* (mutant) whatever is left of the body is taken for the next request
DiscardableOrNot == TRUE

\* The body has been read completely, or is completely in the buffer.
Discardable ==
  /\ content_len >= 0 /\ request_len > 0
  /\ \/ is_chunked = 4
     \/ /\ is_chunked = 0
        /\ consumed_content = content_len \/ request_len + content_len <= Len(buf)

Finish ==
  /\ pc = "finish"
  /\ handled_requests' = handled_requests + 1
  /\ IF ~stop_flag /\ ShouldKeepAlive /\ Discardable
     THEN /\ pc' = "head"
          /\ buf' = SubSeq(buf, Min({request_len + content_len, Len(buf)}) + 1, Len(buf))
          /\ ResetAttributes
     ELSE pc' = "closed" /\ UNCHANGED <<buf, framing, must_close>>
  /\ UNCHANGED <<stream, pulled, stalled, stop_flag, call, returned, body>>

StopServer ==
  /\ ~stop_flag /\ stop_flag' = TRUE /\ stalled' = TRUE
  /\ UNCHANGED <<stream, pulled, buf, framing, must_close, handled_requests, pc, call,
                 returned, body>>

Step ==
  \/ ReceiveHead \/ HeadFails \/ GetRequest
  \/ HandlerReads \/ HandlerReturns \/ DiscardReads \/ DiscardEnds
  \/ ReadPlain \/ ReadReturns \/ ReadChunk \/ EndOfChunk \/ NextChunk
  \/ SizeChar \/ Extension \/ Trailer \/ Finish

Next == Step \/ StopServer

\* Every loop of the worker goes on; a read that waits for ever times out.
Spec == Init /\ [][Next]_vars /\ WF_vars(Step)

-----------------------------------------------------------------------------
(* Properties.                                                             *)

Positions == 1..Len(stream.text)
TypeOK ==
  /\ stream \in Streams /\ pulled \in 0..Len(stream.text)
  /\ stalled \in BOOLEAN /\ stop_flag \in BOOLEAN /\ must_close \in BOOLEAN
  /\ buf \in Seq(Positions) /\ Len(buf) <= BufSize
  /\ request_len \in 0..Len(buf) /\ is_chunked \in 0..4 /\ consumed_content \in Nat
  /\ content_len \in Nat \cup {-1} /\ content_len >= consumed_content - 1
  /\ pc \in {"head", "handler", "discard", "read", "crlf", "size", "ext", "trailer", "finish",
             "closed"}
  /\ reader \in {"handler", "discard"} /\ left \in Nat /\ crlf_count \in -1..4
  /\ returned \in -1..Max(ReadSizes \cup {DiscardSize}) /\ Len(req_body) <= MaxBody

Message == stream.messages[handled_requests + 1]

\* Where the next byte comes from that no request has claimed.
Position == IF buf = <<>> THEN pulled + 1 ELSE buf[1]

\* The server and the client agree where a request begins: after each request kept
\* alive the next head is looked for at the first byte of the client's next message,
\* however the bytes were split among reads, however much of a body the handler
\* read, and never inside a body or after one that was broken.
RequestsStartAtMessages ==
  pc = "head" => /\ handled_requests < Len(stream.messages) + 1
                 /\ handled_requests > 0 => ~stream.messages[handled_requests].broken
                 /\ handled_requests < Len(stream.messages) => Position = Message.first

\* Whatever the framing and the reads, the body a handler sees is a prefix of the
\* data the client sent as that message's body: no bytes of the framing, none
\* missing in between, none of the next request.
BodyIsPrefix ==
  reader = "handler" /\ pc \notin {"head", "finish", "closed"}
    => handled_requests < Len(stream.messages) /\ IsPrefix(req_body, Message.data)

\* What read_body() hands over is the whole body unless it says that the body is too
\* large, which it says exactly when it is, or the connection failed.
BodyIsReported ==
  ReadsAll /\ pc = "handler" /\ returned <= 0 /\ ~failed /\ is_chunked # 2
    => /\ too_large <=> Len(Message.data) > MaxBody
       /\ req_body = FirstOf(Message.data, MaxBody)

=============================================================================
