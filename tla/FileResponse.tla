---------------------------- MODULE FileResponse ----------------------------
(***************************************************************************)
(* A file is sent: handle_file_based_request(),                            *)
(* handle_static_file_request() and send_file_data() of civetweb.c, with   *)
(* ranges, gzipped files, 304, the error pages of mg_send_http_error(),    *)
(* and someone who writes the files at the same time.                      *)
(***************************************************************************)
EXTENDS Integers, Sequences, SequencesExt, FiniteSets

CONSTANTS
  Files,        \* trees to begin with: functions from Names to files
  Requests,     \* [path, head, gzip, range, from, to, known, conditional, sendfile]
  Edits,        \* contents that a writer puts in a file
  GzipFrom,     \* MG_FILE_COMPRESSION_SIZE_LIMIT
  MayFail,      \* sendfile() fails, the client goes away
  MaxEdits,     \* bound: writes
  MaxRequests   \* bound: requests

VARIABLES
  disk,         \* [Names -> file]
  pc, req,
  path,         \* the name that is opened
  stat,         \* filep->stat
  encoding,     \* Content-Encoding is sent
  inError, error, \* conn->in_error_handler, and the status the page stands for
  code,         \* conn->status_code
  cl, etag,     \* the Content-Length and the Etag that are announced
  off, len,     \* what send_file_data() has left
  looped,       \* sendfile() has sent something
  answer,       \* the status line that was sent, 0: none
  sent,         \* the body that was sent
  broken,       \* the client went away
  edits, requests

file == <<path, stat, encoding, cl, etag, off, len, looped>>
vars == <<disk, pc, req, file, inError, error, code, answer, sent, broken, edits, requests>>

\* error pages are tried by scope: for the status, its hundred, and any
Names   == {"file", "file.gz", "error404", "error4xx", "error"}
PageErrors == {404, 416, 500}
ErrorPages == {"error404", "error4xx", "error"}
Pages(e) == IF e = 404 THEN <<"error404", "error4xx", "error">> ELSE IF e = 416 THEN <<"error4xx", "error">> ELSE <<"error">>
Gz(p)   == IF p = "file" THEN {"file.gz"} ELSE {}

There(p) == disk[p].there
Size(p) == Len(disk[p].bytes)
NoStat  == [size |-> 0, mtime |-> 0, gz |-> FALSE]
\* mg_stat() clears is_gzipped; who looked for the .gz sets it afterwards
Stat(p, gz) == [size |-> Size(p), mtime |-> disk[p].mtime, gz |-> gz]
Etag(s) == <<s.mtime, s.size>>

FileType    == [there : BOOLEAN, bytes : Seq(Int), mtime : Int]
StatType    == [size : Nat, mtime : Int, gz : BOOLEAN]
RequestType == [path : {"file"}, head : BOOLEAN, gzip : BOOLEAN, range : {"no", "both", "from"},
                from : Nat, to : Nat, known : Int \X Int, conditional : {"no", "etag", "date"},
                sendfile : BOOLEAN]
ConstantsAreProper ==
  /\ Files \subseteq [Names -> FileType] /\ Edits \subseteq FileType /\ Requests \subseteq RequestType
  /\ GzipFrom \in Nat /\ MayFail \in BOOLEAN /\ MaxEdits \in Nat /\ MaxRequests \in Nat

Init ==
  /\ disk \in Files /\ pc = "idle" /\ req \in Requests /\ path = "file" /\ stat = NoStat /\ encoding = FALSE
  /\ inError = FALSE /\ error = 0 /\ code = 0 /\ cl = 0 /\ etag = <<0, 0>>
  /\ off = 0 /\ len = 0 /\ looped = FALSE /\ answer = 0 /\ sent = <<>> /\ broken = FALSE
  /\ edits = 0 /\ requests = 0

Begun == UNCHANGED <<req, edits, requests, disk>>

\* mg_send_http_error(): a page for the error is served like a file, once.
Fails(e) ==
  /\ error' = e
  /\ LET pages == {i \in DOMAIN Pages(e) : There(Pages(e)[i])}
     IN IF ~inError /\ pages # {}
        THEN /\ inError' = TRUE /\ path' = Pages(e)[CHOOSE i \in pages : \A j \in pages : i <= j]
             /\ stat' = Stat(path', FALSE)
             /\ code' = e /\ pc' = "decide" /\ UNCHANGED answer
        ELSE /\ pc' = "idle" /\ answer' = e /\ code' = e /\ inError' = FALSE /\ UNCHANGED <<path, stat>>

\* A request whose file interpret_uri() looked for.
Begin(r) ==
  /\ pc = "idle" /\ requests < MaxRequests
  /\ requests' = requests + 1 /\ req' = r /\ path' = r.path
  /\ sent' = <<>> /\ answer' = 0 /\ broken' = FALSE /\ encoding' = FALSE /\ error' = 0 /\ inError' = FALSE
  /\ code' = 0 /\ cl' = 0 /\ etag' = <<0, 0>> /\ off' = 0 /\ len' = 0 /\ looped' = FALSE
  /\ LET zipped == {g \in Gz(r.path) : There(g) /\ r.gzip}
     IN CASE There(r.path)                     -> stat' = Stat(r.path, FALSE) /\ pc' = "decide"
          [] ~There(r.path) /\ zipped # {}     -> stat' = Stat(CHOOSE g \in zipped : TRUE, TRUE) /\ pc' = "decide"
          [] ~There(r.path) /\ zipped = {}     -> stat' = NoStat /\ pc' = "missing"
  /\ UNCHANGED <<disk, edits>>

\* handle_request(): the file is not there.
Missing ==
  /\ pc = "missing" /\ Fails(404) /\ Begun
  /\ UNCHANGED <<encoding, cl, etag, off, len, looped, sent, broken>>

\* is_not_modified(): the Etag is compared when there is one, else the date.
NotModified ==
  CASE req.conditional = "etag" -> Etag(stat) = req.known
    [] req.conditional = "date" -> stat.mtime <= req.known[1]
    [] req.conditional = "no"   -> FALSE

\* handle_file_based_request() and handle_static_file_request() up to mg_fopen(): the
\* length is that of the file, or of a zipped one beside it.
Decide ==
  /\ pc = "decide" /\ Begun /\ UNCHANGED <<inError, error, off, len, looped, sent, broken>>
  /\ \/ /\ ~inError /\ NotModified
        /\ answer' = 304 /\ etag' = Etag(stat) /\ pc' = "idle" /\ UNCHANGED <<path, stat, encoding, code, cl>>
     \/ /\ inError \/ ~NotModified
        /\ code' = 200 /\ pc' = "open" /\ UNCHANGED <<etag, answer>>
        /\ LET zipped == {g \in Gz(path) : There(g)}
               beside == req.gzip /\ req.range = "no" /\ stat.size >= GzipFrom /\ zipped # {} /\ ~stat.gz
           IN CASE stat.gz -> \* interpret_uri() found only this one
                     /\ path' = "file.gz" /\ encoding' = TRUE /\ cl' = stat.size /\ UNCHANGED stat
                [] beside ->
                     /\ path' = CHOOSE g \in zipped : TRUE
                     /\ stat' = Stat(path', TRUE) /\ encoding' = TRUE /\ cl' = Size(path')
                [] ~stat.gz /\ ~beside ->
                     cl' = stat.size /\ encoding' = FALSE /\ UNCHANGED <<path, stat>>

\* mg_fopen() asks for the status again, and with it forgets that the file is gzipped.
Open ==
  /\ pc = "open" /\ Begun
  /\ IF There(path)
     THEN stat' = Stat(path, FALSE) /\ pc' = "head" /\ UNCHANGED <<path, inError, error, code, answer>>
     ELSE Fails(500)
  /\ UNCHANGED <<encoding, cl, etag, off, len, looped, sent, broken>>

Max0(n) == IF n < 0 THEN 0 ELSE n
Least(a, b) == IF a < b THEN a ELSE b

\* The length that goes with a range, as the code computes it.
Part(r, size) ==
  CASE r.range = "both" -> Least(r.to, size) - r.from + 1
    [] r.range = "from" -> size - r.from

\* The head is sent, and send_file_data() looks where to begin.
SendHead ==
  /\ pc = "head" /\ Begun
  /\ LET ranged == req.range \in {"both", "from"}
         length == IF ranged THEN Part(req, cl) ELSE cl
     IN IF ranged /\ stat.gz
        THEN Fails(416) /\ UNCHANGED <<cl, etag, off, len>>
        ELSE /\ code' = (IF ranged THEN 206 ELSE code)
             /\ answer' = code' /\ cl' = length /\ etag' = Etag(stat)
             /\ off' = (IF ranged THEN Least(req.from, stat.size) ELSE 0) /\ len' = Max0(length)
             /\ pc' = (IF req.head \/ length <= 0 THEN "close" ELSE IF req.sendfile THEN "sendfile" ELSE "copy")
             /\ UNCHANGED <<path, stat, inError, error>>
  /\ looped' = FALSE /\ UNCHANGED <<encoding, sent, broken>>

Left == Max0(Size(path) - off)
Streams == Begun /\ UNCHANGED <<path, stat, encoding, cl, etag, inError, error, code, answer>>
\* n bytes from the file go to the client
Passes(n) ==
  /\ sent' = sent \o SubSeq(disk[path].bytes, off + 1, off + n)
  /\ off' = off + n /\ len' = len - n

\* (mutant) what sendfile() sent before it failed is sent again
SendFileAgain ==
  /\ pc = "sendfile" /\ Streams /\ UNCHANGED broken
  /\ \/ \E n \in 1 .. Least(len, Left) :
          Passes(n) /\ looped' = TRUE /\ pc' = IF len = n THEN "close" ELSE "sendfile"
     \/ MayFail /\ pc' = "copy" /\ off' = 0 /\ UNCHANGED <<sent, len, looped>>

\* sendfile() sends some, nothing, or fails; the copying loop goes on behind it.
SendFile ==
  /\ pc = "sendfile" /\ Streams /\ UNCHANGED broken
  /\ \/ \E n \in 1 .. Least(len, Left) :
          Passes(n) /\ looped' = TRUE /\ pc' = IF len = n THEN "close" ELSE "sendfile"
     \/ /\ Left = 0
        /\ pc' = (IF looped THEN "close" ELSE "copy") /\ UNCHANGED <<sent, off, len, looped>>
     \/ MayFail /\ pc' = "copy" /\ UNCHANGED <<sent, off, len, looped>>

\* The loop of fread() and mg_write().
Copy ==
  /\ pc = "copy" /\ Streams /\ UNCHANGED looped
  /\ \/ \E n \in 1 .. Least(len, Left) :
          Passes(n) /\ pc' = (IF len = n THEN "close" ELSE "copy") /\ UNCHANGED broken
     \/ Left = 0 /\ pc' = "close" /\ UNCHANGED <<sent, off, len, broken>>
     \/ MayFail /\ pc' = "close" /\ broken' = TRUE /\ UNCHANGED <<sent, off, len>>

\* mg_fclose(), and in_error_handler is over.
Close ==
  /\ pc = "close" /\ pc' = "idle" /\ inError' = FALSE /\ Begun
  /\ UNCHANGED <<file, error, code, answer, sent, broken>>

\* Somebody, put_file() for one, writes or removes a file.
Edit(p, f) ==
  /\ edits < MaxEdits /\ edits' = edits + 1 /\ disk' = [disk EXCEPT ![p] = f]
  /\ UNCHANGED <<pc, req, file, inError, error, code, answer, sent, broken, requests>>

Serving == Missing \/ Decide \/ Open \/ SendHead \/ SendFile \/ Copy \/ Close
Next == Serving \/ (\E r \in Requests : Begin(r)) \/ (\E p \in Names, f \in Edits : Edit(p, f))

\* The operating system runs the worker.
Spec == Init /\ [][Next]_vars /\ WF_vars(Serving)

-----------------------------------------------------------------------------
TypeOK ==
  /\ pc \in {"idle", "missing", "decide", "open", "head", "sendfile", "copy", "close"}
  /\ path \in Names /\ off \in Nat /\ len \in Nat /\ cl \in Int /\ answer \in {0, 200, 206, 304, 404, 416, 500}
  /\ encoding \in BOOLEAN /\ inError \in BOOLEAN /\ looped \in BOOLEAN /\ broken \in BOOLEAN
  /\ pc \in {"sendfile", "copy"} => len > 0

Done == pc = "idle" /\ requests > 0
Body == answer \in {200, 206} /\ ~req.head
\* the range is one of the file, as it is announced to be
InFile == req.range = "both" => (req.from <= req.to /\ req.to < Size(path))

\* What is sent is never more than was announced, whatever the range, whatever
\* sendfile() did, and whoever changed the file meanwhile: nothing of one file is taken
\* for the head of the next response (send_file_data()).
NeverTooLong == Len(sent) <= Max0(cl)

\* A client that stays gets all that was announced, of a file that nobody changes and a
\* range that is inside it, although the length and the file are looked at twice.
AllIsSent == (Done /\ Body /\ ~broken /\ edits = 0 /\ InFile) => Len(sent) = Max0(cl)

\* What is sent is the part of the file from the beginning of the range, without a gap
\* where sendfile() gave up and the copying loop went on.
PartIsRight ==
  (edits = 0 /\ sent # <<>>) =>
     LET from == IF req.range \in {"both", "from"} THEN req.from ELSE 0
     IN IsPrefix(sent, SubSeq(disk[path].bytes, from + 1, Size(path)))

\* HEAD, 304 and errors without a page have no body.
NoBodyWithout == (req.head \/ answer \in {0, 304, 404, 416, 500}) => sent = <<>>

\* Content that is sent as gzip is the zipped file's, for a client that takes it, also
\* if the one file goes while the other is chosen.
EncodingIsRight == sent # <<>> => (encoding <=> path = "file.gz") /\ (encoding => req.gzip)

\* Every request ends with an answer, also if its file and its error page are missing.
ResponseEnds == pc # "idle" ~> (pc = "idle" /\ answer # 0)

-----------------------------------------------------------------------------
(* Why: what holds at each step of a response.                             *)

StateTyped ==
  /\ TypeOK /\ disk \in [Names -> FileType] /\ req \in RequestType
  /\ stat \in StatType /\ sent \in Seq(Int) /\ edits \in Nat

Sending  == pc \in {"sendfile", "copy"}
HeadSent == Sending \/ pc = "close" \/ (pc = "idle" /\ answer \in {200, 206})
Opened   == pc \in {"open", "head"} \/ HeadSent

\* Nothing is sent before the head, nor without a body; and what is sent and what is
\* still to be sent are together what the head announces.
HeadComesFirst ==
  /\ pc \in {"missing", "decide", "open", "head"} => (off = 0 /\ len = 0)
  /\ pc \in {"open", "head"} => code = 200
  /\ HeadSent => (answer \in {200, 206} /\ Len(sent) + len = Max0(cl))
  /\ ~HeadSent => sent = <<>>
  /\ Sending \/ sent # <<>> => ~req.head

\* The name that is opened goes with the encoding; mg_stat() is asked twice.
NameIsKnown ==
  /\ pc = "decide" => path # "file.gz" /\ (stat.gz => (path = "file" /\ req.gzip /\ ~inError))
  /\ pc = "head" => ~stat.gz
  /\ Opened => (encoding <=> path = "file.gz") /\ (encoding => req.gzip)

\* While nobody writes, the lengths that were looked at are that of the file.
LengthIsCurrent ==
  edits = 0 =>
    /\ pc = "decide" => stat.size = Size(IF stat.gz THEN "file.gz" ELSE path)
    /\ pc \in {"open", "head"} => cl = Size(path)
    /\ pc = "head" => stat.size = Size(path)

\* Where the body begins in the file.
From == IF req.range \in {"both", "from"} THEN Least(req.from, Size(path)) ELSE 0

\* While nobody writes, what is sent is what is between From and off, and what is left
\* is there to be sent.
BodyIsPart ==
  (edits = 0 /\ HeadSent) =>
    /\ off = From + Len(sent) /\ off <= Size(path)
    /\ \A i \in 1 .. Len(sent) : sent[i] = disk[path].bytes[From + i]
    /\ (InFile /\ Sending) => off + len <= Size(path)
    /\ (InFile /\ ~Sending /\ ~broken /\ ~req.head) => len = 0

ResponseInv == StateTyped /\ HeadComesFirst /\ NameIsKnown /\ LengthIsCurrent /\ BodyIsPart

=============================================================================
