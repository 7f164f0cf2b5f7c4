------------------------------ MODULE FileStore ------------------------------
(***************************************************************************)
(* The methods that change files, put_file(), mg_store_body(),             *)
(* delete_file(), dav_mkcol() and dav_move_file() of civetweb.c, one call  *)
(* of the file system at a time, any of which may fail, run by several     *)
(* workers on one small tree.  A file is the sequence of parts it holds.   *)
(***************************************************************************)
EXTENDS Integers, Sequences, SequencesExt, FiniteSets

CONSTANTS
  Workers,      \* numbers below 10
  Paths, Root,  \* the names there may be, and the document root
  Parent,       \* the directory of each path
  Settings      \* for what and on which trees the workers run, see ConstantsAreProper

VARIABLES
  setting,
  fs,           \* [Paths -> node]
  pc, req,      \* of each worker: its step and its request
  status,       \* conn->status_code
  continued,    \* "100 Continue" was sent
  dirs,         \* put_dir(): directories still to be looked at
  handle, pos,  \* the open file, 0: none, and how much was written to it
  quiet,        \* mg_read() returned 0 before the end: a time-out, or the server stops
  whole,        \* what was read is written and closed, and nothing failed that broke it off
  seen,         \* the file that access() was asked about, or that was opened
  stack,        \* remove_directory(): [dir, left, now, ok], the innermost call first
  answer,       \* the final status that the client gets, 0: none
  changed,      \* the names whose file or directory the request changed
  ops

locals == <<pc, req, status, continued, dirs, handle, pos, quiet, whole, seen, stack, answer, changed>>
vars   == <<setting, fs, locals, ops>>

\* workers: those that run; requests: what they serve; trees: what there is to begin with;
\* mayFail: calls of the file system, and reads of the body, may fail; maxOps: bound of the
\* requests
MayFail  == setting.mayFail

\* id tells files apart, whatever their name, and those of the beginning have one above
\* 1000.  A file that is locked may not be written, a directory that is locked keeps the
\* entries it has.
Absent      == [kind |-> "absent", parts |-> <<>>, id |-> 0, locked |-> FALSE]
Dir         == [kind |-> "dir", parts |-> <<>>, id |-> 0, locked |-> FALSE]
File(s, id) == [kind |-> "file", parts |-> s, id |-> id, locked |-> FALSE]
In(d)    == {p \in Paths : Parent[p] = d /\ p # Root /\ fs[p].kind # "absent"}
Exists(p) == fs[p].kind # "absent"
IsDir(p)  == fs[p].kind = "dir"
\* the directories above p, the outermost first, and all that is below q, with q
Above[p \in Paths] == IF p = Root THEN <<>> ELSE Append(Above[Parent[p]], Parent[p])
Under(q) == {p \in Paths : \A S \in SUBSET Paths :
               (q \in S /\ \A x \in Paths : Parent[x] \in S => x \in S) => p \in S}

NodeType    == [kind : {"absent", "dir", "file"}, parts : Seq(Int), id : Nat, locked : BOOLEAN]
RequestType == [op : {"put", "store", "delete", "mkcol", "move", "copy"}, path : Paths, slash : BOOLEAN,
                dest : Paths \cup {"none", "elsewhere"}, overwrite : BOOLEAN, body : Seq(Int),
                expect : {"none", "continue", "other"}, range : {"none", "some", "negative"}]
FrameType   == [dir : Paths, left : SUBSET Paths, now : Paths, ok : BOOLEAN]
\* every entry is in a directory, only files have contents, and ids tell files apart
IsTree(t) ==
  /\ t \in [Paths -> NodeType]
  /\ \A p \in Paths : /\ t[p].kind # "absent" => t[Parent[p]].kind = "dir"
                      /\ t[p].kind # "file" => (t[p].parts = <<>> /\ t[p].id = 0)
                      /\ t[p].kind = "file" => t[p].id > 0
                      /\ (t[p].kind = "file" /\ t[p].locked) => t[p].id > 1000
  /\ \A p, q \in Paths : (t[p].id > 1000 /\ t[p].id = t[q].id) => p = q
ConstantsAreProper ==
  /\ Workers \subseteq 1 .. 9 /\ Parent \in [Paths -> Paths] /\ Root \in Paths
  /\ \A p \in Paths : (Parent[p] = p <=> p = Root) /\ Above[p] \in Seq(Paths)
  /\ \A s \in Settings :
       /\ s.workers \subseteq Workers /\ s.requests \subseteq RequestType /\ s.requests # {}
       /\ s.mayFail \in BOOLEAN /\ s.maxOps \in 0 .. 99 /\ \A t \in s.trees : IsTree(t)

Init ==
  /\ setting \in Settings /\ fs \in setting.trees
  /\ pc = [w \in Workers |-> "idle"] /\ req = [w \in Workers |-> CHOOSE r \in setting.requests : TRUE]
  /\ status = [w \in Workers |-> 0] /\ continued = [w \in Workers |-> FALSE]
  /\ dirs = [w \in Workers |-> <<>>] /\ handle = [w \in Workers |-> 0] /\ pos = [w \in Workers |-> 0]
  /\ quiet = [w \in Workers |-> FALSE] /\ whole = [w \in Workers |-> FALSE]
  /\ seen = [w \in Workers |-> 0] /\ stack = [w \in Workers |-> <<>>]
  /\ answer = [w \in Workers |-> 0] /\ changed = [w \in Workers |-> {}] /\ ops = 0

-----------------------------------------------------------------------------
Begin(w, r) ==
  /\ pc[w] = "idle" /\ ops < setting.maxOps
  /\ ops' = ops + 1 /\ req' = [req EXCEPT ![w] = r] /\ pc' = [pc EXCEPT ![w] = r.op]
  /\ status' = [status EXCEPT ![w] = 0] /\ continued' = [continued EXCEPT ![w] = FALSE]
  /\ quiet' = [quiet EXCEPT ![w] = FALSE] /\ whole' = [whole EXCEPT ![w] = FALSE]
  /\ seen' = [seen EXCEPT ![w] = 0] /\ answer' = [answer EXCEPT ![w] = 0]
  /\ changed' = [changed EXCEPT ![w] = {}]
  /\ dirs' = [dirs EXCEPT ![w] = IF r.slash THEN Append(Above[r.path], r.path) ELSE Above[r.path]]
  /\ handle' = [handle EXCEPT ![w] = 0]   \* a local variable of the call
  /\ UNCHANGED <<setting, fs, pos, stack>>

At(w, step) == pc[w] = step /\ UNCHANGED <<setting, req, ops>>
P(w)        == req[w].path
Goes(w, step) == pc' = [pc EXCEPT ![w] = step] /\ UNCHANGED answer
\* After "100 Continue" mg_response_header_start() refuses to begin a final response.
Answers(w, code) ==
  /\ pc' = [pc EXCEPT ![w] = "idle"]
  /\ answer' = [answer EXCEPT ![w] = IF continued[w] THEN 0 ELSE code]
Changes(w, p, node) == fs' = [fs EXCEPT ![p] = node] /\ changed' = [changed EXCEPT ![w] = @ \cup {p}]
Keeps    == UNCHANGED <<fs, changed>>
Closes(w) == handle' = [handle EXCEPT ![w] = 0]

\* put_file(): what is there already?
Put(w) ==
  /\ At(w, "put")
  /\ status' = [status EXCEPT ![w] = IF Exists(P(w)) THEN 200 ELSE 201]
  /\ CASE ~Exists(P(w))                 -> Goes(w, "dirs")
       [] IsDir(P(w))                   -> Answers(w, 200)
       [] Exists(P(w)) /\ ~IsDir(P(w))  -> Goes(w, "access")
  /\ Keeps /\ UNCHANGED <<continued, dirs, handle, pos, quiet, whole, seen, stack>>

\* access(W_OK), for PUT and for DELETE of a file; it refuses a file that is gone, too.
Access(w) ==
  /\ At(w, "access")
  /\ \/ /\ Exists(P(w)) /\ ~fs[P(w)].locked
        /\ seen' = [seen EXCEPT ![w] = fs[P(w)].id]
        /\ Goes(w, IF req[w].op = "put" THEN "open" ELSE "remove")
     \/ ~Exists(P(w)) /\ UNCHANGED seen /\ Answers(w, 403)
     \/ fs[P(w)].locked /\ UNCHANGED seen /\ Answers(w, 403)
     \/ MayFail /\ UNCHANGED seen /\ Answers(w, 403)
  /\ Keeps /\ UNCHANGED <<status, continued, dirs, handle, pos, quiet, whole, stack>>

\* mg_store_body() does not look.
Store(w) ==
  /\ At(w, "store") /\ Goes(w, "dirs")
  /\ Keeps /\ UNCHANGED <<status, continued, dirs, handle, pos, quiet, whole, seen, stack>>

\* mkdir() works for a path that does not exist, in a directory.
CanMake(p) == ~Exists(p) /\ p # Root /\ IsDir(Parent[p]) /\ ~fs[Parent[p]].locked

\* remove() asks for leave to write the directory, not the file.
CanRemove(p) == Exists(p) /\ p # Root /\ In(p) = {} /\ ~fs[Parent[p]].locked

\* put_dir(), a directory at a time: mg_stat(), which does not mind a file in the way,
\* and mkdir(), which fails when another was quicker.
PutDir(w) ==
  /\ At(w, "dirs")
  /\ CASE dirs[w] = <<>> /\ req[w].slash   -> Answers(w, IF req[w].op = "put" THEN status[w] ELSE 0) /\ UNCHANGED dirs
       [] dirs[w] = <<>> /\ ~req[w].slash  -> Goes(w, "open") /\ UNCHANGED dirs
       [] dirs[w] # <<>> -> IF Exists(Head(dirs[w]))
                            THEN dirs' = [dirs EXCEPT ![w] = Tail(@)] /\ UNCHANGED <<pc, answer>>
                            ELSE Goes(w, "mkdirs") /\ UNCHANGED dirs
  /\ Keeps /\ UNCHANGED <<status, continued, handle, pos, quiet, whole, seen, stack>>

MakeDir(w) ==
  LET d == Head(dirs[w])
  IN /\ At(w, "mkdirs")
     /\ \/ CanMake(d) /\ Changes(w, d, Dir) /\ Goes(w, "dirs") /\ dirs' = [dirs EXCEPT ![w] = Tail(@)]
        \/ (~CanMake(d) \/ MayFail) /\ Keeps /\ Answers(w, 500) /\ UNCHANGED dirs
     /\ UNCHANGED <<status, continued, handle, pos, quiet, whole, seen, stack>>

CanOpen(p) ==
  /\ ~IsDir(p) /\ p # Root /\ IsDir(Parent[p])
  /\ ~fs[IF Exists(p) THEN p ELSE Parent[p]].locked

\* fopen(path, "w") empties the file; a Content-Range moves in it, and a position that
\* fseeko() refuses ends put_file() with the file open.
Open(w) ==
  LET id == IF Exists(P(w)) THEN fs[P(w)].id ELSE 10 * ops + w
  IN /\ At(w, "open")
     /\ \/ /\ ~CanOpen(P(w)) \/ MayFail
           /\ Answers(w, 500) /\ Keeps /\ UNCHANGED <<handle, pos, seen, status>>
        \/ /\ CanOpen(P(w))
           /\ Changes(w, P(w), File(<<>>, id))
           /\ handle' = [handle EXCEPT ![w] = id] /\ pos' = [pos EXCEPT ![w] = 0]
           /\ seen' = [seen EXCEPT ![w] = id]
           /\ IF req[w].op = "put" /\ req[w].range # "none"
              THEN /\ status' = [status EXCEPT ![w] = 206]
                   /\ IF req[w].range = "negative" THEN Answers(w, 500) ELSE Goes(w, "forward")
              ELSE UNCHANGED status /\ Goes(w, "forward")
     /\ UNCHANGED <<continued, dirs, quiet, whole, stack>>

\* The first lines of forward_body_data() set the status to 200 or 100, whatever
\* put_file() had found.
Forward(w) ==
  /\ At(w, "forward")
  /\ IF req[w].op = "put" /\ req[w].expect = "other"
     THEN Answers(w, 417) /\ Closes(w) /\ UNCHANGED <<status, continued>>
     ELSE /\ IF req[w].op = "put"
             THEN /\ status' = [status EXCEPT ![w] = IF req[w].expect = "continue" THEN 100 ELSE 200]
                  /\ continued' = [continued EXCEPT ![w] = req[w].expect = "continue"]
             ELSE UNCHANGED <<status, continued>>
          /\ Goes(w, "body") /\ UNCHANGED handle
  /\ Keeps /\ UNCHANGED <<dirs, pos, quiet, whole, seen, stack>>

\* fwrite() of the next part; a file that lost its name is written all the same.
Put1(s, i, part) ==
  [j \in 1 .. (IF i > Len(s) THEN i ELSE Len(s)) |-> IF j = i THEN part ELSE IF j <= Len(s) THEN s[j] ELSE 0]
WriteBody(w) ==
  LET file == {p \in Paths : fs[p].id = handle[w]}
  IN /\ fs' = [p \in Paths |-> IF p \in file
                 THEN [fs[p] EXCEPT !.parts = Put1(@, pos[w] + 1, req[w].body[pos[w] + 1])] ELSE fs[p]]
     /\ changed' = [changed EXCEPT ![w] = @ \cup file]
     /\ pos' = [pos EXCEPT ![w] = @ + 1]
BodyIsRead(w) == pos[w] = Len(req[w].body)

\* (mutant) a body that breaks off is taken for one that ended
BodyBroken(w) ==
  /\ At(w, "body")
  /\ \/ ~BodyIsRead(w) /\ WriteBody(w) /\ UNCHANGED <<pc, answer, handle, quiet>>
     \/ (BodyIsRead(w) \/ MayFail) /\ Goes(w, "close") /\ Keeps /\ UNCHANGED <<handle, pos, quiet>>
  /\ UNCHANGED <<status, continued, dirs, whole, seen, stack>>

\* The loop of forward_body_data(): a read that fails is an error, but one that times out,
\* or that the server's stop ends, returns 0 like the end; and the loop of
\* mg_store_body(): a read that fails is the end as well.
Body(w) ==
  /\ At(w, "body")
  /\ \/ ~BodyIsRead(w) /\ WriteBody(w) /\ UNCHANGED <<pc, answer, handle, quiet>>
     \/ BodyIsRead(w) /\ Goes(w, "close") /\ Keeps /\ UNCHANGED <<handle, pos, quiet>>
     \/ /\ MayFail /\ ~BodyIsRead(w) /\ quiet' = [quiet EXCEPT ![w] = TRUE]
        /\ Goes(w, "close") /\ Keeps /\ UNCHANGED <<handle, pos>>
     \/ /\ MayFail /\ Keeps /\ UNCHANGED <<pos, quiet>>
        /\ \/ req[w].op = "store" /\ Goes(w, "close") /\ UNCHANGED handle   \* the read failed
           \/ req[w].op = "store" /\ Goes(w, "bad") /\ Closes(w)            \* the write failed
           \/ req[w].op = "put" /\ Answers(w, 500) /\ Closes(w)
  /\ UNCHANGED <<status, continued, dirs, whole, seen, stack>>

\* fclose() writes what is buffered, and may fail.
CloseFile(w) ==
  /\ At(w, "close") /\ Closes(w)
  /\ \/ /\ whole' = [whole EXCEPT ![w] = BodyIsRead(w) \/ quiet[w]]
        /\ Answers(w, IF req[w].op = "store" THEN 200 ELSE status[w])
     \/ /\ MayFail /\ UNCHANGED whole
        /\ IF req[w].op = "store" THEN Goes(w, "bad") ELSE Answers(w, 507)
  /\ Keeps /\ UNCHANGED <<status, continued, dirs, pos, quiet, seen, stack>>

\* remove_bad_file(), and the error of mg_store_body().
RemoveBad(w) ==
  /\ At(w, "bad") /\ Answers(w, 500)
  /\ \/ CanRemove(P(w)) /\ Changes(w, P(w), Absent)
     \/ (~CanRemove(P(w)) \/ MayFail) /\ Keeps
  /\ UNCHANGED <<status, continued, dirs, handle, pos, quiet, whole, seen, stack>>

-----------------------------------------------------------------------------
Same(w)  == UNCHANGED <<status, continued, dirs, handle, pos, quiet, whole, seen>>

\* delete_file()
Delete(w) ==
  /\ At(w, "delete")
  /\ CASE ~Exists(P(w))                 -> Answers(w, 404)
       [] IsDir(P(w))                   -> Goes(w, "opendir")
       [] Exists(P(w)) /\ ~IsDir(P(w))  -> Goes(w, "access")
  /\ Keeps /\ UNCHANGED stack /\ Same(w)

RemoveFile(w) ==
  /\ At(w, "remove")
  /\ \/ CanRemove(P(w)) /\ Changes(w, P(w), Absent) /\ Answers(w, 204)
     \/ (~CanRemove(P(w)) \/ MayFail) /\ Keeps /\ Answers(w, 423)
  /\ UNCHANGED stack /\ Same(w)

\* remove_directory() begins: opendir() and the names that readdir() will give, or the
\* failure that the caller is told.
Frame(d) == [dir |-> d, left |-> In(d), now |-> d, ok |-> TRUE]
OpenDir(w) ==
  LET d == IF stack[w] = <<>> THEN P(w) ELSE Head(stack[w]).now
  IN /\ At(w, "opendir") /\ Keeps /\ Same(w)
     /\ \/ IsDir(d) /\ stack' = [stack EXCEPT ![w] = <<Frame(d)>> \o @] /\ Goes(w, "entries")
        \/ /\ (~IsDir(d) \/ MayFail) /\ stack[w] # <<>> /\ Goes(w, "entries")
           /\ stack' = [stack EXCEPT ![w] = <<[Head(@) EXCEPT !.ok = FALSE]>> \o Tail(@)]
        \/ (~IsDir(d) \/ MayFail) /\ stack[w] = <<>> /\ Answers(w, 500) /\ UNCHANGED stack

\* (mutant) an entry that is gone is tried again
EntryAgain(w) ==
  LET top == Head(stack[w])
  IN /\ At(w, "entries") /\ top.left # {} /\ Keeps /\ Same(w)
     /\ \E p \in top.left :
          /\ stack' = [stack EXCEPT ![w] = <<[top EXCEPT !.left = IF Exists(p) THEN @ \ {p} ELSE @,
                                                         !.now = p]>> \o Tail(@)]
          /\ Goes(w, IF IsDir(p) THEN "opendir" ELSE "unlink")

\* mg_stat() of the next entry: what it does not find is removed like a file.
Entry(w) ==
  LET top == Head(stack[w])
  IN /\ At(w, "entries") /\ top.left # {} /\ Keeps /\ Same(w)
     /\ \E p \in top.left :
          /\ stack' = [stack EXCEPT ![w] =
                         <<[top EXCEPT !.left = @ \ {p}, !.now = p, !.ok = @ /\ Exists(p)]>> \o Tail(@)]
          /\ Goes(w, IF IsDir(p) THEN "opendir" ELSE "unlink")

\* mg_remove() of the entry returns 0 when it worked, and that is what ok remembers as a
\* failure.
Unlink(w) ==
  LET top == Head(stack[w])
  IN /\ At(w, "unlink") /\ Goes(w, "entries") /\ Same(w)
     /\ \/ /\ CanRemove(top.now) /\ Changes(w, top.now, Absent)
           /\ stack' = [stack EXCEPT ![w] = <<[top EXCEPT !.ok = FALSE]>> \o Tail(@)]
        \/ (~CanRemove(top.now) \/ MayFail) /\ Keeps /\ UNCHANGED stack

\* rmdir() removes a directory without entries; what it says is not looked at.
EntriesDone(w) ==
  LET top == Head(stack[w]) rest == Tail(stack[w])
  IN /\ At(w, "entries") /\ top.left = {} /\ Same(w)
     /\ \/ IsDir(top.dir) /\ CanRemove(top.dir) /\ Changes(w, top.dir, Absent)
        \/ (~IsDir(top.dir) \/ ~CanRemove(top.dir) \/ MayFail) /\ Keeps
     /\ IF rest = <<>>
        THEN stack' = [stack EXCEPT ![w] = <<>>] /\ Answers(w, IF top.ok THEN 204 ELSE 500)
        ELSE /\ stack' = [stack EXCEPT ![w] = <<[Head(rest) EXCEPT !.ok = @ /\ top.ok]>> \o Tail(rest)]
             /\ UNCHANGED <<pc, answer>>

\* dav_mkcol(): mg_stat(), what was read with the headers, and mkdir().
MkCol(w) ==
  /\ At(w, "mkcol")
  /\ CASE Exists(P(w))                          -> Answers(w, 405)
       [] ~Exists(P(w)) /\ req[w].body # <<>>   -> Answers(w, 415)
       [] ~Exists(P(w)) /\ req[w].body = <<>>   -> Goes(w, "mkdir")
  /\ Keeps /\ UNCHANGED stack /\ Same(w)

MkDir(w) ==
  /\ At(w, "mkdir")
  /\ \/ CanMake(P(w)) /\ Changes(w, P(w), Dir) /\ Answers(w, 201)
     \/ /\ (~CanMake(P(w)) \/ MayFail) /\ Keeps
        /\ \E code \in {403, 405, 409, 500} :
             /\ code = 405 => Exists(P(w))
             /\ code = 409 => ~Exists(Parent[P(w)])
             /\ code = 403 => fs[Parent[P(w)]].locked
             /\ Answers(w, code)
  /\ UNCHANGED stack /\ Same(w)

\* dav_move_file(): the destination is looked at, and removed first, for a copy too.
Move(w) ==
  LET d == req[w].dest
  IN /\ pc[w] \in {"move", "copy"} /\ UNCHANGED <<setting, req, ops>>
     /\ \/ d \notin Paths /\ Answers(w, 502)
        \/ d \in Paths /\ ~Exists(d) /\ Goes(w, "rename")
        \/ d \in Paths /\ Exists(d) /\ ~req[w].overwrite /\ Answers(w, 412)
        \/ d \in Paths /\ Exists(d) /\ req[w].overwrite /\ Goes(w, "overwrite")
     /\ Keeps /\ UNCHANGED stack /\ Same(w)

Overwrite(w) ==
  LET d == req[w].dest
  IN /\ At(w, "overwrite")
     /\ \/ CanRemove(d) /\ Changes(w, d, Absent) /\ Goes(w, "rename")
        \/ (~CanRemove(d) \/ MayFail) /\ Keeps /\ Answers(w, 403)
     /\ UNCHANGED stack /\ Same(w)

\* (mutant) the file is taken away first
RenameLoses(w) ==
  /\ At(w, "rename") /\ Exists(P(w)) /\ Changes(w, P(w), Absent) /\ Answers(w, 204) /\ UNCHANGED stack /\ Same(w)

\* rename() of a file, or of a directory without entries; COPY is refused here.
CanRename(p, d) ==
  /\ Exists(p) /\ In(p) = {} /\ p # Root /\ d # Root
  /\ IsDir(Parent[d]) /\ Parent[d] # p /\ ~fs[Parent[d]].locked /\ ~fs[Parent[p]].locked
  /\ IF IsDir(p) THEN ~Exists(d) ELSE ~IsDir(d)
Rename(w) ==
  LET p == P(w) d == req[w].dest
  IN /\ At(w, "rename")
     /\ \/ req[w].op = "copy" /\ Answers(w, 403) /\ Keeps
        \/ /\ req[w].op = "move" /\ CanRename(p, d)
           /\ fs' = [fs EXCEPT ![d] = fs[p], ![p] = IF d = p THEN @ ELSE Absent]
           /\ changed' = [changed EXCEPT ![w] = @ \cup {p, d}] /\ Answers(w, 204)
        \/ /\ req[w].op = "move" /\ (~CanRename(p, d) \/ MayFail) /\ Keeps
           /\ \E code \in {400, 403, 409, 412} :
                /\ code = 412 => Exists(d)   \* a directory that is not empty: EEXIST, or ENOTEMPTY
                /\ code = 409 => ~Exists(p) \/ ~Exists(Parent[d])
                /\ code = 403 => fs[Parent[d]].locked \/ fs[Parent[p]].locked
                /\ Answers(w, code)
     /\ UNCHANGED stack /\ Same(w)

Work(w) ==
  \/ Put(w) \/ Store(w) \/ Access(w) \/ PutDir(w) \/ MakeDir(w)
  \/ Open(w) \/ Forward(w) \/ Body(w) \/ CloseFile(w) \/ RemoveBad(w)
  \/ Delete(w) \/ RemoveFile(w) \/ OpenDir(w) \/ Entry(w) \/ Unlink(w) \/ EntriesDone(w)
  \/ MkCol(w) \/ MkDir(w) \/ Move(w) \/ Overwrite(w) \/ Rename(w)

Next == \E w \in setting.workers : Work(w) \/ \E r \in setting.requests : Begin(w, r)

\* The operating system runs every worker, and a read of the body ends: with data, with an
\* error, or after request_timeout_ms.
Spec == Init /\ [][Next]_vars /\ \A w \in Workers : WF_vars(Work(w))

-----------------------------------------------------------------------------
Steps == {"idle", "put", "store", "access", "dirs", "mkdirs", "open", "forward", "body", "close", "bad",
          "delete", "remove", "opendir", "entries", "unlink", "mkcol", "mkdir", "move", "copy",
          "overwrite", "rename"}
TypeOK ==
  /\ setting \in Settings /\ IsTree(fs)
  /\ pc \in [Workers -> Steps] /\ req \in [Workers -> setting.requests]
  /\ continued \in [Workers -> BOOLEAN] /\ quiet \in [Workers -> BOOLEAN] /\ whole \in [Workers -> BOOLEAN]
  /\ handle \in [Workers -> Nat] /\ pos \in [Workers -> Nat] /\ seen \in [Workers -> Nat]
  /\ dirs \in [Workers -> Seq(Paths)] /\ stack \in [Workers -> Seq(FrameType)]
  /\ changed \in [Workers -> SUBSET Paths]

Done(w)   == pc[w] = "idle"
Success   == {200, 201, 204, 206}
Refusals  == {400, 403, 404, 405, 409, 412, 415, 423, 502}

\* A PUT that is told to have worked has written and flushed all that was read, whatever
\* failed in between, and that is all of its body, unless mg_read() returned 0 before the
\* end: a client that falls silent, or a stop, leaves a part of the body behind and the
\* same 200 (put_file(), forward_body_data()).
PutIsWhole ==
  \A w \in Workers :
    (Done(w) /\ req[w].op = "put" /\ answer[w] \in Success /\ changed[w] # {} /\ ~req[w].slash)
      => whole[w] /\ (BodyIsRead(w) \/ quiet[w])

\* A request that is refused has changed nothing, as the checks come before the first
\* change; but a MOVE or COPY that may overwrite has by then removed its destination, which
\* a refused rename(), and the 403 of every COPY, do not bring back (put_file(),
\* delete_file(), dav_mkcol(), dav_move_file()).
MayLose(w) == IF req[w].op \in {"move", "copy"} /\ req[w].overwrite THEN {req[w].dest} ELSE {}
RefusedChangesNothing ==
  \A w \in Workers : (Done(w) /\ answer[w] \in Refusals) => changed[w] \subseteq MayLose(w)

\* A request changes only what it names: DELETE nothing but what is below its path, although
\* it walks a tree that others move about under it; MKCOL its path, MOVE and COPY their two
\* names.  (PUT writes the file that it opened, wherever others moved it.)
Reach(w) ==
  CASE req[w].op = "delete"          -> Under(P(w))
    [] req[w].op = "mkcol"           -> {P(w)}
    [] req[w].op \in {"move", "copy"} -> {P(w), req[w].dest}
    [] req[w].op \in {"put", "store"} -> Paths
ChangesWithinReach == \A w \in Workers : changed[w] \subseteq Reach(w)

\* Every way out of a PUT closes the file, but that after a position that is refused.
HandlesClosed ==
  \A w \in Workers : Done(w) => (handle[w] = 0 \/ req[w].range = "negative")

\* No step of a MOVE or COPY loses what it was to move, whichever call fails and whatever
\* others do: it keeps its name or has the other one.  Only a MOVE or COPY onto itself
\* removes it, as its destination.
KeepsMoved(w) ==
  (pc[w] \in {"move", "copy", "overwrite", "rename"} /\ pc'[w] # pc[w] /\ Exists(P(w)))
    => \/ fs'[P(w)] = fs[P(w)] \/ fs'[req[w].dest] = fs[P(w)]
       \/ P(w) = req[w].dest /\ pc[w] = "overwrite"

\* A file that may not be written is never written, whatever name it has by then.  It loses
\* its name to those who do not ask: DELETE of a directory it is in, MOVE and COPY over it,
\* MOVE of it; and to those who asked about, or opened, another file, which a MOVE has
\* replaced by this one before remove() (delete_file(), mg_store_body()).
KeepsProtected ==
  \A p \in Paths : (fs[p].kind = "file" /\ fs[p].locked) =>
    /\ \A q \in Paths : fs'[q].id = fs[p].id => fs'[q] = fs[p]
    /\ fs'[p] # fs[p] =>
         \E w \in Workers :
           /\ pc'[w] # pc[w]
           /\ \/ pc[w] \in {"unlink", "overwrite", "rename"}
              \/ pc[w] \in {"remove", "bad"} /\ P(w) = p /\ seen[w] # fs[p].id

\* Every request ends, those that walk a tree which others change included.
RequestsEnd == \A w \in Workers : pc[w] # "idle" ~> pc[w] = "idle"

-----------------------------------------------------------------------------
(* Why: what holds at each step of a request.                              *)

StoreTyped ==
  /\ TypeOK /\ ops \in Nat /\ ops <= setting.maxOps
  /\ status \in [Workers -> {0, 100, 200, 201, 206}] /\ answer \in [Workers -> Nat]

\* A step belongs to its method, and no method changes anything before its checks.
StepIsOf(w) ==
  /\ pc[w] \in {"put", "store"} => req[w].op = pc[w]
  /\ pc[w] \in {"dirs", "mkdirs", "open", "forward", "body", "close", "bad"}
       => req[w].op \in {"put", "store"}
  /\ pc[w] = "mkdirs" => dirs[w] # <<>>
  /\ pc[w] = "access" => req[w].op \in {"put", "delete"}
  /\ pc[w] \in {"delete", "remove", "opendir", "entries", "unlink"} => req[w].op = "delete"
  /\ pc[w] \in {"mkcol", "mkdir"} => req[w].op = "mkcol"
  /\ pc[w] \in {"move", "copy", "overwrite", "rename"} => req[w].op \in {"move", "copy"}
  /\ pc[w] \in {"overwrite", "rename"} => req[w].dest \in Paths
  /\ pc[w] = "overwrite" => req[w].overwrite
  /\ pc[w] \in {"put", "store", "access", "delete", "remove", "mkcol", "mkdir", "move", "copy", "overwrite"}
       => changed[w] = {}
  /\ pc[w] = "rename" => changed[w] \subseteq MayLose(w)
  /\ pc[w] \notin {"body", "close", "bad", "idle"} => ~continued[w]

\* The file is open while its body is read, and a PUT comes to the end of its body.
BodyIsStored(w) ==
  /\ pc[w] \in {"forward", "body", "close"} => handle[w] > 0
  /\ pc[w] \notin {"forward", "body", "close", "idle"} => handle[w] = 0
  /\ pc[w] \in {"forward", "body"} => pos[w] <= Len(req[w].body)
  /\ (pc[w] = "close" /\ req[w].op = "put") => (BodyIsRead(w) \/ quiet[w])
  /\ handle[w] \in {0, seen[w]}

\* remove_directory() never leaves the directory it began with.
WalksBelow(w) ==
  /\ \A i \in DOMAIN stack[w] : {stack[w][i].dir, stack[w][i].now} \cup stack[w][i].left \subseteq Under(P(w))
  /\ pc[w] \notin {"opendir", "entries", "unlink"} => stack[w] = <<>>
  /\ pc[w] \in {"entries", "unlink"} => stack[w] # <<>>
  /\ changed[w] \subseteq Reach(w)

\* What is promised of one answer.
Outcome(w) ==
  Done(w) =>
    /\ (req[w].op = "put" /\ answer[w] \in Success /\ changed[w] # {} /\ ~req[w].slash)
         => whole[w] /\ (BodyIsRead(w) \/ quiet[w])
    /\ answer[w] \in Refusals => changed[w] \subseteq MayLose(w)
    /\ handle[w] = 0 \/ req[w].range = "negative"

\* Nobody asked about a file that may not be written and was let through, or has it open.
NotSeen(w) == \A p \in Paths : (fs[p].kind = "file" /\ fs[p].locked) => seen[w] # fs[p].id

WorkerInv(w) == StepIsOf(w) /\ BodyIsStored(w) /\ WalksBelow(w) /\ Outcome(w)
StoreInv     == StoreTyped /\ \A w \in Workers : WorkerInv(w) /\ NotSeen(w)

=============================================================================
