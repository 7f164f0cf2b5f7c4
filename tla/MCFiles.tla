------------------------------- MODULE MCFiles -------------------------------
(***************************************************************************)
(* What CivetWeb does with files, side by side: locks of WebDAV, requests  *)
(* that change files, files as responses, and listings of directories.     *)
(* As in MCServer they share nothing, so their steps are not interleaved:  *)
(* part says which of them a behaviour is about, and for which instance of *)
(* it, and the others stay as they began.                                  *)
(***************************************************************************)
EXTENDS DavLocks, Sequences, SequencesExt, FiniteSets

CONSTANTS
  Runners, Below, DirOf, Settings,          \* of FileStore
  Disks, Gets, Edits, GzipFrom,   \* of FileResponse
  MaxEdits, MaxGets,              \* bounds: writes to the files, requests for them
  Hidden, Kinds, Listings, FirstSize        \* of DirectoryListing

VARIABLES
  part,
  \* FileStore
  setting, fs, storePc, req, status, continued, dirs, handle, pos, quiet, whole, seen, stack, final, changed, ops,
  \* FileResponse
  disk, sendPc, asked, name, stat, encoding, inError, error, code, cl, etag, off, len, looped, head,
  sent, broken, edits, requests,
  \* DirectoryListing
  asking, dir, listPc, before, turned, entries, room, arrSize, printed, names, cut, listed, dirEdits

lockVars  == vars
storeVars == <<setting, fs, storePc, req, status, continued, dirs, handle, pos, quiet, whole, seen, stack, final,
               changed, ops>>
sendVars  == <<disk, sendPc, asked, name, stat, encoding, inError, error, code, cl, etag, off, len,
               looped, head, sent, broken, edits, requests>>
listVars  == <<asking, dir, listPc, before, turned, entries, room, arrSize, printed, names, cut,
               listed, dirEdits>>
all == <<part, lockVars, storeVars, sendVars, listVars>>

-----------------------------------------------------------------------------
(* Changes: a root with a directory of two entries, one of them a          *)
(* directory, and a file beside it.  One worker whose calls fail, two at   *)
(* one place, where a file may not be written, and more that may not.      *)

Root    == "/"
Names   == {Root, "/d", "/d/s", "/d/a", "/f"}
Parents == [p \in Names |-> IF p \in {"/d/s", "/d/a"} THEN "/d" ELSE Root]
Tree(ds, fl, lk) ==
  [p \in Names |->
     [kind   |-> IF p \in ds THEN "dir" ELSE IF p \in fl THEN "file" ELSE "absent",
      parts  |-> IF p \in fl THEN <<9>> ELSE <<>>,
      id     |-> IF p \notin fl THEN 0 ELSE IF p = "/f" THEN 1001 ELSE 1002,
      locked |-> p \in lk \cap (ds \cup fl)]]
SomeTrees(lk) ==
  {Tree({"/"}, {}, lk), Tree({"/", "/d"}, {"/f"}, lk), Tree({"/", "/d", "/d/s"}, {"/d/a", "/f"}, lk)}

Put == [op |-> "put", path |-> "/f", slash |-> FALSE, dest |-> "none", overwrite |-> FALSE,
        body |-> <<>>, expect |-> "none", range |-> "none"]
Delete(p) == [Put EXCEPT !.op = "delete", !.path = p]
Puts ==
  {[Put EXCEPT !.path = p, !.body = b, !.expect = e] :
     p \in {"/f", "/d/a"}, b \in {<<>>, <<1, 2>>}, e \in {"none", "continue", "other"}}
  \cup {[Put EXCEPT !.body = <<1>>, !.range = r] : r \in {"some", "negative"}}
  \cup {[Put EXCEPT !.path = "/d/s", !.slash = TRUE]}
Stores == {[Put EXCEPT !.op = "store", !.path = "/d/a", !.body = <<1, 2>>]}
MkCols == {[Put EXCEPT !.op = "mkcol", !.path = p, !.body = b] : p \in {"/d", "/d/s"}, b \in {<<>>, <<1>>}}
Moves  == {[Put EXCEPT !.op = o, !.path = p, !.dest = d, !.overwrite = v] :
             o \in {"move", "copy"}, p \in {"/f", "/d/a"}, d \in {"/d/a", "/f", "elsewhere"}, v \in BOOLEAN}
Changes == Puts \cup Stores \cup {Delete(p) : p \in {"/f", "/d", "/d/s"}} \cup MkCols \cup Moves
Races ==
  {[Put EXCEPT !.path = "/d/a", !.body = <<1, 2>>], Delete("/d"), Delete("/d/a"), [Put EXCEPT !.op = "mkcol", !.path = "/d/s"],
   [Put EXCEPT !.op = "move", !.dest = "/d/a", !.overwrite = TRUE],
   [Put EXCEPT !.op = "move", !.path = "/d/a", !.dest = "/f", !.overwrite = TRUE]}

Failing   == [workers |-> {1}, requests |-> Changes, trees |-> SomeTrees({}), mayFail |-> TRUE, maxOps |-> 3]
Race      == [workers |-> {1, 2}, requests |-> Races, trees |-> SomeTrees({"/f"}), mayFail |-> FALSE, maxOps |-> 3]
Protected == [workers |-> {1}, requests |-> Changes, trees |-> SomeTrees({"/f", "/d", "/d/a"}) \cup SomeTrees({"/d/a"}),
              mayFail |-> FALSE, maxOps |-> 2]
SomeSettings == {Failing, Race, Protected}

Store == INSTANCE FileStore WITH
  Paths <- Below, Parent <- DirOf, Workers <- Runners, pc <- storePc, answer <- final

ASSUME StoreAssumption == Store!ConstantsAreProper

-----------------------------------------------------------------------------
(* Responses: a file of three bytes, a zipped one of two, and error pages. *)

File(bytes, mtime) == [there |-> TRUE, bytes |-> bytes, mtime |-> mtime]
NoFile == [there |-> FALSE, bytes |-> <<>>, mtime |-> 0]
Disk(here) ==
  [p \in {"file", "file.gz", "error404", "error4xx", "error"} |->
     IF p \notin here THEN NoFile ELSE IF p = "file.gz" THEN File(<<7, 8>>, 2)
     ELSE IF p = "file" THEN File(<<1, 2, 3>>, 2) ELSE File(<<5>>, 1)]
SomeDisks ==
  {Disk({"file"}), Disk({"file", "file.gz", "error"}), Disk({"file.gz", "error4xx"}),
   Disk({"error404", "error"}), Disk({})}

Get == [path |-> "file", head |-> FALSE, gzip |-> FALSE, range |-> "no", from |-> 0, to |-> 0,
        known |-> <<0, 0>>, conditional |-> "no", sendfile |-> TRUE]
Plain ==
  {[Get EXCEPT !.head = h] : h \in BOOLEAN}
  \cup {[Get EXCEPT !.range = "both", !.from = a, !.to = b] : a \in {0, 1, 3}, b \in {0, 2, 3}}
  \cup {[Get EXCEPT !.range = "from", !.from = a] : a \in {1, 3}}
  \cup {[Get EXCEPT !.conditional = "etag", !.known = <<2, 3>>]}
  \cup {[Get EXCEPT !.conditional = "date", !.known = <<m, 0>>] : m \in {1, 2}}

SomeGets  == {[r EXCEPT !.gzip = g, !.sendfile = s] : r \in Plain, g, s \in BOOLEAN}
SomeEdits == {NoFile, File(<<4>>, 3), File(<<4, 5, 6, 7>>, 2)}

Send == INSTANCE FileResponse WITH
  Files <- Disks, Requests <- Gets, MayFail <- TRUE, MaxRequests <- MaxGets, pc <- sendPc, req <- asked, path <- name, answer <- head

ASSUME SendAssumption == Send!ConstantsAreProper

-----------------------------------------------------------------------------
(* Listings: entries that come and go, one hidden, with calls that fail;   *)
(* every small directory in every order; and seven entries of which some   *)
(* agree in their keys.                                                    *)

K(isDir, size, mtime) == [dir |-> isDir, size |-> size, mtime |-> mtime]
NoEntry   == K(FALSE, -1, 0)
KindsDef  == {K(TRUE, 4, 1), K(FALSE, 2, 2)}
HiddenDef == {9}
Shapes    == {K(TRUE, 4, 1), K(FALSE, 1, 3), K(FALSE, 1, 2), NoEntry}
Larger    == [by |-> "s", down |-> TRUE]
L(tree, kind, sorted, fails, edit) ==
  [tree |-> tree, job |-> kind, order |-> sorted, fails |-> fails, edits |-> edit]
ListingsDef ==
       {L(d, kind, Larger, TRUE, 1) :
          d \in {t \in [{1, 2, 3, 9} -> Shapes] : t[1] \in KindsDef \cup {NoEntry} /\ t[2].dir},
          kind \in {"list", "propfind", "depth0"}}
  \cup {L(d, "list", o, FALSE, 0) : d \in [1..4 -> Shapes], o \in [by : {"n", "s", "d"}, down : BOOLEAN]}
  \cup {L([n \in 1..7 |-> K(n = 5, n % 3, n \div 3)], "list", Larger, FALSE, 0)}

List == INSTANCE DirectoryListing WITH
  Requests <- Listings, disk <- dir, req <- asking, pc <- listPc, answer <- listed, edits <- dirEdits

ASSUME ListingsAssumption == List!ConstantsAreProper

-----------------------------------------------------------------------------
FilesInit ==
  /\ part \in {"locks", "store", "send", "list"}
  /\ Store!Init
  /\ part # "store" => setting = (CHOOSE s \in Settings : TRUE) /\ fs = (CHOOSE t \in setting.trees : TRUE)
  /\ Send!Init /\ (part # "send" => asked = (CHOOSE r \in Gets : TRUE) /\ disk = (CHOOSE d \in Disks : TRUE))
  /\ (part # "list" => asking = CHOOSE l \in Listings : TRUE) /\ List!Init
  /\ Init /\ (part # "locks" => request = CHOOSE r \in [Workers -> Requests] : TRUE)

\* A step of one component.
OfLocks(A) == part = "locks" /\ A /\ UNCHANGED <<part, storeVars, sendVars, listVars>>
OfStore(A) == part = "store" /\ A /\ UNCHANGED <<part, lockVars, sendVars, listVars>>
OfSend(A)  == part = "send" /\ A /\ UNCHANGED <<part, lockVars, storeVars, listVars>>
OfList(A)  == part = "list" /\ A /\ UNCHANGED <<part, lockVars, storeVars, sendVars>>

FilesNext ==
  \/ OfLocks(Next)
  \/ OfStore(Store!Next)
  \/ OfSend(Send!Next)
  \/ OfList(List!Next)

\* The fairness of the components, see their modules.
FilesSpec ==
  /\ FilesInit /\ [][FilesNext]_all
  /\ \A w \in Runners : WF_all(OfStore(Store!Work(w)))
  /\ WF_all(OfSend(Send!Serving))

-----------------------------------------------------------------------------
(* Properties, beside OneHolder of DavLocks.                               *)

\* Whoever is told that a lock is granted is told a token of his own; who is told that a
\* PUT worked has stored what was read of his body; who is refused has changed nothing but
\* the destination he meant to overwrite; and nobody changed what he did not name.
AnswersAreTrue ==
  /\ TypeOK /\ AnswerIsOwn
  /\ Store!TypeOK /\ Store!PutIsWhole /\ Store!RefusedChangesNothing
  /\ Store!ChangesWithinReach /\ Store!HandlesClosed

\* The body of a response is the part of the file that its head announces, in the
\* encoding it announces, and never longer, whoever writes to the file meanwhile.
ContentIsAnnounced ==
  Send!TypeOK /\ Send!NeverTooLong /\ Send!AllIsSent /\ Send!PartIsRight /\ Send!NoBodyWithout
  /\ Send!EncodingIsRight

\* A listing shows once what was there all the time, in the order asked for, and
\* neither writes behind its array nor loses a name, whichever allocation fails.
ListingIsWhole ==
  List!TypeOK /\ List!InBounds /\ List!ShownOnce /\ List!InOrder /\ List!NamesFreed

\* A lock is taken over when it expired, or when there is no room for another; no step of a
\* MOVE loses the file, unless it is moved onto itself; and a file that may not be written
\* is never written, and loses its name only to those who do not ask, or asked about
\* another file.
ChangesAreSafe ==
  /\ TakenOverWhenExpired
  /\ [][\A w \in Runners : Store!KeepsMoved(w)]_storeVars
  /\ [][Store!KeepsProtected]_storeVars

\* Requests that change files and those that send one come to their end, with an answer.
RequestsEnd == Send!ResponseEnds /\ Store!RequestsEnd
=============================================================================
