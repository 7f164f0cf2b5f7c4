--------------------------- MODULE RequestDispatch ----------------------------
(***************************************************************************)
(* What civetweb.c does with a request it has read: process_new_connection *)
(* classifies the URI and the protocol, handle_request() goes through its  *)
(* numbered steps, and each step answers or hands on to the next one.      *)
(*                                                                         *)
(* The work a step leads to (serve a file, change files, list a directory, *)
(* run a callback) is one action; the modules on files, handlers and       *)
(* WebSockets say what happens in it.  Every configuration, request and    *)
(* file is an initial state.                                               *)
(***************************************************************************)
EXTENDS Integers, Sequences, SequencesExt, FiniteSets

CONSTANTS
  Configs,     \* [cors, root, webdav, listing, putFile, begin, authCallback: BOOLEAN]
  Targets,     \* what the URI names: [node, index, zipped, template, hidden, protected]
  Requests,    \* [method, uri, upgrade, preflight, gzip, slash, cached]
  Handlers,    \* whether a callback is registered for the URI
  MayDecline,  \* callbacks may return 0
  MemoryMayFail

Writing == {"PUT", "DELETE", "MKCOL", "PATCH", "LOCK", "UNLOCK", "PROPPATCH", "MOVE", "COPY"}
Dav     == {"PROPFIND", "PROPPATCH", "LOCK", "UNLOCK", "MOVE", "COPY"}

\* What a path names; and a URI, of which only the local ones are looked at.
Nodes == {"none", "file", "directory", "template"}
Uris  == {"local", "asterisk", "foreign", "invalid"}
ConstantsAreProper ==
  /\ Configs \subseteq [cors : BOOLEAN, root : BOOLEAN, webdav : BOOLEAN, listing : BOOLEAN,
                         putFile : BOOLEAN, begin : BOOLEAN, authCallback : BOOLEAN]
  /\ Targets \subseteq [node : Nodes, index : Nodes, zipped : BOOLEAN, template : BOOLEAN,
                         hidden : BOOLEAN, protected : BOOLEAN]
  /\ Requests \subseteq [method : STRING, uri : Uris, upgrade : STRING, preflight : BOOLEAN,
                          gzip : BOOLEAN, slash : BOOLEAN, cached : BOOLEAN]
  /\ Handlers \subseteq BOOLEAN /\ MayDecline \in BOOLEAN /\ MemoryMayFail \in BOOLEAN

VARIABLES
  config, target,
  request,
  handler,   \* a callback is registered for this URI
  pc,        \* the step that comes next
  protocol,  \* conn->protocol_type
  callback, websocket, write, webdav, template, found, directory, gzipped,  \* handle_request()'s flags
  passed,    \* the checks of access that were passed since the target was last interpreted
  answers,   \* the answers sent
  did        \* what was done to files

input == <<config, target, request, handler>>
flags == <<callback, websocket, write, webdav, template, found, directory, gzipped>>
vars  == <<input, pc, protocol, flags, passed, answers, did>>

Init ==
  /\ config \in Configs /\ target \in Targets /\ handler \in Handlers /\ request \in Requests
  /\ pc = "received" /\ protocol = "none"
  /\ callback = FALSE /\ websocket = FALSE /\ write = FALSE /\ webdav = FALSE
  /\ template = FALSE /\ found = FALSE /\ directory = FALSE /\ gzipped = FALSE
  /\ passed = {} /\ answers = <<>> /\ did = {}

-----------------------------------------------------------------------------
Goes(step) == pc' = step /\ UNCHANGED <<answers, did>>
Answers(status) == pc' = "done" /\ answers' = Append(answers, status) /\ UNCHANGED did
Does(work, status) == pc' = "done" /\ answers' = Append(answers, status) /\ did' = did \cup {work}
\* the handler ends without an answer
Drops == pc' = "done" /\ UNCHANGED <<answers, did>>

At(step) == pc = step /\ UNCHANGED input

\* process_new_connection(); a request for '*' or for another host is dropped.
Protocol ==
  CASE request.upgrade = "websocket"       -> "websocket"
    [] request.upgrade \in {"bare", "other"} -> "unknown"
    [] OTHER                               -> "http"

Classify ==
  /\ At("received")
  /\ IF request.uri = "invalid" THEN Answers(400) /\ protocol' = "unknown"
     ELSE /\ protocol' = Protocol
          /\ IF request.uri = "local" THEN Goes("begin") ELSE Drops
  /\ UNCHANGED <<flags, passed>>

\* Steps 1 to 3: without memory for the cleaned URI there is no answer; a callback
\* may answer everything.
Begin ==
  /\ At("begin")
  /\ \/ MemoryMayFail /\ Drops
     \/ config.begin /\ (Answers(200) \/ Drops)
     \/ Goes("cors")
  /\ UNCHANGED <<protocol, flags, passed>>

Preflight ==
  /\ At("cors")
  /\ IF request.method = "OPTIONS" /\ request.preflight /\ config.cors
     THEN Answers(200) ELSE Goes("lookup")
  /\ UNCHANGED <<protocol, flags, passed>>

\* Step 5: a callback for the URI, of the kind the protocol calls for.
LookUp ==
  /\ At("lookup")
  /\ IF handler THEN /\ callback' = TRUE /\ write' = (request.method \in Writing) /\ webdav' = FALSE
                     /\ websocket' = (protocol = "websocket")
                     /\ Goes("authorize")
                     /\ UNCHANGED <<template, found, directory, gzipped>>
     ELSE Goes("interpret") /\ UNCHANGED flags
  /\ UNCHANGED <<protocol, passed>>

\* The URI names a file or directory under one of the roots (a path that is too long
\* names none), a directory has an index file, or a zipped file is taken for a missing one.
Existing == config.root /\ target.node # "none"
Indexed ==
  /\ Existing /\ target.node = "directory" /\ request.slash
  /\ request.method \notin Dav /\ target.index # "none"
Unzips == config.root /\ ~Existing /\ request.gzip /\ target.zipped

\* interpret_uri().
Interpret ==
  /\ At("interpret")
  /\ callback' = FALSE
  /\ write' = (request.method \in Writing) /\ webdav' = (request.method \in Dav)
  /\ websocket' = (protocol = "websocket")
  /\ found' = (Existing \/ Unzips) /\ gzipped' = Unzips
  /\ directory' = (Existing /\ target.node = "directory" /\ ~Indexed)
  /\ template' = (\/ Existing /\ target.template /\ request.method \notin Writing
                  \/ Indexed /\ target.index = "template")
  /\ passed' = {}
  /\ Goes("webdav")
  /\ UNCHANGED protocol

\* (mutant) WebDAV requests are not checked
CheckWebDavOnly ==
  /\ At("webdav")
  /\ IF webdav THEN (IF config.webdav THEN Goes("handle") ELSE Answers(405)) ELSE Goes("authorize")
  /\ UNCHANGED <<protocol, flags, passed>>

CheckWebDav ==
  /\ At("webdav")
  /\ IF webdav /\ ~config.webdav THEN Answers(405) ELSE Goes("authorize")
  /\ UNCHANGED <<protocol, flags, passed>>

\* Step 6: an authorization callback, the passwords for writing, or those for reading.
\* The callback that rejects has answered itself.
NeedsPutPassword == write /\ ~callback

Passes(check) == passed' = passed \cup {check} /\ Goes("handle")
Rejects(status) == Answers(status) /\ UNCHANGED passed

PutPassword == IF config.root /\ config.putFile THEN Passes("put") \/ Rejects(401) ELSE Rejects(405)
Password == IF target.protected THEN Passes("password") \/ Rejects(401) ELSE Passes("open")

Authorize ==
  /\ At("authorize")
  /\ \/ config.authCallback /\ (Passes("callback") \/ Rejects(401))
     \/ ~config.authCallback /\ NeedsPutPassword /\ PutPassword
     \/ ~config.authCallback /\ ~NeedsPutPassword /\ Password
  /\ UNCHANGED <<protocol, flags>>

\* Step 7: the callback answers, or declares itself not responsible and sends nothing.
CallBack ==
  /\ At("handle") /\ callback
  /\ \/ Answers(200)
     \/ ~websocket /\ MayDecline /\ Goes("interpret")
  /\ UNCHANGED <<protocol, flags, passed>>

Root == config.root

\* Steps 8 and 9: nobody handles the WebSocket, or there are no files to serve.
NobodyHandles ==
  /\ At("handle") /\ ~callback
  /\ IF websocket \/ ~Root THEN Answers(404) ELSE Goes(IF write THEN "write" ELSE "exists")
  /\ UNCHANGED <<protocol, flags, passed>>

\* Step 11: methods that change files.
Write ==
  /\ At("write")
  /\ IF request.method = "PATCH" THEN Answers(405) ELSE Does("write", 200)
  /\ UNCHANGED <<protocol, flags, passed>>

Missing == ~found \/ target.hidden

\* Steps 11 and 12: what is not there, or to be hidden, and directories without a slash.
Exists ==
  /\ At("exists")
  /\ \/ Missing /\ Answers(404)
     \/ ~Missing /\ directory /\ ~request.slash /\ (Answers(301) \/ (MemoryMayFail /\ Answers(500)))
     \/ ~Missing /\ (directory => request.slash) /\ Goes("method")
  /\ UNCHANGED <<protocol, flags, passed>>

\* Step 13: PROPFIND, OPTIONS, and methods other than GET and HEAD.
Method ==
  /\ At("method")
  /\ CASE request.method = "PROPFIND" -> Does("list", 207)
       [] request.method = "OPTIONS" -> Answers(200)
       [] request.method \in {"GET", "HEAD"} -> Goes("serve")
       [] OTHER -> Answers(405)
  /\ UNCHANGED <<protocol, flags, passed>>

\* Steps 14 to 17: directories, templates, cached and other files.
Serve ==
  /\ At("serve")
  /\ IF directory THEN IF config.listing THEN Does("list", 200) ELSE Answers(403)
     ELSE IF template THEN Does("read", 200)
     ELSE IF request.cached THEN Answers(304) ELSE Does("read", 200)
  /\ UNCHANGED <<protocol, flags, passed>>

-----------------------------------------------------------------------------
Next ==
  \/ Classify \/ Begin \/ Preflight \/ LookUp \/ Interpret \/ CheckWebDav \/ Authorize
  \/ CallBack \/ NobodyHandles \/ Write \/ Exists \/ Method \/ Serve

\* One thread goes from step to step.
Spec == Init /\ [][Next]_vars /\ WF_vars(Next)

-----------------------------------------------------------------------------
(* Properties.                                                             *)

FlagsOK ==
  /\ callback \in BOOLEAN /\ websocket \in BOOLEAN /\ write \in BOOLEAN /\ webdav \in BOOLEAN
  /\ template \in BOOLEAN /\ found \in BOOLEAN /\ directory \in BOOLEAN /\ gzipped \in BOOLEAN
TypeOK ==
  /\ FlagsOK
  /\ protocol \in {"none", "http", "websocket", "unknown"} /\ did \subseteq {"read", "list", "write"}
  /\ passed \subseteq {"callback", "put", "password", "open"} /\ Cardinality(passed) <= 1
  /\ (directory \/ gzipped) => found

\* However many steps a request goes through, and however often, it is answered once at
\* most; and once exactly, unless it is one of those that are dropped.
Silent == request.uri \in {"asterisk", "foreign"} \/ MemoryMayFail \/ config.begin
OneAnswer ==
  /\ Len(answers) <= 1
  /\ (pc = "done" /\ ~Silent) => Len(answers) = 1

\* No file is changed, and none is read, before the checks for that were passed: those
\* of the target as it was interpreted last, not of a callback that has declined.
WritesAreAuthorized == "write" \in did => passed \cap {"put", "callback"} # {}
ReadsAreAuthorized ==
  (did \cap {"read", "list"} # {} /\ target.protected) => passed \cap {"password", "callback"} # {}

\* What is to be hidden is neither served nor listed, and its answer is never one that
\* only files that are there get.
HiddenIsNotServed ==
  target.hidden => did \cap {"read", "list"} = {} /\ Range(answers) \cap {301, 304, 403} = {}

\* The R package sets no document root: no request ever reaches a file.
NoRootNoFiles == ~config.root => did = {}

-----------------------------------------------------------------------------
(* The inductive invariant.                                                *)

Unanswered == pc # "done" => answers = <<>> /\ did = {}

\* Which check lets a request through, by what the URI was interpreted as.
Check == IF config.authCallback THEN "callback" ELSE IF NeedsPutPassword THEN "put"
         ELSE IF target.protected THEN "password" ELSE "open"
Authorized ==
  /\ pc \in {"received", "begin", "cors", "lookup", "webdav", "authorize"} => passed = {}
  /\ pc \in {"handle", "write", "exists", "method", "serve"} => passed = {Check}
  /\ pc \in {"interpret", "done"} => passed = {} \/ \E c \in {"callback", "put", "password", "open"} : passed = {c}

\* How far the flags have sorted the request out.
Sorted ==
  /\ pc = "write" => write /\ ~callback /\ config.root
  /\ pc \in {"exists", "method", "serve"} => ~write /\ ~callback /\ config.root
  /\ pc \in {"method", "serve"} => ~Missing
  /\ (directory \/ gzipped) => found

Steps ==
  /\ protocol \in {"none", "http", "websocket", "unknown"}
  /\ pc \in {"received", "begin", "cors", "lookup", "interpret", "webdav", "authorize", "handle", "write",
             "exists", "method", "serve", "done"}

DispatchInv ==
  /\ FlagsOK /\ Steps
  /\ Unanswered /\ Authorized /\ Sorted
  /\ Len(answers) <= 1 /\ did \subseteq {"read", "list", "write"}
  /\ HiddenIsNotServed /\ NoRootNoFiles /\ WritesAreAuthorized /\ ReadsAreAuthorized

=============================================================================
