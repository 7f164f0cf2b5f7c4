----------------------------- MODULE StaticMounts -----------------------------
(* How serve() answers a request from its static mounts: the mounts in order  *)
(* of decreasing prefix (R/serve.R), the handler of one mount                 *)
(* (static_files() of R/static.R), and the router when none has an answer.    *)
(* Files come and go between the calls that look at them.                     *)
(*                                                                            *)
(* A URL path or a file is the sequence of its segments; ".." leaves a        *)
(* folder.  Mounts share one file system, and the root of one may lie in that *)
(* of another.  Links are not modelled: a file lies where its name says.      *)
EXTENDS Naturals, Integers, SequencesExt, TLC

CONSTANTS
  Sites,        \* what serve() is given and meets: a function from names to records of
                \* the mounts, a sequence of [prefix, dir, index, list] in the order the
                \* user gave; the folders at the start and the files, of which some are there;
                \* the paths that are asked for; and bounds on the changes of the files,
                \* their names and how many there are
  Chars,        \* segment -> number of its characters
  MaxRequests   \* bound on requests

VARIABLES
  site,         \* the name of one of Sites
  files,        \* file -> kind, "/" is <<>>
  pc, path,     \* the step of the loop and the path it answers
  asked,        \* the mounts that the loop has done with
  target,       \* file_norm, or the candidate for an index
  written,      \* target is as the URL wrote it, for normalizePath() has not found it
  next,         \* position in the mount's index names
  answer,       \* [status, mount, file]; mount 0 is the router
  lacked,       \* mounts that had nothing to serve at some moment of the request,
                \* or lost a file during it
  edits, served

vars == <<site, files, pc, path, asked, target, written, next, answer, lacked, edits, served>>

NoAnswer == [status |-> 0, mount |-> 0, file |-> <<>>]
Routed   == [status |-> 1, mount |-> 0, file |-> <<>>]

Mounts == Sites[site].mounts
All    == 1 .. Len(Mounts)

\* What the constants are, for the proofs.
Names     == Seq(DOMAIN Chars)
IsTree(t) == DOMAIN t \subseteq Names /\ \A f \in DOMAIN t : t[f] \in {"file", "dir"}
ConstantsAreProper ==
  /\ Chars \in [DOMAIN Chars -> Nat \ {0}]
  /\ \A i \in DOMAIN Sites : LET s == Sites[i] IN
       /\ s.mounts \in Seq([prefix : Names, dir : Names, index : Names, list : BOOLEAN])
       /\ s.dirs \subseteq Names /\ s.files \subseteq Names \ s.dirs
       /\ \A f \in (s.dirs \cup s.files) \ {<<>>} : Front(f) \in s.dirs
       /\ s.requests \subseteq Seq(DOMAIN Chars \cup {".."})
       /\ s.names \subseteq Names \ {<<>>} /\ s.edits \in Nat

(* nchar(prefix), the slashes included; "/" is the empty prefix. *)
NChar(prefix) ==
  LET first[k \in 0 .. Len(prefix)] ==
        IF k = 0 THEN 0 ELSE first[k - 1] + 1 + Chars[prefix[k]]
  IN  IF prefix = <<>> THEN 1 ELSE first[Len(prefix)]

(* order(nchar, decreasing = TRUE) keeps equal ones in the order given: the   *)
(* loop goes on with the first of those that are left.                        *)
Ahead(m, n) ==
  \/ NChar(Mounts[m].prefix) > NChar(Mounts[n].prefix)
  \/ NChar(Mounts[m].prefix) = NChar(Mounts[n].prefix) /\ m < n
Left  == All \ asked
Mount == CHOOSE m \in Left : \A n \in Left \ {m} : Ahead(m, n)

(* .prefix_match(): startsWith(), and the prefix ends where a segment does.   *)
PrefixMatch(p, prefix) == IsPrefix(prefix, p)

(* What lies under a file's own name; the names that the beginnings of a      *)
(* name with ".." mean; and what stat() finds under such a name, which it     *)
(* follows segment by segment.                                                *)
Kind(fs, f) == IF f \in DOMAIN fs THEN fs[f] ELSE "none"
Meant(f) ==
  LET name[k \in 0 .. Len(f)] ==
        IF k = 0 THEN <<>>
        ELSE IF f[k] # ".." THEN Append(name[k - 1], f[k])
        ELSE SubSeq(name[k - 1], 1, Len(name[k - 1]) - 1)
  IN  name
Normal(f) == Meant(f)[Len(f)]
Stat(fs, f) ==
  IF \A k \in 0 .. Len(f) - 1 : Kind(fs, Meant(f)[k]) = "dir" THEN Kind(fs, Normal(f)) ELSE "none"

Cfg  == Mounts[Mount]
File == Cfg.dir \o SubSeq(path, Len(Cfg.prefix) + 1, Len(path))
Look(f) == IF written THEN Stat(files, f) ELSE Kind(files, f)

Tree(dirs, fs) == [f \in dirs \cup fs |-> IF f \in dirs THEN "dir" ELSE "file"]

(* Below a mount's root, by the characters of the name.                       *)
InRoot(m, f) == IsPrefix(Mounts[m].dir, f)

Init ==
  /\ site \in DOMAIN Sites
  /\ \E fs \in SUBSET Sites[site].files : files = Tree(Sites[site].dirs, fs)
  /\ pc = "idle" /\ path = <<>> /\ asked = {} /\ target = <<>> /\ written = FALSE /\ next = 1
  /\ answer = NoAnswer /\ lacked = {} /\ edits = 0 /\ served = 0

-----------------------------------------------------------------------------
(* What a mount has for a path, were its files to stay: the file it serves,   *)
(* a listing, a refusal, or nothing.                                          *)
Has(fs, m, p) ==
  LET cfg  == Mounts[m]
      file == cfg.dir \o SubSeq(p, Len(cfg.prefix) + 1, Len(p))
      name == Normal(file)
      good == {k \in 1 .. Len(cfg.index) : Kind(fs, Append(name, cfg.index[k])) = "file"}
      reply(status, f) == [status |-> status, mount |-> m, file |-> f]
  IN  IF Stat(fs, file) = "none" THEN NoAnswer
      ELSE IF ~InRoot(m, name) THEN reply(403, <<>>)
      ELSE IF Kind(fs, name) = "file" THEN reply(200, name)
      ELSE IF good # {} THEN reply(200, Append(name, cfg.index[Min(good)]))
      ELSE IF cfg.list THEN reply(200, name)
      ELSE NoAnswer
Matching(p) == {m \in All : IsPrefix(Mounts[m].prefix, p)}
Lacking(fs, p) == {m \in Matching(p) : Has(fs, m, p) = NoAnswer}

(* The mounts that have nothing now, or lose a file, while a request is being *)
(* answered.                                                                  *)
Losing == {m \in All : \E f \in DOMAIN files \ DOMAIN files' : InRoot(m, f)}
Watch == lacked' = IF pc' = "idle" THEN {} ELSE lacked \cup Losing \cup Lacking(files', path')

Receive ==
  /\ pc = "idle" /\ served < MaxRequests
  /\ path' \in Sites[site].requests
  /\ pc' = "mount" /\ asked' = {} /\ answer' = NoAnswer /\ served' = served + 1
  /\ UNCHANGED <<site, files, target, written, next, edits>>

(* The next mount of the loop, or the router. *)
SkipNone == asked' = asked /\ pc' = "mount"
Skip == asked' = asked \cup {Mount} /\ pc' = "mount"

Answer(a) == answer' = a /\ pc' = "send" /\ UNCHANGED asked

TryMount ==
  /\ pc = "mount"
  /\ IF Left = {}
       THEN Answer(Routed)
       ELSE /\ UNCHANGED answer
            /\ IF PrefixMatch(path, Cfg.prefix)
                 THEN pc' = "resolve" /\ UNCHANGED asked
                 ELSE Skip
  /\ UNCHANGED <<site, files, path, target, written, next, edits, served>>

Found(status) ==
  [status |-> status, mount |-> Mount, file |-> IF written THEN Normal(target) ELSE target]
ErrorSkips == Skip /\ UNCHANGED answer

(* The handler of a mount.  normalizePath() returns the name of a file that   *)
(* is there, and else the name as it is written, which begins with the root   *)
(* whatever ".." follow.  Outside the root the handler refuses, which ends    *)
(* the search; a 404 does not.                                                *)
Refuse == Answer([status |-> 403, mount |-> Mount, file |-> <<>>])
Resolve ==
  /\ pc = "resolve"
  /\ written' = (Stat(files, File) = "none")
  /\ target' = IF written' THEN File ELSE Normal(File)
  /\ IF InRoot(Mount, target') THEN pc' = "isdir" /\ UNCHANGED <<asked, answer>> ELSE Refuse
  /\ UNCHANGED <<site, files, path, next, edits, served>>

(* dir.exists() *)
DirExists ==
  /\ pc = "isdir"
  /\ pc' = IF Look(target) = "dir" THEN "index" ELSE "isfile"
  /\ next' = 1
  /\ UNCHANGED <<site, files, path, asked, target, written, answer, edits, served>>

(* file.exists() *)
FileExists ==
  /\ pc = "isfile"
  /\ IF Look(target) = "none" THEN ErrorSkips ELSE pc' = "read" /\ UNCHANGED <<asked, answer>>
  /\ UNCHANGED <<site, files, path, target, written, next, edits, served>>

(* A directory: the first index name that exists and is no directory, else a  *)
(* listing or 404.                                                            *)
Candidate == Append(target, Cfg.index[next])

FirstIndexOnly ==
  /\ pc = "index"
  /\ IF Look(Append(target, Cfg.index[1])) # "none"
       THEN pc' = "isindex" /\ UNCHANGED <<asked, answer>>
       ELSE ErrorSkips
  /\ UNCHANGED <<site, files, path, target, written, next, edits, served>>
Index ==
  /\ pc = "index"
  /\ IF next > Len(Cfg.index)
       THEN (IF Cfg.list THEN Answer(Found(200)) ELSE ErrorSkips) /\ UNCHANGED next
       ELSE /\ IF Look(Candidate) # "none" THEN pc' = "isindex" /\ UNCHANGED next
                                           ELSE next' = next + 1 /\ UNCHANGED pc
            /\ UNCHANGED <<asked, answer>>
  /\ UNCHANGED <<site, files, path, target, written, edits, served>>

IsNoDir ==
  /\ pc = "isindex"
  /\ IF Look(Candidate) = "dir"
       THEN next' = next + 1 /\ pc' = "index" /\ UNCHANGED target
       ELSE target' = Candidate /\ pc' = "read" /\ UNCHANGED next
  /\ UNCHANGED <<site, files, path, asked, written, answer, edits, served>>

(* readBin().  A file that is gone is an error, which serve() takes for NULL: *)
(* the next mount is asked.                                                   *)
Read ==
  /\ pc = "read"
  /\ IF Look(target) = "file" THEN Answer(Found(200)) ELSE ErrorSkips
  /\ UNCHANGED <<site, files, path, target, written, next, edits, served>>

Send ==
  /\ pc = "send"
  /\ pc' = "idle" /\ path' = <<>> /\ asked' = {} /\ target' = <<>> /\ written' = FALSE /\ next' = 1
  /\ answer' = NoAnswer
  /\ UNCHANGED <<site, files, edits, served>>

(* Another program removes a file or an empty folder, or puts one in a        *)
(* folder, outside the roots too.                                             *)
Edit ==
  /\ edits < Sites[site].edits
  /\ \E f \in Sites[site].names :
       \/ /\ f \in DOMAIN files /\ \A g \in DOMAIN files \ {<<>>} : Front(g) # f
          /\ files' = [g \in DOMAIN files \ {f} |-> files[g]]
       \/ /\ f \notin DOMAIN files /\ Kind(files, Front(f)) = "dir"
          /\ \E kind \in {"file", "dir"} :
               files' = [g \in DOMAIN files \cup {f} |-> IF g \in DOMAIN files THEN files[g] ELSE kind]
  /\ edits' = edits + 1
  /\ UNCHANGED <<site, pc, path, asked, target, written, next, answer, served>>

Serve == TryMount \/ Resolve \/ DirExists \/ FileExists \/ Index \/ IsNoDir \/ Read \/ Send
Next == (Receive \/ Serve \/ Edit) /\ Watch

Spec == Init /\ [][Next]_vars /\ WF_vars(Serve /\ Watch)

-----------------------------------------------------------------------------
(* Types; and the loop asks mounts that there are.                            *)
TypeOK ==
  /\ site \in DOMAIN Sites
  /\ IsTree(files) /\ written \in BOOLEAN
  /\ pc \in {"idle", "mount", "resolve", "isdir", "isfile", "index", "isindex", "read", "send"}
  /\ path \in Seq(DOMAIN Chars \cup {".."})
  /\ asked \subseteq All /\ lacked \subseteq All
  /\ next \in Nat \ {0} /\ edits \in Nat
  /\ answer.mount \in {0} \cup All

(* The mount whose prefix has the most segments is asked first; of two with   *)
(* the same prefix, the one the user gave first.                              *)
Before(m, n) ==
  \/ Len(Mounts[m].prefix) > Len(Mounts[n].prefix)
  \/ Mounts[m].prefix = Mounts[n].prefix /\ m < n
Best(p) ==
  LET have == {m \in Matching(p) : Has(files, m, p) # NoAnswer}
  IN  IF have = {} THEN Routed
      ELSE Has(files, CHOOSE m \in have : \A n \in have \ {m} : Before(m, n), p)

(* "autosort: longest prefix first (avoids "/" shadowing "/assets")"          *)
(* (R/validate.R:325): as long as nobody touches the files, the most specific *)
(* mount that has the path answers, a refusal included, and the router only   *)
(* when none has.                                                             *)
MostSpecific == (pc = "send" /\ edits = 0) => answer = Best(path)

(* Whatever happens to the files, a mount is passed over only if it had       *)
(* nothing to serve at some moment of the request, or lost a file during it   *)
(* (an index file that goes after it was chosen is an error that passes over  *)
(* the mount's other index files and its listing).                            *)
PassedOver ==
  pc = "send" =>
    \A m \in Matching(path) :
      (answer.mount = 0 \/ Before(m, answer.mount)) => m \in lacked

(* What is served comes from a mount that the path belongs to.  A refusal     *)
(* means that the path leaves its root; and a file from outside the root is   *)
(* served only if it was not there when normalizePath() looked and came later *)
(* (R/static.R:142 and 242).                                                  *)
StaysInside ==
  (pc = "send" /\ answer.mount # 0) =>
    LET cfg == Mounts[answer.mount]
    IN  /\ answer.mount \in Matching(path)
        /\ answer.status = 403 =>
             ~InRoot(answer.mount, Normal(cfg.dir \o SubSeq(path, Len(cfg.prefix) + 1, Len(path))))
        /\ answer.status # 403 =>
             InRoot(answer.mount, answer.file) \/ (answer.mount \in lacked /\ edits # 0)

(* What makes the three of them inductive.  The loop is done with the mounts  *)
(* that are ahead, and each of them lacked something; what lacks something    *)
(* was noticed, and as long as nobody touches the files it is nothing else.   *)
InTurn ==
  /\ \A m \in asked, n \in Left : Ahead(m, n)
  /\ pc = "idle" => lacked = {}
  /\ pc # "idle" =>
       /\ asked \cap Matching(path) \subseteq lacked
       /\ Lacking(files, path) \subseteq lacked
       /\ edits = 0 => lacked \subseteq Lacking(files, path)

(* The mount that is asked has the path; a name is as it was written only if  *)
(* the mount lacked the file, and else it is the file's own, in the root.     *)
Looking == {"isdir", "isfile", "index", "isindex", "read"}
NameIsRight ==
  pc \in Looking =>
    /\ written => Mount \in lacked
    /\ ~written => target \in Names /\ InRoot(Mount, target)
    /\ ~written /\ pc # "read" => target = Normal(File) /\ InRoot(Mount, Normal(File))

(* If the mount did not lack anything, what it has is still ahead.            *)
HasIndex(from) == \E k \in from .. Len(Cfg.index) : Kind(files, Append(target, Cfg.index[k])) = "file"
FileIsAhead ==
  (pc \in Looking /\ Mount \notin lacked) =>
    /\ pc \in {"isfile", "read"} => Kind(files, target) = "file"
    /\ pc \in {"index", "isindex"} => Cfg.list \/ HasIndex(next)
    /\ pc = "isindex" => Kind(files, Candidate) # "none"

(* As long as nobody touches the files, a name that was not found is not      *)
(* there, and what comes out is what the mount has.                           *)
NoFileBefore ==
  \A k \in 1 .. next - 1 : k <= Len(Cfg.index) /\ Kind(files, Append(target, Cfg.index[k])) # "file"
FileStays ==
  (pc \in Looking /\ edits = 0) =>
    /\ written => pc \in {"isdir", "isfile"} /\ target = File /\ Stat(files, File) = "none"
    /\ ~written => Stat(files, File) # "none"
    /\ pc = "isfile" /\ ~written => Kind(files, target) = "file"
    /\ pc \in {"index", "isindex"} => Kind(files, target) = "dir" /\ NoFileBefore
    /\ pc = "isindex" => Kind(files, Candidate) # "none"
    /\ pc = "read" => Has(files, Mount, path) = [status |-> 200, mount |-> Mount, file |-> target]
CandidateIsListed == pc = "isindex" => next <= Len(Cfg.index)

AnswerIsOfMount ==
  pc = "send" =>
    IF answer.mount = 0 THEN answer = Routed /\ Left = {}
    ELSE /\ Left # {} /\ answer.mount = Mount /\ Mount \in Matching(path)
         /\ answer.status = 403 => ~InRoot(Mount, Normal(File))
         /\ answer.status # 403 => InRoot(Mount, answer.file) \/ (Mount \in lacked /\ edits # 0)
         /\ edits = 0 => answer = Has(files, Mount, path) /\ answer # NoAnswer

SearchInv ==
  /\ TypeOK /\ InTurn
  /\ pc \in {"resolve"} \cup Looking => Left # {} /\ Mount \in Matching(path)
  /\ NameIsRight /\ FileIsAhead /\ FileStays /\ CandidateIsListed /\ AnswerIsOfMount

(* The search ends: each request reaches its answer.                          *)
SearchEnds == pc # "idle" ~> pc = "idle"
=============================================================================
