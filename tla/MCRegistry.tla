----------------------------- MODULE MCRegistry ------------------------------
(***************************************************************************)
(* The R side: the loops of run_server() and serve(), the registry of      *)
(* handlers, and the search of static mounts in front of it.  As in        *)
(* MCServer their steps are not interleaved: part says which of them a     *)
(* behaviour is about, and the others stay as they began; what a loop does *)
(* while a handler runs is the same whichever handler that is.  The        *)
(* registry is run with many functions and methods and few nested calls,   *)
(* and the other way round; the CONSTANTS of the run cover both.           *)
(***************************************************************************)
EXTENDS HandlerRegistry, ServeLoop, TLC

CONSTANTS
  Sites, Chars, MaxRequests   \* of StaticMounts

VARIABLES
  part,
  site, files, pc, url, asked, target, written, next, reply, lacked, edits, served

registryVars == vars
mountVars == <<site, files, pc, url, asked, target, written, next, reply, lacked, edits, served>>
all == <<part, registryVars, mountVars, loopVars>>

PrefixesDef == {<<>>, <<"a">>}
PathsDef    == {<<"a">>}
UpperDef    == [m \in Spellings |-> IF m = "get" THEN "GET" ELSE m]

OneFun == {CHOOSE f \in Funs : TRUE}
Wide == INSTANCE HandlerRegistry WITH MaxFrames <- 1
Deep == INSTANCE HandlerRegistry WITH
  Spellings <- {"GET"}, Methods <- {"GET"}, Upper <- [m \in {"GET"} |-> m], Funs <- OneFun

-----------------------------------------------------------------------------
(* "/" with a listing, "/a/b", "/ab" and "/a" twice, as the user wrote     *)
(* them, each with a folder of its own; and two mounts, one in the folder  *)
(* of the other, where files come and go, outside both of them too.        *)

Mnt(prefix, dir, index, list) == [prefix |-> prefix, dir |-> dir, index |-> index, list |-> list]

Five == << Mnt(<<>>, <<"1">>, <<"i">>, TRUE), Mnt(<<"a">>, <<"2">>, <<"i">>, FALSE),
           Mnt(<<"ab">>, <<"3">>, <<"i">>, FALSE), Mnt(<<"a", "b">>, <<"4">>, <<"j", "i">>, FALSE),
           Mnt(<<"a">>, <<"5">>, <<"i">>, TRUE) >>
Two  == << Mnt(<<>>, <<"1">>, <<"i">>, FALSE), Mnt(<<"a">>, <<"1", "2">>, <<"j", "i">>, TRUE) >>

FiveRequests == {<<>>, <<"a">>, <<"ab">>, <<"a", "b">>, <<"a", "b", "i">>, <<"ab", "i">>,
                 <<"a", "..", "..">>, <<"a", "..", "x">>, <<"a", "i">>, <<"a", "b", "..", "i">>}
TwoRequests  == {<<>>, <<"a">>, <<"a", "i">>, <<"a", "..", "i">>, <<"a", "..", "..", "x">>}

Length == [s \in {"a", "b", "ab", "i", "j", "x", "1", "2", "3", "4", "5"} |-> IF s = "ab" THEN 2 ELSE 1]

FiveDirs  == {<<>>, <<"1">>, <<"1", "a">>, <<"2">>, <<"3">>, <<"4">>, <<"5">>}
FiveFiles == {<<"1", "i">>, <<"1", "a", "i">>, <<"2", "i">>, <<"2", "b">>, <<"3", "i">>, <<"4", "j">>,
              <<"4", "i">>, <<"5", "b">>}
TwoDirs   == {<<>>, <<"1">>, <<"1", "2">>}
TwoFiles  == {<<"1", "i">>, <<"1", "a">>, <<"1", "2", "j">>, <<"1", "2", "i">>, <<"x">>}

SitesDef ==
  << [mounts |-> Five, dirs |-> FiveDirs, files |-> FiveFiles, requests |-> FiveRequests,
      names |-> {}, edits |-> 0],
     [mounts |-> Two, dirs |-> TwoDirs, files |-> TwoFiles, requests |-> TwoRequests,
      names |-> TwoFiles, edits |-> 2] >>

Search == INSTANCE StaticMounts WITH path <- url, answer <- reply

ASSUME SitesAssumption == Search!ConstantsAreProper

-----------------------------------------------------------------------------
RegistryInit ==
  /\ part \in {"wide", "deep", "mounts", "loops"}
  /\ Init /\ LoopInit
  /\ Search!Init
  /\ part # "mounts" =>
       site = (CHOOSE s \in DOMAIN Sites : TRUE) /\ files = Search!Tree(Sites[site].dirs, {})

OfRegistry(A) == A /\ UNCHANGED <<part, mountVars, loopVars>>
OfMounts(A)   == A /\ UNCHANGED <<part, registryVars, loopVars>>
OfLoops(A)    == A /\ UNCHANGED <<part, registryVars, mountVars>>

RegistryNext ==
  \/ part = "wide"   /\ OfRegistry(Wide!Next)
  \/ part = "deep"   /\ OfRegistry(Deep!Next)
  \/ part = "mounts" /\ OfMounts(Search!Next)
  \/ part = "loops"  /\ OfLoops(LoopNext)

\* The fairness of the search and of the loops, see their modules.
RegistrySpec ==
  /\ RegistryInit /\ [][RegistryNext]_all
  /\ WF_all(part = "mounts" /\ OfMounts(Search!Serve /\ Search!Watch))
  /\ WF_all(part = "loops" /\ OfLoops(LoopStep))

-----------------------------------------------------------------------------
(* Properties, beside those of HandlerRegistry and ServeLoop.              *)

\* The most specific mount that has a path answers; when files come and go during the
\* search, a mount is passed over only if it lacked the file at some moment, refuses only
\* what leaves its root, and serves a file from outside only if normalizePath() did not
\* find it and it came later.
MountIsRight ==
  part = "mounts" =>
    Search!TypeOK /\ Search!MostSpecific /\ Search!PassedOver /\ Search!StaysInside

\* Every search of the mounts ends.
Searching == part = "mounts" /\ pc # "idle"
SearchEnds == Searching ~> ~Searching
=============================================================================
