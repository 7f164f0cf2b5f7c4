---------------------------- MODULE PackageProofs ----------------------------
(***************************************************************************)
(* Theorems about the R code of the package: the registry of handlers, for *)
(* any prefixes, paths, functions and depth of calls; the search of static *)
(* mounts, for any mounts, files, paths and changes of the files; and      *)
(* run_server() and serve(), for any depth of the stack.                   *)
(***************************************************************************)
EXTENDS MCRegistry, ServeLoop, SequenceTheorems, WellFoundedInduction, TLAPS

-----------------------------------------------------------------------------
(* The registry of handlers.                                               *)

(* Dropping the last element undoes an Append. *)
LEMMA LeftOfAppend ==
  ASSUME NEW S, NEW s \in Seq(S), NEW x \in S
  PROVE  Left(Append(s, x)) = s
  BY DEF Left

LEMMA LeftType ==
  ASSUME NEW S, NEW s \in Seq(S), s # <<>>
  PROVE  /\ Left(s) \in Seq(S) /\ Len(Left(s)) = Len(s) - 1
         /\ \A k \in 1 .. Len(s) - 1 : Left(s)[k] = s[k]
  <1>1. PICK n \in Nat : Len(s) = n + 1
    <2>1. Len(s) \in Nat \ {0}
      OBVIOUS
    <2> QED BY <2>1
  <1>2. Left(s) = SubSeq(s, 1, n)
    BY <1>1 DEF Left
  <1>3. \A i \in 1 .. n : s[i] \in S
    BY <1>1
  <1>4. /\ Left(s) \in Seq(S)
        /\ Len(Left(s)) = IF 1 <= n THEN n - 1 + 1 ELSE 0
        /\ \A i \in 1 .. n - 1 + 1 : Left(s)[i] = s[1 + i - 1]
    BY <1>2, <1>3, SubSeqProperties
  <1>5. Len(Left(s)) = n
    BY <1>4
  <1>6. ASSUME NEW k \in 1 .. n PROVE Left(s)[k] = s[k]
    <2>1. k \in 1 .. n - 1 + 1 /\ 1 + k - 1 = k
      OBVIOUS
    <2> QED BY <2>1, <1>4
  <1>7. Len(s) - 1 = n
    BY <1>1
  <1> QED BY <1>4, <1>5, <1>6, <1>7

(* A new entry of the registry holds what the old one held, and the function. *)
LEMMA AssignType ==
  ASSUME NEW f, NEW x, NEW y
  PROVE  /\ DOMAIN Assign(f, x, y) = DOMAIN f \cup {x}
         /\ Assign(f, x, y)[x] = y
         /\ \A z \in DOMAIN f \ {x} : Assign(f, x, y)[z] = f[z]
  BY DEF Assign

LEMMA WithoutType ==
  ASSUME NEW f, NEW x
  PROVE  /\ DOMAIN Without(f, x) = DOMAIN f \ {x}
         /\ \A z \in DOMAIN f \ {x} : Without(f, x)[z] = f[z]
  BY DEF Without

(* Entering a frame: what the frame remembers is the stack it found. *)
LEMMA Enter ==
  ASSUME CallsOK, StackMatchesFrames, Len(frames) < MaxFrames,
         RegistryAssumption,
         NEW kind \in FrameKinds, NEW prefix \in Prefixes \cup {<<>>},
         kind = "group" => prefix \in Prefixes,
         frames' = Append(frames, Frame(kind, prefix)),
         prefixes' = IF kind = "group" THEN Append(prefixes, prefix) ELSE prefixes
  PROVE  CallsOK' /\ StackMatchesFrames'
  <1>0. PICK n \in Nat : n = Len(frames)
    BY DEF CallsOK
  <1>1. n \in Nat /\ Frame(kind, prefix) \in FrameSet
    BY <1>0 DEF CallsOK, Frame, FrameSet
  <1>2. /\ frames' \in Seq(FrameSet) /\ Len(frames') = n + 1
        /\ frames'[n + 1] = Frame(kind, prefix)
        /\ \A k \in 1 .. n : frames'[k] = frames[k]
    BY <1>0, <1>1 DEF CallsOK
  <1>3. /\ Frame(kind, prefix).kind = kind /\ Frame(kind, prefix).prefix = prefix
        /\ Frame(kind, prefix).saved = prefixes
    BY DEF Frame
  <1>4. prefixes' \in Seq(Prefixes)
    BY DEF CallsOK
  <1>5. CallsOK'
    BY <1>0, <1>1, <1>2, <1>3, <1>4 DEF CallsOK, RegistryAssumption
  <1>6. \A k \in 0 .. n : Expected(k)' = Expected(k)
    BY <1>0, <1>1, <1>2 DEF Expected
  <1>7. Expected(n + 1)' = prefixes'
    BY <1>0, <1>1, <1>2, <1>3 DEF Expected
  <1>8. frames'[n + 1].saved = Expected(n)'
    BY <1>0, <1>1, <1>2, <1>3, <1>6 DEF StackMatchesFrames
  <1>9. ASSUME NEW k \in 1 .. n PROVE frames'[k].saved = Expected(k - 1)'
    <2>1. k - 1 \in 0 .. n
      BY <1>0, <1>1
    <2> QED BY <2>1, <1>0, <1>2, <1>6 DEF StackMatchesFrames
  <1>10. \A k \in 1 .. Len(frames') : frames'[k].saved = Expected(k - 1)'
    <2> SUFFICES ASSUME NEW k \in 1 .. n + 1 PROVE frames'[k].saved = Expected(k - 1)'
      BY <1>0, <1>2
    <2>1. CASE k = n + 1
      BY <2>1, <1>0, <1>1, <1>8
    <2>2. CASE k # n + 1
      BY <2>2, <1>0, <1>1, <1>9
    <2> QED BY <2>1, <2>2
  <1> QED BY <1>0, <1>2, <1>5, <1>7, <1>10 DEF StackMatchesFrames

(* Leaving a frame: dropping the last element gives back what it remembers.   *)
LEMMA Leave ==
  ASSUME CallsOK, StackMatchesFrames, frames # <<>>,
         RegistryAssumption,
         frames' = Left(frames), prefixes' = OnExit
  PROVE  CallsOK' /\ StackMatchesFrames'
  <1>0. PICK n \in Nat : n = Len(frames)
    BY DEF CallsOK
  <1>1. n \in Nat \ {0} /\ frames \in Seq(FrameSet) /\ Top \in FrameSet
    BY <1>0 DEF CallsOK, Top
  <1>2. /\ frames' \in Seq(FrameSet) /\ Len(frames') = n - 1
        /\ \A k \in 1 .. n - 1 : frames'[k] = frames[k]
    BY <1>0, <1>1, LeftType
  <1>3. \A k \in 0 .. n - 1 : Expected(k)' = Expected(k)
    BY <1>0, <1>1, <1>2 DEF Expected
  <1>4. Top.saved = Expected(n - 1) /\ Top.saved \in Seq(Prefixes)
    BY <1>0, <1>1 DEF StackMatchesFrames, Top, FrameSet
  <1>5. prefixes' = Top.saved
    <2>1. CASE Top.kind = "group"
      <3>1. prefixes = Append(Top.saved, Top.prefix)
        BY <1>0, <1>1, <2>1 DEF StackMatchesFrames, Expected, Top
      <3>2. Top.prefix \in Prefixes
        BY <1>0, <1>1, <2>1 DEF CallsOK, Top
      <3> QED BY <2>1, <3>1, <3>2, <1>4, LeftOfAppend DEF OnExit
    <2>2. CASE Top.kind # "group"
      BY <1>0, <1>1, <2>2 DEF StackMatchesFrames, Expected, Top, OnExit
    <2> QED BY <2>1, <2>2
  <1>6. CallsOK'
    BY <1>0, <1>1, <1>2, <1>4, <1>5 DEF CallsOK, RegistryAssumption
  <1>7. prefixes' = Expected(n - 1)'
    BY <1>0, <1>1, <1>3, <1>4, <1>5
  <1>8. \A k \in 1 .. n - 1 : frames'[k].saved = Expected(k - 1)'
    <2> SUFFICES ASSUME NEW k \in 1 .. n - 1 PROVE frames'[k].saved = Expected(k - 1)'
      OBVIOUS
    <2>1. k - 1 \in 0 .. n - 1 /\ k \in 1 .. n
      BY <1>0, <1>1
    <2> QED BY <2>1, <1>0, <1>2, <1>3 DEF StackMatchesFrames
  <1> QED BY <1>0, <1>2, <1>6, <1>7, <1>8 DEF StackMatchesFrames

(* What a lookup returns is a registered function. *)
LEMMA EntryType ==
  ASSUME RoutesOK, NEW path
  PROVE  /\ DOMAIN Entry(path) \subseteq Methods
         /\ \A m \in DOMAIN Entry(path) : Entry(path)[m] \in Funs
  BY DEF RoutesOK, Entry

LEMMA NameType ==
  ASSUME RegistryAssumption, NEW method \in Spellings
  PROVE  Name(method) \in Methods
  BY DEF RegistryAssumption, Name

LEMMA HandlerType ==
  ASSUME RoutesOK, NEW method, NEW path
  PROVE  GetHandler(method, path) \in Funs \cup {None}
  BY EntryType DEF GetHandler

(* An assignment of a good entry keeps the table good. *)
LEMMA AssignKeeps ==
  ASSUME RoutesOK, NoEmptyEntry, NEW path, NEW entry,
         DOMAIN entry \subseteq Methods, DOMAIN entry # {},
         \A m \in DOMAIN entry : entry[m] \in Funs,
         handlers' = Assign(handlers, path, entry)
  PROVE  RoutesOK' /\ NoEmptyEntry'
  <1>1. /\ DOMAIN handlers' = DOMAIN handlers \cup {path}
        /\ handlers'[path] = entry
        /\ \A z \in DOMAIN handlers \ {path} : handlers'[z] = handlers[z]
    BY DEF Assign
  <1> QED BY <1>1 DEF RoutesOK, NoEmptyEntry

LEMMA WithoutKeeps ==
  ASSUME RoutesOK, NoEmptyEntry, NEW path, handlers' = Without(handlers, path)
  PROVE  RoutesOK' /\ NoEmptyEntry'
  BY DEF Without, RoutesOK, NoEmptyEntry

LEMMA HandleKeeps ==
  ASSUME RegistryAssumption, RoutesOK, NoEmptyEntry,
         NEW method \in Spellings, NEW path \in Paths, NEW fun \in Funs,
         NEW overwrite \in BOOLEAN, HandleWith(method, path, fun, overwrite)
  PROVE  RoutesOK' /\ NoEmptyEntry'
  <1> DEFINE full  == Full(path)
             entry == Assign(Entry(full), Name(method), fun)
  <1>1. CASE handlers' = handlers
    BY <1>1 DEF RoutesOK, NoEmptyEntry
  <1>2. CASE handlers' = Assign(handlers, full, entry)
    <2>1. /\ DOMAIN entry = DOMAIN Entry(full) \cup {Name(method)}
          /\ entry[Name(method)] = fun
          /\ \A z \in DOMAIN Entry(full) \ {Name(method)} : entry[z] = Entry(full)[z]
      BY DEF Assign
    <2>2. /\ DOMAIN entry \subseteq Methods /\ DOMAIN entry # {}
          /\ \A m \in DOMAIN entry : entry[m] \in Funs
      BY <2>1, EntryType, NameType
    <2> HIDE DEF entry, full
    <2> QED BY <1>2, <2>2, AssignKeeps
  <1> QED BY <1>1, <1>2 DEF HandleWith

LEMMA UnhandleKeeps ==
  ASSUME RoutesOK, NoEmptyEntry, NEW method, NEW path,
         handlers' = Removed(method, path)
  PROVE  RoutesOK' /\ NoEmptyEntry'
  <1> DEFINE entry == Without(Entry(path), Name(method))
  <1>1. CASE handlers' = handlers
    BY <1>1 DEF RoutesOK, NoEmptyEntry
  <1>2. CASE handlers' = Without(handlers, path)
    BY <1>2, WithoutKeeps
  <1>3. CASE DOMAIN entry # {} /\ handlers' = Assign(handlers, path, entry)
    <2>1. /\ DOMAIN entry = DOMAIN Entry(path) \ {Name(method)}
          /\ \A z \in DOMAIN Entry(path) \ {Name(method)} : entry[z] = Entry(path)[z]
      BY WithoutType
    <2>2. DOMAIN entry \subseteq Methods /\ \A m \in DOMAIN entry : entry[m] \in Funs
      BY <2>1, EntryType
    <2> HIDE DEF entry
    <2> QED BY <1>3, <2>2, AssignKeeps
  <1> QED BY <1>1, <1>2, <1>3 DEF Removed

(* The parts of the invariant that the calls decide. *)
Calls == CallsOK /\ StackMatchesFrames
Table == RoutesOK /\ NoEmptyEntry

LEMMA TableUnchanged ==
  ASSUME Table, UNCHANGED handlers PROVE Table'
  BY DEF Table, RoutesOK, NoEmptyEntry

LEMMA CallsUnchanged ==
  ASSUME Calls, UNCHANGED <<frames, prefixes>> PROVE Calls'
  BY DEF Calls, CallsOK, StackMatchesFrames, Expected

LEMMA CallsStep ==
  ASSUME RegistryAssumption, Calls, Next PROVE Calls'
  <1> USE DEF Calls
  <1>1. CASE EnterGroup
    <2>1. PICK prefix \in Prefixes : /\ frames' = Append(frames, Frame("group", prefix))
                                    /\ prefixes' = Append(prefixes, prefix)
      BY <1>1 DEF EnterGroup, Entered
    <2> QED BY <1>1, <2>1, Enter DEF EnterGroup, CanEnter, FrameKinds
  <1>2. CASE Dispatch
    <2>1. CASE frames' = Append(frames, Frame("call", <<>>)) /\ prefixes' = prefixes
      BY <1>2, <2>1, Enter DEF Dispatch, CanEnter, FrameKinds
    <2> QED BY <1>2, <2>1, CallsUnchanged DEF Dispatch, Entered
  <1>3. CASE WsEvent
    <2>1. frames' = Append(frames, Frame("ws", <<>>)) /\ prefixes' = prefixes
      BY <1>3 DEF WsEvent, Entered
    <2> QED BY <1>3, <2>1, Enter DEF WsEvent, CanEnter, FrameKinds
  <1>4. CASE LeaveGroup \/ Return \/ WsReturn \/ Unwind
    <2>1. frames # <<>> /\ frames' = Left(frames) /\ prefixes' = OnExit
      BY <1>4 DEF LeaveGroup, Return, WsReturn, Unwind, OnExit
    <2> QED BY <2>1, Leave
  <1>5. CASE Handle \/ Unhandle \/ ClearHandlers \/ OnWs \/ Fail \/ TopLevel
    <2>1. UNCHANGED <<frames, prefixes>>
      BY <1>5 DEF Handle, HandleWith, Unhandle, ClearHandlers, OnWs, Fail, TopLevel
    <2> QED BY <2>1, CallsUnchanged
  <1> QED BY <1>1, <1>2, <1>3, <1>4, <1>5 DEF Next

LEMMA TableStep ==
  ASSUME RegistryAssumption, Table, Next PROVE Table'
  <1>1. CASE Handle
    <2>1. PICK method \in Spellings, path \in Paths, fun \in Funs, overwrite \in BOOLEAN :
            HandleWith(method, path, fun, overwrite)
      BY <1>1 DEF Handle
    <2> QED BY <2>1, HandleKeeps DEF Table
  <1>2. CASE Unhandle
    <2>1. PICK method \in Spellings, path \in Paths : handlers' = Removed(method, Full(path))
      BY <1>2 DEF Unhandle
    <2> QED BY <2>1, UnhandleKeeps DEF Table
  <1>3. CASE ClearHandlers
    BY <1>3 DEF ClearHandlers, NoHandlers, Table, RoutesOK, NoEmptyEntry
  <1>4. CASE ~(Handle \/ Unhandle \/ ClearHandlers)
    <2>1. UNCHANGED handlers
      BY <1>4 DEF Next, EnterGroup, LeaveGroup, OnWs, Dispatch, Return, WsEvent, WsReturn,
                  Fail, Unwind, TopLevel
    <2> QED BY <2>1, TableUnchanged
  <1> QED BY <1>1, <1>2, <1>3, <1>4

(* Types of what events and dispatches record. *)
RestOK ==
  /\ wsHandlers \in [Events -> Funs \cup {None}]
  /\ raised \in BOOLEAN /\ interrupted \in BOOLEAN
  /\ called = None \/ called[Len(called)] \in Funs
  /\ answer \in {0, 200, 404, 500}

LEMMA RestStep ==
  ASSUME RegistryAssumption, Table, RestOK, Next PROVE RestOK'
  <1> USE DEF RestOK
  <1>1. CASE Dispatch
    <2>1. PICK method \in Spellings, path \in Paths \cup DOMAIN handlers, parses \in BOOLEAN :
            /\ called' = IF GetHandler(method, path) # None /\ parses
                           THEN <<path, Name(method), GetHandler(method, path)>> ELSE None
            /\ answer' = IF GetHandler(method, path) = None THEN 404 ELSE 0
            /\ raised' = (GetHandler(method, path) # None /\ ~parses)
            /\ UNCHANGED <<wsHandlers, interrupted>>
      BY <1>1 DEF Dispatch
    <2> DEFINE fun == GetHandler(method, path)
    <2>2. fun \in Funs \cup {None}
      BY HandlerType DEF Table
    <2>3. \A p, m : <<p, m, fun>>[Len(<<p, m, fun>>)] = fun
      OBVIOUS
    <2> HIDE DEF fun
    <2>4. called' = IF fun # None /\ parses THEN <<path, Name(method), fun>> ELSE None
      BY <2>1 DEF fun
    <2>5. (called = None \/ called[Len(called)] \in Funs)'
      BY <2>2, <2>3, <2>4
    <2>6. (answer \in {0, 200, 404, 500})' /\ (raised \in BOOLEAN)'
      BY <2>1
    <2> QED BY <2>1, <2>5, <2>6
  <1>2. CASE EnterGroup \/ LeaveGroup \/ Unhandle
    BY <1>2 DEF EnterGroup, LeaveGroup, Unhandle
  <1>3. CASE Handle
    BY <1>3 DEF Handle, HandleWith
  <1>4. CASE ClearHandlers
    BY <1>4 DEF ClearHandlers, NoListeners
  <1>5. CASE OnWs
    BY <1>5 DEF OnWs
  <1>6. CASE Return
    BY <1>6 DEF Return
  <1>9. CASE WsReturn
    BY <1>9 DEF WsReturn
  <1>11. CASE TopLevel
    BY <1>11 DEF TopLevel
  <1>10. CASE Fail
    BY <1>10 DEF Fail
  <1>7. CASE WsEvent
    BY <1>7 DEF WsEvent
  <1>8. CASE Unwind
    BY <1>8 DEF Unwind
  <1> QED BY <1>1, <1>2, <1>3, <1>4, <1>5, <1>6, <1>7, <1>8, <1>9, <1>10, <1>11 DEF Next

RegistryInv == Calls /\ Table /\ RestOK

LEMMA InvInit ==
  ASSUME RegistryAssumption, Init PROVE RegistryInv
  <1>1. RestOK
    BY DEF Init, RestOK, NoListeners
  <1>2. Table
    BY DEF Init, Table, RoutesOK, NoEmptyEntry, NoHandlers
  <1>3. Calls
    BY DEF Init, Calls, CallsOK, StackMatchesFrames, Expected, RegistryAssumption
  <1> QED BY <1>1, <1>2, <1>3 DEF RegistryInv

LEMMA InvStep ==
  ASSUME RegistryAssumption, RegistryInv, [Next]_vars PROVE RegistryInv'
  <1>1. CASE Next
    BY <1>1, CallsStep, TableStep, RestStep DEF RegistryInv
  <1>2. CASE UNCHANGED vars
    BY <1>2, CallsUnchanged, TableUnchanged DEF vars, RegistryInv, RestOK
  <1> QED BY <1>1, <1>2

LEMMA InvHolds == Spec => []RegistryInv
  <1>1. Init => RegistryInv
    BY InvInit, RegistryAssumption
  <1>2. RegistryInv /\ [Next]_vars => RegistryInv'
    BY InvStep, RegistryAssumption
  <1> QED BY <1>1, <1>2, PTL DEF Spec

(* The types hold: handlers are only found under methods in capitals.         *)
THEOREM TypeCorrect == Spec => []TypeOK
  <1>1. RegistryInv => TypeOK
    BY DEF RegistryInv, Calls, Table, RestOK, TypeOK
  <1> QED BY <1>1, InvHolds, PTL

(* group() puts the prefix stack back as it found it, however deep the groups *)
(* and handlers nest and wherever an error leaves them.                       *)
THEOREM GroupsNest == Spec => []StackMatchesFrames
  <1>1. RegistryInv => StackMatchesFrames
    BY DEF RegistryInv, Calls
  <1> QED BY <1>1, InvHolds, PTL

(* At the top level no prefix is left over from an earlier group().           *)
THEOREM NothingLeft == Spec => []NothingLeftBehind
  <1>1. RegistryInv => NothingLeftBehind
    BY DEF RegistryInv, Calls, StackMatchesFrames, Expected, NothingLeftBehind
  <1> QED BY <1>1, InvHolds, PTL

(* unhandle() leaves no path without functions behind.                        *)
THEOREM EntriesInUse == Spec => []NoEmptyEntry
  <1>1. RegistryInv => NoEmptyEntry
    BY DEF RegistryInv, Table
  <1> QED BY <1>1, InvHolds, PTL

-----------------------------------------------------------------------------
(* The path of a group: lemmas about Pasted(), a recursive function.  An     *)
(* induction goes over sets of numbers, as one over operators is out of reach. *)

(* A set of numbers has a least element. *)
LEMMA LeastIs ==
  ASSUME NEW S \in SUBSET Nat, S # {}
  PROVE  \E i \in S : \A j \in S : i <= j
<1> DEFINE R == OpToRel(<, Nat)
<1>1. IsWellFoundedOn(R, Nat)
  BY NatLessThanWellFounded
<1>2. \A x, y \in Nat : (<<x, y>> \in R) <=> (x < y)
  BY DEF OpToRel
<1> HIDE DEF R
<1>3. PICK i \in S : \A j \in S : ~ (<<j, i>> \in R)
  BY <1>1, WFMin
<1>4. \A j \in S : i <= j
  <2> TAKE j \in S
  <2>1. i \in Nat /\ j \in Nat /\ ~(j < i)
    BY <1>2, <1>3
  <2> QED BY <2>1
<1> QED BY <1>4

(* What holds of 0, and of the next number with each, holds of all: as sets. *)
LEMMA Induction ==
  ASSUME NEW T, 0 \in T, \A k \in Nat : k \in T => k + 1 \in T
  PROVE  Nat \subseteq T
<1> SUFFICES ASSUME Nat \ T # {} PROVE FALSE
  OBVIOUS
<1>1. PICK k \in Nat \ T : \A j \in Nat \ T : k <= j
  BY LeastIs
<1>2. k \in Nat /\ k # 0 /\ k \notin T
  OBVIOUS
<1>3. k - 1 \in Nat /\ ~(k <= k - 1)
  BY <1>2
<1>4. k - 1 \in T
  BY <1>1, <1>3
<1>5. (k - 1) + 1 \in T /\ (k - 1) + 1 = k
  BY <1>2, <1>3, <1>4
<1> QED BY <1>2, <1>5


(* A function of what the first i elements make together. *)
Joins(f, s, k) ==
  /\ f = [i \in 0 .. k |-> f[i]] /\ f[0] = <<>>
  /\ \A i \in 1 .. k : f[i] = f[i - 1] \o s[i]

(* There is one that goes on to the next. *)
LEMMA JoinsMore ==
  ASSUME NEW s, NEW k \in Nat, NEW f, Joins(f, s, k)
  PROVE  \E g : Joins(g, s, k + 1)
<1> DEFINE m == k + 1
           g == [i \in 0 .. m |-> IF i = m THEN f[k] \o s[m] ELSE f[i]]
<1>1. /\ m \in Nat /\ m = k + 1 /\ k = m - 1 /\ 0 # m /\ k # m
      /\ 0 \in 0 .. m /\ k \in 0 .. m /\ m \in 0 .. m
      /\ \A i \in 1 .. m : i # m => i \in 1 .. k /\ i - 1 \in 0 .. m /\ i - 1 # m
      /\ \A i \in 1 .. m : i \in 0 .. m
  OBVIOUS
<1> HIDE DEF m
<1>2. g = [i \in 0 .. m |-> g[i]] /\ g[0] = <<>>
  BY <1>1 DEF Joins
<1>3. ASSUME NEW i \in 1 .. m PROVE g[i] = g[i - 1] \o s[i]
  <2>1. CASE i = m
    <3>1. g[m] = f[k] \o s[m] /\ g[k] = f[k]
      BY <1>1
    <3> HIDE DEF g
    <3> QED BY <1>1, <2>1, <3>1
  <2>2. CASE i # m
    <3>1. g[i] = f[i] /\ g[i - 1] = f[i - 1] /\ i \in 1 .. k
      BY <1>1, <2>2
    <3> HIDE DEF g
    <3> QED BY <3>1 DEF Joins
  <2> QED BY <2>1, <2>2
<1>4. Joins(g, s, m)
  <2> HIDE DEF g
  <2> QED BY <1>2, <1>3 DEF Joins
<1> QED BY <1>1, <1>4

(* Pasted() is what such a function has at the end. *)
LEMMA PastedIs ==
  ASSUME NEW T, NEW s \in Seq(T)
  PROVE  \E f : Joins(f, s, Len(s)) /\ Pasted(s) = f[Len(s)]
<1> DEFINE n == Len(s)
           Up(g) == g = [i \in 0 .. n |-> IF i = 0 THEN <<>> ELSE g[i - 1] \o s[i]]
           K == {k \in Nat : \E g : Joins(g, s, k)}
<1>1. n \in Nat
  OBVIOUS
<1>2. 0 \in K
  <2> DEFINE g == [i \in 0 .. 0 |-> <<>>]
  <2>1. g = [i \in 0 .. 0 |-> g[i]] /\ g[0] = <<>> /\ 1 .. 0 = {}
    OBVIOUS
  <2> HIDE DEF g
  <2>2. Joins(g, s, 0)
    BY <2>1 DEF Joins
  <2> QED BY <2>2
<1>3. ASSUME NEW k \in Nat, k \in K PROVE k + 1 \in K
  BY <1>3, JoinsMore
<1>4. Nat \subseteq K
  <2> HIDE DEF K
  <2> QED BY <1>2, <1>3, Induction
<1>5. PICK g : Joins(g, s, n)
  BY <1>1, <1>4
<1>6. Up(g)
  <2> DEFINE h == [i \in 0 .. n |-> IF i = 0 THEN <<>> ELSE g[i - 1] \o s[i]]
  <2>1. ASSUME NEW i \in 0 .. n PROVE g[i] = h[i]
    <3>1. i = 0 \/ i \in 1 .. n
      BY <1>1
    <3>2. CASE i = 0
      BY <1>5, <3>2 DEF Joins
    <3>3. CASE i \in 1 .. n /\ i # 0
      <4>1. h[i] = g[i - 1] \o s[i]
        BY <3>3
      <4> HIDE DEF h
      <4> QED BY <1>5, <3>3, <4>1 DEF Joins
    <3> QED BY <3>1, <3>2, <3>3
  <2>2. g = [i \in 0 .. n |-> g[i]]
    BY <1>5 DEF Joins
  <2>3. h = [i \in 0 .. n |-> h[i]]
    OBVIOUS
  <2> HIDE DEF h
  <2>4. g = h
    BY <2>1, <2>2, <2>3
  <2> QED BY <2>4 DEF h
<1> DEFINE f == CHOOSE f : Up(f)
<1>7. Up(f)
  <2> HIDE DEF Up
  <2> QED BY <1>6
<1>8. Pasted(s) = f[n]
  BY DEF Pasted
<1> HIDE DEF f
<1>9. f[0] = <<>> /\ f = [i \in 0 .. n |-> f[i]]
  BY <1>1, <1>7
<1>10. ASSUME NEW i \in 1 .. n PROVE f[i] = f[i - 1] \o s[i]
  <2>1. i \in 0 .. n /\ i # 0
    BY <1>1
  <2> QED BY <1>7, <2>1
<1>11. Joins(f, s, n)
  BY <1>9, <1>10 DEF Joins
<1> QED BY <1>8, <1>11

(* Two such functions agree as long as the sequences do. *)
LEMMA JoinsAlike ==
  ASSUME NEW s, NEW t, NEW f, NEW g, NEW m \in Nat, NEW n \in Nat, NEW k \in Nat,
         Joins(f, s, m), Joins(g, t, n), k <= m, k <= n, \A i \in 1 .. k : s[i] = t[i]
  PROVE  f[k] = g[k]
<1> DEFINE V == {i \in Nat : i <= k => f[i] = g[i]}
<1>1. 0 \in V
  BY DEF Joins
<1>2. ASSUME NEW i \in Nat, i \in V PROVE i + 1 \in V
  <2> SUFFICES ASSUME i + 1 <= k PROVE f[i + 1] = g[i + 1]
    OBVIOUS
  <2> DEFINE j == i + 1
  <2>1. j \in 1 .. k /\ j \in 1 .. m /\ j \in 1 .. n /\ j - 1 = i /\ f[i] = g[i]
    BY <1>2
  <2> HIDE DEF j
  <2>2. f[j] = f[i] \o s[j] /\ g[j] = g[i] \o t[j] /\ s[j] = t[j]
    BY <2>1 DEF Joins
  <2>3. f[j] = g[j]
    BY <2>1, <2>2
  <2> QED BY <2>3 DEF j
<1>3. Nat \subseteq V
  <2> HIDE DEF V
  <2> QED BY <1>1, <1>2, Induction
<1> QED BY <1>3

(* The path of a group is that of the groups around it, and its own prefix. *)
LEMMA PastedAppend ==
  ASSUME NEW T, NEW s \in Seq(T), NEW e \in T
  PROVE  Pasted(Append(s, e)) = Pasted(s) \o e
<1> DEFINE t == Append(s, e)
           n == Len(s)
           m == n + 1
<1>1. /\ t \in Seq(T) /\ Len(t) = m /\ n \in Nat /\ m \in Nat /\ n <= m /\ n <= n /\ m - 1 = n
      /\ m \in 1 .. m
      /\ t[m] = e /\ \A i \in 1 .. n : s[i] = t[i]
  OBVIOUS
<1> HIDE DEF t, m
<1>2. PICK f : Joins(f, s, n) /\ Pasted(s) = f[n]
  BY PastedIs
<1>3. PICK g : Joins(g, t, m) /\ Pasted(t) = g[m]
  <2>1. \E g : Joins(g, t, Len(t)) /\ Pasted(t) = g[Len(t)]
    BY <1>1, PastedIs
  <2> QED BY <1>1, <2>1
<1> HIDE DEF n
<1>4. f[n] = g[n]
  BY <1>1, <1>2, <1>3, JoinsAlike
<1>5. g[m] = g[n] \o t[m]
  BY <1>1, <1>3 DEF Joins
<1>6. Pasted(t) = Pasted(s) \o e
  BY <1>1, <1>2, <1>3, <1>4, <1>5
<1> QED BY <1>6 DEF t

(* At the top level there is no prefix. *)
LEMMA PastedEmpty == Pasted(<<>>) = <<>>
<1>1. <<>> \in Seq({}) /\ Len(<<>>) = 0
  OBVIOUS
<1>2. PICK f : Joins(f, <<>>, 0) /\ Pasted(<<>>) = f[0]
  BY <1>1, PastedIs
<1> QED BY <1>2 DEF Joins

-----------------------------------------------------------------------------
(* The registry is the table of routes.                                     *)

(* Where the blocks register, as a sequence. *)
LEMMA BasesType ==
  ASSUME CallsOK
  PROVE  /\ Len(frames) \in Nat /\ DOMAIN Bases = 1 .. Len(frames)
         /\ Bases \in Seq({Pasted(Expected(k)) : k \in 1 .. Len(frames)})
         /\ Len(Bases) = Len(frames) /\ (Bases = <<>> <=> Len(frames) = 0)
         /\ \A k \in 1 .. Len(frames) : Bases[k] = Pasted(Expected(k))
<1> DEFINE n == Len(frames)
           T == {Pasted(Expected(k)) : k \in 1 .. n}
           b == Bases
<1>1. n \in Nat
  BY DEF CallsOK
<1>2. b = [k \in 1 .. n |-> Pasted(Expected(k))]
  BY DEF Bases
<1>3. \A k \in 1 .. n : Pasted(Expected(k)) \in T
  OBVIOUS
<1> HIDE DEF n, T, b
<1>4. b \in [1 .. n -> T] /\ \A k \in 1 .. n : b[k] = Pasted(Expected(k))
  BY <1>2, <1>3
<1>5. b \in Seq(T) /\ Len(b) = n /\ DOMAIN b = 1 .. n /\ (b = <<>> <=> n = 0)
  BY <1>1, <1>4
<1> QED BY <1>1, <1>4, <1>5 DEF n, b, T

(* What handle() registers now lies under the innermost of them. *)
LEMMA BaseIs ==
  ASSUME Calls
  PROVE  Routes!Base = CurrentPrefix
<1> DEFINE n == Len(frames)
<1>1. /\ n \in Nat /\ n = Len(frames) /\ Len(Bases) = n /\ (Bases = <<>> <=> n = 0)
      /\ \A k \in 1 .. n : Bases[k] = Pasted(Expected(k))
  BY BasesType DEF Calls
<1> HIDE DEF n
<1>2. prefixes = Expected(n)
  BY <1>1 DEF Calls, StackMatchesFrames
<1>3. CASE n = 0
  <2>1. prefixes = <<>>
    BY <1>2, <1>3 DEF Expected
  <2> QED BY <1>1, <1>3, <2>1, PastedEmpty DEF CurrentPrefix, Routes!Base
<1>4. CASE n # 0
  <2>1. n \in 1 .. n
    BY <1>1, <1>4
  <2> QED BY <1>1, <1>2, <1>4, <2>1 DEF CurrentPrefix, Routes!Base
<1> QED BY <1>3, <1>4

(* A call that is entered opens a block; a group, one under its prefix. *)
LEMMA BasesEnter ==
  ASSUME Calls, Calls', NEW f \in FrameSet, frames' = Append(frames, f)
  PROVE  Bases' = Append(Bases, Pasted(prefixes'))
<1>0. PICK n \in Nat : n = Len(frames)
  BY DEF Calls, CallsOK
<1> DEFINE T == {Pasted(Expected(k)) : k \in 1 .. n}
<1>1. /\ n = Len(frames) /\ n \in Nat /\ Bases \in Seq(T) /\ Len(Bases) = n
      /\ \A k \in 1 .. n : Bases[k] = Pasted(Expected(k))
  BY <1>0, BasesType DEF Calls
<1> HIDE DEF T
<1> DEFINE m == n + 1
           e == Pasted(prefixes')
           b == Bases
           c == Append(b, e)
<1>2. /\ m \in Nat /\ Len(frames') = m /\ frames' \in Seq(FrameSet)
      /\ \A k \in 1 .. n : frames'[k] = frames[k]
  BY <1>1 DEF Calls, CallsOK
<1>3. prefixes' = Expected(m)'
  BY <1>2 DEF Calls, StackMatchesFrames
<1>4. \A k \in 1 .. n : Expected(k)' = Expected(k)
  BY <1>2 DEF Expected
<1>5. \A k \in 1 .. m : k = m \/ k \in 1 .. n
  BY <1>1
<1>6. Bases' = [k \in 1 .. m |-> Pasted(Expected(k)')]
  BY <1>2 DEF Bases, Pasted
<1> HIDE DEF e, b
<1>7. /\ c \in Seq(T \cup {e}) /\ DOMAIN c = 1 .. m /\ c[m] = e /\ \A k \in 1 .. n : c[k] = b[k]
  <2>1. b \in Seq(T \cup {e}) /\ e \in T \cup {e} /\ Len(b) = n
    BY <1>1 DEF b
  <2> QED BY <2>1
<1> HIDE DEF c
<1>8. ASSUME NEW k \in 1 .. m PROVE c[k] = Pasted(Expected(k)')
  <2>1. CASE k = m
    BY <1>3, <1>7, <2>1 DEF e
  <2>2. CASE k \in 1 .. n
    BY <1>1, <1>4, <1>7, <2>2 DEF b
  <2> QED BY <1>5, <2>1, <2>2
<1>9. c = [k \in 1 .. m |-> c[k]]
  BY <1>7
<1>10. c = Bases'
  BY <1>6, <1>8, <1>9
<1> QED BY <1>10 DEF b, c, e

(* A call that is left ends its block. *)
LEMMA BasesLeave ==
  ASSUME Calls, frames # <<>>, frames' = Left(frames)
  PROVE  Bases # <<>> /\ Bases' = SubSeq(Bases, 1, Len(Bases) - 1)
<1>0. PICK n \in Nat : n = Len(frames)
  BY DEF Calls, CallsOK
<1> DEFINE T == {Pasted(Expected(k)) : k \in 1 .. n}
<1>1. /\ n = Len(frames) /\ n \in Nat /\ Bases \in Seq(T) /\ Len(Bases) = n
      /\ (Bases = <<>> <=> n = 0)
      /\ \A k \in 1 .. n : Bases[k] = Pasted(Expected(k))
  BY <1>0, BasesType DEF Calls
<1> HIDE DEF T
<1> DEFINE m == n - 1
           b == Bases
           c == Left(b)
<1>2. /\ m \in Nat /\ n # 0 /\ \A k \in 1 .. m : k \in 1 .. n
      /\ frames' \in Seq(FrameSet) /\ Len(frames') = m
      /\ \A k \in 1 .. m : frames'[k] = frames[k]
  <2>1. n # 0 /\ frames \in Seq(FrameSet)
    BY <1>1 DEF Calls, CallsOK
  <2> QED BY <1>1, <2>1, LeftType
<1>3. \A k \in 1 .. m : Expected(k)' = Expected(k)
  BY <1>2 DEF Expected
<1>4. Bases' = [k \in 1 .. m |-> Pasted(Expected(k)')]
  BY <1>2 DEF Bases, Pasted
<1>5. c \in Seq(T) /\ Len(c) = m /\ \A k \in 1 .. m : c[k] = b[k]
  BY <1>1, <1>2, LeftType
<1> HIDE DEF b
<1>6. c = SubSeq(b, 1, Len(b) - 1)
  BY DEF Left
<1> HIDE DEF c, m
<1>7. \A k \in 1 .. m : c[k] = Pasted(Expected(k)')
  BY <1>1, <1>2, <1>3, <1>5 DEF b
<1>8. c = [k \in 1 .. m |-> c[k]]
  BY <1>5
<1>9. c = Bases'
  BY <1>4, <1>7, <1>8
<1> QED BY <1>1, <1>2, <1>6, <1>9 DEF b

(* What is registered is what the entries of the paths hold. *)
LEMMA RouteIs ==
  \A r : r \in RoutesNow <=> \E p, m : m \in DOMAIN Entry(p) /\ r = <<p, m, Entry(p)[m]>>
<1> TAKE r
<1>1. \A p : p \in DOMAIN handlers => Entry(p) = handlers[p]
  BY DEF Entry
<1>2. \A p : p \notin DOMAIN handlers => DOMAIN Entry(p) = {}
  BY DEF Entry
<1>3. r \in RoutesNow <=> \E p \in DOMAIN handlers : \E m \in DOMAIN handlers[p] :
                            r = <<p, m, handlers[p][m]>>
  BY DEF RoutesNow
<1> QED BY <1>1, <1>2, <1>3

(* So it is after a step. *)
LEMMA RouteIsThen ==
  \A r : r \in RoutesNow' <=>
           \E p, m : m \in DOMAIN (Entry(p)') /\ r = <<p, m, (Entry(p)')[m]>>
<1>1. (\A r : r \in RoutesNow <=> \E p, m : m \in DOMAIN Entry(p) /\ r = <<p, m, Entry(p)[m]>>)'
  BY RouteIs, PTL
<1> QED BY <1>1

(* handle() puts a function in the place of the one that was there. *)
LEMMA RouteSet ==
  ASSUME NEW q, NEW n, NEW fun, Entry(q)' = Assign(Entry(q), n, fun),
         \A p : p # q => Entry(p)' = Entry(p)
  PROVE  RoutesNow' = (RoutesNow \ Routes!At(q, n)) \cup {<<q, n, fun>>}
<1> DEFINE E(p) == Entry(p)
           F(p) == Entry(p)'
<1>1. /\ DOMAIN F(q) = DOMAIN E(q) \cup {n} /\ F(q)[n] = fun
      /\ \A m \in DOMAIN E(q) : m # n => F(q)[m] = E(q)[m]
      /\ \A p : p # q => F(p) = E(p)
  <2> DEFINE e == Entry(q)
             a == Assign(e, n, fun)
  <2>1. F(q) = a /\ E(q) = e /\ \A p : p # q => F(p) = E(p)
    OBVIOUS
  <2> HIDE DEF e, E, F
  <2>2. DOMAIN a = DOMAIN e \cup {n} /\ a[n] = fun /\ \A m \in DOMAIN e \ {n} : a[m] = e[m]
    BY DEF Assign
  <2> QED BY <2>1, <2>2
<1>2. \A r : r \in RoutesNow <=> \E p, m : m \in DOMAIN E(p) /\ r = <<p, m, E(p)[m]>>
  BY RouteIs
<1>3. \A r : r \in RoutesNow' <=> \E p, m : m \in DOMAIN F(p) /\ r = <<p, m, F(p)[m]>>
  BY RouteIsThen
<1> HIDE DEF E, F
<1>4. \A r : r \in Routes!At(q, n) <=> r \in RoutesNow /\ r[1] = q /\ r[2] = n
  BY DEF Routes!At
<1>5. ASSUME NEW r
      PROVE  r \in RoutesNow' <=> (r \in RoutesNow /\ r \notin Routes!At(q, n)) \/ r = <<q, n, fun>>
  <2>1. ASSUME r \in RoutesNow' PROVE (r \in RoutesNow /\ r \notin Routes!At(q, n)) \/ r = <<q, n, fun>>
    <3>1. PICK p, m : m \in DOMAIN F(p) /\ r = <<p, m, F(p)[m]>>
      BY <1>3, <2>1
    <3>2. CASE p = q /\ m = n
      BY <1>1, <3>1, <3>2
    <3>3. CASE ~(p = q /\ m = n)
      <4>1. m \in DOMAIN E(p) /\ F(p)[m] = E(p)[m]
        BY <1>1, <3>1, <3>3
      <4>2. r \in RoutesNow
        BY <1>2, <3>1, <4>1
      <4>3. r[1] = p /\ r[2] = m
        BY <3>1
      <4> QED BY <1>4, <3>3, <4>2, <4>3
    <3> QED BY <3>2, <3>3
  <2>2. ASSUME r = <<q, n, fun>> PROVE r \in RoutesNow'
    BY <1>1, <1>3, <2>2
  <2>3. ASSUME r \in RoutesNow, r \notin Routes!At(q, n) PROVE r \in RoutesNow'
    <3>1. PICK p, m : m \in DOMAIN E(p) /\ r = <<p, m, E(p)[m]>>
      BY <1>2, <2>3
    <3>2. r[1] = p /\ r[2] = m
      BY <3>1
    <3>3. ~(p = q /\ m = n)
      BY <1>4, <2>3, <3>2
    <3>4. m \in DOMAIN F(p) /\ F(p)[m] = E(p)[m]
      BY <1>1, <3>1, <3>3
    <3> QED BY <1>3, <3>1, <3>4
  <2> QED BY <2>1, <2>2, <2>3
<1> QED BY <1>5

(* unhandle() takes it away. *)
LEMMA RouteRemoved ==
  ASSUME NEW q, NEW n, DOMAIN (Entry(q)') = DOMAIN Entry(q) \ {n},
         \A m \in DOMAIN Entry(q) \ {n} : (Entry(q)')[m] = Entry(q)[m],
         \A p : p # q => Entry(p)' = Entry(p)
  PROVE  RoutesNow' = RoutesNow \ Routes!At(q, n)
<1> DEFINE E(p) == Entry(p)
           F(p) == Entry(p)'
<1>1. /\ DOMAIN F(q) = DOMAIN E(q) \ {n} /\ \A m \in DOMAIN F(q) : F(q)[m] = E(q)[m]
      /\ \A p : p # q => F(p) = E(p)
  OBVIOUS
<1>2. \A r : r \in RoutesNow <=> \E p, m : m \in DOMAIN E(p) /\ r = <<p, m, E(p)[m]>>
  BY RouteIs
<1>3. \A r : r \in RoutesNow' <=> \E p, m : m \in DOMAIN F(p) /\ r = <<p, m, F(p)[m]>>
  BY RouteIsThen
<1> HIDE DEF E, F
<1>4. \A r : r \in Routes!At(q, n) <=> r \in RoutesNow /\ r[1] = q /\ r[2] = n
  BY DEF Routes!At
<1>5. ASSUME NEW r PROVE r \in RoutesNow' <=> r \in RoutesNow /\ r \notin Routes!At(q, n)
  <2>1. \A p, m : m \in DOMAIN F(p) <=> m \in DOMAIN E(p) /\ ~(p = q /\ m = n)
    BY <1>1
  <2>2. \A p, m : m \in DOMAIN F(p) => F(p)[m] = E(p)[m]
    BY <1>1
  <2>3. \A p, m, e : r = <<p, m, e>> => r[1] = p /\ r[2] = m
    OBVIOUS
  <2>4. ASSUME r \in RoutesNow' PROVE r \in RoutesNow /\ r \notin Routes!At(q, n)
    <3>1. PICK p, m : m \in DOMAIN F(p) /\ r = <<p, m, F(p)[m]>>
      BY <1>3, <2>4
    <3> QED BY <1>2, <1>4, <2>1, <2>2, <2>3, <3>1
  <2>5. ASSUME r \in RoutesNow, r \notin Routes!At(q, n) PROVE r \in RoutesNow'
    <3>1. PICK p, m : m \in DOMAIN E(p) /\ r = <<p, m, E(p)[m]>>
      BY <1>2, <2>5
    <3>2. m \in DOMAIN F(p) /\ r = <<p, m, F(p)[m]>>
      BY <1>4, <2>1, <2>2, <2>3, <2>5, <3>1
    <3> QED BY <1>3, <3>2
  <2> QED BY <2>4, <2>5
<1> QED BY <1>5

(* handle() sets a route, or fails as it is taken. *)
LEMMA HandleSets ==
  ASSUME RegistryAssumption, Calls, NEW method \in Spellings, NEW path \in Paths,
         NEW fun \in Funs, NEW overwrite \in BOOLEAN, HandleWith(method, path, fun, overwrite)
  PROVE  Routes!Set \/ UNCHANGED Routes!vars
<1>0. PICK q : q = Full(path)
  OBVIOUS
<1> DEFINE n == Name(method)
<1>1. UNCHANGED <<prefixes, wsHandlers, frames, called>> /\ n \in Methods /\ Bases' = Bases
  BY NameType DEF HandleWith, Bases, Expected
<1>2. q = Routes!Base \o path
  BY <1>0, BaseIs DEF Full
<1>3. CASE handlers' = handlers
  BY <1>1, <1>3 DEF RoutesNow, Routes!vars
<1>4. CASE handlers' = Assign(handlers, q, Assign(Entry(q), n, fun))
  <2>0. PICK e : e = Assign(Entry(q), n, fun)
    OBVIOUS
  <2>1. handlers' = Assign(handlers, q, e)
    BY <1>4, <2>0
  <2> HIDE DEF n
  <2>2. Entry(q)' = e /\ \A p : p # q => Entry(p)' = Entry(p)
    <3>1. /\ DOMAIN (handlers') = DOMAIN handlers \cup {q} /\ handlers'[q] = e
          /\ \A p \in DOMAIN handlers \ {q} : handlers'[p] = handlers[p]
      BY <2>1 DEF Assign
    <3> QED BY <3>1 DEF Entry
  <2>3. RoutesNow' = (RoutesNow \ Routes!At(q, n)) \cup {<<q, n, fun>>}
    BY <2>0, <2>2, RouteSet
  <2> QED BY <1>1, <1>2, <2>3 DEF Routes!Set
<1> QED BY <1>0, <1>3, <1>4 DEF HandleWith

(* unhandle() removes it, and with the last method of a path its entry. *)
LEMMA UnhandleRemoves ==
  ASSUME RegistryAssumption, Calls, NEW method \in Spellings, NEW path \in Paths,
         handlers' = Removed(method, Full(path)),
         UNCHANGED <<prefixes, wsHandlers, frames, called>>
  PROVE  Routes!Remove
<1>0. PICK q : q = Full(path)
  OBVIOUS
<1> DEFINE n == Name(method)
<1>e. PICK e : e = Without(Entry(q), n)
  OBVIOUS
<1>1. n \in Methods /\ Bases' = Bases
  BY NameType DEF Bases, Expected
<1>2. q = Routes!Base \o path
  BY <1>0, BaseIs DEF Full
<1>3. DOMAIN e = DOMAIN Entry(q) \ {n} /\ \A m \in DOMAIN Entry(q) \ {n} : e[m] = Entry(q)[m]
  BY <1>e DEF Without
<1>4. handlers' = IF q \notin DOMAIN handlers THEN handlers
                  ELSE IF DOMAIN e = {} THEN Without(handlers, q) ELSE Assign(handlers, q, e)
  BY <1>0, <1>e DEF Removed
<1> HIDE DEF n
<1>5. /\ DOMAIN (Entry(q)') = DOMAIN Entry(q) \ {n}
      /\ \A m \in DOMAIN Entry(q) \ {n} : (Entry(q)')[m] = Entry(q)[m]
      /\ \A p : p # q => Entry(p)' = Entry(p)
  <2>1. CASE q \notin DOMAIN handlers
    <3>1. DOMAIN Entry(q) = {} /\ handlers' = handlers
      BY <1>4, <2>1 DEF Entry
    <3> QED BY <3>1 DEF Entry
  <2>2. CASE q \in DOMAIN handlers /\ DOMAIN e = {}
    <3>1. handlers' = Without(handlers, q)
      BY <1>4, <2>2
    <3>2. /\ DOMAIN (handlers') = DOMAIN handlers \ {q}
          /\ \A p \in DOMAIN handlers \ {q} : handlers'[p] = handlers[p]
      BY <3>1 DEF Without
    <3>3. DOMAIN (Entry(q)') = {}
      BY <3>2 DEF Entry
    <3>4. \A p : p # q => Entry(p)' = Entry(p)
      BY <3>2 DEF Entry
    <3> QED BY <1>3, <2>2, <3>3, <3>4
  <2>3. CASE q \in DOMAIN handlers /\ DOMAIN e # {}
    <3>1. handlers' = Assign(handlers, q, e)
      BY <1>4, <2>3
    <3>2. /\ DOMAIN (handlers') = DOMAIN handlers \cup {q} /\ handlers'[q] = e
          /\ \A p \in DOMAIN handlers \ {q} : handlers'[p] = handlers[p]
      BY <3>1 DEF Assign
    <3>3. Entry(q)' = e /\ \A p : p # q => Entry(p)' = Entry(p)
      BY <3>2 DEF Entry
    <3> QED BY <1>3, <3>3
  <2> QED BY <2>1, <2>2, <2>3
<1>6. RoutesNow' = RoutesNow \ Routes!At(q, n)
  BY <1>5, RouteRemoved
<1> QED BY <1>1, <1>2, <1>6 DEF Routes!Remove

(* Each step of the registry is one of the table, or none. *)
LEMMA RoutesStep ==
  ASSUME RegistryAssumption, RegistryInv, RegistryInv', [Next]_vars
  PROVE  [Routes!Next]_Routes!vars
<1>0. Calls /\ Calls' /\ RoutesOK /\ CallsOK
  BY DEF RegistryInv, Calls, Table
<1>b. ASSUME UNCHANGED frames PROVE Bases' = Bases
  BY <1>b DEF Bases, Expected
<1>h. ASSUME UNCHANGED handlers PROVE RoutesNow' = RoutesNow
  BY <1>h DEF RoutesNow
<1>1. ASSUME EnterGroup PROVE Routes!Open
  <2>1. PICK prefix \in Prefixes : /\ frames' = Append(frames, Frame("group", prefix))
                                  /\ prefixes' = Append(prefixes, prefix)
                                  /\ UNCHANGED <<handlers, wsHandlers, called>>
    BY <1>1 DEF EnterGroup, Entered
  <2>2. Frame("group", prefix) \in FrameSet /\ prefixes \in Seq(Prefixes)
    BY <1>0 DEF CallsOK, Frame, FrameSet, FrameKinds
  <2>3. Pasted(prefixes') = CurrentPrefix \o prefix
    BY <2>1, <2>2, PastedAppend DEF CurrentPrefix
  <2>4. Bases' = Append(Bases, Routes!Base \o prefix)
    BY <1>0, <2>1, <2>2, <2>3, BasesEnter, BaseIs
  <2> QED BY <1>h, <2>1, <2>4 DEF Routes!Open
<1>2. ASSUME NEW kind \in {"call", "ws"}, frames' = Append(frames, Frame(kind, <<>>)),
             prefixes' = prefixes
      PROVE  Bases' = Append(Bases, Routes!Base)
  <2>1. Frame(kind, <<>>) \in FrameSet
    BY <1>0 DEF CallsOK, Frame, FrameSet, FrameKinds
  <2>2. Pasted(prefixes') = CurrentPrefix
    BY <1>2 DEF CurrentPrefix
  <2> QED BY <1>0, <1>2, <2>1, <2>2, BasesEnter, BaseIs
<1>3. ASSUME LeaveGroup \/ Return \/ WsReturn \/ Unwind PROVE Routes!End
  <2>1. frames # <<>> /\ frames' = Left(frames) /\ UNCHANGED <<handlers, wsHandlers, called>>
    BY <1>3 DEF LeaveGroup, Return, WsReturn, Unwind
  <2> QED BY <1>0, <1>h, <2>1, BasesLeave DEF Routes!End
<1>4. ASSUME Handle PROVE Routes!Set \/ UNCHANGED Routes!vars
  BY <1>0, <1>4, HandleSets DEF Handle
<1>5. ASSUME Unhandle PROVE Routes!Remove
  BY <1>0, <1>5, UnhandleRemoves DEF Unhandle
<1>6. ASSUME ClearHandlers PROVE Routes!Clear
  <2>1. RoutesNow' = {}
    BY <1>6 DEF ClearHandlers, NoHandlers, RoutesNow
  <2> QED BY <1>6, <1>b, <2>1 DEF ClearHandlers, NoListeners, Routes!Clear
<1>7. ASSUME OnWs PROVE Routes!Listen
  BY <1>7, <1>b, <1>h DEF OnWs, Routes!Listen
<1>8. ASSUME Dispatch PROVE Routes!Run \/ Routes!Miss
  <2>1. PICK method \in Spellings, path \in Paths \cup DOMAIN handlers, parses \in BOOLEAN :
          LET fun == GetHandler(method, path)
              runs == fun # None /\ parses
          IN  /\ called' = IF runs THEN <<path, Name(method), fun>> ELSE None
              /\ frames' = IF runs THEN Entered(Frame("call", <<>>)) ELSE frames
              /\ UNCHANGED <<handlers, prefixes, wsHandlers>>
    BY <1>8 DEF Dispatch
  <2> DEFINE fun == GetHandler(method, path)
  <2>2. CASE fun # None /\ parses
    <3>1. called' = <<path, Name(method), fun>> /\ Bases' = Append(Bases, Routes!Base)
      BY <1>2, <2>1, <2>2 DEF Entered
    <3>2. Name(method) \in DOMAIN Entry(path) /\ fun = Entry(path)[Name(method)]
      BY <2>2 DEF GetHandler
    <3>3. <<path, Name(method), fun>> \in RoutesNow
      BY <3>2, RouteIs
    <3> QED BY <1>h, <2>1, <3>1, <3>3 DEF Routes!Run
  <2>3. CASE ~(fun # None /\ parses)
    BY <1>b, <1>h, <2>1, <2>3 DEF Routes!Miss
  <2> QED BY <2>2, <2>3
<1>9. ASSUME WsEvent PROVE Routes!Run
  BY <1>2, <1>9, <1>h DEF WsEvent, Entered, Routes!Run
<1>10. ASSUME Fail \/ TopLevel \/ UNCHANGED vars PROVE UNCHANGED Routes!vars
  <2>1. UNCHANGED <<handlers, wsHandlers, frames, called>>
    BY <1>10 DEF Fail, TopLevel, vars
  <2> QED BY <1>b, <1>h, <2>1 DEF Routes!vars
<1> QED
  BY <1>1, <1>3, <1>4, <1>5, <1>6, <1>7, <1>8, <1>9, <1>10 DEF Next, Routes!Next

(* Nothing is registered yet. *)
LEMMA RoutesInit == Init => Routes!Init
<1> SUFFICES ASSUME Init PROVE Routes!Init
  OBVIOUS
<1>1. RoutesNow = {} /\ Bases = <<>>
  BY DEF Init, NoHandlers, RoutesNow, Bases
<1> QED BY <1>1 DEF Init, NoListeners, Routes!Init

(* The registry is the table of routes that RouteTable says it is: blocks     *)
(* nest, the last registration wins, what runs is what is registered.         *)
THEOREM RegistryIsTable == Spec => ImplementsRoutes
<1>1. RegistryInv /\ RegistryInv' /\ [Next]_vars => [Routes!Next]_Routes!vars
  BY RoutesStep, RegistryAssumption
<1> QED BY <1>1, RoutesInit, InvHolds, PTL DEF Spec, ImplementsRoutes, Routes!Spec

-----------------------------------------------------------------------------
(* The search of the static mounts.  First, what a sequence of steps makes of *)
(* a value, for the recursive functions that count characters and walk paths; *)
(* then the order of the mounts; then the parts of the invariant, step by     *)
(* step.                                                                      *)

(* A function of what the steps make of a, the first, the first two, and so on. *)
Steps(n, S) == [1 .. n -> [S -> S]]
Made(f, n, S, a, step) ==
  f \in [0 .. n -> S] /\ f[0] = a /\ \A i \in 1 .. n : f[i] = step[i][f[i - 1]]

(* There is one. *)
LEMMA StepsMake ==
  ASSUME NEW n \in Nat, NEW S, NEW a \in S, NEW step \in Steps(n, S)
  PROVE  \E f : Made(f, n, S, a, step)
<1>0. step \in [1 .. n -> [S -> S]]
  BY DEF Steps
<1> DEFINE Is(f, k) == f \in [0 .. k -> S] /\ f[0] = a /\ \A i \in 1 .. k : f[i] = step[i][f[i - 1]]
           K == {k \in Nat : k <= n => \E f : Is(f, k)}
<1>1. 0 \in K
  <2> DEFINE g == [i \in 0 .. 0 |-> a]
  <2>1. g \in [0 .. 0 -> S] /\ g[0] = a /\ 1 .. 0 = {}
    OBVIOUS
  <2> HIDE DEF g
  <2> QED BY <2>1
<1>2. ASSUME NEW k \in Nat, k \in K PROVE k + 1 \in K
  <2> SUFFICES ASSUME k + 1 <= n PROVE \E g : Is(g, k + 1)
    OBVIOUS
  <2>1. PICK f : Is(f, k)
    BY <1>2
  <2> DEFINE g == [i \in 0 .. k + 1 |-> IF i = k + 1 THEN step[k + 1][f[k]] ELSE f[i]]
  <2>2. /\ k \in 0 .. k /\ k + 1 \in 1 .. n /\ f[k] \in S /\ 0 # k + 1
        /\ \A i \in 0 .. k + 1 : i = k + 1 \/ i \in 0 .. k
        /\ \A i \in 1 .. k + 1 : i = k + 1 \/ i \in 1 .. k
        /\ \A i \in 1 .. k + 1 : i - 1 \in 0 .. k /\ i - 1 # k + 1
        /\ \A i \in 1 .. k : i # k + 1 /\ i \in 0 .. k + 1
    BY <2>1
  <2>3. step[k + 1][f[k]] \in S
    BY <1>0, <2>2
  <2>4. g \in [0 .. k + 1 -> S] /\ g[k + 1] = step[k + 1][f[k]] /\ \A i \in 0 .. k : g[i] = f[i]
    BY <2>1, <2>2, <2>3
  <2> HIDE DEF g
  <2>5. ASSUME NEW i \in 1 .. k + 1 PROVE g[i] = step[i][g[i - 1]]
    <3>1. CASE i = k + 1
      <4>1. i - 1 = k
        BY <3>1
      <4> QED BY <2>2, <2>4, <3>1, <4>1
    <3>2. CASE i \in 1 .. k
      <4>1. i \in 0 .. k /\ i - 1 \in 0 .. k
        BY <3>2
      <4> QED BY <2>1, <2>4, <3>2, <4>1
    <3> QED BY <2>2, <3>1, <3>2
  <2>6. g[0] = a
    BY <2>1, <2>4
  <2> QED BY <2>4, <2>5, <2>6
<1>3. Nat \subseteq K
  <2> HIDE DEF K
  <2> QED BY <1>1, <1>2, Induction
<1>4. PICK f : Is(f, n)
  <2>1. n \in K /\ n <= n
    BY <1>3
  <2> HIDE DEF Is
  <2> QED BY <2>1
<1> QED BY <1>4 DEF Made

-----------------------------------------------------------------------------
Counts(f, s) ==
  /\ f \in [0 .. Len(s) -> Nat] /\ f[0] = 0
  /\ \A i \in 1 .. Len(s) : f[i] = f[i - 1] + 1 + Chars[s[i]]

(* NChar() is what counting the segments one by one comes to. *)
LEMMA NCharIs ==
  ASSUME Chars \in [DOMAIN Chars -> Nat \ {0}], NEW s \in Seq(DOMAIN Chars), s # <<>>
  PROVE  \E f : Counts(f, s) /\ Search!NChar(s) = f[Len(s)]
<1> DEFINE n == Len(s)
           step == [i \in 1 .. n |-> [k \in Nat |-> k + 1 + Chars[s[i]]]]
           Up(f) == f = [k \in 0 .. n |-> IF k = 0 THEN 0 ELSE f[k - 1] + 1 + Chars[s[k]]]
<1>1. n \in Nat /\ n = Len(s) /\ \A i \in 1 .. n : s[i] \in DOMAIN Chars /\ Chars[s[i]] \in Nat
  OBVIOUS
<1>2. step \in Steps(n, Nat)
  BY <1>1 DEF Steps
<1>3. \A i \in 1 .. n, k \in Nat : step[i][k] = k + 1 + Chars[s[i]]
  OBVIOUS
<1> HIDE DEF n, step
<1>4. PICK f : f \in [0 .. n -> Nat] /\ f[0] = 0 /\ \A i \in 1 .. n : f[i] = step[i][f[i - 1]]
  <2>1. 0 \in Nat
    OBVIOUS
  <2>2. \E f : Made(f, n, Nat, 0, step)
    BY <1>1, <1>2, <2>1, StepsMake
  <2> QED BY <2>2 DEF Made
<1>5. \A i \in 0 .. n : i = 0 \/ (i \in 1 .. n /\ i - 1 \in 0 .. n)
  BY <1>1
<1>6. Up(f)
  <2> DEFINE h == [i \in 0 .. n |-> IF i = 0 THEN 0 ELSE f[i - 1] + 1 + Chars[s[i]]]
  <2>1. ASSUME NEW i \in 0 .. n PROVE f[i] = h[i]
    BY <1>3, <1>4, <1>5
  <2>2. f = [i \in 0 .. n |-> f[i]] /\ h = [i \in 0 .. n |-> h[i]]
    BY <1>4
  <2> HIDE DEF h
  <2>3. f = h
    BY <2>1, <2>2
  <2> QED BY <2>3 DEF h
<1> DEFINE g == CHOOSE g : Up(g)
<1>7. Up(g)
  <2> HIDE DEF Up
  <2> QED BY <1>6
<1>8. Search!NChar(s) = g[n]
  BY DEF Search!NChar, n
<1> HIDE DEF g
<1>9. g[0] = 0 /\ DOMAIN g = 0 .. n /\ \A i \in 1 .. n : g[i] = g[i - 1] + 1 + Chars[s[i]]
  BY <1>1, <1>5, <1>7
<1> DEFINE V == {k \in Nat : k <= n => g[k] \in Nat}
<1>10. 0 \in V
  BY <1>9
<1>11. ASSUME NEW k \in Nat, k \in V PROVE k + 1 \in V
  <2> SUFFICES ASSUME k + 1 <= n PROVE g[k + 1] \in Nat
    OBVIOUS
  <2> DEFINE j == k + 1
  <2>1. j \in 1 .. n /\ j - 1 = k /\ g[k] \in Nat
    <3>1. j \in 1 .. n /\ j - 1 = k /\ k <= n
      BY <1>1
    <3> QED BY <1>11, <3>1
  <2> HIDE DEF j
  <2>2. g[j] \in Nat
    <3>1. g[j] = g[k] + 1 + Chars[s[j]]
      BY <1>9, <2>1
    <3>2. Chars[s[j]] \in Nat
      BY <1>1, <2>1
    <3> QED BY <2>1, <3>1, <3>2
  <2> QED BY <2>2 DEF j
<1>12. Nat \subseteq V
  <2> HIDE DEF V
  <2> QED BY <1>10, <1>11, Induction
<1>13. g = [i \in 0 .. n |-> g[i]]
  BY <1>7
<1>14. g \in [0 .. n -> Nat]
  BY <1>1, <1>12, <1>13
<1> QED BY <1>1, <1>8, <1>9, <1>14 DEF Counts

(* Of two beginnings of a path, the longer has more characters. *)
LEMMA NCharGrows ==
  ASSUME Chars \in [DOMAIN Chars -> Nat \ {0}], NEW p \in Seq(DOMAIN Chars), NEW q \in Seq(DOMAIN Chars),
         Len(p) < Len(q), \A i \in 1 .. Len(p) : p[i] = q[i]
  PROVE  Search!NChar(p) < Search!NChar(q)
<1> DEFINE m == Len(p)
           n == Len(q)
<1>1. m \in Nat /\ m = Len(p) /\ n \in Nat /\ n = Len(q) /\ m < n /\ q # <<>> /\ (m = 0 <=> p = <<>>)
      /\ \A i \in 1 .. n : Chars[q[i]] \in Nat \ {0}
  OBVIOUS
<1> HIDE DEF m, n
<1>2. PICK g : Counts(g, q) /\ Search!NChar(q) = g[n]
  BY <1>1, NCharIs
<1>3. g \in [0 .. n -> Nat] /\ g[0] = 0 /\ \A i \in 1 .. n : g[i] = g[i - 1] + 1 + Chars[q[i]]
  BY <1>1, <1>2 DEF Counts
<1> DEFINE V == {k \in Nat : k <= n => g[k] >= 2 * k /\ (m < k => g[m] < g[k])}
<1>4. 0 \in V
  BY <1>1, <1>3
<1>5. ASSUME NEW k \in Nat, k \in V PROVE k + 1 \in V
  <2> SUFFICES ASSUME k + 1 <= n PROVE g[k + 1] >= 2 * (k + 1) /\ (m < k + 1 => g[m] < g[k + 1])
    OBVIOUS
  <2> DEFINE j == k + 1
  <2>1. j = k + 1 /\ j \in 1 .. n /\ j - 1 = k /\ k \in 0 .. n /\ m \in 0 .. n
    BY <1>1
  <2>2. g[k] >= 2 * k /\ (m < k => g[m] < g[k]) /\ g[k] \in Nat /\ g[m] \in Nat
    BY <1>3, <1>5, <2>1
  <2> HIDE DEF j
  <2> DEFINE c == Chars[q[j]]
  <2>3. g[j] = g[k] + 1 + c /\ c \in Nat \ {0}
    BY <1>1, <1>3, <2>1
  <2> HIDE DEF c
  <2>4. g[j] >= 2 * j
    <3>1. 2 * j = 2 * k + 2
      BY <2>1
    <3>2. c >= 1
      BY <2>3
    <3>3. g[j] >= g[k] + 2 /\ g[k] + 2 \in Nat /\ g[j] \in Nat
      BY <2>2, <2>3, <3>2
    <3> QED BY <2>2, <3>1, <3>3
  <2>5. m < j => g[m] < g[j]
    <3> SUFFICES ASSUME m < j PROVE g[m] < g[j]
      OBVIOUS
    <3>1. m = k \/ m < k
      BY <1>1, <2>1
    <3> QED BY <2>2, <2>3, <3>1
  <2> QED BY <2>4, <2>5 DEF j
<1>6. Nat \subseteq V
  <2> HIDE DEF V
  <2> QED BY <1>4, <1>5, Induction
<1>7. g[n] >= 2 * n /\ g[m] < g[n] /\ g[n] \in Nat /\ g[m] \in Nat
  BY <1>1, <1>3, <1>6
<1>8. CASE m = 0
  <2>1. Search!NChar(p) = 1
    BY <1>1, <1>8 DEF Search!NChar
  <2> QED BY <1>1, <1>2, <1>7, <2>1
<1>9. CASE m # 0
  <2>1. PICK f : Counts(f, p) /\ Search!NChar(p) = f[m]
    BY <1>1, <1>9, NCharIs
  <2>2. f \in [0 .. m -> Nat] /\ f[0] = 0 /\ \A i \in 1 .. m : f[i] = f[i - 1] + 1 + Chars[p[i]]
    BY <1>1, <2>1 DEF Counts
  <2> DEFINE W == {k \in Nat : k <= m => f[k] = g[k]}
  <2>3. 0 \in W
    BY <1>3, <2>2
  <2>4. ASSUME NEW k \in Nat, k \in W PROVE k + 1 \in W
    <3> SUFFICES ASSUME k + 1 <= m PROVE f[k + 1] = g[k + 1]
      OBVIOUS
    <3> DEFINE j == k + 1
    <3>1. j \in 1 .. m /\ j \in 1 .. n /\ j - 1 = k /\ f[k] = g[k]
      BY <1>1, <2>4
    <3>3. p[j] = q[j]
      BY <1>1, <3>1
    <3> HIDE DEF j
    <3>2. f[j] = g[j]
      BY <1>3, <2>2, <3>1, <3>3
    <3> QED BY <3>2 DEF j
  <2>5. Nat \subseteq W
    <3> HIDE DEF W
    <3> QED BY <2>3, <2>4, Induction
  <2>6. f[m] = g[m]
    BY <1>1, <2>5
  <2> QED BY <1>2, <1>7, <2>1, <2>6
<1> QED BY <1>8, <1>9

LEMMA NCharType ==
  ASSUME Chars \in [DOMAIN Chars -> Nat \ {0}], NEW s \in Seq(DOMAIN Chars)
  PROVE  Search!NChar(s) \in Nat
<1>1. CASE s = <<>>
  BY <1>1 DEF Search!NChar
<1>2. CASE s # <<>>
  <2>1. PICK f : Counts(f, s) /\ Search!NChar(s) = f[Len(s)]
    BY <1>2, NCharIs
  <2>2. Len(s) \in 0 .. Len(s)
    OBVIOUS
  <2> QED BY <2>1, <2>2 DEF Counts
<1> QED BY <1>1, <1>2

-----------------------------------------------------------------------------
(* Among mounts that weigh w there is one that is ahead of the others. *)
LEMMA HasFirst ==
  ASSUME NEW n \in Nat, NEW w \in [1 .. n -> Nat], NEW S \in SUBSET (1 .. n), S # {}
  PROVE  \E m \in S : \A j \in S \ {m} : w[m] > w[j] \/ (w[m] = w[j] /\ m < j)
<1> DEFINE First(m, R) == m \in R /\ \A j \in R \ {m} : w[m] > w[j] \/ (w[m] = w[j] /\ m < j)
           K == {k \in Nat : k <= n => \A R \in SUBSET (1 .. k) : R # {} => \E m : First(m, R)}
<1>1. 0 \in K
  OBVIOUS
<1>2. ASSUME NEW k \in Nat, k \in K PROVE k + 1 \in K
  <2> SUFFICES ASSUME k + 1 <= n, NEW R \in SUBSET (1 .. k + 1), R # {} PROVE \E m : First(m, R)
    OBVIOUS
  <2> DEFINE e == k + 1
             Q == R \ {e}
  <2>1. Q \in SUBSET (1 .. k) /\ e \in 1 .. n /\ \A j \in Q : j \in 1 .. n /\ j < e
    OBVIOUS
  <2>2. CASE Q = {}
    <3>1. First(e, R)
      BY <2>2
    <3> QED BY <3>1
  <2>3. CASE Q # {}
    <3>1. PICK m : First(m, Q)
      <4>1. k <= n /\ Q \in SUBSET (1 .. k)
        BY <2>1
      <4> HIDE DEF First, Q
      <4> QED BY <1>2, <2>3, <4>1
    <3>2. CASE e \notin R
      <4>1. Q = R
        BY <3>2
      <4> QED BY <3>1, <4>1
    <3>3. CASE e \in R /\ w[e] > w[m]
      <4>1. ASSUME NEW j \in R \ {e} PROVE w[e] > w[j]
        <5>1. j = m \/ w[m] > w[j] \/ w[m] = w[j]
          BY <3>1
        <5>2. w[j] \in Nat /\ w[m] \in Nat /\ w[e] \in Nat
          <6>1. j \in 1 .. n /\ m \in 1 .. n /\ e \in 1 .. n
            BY <2>1, <3>1
          <6> QED BY <6>1
        <5> QED BY <3>3, <5>1, <5>2
      <4> QED BY <3>3, <4>1
    <3>4. CASE e \in R /\ ~(w[e] > w[m])
      <4>1. w[m] \in Nat /\ w[e] \in Nat /\ m \in R /\ m < e
        BY <2>1, <3>1
      <4>2. ASSUME NEW j \in R \ {m} PROVE w[m] > w[j] \/ (w[m] = w[j] /\ m < j)
        <5>1. CASE j = e
          BY <3>4, <4>1, <5>1
        <5>2. CASE j # e
          BY <3>1, <5>2
        <5> QED BY <5>1, <5>2
      <4> QED BY <4>1, <4>2
    <3> QED BY <3>2, <3>3, <3>4
  <2> QED BY <2>2, <2>3
<1>3. Nat \subseteq K
  <2> HIDE DEF K
  <2> QED BY <1>1, <1>2, Induction
<1>4. \E m : First(m, S)
  <2>1. n \in K
    <3> HIDE DEF K
    <3> QED BY <1>3
  <2>2. n <= n
    OBVIOUS
  <2> HIDE DEF First
  <2> QED BY <2>1, <2>2
<1> QED BY <1>4

(* What serve() was given. *)
LEMMA MountsType ==
  ASSUME SitesAssumption, Search!TypeOK
  PROVE  /\ Chars \in [DOMAIN Chars -> Nat \ {0}]
         /\ Len(Search!Mounts) \in Nat
         /\ \A m \in Search!All : /\ Search!Mounts[m].prefix \in Seq(DOMAIN Chars)
                                  /\ Search!Mounts[m].dir \in Seq(DOMAIN Chars)
                                  /\ Search!Mounts[m].index \in Seq(DOMAIN Chars)
                                  /\ Search!NChar(Search!Mounts[m].prefix) \in Nat
                                  /\ Len(Search!Mounts[m].index) \in Nat
<1>1. Chars \in [DOMAIN Chars -> Nat \ {0}]
  BY DEF SitesAssumption, Search!ConstantsAreProper
<1> DEFINE N == Seq(DOMAIN Chars)
           X == [prefix : N, dir : N, index : N, list : BOOLEAN]
<1>2. Search!Mounts \in Seq(X)
  BY DEF SitesAssumption, Search!ConstantsAreProper, Search!TypeOK, Search!Mounts, Search!Names
<1>3. Len(Search!Mounts) \in Nat
  BY <1>2
<1>4. \A m \in Search!All : Search!Mounts[m] \in X
  <2> HIDE DEF X
  <2> QED BY <1>2 DEF Search!All
<1> QED BY <1>1, <1>3, <1>4, NCharType

(* The mount that is asked is ahead of those that are left. *)
LEMMA MountIs ==
  ASSUME SitesAssumption, Search!TypeOK, Search!Left # {}
  PROVE  /\ Search!Mount \in Search!Left
         /\ \A m \in Search!Left \ {Search!Mount} : Search!Ahead(Search!Mount, m)
<1> DEFINE n == Len(Search!Mounts)
           w == [m \in 1 .. n |-> Search!NChar(Search!Mounts[m].prefix)]
           S == Search!Left
<1>1. n \in Nat /\ w \in [1 .. n -> Nat] /\ S \in SUBSET (1 .. n) /\ S # {}
  BY MountsType DEF Search!All, Search!Left
<1>2. \A m, j \in 1 .. n : Search!Ahead(m, j) <=> w[m] > w[j] \/ (w[m] = w[j] /\ m < j)
  BY DEF Search!Ahead
<1> HIDE DEF n, w, S
<1>3. PICK m \in S : \A j \in S \ {m} : w[m] > w[j] \/ (w[m] = w[j] /\ m < j)
  BY <1>1, HasFirst
<1>4. \A j \in S \ {m} : Search!Ahead(m, j)
  BY <1>1, <1>2, <1>3
<1> QED BY <1>3, <1>4 DEF Search!Mount, S

LEMMA AheadIsStrict ==
  ASSUME SitesAssumption, Search!TypeOK, NEW m \in Search!All, NEW n \in Search!All, m # n
  PROVE  Search!Ahead(m, n) <=> ~Search!Ahead(n, m)
<1> DEFINE v == Search!NChar(Search!Mounts[m].prefix)
           w == Search!NChar(Search!Mounts[n].prefix)
<1>1. v \in Nat /\ w \in Nat /\ m \in Nat /\ n \in Nat
  BY MountsType DEF Search!All
<1> QED BY <1>1 DEF Search!Ahead

(* For mounts that have the path, more characters are more segments. *)
LEMMA AheadIsBefore ==
  ASSUME SitesAssumption, Search!TypeOK, NEW p \in Seq(DOMAIN Chars \cup {".."}),
         NEW m \in Search!Matching(p), NEW n \in Search!Matching(p)
  PROVE  /\ m \in Search!All /\ n \in Search!All
         /\ Search!Before(m, n) <=> Search!Ahead(m, n)
<1> DEFINE v == Search!Mounts[m].prefix
           w == Search!Mounts[n].prefix
<1>1. m \in Search!All /\ n \in Search!All /\ Search!IsPrefix(v, p) /\ Search!IsPrefix(w, p)
  BY DEF Search!Matching
<1>2. /\ Chars \in [DOMAIN Chars -> Nat \ {0}] /\ v \in Seq(DOMAIN Chars) /\ w \in Seq(DOMAIN Chars)
      /\ Search!NChar(v) \in Nat /\ Search!NChar(w) \in Nat
  BY <1>1, MountsType
<1>10. Len(v) \in Nat /\ Len(v) <= Len(p) /\ Len(w) \in Nat /\ Len(w) <= Len(p)
  BY <1>1, <1>2 DEF Search!IsPrefix
<1> HIDE DEF v, w
<1>3. /\ \A i \in 1 .. Len(v) : v[i] = p[i]
      /\ \A i \in 1 .. Len(w) : w[i] = p[i]
  <2>1. SubSeq(v, 1, Len(v)) = SubSeq(p, 1, Len(v)) /\ SubSeq(w, 1, Len(w)) = SubSeq(p, 1, Len(w))
    BY <1>1 DEF Search!IsPrefix
  <2>2. \A i \in 1 .. Len(v) : SubSeq(v, 1, Len(v))[i] = v[i] /\ SubSeq(p, 1, Len(v))[i] = p[i]
    BY <1>1, <1>2, <1>10
  <2>3. \A i \in 1 .. Len(w) : SubSeq(w, 1, Len(w))[i] = w[i] /\ SubSeq(p, 1, Len(w))[i] = p[i]
    BY <1>1, <1>2, <1>10
  <2> QED BY <2>1, <2>2, <2>3
<1>4. Len(v) < Len(w) => Search!NChar(v) < Search!NChar(w)
  <2> SUFFICES ASSUME Len(v) < Len(w) PROVE Search!NChar(v) < Search!NChar(w)
    OBVIOUS
  <2>1. \A i \in 1 .. Len(v) : v[i] = w[i]
    BY <1>2, <1>3
  <2> QED BY <1>2, <2>1, NCharGrows
<1>5. Len(w) < Len(v) => Search!NChar(w) < Search!NChar(v)
  <2> SUFFICES ASSUME Len(w) < Len(v) PROVE Search!NChar(w) < Search!NChar(v)
    OBVIOUS
  <2>1. \A i \in 1 .. Len(w) : w[i] = v[i]
    BY <1>2, <1>3
  <2> QED BY <1>2, <2>1, NCharGrows
<1>6. Len(v) = Len(w) => v = w
  <2>1. v = SubSeq(v, 1, Len(v)) /\ w = SubSeq(w, 1, Len(w))
    BY <1>2
  <2>2. SubSeq(v, 1, Len(v)) = SubSeq(p, 1, Len(v)) /\ SubSeq(w, 1, Len(w)) = SubSeq(p, 1, Len(w))
    BY <1>1 DEF Search!IsPrefix
  <2> QED BY <2>1, <2>2
<1>7. Search!Before(m, n) <=> Len(v) > Len(w) \/ (v = w /\ m < n)
  BY DEF Search!Before, v, w
<1>8. Search!Ahead(m, n) <=> Search!NChar(v) > Search!NChar(w) \/ (Search!NChar(v) = Search!NChar(w) /\ m < n)
  BY DEF Search!Ahead, v, w
<1>9. Len(v) \in Nat /\ Len(w) \in Nat
  BY <1>2
<1> QED BY <1>1, <1>2, <1>4, <1>5, <1>6, <1>7, <1>8, <1>9

-----------------------------------------------------------------------------
(* Names below a root. *)
LEMMA PrefixGrows ==
  ASSUME NEW S, NEW r \in Seq(S), NEW a \in Seq(S), NEW e \in S, Search!IsPrefix(r, a)
  PROVE  Append(a, e) \in Seq(S) /\ Search!IsPrefix(r, Append(a, e))
<1>1. Len(r) \in Nat /\ Len(a) \in Nat /\ Len(r) <= Len(a) /\ SubSeq(r, 1, Len(r)) = SubSeq(a, 1, Len(r))
  BY DEF Search!IsPrefix
<1> DEFINE b == Append(a, e)
<1>2. b \in Seq(S) /\ Len(b) = Len(a) + 1 /\ \A i \in 1 .. Len(a) : b[i] = a[i]
  OBVIOUS
<1> HIDE DEF b
<1>3. SubSeq(b, 1, Len(r)) = SubSeq(a, 1, Len(r))
  BY <1>1, <1>2
<1> QED BY <1>1, <1>2, <1>3 DEF Search!IsPrefix, b

LEMMA PrefixOfJoined ==
  ASSUME NEW S, NEW r \in Seq(S), NEW a \in Seq(S)
  PROVE  Search!IsPrefix(r, r \o a)
<1> DEFINE b == r \o a
<1>1. b \in Seq(S) /\ Len(b) = Len(r) + Len(a) /\ \A i \in 1 .. Len(r) : b[i] = r[i]
  OBVIOUS
<1> HIDE DEF b
<1>2. SubSeq(b, 1, Len(r)) = SubSeq(r, 1, Len(r)) /\ Len(r) <= Len(b)
  BY <1>1
<1> QED BY <1>2 DEF Search!IsPrefix, b

(* A name as the URL wrote it begins with the root. *)
LEMMA FileInRoot ==
  ASSUME SitesAssumption, Search!TypeOK, Search!Mount \in Search!All
  PROVE  Search!InRoot(Search!Mount, Search!File)
<1> DEFINE S == DOMAIN Chars \cup {".."}
           r == Search!Cfg.dir
           n == Len(Search!Cfg.prefix)
<1>1. r \in Seq(S) /\ n \in Nat /\ url \in Seq(S) /\ r = Search!Mounts[Search!Mount].dir
  BY MountsType DEF Search!Cfg, Search!TypeOK
<1> HIDE DEF S, r, n
<1>2. SubSeq(url, n + 1, Len(url)) \in Seq(S)
  BY <1>1
<1>3. Search!IsPrefix(r, r \o SubSeq(url, n + 1, Len(url)))
  BY <1>1, <1>2, PrefixOfJoined
<1> QED BY <1>1, <1>3 DEF Search!InRoot, Search!File, r, n

(* What lies under a name. *)
LEMMA KindType ==
  ASSUME Search!TypeOK, NEW f
  PROVE  /\ Search!Kind(files, f) \in {"none", "file", "dir"}
         /\ Search!Kind(files, f) # "none" => f \in Search!Names
  BY DEF Search!Kind, Search!TypeOK, Search!IsTree

LEMMA StatIs ==
  ASSUME NEW f, Search!Stat(files, f) # "none"
  PROVE  Search!Stat(files, f) = Search!Kind(files, Search!Normal(f)) /\ Search!Kind(files, Search!Normal(f)) # "none"
  BY DEF Search!Stat

(* What a mount has, told by what its handler looks at. *)
Candidate(k) == Append(Search!Normal(Search!File), Search!Cfg.index[k])
IsFile(k)    == Search!Kind(files, Candidate(k)) = "file"

LEMMA HasIs ==
  ASSUME SitesAssumption, Search!TypeOK, Search!Left # {}
  PROVE  LET name == Search!Normal(Search!File)
             there == Search!Stat(files, Search!File) # "none"
             inside == Search!InRoot(Search!Mount, name)
             kind == Search!Kind(files, name)
             ok(f) == [status |-> 200, mount |-> Search!Mount, file |-> f]
             indexes == {k \in 1 .. Len(Search!Cfg.index) : IsFile(k)}
             has == Search!Has(files, Search!Mount, url)
         IN /\ ~there => has = Search!NoAnswer
            /\ there /\ ~inside => has = [status |-> 403, mount |-> Search!Mount, file |-> <<>>]
            /\ there => kind \in {"file", "dir"}
            /\ there /\ inside /\ kind = "file" => has = ok(name)
            /\ there /\ inside /\ kind = "dir" /\ indexes = {} =>
                 has = IF Search!Cfg.list THEN ok(name) ELSE Search!NoAnswer
            /\ there /\ inside /\ kind = "dir" =>
                 \A k \in indexes : (\A j \in indexes : k <= j) => has = ok(Candidate(k))
<1> DEFINE m == Search!Mount
           name == Search!Normal(Search!File)
           there == Search!Stat(files, Search!File) # "none"
           inside == Search!InRoot(m, name)
           kind == Search!Kind(files, name)
           indexes == {k \in 1 .. Len(Search!Cfg.index) : IsFile(k)}
           H == Search!Has(files, m, url)
<1>1. there => kind \in {"file", "dir"}
  BY KindType, StatIs
<1>2. Search!File = Search!Mounts[m].dir \o SubSeq(url, Len(Search!Mounts[m].prefix) + 1, Len(url))
      /\ Search!Cfg = Search!Mounts[m]
  BY DEF Search!File, Search!Cfg
<1>3. H = IF ~there THEN Search!NoAnswer
          ELSE IF ~inside THEN [status |-> 403, mount |-> m, file |-> <<>>]
          ELSE IF kind = "file" THEN [status |-> 200, mount |-> m, file |-> name]
          ELSE IF indexes # {} THEN [status |-> 200, mount |-> m, file |-> Candidate(Search!Min(indexes))]
          ELSE IF Search!Cfg.list THEN [status |-> 200, mount |-> m, file |-> name]
          ELSE Search!NoAnswer
  BY <1>2 DEF Search!Has, IsFile, Candidate
<1>4. ASSUME NEW k \in indexes, \A j \in indexes : k <= j
      PROVE  Search!Min(indexes) = k
  <2>1. \A i \in indexes : i \in Int
    OBVIOUS
  <2> HIDE DEF indexes
  <2>2. \A x \in indexes : (\A y \in indexes : x <= y) => x = k
    BY <1>4, <2>1
  <2> QED BY <1>4, <2>2 DEF Search!Min
<1> HIDE DEF H, kind, indexes, name, there, inside
<1>5. /\ ~there => H = Search!NoAnswer
      /\ there /\ ~inside => H = [status |-> 403, mount |-> m, file |-> <<>>]
      /\ there => kind \in {"file", "dir"}
      /\ there /\ inside /\ kind = "file" => H = [status |-> 200, mount |-> m, file |-> name]
      /\ there /\ inside /\ kind = "dir" /\ indexes = {} =>
           H = IF Search!Cfg.list THEN [status |-> 200, mount |-> m, file |-> name] ELSE Search!NoAnswer
      /\ there /\ inside /\ kind = "dir" =>
           \A k \in indexes : (\A j \in indexes : k <= j) => H = [status |-> 200, mount |-> m, file |-> Candidate(k)]
  BY <1>1, <1>3, <1>4
<1> QED BY <1>5 DEF H, kind, indexes, name, there, inside

(* What is noticed while nobody touches the files, in a step of the search. *)
LEMMA Noticed ==
  ASSUME Search!SearchInv, UNCHANGED <<site, files, url, edits>>, pc # "idle", pc' # "idle", Search!Watch
  PROVE  lacked' = lacked
<1>1. Search!Losing = {}
  BY DEF Search!Losing
<1>2. Search!Lacking(files', url') = Search!Lacking(files, url)
  BY DEF Search!Lacking, Search!Matching, Search!Has, Search!InRoot, Search!Mounts, Search!All
<1>3. Search!Lacking(files, url) \subseteq lacked
  BY DEF Search!SearchInv, Search!InTurn
<1> QED BY <1>1, <1>2, <1>3 DEF Search!Watch

(* The same mount is looked at. *)
LEMMA SameMount ==
  ASSUME UNCHANGED <<site, asked>>
  PROVE  /\ Search!Mount' = Search!Mount /\ Search!Cfg' = Search!Cfg /\ Search!Left' = Search!Left
         /\ Search!All' = Search!All /\ Search!Mounts' = Search!Mounts
         /\ url' = url => Search!File' = Search!File /\ Search!Matching(url)' = Search!Matching(url)
         /\ \A m, n : Search!Ahead(m, n)' = Search!Ahead(m, n)
         /\ \A m, f : Search!InRoot(m, f)' = Search!InRoot(m, f)
<1>1. Search!Mounts' = Search!Mounts /\ Search!All' = Search!All /\ Search!Left' = Search!Left
  BY DEF Search!Mounts, Search!All, Search!Left
<1>2. \A m, n : Search!Ahead(m, n)' = Search!Ahead(m, n)
  BY <1>1 DEF Search!Ahead
<1>3. Search!Mount' = Search!Mount
  BY <1>1 DEF Search!Mount, Search!Ahead
<1>4. Search!Cfg' = Search!Cfg
  BY <1>1, <1>3 DEF Search!Cfg
<1>5. url' = url => Search!File' = Search!File /\ Search!Matching(url)' = Search!Matching(url)
  BY <1>1, <1>4 DEF Search!File, Search!Matching
<1>6. \A m, f : Search!InRoot(m, f)' = Search!InRoot(m, f)
  BY <1>1 DEF Search!InRoot
<1> QED BY <1>1, <1>2, <1>3, <1>4, <1>5, <1>6

(* What files have, when nobody touched them. *)
LEMMA SameFiles ==
  ASSUME UNCHANGED <<site, asked, files, url>>
  PROVE  /\ Search!Has(files, Search!Mount, url)' = Search!Has(files, Search!Mount, url)
         /\ Search!Stat(files, Search!File)' = Search!Stat(files, Search!File)
         /\ Search!Normal(Search!File)' = Search!Normal(Search!File)
         /\ Search!InRoot(Search!Mount, Search!Normal(Search!File))' = Search!InRoot(Search!Mount, Search!Normal(Search!File))
         /\ Search!Lacking(files, url)' = Search!Lacking(files, url)
<1>1. /\ Search!Mounts' = Search!Mounts /\ Search!All' = Search!All /\ Search!Mount' = Search!Mount
      /\ Search!File' = Search!File
  BY SameMount
<1>2. Search!Normal(Search!File)' = Search!Normal(Search!File) /\ Search!Stat(files, Search!File)' = Search!Stat(files, Search!File)
  BY <1>1
<1>3. \A m : Search!Has(files, m, url)' = Search!Has(files, m, url)
  BY <1>1 DEF Search!Has, Search!InRoot
<1>4. Search!Has(files, Search!Mount, url)' = Search!Has(files, Search!Mount, url)
  BY <1>1 DEF Search!Has, Search!InRoot
<1>5. Search!Lacking(files, url)' = Search!Lacking(files, url)
  BY <1>1, <1>3 DEF Search!Lacking, Search!Matching
<1>6. Search!InRoot(Search!Mount, Search!Normal(Search!File))' = Search!InRoot(Search!Mount, Search!Normal(Search!File))
  BY <1>1, <1>2 DEF Search!InRoot
<1> QED BY <1>2, <1>4, <1>5, <1>6

-----------------------------------------------------------------------------
(* A step that goes on with the same mount keeps the turn. *)
SearchSteps == {"mount", "resolve", "isdir", "isfile", "index", "isindex", "read", "send"}

LEMMA StayKeeps ==
  ASSUME Search!SearchInv, UNCHANGED <<site, files, url, edits, lacked, asked>>, pc # "idle",
         pc' \in SearchSteps, next' \in Nat \ {0}, written' \in BOOLEAN, reply'.mount \in {0} \cup Search!All
  PROVE  Search!TypeOK' /\ Search!InTurn'
<1>1. /\ Search!All' = Search!All /\ Search!Mounts' = Search!Mounts /\ Search!Left' = Search!Left
      /\ Search!Matching(url)' = Search!Matching(url) /\ \A m, n : Search!Ahead(m, n)' = Search!Ahead(m, n)
  BY SameMount
<1>2. Search!Lacking(files, url)' = Search!Lacking(files, url)
  BY SameFiles
<1>3. Search!TypeOK'
  BY <1>1 DEF Search!SearchInv, Search!TypeOK, Search!IsTree, SearchSteps
<1>4. Search!InTurn'
  BY <1>1, <1>2 DEF Search!SearchInv, Search!InTurn, SearchSteps
<1> QED BY <1>3, <1>4

(* What must be shown of a step that looks on in the same mount. *)
LEMMA LookKeeps ==
  ASSUME Search!SearchInv, UNCHANGED <<site, files, url, edits, lacked, asked>>, pc # "idle",
         Search!Left # {}, Search!Mount \in Search!Matching(url),
         pc' \in Search!Looking, next' \in Nat \ {0}, written' \in BOOLEAN, reply' = reply,
         Search!NameIsRight', Search!FileIsAhead', Search!FileStays', Search!CandidateIsListed'
  PROVE  Search!SearchInv'
<1>1. reply'.mount \in {0} \cup Search!All /\ pc' \in SearchSteps /\ pc' # "send"
  BY DEF Search!SearchInv, Search!TypeOK, Search!Looking, SearchSteps
<1>2. Search!TypeOK' /\ Search!InTurn'
  BY <1>1, StayKeeps
<1>3. Search!Left' # {} /\ (Search!Mount \in Search!Matching(url))'
  BY SameMount
<1> QED BY <1>1, <1>2, <1>3 DEF Search!SearchInv, Search!AnswerIsOfMount

(* And of one that answers from it. *)
LEMMA AnswerKeeps ==
  ASSUME Search!SearchInv, UNCHANGED <<site, files, url, edits, lacked, asked>>, pc # "idle",
         Search!Left # {}, Search!Mount \in Search!Matching(url),
         pc' = "send", next' \in Nat \ {0}, written' \in BOOLEAN,
         NEW status \in {200, 403}, NEW f, reply' = [status |-> status, mount |-> Search!Mount, file |-> f],
         status = 403 => ~Search!InRoot(Search!Mount, Search!Normal(Search!File)),
         status # 403 => Search!InRoot(Search!Mount, f) \/ (Search!Mount \in lacked /\ edits # 0),
         edits = 0 => reply' = Search!Has(files, Search!Mount, url)
  PROVE  Search!SearchInv'
<1> DEFINE m == Search!Mount
<1>1. m \in Search!All /\ m # 0
  BY DEF Search!Matching, Search!All
<1>2. reply'.mount = m /\ reply'.status = status /\ reply'.file = f /\ reply' # Search!NoAnswer
  BY <1>1 DEF Search!NoAnswer
<1>3. Search!TypeOK' /\ Search!InTurn'
  BY <1>1, <1>2, StayKeeps DEF SearchSteps
<1>4. /\ Search!Left' # {} /\ Search!Mount' = m /\ (Search!Mount \in Search!Matching(url))'
      /\ \A g : Search!InRoot(m, g)' = Search!InRoot(m, g)
  BY SameMount
<1>5. /\ Search!Has(files, Search!Mount, url)' = Search!Has(files, m, url)
      /\ Search!InRoot(Search!Mount, Search!Normal(Search!File))' = Search!InRoot(m, Search!Normal(Search!File))
  BY SameFiles
<1>6. Search!InRoot(reply.mount, reply.file)' = Search!InRoot(m, f)
  BY <1>2, <1>4 DEF Search!InRoot
<1>7. (Search!Mount \in lacked)' = (m \in lacked) /\ edits' = edits
  BY <1>4
<1> HIDE DEF m
<1>8. Search!AnswerIsOfMount'
  <2> SUFFICES
        /\ reply'.mount # 0 /\ Search!Left' # {} /\ reply'.mount = Search!Mount'
        /\ (Search!Mount \in Search!Matching(url))'
        /\ reply'.status = 403 => ~Search!InRoot(Search!Mount, Search!Normal(Search!File))'
        /\ reply'.status # 403 => Search!InRoot(reply.mount, reply.file)' \/ ((Search!Mount \in lacked)' /\ edits' # 0)
        /\ edits' = 0 => reply' = Search!Has(files, Search!Mount, url)' /\ reply' # Search!NoAnswer
    BY DEF Search!AnswerIsOfMount
  <2>1. reply'.mount # 0 /\ reply'.mount = Search!Mount'
    BY <1>1, <1>2, <1>4
  <2>2. reply'.status = 403 => ~Search!InRoot(Search!Mount, Search!Normal(Search!File))'
    BY <1>2, <1>5 DEF m
  <2>3. reply'.status # 403 => Search!InRoot(reply.mount, reply.file)' \/ ((Search!Mount \in lacked)' /\ edits' # 0)
    BY <1>2, <1>6, <1>7 DEF m
  <2>4. edits' = 0 => reply' = Search!Has(files, Search!Mount, url)' /\ reply' # Search!NoAnswer
    BY <1>2, <1>5 DEF m
  <2> QED BY <1>4, <2>1, <2>2, <2>3, <2>4
<1> QED BY <1>3, <1>8
        DEF Search!SearchInv, Search!NameIsRight, Search!FileIsAhead, Search!FileStays, Search!CandidateIsListed,
            Search!Looking

(* A mount that is done with lacked something, or has not the path. *)
LEMMA SkipKeeps ==
  ASSUME SitesAssumption, Search!SearchInv, Search!Left # {}, Search!Skip, pc # "idle",
         UNCHANGED <<site, files, url, edits, lacked, reply>>, next' \in Nat \ {0}, written' \in BOOLEAN,
         Search!Mount \in Search!Matching(url) => Search!Mount \in lacked
  PROVE  Search!SearchInv'
<1> DEFINE m == Search!Mount
<1>1. asked' = asked \cup {m} /\ pc' = "mount"
  BY DEF Search!Skip
<1>2. Search!TypeOK /\ Search!InTurn
  BY DEF Search!SearchInv
<1>3. m \in Search!Left /\ m \in Search!All /\ \A n \in Search!Left \ {m} : Search!Ahead(m, n)
  BY <1>2, MountIs DEF Search!Left
<1>4. Search!Mounts' = Search!Mounts /\ Search!All' = Search!All
  BY DEF Search!Mounts, Search!All
<1>5. Search!Left' = Search!Left \ {m}
  BY <1>1, <1>4 DEF Search!Left
<1>6. \A i, j : Search!Ahead(i, j)' = Search!Ahead(i, j)
  BY <1>4 DEF Search!Ahead
<1>7. Search!Matching(url)' = Search!Matching(url)
  BY <1>4 DEF Search!Matching
<1>8. Search!Lacking(files, url)' = Search!Lacking(files, url)
  BY <1>4, <1>7 DEF Search!Lacking, Search!Has, Search!InRoot
<1> HIDE DEF m
<1>9. Search!TypeOK'
  BY <1>1, <1>2, <1>3, <1>4 DEF Search!TypeOK, Search!IsTree
<1>10. \A i \in asked', n \in Search!Left' : Search!Ahead(i, n)'
  <2>1. \A i \in asked, n \in Search!Left : Search!Ahead(i, n)
    BY <1>2 DEF Search!InTurn
  <2> QED BY <1>1, <1>3, <1>5, <1>6, <2>1
<1>11. asked' \cap Search!Matching(url)' \subseteq lacked'
  BY <1>1, <1>2, <1>7 DEF Search!InTurn, m
<1>12. Search!InTurn'
  BY <1>1, <1>2, <1>8, <1>10, <1>11 DEF Search!InTurn
<1> QED BY <1>1, <1>9, <1>12
        DEF Search!SearchInv, Search!NameIsRight, Search!FileIsAhead, Search!FileStays, Search!CandidateIsListed,
            Search!AnswerIsOfMount, Search!Looking

LEMMA TryMountKeeps ==
  ASSUME SitesAssumption, Search!SearchInv, Search!TryMount, Search!Watch
  PROVE  Search!SearchInv'
<1>1. pc = "mount" /\ UNCHANGED <<site, files, url, target, written, next, edits>> /\ Search!TypeOK
  BY DEF Search!TryMount, Search!SearchInv
<1>2. pc' \in {"send", "resolve", "mount"}
  BY DEF Search!TryMount, Search!Answer, Search!Skip
<1>3. lacked' = lacked
  BY <1>1, <1>2, Noticed
<1>4. next' \in Nat \ {0} /\ written' \in BOOLEAN /\ reply.mount \in {0} \cup Search!All /\ pc' \in SearchSteps
  BY <1>1, <1>2 DEF Search!TypeOK, SearchSteps
<1>5. CASE Search!Left = {}
  <2>1. reply' = Search!Routed /\ pc' = "send" /\ asked' = asked
    BY <1>5 DEF Search!TryMount, Search!Answer
  <2>2. Search!TypeOK' /\ Search!InTurn'
    BY <1>1, <1>3, <1>4, <2>1, StayKeeps DEF Search!Routed
  <2>3. Search!AnswerIsOfMount'
    BY <1>1, <1>5, <2>1, SameMount DEF Search!AnswerIsOfMount, Search!Routed
  <2> QED BY <2>1, <2>2, <2>3
          DEF Search!SearchInv, Search!NameIsRight, Search!FileIsAhead, Search!FileStays,
              Search!CandidateIsListed, Search!Looking
<1>6. CASE Search!Left # {} /\ Search!IsPrefix(Search!Cfg.prefix, url)
  <2>1. reply' = reply /\ pc' = "resolve" /\ asked' = asked
    BY <1>6 DEF Search!TryMount, Search!PrefixMatch
  <2>2. Search!TypeOK' /\ Search!InTurn'
    BY <1>1, <1>3, <1>4, <2>1, StayKeeps
  <2>3. Search!Mount \in Search!Matching(url)
    BY <1>1, <1>6, MountIs DEF Search!Matching, Search!Cfg, Search!Left
  <2>4. Search!Left' # {} /\ (Search!Mount \in Search!Matching(url))'
    BY <1>1, <1>6, <2>1, <2>3, SameMount
  <2> QED BY <2>1, <2>2, <2>4
          DEF Search!SearchInv, Search!NameIsRight, Search!FileIsAhead, Search!FileStays,
              Search!CandidateIsListed, Search!AnswerIsOfMount, Search!Looking
<1>7. CASE Search!Left # {} /\ ~Search!IsPrefix(Search!Cfg.prefix, url)
  <2>1. reply' = reply /\ Search!Skip
    BY <1>7 DEF Search!TryMount, Search!PrefixMatch
  <2>2. Search!Mount \notin Search!Matching(url)
    BY <1>7 DEF Search!Matching, Search!Cfg
  <2> QED BY <1>1, <1>3, <1>4, <1>7, <2>1, <2>2, SkipKeeps
<1> QED BY <1>5, <1>6, <1>7

(* What is known of the mount when its handler takes a step. *)
LEMMA AtMount ==
  ASSUME SitesAssumption, Search!SearchInv, pc \in {"resolve"} \cup Search!Looking
  PROVE  /\ Search!TypeOK /\ Search!InTurn /\ Search!Left # {}
         /\ Search!Mount \in Search!Matching(url) /\ Search!Mount \in Search!All
         /\ Search!Has(files, Search!Mount, url) = Search!NoAnswer => Search!Mount \in lacked
         /\ next \in Nat \ {0} /\ written \in BOOLEAN
         /\ Search!Cfg.index \in Seq(DOMAIN Chars) /\ Search!Cfg.dir \in Seq(DOMAIN Chars)
         /\ Search!Cfg = Search!Mounts[Search!Mount]
<1>1. Search!TypeOK /\ Search!InTurn /\ Search!Left # {} /\ Search!Mount \in Search!Matching(url)
  BY DEF Search!SearchInv
<1>2. Search!Mount \in Search!All /\ next \in Nat \ {0} /\ written \in BOOLEAN
  BY <1>1 DEF Search!Matching, Search!TypeOK
<1>3. Search!Has(files, Search!Mount, url) = Search!NoAnswer => Search!Mount \in lacked
  BY <1>1 DEF Search!InTurn, Search!Lacking, Search!Looking
<1>4. /\ Search!Cfg = Search!Mounts[Search!Mount]
      /\ Search!Cfg.index \in Seq(DOMAIN Chars) /\ Search!Cfg.dir \in Seq(DOMAIN Chars)
  BY <1>1, <1>2, MountsType DEF Search!Cfg
<1> QED BY <1>1, <1>2, <1>3, <1>4

LEMMA ResolveKeeps ==
  ASSUME SitesAssumption, Search!SearchInv, Search!Resolve, Search!Watch
  PROVE  Search!SearchInv'
<1> DEFINE m == Search!Mount
           name == Search!Normal(Search!File)
           there == Search!Stat(files, Search!File) # "none"
<1>1. pc = "resolve" /\ UNCHANGED <<site, files, url, next, edits>>
  BY DEF Search!Resolve
<1>2. /\ Search!TypeOK /\ Search!Left # {} /\ m \in Search!Matching(url) /\ m \in Search!All
      /\ Search!Has(files, m, url) = Search!NoAnswer => m \in lacked
      /\ next' \in Nat \ {0}
  BY <1>1, AtMount
<1>3. pc' \in {"send", "isdir"} /\ asked' = asked
  BY DEF Search!Resolve, Search!Refuse, Search!Answer
<1>4. lacked' = lacked
  BY <1>1, <1>3, Noticed
<1>5. written' = ~there /\ target' = IF there THEN name ELSE Search!File
  BY DEF Search!Resolve
<1>6. CASE there /\ ~Search!InRoot(m, name)
  <2>1. ~Search!InRoot(m, target')
    BY <1>5, <1>6
  <2>2. reply' = [status |-> 403, mount |-> m, file |-> <<>>] /\ pc' = "send"
    BY <2>1 DEF Search!Resolve, Search!Refuse, Search!Answer
  <2>3. Search!Has(files, m, url) = [status |-> 403, mount |-> m, file |-> <<>>]
    BY <1>2, <1>6, HasIs
  <2>4. written' \in BOOLEAN
    BY <1>5
  <2>5. 403 \in {200, 403}
    OBVIOUS
  <2> HIDE DEF name, there
  <2> QED BY <1>1, <1>2, <1>3, <1>4, <1>6, <2>2, <2>3, <2>4, <2>5, AnswerKeeps DEF name
<1>7. CASE ~there \/ Search!InRoot(m, name)
  <2>1. Search!InRoot(m, Search!File)
    BY <1>2, FileInRoot
  <2>2. Search!InRoot(m, target')
    BY <1>5, <1>7, <2>1
  <2>3. pc' = "isdir" /\ reply' = reply
    BY <2>2 DEF Search!Resolve
  <2>4. written' => m \in lacked'
    BY <1>2, <1>4, <1>5, HasIs
  <2>5. there => name \in Search!Names
    BY <1>2, StatIs, KindType
  <2>6. Search!Mount' = m /\ \A f : Search!InRoot(m, f)' = Search!InRoot(m, f) /\ Search!File' = Search!File
    BY <1>1, <1>3, SameMount
  <2>7. /\ Search!Normal(Search!File)' = name
        /\ Search!Stat(files, Search!File)' = Search!Stat(files, Search!File)
        /\ Search!InRoot(Search!Mount, Search!Normal(Search!File))' = Search!InRoot(m, name)
    BY <1>1, <1>3, SameFiles
  <2>8. PICK f : f = target'
    OBVIOUS
  <2>9. Search!InRoot(Search!Mount, target)' = Search!InRoot(m, f)
    BY <2>6, <2>8 DEF Search!InRoot
  <2>10. Search!NameIsRight'
    <3> HIDE DEF m, name, there
    <3> QED BY <1>5, <1>7, <2>2, <2>3, <2>4, <2>5, <2>6, <2>7, <2>8, <2>9 DEF Search!NameIsRight, Search!Names
  <2>11. Search!FileIsAhead'
    BY <2>3 DEF Search!FileIsAhead
  <2>12. Search!FileStays'
    <3> HIDE DEF name
    <3> QED BY <1>5, <2>3, <2>6, <2>7 DEF Search!FileStays
  <2>13. Search!CandidateIsListed' /\ pc' \in Search!Looking /\ pc # "idle" /\ written' \in BOOLEAN
    BY <1>1, <1>5, <2>3 DEF Search!CandidateIsListed, Search!Looking
  <2> QED BY <1>1, <1>2, <1>3, <1>4, <2>3, <2>10, <2>11, <2>12, <2>13, LookKeeps
<1> QED BY <1>6, <1>7

LEMMA DirExistsKeeps ==
  ASSUME SitesAssumption, Search!SearchInv, Search!DirExists, Search!Watch
  PROVE  Search!SearchInv'
<1> DEFINE m == Search!Mount
           name == Search!Normal(Search!File)
           kind == Search!Kind(files, target)
<1>1. /\ pc = "isdir" /\ UNCHANGED <<site, files, url, asked, target, written, reply, edits>> /\ next' = 1
      /\ pc' = IF Search!Look(target) = "dir" THEN "index" ELSE "isfile"
  BY DEF Search!DirExists
<1>2. /\ Search!TypeOK /\ Search!Left # {} /\ m \in Search!Matching(url) /\ m \in Search!All
      /\ Search!Has(files, m, url) = Search!NoAnswer => m \in lacked
      /\ written \in BOOLEAN /\ Search!Cfg.index \in Seq(DOMAIN Chars)
  BY <1>1, AtMount DEF Search!Looking
<1>3. lacked' = lacked
  BY <1>1, Noticed
<1>4. /\ written => m \in lacked
      /\ ~written => target \in Search!Names /\ Search!InRoot(m, target) /\ target = name
  BY <1>1 DEF Search!SearchInv, Search!NameIsRight, Search!Looking
<1>5. edits = 0 =>
        /\ written => target = Search!File /\ Search!Stat(files, Search!File) = "none"
        /\ ~written => Search!Stat(files, Search!File) # "none"
  BY <1>1 DEF Search!SearchInv, Search!FileStays, Search!Looking
<1>6. Search!Look(target) = IF written THEN Search!Stat(files, target) ELSE kind
  BY DEF Search!Look
<1>7. /\ Search!Mount' = m /\ Search!Cfg' = Search!Cfg /\ Search!File' = Search!File
      /\ \A f : Search!InRoot(m, f)' = Search!InRoot(m, f)
  BY <1>1, SameMount
<1>8. /\ Search!Normal(Search!File)' = name
      /\ Search!Stat(files, Search!File)' = Search!Stat(files, Search!File)
      /\ Search!InRoot(Search!Mount, Search!Normal(Search!File))' = Search!InRoot(m, name)
  BY <1>1, SameFiles
<1>9. Search!InRoot(Search!Mount, target)' = Search!InRoot(m, target)
  BY <1>1, <1>7 DEF Search!InRoot
<1>10. Search!NameIsRight'
  <2> HIDE DEF m, name
  <2>1. ~written => Search!InRoot(m, name)
    BY <1>4
  <2> QED BY <1>1, <1>3, <1>4, <1>7, <1>8, <1>9, <2>1 DEF Search!NameIsRight, Search!Names
<1>11. Search!FileIsAhead'
  <2> SUFFICES ASSUME m \notin lacked PROVE Search!FileIsAhead'
    BY <1>3, <1>7 DEF Search!FileIsAhead
  <2>1. ~written /\ Search!Has(files, m, url) # Search!NoAnswer /\ target = name /\ Search!InRoot(m, name)
    BY <1>2, <1>4
  <2>2. Search!Stat(files, Search!File) # "none" /\ kind \in {"file", "dir"}
    BY <1>2, <2>1, HasIs
  <2>3. CASE kind = "file"
    <3>1. pc' = "isfile"
      BY <1>1, <1>6, <2>1, <2>3
    <3>2. Search!Kind(files, target)' = "file"
      BY <1>1, <2>3 DEF Search!Kind
    <3> QED BY <3>1, <3>2 DEF Search!FileIsAhead
  <2>4. CASE kind = "dir"
    <3>1. pc' = "index"
      BY <1>1, <1>6, <2>1, <2>4
    <3>2. Search!Cfg.list \/ \E k \in 1 .. Len(Search!Cfg.index) : IsFile(k)
      <4>1. ~({k \in 1 .. Len(Search!Cfg.index) : IsFile(k)} = {} /\ ~Search!Cfg.list)
        BY <1>2, <2>1, <2>2, <2>4, HasIs
      <4> QED BY <4>1
    <3>3. Search!Cfg.list' \/ Search!HasIndex(next)'
      BY <1>1, <1>7, <2>1, <3>2 DEF Search!HasIndex, IsFile, Candidate, Search!Kind
    <3> QED BY <1>7, <3>1, <3>3 DEF Search!FileIsAhead
  <2> QED BY <2>2, <2>3, <2>4
<1>12. Search!FileStays'
  <2> SUFFICES ASSUME edits = 0 PROVE Search!FileStays'
    BY <1>1 DEF Search!FileStays
  <2>1. CASE written
    <3>1. Search!Stat(files, target) = "none"
      BY <1>5, <2>1
    <3>2. pc' = "isfile"
      BY <1>1, <1>6, <2>1, <3>1
    <3> QED BY <1>1, <1>5, <1>7, <1>8, <2>1, <3>2 DEF Search!FileStays
  <2>2. CASE ~written
    <3>1. Search!Stat(files, Search!File) # "none" /\ kind \in {"file", "dir"}
      BY <1>2, <1>4, <1>5, <2>2, HasIs
    <3>2. pc' = IF kind = "dir" THEN "index" ELSE "isfile"
      BY <1>1, <1>6, <2>2
    <3>3. Search!Kind(files, target)' = kind
      BY <1>1 DEF Search!Kind
    <3>4. Search!NoFileBefore'
      BY <1>1 DEF Search!NoFileBefore
    <3> HIDE DEF kind
    <3> QED BY <1>1, <1>8, <2>2, <3>1, <3>2, <3>3, <3>4 DEF Search!FileStays
  <2> QED BY <1>2, <2>1, <2>2
<1>13. Search!CandidateIsListed' /\ pc' \in Search!Looking /\ pc # "idle" /\ next' \in Nat \ {0} /\ written' \in BOOLEAN
  BY <1>1, <1>2 DEF Search!CandidateIsListed, Search!Looking
<1> QED BY <1>1, <1>2, <1>3, <1>10, <1>11, <1>12, <1>13, LookKeeps

LEMMA FileExistsKeeps ==
  ASSUME SitesAssumption, Search!SearchInv, Search!FileExists, Search!Watch
  PROVE  Search!SearchInv'
<1> DEFINE m == Search!Mount
           name == Search!Normal(Search!File)
           kind == Search!Kind(files, target)
<1>1. pc = "isfile" /\ UNCHANGED <<site, files, url, target, written, next, edits>> /\ pc' \in {"mount", "read"}
  BY DEF Search!FileExists, Search!ErrorSkips, Search!Skip
<1>2. /\ Search!TypeOK /\ Search!Left # {} /\ m \in Search!Matching(url) /\ m \in Search!All
      /\ written \in BOOLEAN /\ next \in Nat \ {0}
  BY <1>1, AtMount DEF Search!Looking
<1>3. lacked' = lacked
  BY <1>1, Noticed
<1>4. /\ written => m \in lacked
      /\ ~written => target \in Search!Names /\ Search!InRoot(m, target) /\ target = name
  BY <1>1 DEF Search!SearchInv, Search!NameIsRight, Search!Looking
<1>5. edits = 0 =>
        /\ written => target = Search!File /\ Search!Stat(files, Search!File) = "none"
        /\ ~written => Search!Stat(files, Search!File) # "none" /\ kind = "file"
  BY <1>1 DEF Search!SearchInv, Search!FileStays, Search!Looking
<1>6. m \notin lacked => kind = "file"
  BY <1>1 DEF Search!SearchInv, Search!FileIsAhead, Search!Looking
<1>7. Search!Look(target) = IF written THEN Search!Stat(files, target) ELSE kind
  BY DEF Search!Look
<1>8. CASE Search!Look(target) = "none"
  <2>1. reply' = reply /\ Search!Skip
    BY <1>8 DEF Search!FileExists, Search!ErrorSkips
  <2>2. m \in lacked
    BY <1>4, <1>6, <1>7, <1>8
  <2> QED BY <1>1, <1>2, <1>3, <2>1, <2>2, SkipKeeps
<1>9. CASE Search!Look(target) # "none"
  <2>1. pc' = "read" /\ reply' = reply /\ asked' = asked
    BY <1>9 DEF Search!FileExists
  <2>2. /\ Search!Mount' = m /\ Search!File' = Search!File /\ \A f : Search!InRoot(m, f)' = Search!InRoot(m, f)
    BY <1>1, <2>1, SameMount
  <2>3. /\ Search!Stat(files, Search!File)' = Search!Stat(files, Search!File)
        /\ Search!Has(files, Search!Mount, url)' = Search!Has(files, m, url)
    BY <1>1, <2>1, SameFiles
  <2>4. Search!InRoot(Search!Mount, target)' = Search!InRoot(m, target) /\ Search!Kind(files, target)' = kind
    BY <1>1, <2>2 DEF Search!InRoot, Search!Kind
  <2>5. Search!NameIsRight'
    <3> HIDE DEF m, name
    <3> QED BY <1>1, <1>3, <1>4, <2>1, <2>2, <2>4 DEF Search!NameIsRight, Search!Names
  <2>6. Search!FileIsAhead'
    BY <1>3, <1>6, <2>1, <2>2, <2>4 DEF Search!FileIsAhead
  <2>7. Search!FileStays'
    <3> SUFFICES ASSUME edits = 0 PROVE Search!FileStays'
      BY <1>1 DEF Search!FileStays
    <3>1. ~written
      BY <1>5, <1>7, <1>9
    <3>2. Search!Has(files, m, url) = [status |-> 200, mount |-> m, file |-> target]
      BY <1>2, <1>4, <1>5, <3>1, HasIs
    <3> HIDE DEF m
    <3> QED BY <1>1, <1>5, <2>1, <2>2, <2>3, <3>1, <3>2 DEF Search!FileStays
  <2>8. Search!CandidateIsListed' /\ pc' \in Search!Looking
    BY <2>1 DEF Search!CandidateIsListed, Search!Looking
  <2> QED BY <1>1, <1>2, <1>3, <2>1, <2>5, <2>6, <2>7, <2>8, LookKeeps
<1> QED BY <1>8, <1>9

LEMMA IndexKeeps ==
  ASSUME SitesAssumption, Search!SearchInv, Search!Index, Search!Watch
  PROVE  Search!SearchInv'
<1> DEFINE m == Search!Mount
           n == Len(Search!Cfg.index)
           name == Search!Normal(Search!File)
           At(k) == Append(target, Search!Cfg.index[k])
<1>1. pc = "index" /\ UNCHANGED <<site, files, url, target, written, edits>> /\ pc' \in {"send", "index", "isindex", "mount"}
  BY DEF Search!Index, Search!ErrorSkips, Search!Skip, Search!Answer
<1>2. /\ Search!TypeOK /\ Search!Left # {} /\ m \in Search!Matching(url) /\ m \in Search!All
      /\ written \in BOOLEAN /\ next \in Nat \ {0} /\ n \in Nat
  BY <1>1, AtMount DEF Search!Looking
<1>3. lacked' = lacked
  BY <1>1, Noticed
<1>4. /\ written => m \in lacked
      /\ ~written => target \in Search!Names /\ Search!InRoot(m, target) /\ target = name
  BY <1>1 DEF Search!SearchInv, Search!NameIsRight, Search!Looking
<1>5. edits = 0 =>
        /\ ~written /\ Search!Stat(files, Search!File) # "none" /\ Search!Kind(files, target) = "dir"
        /\ \A k \in 1 .. next - 1 : k <= n /\ Search!Kind(files, At(k)) # "file"
  BY <1>1 DEF Search!SearchInv, Search!FileStays, Search!NoFileBefore, Search!Looking
<1>6. m \notin lacked => Search!Cfg.list \/ \E k \in next .. n : Search!Kind(files, At(k)) = "file"
  BY <1>1 DEF Search!SearchInv, Search!FileIsAhead, Search!HasIndex, Search!Looking
<1>7. Search!Look(Search!Candidate) = IF written THEN Search!Stat(files, At(next)) ELSE Search!Kind(files, At(next))
  BY DEF Search!Look, Search!Candidate
<1>8. asked' = asked =>
        /\ Search!Mount' = m /\ Search!File' = Search!File /\ Search!Cfg' = Search!Cfg
        /\ Search!InRoot(Search!Mount, target)' = Search!InRoot(m, target)
        /\ Search!Kind(files, target)' = Search!Kind(files, target)
        /\ \A k : Search!Kind(files, Append(target, Search!Cfg.index[k]))' = Search!Kind(files, At(k))
        /\ Search!Normal(Search!File)' = name
        /\ Search!Stat(files, Search!File)' = Search!Stat(files, Search!File)
        /\ Search!InRoot(Search!Mount, Search!Normal(Search!File))' = Search!InRoot(m, name)
  <2> SUFFICES ASSUME asked' = asked
               PROVE  /\ Search!Mount' = m /\ Search!File' = Search!File /\ Search!Cfg' = Search!Cfg
                      /\ Search!InRoot(Search!Mount, target)' = Search!InRoot(m, target)
                      /\ Search!Kind(files, target)' = Search!Kind(files, target)
                      /\ \A k : Search!Kind(files, Append(target, Search!Cfg.index[k]))' = Search!Kind(files, At(k))
                      /\ Search!Normal(Search!File)' = name
                      /\ Search!Stat(files, Search!File)' = Search!Stat(files, Search!File)
                      /\ Search!InRoot(Search!Mount, Search!Normal(Search!File))' = Search!InRoot(m, name)
    OBVIOUS
  <2>1. /\ Search!Mount' = m /\ Search!File' = Search!File /\ Search!Cfg' = Search!Cfg
        /\ \A f : Search!InRoot(m, f)' = Search!InRoot(m, f)
    BY <1>1, SameMount
  <2>2. /\ Search!Normal(Search!File)' = name
        /\ Search!Stat(files, Search!File)' = Search!Stat(files, Search!File)
        /\ Search!InRoot(Search!Mount, Search!Normal(Search!File))' = Search!InRoot(m, name)
    BY <1>1, SameFiles
  <2>3. Search!InRoot(Search!Mount, target)' = Search!InRoot(m, target)
    BY <1>1, <2>1 DEF Search!InRoot
  <2>4. /\ Search!Kind(files, target)' = Search!Kind(files, target)
        /\ \A k : Search!Kind(files, Append(target, Search!Cfg.index[k]))' = Search!Kind(files, At(k))
    BY <1>1, <2>1 DEF Search!Kind
  <2> QED BY <2>1, <2>2, <2>3, <2>4
<1>9. CASE next <= n
  <2>1. reply' = reply /\ asked' = asked
    BY <1>2, <1>9 DEF Search!Index
  <2>2. /\ pc' = IF Search!Look(Search!Candidate) # "none" THEN "isindex" ELSE "index"
        /\ next' = IF Search!Look(Search!Candidate) # "none" THEN next ELSE next + 1
    BY <1>1, <1>2, <1>9 DEF Search!Index
  <2>3. Search!NameIsRight'
    <3> HIDE DEF m, name
    <3> QED BY <1>1, <1>3, <1>4, <1>8, <2>1, <2>2 DEF Search!NameIsRight, Search!Names
  <2>4. Search!FileIsAhead'
    <3> SUFFICES ASSUME m \notin lacked PROVE Search!FileIsAhead'
      BY <1>3, <1>8, <2>1 DEF Search!FileIsAhead
    <3>1. CASE Search!Look(Search!Candidate) # "none"
      <4>1. Search!Kind(files, At(next)) # "none" /\ pc' = "isindex" /\ next' = next
        BY <1>4, <1>7, <2>2, <3>1
      <4>2. Search!Kind(files, Search!Candidate)' # "none"
        BY <1>1, <1>8, <2>1, <4>1 DEF Search!Candidate, Search!Kind
      <4>3. Search!Cfg.list' \/ Search!HasIndex(next)'
        <5> HIDE DEF At
        <5> QED BY <1>6, <1>8, <2>1, <4>1 DEF Search!HasIndex
      <4> QED BY <4>1, <4>2, <4>3 DEF Search!FileIsAhead
    <3>2. CASE Search!Look(Search!Candidate) = "none"
      <4>1. Search!Kind(files, At(next)) = "none" /\ pc' = "index" /\ next' = next + 1
        BY <1>4, <1>7, <2>2, <3>2
      <4>2. \A k \in next .. n : k = next \/ k \in next + 1 .. n
        BY <1>2
      <4> HIDE DEF At
      <4>3. Search!Cfg.list \/ \E k \in next + 1 .. n : Search!Kind(files, At(k)) = "file"
        BY <1>6, <4>1, <4>2
      <4>4. Search!Cfg.list' \/ Search!HasIndex(next)'
        BY <1>8, <2>1, <4>1, <4>3 DEF Search!HasIndex
      <4> QED BY <4>1, <4>4 DEF Search!FileIsAhead
    <3> QED BY <3>1, <3>2
  <2>5. Search!FileStays'
    <3> SUFFICES ASSUME edits = 0 PROVE Search!FileStays'
      BY <1>1 DEF Search!FileStays
    <3>1. ~written /\ Search!Stat(files, Search!File) # "none" /\ Search!Kind(files, target) = "dir"
      BY <1>5
    <3>2. CASE Search!Look(Search!Candidate) # "none"
      <4>1. Search!Kind(files, At(next)) # "none" /\ pc' = "isindex" /\ next' = next
        BY <1>7, <2>2, <3>1, <3>2
      <4>2. Search!Kind(files, Search!Candidate)' # "none"
        BY <1>1, <1>8, <2>1, <4>1 DEF Search!Candidate, Search!Kind
      <4> HIDE DEF At
      <4>3. Search!NoFileBefore'
        BY <1>5, <1>8, <2>1, <4>1 DEF Search!NoFileBefore
      <4> QED BY <1>1, <1>8, <2>1, <3>1, <4>1, <4>2, <4>3 DEF Search!FileStays
    <3>3. CASE Search!Look(Search!Candidate) = "none"
      <4>1. Search!Kind(files, At(next)) = "none" /\ pc' = "index" /\ next' = next + 1
        BY <1>7, <2>2, <3>1, <3>3
      <4> HIDE DEF At
      <4>2. \A k \in 1 .. next' - 1 : k = next \/ k \in 1 .. next - 1
        BY <1>2, <4>1
      <4>3. \A k \in 1 .. next' - 1 : k <= n /\ Search!Kind(files, At(k)) # "file"
        BY <1>5, <1>9, <4>1, <4>2
      <4>4. Search!NoFileBefore'
        BY <1>8, <2>1, <4>1, <4>3 DEF Search!NoFileBefore
      <4>5. /\ ~written' /\ pc' = "index" /\ Search!Stat(files, Search!File)' # "none"
            /\ Search!Kind(files, target)' = "dir"
        BY <1>1, <1>8, <2>1, <3>1, <4>1
      <4> QED BY <4>4, <4>5 DEF Search!FileStays
    <3> QED BY <3>2, <3>3
  <2>6. Search!CandidateIsListed' /\ pc' \in Search!Looking /\ next' \in Nat \ {0}
    BY <1>2, <1>8, <1>9, <2>1, <2>2 DEF Search!CandidateIsListed, Search!Looking
  <2> QED BY <1>1, <1>2, <1>3, <2>1, <2>3, <2>4, <2>5, <2>6, LookKeeps
<1>10. CASE ~(next <= n) /\ Search!Cfg.list
  <2>1. reply' = Search!Found(200) /\ pc' = "send" /\ asked' = asked /\ next' = next
    BY <1>2, <1>10 DEF Search!Index, Search!Answer
  <2>2. PICK f : f = IF written THEN Search!Normal(target) ELSE target
    OBVIOUS
  <2>3. reply' = [status |-> 200, mount |-> m, file |-> f]
    BY <2>1, <2>2 DEF Search!Found
  <2>4. Search!InRoot(m, f) \/ (m \in lacked /\ edits # 0)
    BY <1>4, <1>5, <2>2
  <2>5. edits = 0 => reply' = Search!Has(files, m, url)
    <3> SUFFICES ASSUME edits = 0 PROVE Search!Has(files, m, url) = [status |-> 200, mount |-> m, file |-> name]
      BY <1>4, <1>5, <2>2, <2>3
    <3>1. /\ ~written /\ Search!Stat(files, Search!File) # "none" /\ Search!Kind(files, name) = "dir"
          /\ Search!InRoot(m, name)
      BY <1>4, <1>5
    <3>2. \A k : IsFile(k) <=> Search!Kind(files, At(k)) = "file"
      BY <1>4, <3>1 DEF IsFile, Candidate
    <3>3. {k \in 1 .. n : IsFile(k)} = {}
      <4>1. \A k \in 1 .. n : k \in 1 .. next - 1
        BY <1>2, <1>10
      <4> QED BY <1>5, <3>2, <4>1
    <3> QED BY <1>2, <1>10, <3>1, <3>3, HasIs
  <2>6. 200 \in {200, 403} /\ 200 # 403 /\ next' \in Nat \ {0} /\ pc # "idle"
    BY <1>1, <1>2, <2>1
  <2> HIDE DEF name, At
  <2> QED BY <1>1, <1>2, <1>3, <2>1, <2>3, <2>4, <2>5, <2>6, AnswerKeeps
<1>11. CASE ~(next <= n) /\ ~Search!Cfg.list
  <2>1. reply' = reply /\ Search!Skip /\ next' = next
    BY <1>2, <1>11 DEF Search!Index, Search!ErrorSkips
  <2>2. m \in lacked
    <3>1. next .. n = {}
      BY <1>2, <1>11
    <3> QED BY <1>6, <1>11, <3>1
  <2> QED BY <1>1, <1>2, <1>3, <2>1, <2>2, SkipKeeps
<1> QED BY <1>9, <1>10, <1>11

LEMMA IsNoDirKeeps ==
  ASSUME SitesAssumption, Search!SearchInv, Search!IsNoDir, Search!Watch
  PROVE  Search!SearchInv'
<1> DEFINE m == Search!Mount
           n == Len(Search!Cfg.index)
           name == Search!Normal(Search!File)
           At(k) == Append(target, Search!Cfg.index[k])
           e == Search!Candidate
<1>1. pc = "isindex" /\ UNCHANGED <<site, files, url, asked, written, reply, edits>> /\ pc' \in {"index", "read"}
  BY DEF Search!IsNoDir
<1>2. /\ Search!TypeOK /\ Search!Left # {} /\ m \in Search!Matching(url) /\ m \in Search!All
      /\ written \in BOOLEAN /\ next \in Nat \ {0} /\ n \in Nat
      /\ Search!Cfg.index \in Seq(DOMAIN Chars) /\ Search!Cfg.dir \in Seq(DOMAIN Chars)
      /\ Search!Cfg = Search!Mounts[m]
  BY <1>1, AtMount DEF Search!Looking
<1>3. lacked' = lacked /\ next <= n /\ e = At(next)
  BY <1>1, Noticed DEF Search!SearchInv, Search!CandidateIsListed, Search!Candidate
<1>4. /\ written => m \in lacked
      /\ ~written => target \in Search!Names /\ Search!InRoot(m, target) /\ target = name
  BY <1>1 DEF Search!SearchInv, Search!NameIsRight, Search!Looking
<1>5. edits = 0 =>
        /\ ~written /\ Search!Stat(files, Search!File) # "none" /\ Search!Kind(files, target) = "dir"
        /\ \A k \in 1 .. next - 1 : k <= n /\ Search!Kind(files, At(k)) # "file"
        /\ Search!Kind(files, e) # "none"
  BY <1>1 DEF Search!SearchInv, Search!FileStays, Search!NoFileBefore, Search!Looking
<1>6. m \notin lacked =>
        /\ Search!Cfg.list \/ \E k \in next .. n : Search!Kind(files, At(k)) = "file"
        /\ Search!Kind(files, e) # "none"
  BY <1>1 DEF Search!SearchInv, Search!FileIsAhead, Search!HasIndex, Search!Looking
<1>7. Search!Look(e) = (IF written THEN Search!Stat(files, e) ELSE Search!Kind(files, e))
      /\ Search!Kind(files, e) \in {"none", "file", "dir"}
  BY <1>2, KindType DEF Search!Look
<1>8. /\ Search!Mount' = m /\ Search!File' = Search!File /\ Search!Cfg' = Search!Cfg
      /\ \A f : Search!InRoot(m, f)' = Search!InRoot(m, f)
  BY <1>1, SameMount
<1>9. /\ Search!Normal(Search!File)' = name
      /\ Search!Stat(files, Search!File)' = Search!Stat(files, Search!File)
      /\ Search!InRoot(Search!Mount, Search!Normal(Search!File))' = Search!InRoot(m, name)
      /\ Search!Has(files, Search!Mount, url)' = Search!Has(files, m, url)
  BY <1>1, SameFiles
<1>10. CASE Search!Look(e) = "dir"
  <2>1. next' = next + 1 /\ pc' = "index" /\ target' = target
    BY <1>10 DEF Search!IsNoDir
  <2>2. /\ Search!InRoot(Search!Mount, target)' = Search!InRoot(m, target)
        /\ Search!Kind(files, target)' = Search!Kind(files, target)
        /\ \A k : Search!Kind(files, Append(target, Search!Cfg.index[k]))' = Search!Kind(files, At(k))
    BY <1>1, <1>8, <2>1 DEF Search!InRoot, Search!Kind
  <2>3. Search!NameIsRight'
    <3> HIDE DEF m, name
    <3> QED BY <1>1, <1>3, <1>4, <1>8, <1>9, <2>1, <2>2 DEF Search!NameIsRight, Search!Names
  <2> HIDE DEF At
  <2>4. Search!FileIsAhead'
    <3> SUFFICES ASSUME m \notin lacked PROVE Search!FileIsAhead'
      BY <1>3, <1>8 DEF Search!FileIsAhead
    <3>1. Search!Kind(files, At(next)) = "dir"
      BY <1>3, <1>4, <1>7, <1>10
    <3>2. \A k \in next .. n : k = next \/ k \in next + 1 .. n
      BY <1>2
    <3>3. Search!Cfg.list \/ \E k \in next + 1 .. n : Search!Kind(files, At(k)) = "file"
      BY <1>6, <3>1, <3>2
    <3>4. Search!Cfg.list' \/ Search!HasIndex(next)'
      BY <1>8, <2>1, <2>2, <3>3 DEF Search!HasIndex
    <3> QED BY <2>1, <3>4 DEF Search!FileIsAhead
  <2>5. Search!FileStays'
    <3> SUFFICES ASSUME edits = 0 PROVE Search!FileStays'
      BY <1>1 DEF Search!FileStays
    <3>1. Search!Kind(files, At(next)) = "dir" /\ ~written
      BY <1>3, <1>5, <1>7, <1>10
    <3>2. \A k \in 1 .. next' - 1 : k = next \/ k \in 1 .. next - 1
      BY <1>2, <2>1
    <3>3. \A k \in 1 .. next' - 1 : k <= n /\ Search!Kind(files, At(k)) # "file"
      BY <1>3, <1>5, <3>1, <3>2
    <3>4. Search!NoFileBefore'
      BY <1>8, <2>1, <2>2, <3>3 DEF Search!NoFileBefore
    <3>5. /\ ~written' /\ pc' = "index" /\ Search!Stat(files, Search!File)' # "none"
          /\ Search!Kind(files, target)' = "dir"
      BY <1>1, <1>5, <1>9, <2>1, <2>2, <3>1
    <3> QED BY <3>4, <3>5 DEF Search!FileStays
  <2>6. Search!CandidateIsListed' /\ pc' \in Search!Looking /\ next' \in Nat \ {0} /\ pc # "idle" /\ written' \in BOOLEAN
    BY <1>1, <1>2, <2>1 DEF Search!CandidateIsListed, Search!Looking
  <2> QED BY <1>1, <1>2, <1>3, <2>3, <2>4, <2>5, <2>6, LookKeeps
<1>11. CASE Search!Look(e) # "dir"
  <2>1. next' = next /\ pc' = "read" /\ target' = e
    BY <1>11 DEF Search!IsNoDir
  <2>2. PICK f : f = e
    OBVIOUS
  <2>3. Search!InRoot(Search!Mount, target)' = Search!InRoot(m, f) /\ Search!Kind(files, target)' = Search!Kind(files, f)
    BY <1>1, <1>8, <2>1, <2>2 DEF Search!InRoot, Search!Kind
  <2>4. ~written => f \in Search!Names /\ Search!InRoot(m, f)
    <3> SUFFICES ASSUME ~written PROVE f \in Search!Names /\ Search!InRoot(m, f)
      OBVIOUS
    <3> DEFINE D == DOMAIN Chars
               r == Search!Cfg.dir
               s == Search!Cfg.index[next]
    <3>1. target \in Seq(D) /\ r \in Seq(D) /\ s \in D /\ Search!IsPrefix(r, target) /\ f = Append(target, s)
      BY <1>2, <1>3, <1>4, <2>2 DEF Search!Names, Search!InRoot
    <3> HIDE DEF D, r, s
    <3>2. Append(target, s) \in Seq(D) /\ Search!IsPrefix(r, Append(target, s))
      BY <3>1, PrefixGrows
    <3> QED BY <1>2, <3>1, <3>2 DEF Search!Names, Search!InRoot, D, r
  <2>5. Search!NameIsRight'
    <3> HIDE DEF m, name
    <3> QED BY <1>1, <1>3, <1>4, <1>8, <2>1, <2>2, <2>3, <2>4 DEF Search!NameIsRight, Search!Names
  <2>6. Search!FileIsAhead'
    <3>1. m \notin lacked => Search!Kind(files, f) = "file"
      BY <1>4, <1>6, <1>7, <1>11, <2>2
    <3> QED BY <1>3, <1>8, <2>1, <2>3, <3>1 DEF Search!FileIsAhead
  <2>7. Search!FileStays'
    <3> SUFFICES ASSUME edits = 0 PROVE Search!FileStays'
      BY <1>1 DEF Search!FileStays
    <3>1. ~written /\ target = name /\ Search!InRoot(m, name) /\ Search!Kind(files, e) = "file"
      BY <1>4, <1>5, <1>7, <1>11
    <3> DEFINE indexes == {k \in 1 .. n : IsFile(k)}
    <3>2. \A k : IsFile(k) <=> Search!Kind(files, At(k)) = "file"
      BY <3>1 DEF IsFile, Candidate
    <3>3. next \in indexes
      BY <1>2, <1>3, <3>1, <3>2
    <3>4. \A j \in indexes : next <= j
      <4> SUFFICES ASSUME NEW j \in 1 .. n, IsFile(j), j < next PROVE FALSE
        BY <1>2
      <4>1. j \in 1 .. next - 1
        BY <1>2
      <4> QED BY <1>5, <3>2, <4>1
    <3>5. Candidate(next) = f
      BY <1>3, <2>2, <3>1 DEF Candidate
    <3>6. Search!Has(files, m, url) = [status |-> 200, mount |-> m, file |-> f]
      <4> HIDE DEF At, e
      <4> QED BY <1>2, <1>5, <3>1, <3>3, <3>4, <3>5, HasIs
    <3> HIDE DEF m, e, At, name
    <3> QED BY <1>1, <1>5, <1>8, <1>9, <2>1, <2>2, <3>1, <3>6 DEF Search!FileStays
  <2>8. Search!CandidateIsListed' /\ pc' \in Search!Looking /\ next' \in Nat \ {0} /\ pc # "idle" /\ written' \in BOOLEAN
    BY <1>1, <1>2, <2>1 DEF Search!CandidateIsListed, Search!Looking
  <2> QED BY <1>1, <1>2, <1>3, <2>5, <2>6, <2>7, <2>8, LookKeeps
<1> QED BY <1>10, <1>11

LEMMA ReadKeeps ==
  ASSUME SitesAssumption, Search!SearchInv, Search!Read, Search!Watch
  PROVE  Search!SearchInv'
<1> DEFINE m == Search!Mount
<1>1. pc = "read" /\ UNCHANGED <<site, files, url, target, written, next, edits>> /\ pc' \in {"send", "mount"}
  BY DEF Search!Read, Search!Answer, Search!Skip, Search!ErrorSkips
<1>2. /\ Search!TypeOK /\ Search!Left # {} /\ m \in Search!Matching(url) /\ m \in Search!All
      /\ written \in BOOLEAN /\ next \in Nat \ {0}
  BY <1>1, AtMount DEF Search!Looking
<1>3. lacked' = lacked
  BY <1>1, Noticed
<1>4. /\ written => m \in lacked
      /\ ~written => Search!InRoot(m, target)
  BY <1>1 DEF Search!SearchInv, Search!NameIsRight, Search!Looking
<1>5. edits = 0 => ~written /\ Search!Has(files, m, url) = [status |-> 200, mount |-> m, file |-> target]
  BY <1>1 DEF Search!SearchInv, Search!FileStays, Search!Looking
<1>6. m \notin lacked => Search!Kind(files, target) = "file"
  BY <1>1 DEF Search!SearchInv, Search!FileIsAhead, Search!Looking
<1>7. Search!Look(target) = IF written THEN Search!Stat(files, target) ELSE Search!Kind(files, target)
  BY DEF Search!Look
<1>8. CASE Search!Look(target) = "file"
  <2>1. reply' = Search!Found(200) /\ pc' = "send" /\ asked' = asked
    BY <1>8 DEF Search!Read, Search!Answer
  <2>2. PICK f : f = IF written THEN Search!Normal(target) ELSE target
    OBVIOUS
  <2>3. reply' = [status |-> 200, mount |-> m, file |-> f]
    BY <2>1, <2>2 DEF Search!Found
  <2>4. Search!InRoot(m, f) \/ (m \in lacked /\ edits # 0)
    BY <1>4, <1>5, <2>2
  <2>5. edits = 0 => reply' = Search!Has(files, m, url)
    BY <1>5, <2>2, <2>3
  <2>6. 200 \in {200, 403} /\ 200 # 403 /\ next' \in Nat \ {0} /\ pc # "idle" /\ written' \in BOOLEAN
    BY <1>1, <1>2
  <2> QED BY <1>1, <1>2, <1>3, <2>1, <2>3, <2>4, <2>5, <2>6, AnswerKeeps
<1>9. CASE Search!Look(target) # "file"
  <2>1. reply' = reply /\ Search!Skip
    BY <1>9 DEF Search!Read, Search!ErrorSkips
  <2>2. m \in lacked
    BY <1>4, <1>6, <1>7, <1>9
  <2> QED BY <1>1, <1>2, <1>3, <2>1, <2>2, SkipKeeps
<1> QED BY <1>8, <1>9

LEMMA SendKeeps ==
  ASSUME Search!SearchInv, Search!Send, Search!Watch
  PROVE  Search!SearchInv'
<1>1. /\ UNCHANGED <<site, files, edits>> /\ pc' = "idle" /\ url' = <<>> /\ asked' = {} /\ next' = 1
      /\ written' = FALSE /\ reply' = Search!NoAnswer /\ lacked' = {} /\ Search!TypeOK
  BY DEF Search!Send, Search!SearchInv, Search!Watch
<1>2. Search!All' = Search!All
  BY <1>1 DEF Search!All, Search!Mounts
<1>3. Search!TypeOK'
  <2>1. written' \in BOOLEAN
    BY <1>1, Zenon
  <2>2. url' \in Seq(DOMAIN Chars \cup {".."}) /\ reply'.mount = 0
    BY <1>1 DEF Search!NoAnswer
  <2> QED BY <1>1, <1>2, <2>1, <2>2 DEF Search!TypeOK, Search!IsTree
<1>4. Search!InTurn'
  BY <1>1 DEF Search!InTurn
<1>5. Search!NameIsRight' /\ Search!FileIsAhead' /\ Search!FileStays'
  BY <1>1 DEF Search!NameIsRight, Search!FileIsAhead, Search!FileStays, Search!Looking
<1>6. Search!CandidateIsListed' /\ Search!AnswerIsOfMount' /\ pc' \notin {"resolve"} \cup Search!Looking
  BY <1>1 DEF Search!CandidateIsListed, Search!AnswerIsOfMount, Search!Looking
<1> QED BY <1>3, <1>4, <1>5, <1>6 DEF Search!SearchInv

LEMMA ReceiveKeeps ==
  ASSUME SitesAssumption, Search!SearchInv, Search!Receive, Search!Watch
  PROVE  Search!SearchInv'
<1>1. /\ UNCHANGED <<site, files, written, next, edits>> /\ pc = "idle" /\ pc' = "mount" /\ asked' = {}
      /\ url' \in Sites[site].requests /\ reply' = Search!NoAnswer /\ Search!TypeOK /\ lacked = {}
  BY DEF Search!Receive, Search!SearchInv, Search!InTurn
<1>2. Search!All' = Search!All /\ Search!Mounts' = Search!Mounts
  BY <1>1 DEF Search!All, Search!Mounts
<1>3. Search!Losing = {}
  BY <1>1 DEF Search!Losing
<1>4. Search!Lacking(files, url)' = Search!Lacking(files', url')
  BY <1>2 DEF Search!Lacking, Search!Matching, Search!Has, Search!InRoot
<1>5. lacked' = Search!Lacking(files, url)'
  BY <1>1, <1>3, <1>4 DEF Search!Watch
<1>6. lacked' \subseteq Search!All
  BY <1>2, <1>5 DEF Search!Lacking, Search!Matching
<1>7. url' \in Seq(DOMAIN Chars \cup {".."})
  BY <1>1 DEF Search!TypeOK, SitesAssumption, Search!ConstantsAreProper
<1>8. Search!TypeOK'
  BY <1>1, <1>2, <1>6, <1>7 DEF Search!TypeOK, Search!NoAnswer, Search!IsTree
<1> QED BY <1>1, <1>5, <1>8
        DEF Search!SearchInv, Search!InTurn, Search!NameIsRight, Search!FileIsAhead, Search!FileStays,
            Search!CandidateIsListed, Search!AnswerIsOfMount, Search!Looking

(* An edit removes a file or adds one; the others stay what they are. *)
LEMMA EditFiles ==
  ASSUME SitesAssumption, Search!TypeOK, Search!Edit
  PROVE  /\ Search!IsTree(files')
         /\ \A f \in DOMAIN files : f \in DOMAIN files' => files'[f] = files[f]
<1>1. DOMAIN files \subseteq Search!Names /\ \A f \in DOMAIN files : files[f] \in {"file", "dir"}
  BY DEF Search!TypeOK, Search!IsTree
<1>2. PICK f \in Sites[site].names :
        \/ files' = [g \in DOMAIN files \ {f} |-> files[g]]
        \/ \E kind \in {"file", "dir"} :
             files' = [g \in DOMAIN files \cup {f} |-> IF g \in DOMAIN files THEN files[g] ELSE kind]
  BY DEF Search!Edit
<1>3. f \in Search!Names
  BY <1>2 DEF SitesAssumption, Search!ConstantsAreProper, Search!TypeOK
<1>4. CASE files' = [g \in DOMAIN files \ {f} |-> files[g]]
  BY <1>1, <1>4 DEF Search!IsTree
<1>5. ASSUME NEW kind \in {"file", "dir"},
             files' = [g \in DOMAIN files \cup {f} |-> IF g \in DOMAIN files THEN files[g] ELSE kind]
      PROVE  /\ Search!IsTree(files')
             /\ \A g \in DOMAIN files : g \in DOMAIN files' => files'[g] = files[g]
  BY <1>1, <1>3, <1>5 DEF Search!IsTree
<1> QED BY <1>2, <1>4, <1>5

LEMMA EditKeeps ==
  ASSUME SitesAssumption, Search!SearchInv, Search!Edit, Search!Watch
  PROVE  Search!SearchInv'
<1> DEFINE m == Search!Mount
<1>1. /\ UNCHANGED <<site, pc, url, asked, target, written, next, reply>> /\ edits' = edits + 1
      /\ Search!TypeOK /\ Search!InTurn
  BY DEF Search!Edit, Search!SearchInv
<1>2. edits' \in Nat /\ edits' # 0
  BY <1>1 DEF Search!TypeOK
<1>3. /\ Search!Mount' = m /\ Search!Cfg' = Search!Cfg /\ Search!Left' = Search!Left
      /\ Search!All' = Search!All /\ Search!Mounts' = Search!Mounts
      /\ Search!File' = Search!File /\ Search!Matching(url)' = Search!Matching(url)
      /\ \A i, n : Search!Ahead(i, n)' = Search!Ahead(i, n)
      /\ \A i, f : Search!InRoot(i, f)' = Search!InRoot(i, f)
  BY <1>1, SameMount
<1>4. Search!IsTree(files') /\ \A f \in DOMAIN files : f \in DOMAIN files' => files'[f] = files[f]
  BY <1>1, EditFiles
<1>5. Search!Lacking(files, url)' = Search!Lacking(files', url')
  BY <1>3 DEF Search!Lacking, Search!Matching, Search!Has, Search!InRoot
<1>6. lacked' = IF pc = "idle" THEN {} ELSE lacked \cup Search!Losing \cup Search!Lacking(files, url)'
  BY <1>1, <1>5 DEF Search!Watch
<1>7. Search!Losing \subseteq Search!All /\ Search!Lacking(files, url)' \subseteq Search!All
  BY <1>1, <1>3 DEF Search!Losing, Search!Lacking, Search!Matching, Search!TypeOK
<1>8. Search!TypeOK'
  BY <1>1, <1>2, <1>3, <1>4, <1>6, <1>7 DEF Search!TypeOK
<1>9. Search!InTurn'
  BY <1>1, <1>2, <1>3, <1>6 DEF Search!InTurn
<1>10. pc \in Search!Looking => m \in Search!All /\ pc # "idle" /\ (m \in lacked => m \in lacked')
  BY <1>1, <1>6 DEF Search!SearchInv, Search!Matching, Search!Looking
<1>11. ASSUME pc \in Search!Looking, m \notin lacked', NEW f, Search!InRoot(m, f), Search!Kind(files, f) # "none"
       PROVE  Search!Kind(files, f)' = Search!Kind(files, f)
  <2>1. f \in DOMAIN files
    BY <1>11 DEF Search!Kind
  <2>2. f \in DOMAIN files'
    BY <1>6, <1>10, <1>11, <2>1 DEF Search!Losing
  <2> QED BY <1>4, <2>1, <2>2 DEF Search!Kind
<1>12. /\ pc \in Search!Looking => (written => m \in lacked) /\ (~written => target \in Search!Names /\ Search!InRoot(m, target))
       /\ Search!NameIsRight'
  <2>1. Search!NameIsRight
    BY DEF Search!SearchInv
  <2>2. Search!InRoot(Search!Mount, target)' = Search!InRoot(m, target)
    BY <1>1, <1>3 DEF Search!InRoot
  <2>3. Search!Normal(Search!File)' = Search!Normal(Search!File)
    BY <1>3
  <2>4. Search!InRoot(Search!Mount, Search!Normal(Search!File))' = Search!InRoot(m, Search!Normal(Search!File))
    BY <1>3, <2>3 DEF Search!InRoot
  <2> HIDE DEF m
  <2> QED BY <1>1, <1>3, <1>10, <2>1, <2>2, <2>3, <2>4 DEF Search!NameIsRight, Search!Names, m
<1>13. Search!FileIsAhead'
  <2> SUFFICES ASSUME pc \in Search!Looking, m \notin lacked' PROVE Search!FileIsAhead'
    BY <1>1, <1>3 DEF Search!FileIsAhead
  <2>1. Search!FileIsAhead /\ m \notin lacked /\ target \in Search!Names /\ Search!InRoot(m, target)
    BY <1>10, <1>12 DEF Search!SearchInv
  <2>2. Search!Kind(files, target) # "none" => Search!Kind(files, target)' = Search!Kind(files, target)
    <3>1. PICK f : f = target
      OBVIOUS
    <3>2. Search!Kind(files, f) # "none" => Search!Kind(files, f)' = Search!Kind(files, f)
      BY <1>11, <2>1, <3>1
    <3>3. Search!Kind(files, target)' = Search!Kind(files, f)'
      BY <1>1, <3>1 DEF Search!Kind
    <3> QED BY <3>1, <3>2, <3>3
  <2>3. ASSUME NEW k \in 1 .. Len(Search!Cfg.index),
               Search!Kind(files, Append(target, Search!Cfg.index[k])) # "none"
        PROVE  Search!Kind(files, Append(target, Search!Cfg.index[k]))'
                 = Search!Kind(files, Append(target, Search!Cfg.index[k]))
    <3>1. PICK f : f = Append(target, Search!Cfg.index[k])
      OBVIOUS
    <3> DEFINE D == DOMAIN Chars
               r == Search!Cfg.dir
               s == Search!Cfg.index[k]
    <3>2. /\ Search!Cfg.index \in Seq(D) /\ r \in Seq(D) /\ Search!Cfg = Search!Mounts[m]
      BY AtMount
    <3>3. s \in D /\ target \in Seq(D) /\ Search!IsPrefix(r, target)
      BY <2>1, <3>2 DEF Search!Names, Search!InRoot
    <3> HIDE DEF D, r, s
    <3>4. Search!IsPrefix(r, Append(target, s))
      BY <3>2, <3>3, PrefixGrows
    <3>5. Search!InRoot(m, f)
      BY <3>1, <3>2, <3>4 DEF Search!InRoot, r, s
    <3>6. Search!Kind(files, f)' = Search!Kind(files, f)
      BY <1>11, <2>3, <3>1, <3>5
    <3>7. Search!Kind(files, Append(target, Search!Cfg.index[k]))' = Search!Kind(files, f)'
      BY <1>1, <1>3, <3>1 DEF Search!Kind
    <3> QED BY <3>1, <3>6, <3>7
  <2>4. next \in Nat \ {0}
    BY <1>1 DEF Search!TypeOK
  <2>5. pc \in {"isfile", "read"} => Search!Kind(files, target)' = "file"
    BY <2>1, <2>2 DEF Search!FileIsAhead
  <2>6. pc \in {"index", "isindex"} => Search!Cfg.list' \/ Search!HasIndex(next)'
    <3> SUFFICES ASSUME pc \in {"index", "isindex"}, ~Search!Cfg.list
                 PROVE  \E k \in next .. Len(Search!Cfg.index) :
                          Search!Kind(files, Append(target, Search!Cfg.index[k]))' = "file"
      BY <1>1, <1>3 DEF Search!HasIndex
    <3>1. PICK k \in next .. Len(Search!Cfg.index) : Search!Kind(files, Append(target, Search!Cfg.index[k])) = "file"
      BY <2>1 DEF Search!FileIsAhead, Search!HasIndex
    <3>2. k \in 1 .. Len(Search!Cfg.index)
      BY <2>4, <3>1
    <3> QED BY <2>3, <3>1, <3>2
  <2>7. pc = "isindex" => Search!Kind(files, Search!Candidate)' # "none"
    <3> SUFFICES ASSUME pc = "isindex" PROVE Search!Kind(files, Search!Candidate)' # "none"
      OBVIOUS
    <3>1. next \in 1 .. Len(Search!Cfg.index)
      BY <2>4, AtMount DEF Search!SearchInv, Search!CandidateIsListed, Search!Looking
    <3>2. Search!Kind(files, Append(target, Search!Cfg.index[next])) # "none"
      BY <2>1 DEF Search!FileIsAhead, Search!Candidate
    <3>3. PICK k \in 1 .. Len(Search!Cfg.index) : k = next
      BY <3>1
    <3>4. Search!Kind(files, Append(target, Search!Cfg.index[k]))' # "none"
      BY <2>3, <3>2, <3>3
    <3> QED BY <1>1, <3>3, <3>4 DEF Search!Candidate
  <2> QED BY <1>1, <2>5, <2>6, <2>7 DEF Search!FileIsAhead
<1>14. Search!FileStays'
  BY <1>2 DEF Search!FileStays
<1>15. Search!CandidateIsListed'
  BY <1>1, <1>3 DEF Search!SearchInv, Search!CandidateIsListed
<1>16. Search!AnswerIsOfMount'
  <2>1. Search!AnswerIsOfMount /\ (m \in lacked /\ pc = "send" => m \in lacked')
    BY <1>6 DEF Search!SearchInv
  <2>2. Search!InRoot(reply.mount, reply.file)' = Search!InRoot(reply.mount, reply.file)
    BY <1>1, <1>3 DEF Search!InRoot
  <2>3. Search!InRoot(Search!Mount, Search!Normal(Search!File))' = Search!InRoot(m, Search!Normal(Search!File))
    <3>1. Search!Normal(Search!File)' = Search!Normal(Search!File)
      BY <1>3
    <3> QED BY <1>3, <3>1 DEF Search!InRoot
  <2>4. CASE reply.mount = 0
    BY <1>1, <1>2, <1>3, <2>1, <2>4 DEF Search!AnswerIsOfMount
  <2>5. CASE reply.mount # 0
    <3> SUFFICES ASSUME pc = "send" PROVE Search!AnswerIsOfMount'
      BY <1>1 DEF Search!AnswerIsOfMount
    <3>1. /\ Search!Left # {} /\ reply.mount = m /\ m \in Search!Matching(url)
          /\ reply.status = 403 => ~Search!InRoot(m, Search!Normal(Search!File))
          /\ reply.status # 403 => Search!InRoot(reply.mount, reply.file) \/ m \in lacked
      BY <2>1, <2>5 DEF Search!AnswerIsOfMount
    <3> HIDE DEF m
    <3> QED BY <1>1, <1>2, <1>3, <2>1, <2>2, <2>3, <2>5, <3>1 DEF Search!AnswerIsOfMount
  <2> QED BY <2>4, <2>5
<1>17. pc' \in {"resolve"} \cup Search!Looking => Search!Left' # {} /\ (Search!Mount \in Search!Matching(url))'
  BY <1>1, <1>3 DEF Search!SearchInv
<1> QED BY <1>8, <1>9, <1>12, <1>13, <1>14, <1>15, <1>16, <1>17 DEF Search!SearchInv

LEMMA SearchStill ==
  ASSUME Search!SearchInv, UNCHANGED mountVars
  PROVE  Search!SearchInv'
<1>1. UNCHANGED <<site, files, pc, url, asked, target, written, next, reply, lacked, edits, served>>
  BY DEF mountVars
<1>2. /\ Search!Mount' = Search!Mount /\ Search!Cfg' = Search!Cfg /\ Search!Left' = Search!Left
      /\ Search!All' = Search!All /\ Search!File' = Search!File /\ Search!Matching(url)' = Search!Matching(url)
      /\ \A m, n : Search!Ahead(m, n)' = Search!Ahead(m, n)
      /\ \A m, f : Search!InRoot(m, f)' = Search!InRoot(m, f)
  BY <1>1, SameMount
<1>3. /\ Search!Has(files, Search!Mount, url)' = Search!Has(files, Search!Mount, url)
      /\ Search!Lacking(files, url)' = Search!Lacking(files, url)
      /\ Search!Stat(files, Search!File)' = Search!Stat(files, Search!File)
      /\ Search!Normal(Search!File)' = Search!Normal(Search!File)
      /\ Search!InRoot(Search!Mount, Search!Normal(Search!File))' = Search!InRoot(Search!Mount, Search!Normal(Search!File))
  BY <1>1, SameFiles
<1>4. /\ Search!InRoot(Search!Mount, target)' = Search!InRoot(Search!Mount, target)
      /\ Search!InRoot(reply.mount, reply.file)' = Search!InRoot(reply.mount, reply.file)
  BY <1>1, <1>2 DEF Search!InRoot
<1>5. /\ Search!Kind(files, target)' = Search!Kind(files, target)
      /\ Search!Kind(files, Search!Candidate)' = Search!Kind(files, Search!Candidate)
      /\ \A k : Search!Kind(files, Append(target, Search!Cfg.index[k]))' = Search!Kind(files, Append(target, Search!Cfg.index[k]))
  BY <1>1, <1>2 DEF Search!Kind, Search!Candidate
<1>6. Search!TypeOK' /\ Search!InTurn'
  BY <1>1, <1>2, <1>3 DEF Search!SearchInv, Search!TypeOK, Search!InTurn, Search!IsTree
<1>7. Search!NameIsRight'
  BY <1>1, <1>2, <1>3, <1>4 DEF Search!SearchInv, Search!NameIsRight, Search!Names
<1>8. Search!FileIsAhead'
  BY <1>1, <1>2, <1>5 DEF Search!SearchInv, Search!FileIsAhead, Search!HasIndex
<1>9. Search!FileStays'
  BY <1>1, <1>2, <1>3, <1>5 DEF Search!SearchInv, Search!FileStays, Search!NoFileBefore
<1>10. Search!CandidateIsListed'
  BY <1>1, <1>2 DEF Search!SearchInv, Search!CandidateIsListed
<1>11. Search!AnswerIsOfMount'
  BY <1>1, <1>2, <1>3, <1>4 DEF Search!SearchInv, Search!AnswerIsOfMount
<1> QED BY <1>1, <1>2, <1>6, <1>7, <1>8, <1>9, <1>10, <1>11 DEF Search!SearchInv

LEMMA SearchInit ==
  ASSUME SitesAssumption, Search!Init
  PROVE  Search!SearchInv
<1>1. site \in DOMAIN Sites
  BY DEF Search!Init
<1>2. PICK fs \in SUBSET Sites[site].files : files = Search!Tree(Sites[site].dirs, fs)
  BY DEF Search!Init
<1>3. Sites[site].dirs \subseteq Search!Names /\ fs \subseteq Search!Names
  BY <1>1, <1>2 DEF SitesAssumption, Search!ConstantsAreProper
<1>4. Search!IsTree(files)
  BY <1>2, <1>3 DEF Search!IsTree, Search!Tree
<1>5. Search!TypeOK
  <2>1. written \in BOOLEAN
    BY Zenon DEF Search!Init
  <2>2. url \in Seq(DOMAIN Chars \cup {".."}) /\ reply.mount = 0
    BY DEF Search!Init, Search!NoAnswer
  <2> QED BY <1>1, <1>4, <2>1, <2>2 DEF Search!Init, Search!TypeOK
<1>6. Search!InTurn
  BY DEF Search!Init, Search!InTurn
<1>7. Search!NameIsRight /\ Search!FileIsAhead /\ Search!FileStays
  BY DEF Search!Init, Search!NameIsRight, Search!FileIsAhead, Search!FileStays, Search!Looking
<1>8. Search!CandidateIsListed /\ Search!AnswerIsOfMount /\ pc \notin {"resolve"} \cup Search!Looking
  BY DEF Search!Init, Search!CandidateIsListed, Search!AnswerIsOfMount, Search!Looking
<1> QED BY <1>5, <1>6, <1>7, <1>8 DEF Search!SearchInv

LEMMA SearchStep ==
  ASSUME SitesAssumption, Search!SearchInv, Search!Next \/ UNCHANGED mountVars
  PROVE  Search!SearchInv'
<1>1. \/ UNCHANGED mountVars
      \/ Search!Watch /\ ( \/ Search!Receive \/ Search!TryMount \/ Search!Resolve \/ Search!DirExists
                           \/ Search!FileExists \/ Search!Index \/ Search!IsNoDir \/ Search!Read
                           \/ Search!Send \/ Search!Edit )
  BY DEF Search!Next, Search!Serve
<1> QED BY <1>1, SearchStill, ReceiveKeeps, TryMountKeeps, ResolveKeeps, DirExistsKeeps, FileExistsKeeps,
           IndexKeeps, IsNoDirKeeps, ReadKeeps, SendKeeps, EditKeeps

(* The first mount that has the path is the one that answers. *)
LEMMA SearchIsRight ==
  ASSUME SitesAssumption, Search!SearchInv
  PROVE  Search!MostSpecific /\ Search!PassedOver /\ Search!StaysInside
<1> SUFFICES ASSUME pc = "send" PROVE Search!MostSpecific /\ Search!PassedOver /\ Search!StaysInside
  BY DEF Search!MostSpecific, Search!PassedOver, Search!StaysInside
<1> DEFINE m == Search!Mount
           have == {n \in Search!Matching(url) : Search!Has(files, n, url) # Search!NoAnswer}
<1>1. Search!TypeOK /\ Search!InTurn /\ Search!AnswerIsOfMount /\ url \in Seq(DOMAIN Chars \cup {".."})
  BY DEF Search!SearchInv, Search!TypeOK
<1>2. asked \cap Search!Matching(url) \subseteq lacked
  BY <1>1 DEF Search!InTurn
<1>3. edits = 0 => \A n \in lacked : n \notin have
  BY <1>1 DEF Search!InTurn, Search!Lacking
<1>4. \A n \in Search!Matching(url) : n \in Search!All /\ (n \notin asked => n \in Search!Left)
  BY DEF Search!Matching, Search!Left
<1>5. CASE reply.mount = 0
  <2>1. reply = Search!Routed /\ Search!Left = {}
    BY <1>1, <1>5 DEF Search!AnswerIsOfMount
  <2>2. \A n \in Search!Matching(url) : n \in lacked
    BY <1>2, <1>4, <2>1
  <2>3. Search!PassedOver
    BY <2>2 DEF Search!PassedOver
  <2>4. Search!StaysInside
    BY <1>5 DEF Search!StaysInside
  <2>5. edits = 0 => have = {}
    BY <1>3, <2>2
  <2> QED BY <2>1, <2>3, <2>4, <2>5 DEF Search!MostSpecific, Search!Best
<1>6. CASE reply.mount # 0
  <2>1. /\ Search!Left # {} /\ reply.mount = m /\ m \in Search!Matching(url)
        /\ reply.status = 403 => ~Search!InRoot(m, Search!Normal(Search!File))
        /\ reply.status # 403 => Search!InRoot(m, reply.file) \/ (m \in lacked /\ edits # 0)
        /\ edits = 0 => reply = Search!Has(files, m, url) /\ reply # Search!NoAnswer
    BY <1>1, <1>6 DEF Search!AnswerIsOfMount
  <2>2. m \in Search!Left /\ \A n \in Search!Left \ {m} : Search!Ahead(m, n)
    BY <1>1, <2>1, MountIs
  <2>3. \A n \in Search!Matching(url) : ~(Search!Before(m, n) /\ Search!Before(n, m))
    <3> SUFFICES ASSUME NEW n \in Search!Matching(url) PROVE ~(Search!Before(m, n) /\ Search!Before(n, m))
      OBVIOUS
    <3>1. Search!Before(m, n) <=> Search!Ahead(m, n)
      BY <1>1, <2>1, AheadIsBefore
    <3>2. Search!Before(n, m) <=> Search!Ahead(n, m)
      BY <1>1, <2>1, AheadIsBefore
    <3>3. CASE n = m
      <4>1. m \in Nat /\ Len(Search!Mounts[m].prefix) \in Nat
        BY <1>1, <1>4, <2>1, MountsType DEF Search!All
      <4> QED BY <3>3, <4>1 DEF Search!Before
    <3>4. CASE n # m
      BY <1>1, <1>4, <2>1, <3>1, <3>2, <3>4, AheadIsStrict
    <3> QED BY <3>3, <3>4
  <2>4. \A n \in Search!Matching(url) : n \in Search!Left /\ n # m => Search!Before(m, n)
    BY <1>1, <2>1, <2>2, AheadIsBefore
  <2>5. Search!PassedOver
    <3> SUFFICES ASSUME NEW n \in Search!Matching(url), Search!Before(n, m) PROVE n \in lacked
      BY <1>6, <2>1 DEF Search!PassedOver
    <3>1. n # m
      BY <2>3
    <3>2. n \notin Search!Left
      BY <2>3, <2>4, <3>1
    <3> QED BY <1>2, <1>4, <3>2
  <2>6. Search!StaysInside
    BY <2>1 DEF Search!StaysInside, Search!File, Search!Cfg
  <2>7. Search!MostSpecific
    <3> SUFFICES ASSUME edits = 0 PROVE reply = Search!Best(url)
      BY DEF Search!MostSpecific
    <3>1. m \in have
      BY <2>1
    <3>2. \A n \in have \ {m} : Search!Before(m, n)
      BY <1>2, <1>3, <1>4, <2>4
    <3>3. \A i \in have : (\A n \in have \ {i} : Search!Before(i, n)) => i = m
      BY <2>3, <3>1, <3>2
    <3> DEFINE b == CHOOSE i \in have : \A n \in have \ {i} : Search!Before(i, n)
    <3>4. b = m
      <4> HIDE DEF have
      <4> QED BY <3>1, <3>2, <3>3
    <3>5. Search!Best(url) = Search!Has(files, b, url)
      BY <3>1 DEF Search!Best
    <3> HIDE DEF b
    <3> QED BY <2>1, <3>4, <3>5
  <2> QED BY <2>5, <2>6, <2>7
<1> QED BY <1>5, <1>6

(* For any mounts in any order, any files and requests, and changes of the    *)
(* files at any moment: as long as nobody touches the files the most specific *)
(* mount that has the path answers; a mount is passed over only when it had   *)
(* nothing to serve or lost a file; it refuses only what leaves its root, and *)
(* serves a file from outside only if that came after normalizePath() looked  *)
(* for it (serve(), static_files()).                                          *)
THEOREM MountsAreRight == RegistrySpec => []MountIsRight
<1> DEFINE Inv == part = "mounts" => Search!SearchInv
<1>1. RegistryInit => Inv
  BY SitesAssumption, SearchInit DEF RegistryInit
<1>2. Inv /\ [RegistryNext]_all => Inv'
  <2> SUFFICES ASSUME Inv, [RegistryNext]_all, part' = "mounts" PROVE Search!SearchInv'
    OBVIOUS
  <2>1. part = "mounts" /\ (Search!Next \/ UNCHANGED mountVars)
    BY DEF RegistryNext, OfRegistry, OfMounts, OfLoops, all
  <2> QED BY <2>1, SitesAssumption, SearchStep
<1>3. Inv => MountIsRight
  BY SitesAssumption, SearchIsRight DEF MountIsRight, Search!SearchInv
<1> QED BY <1>1, <1>2, <1>3, PTL DEF RegistrySpec

-----------------------------------------------------------------------------
(* The loops.  First what the four ways to change the stack do to it, then *)
(* one lemma for each part of LoopInv with one case per action.            *)

\* The stack with its innermost loop at another place.
LEMMA MoveFacts ==
  ASSUME NEW fs \in Seq(LoopType), fs # <<>>, NEW f \in LoopType
  PROVE  /\ [fs EXCEPT ![Len(fs)] = f] \in Seq(LoopType)
         /\ Len([fs EXCEPT ![Len(fs)] = f]) = Len(fs)
         /\ [fs EXCEPT ![Len(fs)] = f][Len(fs)] = f
         /\ \A i \in 1..(Len(fs) - 1) : [fs EXCEPT ![Len(fs)] = f][i] = fs[i]
OBVIOUS

\* Entering a loop leaves the loops below it where they are.
LEMMA PushFacts ==
  ASSUME NEW fs \in Seq(LoopType), NEW f \in LoopType
  PROVE  /\ Append(fs, f) \in Seq(LoopType)
         /\ Len(Append(fs, f)) = Len(fs) + 1
         /\ Append(fs, f)[Len(fs) + 1] = f
         /\ \A i \in 1..Len(fs) : Append(fs, f)[i] = fs[i]
OBVIOUS

\* So does leaving one.
LEMMA FrontFacts ==
  ASSUME NEW fs \in Seq(LoopType), fs # <<>>
  PROVE  /\ SubSeq(fs, 1, Len(fs) - 1) \in Seq(LoopType)
         /\ Len(SubSeq(fs, 1, Len(fs) - 1)) = Len(fs) - 1
         /\ \A i \in 1..(Len(fs) - 1) : SubSeq(fs, 1, Len(fs) - 1)[i] = fs[i]
         /\ fs[Len(fs)] \in LoopType
<1>1. fs[Len(fs)] \in LoopType
  OBVIOUS
<1> QED
  BY <1>1, LeftType DEF Left

\* A stop changes neither the number of loops nor their kinds and places.
LEMMA ForgottenFacts ==
  ASSUME NEW fs \in Seq(LoopType)
  PROVE  /\ Forgotten(fs) \in Seq(LoopType)
         /\ Len(Forgotten(fs)) = Len(fs)
         /\ \A i \in 1..Len(fs) : /\ Forgotten(fs)[i].loop = fs[i].loop
                                  /\ Forgotten(fs)[i].at = fs[i].at
<1> DEFINE g == [i \in 1..Len(fs) |-> [fs[i] EXCEPT !.known = FALSE]]
<1>1. DOMAIN fs = 1..Len(fs) /\ Len(fs) \in Nat /\ \A i \in 1..Len(fs) : fs[i] \in LoopType
  OBVIOUS
<1>2. ASSUME NEW i \in 1..Len(fs)
      PROVE  /\ [fs[i] EXCEPT !.known = FALSE] \in LoopType
             /\ [fs[i] EXCEPT !.known = FALSE].loop = fs[i].loop
             /\ [fs[i] EXCEPT !.known = FALSE].at = fs[i].at
  BY <1>1 DEF LoopType
<1>3. Forgotten(fs) = g
  BY <1>1, Zenon DEF Forgotten
<1>4. g \in Seq(LoopType) /\ Len(g) = Len(fs)
  BY <1>1, <1>2
<1>5. \A i \in 1..Len(fs) : g[i] = [fs[i] EXCEPT !.known = FALSE]
  OBVIOUS
<1> HIDE DEF g
<1>6. \A i \in 1..Len(fs) : g[i].loop = fs[i].loop /\ g[i].at = fs[i].at
  BY <1>2, <1>5
<1> QED
  BY <1>3, <1>4, <1>6

\* Every step keeps the types and leaves loops only above handlers.
LEMMA TypeStep ==
  ASSUME LoopTypeOK, [LoopNext]_loopVars
  PROVE  LoopTypeOK'
<1> USE DepthAssumption
<1>0. /\ loops \in Seq(LoopType) /\ Len(loops) \in Nat
      /\ loops # <<>> => Len(loops) > 0 /\ Innermost \in LoopType /\ Innermost = loops[Len(loops)]
  BY FrontFacts DEF LoopTypeOK, Innermost
<1>m. ASSUME loops # <<>>, NEW f \in LoopType, loops' = [loops EXCEPT ![Len(loops)] = f],
             UNCHANGED left, server' \in BOOLEAN, looping' \in BOOLEAN, stopped' \in BOOLEAN
      PROVE  LoopTypeOK'
  BY <1>0, <1>m, MoveFacts DEF LoopTypeOK
<1>p. ASSUME NEW loop \in {"run", "serve"}, NEW at \in {"start", "poll"}, Push(loop, at), UserCode,
             UNCHANGED left, server' \in BOOLEAN, looping' \in BOOLEAN, stopped' \in BOOLEAN
      PROVE  LoopTypeOK'
  <2> DEFINE f == [loop |-> loop, at |-> at, known |-> TRUE]
  <2>1. f \in LoopType /\ loops' = Append(loops, f) /\ Len(loops) < MaxDepth
    BY <1>p DEF Push, LoopType
  <2>2. loops # <<>> => loops[Len(loops)].at \in {"http", "ws"}
    BY <1>0, <1>p DEF UserCode, InHandler, InLoop
  <2> HIDE DEF f
  <2> QED
    BY <1>0, <1>p, <2>1, <2>2, PushFacts DEF LoopTypeOK
<1>e. ASSUME loops # <<>>, NEW why \in {"stopped", "sentinel", "error"}, NEW returned \in BOOLEAN,
             ExitInnermost(why, returned)
      PROVE  LoopTypeOK'
  <2>1. /\ loops' \in Seq(LoopType) /\ Len(loops') = Len(loops) - 1
        /\ \A i \in 1..(Len(loops) - 1) : loops'[i].at = loops[i].at
    <3>1. /\ Below \in Seq(LoopType) /\ Len(Below) = Len(loops) - 1
          /\ \A i \in 1..(Len(loops) - 1) : Below[i] = loops[i]
      BY <1>0, <1>e, FrontFacts DEF Below
    <3> QED
      BY <1>0, <1>e, <3>1, ForgottenFacts DEF ExitInnermost
  <2>2. server' \in BOOLEAN /\ looping' \in BOOLEAN /\ stopped' \in BOOLEAN
    BY <1>e DEF ExitInnermost, LoopTypeOK
  <2>3. left' \in {"none", "run", "serve"} \X {"none", "stopped", "sentinel", "error", "interrupt"}
                  \X BOOLEAN
    BY <1>0, <1>e DEF ExitInnermost, LoopType
  <2> QED
    BY <1>0, <2>1, <2>2, <2>3 DEF LoopTypeOK
<1>1. CASE StartServer
  BY <1>1 DEF StartServer, LoopTypeOK
<1>2. CASE StopServer
  <2>1. /\ loops' \in Seq(LoopType) /\ Len(loops') = Len(loops)
        /\ \A i \in 1..Len(loops) : loops'[i].at = loops[i].at
    BY <1>0, <1>2, ForgottenFacts DEF StopServer
  <2>2. server' = FALSE /\ looping' = FALSE /\ left' = left
    BY <1>2 DEF StopServer
  <2>3. stopped' \in BOOLEAN
    <3>1. stopped' = (stopped \/ InHandler)
      BY <1>2 DEF StopServer
    <3> QED
      BY <3>1, Zenon
  <2>4. Len(loops') <= MaxDepth /\ \A i \in 1..(Len(loops') - 1) : loops'[i].at \in {"http", "ws"}
    BY <1>0, <2>1 DEF LoopTypeOK
  <2> QED
    BY <2>1, <2>2, <2>3, <2>4 DEF LoopTypeOK
<1>3. CASE EnterRun
  BY <1>3, <1>p DEF EnterRun, LoopTypeOK
<1>4. CASE EnterServe
  BY <1>4, <1>p DEF EnterServe, LoopTypeOK
<1>5. CASE ServeReady
  <2>1. [Innermost EXCEPT !.at = "poll"] \in LoopType
    BY <1>0, <1>5 DEF ServeReady, InLoop, LoopType
  <2>2. loops' = [loops EXCEPT ![Len(loops)] = [Innermost EXCEPT !.at = "poll"]]
    BY <1>0, <1>5 DEF ServeReady, MoveTo, InLoop
  <2> QED
    BY <1>5, <1>m, <2>1, <2>2 DEF ServeReady, InLoop, LoopTypeOK
<1>6. CASE TakeEvent
  <2>1. PICK kind \in {"http", "ws"} :
          loops' = [loops EXCEPT ![Len(loops)] = [loop |-> Innermost.loop, at |-> kind, known |-> TRUE]]
    BY <1>6 DEF TakeEvent
  <2>2. [loop |-> Innermost.loop, at |-> kind, known |-> TRUE] \in LoopType
    BY <1>0, <1>6 DEF TakeEvent, InLoop, LoopType
  <2> QED
    BY <1>6, <1>m, <2>1, <2>2 DEF TakeEvent, InLoop, LoopTypeOK
<1>7. CASE ServeEnds
  BY <1>7, <1>e DEF ServeEnds, InLoop
<1>8. CASE Sentinel
  BY <1>8, <1>e DEF Sentinel, InLoop
<1>9. CASE WsDone \/ Respond
  <2>1. [Innermost EXCEPT !.at = "poll"] \in LoopType
    BY <1>0, <1>9 DEF WsDone, Respond, InLoop, LoopType
  <2>2. loops' = [loops EXCEPT ![Len(loops)] = [Innermost EXCEPT !.at = "poll"]]
    BY <1>0, <1>9 DEF WsDone, Respond, MoveTo, InLoop
  <2> QED
    BY <1>9, <1>m, <2>1, <2>2 DEF WsDone, Respond, InLoop, LoopTypeOK
<1>10. CASE LoopFails
  BY <1>10, <1>e DEF LoopFails, InLoop
<1>11. CASE Interrupt
  <2>1. server' \in BOOLEAN /\ looping' \in BOOLEAN /\ stopped' \in BOOLEAN
    BY <1>11 DEF Interrupt, LoopTypeOK
  <2>2. left' \in {"none", "run", "serve"} \X {"none", "stopped", "sentinel", "error", "interrupt"}
                  \X BOOLEAN
    BY <1>0, <1>11 DEF Interrupt, LoopType
  <2>3. loops' = <<>>
    BY <1>11 DEF Interrupt
  <2> QED
    BY <2>1, <2>2, <2>3 DEF LoopTypeOK
<1>12. CASE UNCHANGED loopVars
  BY <1>12 DEF loopVars, LoopTypeOK
<1> QED
  BY <1>1, <1>2, <1>3, <1>4, <1>5, <1>6, <1>7, <1>8, <1>9, <1>10, <1>11, <1>12 DEF LoopNext

\* Every step keeps the flag bound to a loop whose on.exit() will clear it.
LEMMA FlagStep ==
  ASSUME LoopTypeOK, FlagHasItsLoop, [LoopNext]_loopVars
  PROVE  FlagHasItsLoop'
<1>0. /\ loops \in Seq(LoopType) /\ Len(loops) \in Nat /\ DOMAIN loops = 1..Len(loops)
      /\ loops # <<>> => Len(loops) > 0 /\ Innermost = loops[Len(loops)] /\ Innermost \in LoopType
  BY FrontFacts DEF LoopTypeOK, Innermost
<1>t. loops' \in Seq(LoopType) /\ DOMAIN loops' = 1..Len(loops') /\ looping \in BOOLEAN
  BY TypeStep DEF LoopTypeOK
<1>m. ASSUME loops # <<>>, NEW f \in LoopType, loops' = [loops EXCEPT ![Len(loops)] = f],
             f.at # "start"
      PROVE  FlagHasItsLoop'
  BY <1>0, <1>t, <1>m, MoveFacts DEF FlagHasItsLoop
<1>e. ASSUME loops # <<>>, NEW why, NEW returned, ExitInnermost(why, returned)
      PROVE  FlagHasItsLoop'
  <2>1. CASE Innermost.at # "start"
    BY <1>e, <2>1 DEF ExitInnermost, FlagHasItsLoop
  <2>2. CASE Innermost.at = "start"
    <3>1. looping' = looping /\ loops' = Below
      BY <1>e, <2>2 DEF ExitInnermost
    <3>2. SUFFICES ASSUME looping PROVE \E i \in DOMAIN loops' : loops'[i].at # "start"
      BY <3>1 DEF FlagHasItsLoop
    <3>3. PICK i \in 1..Len(loops) : loops[i].at # "start"
      BY <1>0, <3>2 DEF FlagHasItsLoop
    <3>4. i \in 1..(Len(loops) - 1)
      BY <1>0, <1>e, <2>2, <3>3
    <3> QED
      BY <1>0, <1>t, <1>e, <3>1, <3>3, <3>4, FrontFacts DEF Below
  <2> QED
    BY <2>1, <2>2
<1>1. CASE StartServer \/ StopServer \/ EnterServe
  BY <1>1 DEF StartServer, StopServer, EnterServe, FlagHasItsLoop
<1>2. CASE EnterRun
  <2> DEFINE f == [loop |-> "run", at |-> "poll", known |-> TRUE]
  <2>1. loops' = Append(loops, f) /\ f \in LoopType /\ f.at = "poll"
    BY <1>2 DEF EnterRun, Push, LoopType
  <2> HIDE DEF f
  <2> QED
    BY <1>0, <1>t, <2>1, PushFacts DEF FlagHasItsLoop
<1>3. CASE ServeReady \/ WsDone \/ Respond
  <2> DEFINE f == [Innermost EXCEPT !.at = "poll"]
  <2>1. f \in LoopType /\ f.at = "poll" /\ loops # <<>>
    BY <1>0, <1>3 DEF ServeReady, WsDone, Respond, InLoop, LoopType
  <2>2. loops' = [loops EXCEPT ![Len(loops)] = f]
    BY <1>0, <1>3, <2>1 DEF ServeReady, WsDone, Respond, MoveTo
  <2> HIDE DEF f
  <2> QED
    BY <1>m, <2>1, <2>2
<1>4. CASE TakeEvent
  <2>1. PICK kind \in {"http", "ws"} :
          loops' = [loops EXCEPT ![Len(loops)] = [loop |-> Innermost.loop, at |-> kind, known |-> TRUE]]
    BY <1>4 DEF TakeEvent
  <2>2. /\ [loop |-> Innermost.loop, at |-> kind, known |-> TRUE] \in LoopType
        /\ [loop |-> Innermost.loop, at |-> kind, known |-> TRUE].at # "start"
    BY <1>0, <1>4 DEF TakeEvent, InLoop, LoopType
  <2> QED
    BY <1>4, <1>m, <2>1, <2>2 DEF TakeEvent, InLoop
<1>5. CASE ServeEnds \/ Sentinel \/ LoopFails
  BY <1>5, <1>e DEF ServeEnds, Sentinel, LoopFails, InLoop
<1>6. CASE Interrupt
  BY <1>6 DEF Interrupt, FlagHasItsLoop
<1>7. CASE UNCHANGED loopVars
  BY <1>7 DEF loopVars, FlagHasItsLoop
<1> QED
  BY <1>1, <1>2, <1>3, <1>4, <1>5, <1>6, <1>7 DEF LoopNext

\* Until a handler stops the server every step keeps the one loop, its server
\* and its flag together.
LEMMA GuardedStep ==
  ASSUME LoopTypeOK, FlagHasItsLoop, Guarded, [LoopNext]_loopVars
  PROVE  Guarded'
<1>0. /\ loops \in Seq(LoopType) /\ Len(loops) \in Nat
      /\ loops # <<>> => Len(loops) > 0 /\ Innermost = loops[Len(loops)] /\ Innermost \in LoopType
      /\ looping \in BOOLEAN /\ server \in BOOLEAN /\ stopped \in BOOLEAN
  BY FrontFacts DEF LoopTypeOK, Innermost
<1>m. ASSUME loops # <<>>, NEW f \in LoopType, loops' = [loops EXCEPT ![Len(loops)] = f],
             UNCHANGED <<server, stopped>>, ~stopped => looping'
      PROVE  Guarded'
  BY <1>0, <1>m, MoveFacts DEF Guarded
<1>g. ASSUME ~stopped, UserCode, loops # <<>> PROVE server /\ looping
  BY <1>0, <1>g DEF Guarded, UserCode, InHandler, InLoop
<1>e. ASSUME loops # <<>>, NEW why, NEW returned, ExitInnermost(why, returned)
      PROVE  Guarded'
  <2>1. SUFFICES ASSUME ~stopped' PROVE Guarded'
    BY DEF Guarded
  <2>2. Len(loops) = 1
    <3> DEFINE n == Len(loops)
    <3>1. stopped' = (stopped /\ n > 1)
      BY <1>e DEF ExitInnermost
    <3>2. ~stopped => n <= 1
      BY DEF Guarded
    <3>3. n > 0 /\ n \in Nat
      BY <1>0, <1>e
    <3> HIDE DEF n
    <3>4. ~(n > 1) \/ n <= 1
      BY <2>1, <3>1, <3>2, Zenon
    <3>5. n = 1
      BY <3>3, <3>4
    <3> QED
      BY <3>5 DEF n
  <2>3. Below \in Seq(LoopType) /\ Len(Below) = 0
    BY <1>0, <1>e, <2>2, FrontFacts DEF Below
  <2>4. loops' \in Seq(LoopType) /\ Len(loops') = 0
    BY <1>e, <2>3, ForgottenFacts DEF ExitInnermost
  <2> QED
    BY <2>4 DEF Guarded
<1>p. ASSUME NEW loop \in {"run", "serve"}, NEW at \in {"start", "poll"}, Push(loop, at),
             loops = <<>> \/ stopped, stopped' = stopped, server', at = "start" \/ looping'
      PROVE  Guarded'
  <2> DEFINE f == [loop |-> loop, at |-> at, known |-> TRUE]
  <2>1. loops' = Append(loops, f) /\ f \in LoopType /\ f.at = at
    BY <1>p DEF Push, LoopType
  <2> HIDE DEF f
  <2> QED
    BY <1>0, <1>p, <2>1, PushFacts DEF Guarded
<1>1. CASE StartServer
  BY <1>1, <1>g DEF StartServer, Guarded
<1>2. CASE StopServer
  <2>1. stopped' = (stopped \/ InHandler) /\ loops' = Forgotten(loops) /\ UserCode
    BY <1>2 DEF StopServer
  <2>2. ~stopped' => loops = <<>>
    BY <2>1, Zenon DEF UserCode
  <2>3. ~stopped' => Len(loops') = 0 /\ loops' \in Seq(LoopType)
    BY <1>0, <2>1, <2>2, ForgottenFacts
  <2> QED
    BY <2>3 DEF Guarded
<1>3. CASE EnterRun
  BY <1>3, <1>g, <1>p DEF EnterRun
<1>4. CASE EnterServe
  BY <1>4, <1>g, <1>p DEF EnterServe
<1>5. CASE ServeReady \/ WsDone \/ Respond
  <2> DEFINE f == [Innermost EXCEPT !.at = "poll"]
  <2>1. f \in LoopType /\ loops # <<>> /\ UNCHANGED <<server, stopped>>
    BY <1>0, <1>5 DEF ServeReady, WsDone, Respond, InLoop, LoopType
  <2>2. loops' = [loops EXCEPT ![Len(loops)] = f]
    BY <1>0, <1>5, <2>1 DEF ServeReady, WsDone, Respond, MoveTo
  <2>3. ~stopped => looping'
    BY <1>0, <1>5, <1>g DEF ServeReady, WsDone, Respond, UserCode, InHandler, InLoop
  <2> HIDE DEF f
  <2> QED
    BY <1>m, <2>1, <2>2, <2>3
<1>6. CASE TakeEvent
  <2>1. PICK kind \in {"http", "ws"} :
          loops' = [loops EXCEPT ![Len(loops)] = [loop |-> Innermost.loop, at |-> kind, known |-> TRUE]]
    BY <1>6 DEF TakeEvent
  <2>2. [loop |-> Innermost.loop, at |-> kind, known |-> TRUE] \in LoopType
    BY <1>0, <1>6 DEF TakeEvent, InLoop, LoopType
  <2>3. ~stopped => looping'
    BY <1>0, <1>6 DEF TakeEvent, InLoop, Guarded
  <2> QED
    BY <1>6, <1>m, <2>1, <2>2, <2>3 DEF TakeEvent, InLoop
<1>7. CASE ServeEnds \/ Sentinel \/ LoopFails
  BY <1>7, <1>e DEF ServeEnds, Sentinel, LoopFails, InLoop
<1>8. CASE Interrupt
  BY <1>8 DEF Interrupt, Guarded
<1>9. CASE UNCHANGED loopVars
  BY <1>9 DEF loopVars, Guarded
<1> QED
  BY <1>1, <1>2, <1>3, <1>4, <1>5, <1>6, <1>7, <1>8, <1>9 DEF LoopNext

-----------------------------------------------------------------------------
\* The inductive invariant holds along every behaviour.
THEOREM LoopInductive == LoopSpec => []LoopInv
<1>1. LoopInit => LoopInv
  <2> SUFFICES ASSUME LoopInit PROVE LoopInv
    OBVIOUS
  <2>1. loops \in Seq(LoopType) /\ Len(loops) = 0
    BY DEF LoopInit
  <2>2. LoopTypeOK
    <3>1. Len(loops) <= MaxDepth /\ \A i \in 1..(Len(loops) - 1) : loops[i].at \in {"http", "ws"}
      BY <2>1, DepthAssumption
    <3> QED
      BY <2>1, <3>1 DEF LoopInit, LoopTypeOK
  <2> QED
    BY <2>2 DEF LoopInit, LoopInv, FlagHasItsLoop, Guarded
<1>2. LoopInv /\ [LoopNext]_loopVars => LoopInv'
  BY TypeStep, FlagStep, GuardedStep DEF LoopInv
<1> QED
  BY <1>1, <1>2, PTL DEF LoopSpec

\* Every variable of the loops keeps its type, and R is in a handler of every
\* loop but the innermost.
THEOREM LoopTypeCorrect == LoopSpec => []LoopTypeOK
<1>1. LoopInv => LoopTypeOK
  BY DEF LoopInv
<1> QED
  BY <1>1, LoopInductive, PTL

\* loop_running never outlives the loop that set it.
THEOREM FlagCorrect == LoopSpec => []FlagHasItsLoop
<1>1. LoopInv => FlagHasItsLoop
  BY DEF LoopInv
<1> QED
  BY <1>1, LoopInductive, PTL

\* While no handler stopped the server, a loop that polls it holds the flag.
THEOREM GuardCorrect == LoopSpec => []PollingLoopIsGuarded
<1>1. LoopInv => PollingLoopIsGuarded
  <2> SUFFICES ASSUME LoopInv, ~stopped, InLoop("poll") PROVE looping
    BY DEF PollingLoopIsGuarded
  <2>1. loops \in Seq(LoopType) /\ Len(loops) \in Nat /\ Len(loops) > 0 /\ Innermost = loops[Len(loops)]
    BY FrontFacts DEF LoopInv, LoopTypeOK, InLoop, Innermost
  <2>2. Len(loops) <= 1
    BY DEF LoopInv, Guarded
  <2>3. Len(loops) = 1
    <3> DEFINE n == Len(loops)
    <3>1. n \in Nat /\ n > 0 /\ n <= 1
      BY <2>1, <2>2
    <3> HIDE DEF n
    <3>2. n = 1
      BY <3>1
    <3> QED
      BY <3>2 DEF n
  <2> QED
    BY <2>1, <2>3 DEF LoopInv, Guarded, InLoop
<1> QED
  BY <1>1, LoopInductive, PTL

\* Then run_server() and serve() never run inside each other.
THEOREM SingleLoop == LoopSpec => []OneLoopUnlessStopped
<1>1. LoopInv => OneLoopUnlessStopped
  BY DEF LoopInv, Guarded, OneLoopUnlessStopped
<1> QED
  BY <1>1, LoopInductive, PTL

\* However a serve() that runs is left, its server is stopped.
THEOREM ServeStops == LoopSpec => ServeStopsItsServer
<1> DEFINE Stops == \A i \in DOMAIN loops :
                      i > Len(loops') /\ loops[i].loop = "serve" /\ loops[i].at # "start"
                        => ~server'
<1>1. ASSUME LoopInv, [LoopNext]_loopVars PROVE [Stops]_loopVars
  <2> SUFFICES ASSUME NEW i \in DOMAIN loops, i > Len(loops'), loops[i].loop = "serve",
                      loops[i].at # "start"
               PROVE  ~server'
    OBVIOUS
  <2>0. /\ loops \in Seq(LoopType) /\ Len(loops) \in Nat /\ i \in 1..Len(loops)
        /\ loops # <<>> /\ Innermost = loops[Len(loops)]
    BY <1>1, FrontFacts DEF LoopInv, LoopTypeOK, Innermost
  <2>e. ASSUME NEW why, NEW returned, ExitInnermost(why, returned) PROVE ~server'
    <3>1. Len(loops') = Len(loops) - 1
      BY <2>0, <2>e, FrontFacts, ForgottenFacts DEF ExitInnermost, Below
    <3>2. i = Len(loops)
      BY <2>0, <3>1
    <3> QED
      BY <2>0, <2>e, <3>2 DEF ExitInnermost
  <2>1. CASE ServeEnds \/ Sentinel \/ LoopFails
    BY <2>1, <2>e DEF ServeEnds, Sentinel, LoopFails
  <2>2. CASE Interrupt
    BY <2>2 DEF Interrupt
  <2>3. CASE EnterRun \/ EnterServe
    <3>1. PICK f : loops' = Append(loops, f)
      BY <2>3 DEF EnterRun, EnterServe, Push
    <3>2. Len(loops') = Len(loops) + 1
      BY <2>0, <3>1
    <3> QED
      BY <2>0, <3>2
  <2>4. CASE ServeReady \/ TakeEvent \/ WsDone \/ Respond
    <3>1. PICK f : loops' = [loops EXCEPT ![Len(loops)] = f]
      BY <2>4, <2>0 DEF ServeReady, TakeEvent, WsDone, Respond, MoveTo, Innermost
    <3>2. Len(loops') = Len(loops)
      BY <2>0, <3>1
    <3> QED
      BY <2>0, <3>2
  <2>5. CASE StopServer
    BY <2>0, <2>5, ForgottenFacts DEF StopServer
  <2>6. CASE StartServer \/ UNCHANGED loopVars
    BY <2>0, <2>6 DEF StartServer, loopVars
  <2> QED
    BY <1>1, <2>1, <2>2, <2>3, <2>4, <2>5, <2>6 DEF LoopNext
<1> QED
  BY <1>1, LoopInductive, PTL DEF LoopSpec, ServeStopsItsServer
=============================================================================
