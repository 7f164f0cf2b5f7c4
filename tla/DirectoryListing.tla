-------------------------- MODULE DirectoryListing --------------------------
(***************************************************************************)
(* The listing of a directory, handle_directory_request(), and the answer  *)
(* to PROPFIND, handle_propfind() of civetweb.c: the scan, the growing     *)
(* array of entries, mg_sort() and what is printed, while entries come and *)
(* go.                                                                     *)
(***************************************************************************)
EXTENDS Integers, Sequences, FiniteSets

CONSTANTS
  Hidden,       \* the names that must_hide_file() hides; names are numbers, in the
                \* order of strcmp()
  Kinds,        \* what comes while a directory is read: [dir, size, mtime]
  Requests,     \* what is asked for, and what it meets: records of the directory at the
                \* start, tree, a function from names to such records or Gone; the job, "list",
                \* "propfind" or "depth0"; the order, [by |-> "n", "s" or "d", down |-> BOOLEAN];
                \* whether malloc(), strdup() and opendir() may fail; and a bound on the
                \* entries that come or go
  FirstSize     \* data.arr_size to begin with

VARIABLES
  req,          \* one of Requests
  disk,         \* name -> kind
  pc,
  before,       \* names that were there at opendir(), and all the time since
  turned,       \* names that readdir() has returned
  entries,      \* data.entries: a sequence of [name, dir, size, mtime]
  room,         \* elements that data.entries has memory for
  arrSize,      \* data.arr_size
  printed,      \* what is printed, in order
  names,        \* how many file_name are allocated
  cut,          \* the scan or the printing lost something for lack of memory
  answer, edits

vars == <<req, disk, pc, before, turned, entries, room, arrSize, printed, names, cut, answer, edits>>
rest == <<req, edits>>

job     == req.job
order   == req.order
MayFail == req.fails
Names   == DOMAIN disk

Gone == [dir |-> FALSE, size |-> -1, mtime |-> 0]
Here(n) == disk[n] # Gone
\* the zeros of memset(), if mg_stat() does not find the entry any more
Entry(n) == IF Here(n) THEN [name |-> n, dir |-> disk[n].dir, size |-> disk[n].size, mtime |-> disk[n].mtime]
            ELSE [name |-> n, dir |-> FALSE, size |-> 0, mtime |-> 0]

Init ==
  /\ req \in Requests /\ disk = req.tree /\ pc = "open"
  /\ before = {} /\ turned = {} /\ entries = <<>> /\ room = 0 /\ arrSize = FirstSize
  /\ printed = <<>> /\ names = 0 /\ cut = FALSE /\ answer = 0 /\ edits = 0

\* opendir() of the listing, or the head and the first element of PROPFIND.
Open ==
  /\ pc = "open" /\ UNCHANGED <<disk, turned, entries, room, arrSize, printed, names, rest>>
  /\ before' = {n \in Names : Here(n)}
  /\ \/ job # "depth0" /\ pc' = "scan" /\ UNCHANGED <<answer, cut>>
     \/ job = "depth0" /\ pc' = "done" /\ answer' = 207 /\ UNCHANGED cut
     \/ MayFail /\ job = "list" /\ pc' = "done" /\ answer' = 500 /\ UNCHANGED cut
     \/ MayFail /\ job = "propfind" /\ pc' = "done" /\ answer' = 207 /\ cut' = TRUE

Scanning(n) ==
  /\ pc = "scan" /\ n \notin turned /\ (Here(n) \/ n \in before)
  /\ turned' = turned \cup {n} /\ UNCHANGED <<disk, before, answer, rest>>

\* readdir() returns an entry that is hidden.
Skip(n) ==
  /\ Scanning(n) /\ n \in Hidden /\ UNCHANGED <<pc, entries, room, arrSize, printed, names, cut>>

\* (mutant) the array grows when the next element is already outside
GrownLate == Len(entries) > arrSize \/ room = 0
Grown == Len(entries) >= arrSize \/ room = 0

\* dir_scan_callback(): the array grows twofold, and the name is copied.
AddEntry(n) ==
  /\ job = "list" /\ Scanning(n) /\ n \notin Hidden /\ UNCHANGED printed
  /\ \/ /\ entries' = Append(entries, Entry(n)) /\ names' = names + 1
        /\ IF Grown THEN room' = 2 * arrSize /\ arrSize' = 2 * arrSize ELSE UNCHANGED <<room, arrSize>>
        /\ UNCHANGED <<pc, cut>>
     \/ MayFail /\ Grown /\ pc' = "sort" /\ cut' = TRUE /\ UNCHANGED <<entries, names, room, arrSize>>
     \/ /\ MayFail /\ pc' = "sort" /\ cut' = TRUE /\ UNCHANGED <<entries, names>>
        /\ IF Grown THEN room' = 2 * arrSize /\ arrSize' = 2 * arrSize ELSE UNCHANGED <<room, arrSize>>

\* print_dav_dir_entry(): printed at once, unless there is no memory for the link.
PrintProps(n) ==
  /\ job = "propfind" /\ Scanning(n) /\ n \notin Hidden /\ UNCHANGED <<entries, room, arrSize, names>>
  /\ \/ printed' = Append(printed, Entry(n)) /\ UNCHANGED <<pc, cut>>
     \/ MayFail /\ pc' = "sort" /\ cut' = TRUE /\ UNCHANGED printed

\* readdir() is at the end: whatever stayed has been returned.
EndScan ==
  /\ pc = "scan" /\ before \subseteq turned /\ pc' = "sort"
  /\ UNCHANGED <<disk, before, turned, entries, room, arrSize, printed, names, cut, answer, rest>>

-----------------------------------------------------------------------------
\* compare_dir_entries(): directories first, then the key, then the name.
Compare(a, b) ==
  LET key(e) == IF order.by = "s" THEN e.size ELSE IF order.by = "d" THEN e.mtime ELSE 0
      up == IF key(a) # key(b) THEN key(a) - key(b) ELSE a.name - b.name
  IN IF a.dir # b.dir THEN (IF a.dir THEN -1 ELSE 1) ELSE IF order.down THEN -up ELSE up

\* The element at j sinks by steps of gap, behind the first that is not greater.
Sink(s, j, gap) ==
  LET ks == {k \in 1 .. j : (j - k) % gap = 0
                            /\ \A m \in k + gap .. j : (j - m) % gap = 0 => Compare(s[m - gap], s[j]) > 0}
      k0 == CHOOSE k \in ks : \A k1 \in ks : k <= k1
  IN [m \in DOMAIN s |-> IF m = k0 THEN s[j] ELSE IF m > k0 /\ m <= j /\ (j - m) % gap = 0 THEN s[m - gap] ELSE s[m]]
Pass(s, gap) ==
  LET after[j \in 0 .. Len(s)] == IF j = 0 THEN s ELSE Sink(after[j - 1], j, gap)
  IN  after[Len(s)]

\* mg_sort(); a gap of more than half of the elements is left out.
Gaps == <<1750, 701, 301, 132, 57, 23, 10, 4, 1>>
MgSort(s) ==
  LET after[i \in 0 .. Len(Gaps)] ==
        IF i = 0 THEN s ELSE IF Gaps[i] > Len(s) \div 2 THEN after[i - 1] ELSE Pass(after[i - 1], Gaps[i])
  IN  after[Len(Gaps)]

Sort ==
  /\ pc = "sort" /\ pc' = "print" /\ answer' = (IF job = "list" THEN 200 ELSE 207)
  /\ entries' = MgSort(entries)
  /\ UNCHANGED <<disk, before, turned, room, arrSize, printed, names, cut, rest>>

\* print_dir_entry() may lack memory, which nobody looks at; the name is freed.
PrintEntry ==
  /\ pc = "print" /\ entries # <<>>
  /\ entries' = Tail(entries) /\ names' = names - 1
  /\ \/ printed' = Append(printed, Head(entries)) /\ UNCHANGED cut
     \/ MayFail /\ cut' = TRUE /\ UNCHANGED printed
  /\ UNCHANGED <<disk, pc, before, turned, room, arrSize, answer, rest>>

End ==
  /\ pc = "print" /\ entries = <<>> /\ pc' = "done" /\ room' = 0
  /\ UNCHANGED <<disk, before, turned, entries, arrSize, printed, names, cut, answer, rest>>

\* Someone adds or removes an entry.
Edit(n, k) ==
  /\ edits < req.edits /\ pc # "done" /\ disk[n] # k /\ edits' = edits + 1
  /\ disk' = [disk EXCEPT ![n] = k] /\ before' = IF k = Gone THEN before \ {n} ELSE before
  /\ UNCHANGED <<req, pc, turned, entries, room, arrSize, printed, names, cut, answer>>

Serving == Open \/ EndScan \/ Sort \/ PrintEntry \/ End \/ \E n \in Names : Skip(n) \/ AddEntry(n) \/ PrintProps(n)
Next == Serving \/ \E n \in Names, k \in Kinds \cup {Gone} : Edit(n, k)

Spec == Init /\ [][Next]_vars

-----------------------------------------------------------------------------
KindType  == [dir : BOOLEAN, size : Int, mtime : Int]
EntryType == [name : Int, dir : BOOLEAN, size : Int, mtime : Int]
OrderType == [by : {"n", "s", "d"}, down : BOOLEAN]
IsTree(t) == t \in [DOMAIN t -> KindType] /\ DOMAIN t \subseteq Int

\* What the constants are, for the proofs.
ConstantsAreProper ==
  /\ FirstSize \in Nat \ {0} /\ Kinds \subseteq KindType
  /\ \A r \in Requests : /\ r.job \in {"list", "propfind", "depth0"} /\ r.order \in OrderType
                         /\ r.fails \in BOOLEAN /\ IsTree(r.tree)

TypeOK ==
  /\ pc \in {"open", "scan", "sort", "print", "done"} /\ turned \subseteq Names /\ before \subseteq Names
  /\ names \in Nat /\ room \in Nat /\ cut \in BOOLEAN /\ answer \in {0, 200, 207, 500}
  /\ job = "list" => names = Len(entries)

Done == pc = "done"
Shown == {printed[i].name : i \in DOMAIN printed}

\* No element is written behind the memory of the array, however many entries there
\* are and whichever allocation fails (dir_scan_callback()).
InBounds == Len(entries) <= room \/ pc \in {"done"}

\* What was there all the time is shown once, unless memory ran out; what is hidden is
\* not shown at all.
ShownOnce ==
  /\ Shown \cap Hidden = {}
  /\ Cardinality(Shown) = Len(printed)
  /\ (Done /\ answer \in {200, 207} /\ job # "depth0" /\ ~cut) => before \ Hidden \subseteq Shown

\* A listing shows directories first, and each kind in the order that was asked for, the
\* names deciding between equals (mg_sort(), compare_dir_entries()).
InOrder ==
  (Done /\ job = "list") =>
    \A i, j \in DOMAIN printed :
       LET a == printed[i] b == printed[j]
           less(x, y) ==
             \/ order.by = "s" /\ (x.size < y.size \/ (x.size = y.size /\ x.name < y.name))
             \/ order.by = "d" /\ (x.mtime < y.mtime \/ (x.mtime = y.mtime /\ x.name < y.name))
             \/ order.by = "n" /\ x.name < y.name
       IN i < j => /\ b.dir => a.dir
                   /\ a.dir = b.dir => IF order.down THEN less(b, a) ELSE less(a, b)

\* Every name that was copied for the listing is freed once.
NamesFreed == Done => names = 0

(* What makes them inductive.  The array has room for its entries; each name  *)
(* that was returned is an entry or printed, once, and no hidden one is.      *)
Typed ==
  /\ req \in Requests /\ IsTree(disk) /\ arrSize \in Nat \ {0}
  /\ entries \in Seq(EntryType) /\ printed \in Seq(EntryType)
RoomIsKept == names = Len(entries) /\ (pc = "done" \/ Len(entries) <= room) /\ (room = 0 \/ room = arrSize)
Listed == {entries[i].name : i \in DOMAIN entries}
Distinct(s) == \A i, j \in DOMAIN s : s[i].name = s[j].name => i = j
OneEach ==
  /\ Distinct(entries) /\ Distinct(printed) /\ Listed \cap Shown = {}
  /\ Listed \cup Shown \subseteq turned \ Hidden
  /\ ~cut => turned \ Hidden \subseteq Listed \cup Shown

(* Where the steps are: the scan is before the printing, and ends when all    *)
(* that stayed has been returned.                                             *)
Stage ==
  /\ pc = "open" => turned = {} /\ entries = <<>> /\ printed = <<>> /\ ~cut
  /\ job = "list" /\ pc \in {"scan", "sort"} => printed = <<>>
  /\ job # "list" \/ pc = "done" => entries = <<>>
  /\ answer = 500 => pc = "done"
  /\ pc \in {"sort", "print", "done"} /\ ~cut /\ job # "depth0" /\ answer # 500 => before \subseteq turned

(* From the sort on, what is printed and what is left are in order.           *)
InTurn(a, b) == Compare(a, b) <= 0
Ascending(s) == \A i, j \in DOMAIN s : i < j => InTurn(s[i], s[j])
Ordered ==
  job = "list" /\ pc \in {"print", "done"} =>
    /\ Ascending(printed) /\ Ascending(entries)
    /\ \A i \in DOMAIN printed, j \in DOMAIN entries : InTurn(printed[i], entries[j])

ListInv == TypeOK /\ Typed /\ RoomIsKept /\ OneEach /\ Stage /\ Ordered
=============================================================================
