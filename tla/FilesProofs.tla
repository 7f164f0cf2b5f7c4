----------------------------- MODULE FilesProofs -----------------------------
(***************************************************************************)
(* What CivetWeb does with files, for every value of the constants: a path *)
(* never has two holders, and who is granted a lock is told his own token; *)
(* a request that changes files does what its answer says; the body of a   *)
(* response is the part of the file that its head announces; and a listing *)
(* shows once what was there all the time, in order.  For any users, paths,*)
(* slots, files, directories and requests, and, where files are changed,   *)
(* up to nine workers.                                                     *)
(***************************************************************************)
EXTENDS MCFiles, TLAPS, FiniteSetTheorems, WellFoundedInduction

-----------------------------------------------------------------------------
(* Locks: OneHolder is inductive.                                          *)

\* The part of the type invariant that the argument needs.
TableTyped ==
  /\ path \in [Index -> Paths \cup {Free}] /\ user \in [Index -> Users \cup {NoUser}]
  /\ request \in [Workers -> Requests]

LockInv == TableTyped /\ OneHolder

\* Requests of idle workers change, the table does not.
LEMMA BeginKeepsLocks ==
  ASSUME LockInv, NEW w \in Workers, NEW r \in Requests, Begin(w, r)
  PROVE  LockInv'
BY DEF LockInv, TableTyped, OneHolder, Begin, table

\* A LOCK that is let through finds no slot of another user that is not cleared: either
\* the path has no slot of the user's own, and all others of the path expired, or it has
\* one, and then all its slots are the user's own.
LEMMA OthersAreCleared ==
  ASSUME LockInv, NEW w \in Workers, ~Taken(w), NEW j \in Index,
         path[j] = request[w].path, user[j] # request[w].user
  PROVE  j \in Cleared(w)
<1>1. path[j] # Free
  BY FreeAssumption DEF LockInv, TableTyped, Requests
<1>2. Own(w) = {}
  BY <1>1 DEF LockInv, OneHolder, Own
<1>3. Before(w) = Others(w)
  BY <1>2 DEF Before
<1>4. j \in Before(w)
  BY <1>3 DEF Others
<1> QED BY <1>4 DEF Taken, Cleared

\* dav_lock_file() keeps one holder for each path.
LEMMA LockKeepsLocks ==
  ASSUME LockInv, NEW w \in Workers, Lock(w)
  PROVE  LockInv'
<1> DEFINE cleared == [i \in Index |-> IF i \in Cleared(w) THEN Free ELSE path[i]]
           r       == request[w]
<1>1. r \in Requests /\ r.path \in Paths /\ r.user \in Users /\ request' = request
  BY DEF LockInv, TableTyped, Requests, Lock
<1>2. cleared \in [Index -> Paths \cup {Free}]
  BY DEF LockInv, TableTyped
<1>3. \A i \in Index : cleared[i] # Free => cleared[i] = path[i]
  OBVIOUS
<1>4. CASE path' = cleared /\ user' = user
  BY <1>1, <1>2, <1>3, <1>4 DEF LockInv, TableTyped, OneHolder
<1>5. CASE \E k : path' = [cleared EXCEPT ![k] = Free] /\ user' = user
  <2>1. PICK k : path' = [cleared EXCEPT ![k] = Free] /\ user' = user
    BY <1>5
  <2>2. \A i \in Index : path'[i] # Free => path'[i] = path[i]
    BY <2>1, <1>2, <1>3
  <2>3. path' \in [Index -> Paths \cup {Free}]
    BY <2>1, <1>2
  <2> QED BY <1>1, <2>1, <2>2, <2>3 DEF LockInv, TableTyped, OneHolder
<1>6. CASE ~Taken(w) /\ \E k : path' = [cleared EXCEPT ![k] = r.path]
           /\ user' = [user EXCEPT ![k] = r.user]
  <2>1. PICK k : path' = [cleared EXCEPT ![k] = r.path] /\ user' = [user EXCEPT ![k] = r.user]
    BY <1>6
  <2>2. path' \in [Index -> Paths \cup {Free}] /\ user' \in [Index -> Users \cup {NoUser}]
    BY <2>1, <1>1, <1>2 DEF LockInv, TableTyped
  <2>3. \A i \in Index : i # k => (path'[i] = cleared[i] /\ user'[i] = user[i])
    BY <2>1, <1>2 DEF LockInv, TableTyped
  <2>4. k \in Index => (path'[k] = r.path /\ user'[k] = r.user)
    BY <2>1, <1>2 DEF LockInv, TableTyped
  <2>5. \A i \in Index : (path'[i] = r.path) => user'[i] = r.user
    <3> SUFFICES ASSUME NEW i \in Index, path'[i] = r.path, i # k, user[i] # r.user
                 PROVE  FALSE
      BY <2>3, <2>4
    <3>1. cleared[i] = r.path /\ r.path # Free
      BY <2>3, <1>1, FreeAssumption
    <3>2. path[i] = r.path /\ i \notin Cleared(w)
      BY <3>1
    <3> QED BY <3>2, <1>6, OthersAreCleared
  <2>6. \A i, j \in Index : (path'[i] = path'[j] /\ path'[i] # Free) => user'[i] = user'[j]
    <3> SUFFICES ASSUME NEW i \in Index, NEW j \in Index, path'[i] = path'[j], path'[i] # Free
                 PROVE  user'[i] = user'[j]
      OBVIOUS
    <3>1. CASE path'[i] = r.path
      BY <3>1, <2>5
    <3>2. CASE path'[i] # r.path
      <4>1. i # k /\ j # k
        BY <3>2, <2>4
      <4>2. path[i] = path[j] /\ path[i] # Free
        BY <4>1, <2>3, <1>3
      <4> QED BY <4>1, <4>2, <2>3 DEF LockInv, OneHolder
    <3> QED BY <3>1, <3>2
  <2> QED BY <2>2, <2>6, <1>1 DEF LockInv, TableTyped, OneHolder
<1> QED BY <1>4, <1>5, <1>6 DEF Lock

\* The other steps leave the table alone.
LEMMA OthersKeepLocks ==
  ASSUME LockInv, \/ \E w \in Workers : Reply(w) \/ Unlock(w)
                  \/ Tick
                  \/ UNCHANGED vars
  PROVE  LockInv'
BY DEF LockInv, TableTyped, OneHolder, Reply, Unlock, Tick, vars, table, worker

\* A path never has two holders (dav_lock_file()).
THEOREM OnlyOneHolder == Spec => []OneHolder
<1>1. Init => LockInv
  BY DEF Init, LockInv, TableTyped, OneHolder, Requests
<1>2. LockInv /\ [Next]_vars => LockInv'
  BY BeginKeepsLocks, LockKeepsLocks, OthersKeepLocks DEF Next
<1>3. LockInv => OneHolder
  BY DEF LockInv
<1> QED BY <1>1, <1>2, <1>3, PTL DEF Spec

-----------------------------------------------------------------------------
(* Locks: SlotsInv is inductive, for every number of slots.                *)

\* Numbers have a least one, so that the first slot of several is one of them.
LEMMA LeastIs ==
  ASSUME NEW S \in SUBSET Nat, S # {}
  PROVE  \E i \in S : \A j \in S : i <= j
<1> DEFINE R == OpToRel(<, Nat)
<1>1. IsWellFoundedOn(R, Nat)
  BY NatLessThanWellFounded
<1>2. \A x, y \in Nat : (<<x, y>> \in R) <=> (x < y)
  BY DEF OpToRel
<1> HIDE DEF R
<1>3. PICK i \in S : \A j \in S : ~ (<<j, i>> \in R)
  BY <1>1, WFMin
<1>4. \A j \in S : i <= j
  <2> TAKE j \in S
  <2>1. i \in Nat /\ j \in Nat /\ ~(j < i)
    BY <1>2, <1>3
  <2> QED BY <2>1
<1> QED BY <1>4

LEMMA FirstIs ==
  ASSUME NEW S \in SUBSET Index, S # {}
  PROVE  First(S) \in S
<1>1. \E i \in S : \A j \in S : i <= j
  BY LeastIs, SlotsAssumption DEF Index
<1> QED BY <1>1 DEF First

LEMMA OldestIs ==
  ASSUME TypeOK
  PROVE  Oldest \in Index
<1> DEFINE times == {locktime[i] : i \in Index}
<1>1. times \in SUBSET Nat /\ times # {}
  <2>1. 1 \in Index
    BY SlotsAssumption DEF Index
  <2> QED BY <2>1 DEF TypeOK
<1>2. PICK t \in times : \A u \in times : t <= u
  BY <1>1, LeastIs
<1> DEFINE old == {i \in Index : locktime[i] = t}
<1>3. old # {} /\ old \in SUBSET Nat /\ old \subseteq Index
  BY <1>2, SlotsAssumption DEF Index
<1>4. PICK i \in old : \A j \in old : i <= j
  <2> HIDE DEF old
  <2> QED BY <1>3, LeastIs
<1>5. i \in Index /\ locktime[i] = t
  BY <1>4
<1>6. \A j \in Index : locktime[i] <= locktime[j]
  BY <1>2, <1>5
<1>7. ASSUME NEW j \in Index, j < i PROVE locktime[i] < locktime[j]
  <2>1. j \notin old /\ i \in Nat /\ j \in Nat
    BY <1>3, <1>4, <1>7, SlotsAssumption DEF Index
  <2>2. locktime[j] # t /\ t <= locktime[j]
    BY <1>2, <2>1
  <2>3. t \in Nat /\ locktime[j] \in Nat
    BY <1>5 DEF TypeOK
  <2> QED BY <1>5, <2>2, <2>3
<1>8. \E k \in Index : /\ \A j \in Index : locktime[k] <= locktime[j]
                       /\ \A j \in Index : j < k => locktime[k] < locktime[j]
  BY <1>5, <1>6, <1>7
<1> QED BY <1>8 DEF Oldest

LEMMA EndsTyped ==
  ASSUME TypeOK, NEW w \in Workers, NEW n \in {200, 204, 423}, NEW t \in Tokens,
         NEW u \in Users \cup {NoUser},
         Ends(w, n, t, u)
  PROVE  /\ pc' \in [Workers -> {"idle", "lock", "unlock", "reply"}] /\ pc'[w] = "idle"
         /\ answer' \in [Workers -> [status : {0, 200, 204, 423}, token : Tokens,
            user : Users \cup {NoUser}]]
         /\ answer'[w].status = n /\ answer'[w].token = t /\ answer'[w].user = u
         /\ \A v \in Workers \ {w} : pc'[v] = pc[v] /\ answer'[v] = answer[v]
BY DEF TypeOK, Ends

LEMMA NoTokenTyped == NoToken \in Tokens /\ NoUser \in Users \cup {NoUser}
BY DEF NoToken, Tokens

\* One LOCK, seen from outside: what is in the table afterwards.
LEMMA LockDoes ==
  ASSUME TypeOK, NEW w \in Workers, Lock(w)
  PROVE  /\ TypeOK' /\ UNCHANGED <<clock, request, begun>> /\ pc[w] = "lock"
         /\ \A v \in Workers \ {w} : pc'[v] = pc[v] /\ answer'[v] = answer[v] /\ slot'[v] = slot[v]
         /\ \/ pc'[w] = "idle" /\ answer'[w].status = 423
            \/ pc'[w] = "reply" /\ answer'[w] = answer[w] /\ slot'[w] \in Index
         /\ \A i \in Index : (path'[i] # path[i] /\ path[i] # Free) =>
              (Expired(i) \/ \A j \in Index : path[j] # Free)
         /\ (\A i \in Index : ~Expired(i)) /\ (\E i \in Index : path[i] = Free) =>
              \/ pc'[w] = "idle" /\ UNCHANGED <<path, user, token>>
              \/ /\ pc'[w] = "reply" /\ slot'[w] \in Index /\ path[slot'[w]] = Free
                 /\ path' = [path EXCEPT ![slot'[w]] = request[w].path]
                 /\ user' = [user EXCEPT ![slot'[w]] = request[w].user]
                 /\ token'[slot'[w]].path = request[w].path
                 /\ \A i \in Index : i # slot'[w] => token'[i] = token[i]
<1> DEFINE cleared == [i \in Index |-> IF i \in Cleared(w) THEN Free ELSE path[i]]
           renewed == [i \in Index |-> IF Own(w) # {} /\ i = First(Own(w)) THEN clock
           ELSE locktime[i]]
           free    == {i \in Index : cleared[i] = Free}
           r       == request[w]
<1>1. /\ r \in Requests /\ r.path \in Paths /\ r.user \in Users /\ clock \in Nat
      /\ UNCHANGED <<clock, request, begun>> /\ pc[w] = "lock"
  BY DEF TypeOK, Requests, Lock
<1>2. cleared \in [Index -> Paths \cup {Free}] /\ renewed \in [Index -> Nat]
  BY <1>1 DEF TypeOK
<1>3. \A i \in Index : cleared[i] # path[i] => Expired(i)
  BY DEF Cleared
<1>4. \/ Taken(w) /\ path' = cleared /\ UNCHANGED <<user, locktime, token, slot>>
         /\ Ends(w, 423, NoToken, NoUser)
      \/ /\ pc' = [pc EXCEPT ![w] = "reply"] /\ UNCHANGED answer
         /\ \/ /\ free # {}
               /\ path' = [cleared EXCEPT ![First(free)] = r.path]
               /\ user' = [user EXCEPT ![First(free)] = r.user]
               /\ locktime' = [renewed EXCEPT ![First(free)] = clock]
               /\ token' = [token EXCEPT ![First(free)] = [path |-> r.path, user |-> r.user,
                  time |-> clock]]
               /\ slot' = [slot EXCEPT ![w] = First(free)]
            \/ /\ free = {} /\ locktime' = renewed /\ UNCHANGED <<user, token>>
               /\ \/ Own(w) # {} /\ slot' = [slot EXCEPT ![w] = First(Own(w))] /\ path' = cleared
                  \/ slot' = [slot EXCEPT ![w] = Oldest]
                     /\ path' = [cleared EXCEPT ![Oldest] = Free]
  BY DEF Lock
<1>5. (First(free) \in Index /\ cleared[First(free)] = Free) \/ free = {}
  <2>1. CASE free # {}
    <3>1. free \in SUBSET Index
      OBVIOUS
    <3> HIDE DEF free
    <3>2. First(free) \in free
      BY <2>1, <3>1, FirstIs
    <3> QED BY <3>2 DEF free
  <2> QED BY <2>1
<1>6. Own(w) # {} => First(Own(w)) \in Index
  BY FirstIs DEF Own
<1>7. Oldest \in Index
  BY OldestIs
<1>8. Index \subseteq 0 .. Slots
  BY SlotsAssumption DEF Index
<1>9. (\A i \in Index : ~Expired(i)) => cleared = path
  BY <1>2, <1>3 DEF TypeOK
<1> HIDE DEF cleared, renewed
<1>10. CASE Taken(w) /\ path' = cleared /\ UNCHANGED <<user, locktime, token, slot>>
            /\ Ends(w, 423, NoToken, NoUser)
  <2>1. /\ pc' \in [Workers -> {"idle", "lock", "unlock", "reply"}] /\ pc'[w] = "idle"
        /\ answer' \in [Workers -> [status : {0, 200, 204, 423}, token : Tokens,
           user : Users \cup {NoUser}]]
        /\ answer'[w].status = 423
        /\ \A v \in Workers \ {w} : pc'[v] = pc[v] /\ answer'[v] = answer[v]
    BY <1>10, EndsTyped, NoTokenTyped
  <2>2. TypeOK'
    BY <1>1, <1>2, <1>10, <2>1 DEF TypeOK, Index, Tokens
  <2> QED BY <1>1, <1>3, <1>9, <1>10, <2>1, <2>2
<1>11. CASE /\ pc' = [pc EXCEPT ![w] = "reply"] /\ UNCHANGED answer /\ free # {}
            /\ path' = [cleared EXCEPT ![First(free)] = r.path]
            /\ user' = [user EXCEPT ![First(free)] = r.user]
            /\ locktime' = [renewed EXCEPT ![First(free)] = clock]
            /\ token' = [token EXCEPT ![First(free)] = [path |-> r.path, user |-> r.user,
               time |-> clock]]
            /\ slot' = [slot EXCEPT ![w] = First(free)]
  <2> DEFINE k == First(free)
  <2>1. k \in Index /\ cleared[k] = Free
    BY <1>5, <1>11
  <2> HIDE DEF k
  <2>2. /\ path' = [cleared EXCEPT ![k] = r.path] /\ user' = [user EXCEPT ![k] = r.user]
        /\ locktime' = [renewed EXCEPT ![k] = clock] /\ slot' = [slot EXCEPT ![w] = k]
        /\ token' = [token EXCEPT ![k] = [path |-> r.path, user |-> r.user, time |-> clock]]
        /\ pc' = [pc EXCEPT ![w] = "reply"] /\ UNCHANGED answer
    BY <1>11 DEF k
  <2>3. slot'[w] = k /\ pc'[w] = "reply" /\ \A v \in Workers \ {w} : pc'[v] = pc[v]
        /\ slot'[v] = slot[v]
    BY <2>2 DEF TypeOK
  <2>4. [path |-> r.path, user |-> r.user, time |-> clock] \in Tokens
    BY <1>1 DEF Tokens
  <2>5. token'[k].path = r.path /\ \A i \in Index : i # k => token'[i] = token[i]
    BY <2>1, <2>2 DEF TypeOK
  <2>6. TypeOK'
    <3>1. path' \in [Index -> Paths \cup {Free}] /\ user' \in [Index -> Users \cup {NoUser}]
      BY <1>1, <1>2, <2>2 DEF TypeOK
    <3>2. locktime' \in [Index -> Nat] /\ token' \in [Index -> Tokens]
          /\ slot' \in [Workers -> 0 .. Slots]
      BY <1>1, <1>2, <1>8, <2>1, <2>2, <2>4 DEF TypeOK
    <3>3. pc' \in [Workers -> {"idle", "lock", "unlock", "reply"}]
      BY <2>2 DEF TypeOK
    <3> QED BY <1>1, <2>2, <3>1, <3>2, <3>3 DEF TypeOK, Index, Tokens
  <2>7. \A i \in Index : (path'[i] # path[i] /\ path[i] # Free) => Expired(i)
    BY <1>2, <1>3, <2>1, <2>2
  <2>8. (\A i \in Index : ~Expired(i)) => (path[k] = Free /\ path' = [path EXCEPT ![k] = r.path])
    BY <1>9, <2>1, <2>2
  <2> QED BY <1>1, <2>1, <2>2, <2>3, <2>5, <2>6, <2>7, <2>8
<1>12. CASE /\ pc' = [pc EXCEPT ![w] = "reply"] /\ UNCHANGED answer
            /\ free = {} /\ locktime' = renewed /\ UNCHANGED <<user, token>>
            /\ \E k \in Index : /\ slot' = [slot EXCEPT ![w] = k]
                                /\ path' = cleared \/ path' = [cleared EXCEPT ![k] = Free]
  <2>1. PICK k \in Index : slot' = [slot EXCEPT ![w] = k]
        /\ (path' = cleared \/ path' = [cleared EXCEPT ![k] = Free])
    BY <1>12
  <2>2. \A j \in Index : cleared[j] # Free
    BY <1>12
  <2>3. \A j \in Index : path[j] # Free
    BY <2>2 DEF cleared
  <2>4. TypeOK'
    <3>1. path' \in [Index -> Paths \cup {Free}]
      BY <1>2, <2>1
    <3>2. slot' \in [Workers -> 0 .. Slots]
          /\ pc' \in [Workers -> {"idle", "lock", "unlock", "reply"}]
      BY <1>8, <1>12, <2>1 DEF TypeOK
    <3> QED BY <1>1, <1>2, <1>12, <3>1, <3>2 DEF TypeOK, Index, Tokens
  <2>5. pc'[w] = "reply" /\ slot'[w] \in Index /\ \A v \in Workers \ {w} : pc'[v] = pc[v]
        /\ slot'[v] = slot[v]
    BY <1>12, <2>1 DEF TypeOK
  <2> QED BY <1>1, <1>12, <2>3, <2>4, <2>5
<1> HIDE DEF free
<1> QED BY <1>4, <1>6, <1>7, <1>10, <1>11, <1>12

\* Who takes a slot leaves the others theirs.
LEMMA LockKeepsSlots ==
  ASSUME SlotsInv, NEW w \in Workers, Lock(w)
  PROVE  SlotsInv'
<1>1. TypeOK /\ TypeOK' /\ UNCHANGED <<clock, request, begun>> /\ pc[w] = "lock" /\ AnswerIsOwn
  BY LockDoes DEF SlotsInv
<1>11. \A v \in Workers : pc'[v] = "reply" => slot'[v] \in Index
  <2> TAKE v \in Workers
  <2>1. pc[v] = "reply" => slot[v] \in Index
    BY DEF SlotsInv
  <2>2. CASE v = w
    BY <1>1, <2>2, LockDoes
  <2>3. CASE v # w
    BY <1>1, <2>1, <2>3, LockDoes
  <2> QED BY <2>2, <2>3
<1>2. SUFFICES ASSUME begun <= Slots, clock <= Duration
               PROVE  /\ \A v \in Workers : answer'[v].status = 200
                           => (answer'[v].user = request[v].user
                           /\ answer'[v].token.path = request[v].path)
                      /\ Cardinality(Used') + Cardinality(Locking') <= begun
                      /\ \A v \in Workers : SlotIsOwn(v)'
  BY <1>1, <1>11 DEF SlotsInv, AnswerIsOwn, Index
<1>3. Cardinality(Used) + Cardinality(Locking) <= begun /\ \A v \in Workers : SlotIsOwn(v)
  BY <1>2 DEF SlotsInv
<1>4. \A i \in Index : ~Expired(i)
  BY <1>1, <1>2, DurationAssumption DEF TypeOK, Expired
<1>5. /\ IsFiniteSet(Index) /\ Cardinality(Index) = Slots
      /\ IsFiniteSet(Used) /\ Cardinality(Used) \in Nat /\ IsFiniteSet(Locking)
      /\ Cardinality(Locking) \in Nat
  <2>1. IsFiniteSet(Index) /\ Cardinality(Index) = Slots
    BY FS_Interval, SlotsAssumption DEF Index
  <2>2. Used \in SUBSET Index /\ Locking \in SUBSET Workers
    BY DEF Used, Locking
  <2>3. IsFiniteSet(Used) /\ IsFiniteSet(Locking)
    BY <2>1, <2>2, FS_Subset, WorkersAssumption
  <2> QED BY <2>1, <2>3, FS_CardinalityType
<1>6. Locking' = Locking \ {w} /\ w \in Locking
  BY <1>1, LockDoes DEF Locking
<1>7. Cardinality(Locking') = Cardinality(Locking) - 1
  BY <1>5, <1>6, FS_RemoveElement
<1>8. \E i \in Index : path[i] = Free
  <2>1. CASE Used = Index
    <3>1. Cardinality(Locking') \in Nat
      BY <1>5, <1>6, FS_RemoveElement, FS_CardinalityType
    <3> QED BY <1>1, <1>2, <1>3, <1>5, <1>7, <2>1, <3>1, SlotsAssumption DEF TypeOK
  <2> QED BY <2>1 DEF Used
<1>9. CASE pc'[w] = "idle" /\ UNCHANGED <<path, user, token>>
  <2>1. answer'[w].status = 423
    <3>1. (pc'[w] = "idle" /\ answer'[w].status = 423) \/ pc'[w] = "reply"
      BY <1>1, LockDoes
    <3> QED BY <1>9, <3>1
  <2>2. Used' = Used
    BY <1>9 DEF Used
  <2>3. ASSUME NEW v \in Workers PROVE SlotIsOwn(v)'
    BY <1>1, <1>3, <1>9, <2>2, LockDoes DEF SlotIsOwn
  <2>4. \A v \in Workers : v # w => answer'[v] = answer[v]
    BY LockDoes, <1>1
  <2> QED BY <1>1, <1>2, <1>3, <1>5, <1>7, <2>1, <2>2, <2>3, <2>4 DEF AnswerIsOwn, TypeOK
<1>10. CASE /\ pc'[w] = "reply" /\ slot'[w] \in Index /\ path[slot'[w]] = Free
            /\ path' = [path EXCEPT ![slot'[w]] = request[w].path]
            /\ user' = [user EXCEPT ![slot'[w]] = request[w].user]
            /\ token'[slot'[w]].path = request[w].path
            /\ \A i \in Index : i # slot'[w] => token'[i] = token[i]
  <2>1. request[w].path \in Paths /\ request[w].path # Free
    BY <1>1, FreeAssumption DEF TypeOK, Requests
  <2>2. Used' = Used \cup {slot'[w]} /\ slot'[w] \notin Used
    BY <1>1, <1>10, <2>1 DEF Used, TypeOK
  <2>3. Cardinality(Used') = Cardinality(Used) + 1
    BY <1>5, <2>2, FS_AddElement
  <2>4. ASSUME NEW v \in Workers PROVE SlotIsOwn(v)'
    <3>1. CASE v = w
      BY <1>1, <1>10, <2>2, <3>1 DEF SlotIsOwn, TypeOK
    <3>2. CASE v # w
      <4>1. pc'[v] = pc[v] /\ slot'[v] = slot[v] /\ SlotIsOwn(v)
        BY <1>1, <1>3, <3>2, LockDoes
      <4>2. ASSUME pc[v] = "reply" PROVE slot[v] \in Index /\ slot[v] # slot'[w]
        BY <2>2, <4>1, <4>2 DEF SlotIsOwn, Used
      <4> QED BY <1>1, <1>10, <2>2, <4>1, <4>2 DEF SlotIsOwn, TypeOK
    <3> QED BY <3>1, <3>2
  <2>5. \A v \in Workers : answer'[v] = answer[v]
    BY <1>1, <1>10, LockDoes
  <2> QED BY <1>1, <1>2, <1>3, <1>5, <1>7, <2>3, <2>4, <2>5 DEF AnswerIsOwn, TypeOK
<1> QED BY <1>1, <1>4, <1>8, <1>9, <1>10, LockDoes

LEMMA ReplyKeepsSlots ==
  ASSUME SlotsInv, NEW w \in Workers, Reply(w)
  PROVE  SlotsInv'
<1>1. /\ TypeOK /\ AnswerIsOwn /\ pc[w] = "reply"
      /\ UNCHANGED <<clock, table, request, slot, begun>>
      /\ Ends(w, 200, token[slot[w]], user[slot[w]]) /\ slot[w] \in Index
  BY DEF SlotsInv, Reply
<1>2. token[slot[w]] \in Tokens /\ user[slot[w]] \in Users \cup {NoUser}
  BY <1>1 DEF TypeOK
<1>3. /\ pc' \in [Workers -> {"idle", "lock", "unlock", "reply"}] /\ pc'[w] = "idle"
      /\ answer' \in [Workers -> [status : {0, 200, 204, 423}, token : Tokens,
         user : Users \cup {NoUser}]]
      /\ answer'[w].token = token[slot[w]] /\ answer'[w].user = user[slot[w]]
      /\ \A v \in Workers \ {w} : pc'[v] = pc[v] /\ answer'[v] = answer[v]
  BY <1>1, <1>2, EndsTyped
<1>4. TypeOK'
  BY <1>1, <1>3 DEF TypeOK, table, Tokens, Index
<1>5. \A v \in Workers : pc'[v] = "reply" => (pc[v] = "reply" /\ slot'[v] \in Index')
  BY <1>1, <1>3 DEF SlotsInv, Index
<1>6. ASSUME begun <= Slots, clock <= Duration
      PROVE  /\ \A v \in Workers : answer'[v].status = 200
                  => (answer'[v].user = request[v].user /\ answer'[v].token.path = request[v].path)
             /\ Cardinality(Used') + Cardinality(Locking') <= begun
             /\ \A v \in Workers : SlotIsOwn(v)'
  <2>1. Cardinality(Used) + Cardinality(Locking) <= begun /\ \A v \in Workers : SlotIsOwn(v)
    BY <1>6 DEF SlotsInv
  <2>2. Used' = Used /\ Locking' = Locking
    BY <1>1, <1>3 DEF Used, Locking, table
  <2>3. user[slot[w]] = request[w].user /\ token[slot[w]].path = request[w].path
    BY <1>1, <2>1 DEF SlotIsOwn
  <2>4. \A v \in Workers : SlotIsOwn(v)'
    BY <1>1, <1>5, <2>1, <2>2 DEF SlotIsOwn, table
  <2> QED BY <1>1, <1>3, <1>6, <2>1, <2>2, <2>3, <2>4 DEF AnswerIsOwn
<1> QED BY <1>1, <1>4, <1>5, <1>6 DEF SlotsInv, AnswerIsOwn

LEMMA UnlockKeepsSlots ==
  ASSUME SlotsInv, NEW w \in Workers, Unlock(w)
  PROVE  SlotsInv'
<1>1. /\ TypeOK /\ AnswerIsOwn /\ pc[w] = "unlock"
      /\ UNCHANGED <<clock, table, request, slot, begun>>
      /\ \E n \in {204, 423} : Ends(w, n, NoToken, NoUser)
  BY DEF SlotsInv, Unlock
<1>2. /\ pc' \in [Workers -> {"idle", "lock", "unlock", "reply"}] /\ pc'[w] = "idle"
      /\ answer' \in [Workers -> [status : {0, 200, 204, 423}, token : Tokens,
         user : Users \cup {NoUser}]]
      /\ answer'[w].status \in {204, 423}
      /\ \A v \in Workers \ {w} : pc'[v] = pc[v] /\ answer'[v] = answer[v]
  BY <1>1, EndsTyped, NoTokenTyped
<1>3. TypeOK'
  BY <1>1, <1>2 DEF TypeOK, table, Tokens, Index
<1>4. Used' = Used /\ Locking' = Locking
  BY <1>1, <1>2 DEF Used, Locking, table
<1>5. \A v \in Workers : pc'[v] = "reply" => (pc[v] = "reply" /\ slot'[v] \in Index')
  BY <1>1, <1>2 DEF SlotsInv, Index
<1>6. \A v \in Workers : SlotIsOwn(v) => SlotIsOwn(v)'
  BY <1>1, <1>4, <1>5 DEF SlotIsOwn, table
<1>7. AnswerIsOwn'
  BY <1>1, <1>2 DEF AnswerIsOwn
<1> QED BY <1>1, <1>3, <1>4, <1>5, <1>6, <1>7 DEF SlotsInv

LEMMA BeginKeepsSlots ==
  ASSUME SlotsInv, NEW w \in Workers, NEW r \in Requests, Begin(w, r)
  PROVE  SlotsInv'
<1>1. /\ TypeOK /\ AnswerIsOwn /\ pc[w] = "idle" /\ UNCHANGED <<clock, table, slot>>
      /\ begun' = begun + 1
      /\ r.op \in {"lock", "unlock"} /\ begun \in Nat
  BY DEF SlotsInv, Begin, Requests, TypeOK
<1>2. Silence \in [status : {0, 200, 204, 423}, token : Tokens, user : Users \cup {NoUser}]
      /\ Silence.status = 0
  BY NoTokenTyped DEF Silence
<1>3. /\ pc' \in [Workers -> {"idle", "lock", "unlock", "reply"}] /\ pc'[w] \in {"lock", "unlock"}
      /\ request' \in [Workers -> Requests]
      /\ \A v \in Workers \ {w} : pc'[v] = pc[v] /\ request'[v] = request[v]
  BY <1>1 DEF Begin, TypeOK
<1>4. /\ answer' \in [Workers -> [status : {0, 200, 204, 423}, token : Tokens,
         user : Users \cup {NoUser}]]
      /\ answer'[w].status = 0
      /\ \A v \in Workers \ {w} : answer'[v] = answer[v]
  BY <1>1, <1>2 DEF Begin, TypeOK
<1>5. TypeOK'
  BY <1>1, <1>3, <1>4 DEF TypeOK, table, Tokens, Index
<1>6. \A v \in Workers : pc'[v] = "reply" => (v # w /\ pc[v] = "reply" /\ slot'[v] \in Index')
  BY <1>1, <1>3 DEF SlotsInv, Index
<1>7. Used' = Used /\ \A v \in Workers : SlotIsOwn(v) => SlotIsOwn(v)'
  BY <1>1, <1>3, <1>6 DEF SlotIsOwn, Used, table
<1>8. AnswerIsOwn'
  <2> SUFFICES ASSUME begun' <= Slots, clock' <= Duration, NEW v \in Workers,
                      answer'[v].status = 200
               PROVE  answer'[v].user = request'[v].user /\ answer'[v].token.path = request'[v].path
    BY DEF AnswerIsOwn
  <2>1. begun <= Slots /\ clock <= Duration /\ v # w
    BY <1>1, <1>4, SlotsAssumption
  <2> QED BY <1>1, <1>3, <1>4, <2>1 DEF AnswerIsOwn
<1>9. Cardinality(Locking') <= Cardinality(Locking) + 1 /\ Cardinality(Locking) \in Nat
      /\ Cardinality(Locking') \in Nat
  <2>1. Locking' \in {Locking, Locking \cup {w}}
    BY <1>1, <1>3 DEF Locking
  <2>2. IsFiniteSet(Locking)
    BY FS_Subset, WorkersAssumption DEF Locking
  <2>3. IsFiniteSet(Locking \cup {w})
        /\ Cardinality(Locking \cup {w}) \in {Cardinality(Locking), Cardinality(Locking) + 1}
    BY <2>2, FS_AddElement
  <2>4. Cardinality(Locking) \in Nat
    BY <2>2, FS_CardinalityType
  <2>5. CASE Locking' = Locking
    BY <2>4, <2>5
  <2>6. CASE Locking' = Locking \cup {w}
    BY <2>3, <2>4, <2>6
  <2> QED BY <2>1, <2>5, <2>6
<1>10. Cardinality(Used) \in Nat
  <2>1. IsFiniteSet(Index) /\ Used \in SUBSET Index
    BY FS_Interval, SlotsAssumption DEF Index, Used
  <2>2. IsFiniteSet(Used)
    BY <2>1, FS_Subset
  <2> QED BY <2>2, FS_CardinalityType
<1>11. (begun' <= Slots /\ clock' <= Duration) =>
          /\ Cardinality(Used') + Cardinality(Locking') <= begun'
          /\ \A v \in Workers : SlotIsOwn(v)'
  <2> SUFFICES ASSUME begun' <= Slots, clock' <= Duration
               PROVE  /\ Cardinality(Used') + Cardinality(Locking') <= begun'
                      /\ \A v \in Workers : SlotIsOwn(v)'
    OBVIOUS
  <2>1. begun <= Slots /\ clock <= Duration
    BY <1>1, SlotsAssumption
  <2>2. Cardinality(Used) + Cardinality(Locking) <= begun /\ \A v \in Workers : SlotIsOwn(v)
    BY <2>1 DEF SlotsInv
  <2> QED BY <1>1, <1>7, <1>9, <1>10, <2>2
<1> QED BY <1>5, <1>6, <1>8, <1>11 DEF SlotsInv

LEMMA TickKeepsSlots ==
  ASSUME SlotsInv, Tick \/ UNCHANGED vars
  PROVE  SlotsInv'
<1>1. TypeOK /\ AnswerIsOwn /\ UNCHANGED <<table, worker>> /\ clock' \in {clock, clock + 1}
      /\ clock \in Nat
  BY DEF SlotsInv, Tick, vars, TypeOK
<1>2. clock' \in Nat /\ (clock' <= Duration => clock <= Duration)
  BY <1>1, DurationAssumption
<1>3. TypeOK' /\ AnswerIsOwn'
  BY <1>1, <1>2 DEF TypeOK, AnswerIsOwn, table, worker, Tokens, Index
<1>4. Used' = Used /\ Locking' = Locking /\ \A v \in Workers : SlotIsOwn(v) => SlotIsOwn(v)'
  BY <1>1 DEF Used, Locking, SlotIsOwn, table, worker, Index
<1>5. UNCHANGED <<pc, slot, begun>> /\ Index' = Index
  BY <1>1 DEF worker, Index
<1> QED BY <1>2, <1>3, <1>4, <1>5 DEF SlotsInv

LEMMA SlotsStart == ASSUME Init PROVE SlotsInv
<1>1. TypeOK
  BY NoTokenTyped, FreeAssumption, SlotsAssumption DEF Init, TypeOK, Silence, Index
<1>2. Used = {} /\ Locking = {} /\ begun = 0
  BY DEF Init, Used, Locking
<1>3. \A w \in Workers : pc[w] = "idle" /\ answer[w].status = 0
  BY DEF Init, Silence
<1> QED BY <1>1, <1>2, <1>3, FS_EmptySet DEF SlotsInv, AnswerIsOwn, SlotIsOwn

\* The table changes in one place.
LEMMA TakeOver ==
  ASSUME SlotsInv, [Next]_vars, NEW i \in Index, path[i] # Free, path'[i] # path[i]
  PROVE  clock > locktime[i] + Duration \/ \A j \in Index : path[j] # Free
<1>1. TypeOK
  BY DEF SlotsInv
<1>2. ASSUME NEW w \in Workers, Lock(w) PROVE Expired(i) \/ \A j \in Index : path[j] # Free
  BY <1>1, <1>2, LockDoes
<1>3. ASSUME NEW w \in Workers, Reply(w) \/ Unlock(w) \/ (\E r \in Requests : Begin(w, r))
      PROVE  FALSE
  BY <1>3 DEF Reply, Unlock, Begin, table
<1> QED BY <1>2, <1>3 DEF Next, Tick, Expired, vars, table

-----------------------------------------------------------------------------
(* Changes of files: StoreInv of FileStore is inductive.                   *)

\* A tree in which one name stands for another node.
LEMMA TreeChanged ==
  ASSUME Store!ConstantsAreProper, NEW t, Store!IsTree(t), NEW p \in Below,
         NEW node \in Store!NodeType,
         node.kind # "absent" => (p # Root /\ t[DirOf[p]].kind = "dir"),
         node.kind # "dir" => (\A q \in Below : DirOf[q] = p /\ q # p => t[q].kind = "absent"),
         node.kind # "file" => (node.parts = <<>> /\ node.id = 0),
         node.kind = "file" => node.id > 0,
         (node.kind = "file" /\ node.locked) => node.id > 1000,
         node.id > 1000 => (\A q \in Below : t[q].id = node.id => q = p)
  PROVE  Store!IsTree([t EXCEPT ![p] = node])
<1> DEFINE s == [t EXCEPT ![p] = node]
<1>1. s \in [Below -> Store!NodeType] /\ \A q \in Below : s[q] = IF q = p THEN node ELSE t[q]
  BY DEF Store!IsTree
<1> HIDE DEF s
<1>2. ASSUME NEW q \in Below, s[q].kind # "absent" PROVE s[DirOf[q]].kind = "dir"
  <2>1. DirOf[q] \in Below
    BY DEF Store!ConstantsAreProper
  <2>2. CASE q = p
    <3>1. node.kind # "absent" /\ DirOf[p] # p
      BY <1>1, <1>2, <2>2 DEF Store!ConstantsAreProper
    <3> QED BY <1>1, <1>2, <2>1, <2>2, <3>1
  <2>3. CASE q # p
    BY <1>1, <1>2, <2>1, <2>3 DEF Store!IsTree
  <2> QED BY <2>2, <2>3
<1>3. ASSUME NEW q \in Below
      PROVE  /\ s[q].kind # "file" => (s[q].parts = <<>> /\ s[q].id = 0)
             /\ s[q].kind = "file" => s[q].id > 0
  BY <1>1 DEF Store!IsTree
<1>4. ASSUME NEW q \in Below, s[q].kind = "file", s[q].locked PROVE s[q].id > 1000
  BY <1>1, <1>4 DEF Store!IsTree
<1>5. ASSUME NEW q \in Below, NEW r \in Below, s[q].id > 1000, s[q].id = s[r].id PROVE q = r
  BY <1>1, <1>5 DEF Store!IsTree
<1> QED BY <1>1, <1>2, <1>3, <1>4, <1>5 DEF Store!IsTree

\* What the calls of the file system leave behind.
LEMMA DirIs ==
  /\ Store!Dir \in Store!NodeType /\ Store!Dir.kind = "dir" /\ Store!Dir.parts = <<>>
  /\ Store!Dir.id = 0
BY DEF Store!Dir, Store!NodeType

LEMMA AbsentIs ==
  /\ Store!Absent \in Store!NodeType /\ Store!Absent.kind = "absent"
  /\ Store!Absent.parts = <<>> /\ Store!Absent.id = 0
BY DEF Store!Absent, Store!NodeType

LEMMA TreeWithDir ==
  ASSUME Store!ConstantsAreProper, NEW t, Store!IsTree(t), NEW p \in Below, p # Root,
         t[p].kind = "absent", t[DirOf[p]].kind = "dir"
  PROVE  Store!IsTree([t EXCEPT ![p] = Store!Dir])
BY DirIs, TreeChanged

LEMMA TreeWithFile ==
  ASSUME Store!ConstantsAreProper, NEW t, Store!IsTree(t), NEW p \in Below, p # Root,
         t[p].kind # "dir", t[DirOf[p]].kind = "dir",
         NEW id \in Nat, id > 0, id <= 1000 \/ id = t[p].id
  PROVE  Store!IsTree([t EXCEPT ![p] = Store!File(<<>>, id)])
<1>1. Store!File(<<>>, id) \in Store!NodeType /\ Store!File(<<>>, id).kind = "file"
      /\ Store!File(<<>>, id).id = id /\ ~Store!File(<<>>, id).locked
  BY DEF Store!File, Store!NodeType
<1>2. \A q \in Below : DirOf[q] = p => t[q].kind = "absent"
  BY DEF Store!IsTree
<1>3. id > 1000 => \A q \in Below : t[q].id = id => q = p
  BY DEF Store!IsTree
<1> QED BY <1>1, <1>2, <1>3, TreeChanged

LEMMA TreeWithout ==
  ASSUME Store!ConstantsAreProper, NEW t, Store!IsTree(t), NEW p \in Below, p # Root,
         \A q \in Below : DirOf[q] = p /\ q # Root => t[q].kind = "absent"
  PROVE  Store!IsTree([t EXCEPT ![p] = Store!Absent])
<1>1. \A q \in Below : DirOf[q] = p /\ q # p => t[q].kind = "absent"
  BY DEF Store!ConstantsAreProper
<1> QED BY <1>1, AbsentIs, TreeChanged

LEMMA TreeMoved ==
  ASSUME Store!ConstantsAreProper, NEW t, Store!IsTree(t), NEW p \in Below, NEW d \in Below,
         p # Root, d # Root,
         t[p].kind # "absent", t[DirOf[d]].kind = "dir", DirOf[d] # p,
         \A q \in Below : DirOf[q] = p /\ q # Root => t[q].kind = "absent",
         t[p].kind = "dir" \/ t[d].kind # "dir"
  PROVE  Store!IsTree([t EXCEPT ![d] = t[p], ![p] = IF d = p THEN @ ELSE Store!Absent])
<1> DEFINE moved == [t EXCEPT ![d] = t[p], ![p] = IF d = p THEN @ ELSE Store!Absent]
           s     == [t EXCEPT ![p] = Store!Absent]
<1>1. CASE d = p
  <2>1. moved = t
    BY <1>1 DEF Store!IsTree
  <2> QED BY <2>1
<1>2. CASE d # p
  <2>1. Store!IsTree(s)
    BY TreeWithout
  <2>2. /\ Store!Absent.kind = "absent" /\ Store!Absent.id = 0 /\ t[p] \in Store!NodeType
        /\ s \in [Below -> Store!NodeType]
        /\ \A q \in Below : s[q] = IF q = p THEN Store!Absent ELSE t[q]
    BY <2>1 DEF Store!Absent, Store!IsTree
  <2>3. moved = [s EXCEPT ![d] = t[p]]
    <3>1. t \in [Below -> Store!NodeType]
      BY DEF Store!IsTree
    <3> DEFINE node == t[p]
               none == Store!Absent
    <3>2. moved = [t EXCEPT ![d] = node, ![p] = none] /\ s = [t EXCEPT ![p] = none]
      BY <1>2
    <3> HIDE DEF node, none, s, moved
    <3>3. moved = [s EXCEPT ![d] = node]
      BY <1>2, <3>1, <3>2
    <3> QED BY <3>3 DEF node
  <2> HIDE DEF s, moved
  <2>4. DirOf[d] \in Below /\ s[DirOf[d]].kind = "dir"
    BY <2>2 DEF Store!ConstantsAreProper
  <2>5. t[p].kind # "dir" => \A q \in Below : DirOf[q] = d => s[q].kind = "absent"
    BY <2>2 DEF Store!IsTree
  <2>6. t[p].id > 1000 => \A q \in Below : s[q].id = t[p].id => q = d
    BY <2>2 DEF Store!IsTree
  <2>7. /\ t[p].kind # "file" => (t[p].parts = <<>> /\ t[p].id = 0)
        /\ t[p].kind = "file" => t[p].id > 0
        /\ (t[p].kind = "file" /\ t[p].locked) => t[p].id > 1000
    BY DEF Store!IsTree
  <2>8. Store!IsTree([s EXCEPT ![d] = t[p]])
    <3> DEFINE node == t[p]
    <3>1. node \in Store!NodeType /\ (node.kind # "absent" => (d # Root /\ s[DirOf[d]].kind = "dir"))
      BY <2>2, <2>4
    <3>2. node.kind # "dir" => \A q \in Below : DirOf[q] = d /\ q # d => s[q].kind = "absent"
      BY <2>5
    <3>3. /\ node.kind # "file" => (node.parts = <<>> /\ node.id = 0)
          /\ node.kind = "file" => node.id > 0
          /\ (node.kind = "file" /\ node.locked) => node.id > 1000
          /\ node.id > 1000 => \A q \in Below : s[q].id = node.id => q = d
      BY <2>6, <2>7
    <3> HIDE DEF node
    <3>4. Store!IsTree([s EXCEPT ![d] = node])
      BY <2>1, <3>1, <3>2, <3>3, TreeChanged
    <3> QED BY <3>4 DEF node
  <2> QED BY <2>3, <2>8 DEF moved
<1> QED BY <1>1, <1>2

LEMMA PartsAreWritten ==
  ASSUME NEW s \in Seq(Int), NEW i \in Nat, i > 0, NEW piece \in Int
  PROVE  Store!Put1(s, i, piece) \in Seq(Int)
<1> DEFINE n == IF i > Len(s) THEN i ELSE Len(s)
<1>1. n \in Nat
  OBVIOUS
<1>2. Store!Put1(s, i, piece) \in [1 .. n -> Int]
  BY DEF Store!Put1
<1> QED BY <1>1, <1>2

\* Nodes that differ in their contents at most, and only files do.
Alike(t, s) ==
  \A p \in Below : /\ s[p] \in Store!NodeType /\ s[p].kind = t[p].kind /\ s[p].id = t[p].id
                   /\ s[p].locked = t[p].locked
                   /\ t[p].kind # "file" => s[p].parts = t[p].parts

LEMMA TreeRewritten ==
  ASSUME Store!ConstantsAreProper, NEW t, Store!IsTree(t), NEW s \in [Below -> Store!NodeType],
         Alike(t, s)
  PROVE  Store!IsTree(s)
<1>1. \A p \in Below : /\ s[p].kind # "absent" => s[DirOf[p]].kind = "dir"
                       /\ s[p].kind # "file" => (s[p].parts = <<>> /\ s[p].id = 0)
                       /\ s[p].kind = "file" => s[p].id > 0
                       /\ (s[p].kind = "file" /\ s[p].locked) => s[p].id > 1000
  <2> TAKE p \in Below
  <2>1. DirOf[p] \in Below
    BY DEF Store!ConstantsAreProper
  <2>2. /\ s[p].kind = t[p].kind /\ s[p].id = t[p].id /\ s[p].locked = t[p].locked
        /\ s[DirOf[p]].kind = t[DirOf[p]].kind
    BY <2>1 DEF Alike
  <2>3. t[p].kind # "file" => s[p].parts = t[p].parts
    BY DEF Alike
  <2> QED BY <2>2, <2>3 DEF Store!IsTree
<1>2. \A p, q \in Below : (s[p].id > 1000 /\ s[p].id = s[q].id) => p = q
  BY DEF Store!IsTree, Alike
<1> QED BY <1>1, <1>2 DEF Store!IsTree

LEMMA TreeWritten ==
  ASSUME Store!ConstantsAreProper, NEW t, Store!IsTree(t), NEW id \in Nat, id > 0, NEW i \in Nat,
         i > 0, NEW x \in Int,
         NEW s, s = [p \in Below |-> IF t[p].id = id
                       THEN [t[p] EXCEPT !.parts = Store!Put1(@, i, x)] ELSE t[p]]
  PROVE  Store!IsTree(s) /\ Alike(t, s) /\ \A p \in Below : t[p].id # id => s[p] = t[p]
<1>1. ASSUME NEW p \in Below
      PROVE  /\ s[p] \in Store!NodeType /\ s[p].kind = t[p].kind /\ s[p].id = t[p].id
             /\ s[p].locked = t[p].locked
             /\ t[p].kind # "file" => s[p].parts = t[p].parts
  <2> DEFINE parts == Store!Put1(t[p].parts, i, x)
  <2>1. t[p] \in Store!NodeType /\ t[p].parts \in Seq(Int)
    BY DEF Store!IsTree, Store!NodeType
  <2>2. parts \in Seq(Int)
    BY <2>1, PartsAreWritten
  <2>3. CASE t[p].id = id
    <3>1. t[p].kind = "file"
      BY <2>3, <2>1 DEF Store!IsTree, Store!NodeType
    <3>2. s[p] = [t[p] EXCEPT !.parts = parts]
      BY <2>3
    <3>3. t[p] = [kind |-> t[p].kind, parts |-> t[p].parts, id |-> t[p].id, locked |-> t[p].locked]
      BY <2>1 DEF Store!NodeType
    <3> HIDE DEF parts
    <3>4. s[p] = [kind |-> t[p].kind, parts |-> parts, id |-> t[p].id, locked |-> t[p].locked]
      BY <3>2, <3>3
    <3>5. t[p].kind \in {"absent", "dir", "file"} /\ t[p].id \in Nat /\ t[p].locked \in BOOLEAN
      BY <2>1 DEF Store!NodeType
    <3> QED BY <2>2, <3>1, <3>4, <3>5 DEF Store!NodeType
  <2>4. CASE t[p].id # id
    BY <2>1, <2>4
  <2> QED BY <2>3, <2>4
<1>2. s \in [Below -> Store!NodeType] /\ Alike(t, s)
  BY <1>1 DEF Alike
<1> QED BY <1>2, TreeRewritten

\* Nothing comes to be locked: the locked files of s were locked files of t.
LockedIn(t, s) ==
  \A p \in Below : (s[p].kind = "file" /\ s[p].locked) =>
    \E q \in Below : t[q].kind = "file" /\ t[q].locked /\ t[q].id = s[p].id

LEMMA LockedChanged ==
  ASSUME NEW t, Store!IsTree(t), NEW p \in Below, NEW node, node.kind # "file" \/ ~node.locked
  PROVE  LockedIn(t, [t EXCEPT ![p] = node])
<1> DEFINE s == [t EXCEPT ![p] = node]
<1>1. \A q \in Below : s[q] = IF q = p THEN node ELSE t[q]
  BY DEF Store!IsTree
<1> HIDE DEF s
<1>2. LockedIn(t, s)
  BY <1>1 DEF LockedIn
<1> QED BY <1>2 DEF s

LEMMA LockedMoved ==
  ASSUME NEW t, Store!IsTree(t), NEW p \in Below, NEW d \in Below,
         NEW s, s = [t EXCEPT ![d] = t[p], ![p] = IF d = p THEN @ ELSE Store!Absent]
  PROVE  LockedIn(t, s)
<1>1. \A q \in Below : s[q] = IF q = d THEN t[p] ELSE IF q = p THEN Store!Absent ELSE t[q]
  BY DEF Store!IsTree
<1>2. Store!Absent.kind # "file"
  BY DEF Store!Absent
<1> QED BY <1>1, <1>2 DEF LockedIn

\* What is below a directory.
LEMMA UnderIs ==
  ASSUME NEW q \in Below
  PROVE  /\ q \in Store!Under(q) /\ Store!Under(q) \subseteq Below
         /\ \A x \in Below : DirOf[x] \in Store!Under(q) => x \in Store!Under(q)
<1>1. q \in Store!Under(q) /\ Store!Under(q) \subseteq Below
  BY DEF Store!Under
<1>2. ASSUME NEW x \in Below, DirOf[x] \in Store!Under(q) PROVE x \in Store!Under(q)
  <2> SUFFICES ASSUME NEW S \in SUBSET Below, q \in S, \A y \in Below : DirOf[y] \in S => y \in S
               PROVE  x \in S
    BY DEF Store!Under
  <2>1. DirOf[x] \in S
    BY <1>2 DEF Store!Under
  <2> QED BY <2>1
<1> QED BY <1>1, <1>2

\* The calls of remove_directory() that wait, all in one directory.
Inside(U, s) == \A i \in DOMAIN s : s[i].dir \in U /\ s[i].now \in U /\ s[i].left \subseteq U

LEMMA FramesPushed ==
  ASSUME NEW U, NEW s \in Seq(Store!FrameType), Inside(U, s), NEW f \in Store!FrameType,
         f.dir \in U, f.now \in U, f.left \subseteq U
  PROVE  <<f>> \o s \in Seq(Store!FrameType) /\ Inside(U, <<f>> \o s) /\ <<f>> \o s # <<>>
<1> DEFINE n == Len(s)
           r == <<f>> \o s
<1>1. r \in Seq(Store!FrameType) /\ n \in Nat /\ Len(r) = n + 1 /\ DOMAIN s = 1 .. n
  OBVIOUS
<1>2. DOMAIN r = 1 .. n + 1 /\ \A i \in 1 .. n + 1 : r[i] = IF i = 1 THEN f ELSE s[i - 1]
  OBVIOUS
<1> HIDE DEF n, r
<1>3. Inside(U, r)
  <2> SUFFICES ASSUME NEW i \in 1 .. n + 1
               PROVE  r[i].dir \in U /\ r[i].now \in U /\ r[i].left \subseteq U
    BY <1>2 DEF Inside
  <2>1. CASE i = 1
    BY <1>2, <2>1
  <2>2. CASE i # 1
    <3>1. i - 1 \in 1 .. n /\ r[i] = s[i - 1]
      BY <1>1, <1>2, <2>2
    <3> QED BY <1>1, <3>1 DEF Inside
  <2> QED BY <2>1, <2>2
<1>4. r # <<>>
  BY <1>1
<1> QED BY <1>1, <1>3, <1>4 DEF r

LEMMA FramesPopped ==
  ASSUME NEW U, NEW s \in Seq(Store!FrameType), Inside(U, s), s # <<>>
  PROVE  /\ Head(s) \in Store!FrameType /\ Head(s).dir \in U /\ Head(s).now \in U
         /\ Head(s).left \subseteq U
         /\ Tail(s) \in Seq(Store!FrameType) /\ Inside(U, Tail(s))
<1> DEFINE n == Len(s)
           r == Tail(s)
<1>1. n \in Nat /\ n > 0 /\ DOMAIN s = 1 .. n /\ s \in [1 .. n -> Store!FrameType]
  OBVIOUS
<1>2. Head(s) = s[1] /\ 1 \in DOMAIN s
  BY <1>1
<1>3. r \in Seq(Store!FrameType) /\ Len(r) = n - 1 /\ \A i \in 1 .. n - 1 : r[i] = s[i + 1]
  BY <1>1
<1> HIDE DEF n, r
<1>4. Inside(U, r)
  <2> SUFFICES ASSUME NEW i \in DOMAIN r
               PROVE  r[i].dir \in U /\ r[i].now \in U /\ r[i].left \subseteq U
    BY DEF Inside
  <2>1. i \in 1 .. n - 1 /\ i + 1 \in 1 .. n /\ r[i] = s[i + 1]
    BY <1>1, <1>3
  <2> QED BY <1>1, <2>1 DEF Inside
<1> QED BY <1>1, <1>2, <1>3, <1>4 DEF Inside, r

OthersKeep(w) ==
  /\ setting' = setting
  /\ \A v \in Runners \ {w} :
       /\ storePc'[v] = storePc[v] /\ req'[v] = req[v] /\ continued'[v] = continued[v]
       /\ dirs'[v] = dirs[v]
       /\ handle'[v] = handle[v] /\ pos'[v] = pos[v] /\ quiet'[v] = quiet[v]
       /\ whole'[v] = whole[v] /\ seen'[v] = seen[v] /\ stack'[v] = stack[v]
       /\ final'[v] = final[v] /\ changed'[v] = changed[v]

LEMMA SeenKept ==
  ASSUME NEW v \in Runners, Store!NotSeen(v), LockedIn(fs, fs'), seen'[v] = seen[v]
  PROVE  Store!NotSeen(v)'
BY DEF Store!NotSeen, LockedIn

LEMMA SameRequest ==
  ASSUME NEW v \in Runners, req'[v] = req[v]
  PROVE  /\ Store!P(v)' = Store!P(v) /\ Store!MayLose(v)' = Store!MayLose(v)
         /\ Store!Reach(v)' = Store!Reach(v)
BY DEF Store!P, Store!MayLose, Store!Reach, Store!Under

LEMMA StoreKept ==
  ASSUME Store!ConstantsAreProper, Store!StoreInv, NEW w \in setting.workers, OthersKeep(w),
         Store!StoreTyped', Store!WorkerInv(w)', LockedIn(fs, fs'),
         seen'[w] = seen[w] \/ Store!NotSeen(w)'
  PROVE  Store!StoreInv'
<1>1. ASSUME NEW v \in Runners, v # w PROVE Store!WorkerInv(v)'
  <2>1. /\ storePc'[v] = storePc[v] /\ req'[v] = req[v] /\ handle'[v] = handle[v]
        /\ pos'[v] = pos[v] /\ final'[v] = final[v] /\ continued'[v] = continued[v]
        /\ quiet'[v] = quiet[v] /\ whole'[v] = whole[v] /\ seen'[v] = seen[v]
        /\ stack'[v] = stack[v] /\ changed'[v] = changed[v] /\ dirs'[v] = dirs[v]
    BY <1>1 DEF OthersKeep
  <2>2. Store!WorkerInv(v)
    BY DEF Store!StoreInv
  <2>3. Store!P(v)' = Store!P(v) /\ Store!MayLose(v)' = Store!MayLose(v)
        /\ Store!Reach(v)' = Store!Reach(v)
    BY <2>1, SameRequest
  <2>4. Store!StepIsOf(v)'
    BY <2>1, <2>2, <2>3 DEF Store!WorkerInv, Store!StepIsOf
  <2>5. Store!BodyIsStored(v)'
    BY <2>1, <2>2 DEF Store!WorkerInv, Store!BodyIsStored, Store!BodyIsRead
  <2>6. Store!WalksBelow(v)'
    BY <2>1, <2>2, <2>3 DEF Store!WorkerInv, Store!WalksBelow, Store!Under
  <2>7. Store!Outcome(v)'
    BY <2>1, <2>2, <2>3 DEF Store!WorkerInv, Store!Outcome, Store!Done, Store!BodyIsRead
  <2> QED BY <2>4, <2>5, <2>6, <2>7 DEF Store!WorkerInv
<1>2. ASSUME NEW v \in Runners PROVE Store!NotSeen(v)'
  <2>1. Store!NotSeen(v)
    BY DEF Store!StoreInv
  <2>2. v # w => seen'[v] = seen[v]
    BY DEF OthersKeep
  <2> QED BY <2>1, <2>2, SeenKept
<1> QED BY <1>1, <1>2 DEF Store!StoreInv

LEMMA Going ==
  ASSUME Store!StoreTyped, NEW w \in Runners, NEW step \in Store!Steps, Store!Goes(w, step)
  PROVE  /\ storePc' \in [Runners -> Store!Steps] /\ final' \in [Runners -> Nat]
         /\ storePc'[w] = step /\ final'[w] = final[w]
         /\ \A v \in Runners \ {w} : storePc'[v] = storePc[v] /\ final'[v] = final[v]
BY DEF Store!StoreTyped, Store!TypeOK, Store!Goes

LEMMA Answering ==
  ASSUME Store!StoreTyped, NEW w \in Runners, NEW n \in Nat, Store!Answers(w, n)
  PROVE  /\ storePc' \in [Runners -> Store!Steps] /\ final' \in [Runners -> Nat]
         /\ storePc'[w] = "idle" /\ final'[w] \in {0, n}
         /\ \A v \in Runners \ {w} : storePc'[v] = storePc[v] /\ final'[v] = final[v]
<1>1. "idle" \in Store!Steps /\ storePc \in [Runners -> Store!Steps]
      /\ final \in [Runners -> Nat] /\ continued[w] \in BOOLEAN
  BY DEF Store!StoreTyped, Store!TypeOK, Store!Steps
<1>2. CASE continued[w]
  BY <1>1, <1>2 DEF Store!Answers
<1>3. CASE ~continued[w]
  BY <1>1, <1>3 DEF Store!Answers
<1> QED BY <1>2, <1>3

LEMMA Closing ==
  ASSUME Store!StoreTyped, NEW w \in Runners, Store!Closes(w)
  PROVE  /\ handle' \in [Runners -> Nat] /\ handle'[w] = 0
         /\ \A v \in Runners \ {w} : handle'[v] = handle[v]
BY DEF Store!StoreTyped, Store!TypeOK, Store!Closes

LEMMA WorksWithin ==
  ASSUME Store!ConstantsAreProper, Store!StoreInv, NEW w \in setting.workers
  PROVE  w \in Runners /\ Store!WorkerInv(w) /\ Store!NotSeen(w) /\ Store!StoreTyped
BY DEF Store!StoreInv, Store!StoreTyped, Store!TypeOK, Store!ConstantsAreProper

LEMMA RequestIs ==
  ASSUME Store!ConstantsAreProper, Store!StoreTyped, NEW w \in Runners
  PROVE  /\ Store!P(w) \in Below /\ req[w].body \in Seq(Int)
         /\ req[w].op \in {"put", "store", "delete", "mkcol", "move", "copy"}
         /\ handle[w] \in Nat /\ pos[w] \in Nat /\ w \in 1 .. 9 /\ ops \in 0 .. 99
         /\ status[w] \in {0, 100, 200, 201, 206} /\ Store!IsTree(fs)
         /\ dirs[w] \in Seq(Below) /\ stack[w] \in Seq(Store!FrameType)
<1>1. setting \in Settings /\ ops \in Nat /\ ops <= setting.maxOps
  BY DEF Store!StoreTyped, Store!TypeOK
<1>2. setting.requests \subseteq Store!RequestType /\ setting.maxOps \in 0 .. 99
  BY <1>1, Zenon DEF Store!ConstantsAreProper
<1>3. ops \in 0 .. 99
  BY <1>1, <1>2
<1>4. req[w] \in Store!RequestType
  BY <1>2 DEF Store!StoreTyped, Store!TypeOK
<1>5. /\ Store!P(w) \in Below /\ req[w].body \in Seq(Int)
      /\ req[w].op \in {"put", "store", "delete", "mkcol", "move", "copy"}
  BY <1>4 DEF Store!RequestType, Store!P
<1> QED BY <1>3, <1>5 DEF Store!ConstantsAreProper, Store!StoreTyped, Store!TypeOK

\* A step changes the tree at one of the worker's names, or leaves it.
TreeGoes(w) ==
  /\ Store!IsTree(fs') /\ LockedIn(fs, fs') /\ changed' \in [Runners -> SUBSET Below]
  /\ \A v \in Runners \ {w} : changed'[v] = changed[v]

LEMMA Keeping ==
  ASSUME Store!StoreTyped, NEW w \in Runners, Store!Keeps
  PROVE  TreeGoes(w) /\ changed'[w] = changed[w]
BY DEF Store!StoreTyped, Store!TypeOK, Store!Keeps, TreeGoes, LockedIn

LEMMA Changing ==
  ASSUME Store!StoreTyped, NEW w \in Runners, NEW p \in Below, NEW node, Store!Changes(w, p, node)
  PROVE  /\ changed' \in [Runners -> SUBSET Below] /\ changed'[w] = changed[w] \cup {p}
         /\ \A v \in Runners \ {w} : changed'[v] = changed[v]
<1>1. changed \in [Runners -> SUBSET Below]
      /\ changed' = [changed EXCEPT ![w] = changed[w] \cup {p}]
  BY DEF Store!StoreTyped, Store!TypeOK, Store!Changes
<1> QED BY <1>1

LEMMA Removing ==
  ASSUME Store!ConstantsAreProper, Store!StoreTyped, NEW w \in Runners, NEW p \in Below,
         Store!CanRemove(p), Store!Changes(w, p, Store!Absent)
  PROVE  TreeGoes(w) /\ changed'[w] = changed[w] \cup {p}
<1>1. Store!IsTree(fs)
  BY DEF Store!StoreTyped, Store!TypeOK
<1>2. p # Root /\ \A q \in Below : DirOf[q] = p /\ q # Root => fs[q].kind = "absent"
  BY DEF Store!CanRemove, Store!In
<1>3. Store!IsTree(fs')
  BY <1>1, <1>2, TreeWithout DEF Store!Changes
<1>4. LockedIn(fs, fs')
  BY <1>1, AbsentIs, LockedChanged DEF Store!Changes
<1> QED BY <1>3, <1>4, Changing DEF TreeGoes

LEMMA Making ==
  ASSUME Store!ConstantsAreProper, Store!StoreTyped, NEW w \in Runners, NEW p \in Below,
         Store!CanMake(p), Store!Changes(w, p, Store!Dir)
  PROVE  TreeGoes(w) /\ changed'[w] = changed[w] \cup {p}
<1>1. Store!IsTree(fs) /\ fs[p].kind = "absent" /\ fs[DirOf[p]].kind = "dir" /\ p # Root
  BY DEF Store!CanMake, Store!Exists, Store!IsDir, Store!StoreTyped, Store!TypeOK
<1>2. Store!IsTree(fs') /\ LockedIn(fs, fs')
  BY <1>1, DirIs, TreeWithDir, LockedChanged DEF Store!Changes
<1> QED BY <1>2, Changing DEF TreeGoes


\* The variables of a worker in a step of it, beside its step, the tree and the answer.
LocalsGo(w) ==
  /\ setting' = setting /\ req' = req /\ ops' = ops
  /\ status' \in [Runners -> {0, 100, 200, 201, 206}] /\ dirs' \in [Runners -> Seq(Below)]
  /\ continued' \in [Runners -> BOOLEAN] /\ quiet' \in [Runners -> BOOLEAN]
  /\ whole' \in [Runners -> BOOLEAN] /\ handle' \in [Runners -> Nat]
  /\ pos' \in [Runners -> Nat] /\ seen' \in [Runners -> Nat]
  /\ stack' \in [Runners -> Seq(Store!FrameType)]
  /\ \A v \in Runners \ {w} :
       /\ continued'[v] = continued[v] /\ handle'[v] = handle[v] /\ pos'[v] = pos[v]
       /\ quiet'[v] = quiet[v] /\ whole'[v] = whole[v] /\ seen'[v] = seen[v]
       /\ stack'[v] = stack[v] /\ dirs'[v] = dirs[v]

PcGoes(w) ==
  /\ storePc' \in [Runners -> Store!Steps] /\ final' \in [Runners -> Nat]
  /\ \A v \in Runners \ {w} : storePc'[v] = storePc[v] /\ final'[v] = final[v]

LEMMA LocalsKept ==
  ASSUME Store!StoreTyped, NEW w \in Runners,
         UNCHANGED <<setting, req, ops, status, continued, dirs, handle, pos, quiet, whole, seen,
           stack>>
  PROVE  LocalsGo(w)
BY DEF Store!StoreTyped, Store!TypeOK, LocalsGo

LEMMA Stepped ==
  ASSUME Store!ConstantsAreProper, Store!StoreInv, NEW w \in setting.workers,
         LocalsGo(w), PcGoes(w), TreeGoes(w), Store!WorkerInv(w)',
         seen'[w] = seen[w] \/ Store!NotSeen(w)'
  PROVE  Store!StoreInv'
<1>1. w \in Runners /\ Store!StoreTyped
  BY WorksWithin
<1>2. OthersKeep(w)
  BY DEF LocalsGo, PcGoes, TreeGoes, OthersKeep
<1>3. Store!StoreTyped'
  BY <1>1 DEF LocalsGo, PcGoes, TreeGoes, Store!StoreTyped, Store!TypeOK
<1>4. LockedIn(fs, fs')
  BY DEF TreeGoes
<1> QED BY <1>2, <1>3, <1>4, StoreKept

\* A step of PUT or mg_store_body() walks no tree.
LEMMA BodyStep ==
  ASSUME Store!ConstantsAreProper, Store!StoreInv, NEW w \in setting.workers,
         req[w].op \in {"put", "store"}, storePc[w] \notin {"opendir", "entries", "unlink"},
         storePc'[w] \notin {"opendir", "entries", "unlink"}, stack'[w] = stack[w],
         LocalsGo(w), PcGoes(w), TreeGoes(w),
         Store!StepIsOf(w)', Store!BodyIsStored(w)', Store!Outcome(w)',
         seen'[w] = seen[w] \/ Store!NotSeen(w)'
  PROVE  Store!StoreInv'
<1>1. w \in Runners /\ Store!WorkerInv(w)
  BY WorksWithin
<1>2. stack'[w] = <<>> /\ req'[w] = req[w] /\ changed'[w] \subseteq Below
  BY <1>1 DEF Store!WorkerInv, Store!WalksBelow, LocalsGo, TreeGoes
<1>3. DOMAIN stack'[w] = {}
  BY <1>2
<1>4. Store!Reach(w)' = Below
  BY <1>2 DEF Store!Reach
<1>5. Store!WalksBelow(w)'
  BY <1>2, <1>3, <1>4 DEF Store!WalksBelow
<1> QED BY <1>5, Stepped DEF Store!WorkerInv

LEMMA PutKeeps ==
  ASSUME Store!ConstantsAreProper, Store!StoreInv, NEW w \in setting.workers, Store!Put(w)
  PROVE  Store!StoreInv'
<1>1. w \in Runners /\ Store!WorkerInv(w) /\ Store!StoreTyped
  BY WorksWithin
<1>2. /\ storePc[w] = "put" /\ Store!Keeps
      /\ UNCHANGED <<setting, req, ops, continued, dirs, handle, pos, quiet, whole, seen, stack>>
      /\ status' = [status EXCEPT ![w] = IF Store!Exists(Store!P(w)) THEN 200 ELSE 201]
  BY DEF Store!Put, Store!At
<1>3. Store!Goes(w, "dirs") \/ Store!Answers(w, 200) \/ Store!Goes(w, "access")
  BY DEF Store!Put
<1>4. /\ PcGoes(w)
      /\ \/ storePc'[w] \in {"dirs", "access"} /\ final'[w] = final[w]
         \/ storePc'[w] = "idle" /\ final'[w] \in {0, 200}
  BY <1>1, <1>3, Going, Answering DEF Store!Steps, PcGoes
<1>5. req[w].op = "put" /\ changed[w] = {} /\ ~continued[w] /\ handle[w] = 0
  BY <1>1, <1>2 DEF Store!WorkerInv, Store!StepIsOf, Store!BodyIsStored
<1>6. TreeGoes(w) /\ changed'[w] = {}
  BY <1>1, <1>2, <1>5, Keeping
<1>7. LocalsGo(w)
  <2>1. status' \in [Runners -> {0, 100, 200, 201, 206}]
    BY <1>1, <1>2 DEF Store!StoreTyped
  <2> QED BY <1>1, <1>2, <2>1 DEF Store!StoreTyped, Store!TypeOK, LocalsGo
<1>8. Store!StepIsOf(w)' /\ Store!BodyIsStored(w)' /\ Store!Outcome(w)'
  BY <1>1, <1>2, <1>4, <1>5, <1>6 DEF Store!WorkerInv, Store!StepIsOf, Store!BodyIsStored,
     Store!Outcome, Store!Done
<1> QED BY <1>2, <1>4, <1>5, <1>6, <1>7, <1>8, BodyStep

LEMMA AccessKeeps ==
  ASSUME Store!ConstantsAreProper, Store!StoreInv, NEW w \in setting.workers, Store!Access(w)
  PROVE  Store!StoreInv'
<1>1. w \in Runners /\ Store!WorkerInv(w) /\ Store!StoreTyped
  BY WorksWithin
<1>2. /\ storePc[w] = "access" /\ Store!Keeps
      /\ UNCHANGED <<setting, req, ops, status, continued, dirs, handle, pos, quiet, whole, stack>>
  BY DEF Store!Access, Store!At
<1>3. req[w].op \in {"put", "delete"} /\ changed[w] = {} /\ ~continued[w] /\ handle[w] = 0
      /\ stack[w] = <<>>
  BY <1>1, <1>2 DEF Store!WorkerInv, Store!StepIsOf, Store!BodyIsStored, Store!WalksBelow
<1>4. TreeGoes(w) /\ changed'[w] = {} /\ fs' = fs /\ Store!P(w) \in Below /\ Store!IsTree(fs)
  BY <1>1, <1>2, <1>3, Keeping, RequestIs DEF Store!Keeps
<1>5. \/ /\ storePc'[w] \in {"open", "remove"} /\ final'[w] = final[w]
         /\ storePc'[w] = "open" => req[w].op = "put"
         /\ storePc'[w] = "remove" => req[w].op = "delete"
         /\ PcGoes(w) /\ seen' = [seen EXCEPT ![w] = fs[Store!P(w)].id]
         /\ Store!Exists(Store!P(w)) /\ ~fs[Store!P(w)].locked
      \/ storePc'[w] = "idle" /\ final'[w] \in {0, 403} /\ PcGoes(w) /\ seen' = seen
  <2>1. CASE Store!Answers(w, 403) /\ UNCHANGED seen
    BY <1>1, <2>1, Answering DEF PcGoes
  <2>2. CASE req[w].op = "put" /\ Store!Goes(w, "open")
             /\ seen' = [seen EXCEPT ![w] = fs[Store!P(w)].id]
             /\ Store!Exists(Store!P(w)) /\ ~fs[Store!P(w)].locked
    BY <1>1, <2>2, Going DEF PcGoes, Store!Steps
  <2>3. CASE req[w].op = "delete" /\ Store!Goes(w, "remove")
             /\ seen' = [seen EXCEPT ![w] = fs[Store!P(w)].id]
             /\ Store!Exists(Store!P(w)) /\ ~fs[Store!P(w)].locked
    BY <1>1, <2>3, Going DEF PcGoes, Store!Steps
  <2> QED BY <1>3, <2>1, <2>2, <2>3 DEF Store!Access
<1>6. fs[Store!P(w)].id \in Nat
  BY <1>4 DEF Store!IsTree, Store!NodeType
<1>7. seen' \in [Runners -> Nat] /\ (\A v \in Runners \ {w} : seen'[v] = seen[v])
  BY <1>1, <1>5, <1>6 DEF Store!StoreTyped, Store!TypeOK
<1>8. LocalsGo(w)
  BY <1>1, <1>2, <1>7 DEF Store!StoreTyped, Store!TypeOK, LocalsGo
<1>9. seen'[w] = seen[w] \/ Store!NotSeen(w)'
  <2>1. CASE seen' = [seen EXCEPT ![w] = fs[Store!P(w)].id] /\ ~fs[Store!P(w)].locked
    <3>1. seen'[w] = fs[Store!P(w)].id
      BY <1>1, <2>1 DEF Store!StoreTyped, Store!TypeOK
    <3>2. ASSUME NEW p \in Below, fs[p].kind = "file", fs[p].locked PROVE fs[Store!P(w)].id # fs[p].id
      <4>1. fs[p].id > 1000
        BY <1>4, <3>2 DEF Store!IsTree
      <4> QED BY <1>4, <2>1, <3>2, <4>1 DEF Store!IsTree
    <3> QED BY <1>4, <3>1, <3>2 DEF Store!NotSeen
  <2> QED BY <1>5, <2>1
<1>10. Store!StepIsOf(w)' /\ Store!BodyIsStored(w)' /\ Store!Outcome(w)'
  <2>1. Store!StepIsOf(w)'
    BY <1>2, <1>3, <1>4, <1>5 DEF Store!StepIsOf
  <2>2. Store!BodyIsStored(w)'
    BY <1>2, <1>3, <1>5 DEF Store!BodyIsStored
  <2>3. Store!Outcome(w)'
    BY <1>2, <1>3, <1>4, <1>5 DEF Store!Outcome, Store!Done
  <2> QED BY <2>1, <2>2, <2>3
<1>11. Store!WalksBelow(w)'
  <2>1. stack'[w] = <<>> /\ DOMAIN stack'[w] = {}
    BY <1>2, <1>3
  <2>2. storePc'[w] \notin {"opendir", "entries", "unlink"}
    BY <1>5
  <2> QED BY <1>4, <2>1, <2>2 DEF Store!WalksBelow
<1> QED BY <1>5, <1>4, <1>8, <1>9, <1>10, <1>11, Stepped DEF Store!WorkerInv

LEMMA StoreKeeps ==
  ASSUME Store!ConstantsAreProper, Store!StoreInv, NEW w \in setting.workers, Store!Store(w)
  PROVE  Store!StoreInv'
<1>1. w \in Runners /\ Store!WorkerInv(w) /\ Store!StoreTyped
  BY WorksWithin
<1>2. /\ storePc[w] = "store" /\ Store!Keeps /\ Store!Goes(w, "dirs")
      /\ UNCHANGED <<setting, req, ops, status, continued, dirs, handle, pos, quiet, whole, seen,
           stack>>
  BY DEF Store!Store, Store!At
<1>3. PcGoes(w) /\ storePc'[w] = "dirs" /\ LocalsGo(w)
  BY <1>1, <1>2, Going, LocalsKept DEF Store!Steps, PcGoes
<1>4. req[w].op = "store" /\ ~continued[w] /\ handle[w] = 0
  BY <1>1, <1>2 DEF Store!WorkerInv, Store!StepIsOf, Store!BodyIsStored
<1>5. TreeGoes(w)
  BY <1>1, <1>2, Keeping
<1>6. Store!StepIsOf(w)' /\ Store!BodyIsStored(w)' /\ Store!Outcome(w)'
  BY <1>1, <1>2, <1>3, <1>4 DEF Store!WorkerInv, Store!StepIsOf, Store!BodyIsStored,
     Store!Outcome, Store!Done
<1> QED BY <1>2, <1>3, <1>4, <1>5, <1>6, BodyStep

LEMMA PutDirKeeps ==
  ASSUME Store!ConstantsAreProper, Store!StoreInv, NEW w \in setting.workers, Store!PutDir(w)
  PROVE  Store!StoreInv'
<1>1. w \in Runners /\ Store!WorkerInv(w) /\ Store!StoreTyped
  BY WorksWithin
<1>2. /\ storePc[w] = "dirs" /\ Store!Keeps
      /\ UNCHANGED <<setting, req, ops, status, continued, handle, pos, quiet, whole, seen, stack>>
  BY DEF Store!PutDir, Store!At
<1>3. dirs[w] \in Seq(Below) /\ status[w] \in {0, 100, 200, 201, 206}
  BY <1>1, RequestIs
<1>4. /\ PcGoes(w)
      /\ \/ storePc'[w] = "idle" /\ final'[w] \in {0, 100, 200, 201, 206} /\ req[w].slash
         \/ storePc'[w] \in {"open", "mkdirs", "dirs"}
      /\ dirs' \in {dirs, [dirs EXCEPT ![w] = Tail(@)]}
      /\ storePc'[w] = "mkdirs" => dirs[w] # <<>> /\ dirs' = dirs
      /\ dirs[w] = <<>> => dirs' = dirs
  <2>1. CASE dirs[w] = <<>> /\ req[w].slash
    <3>1. \E n \in {0, 100, 200, 201, 206} : Store!Answers(w, n) /\ UNCHANGED dirs
      BY <1>3, <2>1 DEF Store!PutDir
    <3>2. PICK n \in {0, 100, 200, 201, 206} : Store!Answers(w, n) /\ UNCHANGED dirs
      BY <3>1
    <3> QED BY <1>1, <2>1, <3>2, Answering DEF PcGoes
  <2>2. CASE dirs[w] = <<>> /\ ~req[w].slash
    BY <1>1, <2>2, Going DEF PcGoes, Store!Steps, Store!PutDir
  <2>3. CASE dirs[w] # <<>>
    <3>1. CASE Store!Exists(Head(dirs[w]))
      BY <1>1, <1>2, <2>3, <3>1 DEF PcGoes, Store!PutDir, Store!StoreTyped, Store!TypeOK
    <3>2. CASE ~Store!Exists(Head(dirs[w]))
      BY <1>1, <2>3, <3>2, Going DEF PcGoes, Store!Steps, Store!PutDir
    <3> QED BY <3>1, <3>2
  <2> QED BY <2>1, <2>2, <2>3
<1>5. dirs' \in [Runners -> Seq(Below)] /\ \A v \in Runners \ {w} : dirs'[v] = dirs[v]
  <2>1. dirs \in [Runners -> Seq(Below)]
    BY <1>1 DEF Store!StoreTyped, Store!TypeOK
  <2>2. dirs[w] # <<>> => Tail(dirs[w]) \in Seq(Below)
    BY <1>3
  <2> QED BY <1>4, <2>1, <2>2
<1>6. req[w].op \in {"put", "store"} /\ ~continued[w] /\ handle[w] = 0
  BY <1>1, <1>2 DEF Store!WorkerInv, Store!StepIsOf, Store!BodyIsStored
<1>7. LocalsGo(w) /\ TreeGoes(w)
  BY <1>1, <1>2, <1>5, Keeping DEF Store!StoreTyped, Store!TypeOK, LocalsGo
<1>8. Store!StepIsOf(w)' /\ Store!BodyIsStored(w)' /\ Store!Outcome(w)'
  BY <1>1, <1>2, <1>4, <1>6 DEF Store!WorkerInv, Store!StepIsOf, Store!BodyIsStored,
     Store!Outcome, Store!Done, Store!Refusals
<1> QED BY <1>2, <1>4, <1>6, <1>7, <1>8, BodyStep

LEMMA MakeDirKeeps ==
  ASSUME Store!ConstantsAreProper, Store!StoreInv, NEW w \in setting.workers, Store!MakeDir(w)
  PROVE  Store!StoreInv'
<1> DEFINE d == Head(dirs[w])
<1>1. w \in Runners /\ Store!WorkerInv(w) /\ Store!StoreTyped
  BY WorksWithin
<1>2. /\ storePc[w] = "mkdirs"
      /\ UNCHANGED <<setting, req, ops, status, continued, handle, pos, quiet, whole, seen, stack>>
  BY DEF Store!MakeDir, Store!At
<1>3. dirs[w] \in Seq(Below) /\ req[w].op \in {"put", "store"} /\ ~continued[w] /\ handle[w] = 0
      /\ dirs \in [Runners -> Seq(Below)] /\ dirs[w] # <<>>
  BY <1>1, <1>2 DEF Store!WorkerInv, Store!StepIsOf, Store!BodyIsStored, Store!StoreTyped, Store!TypeOK
<1>4. d \in Below /\ Tail(dirs[w]) \in Seq(Below)
  BY <1>3
<1>5. /\ PcGoes(w) /\ TreeGoes(w) /\ dirs' \in [Runners -> Seq(Below)]
      /\ \A v \in Runners \ {w} : dirs'[v] = dirs[v]
      /\ storePc'[w] = "dirs" \/ (storePc'[w] = "idle" /\ final'[w] \in {0, 500})
  <2>1. CASE /\ Store!CanMake(d) /\ Store!Changes(w, d, Store!Dir) /\ Store!Goes(w, "dirs")
             /\ dirs' = [dirs EXCEPT ![w] = Tail(@)]
    <3>1. TreeGoes(w)
      BY <1>1, <1>4, <2>1, Making
    <3> QED BY <1>1, <1>3, <1>4, <2>1, <3>1, Going DEF PcGoes, Store!Steps
  <2>2. CASE Store!Keeps /\ Store!Answers(w, 500) /\ UNCHANGED dirs
    BY <1>1, <1>3, <2>2, Keeping, Answering DEF PcGoes
  <2> QED BY <2>1, <2>2 DEF Store!MakeDir
<1>6. LocalsGo(w)
  BY <1>1, <1>2, <1>5 DEF Store!StoreTyped, Store!TypeOK, LocalsGo
<1>7. Store!StepIsOf(w)' /\ Store!BodyIsStored(w)' /\ Store!Outcome(w)'
  BY <1>1, <1>2, <1>3, <1>5 DEF Store!WorkerInv, Store!StepIsOf, Store!BodyIsStored,
     Store!Outcome, Store!Done, Store!Success, Store!Refusals
<1> QED BY <1>2, <1>3, <1>5, <1>6, <1>7, BodyStep

LEMMA OpenKeeps ==
  ASSUME Store!ConstantsAreProper, Store!StoreInv, NEW w \in setting.workers, Store!Open(w)
  PROVE  Store!StoreInv'
<1> DEFINE p  == Store!P(w)
           id == IF Store!Exists(p) THEN fs[p].id ELSE 10 * ops + w
<1>1. w \in Runners /\ Store!WorkerInv(w) /\ Store!StoreTyped
  BY WorksWithin
<1>2. storePc[w] = "open" /\ UNCHANGED <<setting, req, ops, continued, dirs, quiet, whole, stack>>
  BY DEF Store!Open, Store!At
<1>3. p \in Below /\ Store!IsTree(fs) /\ w \in 1 .. 9 /\ ops \in 0 .. 99
      /\ req[w].body \in Seq(Int)
  BY <1>1, RequestIs
<1>4. /\ req[w].op \in {"put", "store"} /\ ~continued[w] /\ handle[w] = 0
      /\ status \in [Runners -> {0, 100, 200, 201, 206}]
  <2>1. req[w].op \in {"put", "store"} /\ ~continued[w] /\ handle[w] = 0
    BY <1>1, <1>2 DEF Store!WorkerInv, Store!StepIsOf, Store!BodyIsStored
  <2> QED BY <1>1, <2>1 DEF Store!StoreTyped
<1>5. CASE Store!Answers(w, 500) /\ Store!Keeps /\ UNCHANGED <<handle, pos, seen, status>>
  <2>1. PcGoes(w) /\ storePc'[w] = "idle" /\ final'[w] \in {0, 500}
    BY <1>1, <1>5, Answering DEF PcGoes
  <2>2. TreeGoes(w) /\ LocalsGo(w)
    BY <1>1, <1>2, <1>5, Keeping, LocalsKept
  <2>3. Store!StepIsOf(w)' /\ Store!BodyIsStored(w)' /\ Store!Outcome(w)'
    BY <1>1, <1>2, <1>4, <1>5, <2>1 DEF Store!WorkerInv, Store!StepIsOf, Store!BodyIsStored,
       Store!Outcome, Store!Done, Store!Success, Store!Refusals
  <2> QED BY <1>2, <1>4, <1>5, <2>1, <2>2, <2>3, BodyStep
<1>6. CASE /\ Store!CanOpen(p) /\ Store!Changes(w, p, Store!File(<<>>, id))
           /\ handle' = [handle EXCEPT ![w] = id] /\ pos' = [pos EXCEPT ![w] = 0]
           /\ seen' = [seen EXCEPT ![w] = id]
           /\ status' \in {status, [status EXCEPT ![w] = 206]}
           /\ (req[w].range = "negative" /\ Store!Answers(w, 500)) \/ Store!Goes(w, "forward")
  <2>1. fs[p].kind # "dir" /\ p # Root /\ fs[DirOf[p]].kind = "dir"
    BY <1>6 DEF Store!CanOpen, Store!IsDir
  <2>2. id \in Nat /\ id > 0 /\ (id <= 1000 \/ id = fs[p].id)
        /\ (id > 1000 => ~fs[p].locked)
    <3>1. CASE Store!Exists(p)
      <4>1. fs[p] \in Store!NodeType /\ fs[p].kind = "file"
        BY <1>3, <2>1, <3>1 DEF Store!IsTree, Store!NodeType, Store!Exists
      <4>2. ~fs[p].locked /\ id = fs[p].id
        BY <1>6, <3>1 DEF Store!CanOpen
      <4> QED BY <1>3, <4>1, <4>2 DEF Store!IsTree, Store!NodeType
    <3>2. CASE ~Store!Exists(p)
      <4>1. id = 10 * ops + w
        BY <3>2
      <4> QED BY <1>3, <4>1
    <3> QED BY <3>1, <3>2
  <2> HIDE DEF id, p
  <2>3. Store!IsTree(fs')
    BY <1>3, <1>6, <2>1, <2>2, TreeWithFile DEF Store!Changes
  <2>4. Store!File(<<>>, id).id = id /\ ~Store!File(<<>>, id).locked
    BY DEF Store!File
  <2>5. LockedIn(fs, fs')
    BY <1>3, <1>6, <2>4, LockedChanged DEF Store!Changes
  <2>6. /\ PcGoes(w)
        /\ \/ storePc'[w] = "idle" /\ final'[w] \in {0, 500} /\ req[w].range = "negative"
           \/ storePc'[w] = "forward"
    BY <1>1, <1>6, Answering, Going DEF Store!Steps, PcGoes
  <2>7. TreeGoes(w)
    BY <1>1, <1>3, <1>6, <2>3, <2>5, Changing DEF TreeGoes
  <2>8. /\ handle' \in [Runners -> Nat] /\ handle'[w] = id
        /\ \A v \in Runners \ {w} : handle'[v] = handle[v]
    BY <1>1, <1>6, <2>2 DEF Store!StoreTyped, Store!TypeOK
  <2>9. /\ seen' \in [Runners -> Nat] /\ seen'[w] = id
        /\ \A v \in Runners \ {w} : seen'[v] = seen[v]
    BY <1>1, <1>6, <2>2 DEF Store!StoreTyped, Store!TypeOK
  <2>10. /\ pos' \in [Runners -> Nat] /\ pos'[w] = 0
         /\ \A v \in Runners \ {w} : pos'[v] = pos[v]
    BY <1>1, <1>6 DEF Store!StoreTyped, Store!TypeOK
  <2>11. status' \in [Runners -> {0, 100, 200, 201, 206}]
    <3>1. CASE status' = status
      BY <1>4, <3>1
    <3>2. CASE status' = [status EXCEPT ![w] = 206]
      BY <1>4, <3>2
    <3> QED BY <1>6, <3>1, <3>2
  <2>12. LocalsGo(w)
    BY <1>1, <1>2, <2>8, <2>9, <2>10, <2>11 DEF LocalsGo, Store!StoreTyped, Store!TypeOK
  <2>13. Store!StepIsOf(w)'
    BY <1>2, <1>4, <2>6 DEF Store!StepIsOf
  <2>14. Store!BodyIsStored(w)'
    BY <1>2, <1>3, <2>2, <2>6, <2>8, <2>9, <2>10 DEF Store!BodyIsStored
  <2>15. Store!Outcome(w)'
    BY <1>2, <2>6 DEF Store!Outcome, Store!Done, Store!Success, Store!Refusals
  <2>16. Store!NotSeen(w)'
    <3>1. ASSUME NEW q \in Below, fs'[q].kind = "file", fs'[q].locked PROVE id # fs'[q].id
      <4>1. fs' = [fs EXCEPT ![p] = Store!File(<<>>, id)] /\ fs \in [Below -> Store!NodeType]
        BY <1>3, <1>6 DEF Store!Changes, Store!IsTree
      <4>2. q # p
        BY <1>3, <2>4, <3>1, <4>1
      <4>3. fs'[q] = fs[q] /\ fs[q].id > 1000
        BY <1>3, <3>1, <4>1, <4>2 DEF Store!IsTree
      <4>4. CASE id > 1000
        BY <1>3, <2>2, <4>2, <4>3, <4>4 DEF Store!IsTree
      <4>5. CASE ~(id > 1000)
        BY <2>2, <4>3, <4>5
      <4> QED BY <4>4, <4>5
    <3> QED BY <2>9, <3>1 DEF Store!NotSeen
  <2>17. storePc'[w] \notin {"opendir", "entries", "unlink"} /\ stack'[w] = stack[w]
    BY <1>2, <2>6
  <2> QED BY <1>2, <1>4, <2>6, <2>7, <2>12, <2>13, <2>14, <2>15, <2>16, <2>17, BodyStep
<1> QED
  <2>1. CASE req[w].op = "put" /\ req[w].range # "none"
    BY <1>5, <1>6, <2>1 DEF Store!Open
  <2>2. CASE ~(req[w].op = "put" /\ req[w].range # "none")
    BY <1>5, <1>6, <2>2 DEF Store!Open
  <2> QED BY <2>1, <2>2

LEMMA ForwardKeeps ==
  ASSUME Store!ConstantsAreProper, Store!StoreInv, NEW w \in setting.workers, Store!Forward(w)
  PROVE  Store!StoreInv'
<1>1. w \in Runners /\ Store!WorkerInv(w) /\ Store!StoreTyped
  BY WorksWithin
<1>2. /\ storePc[w] = "forward" /\ Store!Keeps
      /\ UNCHANGED <<setting, req, ops, dirs, pos, quiet, whole, seen, stack>>
  BY DEF Store!Forward, Store!At
<1>3. /\ req[w].op \in {"put", "store"} /\ ~continued[w] /\ handle[w] > 0
      /\ pos[w] <= Len(req[w].body) /\ handle[w] \in {0, seen[w]}
      /\ status \in [Runners -> {0, 100, 200, 201, 206}]
      /\ continued \in [Runners -> BOOLEAN] /\ handle \in [Runners -> Nat]
  BY <1>1, <1>2 DEF Store!WorkerInv, Store!StepIsOf, Store!BodyIsStored, Store!StoreTyped,
     Store!TypeOK
<1>4. TreeGoes(w)
  BY <1>1, <1>2, Keeping
<1>5. CASE Store!Answers(w, 417) /\ Store!Closes(w) /\ UNCHANGED <<status, continued>>
  <2>1. PcGoes(w) /\ storePc'[w] = "idle" /\ final'[w] \in {0, 417}
    BY <1>1, <1>5, Answering DEF PcGoes
  <2>2. LocalsGo(w) /\ handle'[w] = 0
    BY <1>1, <1>2, <1>5, Closing DEF LocalsGo, Store!StoreTyped, Store!TypeOK
  <2>3. Store!StepIsOf(w)' /\ Store!BodyIsStored(w)' /\ Store!Outcome(w)'
    BY <1>2, <2>1, <2>2 DEF Store!StepIsOf, Store!BodyIsStored,
       Store!Outcome, Store!Done, Store!Success, Store!Refusals
  <2> QED BY <1>2, <1>3, <1>4, <2>1, <2>2, <2>3, BodyStep
<1>6. CASE /\ Store!Goes(w, "body") /\ UNCHANGED handle
           /\ status' \in {status, [status EXCEPT ![w] = 100], [status EXCEPT ![w] = 200]}
           /\ continued' \in {continued, [continued EXCEPT ![w] = TRUE], [continued EXCEPT ![w] = FALSE]}
  <2>1. PcGoes(w) /\ storePc'[w] = "body"
    BY <1>1, <1>6, Going DEF PcGoes, Store!Steps
  <2>2. /\ status' \in [Runners -> {0, 100, 200, 201, 206}] /\ continued' \in [Runners -> BOOLEAN]
        /\ \A v \in Runners \ {w} : continued'[v] = continued[v]
    <3>1. status' \in [Runners -> {0, 100, 200, 201, 206}]
      <4>1. CASE status' = status
        BY <1>3, <4>1
      <4>2. CASE status' = [status EXCEPT ![w] = 100]
        BY <1>3, <4>2
      <4>3. CASE status' = [status EXCEPT ![w] = 200]
        BY <1>3, <4>3
      <4> QED BY <1>6, <4>1, <4>2, <4>3
    <3>2. CASE continued' = continued
      BY <1>3, <3>1, <3>2
    <3>3. CASE continued' = [continued EXCEPT ![w] = TRUE]
      BY <1>3, <3>1, <3>3
    <3>4. CASE continued' = [continued EXCEPT ![w] = FALSE]
      BY <1>3, <3>1, <3>4
    <3> QED BY <1>6, <3>2, <3>3, <3>4
  <2>3. LocalsGo(w)
    BY <1>1, <1>2, <1>6, <2>2 DEF LocalsGo, Store!StoreTyped, Store!TypeOK
  <2>4. Store!StepIsOf(w)' /\ Store!BodyIsStored(w)' /\ Store!Outcome(w)'
    BY <1>2, <1>3, <1>6, <2>1 DEF Store!StepIsOf, Store!BodyIsStored, Store!Outcome, Store!Done
  <2> QED BY <1>2, <1>3, <1>4, <2>1, <2>3, <2>4, BodyStep
<1> QED
  <2>1. CASE req[w].op = "put" /\ req[w].expect = "other"
    BY <1>5, <2>1 DEF Store!Forward
  <2>2. CASE req[w].op = "put" /\ req[w].expect = "continue"
    <3>1. status' = [status EXCEPT ![w] = 100] /\ continued' = [continued EXCEPT ![w] = TRUE]
          /\ Store!Goes(w, "body") /\ UNCHANGED handle
      BY <2>2 DEF Store!Forward
    <3> QED BY <1>6, <3>1
  <2>3. CASE req[w].op = "put" /\ req[w].expect \notin {"other", "continue"}
    <3>1. status' = [status EXCEPT ![w] = 200] /\ continued' = [continued EXCEPT ![w] = FALSE]
          /\ Store!Goes(w, "body") /\ UNCHANGED handle
      BY <2>3 DEF Store!Forward
    <3> QED BY <1>6, <3>1
  <2>4. CASE req[w].op # "put"
    BY <1>6, <2>4 DEF Store!Forward
  <2> QED BY <2>1, <2>2, <2>3, <2>4

LEMMA BodyKeeps ==
  ASSUME Store!ConstantsAreProper, Store!StoreInv, NEW w \in setting.workers, Store!Body(w)
  PROVE  Store!StoreInv'
<1>1. w \in Runners /\ Store!WorkerInv(w) /\ Store!StoreTyped
  BY WorksWithin
<1>2. /\ storePc[w] = "body" /\ handle[w] > 0 /\ handle[w] \in Nat /\ pos[w] \in Nat
      /\ pos[w] <= Len(req[w].body) /\ handle[w] \in {0, seen[w]}
      /\ req[w].op \in {"put", "store"}
      /\ UNCHANGED <<setting, req, ops, status, continued, dirs, whole, seen, stack>>
  <2>1. storePc[w] = "body" /\ UNCHANGED <<setting, req, ops, status, continued, dirs, whole, seen, stack>>
    BY DEF Store!Body, Store!At
  <2> QED BY <1>1, <2>1 DEF Store!WorkerInv, Store!BodyIsStored, Store!StepIsOf, Store!StoreTyped,
       Store!TypeOK
<1>3. Store!IsTree(fs) /\ req[w].body \in Seq(Int)
  BY <1>1, RequestIs
<1>4. CASE ~Store!BodyIsRead(w) /\ Store!WriteBody(w) /\ UNCHANGED <<storePc, final, handle, quiet>>
  <2> DEFINE x == req[w].body[pos[w] + 1]
             file == {p \in Below : fs[p].id = handle[w]}
  <2>1. pos[w] + 1 \in Nat /\ pos[w] + 1 > 0 /\ pos[w] + 1 <= Len(req[w].body) /\ x \in Int
    BY <1>2, <1>3, <1>4 DEF Store!BodyIsRead
  <2>2. /\ fs' = [p \in Below |-> IF fs[p].id = handle[w]
             THEN [fs[p] EXCEPT !.parts = Store!Put1(@, pos[w] + 1, x)] ELSE fs[p]]
        /\ changed' = [changed EXCEPT ![w] = @ \cup file]
    BY <1>4 DEF Store!WriteBody
  <2> HIDE DEF x
  <2>3. Store!IsTree(fs') /\ Alike(fs, fs')
    <3> DEFINE i == pos[w] + 1
    <3>1. i \in Nat /\ i > 0 /\ x \in Int /\ handle[w] \in Nat /\ handle[w] > 0
      BY <1>2, <2>1
    <3>2. fs' = [p \in Below |-> IF fs[p].id = handle[w]
          THEN [fs[p] EXCEPT !.parts = Store!Put1(@, i, x)] ELSE fs[p]]
      BY <2>2
    <3> HIDE DEF i
    <3> QED BY <1>3, <3>1, <3>2, TreeWritten, ZenonT(40)
  <2>4. LockedIn(fs, fs')
    BY <2>3 DEF Alike, LockedIn
  <2>5. changed' \in [Runners -> SUBSET Below] /\ \A v \in Runners \ {w} : changed'[v] = changed[v]
    <3>1. changed \in [Runners -> SUBSET Below]
      BY <1>1 DEF Store!StoreTyped, Store!TypeOK
    <3> QED BY <1>1, <2>2, <3>1
  <2>6. TreeGoes(w)
    BY <2>3, <2>4, <2>5 DEF TreeGoes
  <2>7. /\ pos' \in [Runners -> Nat] /\ pos'[w] = pos[w] + 1
        /\ \A v \in Runners \ {w} : pos'[v] = pos[v]
    BY <1>1, <1>4 DEF Store!WriteBody, Store!StoreTyped, Store!TypeOK
  <2>8. LocalsGo(w) /\ PcGoes(w)
    BY <1>1, <1>2, <1>4, <2>7 DEF LocalsGo, PcGoes, Store!StoreTyped, Store!TypeOK
  <2>9. Store!StepIsOf(w)' /\ Store!BodyIsStored(w)' /\ Store!Outcome(w)'
    BY <1>2, <1>4, <2>1, <2>7 DEF Store!StepIsOf, Store!BodyIsStored, Store!Outcome, Store!Done
  <2> QED BY <1>2, <1>4, <2>6, <2>8, <2>9, BodyStep
<1>5. CASE /\ Store!Keeps /\ UNCHANGED pos
           /\ quiet' \in {quiet, [quiet EXCEPT ![w] = TRUE]}
           /\ \/ /\ Store!BodyIsRead(w) \/ quiet' = [quiet EXCEPT ![w] = TRUE] \/ req[w].op = "store"
                 /\ Store!Goes(w, "close") /\ UNCHANGED handle
              \/ req[w].op = "store" /\ Store!Goes(w, "bad") /\ Store!Closes(w)
              \/ Store!Answers(w, 500) /\ Store!Closes(w)
  <2>1. /\ quiet' \in [Runners -> BOOLEAN] /\ (quiet' = [quiet EXCEPT ![w] = TRUE] => quiet'[w])
        /\ \A v \in Runners \ {w} : quiet'[v] = quiet[v]
    <3>1. quiet \in [Runners -> BOOLEAN]
      BY <1>1 DEF Store!StoreTyped, Store!TypeOK
    <3> QED BY <1>1, <1>5, <3>1
  <2>2. /\ PcGoes(w)
        /\ \/ /\ storePc'[w] = "close" /\ handle' = handle
              /\ Store!BodyIsRead(w) \/ quiet'[w] \/ req[w].op = "store"
           \/ storePc'[w] = "bad" /\ Store!Closes(w)
           \/ storePc'[w] = "idle" /\ final'[w] \in {0, 500} /\ Store!Closes(w)
    BY <1>1, <1>5, <2>1, Going, Answering DEF Store!Steps, PcGoes
  <2>3. /\ handle' \in [Runners -> Nat]
        /\ handle'[w] = IF storePc'[w] = "close" THEN handle[w] ELSE 0
        /\ \A v \in Runners \ {w} : handle'[v] = handle[v]
    <3>1. handle \in [Runners -> Nat]
      BY <1>1 DEF Store!StoreTyped, Store!TypeOK
    <3> QED BY <1>1, <2>2, <3>1, Closing
  <2>4. fs' = fs /\ changed' = changed /\ pos' = pos /\ TreeGoes(w)
    BY <1>1, <1>5, Keeping DEF Store!Keeps
  <2>5. LocalsGo(w)
    BY <1>1, <1>2, <2>1, <2>3, <2>4 DEF LocalsGo, Store!StoreTyped, Store!TypeOK
  <2>6. Store!StepIsOf(w)' /\ Store!BodyIsStored(w)'
    BY <1>2, <2>2, <2>3, <2>4 DEF Store!StepIsOf, Store!BodyIsStored, Store!BodyIsRead
  <2>7. Store!Outcome(w)'
    BY <2>2, <2>3 DEF Store!Outcome, Store!Done, Store!Success, Store!Refusals
  <2>8. storePc'[w] \notin {"opendir", "entries", "unlink"} /\ stack'[w] = stack[w]
    BY <1>2, <2>2
  <2> QED BY <1>2, <2>2, <2>4, <2>5, <2>6, <2>7, <2>8, BodyStep
<1> QED BY <1>4, <1>5 DEF Store!Body

LEMMA CloseFileKeeps ==
  ASSUME Store!ConstantsAreProper, Store!StoreInv, NEW w \in setting.workers, Store!CloseFile(w)
  PROVE  Store!StoreInv'
<1>1. w \in Runners /\ Store!WorkerInv(w) /\ Store!StoreTyped
  BY WorksWithin
<1>2. /\ storePc[w] = "close" /\ Store!Keeps /\ Store!Closes(w)
      /\ UNCHANGED <<setting, req, ops, status, continued, dirs, pos, quiet, seen, stack>>
  BY DEF Store!CloseFile, Store!At
<1>3. /\ req[w].op \in {"put", "store"} /\ status[w] \in {0, 100, 200, 201, 206}
      /\ req[w].op = "put" => (Store!BodyIsRead(w) \/ quiet[w])
      /\ whole \in [Runners -> BOOLEAN] /\ quiet[w] \in BOOLEAN
  BY <1>1, <1>2 DEF Store!WorkerInv, Store!BodyIsStored, Store!StepIsOf, Store!StoreTyped,
     Store!TypeOK
<1>4. /\ PcGoes(w) /\ whole' \in [Runners -> BOOLEAN]
      /\ \A v \in Runners \ {w} : whole'[v] = whole[v]
      /\ \/ /\ storePc'[w] = "idle" /\ final'[w] \in {0, 100, 200, 201, 206}
            /\ whole'[w] = (Store!BodyIsRead(w) \/ quiet[w])
         \/ storePc'[w] = "bad"
         \/ storePc'[w] = "idle" /\ final'[w] \in {0, 507}
  <2>1. CASE /\ whole' = [whole EXCEPT ![w] = Store!BodyIsRead(w) \/ quiet[w]]
             /\ \E n \in {0, 100, 200, 201, 206} : Store!Answers(w, n)
    <3>1. PcGoes(w) /\ storePc'[w] = "idle" /\ final'[w] \in {0, 100, 200, 201, 206}
      BY <1>1, <2>1, Answering DEF PcGoes
    <3>2. /\ whole' \in [Runners -> BOOLEAN] /\ whole'[w] = (Store!BodyIsRead(w) \/ quiet[w])
          /\ \A v \in Runners \ {w} : whole'[v] = whole[v]
      <4> DEFINE b == Store!BodyIsRead(w) \/ quiet[w]
      <4>1. b \in BOOLEAN /\ whole' = [whole EXCEPT ![w] = b]
        BY <2>1
      <4> HIDE DEF b
      <4>2. whole' \in [Runners -> BOOLEAN] /\ whole'[w] = b /\ \A v \in Runners \ {w} : whole'[v] = whole[v]
        BY <1>1, <1>3, <4>1
      <4> QED BY <4>2, Zenon DEF b
    <3> QED BY <3>1, <3>2
  <2>2. CASE UNCHANGED whole /\ Store!Goes(w, "bad")
    BY <1>1, <1>3, <2>2, Going DEF PcGoes, Store!Steps
  <2>3. CASE UNCHANGED whole /\ Store!Answers(w, 507)
    BY <1>1, <1>3, <2>3, Answering DEF PcGoes
  <2>4. (IF req[w].op = "store" THEN 200 ELSE status[w]) \in {0, 100, 200, 201, 206}
    BY <1>3
  <2> QED BY <2>1, <2>2, <2>3, <2>4 DEF Store!CloseFile
<1>5. handle'[w] = 0 /\ TreeGoes(w) /\ LocalsGo(w)
  BY <1>1, <1>2, <1>4, Keeping, Closing DEF LocalsGo, Store!StoreTyped, Store!TypeOK
<1>6. Store!StepIsOf(w)' /\ Store!BodyIsStored(w)'
  BY <1>2, <1>3, <1>4, <1>5 DEF Store!StepIsOf, Store!BodyIsStored
<1>7. Store!Outcome(w)'
  <2>1. final'[w] = 507 => final'[w] \notin Store!Success \cup Store!Refusals
    BY DEF Store!Success, Store!Refusals
  <2>2. final'[w] \in {0, 100, 200, 201, 206} => final'[w] \notin Store!Refusals
    BY DEF Store!Refusals
  <2>3. 0 \notin Store!Success
    BY DEF Store!Success
  <2>4. pos' = pos /\ req' = req /\ quiet' = quiet
    BY <1>2
  <2>5. (req[w].op = "put" /\ final'[w] \in Store!Success)
         => ((whole'[w] /\ (Store!BodyIsRead(w) \/ quiet[w])) \/ storePc'[w] = "bad")
    <3>1. CASE whole'[w] = (Store!BodyIsRead(w) \/ quiet[w])
      BY <1>3, <3>1, Zenon
    <3>2. CASE storePc'[w] = "bad" \/ final'[w] \in {0, 507}
      BY <3>2 DEF Store!Success
    <3> QED BY <1>4, <3>1, <3>2
  <2>6. storePc'[w] = "idle" => final'[w] \notin Store!Refusals
    BY <1>4, <2>1, <2>2
  <2> QED BY <1>5, <2>4, <2>5, <2>6 DEF Store!Outcome, Store!Done, Store!BodyIsRead
<1>8. storePc'[w] \notin {"opendir", "entries", "unlink"} /\ stack'[w] = stack[w]
  BY <1>2, <1>4
<1> QED BY <1>2, <1>3, <1>4, <1>5, <1>6, <1>7, <1>8, BodyStep

LEMMA RemoveBadKeeps ==
  ASSUME Store!ConstantsAreProper, Store!StoreInv, NEW w \in setting.workers, Store!RemoveBad(w)
  PROVE  Store!StoreInv'
<1>1. w \in Runners /\ Store!WorkerInv(w) /\ Store!StoreTyped
  BY WorksWithin
<1>2. /\ storePc[w] = "bad" /\ Store!Answers(w, 500)
      /\ UNCHANGED <<setting, req, ops, status, continued, dirs, handle, pos, quiet, whole, seen, stack>>
  BY DEF Store!RemoveBad, Store!At
<1>3. req[w].op \in {"put", "store"} /\ handle[w] = 0 /\ Store!P(w) \in Below
  BY <1>1, <1>2, RequestIs DEF Store!WorkerInv, Store!BodyIsStored, Store!StepIsOf
<1>4. PcGoes(w) /\ storePc'[w] = "idle" /\ final'[w] \in {0, 500}
  BY <1>1, <1>2, Answering DEF PcGoes
<1>5. TreeGoes(w) /\ LocalsGo(w)
  BY <1>1, <1>2, <1>3, Removing, Keeping, LocalsKept DEF Store!RemoveBad
<1>6. Store!StepIsOf(w)' /\ Store!BodyIsStored(w)' /\ Store!Outcome(w)'
  BY <1>2, <1>3, <1>4 DEF Store!StepIsOf, Store!BodyIsStored, Store!Outcome, Store!Done,
     Store!Success, Store!Refusals
<1> QED BY <1>2, <1>3, <1>4, <1>5, <1>6, BodyStep

\* A step of DELETE, MKCOL, MOVE or COPY.
LEMMA TreeStep ==
  ASSUME Store!ConstantsAreProper, Store!StoreInv, NEW w \in setting.workers,
         UNCHANGED <<setting, req, ops>>, Store!Same(w), PcGoes(w), TreeGoes(w),
         storePc[w] \in {"delete", "remove", "opendir", "entries", "unlink", "mkcol", "mkdir",
           "move", "copy", "overwrite", "rename"},
         stack' \in [Runners -> Seq(Store!FrameType)],
         \A v \in Runners \ {w} : stack'[v] = stack[v],
         Inside(Store!Under(Store!P(w)), stack'[w]),
         storePc'[w] \in {"remove", "access", "opendir", "entries", "unlink", "mkdir", "overwrite",
           "rename", "idle"},
         storePc'[w] \notin {"opendir", "entries", "unlink"} => stack'[w] = <<>>,
         storePc'[w] \in {"entries", "unlink"} => stack'[w] # <<>>,
         storePc'[w] \in {"access", "remove", "opendir", "entries", "unlink"} => req[w].op = "delete",
         storePc'[w] = "mkdir" => req[w].op = "mkcol",
         storePc'[w] \in {"overwrite", "rename"}
           => req[w].op \in {"move", "copy"} /\ req[w].dest \in Below,
         storePc'[w] = "overwrite" => req[w].overwrite,
         storePc'[w] \in {"access", "remove", "mkdir", "overwrite"} => changed'[w] = {},
         storePc'[w] = "rename" => changed'[w] \subseteq Store!MayLose(w),
         changed'[w] \subseteq Store!Reach(w),
         (storePc'[w] = "idle" /\ final'[w] \in Store!Refusals)
           => changed'[w] \subseteq Store!MayLose(w)
  PROVE  Store!StoreInv'
<1>1. w \in Runners /\ Store!WorkerInv(w) /\ Store!StoreTyped
  BY WorksWithin
<1>2. UNCHANGED <<status, continued, dirs, handle, pos, quiet, whole, seen>>
  BY DEF Store!Same
<1>3. handle[w] = 0 /\ ~continued[w] /\ req[w].op # "put" /\ handle[w] \in {0, seen[w]}
  BY <1>1 DEF Store!WorkerInv, Store!StepIsOf, Store!BodyIsStored
<1>4. LocalsGo(w)
  BY <1>1, <1>2 DEF LocalsGo, Store!StoreTyped, Store!TypeOK
<1>5. req'[w] = req[w] /\ Store!P(w)' = Store!P(w) /\ Store!MayLose(w)' = Store!MayLose(w)
      /\ Store!Reach(w)' = Store!Reach(w)
  BY <1>1, SameRequest
<1>6. Store!StepIsOf(w)'
  BY <1>2, <1>3, <1>5 DEF Store!StepIsOf
<1>7. Store!BodyIsStored(w)'
  BY <1>2, <1>3 DEF Store!BodyIsStored
<1>8. Store!WalksBelow(w)'
  <2>1. \A i \in DOMAIN stack'[w] :
          {stack'[w][i].dir, stack'[w][i].now} \cup stack'[w][i].left \subseteq Store!Under(Store!P(w))
    BY DEF Inside
  <2> QED BY <1>5, <2>1 DEF Store!WalksBelow, Store!Under
<1>9. Store!Outcome(w)'
  BY <1>2, <1>3, <1>5 DEF Store!Outcome, Store!Done
<1> QED BY <1>2, <1>4, <1>6, <1>7, <1>8, <1>9, Stepped DEF Store!WorkerInv

\* What a worker who deletes, makes or moves has.
LEMMA TreeWorker ==
  ASSUME Store!ConstantsAreProper, Store!StoreInv, NEW w \in setting.workers,
         storePc[w] \in {"delete", "remove", "opendir", "entries", "unlink", "mkcol", "mkdir",
           "move", "copy", "overwrite", "rename"}
  PROVE  /\ w \in Runners /\ Store!StoreTyped /\ Store!P(w) \in Below /\ Store!IsTree(fs)
         /\ stack \in [Runners -> Seq(Store!FrameType)] /\ stack[w] \in Seq(Store!FrameType)
         /\ Inside(Store!Under(Store!P(w)), stack[w])
         /\ storePc[w] \notin {"opendir", "entries", "unlink"} => stack[w] = <<>>
         /\ storePc[w] \in {"entries", "unlink"} => stack[w] # <<>>
         /\ changed[w] \subseteq Store!Reach(w)
         /\ storePc[w] \in {"delete", "remove", "mkcol", "mkdir", "move", "copy", "overwrite"}
              => changed[w] = {}
         /\ storePc[w] = "rename" => changed[w] \subseteq Store!MayLose(w)
         /\ storePc[w] \in {"delete", "remove", "opendir", "entries", "unlink"}
              => req[w].op = "delete" /\ Store!Reach(w) = Store!Under(Store!P(w))
         /\ storePc[w] \in {"mkcol", "mkdir"}
              => req[w].op = "mkcol" /\ Store!Reach(w) = {Store!P(w)}
         /\ storePc[w] \in {"move", "copy", "overwrite", "rename"}
              => req[w].op \in {"move", "copy"} /\ Store!Reach(w) = {Store!P(w), req[w].dest}
         /\ storePc[w] \in {"overwrite", "rename"} => req[w].dest \in Below
         /\ storePc[w] = "overwrite" => req[w].overwrite
<1>1. w \in Runners /\ Store!StoreTyped /\ Store!StepIsOf(w) /\ Store!WalksBelow(w)
  BY WorksWithin DEF Store!WorkerInv
<1>2. Store!P(w) \in Below /\ Store!IsTree(fs) /\ stack[w] \in Seq(Store!FrameType)
      /\ stack \in [Runners -> Seq(Store!FrameType)]
  BY <1>1, RequestIs DEF Store!StoreTyped, Store!TypeOK
<1>3. Inside(Store!Under(Store!P(w)), stack[w])
  BY <1>1 DEF Store!WalksBelow, Inside
<1>4. /\ req[w].op = "delete" => Store!Reach(w) = Store!Under(Store!P(w))
      /\ req[w].op = "mkcol" => Store!Reach(w) = {Store!P(w)}
      /\ req[w].op \in {"move", "copy"} => Store!Reach(w) = {Store!P(w), req[w].dest}
  BY DEF Store!Reach
<1> QED BY <1>1, <1>2, <1>3, <1>4 DEF Store!StepIsOf, Store!WalksBelow

LEMMA DeleteKeeps ==
  ASSUME Store!ConstantsAreProper, Store!StoreInv, NEW w \in setting.workers, Store!Delete(w)
  PROVE  Store!StoreInv'
<1>1. storePc[w] = "delete" /\ UNCHANGED <<setting, req, ops, stack>> /\ Store!Same(w) /\ Store!Keeps
  BY DEF Store!Delete, Store!At
<1>2. w \in Runners /\ Store!StoreTyped /\ stack[w] = <<>> /\ req[w].op = "delete" /\ changed[w] = {}
      /\ stack \in [Runners -> Seq(Store!FrameType)] /\ Inside(Store!Under(Store!P(w)), stack[w])
  BY <1>1, TreeWorker
<1>3. PcGoes(w) /\ storePc'[w] \in {"idle", "opendir", "access"}
  <2>1. Store!Answers(w, 404) \/ Store!Goes(w, "opendir") \/ Store!Goes(w, "access")
    BY DEF Store!Delete
  <2> QED BY <1>2, <2>1, Going, Answering DEF PcGoes, Store!Steps
<1>4. TreeGoes(w) /\ changed'[w] = {}
  BY <1>1, <1>2, Keeping
<1> QED BY <1>1, <1>2, <1>3, <1>4, TreeStep

LEMMA RemoveFileKeeps ==
  ASSUME Store!ConstantsAreProper, Store!StoreInv, NEW w \in setting.workers, Store!RemoveFile(w)
  PROVE  Store!StoreInv'
<1>1. storePc[w] = "remove" /\ UNCHANGED <<setting, req, ops, stack>> /\ Store!Same(w)
  BY DEF Store!RemoveFile, Store!At
<1>2. w \in Runners /\ Store!StoreTyped /\ stack[w] = <<>> /\ req[w].op = "delete" /\ changed[w] = {}
      /\ stack \in [Runners -> Seq(Store!FrameType)] /\ Inside(Store!Under(Store!P(w)), stack[w])
      /\ Store!Reach(w) = Store!Under(Store!P(w)) /\ Store!P(w) \in Below
  BY <1>1, TreeWorker
<1>3. CASE /\ Store!CanRemove(Store!P(w)) /\ Store!Changes(w, Store!P(w), Store!Absent)
           /\ Store!Answers(w, 204)
  <2>1. PcGoes(w) /\ storePc'[w] = "idle" /\ final'[w] \in {0, 204}
    BY <1>2, <1>3, Answering DEF PcGoes
  <2>2. TreeGoes(w) /\ changed'[w] = changed[w] \cup {Store!P(w)}
    BY <1>2, <1>3, Removing
  <2>3. changed'[w] \subseteq Store!Reach(w) /\ final'[w] \notin Store!Refusals
    BY <1>2, <2>1, <2>2, UnderIs DEF Store!Refusals
  <2> QED BY <1>1, <1>2, <2>1, <2>2, <2>3, TreeStep
<1>4. CASE Store!Keeps /\ Store!Answers(w, 423)
  <2>1. PcGoes(w) /\ storePc'[w] = "idle"
    BY <1>2, <1>4, Answering DEF PcGoes
  <2>2. TreeGoes(w) /\ changed'[w] = {}
    BY <1>2, <1>4, Keeping
  <2> QED BY <1>1, <1>2, <2>1, <2>2, TreeStep
<1> QED BY <1>3, <1>4 DEF Store!RemoveFile

LEMMA OpenDirKeeps ==
  ASSUME Store!ConstantsAreProper, Store!StoreInv, NEW w \in setting.workers, Store!OpenDir(w)
  PROVE  Store!StoreInv'
<1> DEFINE U == Store!Under(Store!P(w))
           d == IF stack[w] = <<>> THEN Store!P(w) ELSE Head(stack[w]).now
           top == Head(stack[w])
           f == Store!Frame(d)
           g == [top EXCEPT !.ok = FALSE]
<1>1. storePc[w] = "opendir" /\ UNCHANGED <<setting, req, ops>> /\ Store!Same(w) /\ Store!Keeps
  BY DEF Store!OpenDir, Store!At
<1>2. /\ w \in Runners /\ Store!StoreTyped /\ req[w].op = "delete"
      /\ stack \in [Runners -> Seq(Store!FrameType)] /\ stack[w] \in Seq(Store!FrameType)
      /\ Inside(U, stack[w]) /\ changed[w] \subseteq Store!Reach(w)
      /\ Store!P(w) \in Below /\ Store!Reach(w) = U
  BY <1>1, TreeWorker
<1>3. d \in U /\ U \subseteq Below
  BY <1>2, UnderIs, FramesPopped
<1>4. TreeGoes(w) /\ changed'[w] = changed[w]
  BY <1>1, <1>2, Keeping
<1>5. CASE Store!IsDir(d) /\ stack' = [stack EXCEPT ![w] = <<f>> \o @] /\ Store!Goes(w, "entries")
  <2>1. f \in Store!FrameType /\ f.dir \in U /\ f.now \in U /\ f.left \subseteq U
    <3>1. f = [dir |-> d, left |-> Store!In(d), now |-> d, ok |-> TRUE]
      BY DEF Store!Frame
    <3>2. Store!In(d) \subseteq U /\ Store!In(d) \subseteq Below
      BY <1>2, <1>3, UnderIs DEF Store!In
    <3> HIDE DEF d, f, U
    <3> QED BY <1>3, <3>1, <3>2 DEF Store!FrameType
  <2> HIDE DEF f, U, d
  <2>2. <<f>> \o stack[w] \in Seq(Store!FrameType) /\ Inside(U, <<f>> \o stack[w])
        /\ <<f>> \o stack[w] # <<>>
    BY <1>2, <2>1, FramesPushed
  <2>3. /\ stack' \in [Runners -> Seq(Store!FrameType)] /\ stack'[w] = <<f>> \o stack[w]
        /\ \A v \in Runners \ {w} : stack'[v] = stack[v]
    BY <1>2, <1>5, <2>2
  <2>4. PcGoes(w) /\ storePc'[w] = "entries"
    BY <1>2, <1>5, Going DEF PcGoes, Store!Steps
  <2> QED BY <1>1, <1>2, <1>4, <2>2, <2>3, <2>4, TreeStep DEF U
<1>6. CASE /\ stack[w] # <<>> /\ Store!Goes(w, "entries")
           /\ stack' = [stack EXCEPT ![w] = <<[Head(@) EXCEPT !.ok = FALSE]>> \o Tail(@)]
  <2>1. top \in Store!FrameType /\ top.dir \in U /\ top.now \in U /\ top.left \subseteq U
        /\ Tail(stack[w]) \in Seq(Store!FrameType) /\ Inside(U, Tail(stack[w]))
    BY <1>2, <1>6, FramesPopped
  <2>2. g \in Store!FrameType /\ g.dir = top.dir /\ g.now = top.now /\ g.left = top.left
    BY <2>1 DEF Store!FrameType
  <2> DEFINE rest == Tail(stack[w])
  <2>3. stack' = [stack EXCEPT ![w] = <<g>> \o rest]
    BY <1>6
  <2> HIDE DEF g, U, top, rest
  <2>4. <<g>> \o rest \in Seq(Store!FrameType) /\ Inside(U, <<g>> \o rest) /\ <<g>> \o rest # <<>>
    BY <2>1, <2>2, FramesPushed DEF rest
  <2>5. /\ stack' \in [Runners -> Seq(Store!FrameType)] /\ stack'[w] = <<g>> \o rest
        /\ \A v \in Runners \ {w} : stack'[v] = stack[v]
    BY <1>2, <2>3, <2>4
  <2>6. PcGoes(w) /\ storePc'[w] = "entries"
    BY <1>2, <1>6, Going DEF PcGoes, Store!Steps
  <2> QED BY <1>1, <1>2, <1>4, <2>4, <2>5, <2>6, TreeStep DEF U
<1>7. CASE stack[w] = <<>> /\ Store!Answers(w, 500) /\ UNCHANGED stack
  <2>1. PcGoes(w) /\ storePc'[w] = "idle" /\ final'[w] \in {0, 500}
    BY <1>2, <1>7, Answering DEF PcGoes
  <2>2. final'[w] \notin Store!Refusals
    BY <2>1 DEF Store!Refusals
  <2>3. Inside(U, stack'[w]) /\ stack'[w] = <<>>
    BY <1>2, <1>7
  <2> QED BY <1>1, <1>2, <1>4, <1>7, <2>1, <2>2, <2>3, TreeStep
<1> QED BY <1>5, <1>6, <1>7 DEF Store!OpenDir

LEMMA EntryKeeps ==
  ASSUME Store!ConstantsAreProper, Store!StoreInv, NEW w \in setting.workers, Store!Entry(w)
  PROVE  Store!StoreInv'
<1> DEFINE U == Store!Under(Store!P(w))
           top == Head(stack[w])
           rest == Tail(stack[w])
<1>1. storePc[w] = "entries" /\ UNCHANGED <<setting, req, ops>> /\ Store!Same(w) /\ Store!Keeps
  BY DEF Store!Entry, Store!At
<1>2. /\ w \in Runners /\ Store!StoreTyped /\ req[w].op = "delete" /\ stack[w] # <<>>
      /\ stack \in [Runners -> Seq(Store!FrameType)] /\ stack[w] \in Seq(Store!FrameType)
      /\ Inside(U, stack[w]) /\ changed[w] \subseteq Store!Reach(w)
  BY <1>1, TreeWorker
<1>3. TreeGoes(w) /\ changed'[w] = changed[w]
  BY <1>1, <1>2, Keeping
<1>4. top \in Store!FrameType /\ top.dir \in U /\ top.now \in U /\ top.left \subseteq U
      /\ rest \in Seq(Store!FrameType) /\ Inside(U, rest)
  BY <1>2, FramesPopped
<1>5. PICK p \in top.left :
        /\ stack' = [stack EXCEPT ![w] =
             <<[top EXCEPT !.left = @ \ {p}, !.now = p, !.ok = @ /\ Store!Exists(p)]>> \o rest]
        /\ Store!Goes(w, IF Store!IsDir(p) THEN "opendir" ELSE "unlink")
  BY DEF Store!Entry
<1> DEFINE g == [top EXCEPT !.left = @ \ {p}, !.now = p, !.ok = @ /\ Store!Exists(p)]
<1>6. g \in Store!FrameType /\ g.dir \in U /\ g.now \in U /\ g.left \subseteq U
  <2> DEFINE b == top.ok /\ Store!Exists(p)
             l == top.left \ {p}
  <2>1. b \in BOOLEAN /\ l \subseteq U /\ l \subseteq Below /\ p \in U /\ p \in Below /\ top.dir \in Below
    BY <1>4 DEF Store!FrameType
  <2>2. top = [dir |-> top.dir, left |-> top.left, now |-> top.now, ok |-> top.ok]
    BY <1>4 DEF Store!FrameType
  <2>3. g = [top EXCEPT !.left = l, !.now = p, !.ok = b]
    BY Zenon
  <2> HIDE DEF b, l, g
  <2>4. g = [dir |-> top.dir, left |-> l, now |-> p, ok |-> b]
    BY <2>2, <2>3
  <2> QED BY <1>4, <2>1, <2>4 DEF Store!FrameType
<1>7. stack' = [stack EXCEPT ![w] = <<g>> \o rest]
  BY <1>5, Zenon
<1>8. PcGoes(w) /\ storePc'[w] \in {"opendir", "unlink"}
  BY <1>2, <1>5, Going DEF PcGoes, Store!Steps
<1> HIDE DEF U, top, rest, g
<1>9. <<g>> \o rest \in Seq(Store!FrameType) /\ Inside(U, <<g>> \o rest) /\ <<g>> \o rest # <<>>
  BY <1>4, <1>6, FramesPushed
<1>10. /\ stack' \in [Runners -> Seq(Store!FrameType)] /\ stack'[w] = <<g>> \o rest
       /\ \A v \in Runners \ {w} : stack'[v] = stack[v]
  BY <1>2, <1>7, <1>9
<1> QED BY <1>1, <1>2, <1>3, <1>8, <1>9, <1>10, TreeStep DEF U

LEMMA UnlinkKeeps ==
  ASSUME Store!ConstantsAreProper, Store!StoreInv, NEW w \in setting.workers, Store!Unlink(w)
  PROVE  Store!StoreInv'
<1> DEFINE U == Store!Under(Store!P(w))
           top == Head(stack[w])
           rest == Tail(stack[w])
           g == [top EXCEPT !.ok = FALSE]
<1>1. storePc[w] = "unlink" /\ UNCHANGED <<setting, req, ops>> /\ Store!Same(w)
      /\ Store!Goes(w, "entries")
  BY DEF Store!Unlink, Store!At
<1>2. /\ w \in Runners /\ Store!StoreTyped /\ req[w].op = "delete" /\ stack[w] # <<>>
      /\ stack \in [Runners -> Seq(Store!FrameType)] /\ stack[w] \in Seq(Store!FrameType)
      /\ Inside(U, stack[w]) /\ changed[w] \subseteq Store!Reach(w) /\ Store!Reach(w) = U
      /\ Store!P(w) \in Below
  BY <1>1, TreeWorker
<1>3. /\ top \in Store!FrameType /\ top.dir \in U /\ top.now \in U /\ top.left \subseteq U
      /\ rest \in Seq(Store!FrameType) /\ Inside(U, rest) /\ top.now \in Below
  BY <1>2, FramesPopped DEF Store!FrameType
<1>4. PcGoes(w) /\ storePc'[w] = "entries"
  BY <1>1, <1>2, Going DEF PcGoes, Store!Steps
<1>5. CASE /\ Store!CanRemove(top.now) /\ Store!Changes(w, top.now, Store!Absent)
           /\ stack' = [stack EXCEPT ![w] = <<g>> \o rest]
  <2>1. TreeGoes(w) /\ changed'[w] = changed[w] \cup {top.now}
    BY <1>2, <1>3, <1>5, Removing
  <2>2. g \in Store!FrameType /\ g.dir = top.dir /\ g.now = top.now /\ g.left = top.left
    BY <1>3 DEF Store!FrameType
  <2> HIDE DEF U, top, rest, g
  <2>3. <<g>> \o rest \in Seq(Store!FrameType) /\ Inside(U, <<g>> \o rest) /\ <<g>> \o rest # <<>>
    BY <1>3, <2>2, FramesPushed
  <2>4. /\ stack' \in [Runners -> Seq(Store!FrameType)] /\ stack'[w] = <<g>> \o rest
        /\ \A v \in Runners \ {w} : stack'[v] = stack[v]
    BY <1>2, <1>5, <2>3
  <2>5. changed'[w] \subseteq Store!Reach(w)
    BY <1>2, <1>3, <2>1
  <2> QED BY <1>1, <1>2, <1>4, <2>1, <2>3, <2>4, <2>5, TreeStep DEF U
<1>6. CASE Store!Keeps /\ UNCHANGED stack
  <2>1. TreeGoes(w) /\ changed'[w] = changed[w]
    BY <1>2, <1>6, Keeping
  <2> HIDE DEF U
  <2>2. stack' \in [Runners -> Seq(Store!FrameType)] /\ stack'[w] # <<>> /\ Inside(U, stack'[w])
    BY <1>2, <1>6
  <2> QED BY <1>1, <1>2, <1>4, <1>6, <2>1, <2>2, TreeStep DEF U
<1> QED BY <1>5, <1>6 DEF Store!Unlink

LEMMA EntriesDoneKeeps ==
  ASSUME Store!ConstantsAreProper, Store!StoreInv, NEW w \in setting.workers, Store!EntriesDone(w)
  PROVE  Store!StoreInv'
<1> DEFINE U == Store!Under(Store!P(w))
           top == Head(stack[w])
           rest == Tail(stack[w])
           up == Head(rest)
           g == [up EXCEPT !.ok = @ /\ top.ok]
<1>1. storePc[w] = "entries" /\ UNCHANGED <<setting, req, ops>> /\ Store!Same(w)
  BY DEF Store!EntriesDone, Store!At
<1>2. /\ w \in Runners /\ Store!StoreTyped /\ req[w].op = "delete" /\ stack[w] # <<>>
      /\ stack \in [Runners -> Seq(Store!FrameType)] /\ stack[w] \in Seq(Store!FrameType)
      /\ Inside(U, stack[w]) /\ changed[w] \subseteq Store!Reach(w) /\ Store!Reach(w) = U
      /\ Store!P(w) \in Below
  BY <1>1, TreeWorker
<1>3. /\ top \in Store!FrameType /\ top.dir \in U /\ top.dir \in Below
      /\ rest \in Seq(Store!FrameType) /\ Inside(U, rest)
  BY <1>2, FramesPopped DEF Store!FrameType
<1>4. TreeGoes(w) /\ changed'[w] \subseteq Store!Reach(w)
  <2>1. CASE Store!CanRemove(top.dir) /\ Store!Changes(w, top.dir, Store!Absent)
    <3>1. TreeGoes(w) /\ changed'[w] = changed[w] \cup {top.dir}
      BY <1>2, <1>3, <2>1, Removing
    <3> QED BY <1>2, <1>3, <3>1
  <2>2. CASE Store!Keeps
    <3>1. TreeGoes(w) /\ changed'[w] = changed[w]
      BY <1>2, <2>2, Keeping
    <3> QED BY <1>2, <3>1
  <2> QED BY <2>1, <2>2 DEF Store!EntriesDone
<1>5. CASE rest = <<>>
  <2>1. stack' = [stack EXCEPT ![w] = <<>>] /\ (Store!Answers(w, 204) \/ Store!Answers(w, 500))
    BY <1>5 DEF Store!EntriesDone
  <2>2. PcGoes(w) /\ storePc'[w] = "idle" /\ final'[w] \in {0, 204, 500}
    BY <1>2, <2>1, Answering DEF PcGoes
  <2>3. /\ stack' \in [Runners -> Seq(Store!FrameType)] /\ stack'[w] = <<>>
        /\ \A v \in Runners \ {w} : stack'[v] = stack[v]
    BY <1>2, <2>1
  <2>4. Inside(U, stack'[w]) /\ final'[w] \notin Store!Refusals
    BY <2>2, <2>3 DEF Inside, Store!Refusals
  <2> QED BY <1>1, <1>2, <1>4, <2>2, <2>3, <2>4, TreeStep
<1>6. CASE rest # <<>>
  <2>1. stack' = [stack EXCEPT ![w] = <<g>> \o Tail(rest)] /\ UNCHANGED <<storePc, final>>
    BY <1>6 DEF Store!EntriesDone
  <2>2. /\ up \in Store!FrameType /\ up.dir \in U /\ up.now \in U /\ up.left \subseteq U
        /\ Tail(rest) \in Seq(Store!FrameType) /\ Inside(U, Tail(rest))
    BY <1>3, <1>6, FramesPopped
  <2>3. g \in Store!FrameType /\ g.dir = up.dir /\ g.now = up.now /\ g.left = up.left
    <3> DEFINE b == up.ok /\ top.ok
    <3>1. b \in BOOLEAN /\ up = [dir |-> up.dir, left |-> up.left, now |-> up.now, ok |-> up.ok]
      BY <1>3, <2>2 DEF Store!FrameType
    <3>2. g = [up EXCEPT !.ok = b]
      BY Zenon
    <3> HIDE DEF b, g
    <3>3. g = [dir |-> up.dir, left |-> up.left, now |-> up.now, ok |-> b]
      BY <3>1, <3>2
    <3> QED BY <2>2, <3>1, <3>3 DEF Store!FrameType
  <2> DEFINE tail == Tail(rest)
  <2>4. tail \in Seq(Store!FrameType) /\ Inside(U, tail) /\ stack' = [stack EXCEPT ![w] = <<g>> \o tail]
    BY <2>1, <2>2
  <2> HIDE DEF U, top, rest, up, g, tail
  <2>5. <<g>> \o tail \in Seq(Store!FrameType) /\ Inside(U, <<g>> \o tail) /\ <<g>> \o tail # <<>>
    BY <2>2, <2>3, <2>4, FramesPushed
  <2>6. /\ stack' \in [Runners -> Seq(Store!FrameType)] /\ stack'[w] = <<g>> \o tail
        /\ \A v \in Runners \ {w} : stack'[v] = stack[v]
    BY <1>2, <2>4, <2>5
  <2>7. PcGoes(w) /\ storePc'[w] = "entries"
    BY <1>1, <1>2, <2>1 DEF PcGoes, Store!StoreTyped, Store!TypeOK
  <2> QED BY <1>1, <1>2, <1>4, <2>5, <2>6, <2>7, TreeStep DEF U
<1> QED BY <1>5, <1>6

LEMMA MkColKeeps ==
  ASSUME Store!ConstantsAreProper, Store!StoreInv, NEW w \in setting.workers, Store!MkCol(w)
  PROVE  Store!StoreInv'
<1>1. storePc[w] = "mkcol" /\ UNCHANGED <<setting, req, ops, stack>> /\ Store!Same(w) /\ Store!Keeps
  BY DEF Store!MkCol, Store!At
<1>2. w \in Runners /\ Store!StoreTyped /\ stack[w] = <<>> /\ req[w].op = "mkcol" /\ changed[w] = {}
      /\ stack \in [Runners -> Seq(Store!FrameType)] /\ Inside(Store!Under(Store!P(w)), stack[w])
  BY <1>1, TreeWorker
<1>3. PcGoes(w) /\ storePc'[w] \in {"idle", "mkdir"}
  <2>1. Store!Answers(w, 405) \/ Store!Answers(w, 415) \/ Store!Goes(w, "mkdir")
    BY DEF Store!MkCol
  <2> QED BY <1>2, <2>1, Going, Answering DEF PcGoes, Store!Steps
<1>4. TreeGoes(w) /\ changed'[w] = {}
  BY <1>1, <1>2, Keeping
<1> QED BY <1>1, <1>2, <1>3, <1>4, TreeStep

LEMMA MkDirKeeps ==
  ASSUME Store!ConstantsAreProper, Store!StoreInv, NEW w \in setting.workers, Store!MkDir(w)
  PROVE  Store!StoreInv'
<1>1. storePc[w] = "mkdir" /\ UNCHANGED <<setting, req, ops, stack>> /\ Store!Same(w)
  BY DEF Store!MkDir, Store!At
<1>2. w \in Runners /\ Store!StoreTyped /\ stack[w] = <<>> /\ req[w].op = "mkcol" /\ changed[w] = {}
      /\ stack \in [Runners -> Seq(Store!FrameType)] /\ Inside(Store!Under(Store!P(w)), stack[w])
      /\ Store!Reach(w) = {Store!P(w)} /\ Store!P(w) \in Below
  BY <1>1, TreeWorker
<1>3. CASE /\ Store!CanMake(Store!P(w)) /\ Store!Changes(w, Store!P(w), Store!Dir)
           /\ Store!Answers(w, 201)
  <2>1. PcGoes(w) /\ storePc'[w] = "idle" /\ final'[w] \in {0, 201}
    BY <1>2, <1>3, Answering DEF PcGoes
  <2>2. TreeGoes(w) /\ changed'[w] = {Store!P(w)}
    BY <1>2, <1>3, Making
  <2>3. final'[w] \notin Store!Refusals
    BY <2>1 DEF Store!Refusals
  <2> QED BY <1>1, <1>2, <2>1, <2>2, <2>3, TreeStep
<1>4. CASE Store!Keeps /\ \E n \in {403, 405, 409, 500} : Store!Answers(w, n)
  <2>1. PcGoes(w) /\ storePc'[w] = "idle"
    BY <1>2, <1>4, Answering DEF PcGoes
  <2>2. TreeGoes(w) /\ changed'[w] = {}
    BY <1>2, <1>4, Keeping
  <2> QED BY <1>1, <1>2, <2>1, <2>2, TreeStep
<1> QED BY <1>3, <1>4 DEF Store!MkDir

LEMMA MoveKeeps ==
  ASSUME Store!ConstantsAreProper, Store!StoreInv, NEW w \in setting.workers, Store!Move(w)
  PROVE  Store!StoreInv'
<1>1. storePc[w] \in {"move", "copy"} /\ UNCHANGED <<setting, req, ops, stack>> /\ Store!Same(w)
      /\ Store!Keeps
  BY DEF Store!Move
<1>2. /\ w \in Runners /\ Store!StoreTyped /\ stack[w] = <<>> /\ req[w].op \in {"move", "copy"}
      /\ changed[w] = {} /\ stack \in [Runners -> Seq(Store!FrameType)]
      /\ Inside(Store!Under(Store!P(w)), stack[w])
  BY <1>1, TreeWorker
<1>3. /\ PcGoes(w) /\ storePc'[w] \in {"idle", "rename", "overwrite"}
      /\ storePc'[w] \in {"rename", "overwrite"} => req[w].dest \in Below
      /\ storePc'[w] = "overwrite" => req[w].overwrite
  <2>1. \/ Store!Answers(w, 502) \/ Store!Answers(w, 412)
        \/ req[w].dest \in Below /\ Store!Goes(w, "rename")
        \/ req[w].dest \in Below /\ req[w].overwrite /\ Store!Goes(w, "overwrite")
    BY DEF Store!Move
  <2> QED BY <1>2, <2>1, Going, Answering DEF PcGoes, Store!Steps
<1>4. TreeGoes(w) /\ changed'[w] = {}
  BY <1>1, <1>2, Keeping
<1> QED BY <1>1, <1>2, <1>3, <1>4, TreeStep

LEMMA OverwriteKeeps ==
  ASSUME Store!ConstantsAreProper, Store!StoreInv, NEW w \in setting.workers, Store!Overwrite(w)
  PROVE  Store!StoreInv'
<1> DEFINE d == req[w].dest
<1>1. storePc[w] = "overwrite" /\ UNCHANGED <<setting, req, ops, stack>> /\ Store!Same(w)
  BY DEF Store!Overwrite, Store!At
<1>2. /\ w \in Runners /\ Store!StoreTyped /\ stack[w] = <<>> /\ req[w].op \in {"move", "copy"}
      /\ changed[w] = {} /\ stack \in [Runners -> Seq(Store!FrameType)]
      /\ Inside(Store!Under(Store!P(w)), stack[w])
      /\ Store!Reach(w) = {Store!P(w), d} /\ d \in Below /\ req[w].overwrite
  BY <1>1, TreeWorker
<1>3. Store!MayLose(w) = {d}
  BY <1>2 DEF Store!MayLose
<1>4. CASE Store!CanRemove(d) /\ Store!Changes(w, d, Store!Absent) /\ Store!Goes(w, "rename")
  <2>1. PcGoes(w) /\ storePc'[w] = "rename"
    BY <1>2, <1>4, Going DEF PcGoes, Store!Steps
  <2>2. TreeGoes(w) /\ changed'[w] = {d}
    BY <1>2, <1>4, Removing
  <2> QED BY <1>1, <1>2, <1>3, <2>1, <2>2, TreeStep
<1>5. CASE Store!Keeps /\ Store!Answers(w, 403)
  <2>1. PcGoes(w) /\ storePc'[w] = "idle"
    BY <1>2, <1>5, Answering DEF PcGoes
  <2>2. TreeGoes(w) /\ changed'[w] = {}
    BY <1>2, <1>5, Keeping
  <2> QED BY <1>1, <1>2, <2>1, <2>2, TreeStep
<1> QED BY <1>4, <1>5 DEF Store!Overwrite

LEMMA RenameKeeps ==
  ASSUME Store!ConstantsAreProper, Store!StoreInv, NEW w \in setting.workers, Store!Rename(w)
  PROVE  Store!StoreInv'
<1> DEFINE p == Store!P(w)
           d == req[w].dest
<1>1. storePc[w] = "rename" /\ UNCHANGED <<setting, req, ops, stack>> /\ Store!Same(w)
  BY DEF Store!Rename, Store!At
<1>2. /\ w \in Runners /\ Store!StoreTyped /\ stack[w] = <<>> /\ req[w].op \in {"move", "copy"}
      /\ stack \in [Runners -> Seq(Store!FrameType)] /\ Inside(Store!Under(p), stack[w])
      /\ Store!Reach(w) = {p, d} /\ d \in Below /\ p \in Below /\ Store!IsTree(fs)
      /\ changed[w] \subseteq Store!MayLose(w) /\ changed[w] \subseteq Store!Reach(w)
  BY <1>1, TreeWorker
<1>3. CASE Store!Keeps /\ \E n \in {400, 403, 409, 412} : Store!Answers(w, n)
  <2>1. PcGoes(w) /\ storePc'[w] = "idle"
    BY <1>2, <1>3, Answering DEF PcGoes
  <2>2. TreeGoes(w) /\ changed'[w] = changed[w]
    BY <1>2, <1>3, Keeping
  <2> QED BY <1>1, <1>2, <2>1, <2>2, TreeStep
<1>4. CASE /\ Store!CanRename(p, d) /\ Store!Answers(w, 204)
           /\ fs' = [fs EXCEPT ![d] = fs[p], ![p] = IF d = p THEN @ ELSE Store!Absent]
           /\ changed' = [changed EXCEPT ![w] = @ \cup {p, d}]
  <2>1. PcGoes(w) /\ storePc'[w] = "idle" /\ final'[w] \in {0, 204}
    BY <1>2, <1>4, Answering DEF PcGoes
  <2>2. /\ p # Root /\ d # Root /\ fs[p].kind # "absent" /\ fs[DirOf[d]].kind = "dir" /\ DirOf[d] # p
        /\ \A q \in Below : DirOf[q] = p /\ q # Root => fs[q].kind = "absent"
        /\ fs[p].kind = "dir" \/ fs[d].kind # "dir"
    BY <1>4 DEF Store!CanRename, Store!In, Store!Exists, Store!IsDir
  <2>3. Store!IsTree(fs') /\ LockedIn(fs, fs')
    <3> HIDE DEF p, d
    <3> QED BY <1>2, <1>4, <2>2, TreeMoved, LockedMoved
  <2>4. /\ changed' \in [Runners -> SUBSET Below] /\ changed'[w] = changed[w] \cup {p, d}
        /\ \A v \in Runners \ {w} : changed'[v] = changed[v]
    <3>1. changed \in [Runners -> SUBSET Below]
      BY <1>2 DEF Store!StoreTyped, Store!TypeOK
    <3> QED BY <1>2, <1>4, <3>1
  <2>5. TreeGoes(w) /\ changed'[w] \subseteq Store!Reach(w) /\ final'[w] \notin Store!Refusals
    BY <1>2, <2>1, <2>3, <2>4 DEF TreeGoes, Store!Refusals
  <2> QED BY <1>1, <1>2, <2>1, <2>5, TreeStep
<1> QED BY <1>2, <1>3, <1>4 DEF Store!Rename

LEMMA BeginKeeps ==
  ASSUME Store!ConstantsAreProper, Store!StoreInv, NEW w \in setting.workers,
         NEW r \in setting.requests, Store!Begin(w, r)
  PROVE  Store!StoreInv'
<1>1. w \in Runners /\ Store!WorkerInv(w) /\ Store!StoreTyped
  BY WorksWithin
<1>2. r \in Store!RequestType /\ ops \in Nat /\ setting.maxOps \in Nat
  <2>1. setting \in Settings
    BY <1>1 DEF Store!StoreTyped, Store!TypeOK
  <2>2. setting.requests \subseteq Store!RequestType /\ setting.maxOps \in 0 .. 99
    BY <2>1, Zenon DEF Store!ConstantsAreProper
  <2> QED BY <1>1, <2>2 DEF Store!StoreTyped
<1>3. /\ r.op \in {"put", "store", "delete", "mkcol", "move", "copy"} /\ r.op \in Store!Steps
      /\ r.path \in Below
  BY <1>2 DEF Store!RequestType, Store!Steps
<1>4. /\ storePc' \in [Runners -> Store!Steps] /\ storePc'[w] = r.op
      /\ req' \in [Runners -> setting.requests] /\ req'[w] = r
      /\ \A v \in Runners \ {w} : storePc'[v] = storePc[v] /\ req'[v] = req[v]
  BY <1>1, <1>3 DEF Store!Begin, Store!StoreTyped, Store!TypeOK
<1>5. /\ handle' \in [Runners -> Nat] /\ handle'[w] = 0 /\ final' \in [Runners -> Nat]
      /\ status' \in [Runners -> {0, 100, 200, 201, 206}] /\ seen' \in [Runners -> Nat] /\ seen'[w] = 0
      /\ \A v \in Runners \ {w} : handle'[v] = handle[v] /\ final'[v] = final[v] /\ seen'[v] = seen[v]
  BY <1>1 DEF Store!Begin, Store!StoreTyped, Store!TypeOK
<1>6. /\ continued' \in [Runners -> BOOLEAN] /\ ~continued'[w]
      /\ \A v \in Runners \ {w} : continued'[v] = continued[v]
  BY <1>1 DEF Store!Begin, Store!StoreTyped, Store!TypeOK
<1>7. /\ whole' \in [Runners -> BOOLEAN] /\ \A v \in Runners \ {w} : whole'[v] = whole[v]
      /\ quiet' \in [Runners -> BOOLEAN] /\ \A v \in Runners \ {w} : quiet'[v] = quiet[v]
  BY <1>1 DEF Store!Begin, Store!StoreTyped, Store!TypeOK
<1>8. /\ changed' \in [Runners -> SUBSET Below] /\ changed'[w] = {}
      /\ \A v \in Runners \ {w} : changed'[v] = changed[v]
  BY <1>1 DEF Store!Begin, Store!StoreTyped, Store!TypeOK
<1>9. dirs' \in [Runners -> Seq(Below)] /\ \A v \in Runners \ {w} : dirs'[v] = dirs[v]
  <2> DEFINE s == IF r.slash THEN Append(Store!Above[r.path], r.path) ELSE Store!Above[r.path]
  <2>1. Store!Above[r.path] \in Seq(Below)
    BY <1>3, Zenon DEF Store!ConstantsAreProper
  <2>2. s \in Seq(Below)
    BY <1>3, <2>1
  <2>3. dirs' = [dirs EXCEPT ![w] = s] /\ dirs \in [Runners -> Seq(Below)]
    BY <1>1 DEF Store!Begin, Store!StoreTyped, Store!TypeOK
  <2> HIDE DEF s
  <2> QED BY <1>1, <2>2, <2>3
<1>10. ops' \in Nat /\ ops' <= setting.maxOps /\ UNCHANGED <<setting, fs, pos, stack>>
  BY <1>2 DEF Store!Begin
<1>11. OthersKeep(w)
  BY <1>4, <1>5, <1>6, <1>7, <1>8, <1>9, <1>10 DEF OthersKeep
<1>12. Store!StoreTyped'
  BY <1>1, <1>4, <1>5, <1>6, <1>7, <1>8, <1>9, <1>10 DEF Store!StoreTyped, Store!TypeOK
<1>13. Store!StepIsOf(w)'
  BY <1>3, <1>4, <1>6, <1>8 DEF Store!StepIsOf
<1>14. Store!BodyIsStored(w)' /\ Store!Outcome(w)'
  BY <1>3, <1>4, <1>5 DEF Store!BodyIsStored, Store!Outcome, Store!Done
<1>15. Store!WalksBelow(w)'
  <2>1. stack'[w] = <<>> /\ DOMAIN stack'[w] = {}
    <3>1. stack[w] = <<>>
      BY <1>1 DEF Store!Begin, Store!WorkerInv, Store!WalksBelow
    <3> QED BY <1>10, <3>1
  <2> QED BY <1>3, <1>4, <1>8, <2>1 DEF Store!WalksBelow
<1>16. Store!NotSeen(w)' /\ LockedIn(fs, fs')
  <2>1. \A p \in Below : fs[p].kind = "file" => fs[p].id # 0
    BY <1>1 DEF Store!StoreTyped, Store!TypeOK, Store!IsTree
  <2> QED BY <1>5, <1>10, <2>1 DEF Store!NotSeen, LockedIn
<1> QED BY <1>11, <1>12, <1>13, <1>14, <1>15, <1>16, StoreKept DEF Store!WorkerInv

LEMMA StoreStarts ==
  ASSUME Store!ConstantsAreProper, Store!Init
  PROVE  Store!StoreInv
<1>1. setting \in Settings /\ fs \in setting.trees
  BY DEF Store!Init
<1>2. setting.requests # {} /\ setting.maxOps \in 0 .. 99 /\ Store!IsTree(fs)
  BY <1>1, Zenon DEF Store!ConstantsAreProper
<1>3. (CHOOSE r \in setting.requests : TRUE) \in setting.requests
  BY <1>2
<1>4. Store!StoreTyped
  <2>1. setting \in Settings /\ Store!IsTree(fs) /\ ops \in Nat /\ ops <= setting.maxOps
    <3>1. ops = 0
      BY DEF Store!Init
    <3>2. 0 <= setting.maxOps
      BY <1>2
    <3> QED BY <1>1, <1>2, <3>1, <3>2
  <2>2. storePc \in [Runners -> Store!Steps] /\ req \in [Runners -> setting.requests]
    BY <1>3 DEF Store!Init, Store!Steps
  <2>3. /\ continued \in [Runners -> BOOLEAN] /\ whole \in [Runners -> BOOLEAN]
        /\ quiet \in [Runners -> BOOLEAN] /\ changed \in [Runners -> SUBSET Below]
    BY DEF Store!Init
  <2>4. /\ handle \in [Runners -> Nat] /\ pos \in [Runners -> Nat] /\ final \in [Runners -> Nat]
        /\ seen \in [Runners -> Nat] /\ status \in [Runners -> {0, 100, 200, 201, 206}]
    BY DEF Store!Init
  <2>5. dirs \in [Runners -> Seq(Below)] /\ stack \in [Runners -> Seq(Store!FrameType)]
    BY DEF Store!Init
  <2> QED BY <2>1, <2>2, <2>3, <2>4, <2>5 DEF Store!StoreTyped, Store!TypeOK
<1>5. ASSUME NEW w \in Runners PROVE Store!WorkerInv(w) /\ Store!NotSeen(w)
  <2>1. storePc[w] = "idle" /\ final[w] = 0 /\ handle[w] = 0 /\ changed[w] = {} /\ seen[w] = 0
        /\ stack[w] = <<>> /\ DOMAIN stack[w] = {}
    BY DEF Store!Init
  <2>2. Store!StepIsOf(w) /\ Store!BodyIsStored(w) /\ Store!WalksBelow(w)
    BY <2>1 DEF Store!StepIsOf, Store!BodyIsStored, Store!WalksBelow
  <2>3. Store!Outcome(w)
    BY <2>1 DEF Store!Outcome, Store!Done, Store!Success
  <2>4. Store!NotSeen(w)
    BY <1>2, <2>1 DEF Store!NotSeen, Store!IsTree
  <2> QED BY <2>2, <2>3, <2>4 DEF Store!WorkerInv
<1> QED BY <1>4, <1>5 DEF Store!StoreInv

LEMMA StoreSteps ==
  ASSUME Store!ConstantsAreProper, Store!StoreInv, [Store!Next]_Store!vars
  PROVE  Store!StoreInv'
<1>1. ASSUME NEW w \in setting.workers, Store!Work(w) PROVE Store!StoreInv'
  BY <1>1, PutKeeps, AccessKeeps, StoreKeeps, PutDirKeeps, MakeDirKeeps, OpenKeeps, ForwardKeeps,
     BodyKeeps, CloseFileKeeps, RemoveBadKeeps, DeleteKeeps, RemoveFileKeeps, OpenDirKeeps,
     EntryKeeps, UnlinkKeeps, EntriesDoneKeeps, MkColKeeps, MkDirKeeps, MoveKeeps, OverwriteKeeps,
     RenameKeeps DEF Store!Work
<1>2. ASSUME NEW w \in setting.workers, NEW r \in setting.requests, Store!Begin(w, r)
      PROVE  Store!StoreInv'
  BY <1>2, BeginKeeps
<1>3. CASE UNCHANGED Store!vars
  <2>1. Store!StoreTyped'
    BY <1>3 DEF Store!vars, Store!locals, Store!StoreInv, Store!StoreTyped, Store!TypeOK
  <2>2. ASSUME NEW w \in Runners PROVE Store!WorkerInv(w)' /\ Store!NotSeen(w)'
    <3>1. Store!WorkerInv(w) /\ Store!NotSeen(w) /\ req'[w] = req[w]
      BY <1>3 DEF Store!StoreInv, Store!vars, Store!locals
    <3>2. Store!P(w)' = Store!P(w) /\ Store!MayLose(w)' = Store!MayLose(w)
          /\ Store!Reach(w)' = Store!Reach(w)
      BY <3>1, SameRequest
    <3>3. Store!StepIsOf(w)' /\ Store!BodyIsStored(w)'
      BY <1>3, <3>1, <3>2 DEF Store!vars, Store!locals, Store!WorkerInv, Store!StepIsOf,
         Store!BodyIsStored, Store!BodyIsRead
    <3>4. Store!WalksBelow(w)' /\ Store!Outcome(w)'
      BY <1>3, <3>1, <3>2 DEF Store!vars, Store!locals, Store!WorkerInv, Store!WalksBelow,
         Store!Outcome, Store!Done, Store!BodyIsRead, Store!Under
    <3>5. Store!NotSeen(w)'
      BY <1>3, <3>1 DEF Store!vars, Store!locals, Store!NotSeen
    <3> QED BY <3>3, <3>4, <3>5 DEF Store!WorkerInv
  <2> QED BY <2>1, <2>2 DEF Store!StoreInv
<1> QED BY <1>1, <1>2, <1>3 DEF Store!Next

LEMMA StorePromises ==
  ASSUME Store!StoreInv
  PROVE  Store!TypeOK /\ Store!PutIsWhole /\ Store!RefusedChangesNothing
         /\ Store!ChangesWithinReach /\ Store!HandlesClosed
<1>1. Store!TypeOK /\ \A w \in Runners : Store!Outcome(w) /\ Store!WalksBelow(w)
  BY DEF Store!StoreInv, Store!StoreTyped, Store!WorkerInv
<1>2. Store!PutIsWhole
  BY <1>1 DEF Store!PutIsWhole, Store!Outcome
<1>3. Store!RefusedChangesNothing /\ Store!HandlesClosed
  BY <1>1 DEF Store!RefusedChangesNothing, Store!HandlesClosed, Store!Outcome
<1>4. Store!ChangesWithinReach
  BY <1>1 DEF Store!ChangesWithinReach, Store!WalksBelow
<1> QED BY <1>1, <1>2, <1>3, <1>4

\* A step of one worker leaves the others where they are.
LEMMA OneMoves ==
  ASSUME NEW v, Store!Work(v)
  PROVE  storePc' = storePc \/ \E step : storePc' = [storePc EXCEPT ![v] = step]
<1>1. CASE UNCHANGED <<storePc, final>> \/ (\E step : Store!Goes(v, step))
           \/ \E n : Store!Answers(v, n)
  BY <1>1 DEF Store!Goes, Store!Answers
<1>2. CASE Store!Put(v) \/ Store!Store(v) \/ Store!Body(v) \/ Store!RemoveBad(v) \/ Store!Access(v)
  BY <1>1, <1>2 DEF Store!Put, Store!Store, Store!Body, Store!RemoveBad, Store!Access
<1>3. CASE Store!PutDir(v) \/ Store!MakeDir(v) \/ Store!EntriesDone(v)
  BY <1>1, <1>3 DEF Store!PutDir, Store!MakeDir, Store!EntriesDone
<1>4. CASE Store!Open(v)
  BY <1>1, <1>4 DEF Store!Open
<1>5. CASE Store!Forward(v) \/ Store!CloseFile(v)
  BY <1>1, <1>5 DEF Store!Forward, Store!CloseFile
<1>6. CASE Store!Delete(v) \/ Store!RemoveFile(v) \/ Store!Unlink(v)
  BY <1>1, <1>6 DEF Store!Delete, Store!RemoveFile, Store!Unlink
<1>7. CASE Store!OpenDir(v) \/ Store!Entry(v)
  BY <1>1, <1>7 DEF Store!OpenDir, Store!Entry
<1>8. CASE Store!MkCol(v) \/ Store!MkDir(v)
  BY <1>1, <1>8 DEF Store!MkCol, Store!MkDir
<1>9. CASE Store!Move(v) \/ Store!Overwrite(v) \/ Store!Rename(v)
  BY <1>1, <1>9 DEF Store!Move, Store!Overwrite, Store!Rename
<1> QED BY <1>2, <1>3, <1>4, <1>5, <1>6, <1>7, <1>8, <1>9 DEF Store!Work

\* Who leaves his step did it himself.
LEMMA WhoMoves ==
  ASSUME Store!StoreInv, [Store!Next]_Store!vars, NEW w \in Runners, storePc[w] # "idle",
         storePc'[w] # storePc[w]
  PROVE  w \in setting.workers /\ Store!Work(w)
<1>1. storePc \in [Runners -> Store!Steps]
  BY DEF Store!StoreInv, Store!StoreTyped, Store!TypeOK
<1>2. PICK v \in setting.workers : Store!Work(v) \/ \E r \in setting.requests : Store!Begin(v, r)
  BY DEF Store!Next, Store!vars, Store!locals
<1>3. CASE Store!Work(v)
  <2>1. v = w
    BY <1>1, <1>3, OneMoves
  <2> QED BY <1>3, <2>1
<1>4. CASE \E r \in setting.requests : Store!Begin(v, r)
  BY <1>1, <1>4 DEF Store!Begin
<1> QED BY <1>2, <1>3, <1>4

LEMMA MovedIsKept ==
  ASSUME Store!ConstantsAreProper, Store!StoreInv, [Store!Next]_Store!vars, NEW w \in Runners
  PROVE  Store!KeepsMoved(w)
<1> DEFINE p == Store!P(w)
           d == req[w].dest
<1> SUFFICES ASSUME storePc[w] \in {"move", "copy", "overwrite", "rename"},
                    storePc'[w] # storePc[w], Store!Exists(p), ~(p = d /\ storePc[w] = "overwrite")
             PROVE  fs'[p] = fs[p] \/ fs'[d] = fs[p]
  BY DEF Store!KeepsMoved
<1>1. w \in setting.workers /\ Store!Work(w)
  BY WhoMoves
<1>2. Store!IsTree(fs) /\ p \in Below /\ fs \in [Below -> Store!NodeType]
      /\ (storePc[w] \in {"overwrite", "rename"} => d \in Below)
  BY <1>1, TreeWorker DEF Store!IsTree
<1>3. CASE fs' = fs
  BY <1>3
<1>4. CASE Store!Overwrite(w)
  <2>1. fs' = fs \/ fs' = [fs EXCEPT ![d] = Store!Absent]
    BY <1>4 DEF Store!Overwrite, Store!Keeps, Store!Changes
  <2>2. storePc[w] = "overwrite"
    BY <1>4 DEF Store!Overwrite, Store!At
  <2> QED BY <1>2, <2>1, <2>2
<1>5. CASE Store!Rename(w)
  <2>1. storePc[w] = "rename"
    BY <1>5 DEF Store!Rename, Store!At
  <2>2. \/ fs' = fs
        \/ fs' = [fs EXCEPT ![d] = fs[p], ![p] = IF d = p THEN @ ELSE Store!Absent]
    BY <1>5 DEF Store!Rename, Store!Keeps
  <2> QED BY <1>2, <2>1, <2>2
<1>6. CASE Store!Move(w)
  BY <1>3, <1>6 DEF Store!Move, Store!Keeps
<1>7. Store!Move(w) \/ Store!Overwrite(w) \/ Store!Rename(w)
  BY <1>1 DEF Store!Work, Store!At, Store!Put, Store!Store, Store!Access, Store!PutDir,
     Store!MakeDir, Store!Open, Store!Forward, Store!Body, Store!CloseFile, Store!RemoveBad,
     Store!Delete, Store!RemoveFile, Store!OpenDir, Store!Entry, Store!Unlink, Store!EntriesDone,
     Store!MkCol, Store!MkDir
<1> QED BY <1>4, <1>5, <1>6, <1>7

\* Who changes a name gives it what is not locked, or takes a file away.
LEMMA ProtectedAt ==
  ASSUME Store!ConstantsAreProper, Store!StoreInv, NEW w \in Runners, NEW q \in Below, NEW node,
         Store!Changes(w, q, node), node.id <= 1000 \/ (node.id = fs[q].id /\ ~fs[q].locked),
         node.id \in Nat, NEW p \in Below, fs[p].kind = "file", fs[p].locked
  PROVE  /\ \A x \in Below : fs'[x].id = fs[p].id => fs'[x] = fs[p]
         /\ fs'[p] # fs[p] => p = q
<1>1. Store!IsTree(fs) /\ fs \in [Below -> Store!NodeType]
  BY DEF Store!StoreInv, Store!StoreTyped, Store!TypeOK, Store!IsTree
<1>2. \A x \in Below : fs'[x] = IF x = q THEN node ELSE fs[x]
  BY <1>1 DEF Store!Changes
<1>3. fs[p].id > 1000 /\ fs[p].id \in Nat /\ \A x \in Below : fs[x].id = fs[p].id => x = p
  BY <1>1 DEF Store!IsTree, Store!NodeType
<1>4. node.id # fs[p].id
  BY <1>3
<1> QED BY <1>2, <1>3, <1>4

LEMMA ProtectedIsKept ==
  ASSUME Store!ConstantsAreProper, Store!StoreInv, [Store!Next]_Store!vars
  PROVE  Store!KeepsProtected
<1> SUFFICES ASSUME NEW p \in Below, fs[p].kind = "file", fs[p].locked
             PROVE  /\ \A q \in Below : fs'[q].id = fs[p].id => fs'[q] = fs[p]
                    /\ fs'[p] # fs[p] =>
                         \E w \in Runners :
                           /\ storePc'[w] # storePc[w]
                           /\ \/ storePc[w] \in {"unlink", "overwrite", "rename"}
                              \/ storePc[w] \in {"remove", "bad"} /\ Store!P(w) = p
                                 /\ seen[w] # fs[p].id
  BY DEF Store!KeepsProtected
<1> DEFINE Q(w) == /\ \A q \in Below : fs'[q].id = fs[p].id => fs'[q] = fs[p]
                   /\ fs'[p] # fs[p] =>
                        /\ storePc'[w] # storePc[w]
                        /\ \/ storePc[w] \in {"unlink", "overwrite", "rename"}
                           \/ storePc[w] \in {"remove", "bad"} /\ Store!P(w) = p
                              /\ seen[w] # fs[p].id
<1>1. /\ Store!IsTree(fs) /\ fs \in [Below -> Store!NodeType] /\ fs[p].id > 1000 /\ fs[p].id \in Nat
      /\ \A q \in Below : fs[q].id = fs[p].id => q = p
  BY DEF Store!StoreInv, Store!StoreTyped, Store!TypeOK, Store!IsTree, Store!NodeType
<1>2. CASE fs' = fs
  BY <1>1, <1>2
<1>3. ASSUME NEW w \in setting.workers, Store!Work(w), fs' # fs PROVE w \in Runners /\ Q(w)
  <2>1. /\ w \in Runners /\ Store!P(w) \in Below /\ w \in 1 .. 9 /\ ops \in 0 .. 99
        /\ Store!WorkerInv(w) /\ Store!NotSeen(w) /\ Store!StoreTyped
        /\ storePc \in [Runners -> Store!Steps]
    <3>1. w \in Runners /\ Store!WorkerInv(w) /\ Store!NotSeen(w) /\ Store!StoreTyped
      BY WorksWithin
    <3>2. Store!P(w) \in Below /\ w \in 1 .. 9 /\ ops \in 0 .. 99
      BY <3>1, RequestIs
    <3> QED BY <3>1, <3>2 DEF Store!StoreTyped, Store!TypeOK
  <2>2. seen[w] # fs[p].id
    BY <2>1 DEF Store!NotSeen
  <2>3. Store!Absent.id = 0 /\ Store!Dir.id = 0
    BY AbsentIs, DirIs
  <2>4. ASSUME NEW step, Store!Goes(w, step) PROVE storePc'[w] = step
    BY <2>1, <2>4 DEF Store!Goes
  <2>5. ASSUME NEW n, Store!Answers(w, n) PROVE storePc'[w] = "idle"
    BY <2>1, <2>5 DEF Store!Answers
  <2>6. CASE \E q \in Below : Store!CanMake(q) /\ Store!Changes(w, q, Store!Dir)
    <3>1. PICK q \in Below : Store!CanMake(q) /\ Store!Changes(w, q, Store!Dir)
      BY <2>6
    <3>2. p # q
      BY <3>1 DEF Store!CanMake, Store!Exists
    <3> QED BY <2>1, <2>3, <3>1, <3>2, ProtectedAt
  <2>7. CASE Store!RemoveFile(w) \/ Store!RemoveBad(w)
    <3>1. Store!Changes(w, Store!P(w), Store!Absent) /\ storePc[w] \in {"remove", "bad"}
      BY <1>3, <2>7 DEF Store!RemoveFile, Store!RemoveBad, Store!Keeps, Store!At
    <3>2. storePc'[w] = "idle"
      BY <2>5, <2>7 DEF Store!RemoveFile, Store!RemoveBad
    <3>3. /\ \A x \in Below : fs'[x].id = fs[p].id => fs'[x] = fs[p]
          /\ fs'[p] # fs[p] => p = Store!P(w)
      BY <2>1, <2>3, <3>1, ProtectedAt
    <3> QED BY <2>1, <2>2, <3>1, <3>2, <3>3
  <2>8. CASE Store!Unlink(w)
    <3> DEFINE now == Head(stack[w]).now
    <3>1. Store!Changes(w, now, Store!Absent) /\ storePc[w] = "unlink" /\ Store!Goes(w, "entries")
      BY <1>3, <2>8 DEF Store!Unlink, Store!Keeps, Store!At
    <3>2. now \in Below
      BY <2>1, <3>1, FramesPopped, TreeWorker DEF Store!FrameType
    <3> HIDE DEF now
    <3>3. \A x \in Below : fs'[x].id = fs[p].id => fs'[x] = fs[p]
      BY <2>1, <2>3, <3>1, <3>2, ProtectedAt
    <3> QED BY <2>1, <2>4, <3>1, <3>3
  <2>9. CASE Store!EntriesDone(w)
    <3> DEFINE q == Head(stack[w]).dir
    <3>1. Store!Changes(w, q, Store!Absent) /\ storePc[w] = "entries" /\ Store!IsDir(q)
      BY <1>3, <2>9 DEF Store!EntriesDone, Store!Keeps, Store!At
    <3>2. q \in Below
      BY <2>1, <3>1, FramesPopped, TreeWorker DEF Store!FrameType
    <3> HIDE DEF q
    <3>3. p # q
      BY <3>1 DEF Store!IsDir
    <3> QED BY <2>1, <2>3, <3>1, <3>2, <3>3, ProtectedAt
  <2>10. CASE Store!Overwrite(w)
    <3>1. Store!Changes(w, req[w].dest, Store!Absent) /\ storePc[w] = "overwrite"
          /\ Store!Goes(w, "rename")
      BY <1>3, <2>10 DEF Store!Overwrite, Store!Keeps, Store!At
    <3>2. req[w].dest \in Below
      BY <2>1, <3>1 DEF Store!WorkerInv, Store!StepIsOf
    <3>3. \A x \in Below : fs'[x].id = fs[p].id => fs'[x] = fs[p]
      BY <2>1, <2>3, <3>1, <3>2, ProtectedAt
    <3> QED BY <2>1, <2>4, <3>1, <3>3
  <2>11. CASE Store!Rename(w)
    <3> DEFINE r == Store!P(w)
               d == req[w].dest
    <3>1. /\ fs' = [fs EXCEPT ![d] = fs[r], ![r] = IF d = r THEN @ ELSE Store!Absent]
          /\ storePc[w] = "rename" /\ Store!Answers(w, 204)
      BY <1>3, <2>11 DEF Store!Rename, Store!Keeps, Store!At
    <3>2. d \in Below /\ r \in Below
      BY <2>1, <3>1 DEF Store!WorkerInv, Store!StepIsOf
    <3> HIDE DEF d, r
    <3>3. \A x \in Below : fs'[x] = IF x = d THEN fs[r] ELSE IF x = r THEN Store!Absent ELSE fs[x]
      BY <1>1, <3>1, <3>2
    <3>4. \A x \in Below : fs'[x].id = fs[p].id => fs'[x] = fs[p]
      BY <1>1, <2>3, <3>2, <3>3
    <3> QED BY <2>1, <2>5, <3>1, <3>4
  <2>12. CASE Store!Open(w)
    <3> DEFINE q  == Store!P(w)
               id == IF Store!Exists(q) THEN fs[q].id ELSE 10 * ops + w
    <3>1. Store!CanOpen(q) /\ Store!Changes(w, q, Store!File(<<>>, id))
      BY <1>3, <2>12 DEF Store!Open, Store!Keeps
    <3>2. id \in Nat /\ (id <= 1000 \/ (id = fs[q].id /\ ~fs[q].locked))
      <4>1. CASE Store!Exists(q)
        BY <1>1, <2>1, <3>1, <4>1 DEF Store!CanOpen, Store!NodeType
      <4>2. CASE ~Store!Exists(q)
        <5>1. id = 10 * ops + w
          BY <4>2
        <5> QED BY <2>1, <5>1
      <4> QED BY <4>1, <4>2
    <3>3. p # q
      BY <3>1 DEF Store!CanOpen, Store!Exists
    <3> DEFINE node == Store!File(<<>>, id)
    <3>4. node.id = id /\ q \in Below
      BY <2>1 DEF Store!File
    <3>5. Store!Changes(w, q, node)
      BY <3>1
    <3> HIDE DEF q, id, node
    <3> QED BY <2>1, <3>2, <3>3, <3>4, <3>5, ProtectedAt
  <2>13. CASE Store!Body(w)
    <3>1. Store!WriteBody(w) /\ storePc[w] = "body"
      BY <1>3, <2>13 DEF Store!Body, Store!Keeps, Store!At
    <3>2. handle[w] # fs[p].id
      BY <1>1, <2>1, <2>2, <3>1 DEF Store!WorkerInv, Store!BodyIsStored
    <3>3. \A x \in Below : fs'[x] = IF fs[x].id = handle[w]
             THEN [fs[x] EXCEPT !.parts = Store!Put1(@, pos[w] + 1, req[w].body[pos[w] + 1])]
             ELSE fs[x]
      BY <3>1 DEF Store!WriteBody
    <3>4. \A x \in Below : fs'[x].id = fs[x].id
      BY <1>1, <3>3 DEF Store!NodeType
    <3> QED BY <1>1, <2>1, <3>2, <3>3, <3>4
  <2>14. Store!Body(w) \/ Store!Open(w) \/ Store!Rename(w) \/ Store!Overwrite(w)
         \/ Store!EntriesDone(w) \/ Store!Unlink(w) \/ Store!RemoveFile(w) \/ Store!RemoveBad(w)
         \/ Store!MkDir(w) \/ Store!MakeDir(w)
    BY <1>3 DEF Store!Work, Store!Put, Store!Store, Store!Access, Store!PutDir, Store!Forward,
       Store!CloseFile, Store!Delete, Store!OpenDir, Store!Entry, Store!MkCol, Store!Move, Store!Keeps
  <2>15. CASE Store!MkDir(w)
    BY <1>3, <2>1, <2>6, <2>15 DEF Store!MkDir, Store!Keeps
  <2>16. CASE Store!MakeDir(w)
    <3>1. Store!CanMake(Head(dirs[w])) /\ Store!Changes(w, Head(dirs[w]), Store!Dir)
          /\ storePc[w] = "mkdirs"
      BY <1>3, <2>16 DEF Store!MakeDir, Store!Keeps, Store!At
    <3>2. dirs[w] \in Seq(Below) /\ dirs[w] # <<>>
      BY <2>1, <3>1, RequestIs DEF Store!WorkerInv, Store!StepIsOf
    <3>3. Head(dirs[w]) \in Below
      BY <3>2
    <3> QED BY <2>6, <3>1, <3>3
  <2> QED BY <2>7, <2>8, <2>9, <2>10, <2>11, <2>12, <2>13, <2>14, <2>15, <2>16
<1>4. CASE fs' # fs
  <2>1. PICK w \in setting.workers : Store!Work(w)
    BY <1>4 DEF Store!Next, Store!Begin, Store!vars
  <2>2. w \in Runners /\ Q(w)
    BY <1>3, <1>4, <2>1
  <2> QED BY <2>2
<1> QED BY <1>2, <1>4

-----------------------------------------------------------------------------
(* Responses: ResponseInv of FileResponse is inductive.                    *)

\* A part of a sequence has the length that its bounds say, and its elements.
LEMMA PartOfSeq ==
  ASSUME NEW s \in Seq(Int), NEW a \in Nat, NEW n \in Nat, a + n <= Len(s)
  PROVE  /\ SubSeq(s, a + 1, a + n) \in Seq(Int) /\ Len(SubSeq(s, a + 1, a + n)) = n
         /\ \A i \in 1 .. n : SubSeq(s, a + 1, a + n)[i] = s[a + i]
OBVIOUS

LEMMA JoinedSeqs ==
  ASSUME NEW s \in Seq(Int), NEW t \in Seq(Int)
  PROVE  /\ s \o t \in Seq(Int) /\ Len(s \o t) = Len(s) + Len(t)
         /\ \A i \in 1 .. Len(s) : (s \o t)[i] = s[i]
         /\ \A i \in 1 .. Len(t) : (s \o t)[Len(s) + i] = t[i]
OBVIOUS

\* Whichever page a status has, it is one of the three, and it is there.
LEMMA PageIsThere ==
  ASSUME NEW e \in Send!PageErrors, NEW i \in DOMAIN Send!Pages(e)
  PROVE  Send!Pages(e)[i] \in Send!ErrorPages
BY DEF Send!Pages, Send!ErrorPages, Send!PageErrors

\* What mg_stat() says of a name.
LEMMA StatIsOf ==
  ASSUME Send!StateTyped, NEW p \in Send!Names, NEW gz \in BOOLEAN
  PROVE  Send!Stat(p, gz) \in Send!StatType /\ Send!Stat(p, gz).size = Send!Size(p)
         /\ Send!Stat(p, gz).gz = gz /\ Send!Size(p) \in Nat
BY DEF Send!StateTyped, Send!FileType, Send!StatType, Send!Stat, Send!Size

LEMMA FailsAnyhow ==
  ASSUME Send!StateTyped, NEW e \in Send!PageErrors, Send!Fails(e)
  PROVE  \/ /\ sendPc' = "decide" /\ name' \in Send!ErrorPages /\ code' = e /\ inError' = TRUE
            /\ head' = head
            /\ stat' \in Send!StatType /\ stat'.size = Send!Size(name') /\ stat'.gz = FALSE
         \/ /\ sendPc' = "idle" /\ head' = e /\ code' = e /\ inError' = FALSE /\ name' = name
            /\ stat' = stat
<1> DEFINE pages == {i \in DOMAIN Send!Pages(e) : Send!There(Send!Pages(e)[i])}
<1> DEFINE first == CHOOSE i \in pages : \A j \in pages : i <= j
<1>1. pages \subseteq 1..3
  BY DEF Send!Pages
<1>2. ASSUME pages # {} PROVE first \in pages
  <2>1. \E i \in pages : \A j \in pages : i <= j
    BY <1>1, <1>2
  <2> HIDE DEF pages
  <2> QED BY <2>1, Zenon
<1>3. ASSUME pages # {} PROVE Send!Pages(e)[first] \in Send!ErrorPages
  BY <1>2, <1>3, PageIsThere
<1>4. IF ~inError /\ pages # {}
      THEN /\ inError' = TRUE /\ name' = Send!Pages(e)[first] /\ stat' = Send!Stat(name', FALSE)
           /\ code' = e /\ sendPc' = "decide" /\ UNCHANGED head
      ELSE /\ sendPc' = "idle" /\ head' = e /\ code' = e /\ inError' = FALSE
           /\ UNCHANGED <<name, stat>>
  BY DEF Send!Fails
<1> HIDE DEF pages, first
<1>5. CASE ~inError /\ pages # {}
  <2>1. name' \in Send!ErrorPages
    BY <1>3, <1>4, <1>5, Zenon
  <2>2. name' \in Send!Names
    BY <2>1 DEF Send!Names, Send!ErrorPages
  <2>3. stat' = Send!Stat(name', FALSE)
    BY <1>4, <1>5, Zenon
  <2>4. stat' \in Send!StatType /\ stat'.size = Send!Size(name') /\ stat'.gz = FALSE
    BY <2>2, <2>3, StatIsOf, Zenon
  <2> QED BY <1>4, <1>5, <2>1, <2>4, Zenon
<1>6. CASE ~(~inError /\ pages # {})
  BY <1>4, <1>6, Zenon
<1> QED BY <1>5, <1>6

LEMMA InitResponse ==
  ASSUME Send!ConstantsAreProper, Send!Init
  PROVE  Send!ResponseInv
<1>1. disk \in [Send!Names -> Send!FileType] /\ asked \in Send!RequestType
  BY DEF Send!Init, Send!ConstantsAreProper
<1>2. stat \in Send!StatType
  BY DEF Send!Init, Send!NoStat, Send!StatType
<1>3. Send!StateTyped
  <2>1. encoding \in BOOLEAN /\ inError \in BOOLEAN /\ looped \in BOOLEAN /\ broken \in BOOLEAN
    BY DEF Send!Init
  <2>2. /\ sendPc = "idle" /\ off \in Nat /\ len \in Nat /\ cl \in Int /\ head = 0 /\ edits \in Nat
        /\ sent \in Seq(Int)
    BY DEF Send!Init
  <2>3. name \in Send!Names
    BY DEF Send!Init, Send!Names
  <2> QED BY <1>1, <1>2, <2>1, <2>2, <2>3 DEF Send!StateTyped, Send!TypeOK
<1> QED BY <1>3 DEF Send!Init, Send!ResponseInv, Send!HeadComesFirst, Send!HeadSent, Send!Sending,
           Send!Opened, Send!NameIsKnown, Send!LengthIsCurrent,
       Send!BodyIsPart

LEMMA BeginKeepsResponse ==
  ASSUME Send!ConstantsAreProper, Send!ResponseInv, NEW r \in Gets, Send!Begin(r)
  PROVE  Send!ResponseInv'
<1>1. Send!StateTyped /\ r \in Send!RequestType /\ r.path = "file" /\ r.gzip \in BOOLEAN
  BY DEF Send!ResponseInv, Send!ConstantsAreProper, Send!RequestType
<1>2. /\ asked' = r /\ name' = "file" /\ sent' = <<>> /\ head' = 0 /\ encoding' = FALSE
      /\ inError' = FALSE
      /\ cl' = 0 /\ off' = 0 /\ len' = 0 /\ looped' = FALSE /\ broken' = FALSE /\ disk' = disk
      /\ edits' = edits
  BY <1>1 DEF Send!Begin
<1>3. \/ sendPc' = "decide" /\ stat' = Send!Stat("file", FALSE)
      \/ sendPc' = "decide" /\ stat' = Send!Stat("file.gz", TRUE) /\ r.gzip
      \/ sendPc' = "missing" /\ stat' = Send!NoStat
  <2> DEFINE zipped == {g \in Send!Gz(r.path) : Send!There(g) /\ r.gzip}
  <2>1. ASSUME zipped # {} PROVE (CHOOSE g \in zipped : TRUE) = "file.gz" /\ r.gzip
    BY <2>1 DEF Send!Gz
  <2>2. CASE Send!There(r.path)
    BY <1>1, <2>2 DEF Send!Begin
  <2>3. CASE ~Send!There(r.path) /\ zipped # {}
    BY <2>1, <2>3 DEF Send!Begin
  <2>4. CASE ~Send!There(r.path) /\ zipped = {}
    BY <2>4 DEF Send!Begin
  <2> QED BY <2>2, <2>3, <2>4
<1>4. /\ stat' \in Send!StatType
      /\ \/ sendPc' = "decide" /\ stat'.size = Send!Size("file") /\ stat'.gz = FALSE
         \/ sendPc' = "decide" /\ stat'.size = Send!Size("file.gz") /\ stat'.gz = TRUE /\ r.gzip
         \/ sendPc' = "missing" /\ stat'.gz = FALSE
  <2>1. Send!NoStat \in Send!StatType /\ Send!NoStat.gz = FALSE
    BY DEF Send!NoStat, Send!StatType
  <2>2. "file" \in Send!Names /\ "file.gz" \in Send!Names
    BY DEF Send!Names
  <2> QED BY <1>1, <1>3, <2>1, <2>2, StatIsOf, Zenon
<1>5. Send!StateTyped'
  <2>1. name' \in Send!Names /\ sendPc' \in {"missing", "decide"}
    BY <1>2, <1>4 DEF Send!Names
  <2>2. sent' \in Seq(Int) /\ edits' \in Nat /\ asked' \in Send!RequestType
        /\ disk' \in [Send!Names -> Send!FileType]
    BY <1>1, <1>2 DEF Send!StateTyped
  <2>3. stat' \in Send!StatType
    BY <1>4
  <2>4. encoding' \in BOOLEAN /\ inError' \in BOOLEAN /\ looped' \in BOOLEAN /\ broken' \in BOOLEAN
    BY <1>2
  <2>5. off' \in Nat /\ len' \in Nat /\ cl' \in Int /\ head' = 0
    BY <1>2
  <2> QED BY <2>1, <2>2, <2>3, <2>4, <2>5 DEF Send!StateTyped, Send!TypeOK
<1> QED BY <1>1, <1>2, <1>4, <1>5 DEF Send!ResponseInv, Send!HeadComesFirst, Send!HeadSent,
           Send!Sending, Send!Opened, Send!NameIsKnown, Send!LengthIsCurrent,
       Send!BodyIsPart, Send!Size, Send!Max0

\* What remains to be shown of a step after which the request is at an error page, or over.
LEMMA FailsKeepsResponse ==
  ASSUME Send!ResponseInv, NEW e \in Send!PageErrors, Send!Fails(e),
         sendPc \in {"missing", "open", "head"},
         UNCHANGED <<disk, asked, edits, encoding, cl, off, len, sent, broken>>, looped' \in BOOLEAN
  PROVE  Send!ResponseInv'
<1>1. Send!StateTyped
  BY DEF Send!ResponseInv
<1>2. \/ /\ sendPc' = "decide" /\ name' \in Send!ErrorPages /\ code' = e /\ inError' = TRUE
         /\ head' = head
         /\ stat' \in Send!StatType /\ stat'.size = Send!Size(name') /\ stat'.gz = FALSE
      \/ /\ sendPc' = "idle" /\ head' = e /\ code' = e /\ inError' = FALSE /\ name' = name
         /\ stat' = stat
  BY <1>1, FailsAnyhow
<1>3. Send!StateTyped'
  <2>1. encoding' \in BOOLEAN /\ broken' \in BOOLEAN
    BY <1>1 DEF Send!StateTyped, Send!TypeOK
  <2>2. inError' \in BOOLEAN /\ sendPc' \in {"idle", "decide"}
    BY <1>2
  <2>3. name' \in Send!Names
    BY <1>1, <1>2 DEF Send!StateTyped, Send!TypeOK, Send!Names, Send!ErrorPages
  <2>4. stat' \in Send!StatType
    BY <1>1, <1>2 DEF Send!StateTyped
  <2>5. head' \in {0, 200, 206, 304, 404, 416, 500}
    BY <1>1, <1>2 DEF Send!StateTyped, Send!TypeOK, Send!PageErrors
  <2>6. sent' \in Seq(Int) /\ edits' \in Nat /\ asked' \in Send!RequestType
        /\ disk' \in [Send!Names -> Send!FileType]
    BY <1>1 DEF Send!StateTyped
  <2>7. off' \in Nat /\ len' \in Nat /\ cl' \in Int
    BY <1>1 DEF Send!StateTyped, Send!TypeOK
  <2> QED BY <2>1, <2>2, <2>3, <2>4, <2>5, <2>6, <2>7 DEF Send!StateTyped, Send!TypeOK
<1>4. sent' = <<>> /\ off' = 0 /\ len' = 0
  BY DEF Send!ResponseInv, Send!HeadComesFirst, Send!HeadSent, Send!Sending
<1> QED BY <1>2, <1>3, <1>4 DEF Send!ResponseInv, Send!HeadComesFirst, Send!HeadSent,
           Send!Sending, Send!Opened, Send!NameIsKnown,
       Send!LengthIsCurrent, Send!BodyIsPart, Send!ErrorPages, Send!PageErrors, Send!Size

LEMMA MissingKeepsResponse ==
  ASSUME Send!ResponseInv, Send!Missing
  PROVE  Send!ResponseInv'
<1>1. looped' \in BOOLEAN
  BY DEF Send!ResponseInv, Send!StateTyped, Send!TypeOK, Send!Missing
<1> QED BY <1>1, FailsKeepsResponse DEF Send!Missing, Send!Begun, Send!PageErrors

\* Which file Decide chooses, and the length it announces.
LEMMA Decided ==
  ASSUME Send!ResponseInv, Send!Decide, sendPc' = "open"
  PROVE  /\ name' \in Send!Names /\ stat' \in Send!StatType /\ encoding' \in BOOLEAN /\ cl' \in Nat
         /\ (encoding' <=> name' = "file.gz") /\ (encoding' => asked.gzip)
         /\ edits = 0 => cl' = Send!Size(name)'
<1> DEFINE zipped == {g \in Send!Gz(name) : Send!There(g)}
           beside == asked.gzip /\ asked.range = "no" /\ stat.size >= GzipFrom /\ zipped # {}
           /\ ~stat.gz
<1>1. Send!StateTyped /\ sendPc = "decide" /\ name # "file.gz"
      /\ (stat.gz => name = "file" /\ asked.gzip)
  BY DEF Send!ResponseInv, Send!NameIsKnown, Send!Decide
<1>2. /\ name \in Send!Names /\ stat \in Send!StatType /\ stat.size \in Nat /\ stat.gz \in BOOLEAN
      /\ edits = 0 => stat.size = Send!Size(IF stat.gz THEN "file.gz" ELSE name)
  BY <1>1 DEF Send!StateTyped, Send!TypeOK, Send!StatType, Send!ResponseInv, Send!LengthIsCurrent
<1>0. disk' = disk
  BY DEF Send!Decide, Send!Begun
<1>3. CASE stat.gz
  <2>1. name' = "file.gz" /\ encoding' = TRUE /\ cl' = stat.size /\ stat' = stat
    BY <1>3 DEF Send!Decide
  <2> QED BY <1>0, <1>1, <1>2, <1>3, <2>1 DEF Send!Names, Send!Size
<1>4. CASE beside
  <2>1. (CHOOSE g \in zipped : TRUE) = "file.gz"
    BY <1>4 DEF Send!Gz
  <2>2. name' = "file.gz" /\ stat' = Send!Stat(name', TRUE) /\ encoding' = TRUE
        /\ cl' = Send!Size(name')
    BY <1>4, <2>1 DEF Send!Decide
  <2>3. name' \in Send!Names
    BY <2>2 DEF Send!Names
  <2>4. stat' \in Send!StatType /\ cl' \in Nat
    BY <1>1, <2>2, <2>3, StatIsOf
  <2>5. Send!Size(name)' = Send!Size(name')
    BY <1>0 DEF Send!Size
  <2> QED BY <1>4, <2>2, <2>3, <2>4, <2>5
<1>5. CASE ~stat.gz /\ ~beside
  <2>1. cl' = stat.size /\ encoding' = FALSE /\ name' = name /\ stat' = stat
    BY <1>5 DEF Send!Decide
  <2> QED BY <1>0, <1>1, <1>2, <1>5, <2>1 DEF Send!Size
<1> QED BY <1>3, <1>4, <1>5

LEMMA DecideKeepsResponse ==
  ASSUME Send!ResponseInv, Send!Decide
  PROVE  Send!ResponseInv'
<1>1. Send!StateTyped /\ sent = <<>> /\ off = 0 /\ len = 0 /\ sendPc = "decide"
  BY DEF Send!ResponseInv, Send!HeadComesFirst, Send!HeadSent, Send!Sending, Send!Decide
<1>2. /\ UNCHANGED <<asked, edits, disk, off, len, sent>>
      /\ inError' \in BOOLEAN /\ looped' \in BOOLEAN /\ broken' \in BOOLEAN
  BY <1>1 DEF Send!Decide, Send!Begun, Send!StateTyped, Send!TypeOK
<1>3. CASE sendPc' = "open"
  <2>1. code' = 200 /\ head' = head
    BY <1>3 DEF Send!Decide
  <2>2. Send!StateTyped'
    <3>1. sent' \in Seq(Int) /\ edits' \in Nat /\ asked' \in Send!RequestType
          /\ disk' \in [Send!Names -> Send!FileType]
      BY <1>1, <1>2 DEF Send!StateTyped
    <3>2. off' \in Nat /\ len' \in Nat /\ head' \in {0, 200, 206, 304, 404, 416, 500}
      BY <1>1, <1>2, <2>1 DEF Send!StateTyped, Send!TypeOK
    <3>3. cl' \in Int /\ name' \in Send!Names /\ stat' \in Send!StatType /\ encoding' \in BOOLEAN
      BY <1>3, Decided
    <3> QED BY <1>2, <1>3, <3>1, <3>2, <3>3 DEF Send!StateTyped, Send!TypeOK
  <2>3. /\ (encoding' <=> name' = "file.gz") /\ (encoding' => asked'.gzip)
        /\ edits' = 0 => cl' = Send!Size(name)'
    BY <1>2, <1>3, Decided
  <2>4. Send!HeadComesFirst'
    BY <1>1, <1>2, <1>3, <2>1 DEF Send!HeadComesFirst, Send!HeadSent, Send!Sending
  <2> QED BY <1>3, <2>2, <2>3, <2>4 DEF Send!ResponseInv, Send!HeadSent, Send!Sending,
  Send!Opened, Send!NameIsKnown, Send!LengthIsCurrent, Send!BodyIsPart, Send!Size
<1>4. CASE sendPc' # "open"
  <2>1. sendPc' = "idle" /\ head' = 304 /\ UNCHANGED <<name, stat, encoding, cl>>
    BY <1>4 DEF Send!Decide
  <2>2. Send!StateTyped'
    <3>1. sent' \in Seq(Int) /\ edits' \in Nat /\ asked' \in Send!RequestType
          /\ disk' \in [Send!Names -> Send!FileType]
      BY <1>1, <1>2 DEF Send!StateTyped
    <3>2. off' \in Nat /\ len' \in Nat
      BY <1>1, <1>2, <2>1 DEF Send!StateTyped, Send!TypeOK
    <3>3. cl' \in Int /\ name' \in Send!Names /\ stat' \in Send!StatType /\ encoding' \in BOOLEAN
      BY <1>1, <2>1 DEF Send!StateTyped, Send!TypeOK
    <3> QED BY <1>2, <2>1, <3>1, <3>2, <3>3 DEF Send!StateTyped, Send!TypeOK
  <2> QED BY <1>1, <1>2, <2>1, <2>2 DEF Send!ResponseInv, Send!HeadComesFirst, Send!HeadSent,
  Send!Sending, Send!Opened, Send!NameIsKnown, Send!LengthIsCurrent,
       Send!BodyIsPart
<1> QED BY <1>3, <1>4

LEMMA OpenKeepsResponse ==
  ASSUME Send!ResponseInv, Send!Open
  PROVE  Send!ResponseInv'
<1>1. Send!StateTyped /\ sendPc = "open" /\ code = 200 /\ name \in Send!Names
  BY DEF Send!ResponseInv, Send!HeadComesFirst, Send!Open, Send!StateTyped, Send!TypeOK
<1>2. UNCHANGED <<disk, asked, edits, encoding, cl, etag, off, len, looped, sent, broken>>
  BY DEF Send!Open, Send!Begun
<1>3. looped' \in BOOLEAN
  BY <1>1, <1>2 DEF Send!StateTyped, Send!TypeOK
<1>4. CASE Send!There(name)
  <2>1. stat' = Send!Stat(name, FALSE) /\ sendPc' = "head"
        /\ UNCHANGED <<name, inError, error, code, head>>
    BY <1>4 DEF Send!Open
  <2>2. stat' \in Send!StatType /\ stat'.size = Send!Size(name) /\ stat'.gz = FALSE
    BY <1>1, <2>1, StatIsOf, Zenon
  <2>3. Send!StateTyped'
    BY <1>1, <1>2, <2>1, <2>2 DEF Send!StateTyped, Send!TypeOK
  <2> QED BY <1>1, <1>2, <2>1, <2>2, <2>3 DEF Send!ResponseInv, Send!HeadComesFirst,
  Send!HeadSent, Send!Sending, Send!Opened, Send!NameIsKnown,
       Send!LengthIsCurrent, Send!BodyIsPart, Send!Size
<1>5. CASE ~Send!There(name)
  BY <1>1, <1>2, <1>3, <1>5, FailsKeepsResponse DEF Send!Open, Send!PageErrors
<1> QED BY <1>4, <1>5

LEMMA SendHeadKeepsResponse ==
  ASSUME Send!ResponseInv, Send!SendHead
  PROVE  Send!ResponseInv'
<1> DEFINE ranged == asked.range \in {"both", "from"}
           length == IF ranged THEN Send!Part(asked, cl) ELSE cl
<1>1. /\ Send!StateTyped /\ sendPc = "head" /\ code = 200 /\ name \in Send!Names /\ sent = <<>>
      /\ ~stat.gz
      /\ cl \in Int /\ stat.size \in Nat /\ asked \in Send!RequestType
  BY DEF Send!ResponseInv, Send!HeadComesFirst, Send!HeadSent, Send!Sending, Send!NameIsKnown,
     Send!SendHead, Send!StateTyped, Send!TypeOK, Send!StatType
<1>2. /\ UNCHANGED <<disk, asked, edits, encoding, sent, broken, name, stat, inError, error>>
      /\ looped' = FALSE /\ code' = (IF ranged THEN 206 ELSE code)
      /\ head' = code' /\ cl' = length
      /\ off' = (IF ranged THEN Send!Least(asked.from, stat.size) ELSE 0)
      /\ len' = Send!Max0(length)
      /\ sendPc' = (IF asked.head \/ length <= 0 THEN "close" ELSE IF asked.sendfile
         THEN "sendfile" ELSE "copy")
  BY <1>1 DEF Send!SendHead, Send!Begun
<1>3. asked.from \in Nat /\ asked.to \in Nat /\ asked.range \in {"no", "both", "from"}
  BY <1>1 DEF Send!RequestType
<1>4. length \in Int
  BY <1>1, <1>3 DEF Send!Part, Send!Least
<1>5. /\ off' \in Nat /\ len' \in Nat /\ cl' \in Int /\ head' \in {200, 206}
      /\ len' = Send!Max0(cl')
      /\ sendPc' \in {"sendfile", "copy"} => len' > 0 /\ ~asked.head
      /\ sendPc' \in {"sendfile", "copy", "close"}
      /\ sendPc' = "close" => len' = 0 \/ asked.head
  <2> HIDE DEF length
  <2> QED BY <1>1, <1>2, <1>3, <1>4 DEF Send!Max0, Send!Least
<1>6. Send!StateTyped'
  <2>1. UNCHANGED <<disk, asked, edits, encoding, sent, broken, name, stat, inError>>
        /\ looped' = FALSE
    BY <1>2
  <2>2. head' \in {0, 200, 206, 304, 404, 416, 500}
    BY <1>5
  <2> HIDE DEF length, ranged
  <2> QED BY <1>1, <1>5, <2>1, <2>2 DEF Send!StateTyped, Send!TypeOK
<1>7. Send!HeadComesFirst'
  BY <1>1, <1>2, <1>5 DEF Send!HeadComesFirst, Send!HeadSent, Send!Sending, Send!Max0
<1>8. Send!NameIsKnown'
  BY <1>1, <1>2, <1>5 DEF Send!ResponseInv, Send!NameIsKnown, Send!Opened, Send!HeadSent,
     Send!Sending
<1>9. Send!BodyIsPart'
  <2> SUFFICES ASSUME edits = 0
               PROVE  Send!BodyIsPart'
    BY <1>2 DEF Send!BodyIsPart
  <2>1. cl = Send!Size(name) /\ stat.size = Send!Size(name) /\ Send!Size(name) \in Nat
        /\ Send!Size(name)' = Send!Size(name)
    BY <1>1, <1>2 DEF Send!ResponseInv, Send!LengthIsCurrent, Send!Size
  <2>2. Send!From' = Send!From /\ Send!InFile' = Send!InFile /\ off' = Send!From
        /\ off' <= Send!Size(name) /\ Send!From \in Nat
    BY <1>2, <1>3, <2>1 DEF Send!From, Send!InFile, Send!Least
  <2>3. (Send!InFile /\ len' > 0) => off' + len' <= Send!Size(name)
    BY <1>2, <1>3, <1>4, <2>1 DEF Send!InFile, Send!Least, Send!Max0, Send!Part
  <2> QED BY <1>1, <1>2, <1>5, <2>1, <2>2, <2>3 DEF Send!BodyIsPart, Send!HeadSent, Send!Sending
<1> QED BY <1>5, <1>6, <1>7, <1>8, <1>9 DEF Send!ResponseInv, Send!LengthIsCurrent

\* What passes to the client is the next part of the file.
LEMMA PassesOn ==
  ASSUME Send!ResponseInv, Send!Sending, NEW n \in 1 .. Send!Least(len, Send!Left),
           Send!Passes(n), UNCHANGED <<disk, name, asked, edits>>
  PROVE  /\ n \in Nat /\ sent' \in Seq(Int) /\ Len(sent') = Len(sent) + n /\ len' = len - n
         /\ len' \in Nat
         /\ off' = off + n /\ off' \in Nat
         /\ edits = 0 => /\ off' = Send!From + Len(sent') /\ off' <= Send!Size(name)
                         /\ \A i \in 1 .. Len(sent') : sent'[i] = disk[name].bytes[Send!From + i]
<1> DEFINE bytes == disk[name].bytes
           piece  == SubSeq(bytes, off + 1, off + n)
<1>1. /\ off \in Nat /\ len \in Nat /\ sent \in Seq(Int) /\ name \in Send!Names
      /\ bytes \in Seq(Int)
      /\ Send!Size(name) = Len(bytes) /\ asked \in Send!RequestType
  BY DEF Send!ResponseInv, Send!StateTyped, Send!TypeOK, Send!FileType, Send!Size
<1>2. n \in Nat /\ n <= len /\ off + n <= Len(bytes)
  BY <1>1 DEF Send!Least, Send!Left, Send!Max0
<1> HIDE DEF bytes
<1>3. piece \in Seq(Int) /\ Len(piece) = n /\ \A i \in 1 .. n : piece[i] = bytes[off + i]
  BY <1>1, <1>2, PartOfSeq
<1>4. sent' = sent \o piece /\ off' = off + n /\ len' = len - n
  BY DEF Send!Passes, bytes
<1> HIDE DEF piece
<1>5. sent' \in Seq(Int) /\ Len(sent') = Len(sent) + n
  BY <1>1, <1>3, <1>4, JoinedSeqs
<1>6. ASSUME edits = 0
      PROVE  /\ off' = Send!From + Len(sent') /\ off' <= Send!Size(name)
             /\ \A i \in 1 .. Len(sent') : sent'[i] = bytes[Send!From + i]
  <2>1. /\ off = Send!From + Len(sent) /\ Send!From \in Nat
        /\ \A i \in 1 .. Len(sent) : sent[i] = bytes[Send!From + i]
    BY <1>1, <1>6 DEF Send!ResponseInv, Send!BodyIsPart, Send!HeadSent, Send!From, Send!Least,
       bytes, Send!RequestType, Send!Size
  <2>0. Len(sent) \in Nat /\ Len(sent') \in Nat
    BY <1>1, <1>5
  <2>2. \A i \in 1 .. Len(sent') : sent'[i] = bytes[Send!From + i]
    <3> SUFFICES ASSUME NEW i \in 1 .. Len(sent') PROVE sent'[i] = bytes[Send!From + i]
      OBVIOUS
    <3>1. CASE i <= Len(sent)
      <4>1. i \in 1 .. Len(sent)
        BY <2>0, <3>1
      <4>2. sent'[i] = sent[i]
        BY <1>1, <1>3, <1>4, <4>1, JoinedSeqs
      <4> QED BY <2>1, <4>1, <4>2
    <3>2. CASE i > Len(sent)
      <4>1. i - Len(sent) \in 1 .. n /\ sent'[i] = piece[i - Len(sent)]
        BY <1>1, <1>2, <1>3, <1>4, <1>5, <3>2
      <4>2. off + (i - Len(sent)) = Send!From + i
        BY <1>1, <2>1
      <4> QED BY <1>3, <4>1, <4>2
    <3>3. i <= Len(sent) \/ i > Len(sent)
      BY <2>0
    <3> QED BY <3>1, <3>2, <3>3
  <2> QED BY <1>1, <1>2, <1>4, <1>5, <2>1, <2>2
<1>7. edits = 0 => /\ off' = Send!From + Len(sent') /\ off' <= Send!Size(name)
                   /\ \A i \in 1 .. Len(sent') : sent'[i] = disk[name].bytes[Send!From + i]
  BY <1>6, Zenon DEF bytes
<1>8. len' \in Nat /\ off' \in Nat
  BY <1>1, <1>2, <1>4
<1> QED BY <1>2, <1>4, <1>5, <1>7, <1>8, Zenon

\* A turn of either loop that sends something.
LEMMA PassingKeepsResponse ==
  ASSUME Send!ResponseInv, Send!Sending, NEW n \in 1 .. Send!Least(len, Send!Left),
         Send!Passes(n), Send!Streams,
         sendPc' = (IF len = n THEN "close" ELSE sendPc), looped' \in BOOLEAN, broken' = broken
  PROVE  Send!ResponseInv'
<1>1. UNCHANGED <<disk, asked, edits, name, stat, encoding, cl, inError, head>> /\ Send!StateTyped
  BY DEF Send!Streams, Send!Begun, Send!ResponseInv
<1>2. /\ n \in Nat /\ sent' \in Seq(Int) /\ Len(sent') = Len(sent) + n /\ len' = len - n
      /\ len' \in Nat
      /\ off' = off + n /\ off' \in Nat
      /\ edits = 0 => /\ off' = Send!From + Len(sent') /\ off' <= Send!Size(name)
                      /\ \A i \in 1 .. Len(sent') : sent'[i] = disk[name].bytes[Send!From + i]
  BY <1>1, PassesOn
<1>3. /\ sendPc \in {"sendfile", "copy"} /\ sendPc' \in {"sendfile", "copy", "close"}
      /\ sendPc' \in {"sendfile", "copy"} => len' > 0
      /\ sendPc' = "close" => len' = 0
      /\ len \in Nat
  BY <1>1, <1>2 DEF Send!Sending, Send!StateTyped, Send!TypeOK
<1>4. Send!StateTyped'
  <2>1. sendPc' \in {"idle", "missing", "decide", "open", "head", "sendfile", "copy", "close"}
    BY <1>3
  <2> QED BY <1>1, <1>2, <1>3, <2>1 DEF Send!StateTyped, Send!TypeOK
<1>5. Send!HeadComesFirst'
  <2>1. head \in {200, 206} /\ Len(sent) + len = Send!Max0(cl) /\ ~asked.head
    BY DEF Send!ResponseInv, Send!HeadComesFirst, Send!HeadSent
  <2>2. Len(sent') + len' = Send!Max0(cl)
    <3>1. Len(sent) \in Nat
      BY <1>1 DEF Send!StateTyped
    <3> QED BY <1>2, <1>3, <2>1, <3>1
  <2> QED BY <1>1, <1>3, <2>1, <2>2 DEF Send!HeadComesFirst, Send!HeadSent, Send!Sending, Send!Max0
<1>6. Send!NameIsKnown' /\ Send!LengthIsCurrent'
  BY <1>1, <1>3 DEF Send!ResponseInv, Send!NameIsKnown, Send!LengthIsCurrent, Send!Opened,
     Send!HeadSent, Send!Sending
<1>7. Send!BodyIsPart'
  <2> SUFFICES ASSUME edits = 0
               PROVE  Send!BodyIsPart'
    BY <1>1 DEF Send!BodyIsPart
  <2>1. Send!From' = Send!From /\ Send!InFile' = Send!InFile /\ Send!Size(name)' = Send!Size(name)
    BY <1>1 DEF Send!From, Send!InFile, Send!Size
  <2>2. Send!InFile => off + len <= Send!Size(name)
    BY DEF Send!ResponseInv, Send!BodyIsPart, Send!HeadSent
  <2>3. off \in Nat
    BY <1>1 DEF Send!StateTyped, Send!TypeOK
  <2>4. Send!InFile => off' + len' <= Send!Size(name)
    BY <1>2, <1>3, <2>2, <2>3
  <2> QED BY <1>1, <1>2, <1>3, <2>1, <2>4 DEF Send!BodyIsPart, Send!Sending
<1> QED BY <1>4, <1>5, <1>6, <1>7 DEF Send!ResponseInv

\* A turn that sends nothing, after which the other loop goes on or the response is over:
\* only where nobody changed the file is what is left still in it.
LEMMA StoppingKeepsResponse ==
  ASSUME Send!ResponseInv, Send!Sending, Send!Streams, UNCHANGED <<sent, off, len>>,
           looped' \in BOOLEAN, broken' \in BOOLEAN,
         sendPc' \in {"copy", "close"}, sendPc' = "close" => (Send!Left = 0 \/ broken' = TRUE)
  PROVE  Send!ResponseInv'
<1>1. UNCHANGED <<disk, asked, edits, name, stat, encoding, cl, inError, head, sent, off, len>>
      /\ Send!StateTyped
  BY DEF Send!Streams, Send!Begun, Send!ResponseInv
<1>2. sendPc \in {"sendfile", "copy"} /\ len > 0 /\ len \in Nat /\ off \in Nat
  BY <1>1 DEF Send!Sending, Send!StateTyped, Send!TypeOK
<1>3. Send!StateTyped'
  <2>1. sendPc' \in {"idle", "missing", "decide", "open", "head", "sendfile", "copy", "close"}
    OBVIOUS
  <2> QED BY <1>1, <1>2, <2>1 DEF Send!StateTyped, Send!TypeOK
<1>4. Send!HeadComesFirst' /\ Send!NameIsKnown' /\ Send!LengthIsCurrent'
  BY <1>1, <1>2 DEF Send!ResponseInv, Send!HeadComesFirst, Send!NameIsKnown,
     Send!LengthIsCurrent, Send!Opened, Send!HeadSent, Send!Sending, Send!Max0
<1>5. Send!BodyIsPart'
  <2> SUFFICES ASSUME edits = 0
               PROVE  Send!BodyIsPart'
    BY <1>1 DEF Send!BodyIsPart
  <2>1. Send!From' = Send!From /\ Send!InFile' = Send!InFile
        /\ Send!Size(name)' = Send!Size(name) /\ Send!Size(name) \in Nat
    BY <1>1 DEF Send!From, Send!InFile, Send!Size, Send!StateTyped, Send!TypeOK, Send!FileType
  <2>2. Send!InFile => off + len <= Send!Size(name)
    BY DEF Send!ResponseInv, Send!BodyIsPart, Send!HeadSent
  <2>3. Send!InFile => Send!Left # 0
    BY <1>2, <2>1, <2>2 DEF Send!Left, Send!Max0
  <2>4. /\ off = Send!From + Len(sent) /\ off <= Send!Size(name)
        /\ \A i \in 1 .. Len(sent) : sent[i] = disk[name].bytes[Send!From + i]
    BY DEF Send!ResponseInv, Send!BodyIsPart, Send!HeadSent
  <2> QED BY <1>1, <1>2, <2>1, <2>2, <2>3, <2>4 DEF Send!BodyIsPart, Send!Sending
<1> QED BY <1>3, <1>4, <1>5 DEF Send!ResponseInv

LEMMA SendFileKeepsResponse ==
  ASSUME Send!ResponseInv, Send!SendFile
  PROVE  Send!ResponseInv'
<1>1. /\ Send!Sending /\ Send!Streams /\ sendPc = "sendfile" /\ broken' = broken
      /\ looped \in BOOLEAN /\ broken' \in BOOLEAN
  BY DEF Send!SendFile, Send!Sending, Send!ResponseInv, Send!StateTyped, Send!TypeOK
<1>2. CASE \E n \in 1 .. Send!Least(len, Send!Left) :
             Send!Passes(n) /\ looped' = TRUE /\ sendPc' = IF len = n THEN "close" ELSE "sendfile"
  BY <1>1, <1>2, PassingKeepsResponse
<1>3. CASE Send!Left = 0 /\ sendPc' = (IF looped THEN "close" ELSE "copy")
           /\ UNCHANGED <<sent, off, len, looped>>
  <2>1. sendPc' \in {"copy", "close"} /\ looped' \in BOOLEAN
    BY <1>1, <1>3
  <2> QED BY <1>1, <1>3, <2>1, StoppingKeepsResponse
<1>4. CASE sendPc' = "copy" /\ UNCHANGED <<sent, off, len, looped>>
  BY <1>1, <1>4, StoppingKeepsResponse
<1> QED BY <1>2, <1>3, <1>4 DEF Send!SendFile

LEMMA CopyKeepsResponse ==
  ASSUME Send!ResponseInv, Send!Copy
  PROVE  Send!ResponseInv'
<1>1. Send!Sending /\ Send!Streams /\ sendPc = "copy" /\ looped' \in BOOLEAN /\ broken \in BOOLEAN
  BY DEF Send!Copy, Send!Sending, Send!ResponseInv, Send!StateTyped, Send!TypeOK
<1>2. CASE \E n \in 1 .. Send!Least(len, Send!Left) :
             Send!Passes(n) /\ sendPc' = (IF len = n THEN "close" ELSE "copy") /\ UNCHANGED broken
  BY <1>1, <1>2, PassingKeepsResponse
<1>3. CASE Send!Left = 0 /\ sendPc' = "close" /\ UNCHANGED <<sent, off, len, broken>>
  BY <1>1, <1>3, StoppingKeepsResponse
<1>4. CASE sendPc' = "close" /\ broken' = TRUE /\ UNCHANGED <<sent, off, len>>
  BY <1>1, <1>4, StoppingKeepsResponse
<1> QED BY <1>2, <1>3, <1>4 DEF Send!Copy

LEMMA CloseKeepsResponse ==
  ASSUME Send!ResponseInv, Send!Close
  PROVE  Send!ResponseInv'
<1>1. /\ Send!StateTyped /\ sendPc = "close" /\ sendPc' = "idle" /\ inError' = FALSE
      /\ UNCHANGED <<asked, edits, disk, name, stat, encoding, cl, off, len, looped, head, sent,
           broken>>
  BY DEF Send!ResponseInv, Send!Close, Send!Begun, Send!file
<1>2. Send!StateTyped'
  BY <1>1 DEF Send!StateTyped, Send!TypeOK
<1>3. Send!HeadSent /\ Send!HeadSent' /\ head \in {200, 206}
  BY <1>1 DEF Send!ResponseInv, Send!HeadComesFirst, Send!HeadSent, Send!Sending
<1>4. Send!HeadComesFirst' /\ Send!NameIsKnown' /\ Send!LengthIsCurrent'
  BY <1>1, <1>3 DEF Send!ResponseInv, Send!HeadComesFirst, Send!NameIsKnown,
     Send!LengthIsCurrent, Send!Opened, Send!Sending, Send!Max0
<1>5. Send!BodyIsPart'
  BY <1>1, <1>3 DEF Send!ResponseInv, Send!BodyIsPart, Send!Sending, Send!From, Send!InFile,
     Send!Size
<1> QED BY <1>2, <1>4, <1>5 DEF Send!ResponseInv

\* Whoever writes a file ends what is said of files that nobody writes.
LEMMA EditKeepsResponse ==
  ASSUME Send!ConstantsAreProper, Send!ResponseInv, NEW p \in Send!Names, NEW f \in Edits,
         Send!Edit(p, f)
  PROVE  Send!ResponseInv'
<1>1. /\ Send!StateTyped /\ edits' = edits + 1 /\ edits \in Nat /\ disk' = [disk EXCEPT ![p] = f]
      /\ f \in Send!FileType
      /\ UNCHANGED <<sendPc, asked, name, stat, encoding, cl, off, len, looped, inError, head,
           code, sent, broken>>
  BY DEF Send!ConstantsAreProper, Send!ResponseInv, Send!StateTyped, Send!Edit, Send!file
<1>2. disk' \in [Send!Names -> Send!FileType] /\ edits' \in Nat /\ edits' # 0
  BY <1>1 DEF Send!StateTyped
<1>3. Send!StateTyped'
  BY <1>1, <1>2 DEF Send!StateTyped, Send!TypeOK
<1> QED BY <1>1, <1>2, <1>3 DEF Send!ResponseInv, Send!HeadComesFirst, Send!NameIsKnown,
           Send!LengthIsCurrent, Send!BodyIsPart,
       Send!Opened, Send!HeadSent, Send!Sending, Send!Max0

LEMMA StutterKeepsResponse ==
  ASSUME Send!ResponseInv, UNCHANGED Send!vars
  PROVE  Send!ResponseInv'
<1>1. /\ Send!StateTyped
      /\ UNCHANGED <<disk, sendPc, asked, name, stat, encoding, cl, off, len, looped, inError,
           head, code, sent, broken, edits>>
  BY DEF Send!ResponseInv, Send!vars, Send!file
<1>2. Send!StateTyped'
  BY <1>1 DEF Send!StateTyped, Send!TypeOK
<1> QED BY <1>1, <1>2 DEF Send!ResponseInv, Send!HeadComesFirst, Send!NameIsKnown,
           Send!LengthIsCurrent, Send!BodyIsPart, Send!Opened, Send!HeadSent,
       Send!Sending, Send!Max0, Send!From, Send!InFile, Send!Size

LEMMA StepKeepsResponse ==
  ASSUME Send!ConstantsAreProper, Send!ResponseInv, [Send!Next]_Send!vars
  PROVE  Send!ResponseInv'
BY BeginKeepsResponse, MissingKeepsResponse, DecideKeepsResponse, OpenKeepsResponse,
   SendHeadKeepsResponse,
   SendFileKeepsResponse, CopyKeepsResponse, CloseKeepsResponse, EditKeepsResponse,
   StutterKeepsResponse
   DEF Send!Next, Send!Serving

\* What the invariant says of a response is what its parts promise.
LEMMA ResponseIsRight ==
  ASSUME Send!ResponseInv
  PROVE  Send!TypeOK /\ Send!NeverTooLong /\ Send!AllIsSent /\ Send!PartIsRight
         /\ Send!NoBodyWithout /\ Send!EncodingIsRight
<1>1. /\ Send!StateTyped /\ off \in Nat /\ len \in Nat /\ cl \in Int /\ sent \in Seq(Int)
      /\ Len(sent) \in Nat
      /\ asked \in Send!RequestType /\ disk[name].bytes \in Seq(Int)
  BY DEF Send!ResponseInv, Send!StateTyped, Send!TypeOK, Send!FileType
<1>2. ASSUME Send!HeadSent PROVE Len(sent) + len = Send!Max0(cl) /\ head \in {200, 206}
  BY <1>2 DEF Send!ResponseInv, Send!HeadComesFirst
<1>3. ASSUME sent # <<>> PROVE Send!HeadSent /\ ~asked.head
  BY <1>3 DEF Send!ResponseInv, Send!HeadComesFirst
<1>4. Send!NeverTooLong
  BY <1>1, <1>2, <1>3 DEF Send!NeverTooLong, Send!Max0
<1>5. Send!AllIsSent
  <2> SUFFICES ASSUME Send!Done, Send!Body, ~broken, edits = 0, Send!InFile
               PROVE  Len(sent) = Send!Max0(cl)
    BY DEF Send!AllIsSent
  <2>1. Send!HeadSent /\ ~Send!Sending /\ ~asked.head
    BY DEF Send!Done, Send!Body, Send!HeadSent, Send!Sending
  <2>2. len = 0
    BY <2>1 DEF Send!ResponseInv, Send!BodyIsPart
  <2> QED BY <1>1, <1>2, <2>1, <2>2
<1> DEFINE from  == IF asked.range \in {"both", "from"} THEN asked.from ELSE 0
           bytes == disk[name].bytes
           rest  == SubSeq(bytes, from + 1, Send!Size(name))
<1>6. ASSUME edits = 0, sent # <<>>
      PROVE  Send!IsPrefix(sent, rest)
  <2>1. /\ off = Send!From + Len(sent) /\ off <= Send!Size(name)
           /\ \A i \in 1 .. Len(sent) : sent[i] = bytes[Send!From + i]
    BY <1>3, <1>6 DEF Send!ResponseInv, Send!BodyIsPart
  <2>2. Len(sent) > 0 /\ Send!Size(name) = Len(bytes) /\ from \in Nat
    BY <1>1, <1>6 DEF Send!Size, Send!RequestType
  <2>3. Send!From = from
    BY <1>1, <2>1, <2>2 DEF Send!From, Send!Least
  <2> HIDE DEF from, bytes
  <2>4. from + (Send!Size(name) - from) <= Len(bytes) /\ Send!Size(name) - from \in Nat
        /\ from + (Send!Size(name) - from) = Send!Size(name)
    BY <1>1, <2>1, <2>2, <2>3 DEF bytes
  <2>5. rest \in Seq(Int) /\ Len(rest) = Send!Size(name) - from
        /\ \A i \in 1 .. (Send!Size(name) - from) : rest[i] = bytes[from + i]
    <3>1. bytes \in Seq(Int)
      BY <1>1 DEF bytes
    <3> QED BY <2>2, <2>4, <3>1, PartOfSeq
  <2> HIDE DEF rest
  <2>6. Len(sent) <= Len(rest) /\ \A i \in 1 .. Len(sent) : sent[i] = rest[i]
    BY <1>1, <2>1, <2>2, <2>3, <2>4, <2>5
  <2> QED BY <1>1, <2>5, <2>6 DEF Send!IsPrefix
<1>9. Send!PartIsRight
  BY <1>6 DEF Send!PartIsRight
<1>7. Send!NoBodyWithout
  BY <1>2, <1>3 DEF Send!NoBodyWithout
<1>8. Send!EncodingIsRight
  BY <1>3 DEF Send!EncodingIsRight, Send!ResponseInv, Send!NameIsKnown, Send!Opened
<1> QED BY <1>1, <1>4, <1>5, <1>7, <1>8, <1>9 DEF Send!StateTyped

\* The body of a response is the part of the file that its head announces, in the
\* encoding it announces (send_file_data(), handle_static_file_request()).
THEOREM ContentAnnounced == FilesSpec => []ContentIsAnnounced
<1>1. FilesInit => Send!ResponseInv
  BY SendAssumption, InitResponse DEF FilesInit
<1>2. Send!ResponseInv /\ [FilesNext]_all => Send!ResponseInv'
  <2> SUFFICES ASSUME Send!ResponseInv, [FilesNext]_all PROVE Send!ResponseInv'
    OBVIOUS
  <2>1. CASE OfSend(Send!Next)
    BY <2>1, SendAssumption, StepKeepsResponse DEF OfSend
  <2>2. CASE UNCHANGED sendVars
    <3>1. UNCHANGED Send!vars
      BY <2>2 DEF sendVars, Send!vars, Send!file
    <3> QED BY <3>1, StutterKeepsResponse
  <2>3. CASE UNCHANGED all
    BY <2>2, <2>3 DEF all
  <2> QED BY <2>1, <2>2, <2>3 DEF FilesNext, OfLocks, OfStore, OfList
<1>3. Send!ResponseInv => ContentIsAnnounced
  BY ResponseIsRight DEF ContentIsAnnounced
<1> QED BY <1>1, <1>2, <1>3, PTL DEF FilesSpec

-----------------------------------------------------------------------------
(* Listings.  First mg_sort(): a pass with any gap moves elements about and    *)
(* loses none, and the last pass puts each element in its place.              *)

(* What holds of 0, and of the next number with each, holds of all: as sets. *)
LEMMA Induction ==
  ASSUME NEW T, 0 \in T, \A k \in Nat : k \in T => k + 1 \in T
  PROVE  Nat \subseteq T
<1> SUFFICES ASSUME Nat \ T # {} PROVE FALSE
  OBVIOUS
<1>1. PICK k \in Nat \ T : \A j \in Nat \ T : k <= j
  BY LeastIs
<1>2. k \in Nat /\ k # 0 /\ k \notin T
  OBVIOUS
<1>3. k - 1 \in Nat /\ ~(k <= k - 1)
  BY <1>2
<1>4. k - 1 \in T
  BY <1>1, <1>3
<1>5. (k - 1) + 1 \in T /\ (k - 1) + 1 = k
  BY <1>2, <1>3, <1>4
<1> QED BY <1>2, <1>5

(* A function of what the steps make of a, the first, the first two, and so on. *)
Steps(n, S) == [1 .. n -> [S -> S]]
Made(f, n, S, a, step) ==
  f \in [0 .. n -> S] /\ f[0] = a /\ \A i \in 1 .. n : f[i] = step[i][f[i - 1]]

(* There is one. *)
LEMMA StepsMake ==
  ASSUME NEW n \in Nat, NEW S, NEW a \in S, NEW step \in Steps(n, S)
  PROVE  \E f : Made(f, n, S, a, step)
<1>0. step \in [1 .. n -> [S -> S]]
  BY DEF Steps
<1> DEFINE Is(f, k) == f \in [0 .. k -> S] /\ f[0] = a /\ \A i \in 1 .. k : f[i] = step[i][f[i - 1]]
           Good == {k \in Nat : k <= n => \E f : Is(f, k)}
<1>1. 0 \in Good
  <2> DEFINE g == [i \in 0 .. 0 |-> a]
  <2>1. g \in [0 .. 0 -> S] /\ g[0] = a /\ 1 .. 0 = {}
    OBVIOUS
  <2> HIDE DEF g
  <2> QED BY <2>1
<1>2. ASSUME NEW k \in Nat, k \in Good PROVE k + 1 \in Good
  <2> SUFFICES ASSUME k + 1 <= n PROVE \E g : Is(g, k + 1)
    OBVIOUS
  <2>1. PICK f : Is(f, k)
    BY <1>2
  <2> DEFINE g == [i \in 0 .. k + 1 |-> IF i = k + 1 THEN step[k + 1][f[k]] ELSE f[i]]
  <2>2. /\ k \in 0 .. k /\ k + 1 \in 1 .. n /\ f[k] \in S /\ 0 # k + 1
        /\ \A i \in 0 .. k + 1 : i = k + 1 \/ i \in 0 .. k
        /\ \A i \in 1 .. k + 1 : i = k + 1 \/ i \in 1 .. k
        /\ \A i \in 1 .. k + 1 : i - 1 \in 0 .. k /\ i - 1 # k + 1
        /\ \A i \in 1 .. k : i # k + 1 /\ i \in 0 .. k + 1
    BY <2>1
  <2>3. step[k + 1][f[k]] \in S
    BY <1>0, <2>2
  <2>4. g \in [0 .. k + 1 -> S] /\ g[k + 1] = step[k + 1][f[k]] /\ \A i \in 0 .. k : g[i] = f[i]
    BY <2>1, <2>2, <2>3
  <2> HIDE DEF g
  <2>5. ASSUME NEW i \in 1 .. k + 1 PROVE g[i] = step[i][g[i - 1]]
    <3>1. CASE i = k + 1
      <4>1. i - 1 = k
        BY <3>1
      <4> QED BY <2>2, <2>4, <3>1, <4>1
    <3>2. CASE i \in 1 .. k
      <4>1. i \in 0 .. k /\ i - 1 \in 0 .. k
        BY <3>2
      <4> QED BY <2>1, <2>4, <3>2, <4>1
    <3> QED BY <2>2, <3>1, <3>2
  <2>6. g[0] = a
    BY <2>1, <2>4
  <2> QED BY <2>4, <2>5, <2>6
<1>3. Nat \subseteq Good
  <2> HIDE DEF Good
  <2> QED BY <1>1, <1>2, Induction
<1>4. PICK f : Is(f, n)
  <2>1. n \in Good /\ n <= n
    BY <1>3
  <2> HIDE DEF Is
  <2> QED BY <2>1
<1> QED BY <1>4 DEF Made

(* What the steps take from each set to the next holds in the end. *)
LEMMA MadeKeeps ==
  ASSUME NEW n \in Nat, NEW S, NEW a \in S, NEW step \in Steps(n, S), NEW f, Made(f, n, S, a, step),
         NEW V, a \in V[0], \A i \in 1 .. n : \A x \in S : x \in V[i - 1] => step[i][x] \in V[i]
  PROVE  f[n] \in S /\ f[n] \in V[n]
<1>0. f \in [0 .. n -> S] /\ f[0] = a /\ \A i \in 1 .. n : f[i] = step[i][f[i - 1]]
  BY DEF Made
<1> DEFINE Good == {k \in Nat : k <= n => f[k] \in V[k]}
<1>1. 0 \in Good
  BY <1>0
<1>2. ASSUME NEW k \in Nat, k \in Good PROVE k + 1 \in Good
  <2> SUFFICES ASSUME k + 1 <= n PROVE f[k + 1] \in V[k + 1]
    OBVIOUS
  <2> DEFINE j == k + 1
  <2>1. j \in 1 .. n /\ j - 1 = k /\ k <= n /\ k \in 0 .. n
    OBVIOUS
  <2> HIDE DEF j
  <2>2. f[k] \in V[k] /\ f[k] \in S
    BY <1>0, <1>2, <2>1
  <2>3. f[j] \in V[j]
    BY <1>0, <2>1, <2>2
  <2> QED BY <2>3 DEF j
<1>3. Nat \subseteq Good
  <2> HIDE DEF Good
  <2> QED BY <1>1, <1>2, Induction
<1> QED BY <1>0, <1>3

(* Sequences of n entries; the same entries in another order. *)
Entries(n) == [1 .. n -> List!EntryType]
Same(s, t) ==
  /\ \A i \in DOMAIN s : \E j \in DOMAIN t : t[j] = s[i]
  /\ \A j \in DOMAIN t : \E i \in DOMAIN s : t[j] = s[i]
  /\ List!Distinct(s) => List!Distinct(t)

(* Where the element at m was before. *)
From(j, k, gap, m) == IF m = k THEN j ELSE IF m > k /\ m <= j /\ (j - m) % gap = 0 THEN m - gap ELSE m

(* Multiples of a gap are at least a gap apart. *)
LEMMA Multiples ==
  ASSUME NEW g \in Nat \ {0}, NEW p \in Nat, NEW q \in Nat, p < q
  PROVE  g * p + g <= g * q
<1>1. PICK d \in Nat : q = p + 1 + d
  <2>1. q - p - 1 \in Nat /\ q = p + 1 + (q - p - 1)
    OBVIOUS
  <2> QED BY <2>1
<1>2. g * q = g * p + g + g * d
  BY <1>1
<1>3. g * d \in Nat
  OBVIOUS
<1> QED BY <1>2, <1>3

LEMMA MultipleIs ==
  ASSUME NEW g \in Nat \ {0}, NEW q \in Nat
  PROVE  (g * q) % g = 0
OBVIOUS

LEMMA ByGaps ==
  ASSUME NEW g \in Nat \ {0}, NEW a \in Nat, NEW b \in Nat, a % g = 0, b % g = 0, a < b
  PROVE  a + g <= b /\ (b - g) % g = 0 /\ (a + g) % g = 0
<1> DEFINE p == a \div g
           q == b \div g
<1>1. p \in Nat /\ q \in Nat /\ a = g * p /\ b = g * q
  <2>1. a = g * p + (a % g) /\ b = g * q + (b % g) /\ p \in Nat /\ q \in Nat
    OBVIOUS
  <2> QED BY <2>1
<1> HIDE DEF p, q
<1>2. p < q
  <2> SUFFICES ASSUME q <= p PROVE FALSE
    BY <1>1
  <2>1. CASE p = q
    BY <1>1, <2>1
  <2>2. CASE q < p
    <3>1. g * q + g <= g * p /\ g * p \in Nat /\ g * q \in Nat
      BY <1>1, <2>2, Multiples
    <3> QED BY <1>1, <3>1
  <2> QED BY <1>1, <2>1, <2>2
<1>3. a + g <= b
  <2>1. g * p + g <= g * q
    BY <1>1, <1>2, Multiples
  <2> QED BY <1>1, <2>1
<1>4. (b - g) % g = 0
  <2>1. q - 1 \in Nat /\ g * (q - 1) = g * q - g
    BY <1>1, <1>2
  <2>2. (g * (q - 1)) % g = 0
    BY <2>1, MultipleIs
  <2> QED BY <1>1, <2>1, <2>2
<1>5. (a + g) % g = 0
  <2>1. p + 1 \in Nat /\ g * (p + 1) = g * p + g
    BY <1>1
  <2>2. (g * (p + 1)) % g = 0
    BY <2>1, MultipleIs
  <2> QED BY <1>1, <2>1, <2>2
<1> QED BY <1>3, <1>4, <1>5

(* Every place is where one element comes from, and only one. *)
OneToOne(n, j, k, gap) ==
  /\ \A m \in 1 .. n : From(j, k, gap, m) \in 1 .. n
  /\ \A m, l \in 1 .. n : From(j, k, gap, m) = From(j, k, gap, l) => m = l
  /\ \A i \in 1 .. n : \E m \in 1 .. n : From(j, k, gap, m) = i

LEMMA FromIsOneToOne ==
  ASSUME NEW n \in Nat, NEW j \in 1 .. n, NEW k \in 1 .. j, NEW gap \in Nat \ {0}, (j - k) % gap = 0
  PROVE  OneToOne(n, j, k, gap)
<1> DEFINE Shifts(m) == m > k /\ m <= j /\ (j - m) % gap = 0
<1>1. ASSUME NEW m \in 1 .. n, Shifts(m)
      PROVE  /\ m - gap \in k .. j /\ m - gap < m /\ (j - (m - gap)) % gap = 0
             /\ From(j, k, gap, m) = m - gap
  <2>1. j - m \in Nat /\ j - k \in Nat /\ j - m < j - k /\ m # k
    BY <1>1
  <2>2. (j - m) + gap <= j - k /\ ((j - m) + gap) % gap = 0
    BY <1>1, <2>1, ByGaps
  <2>3. j - (m - gap) = (j - m) + gap
    OBVIOUS
  <2> QED BY <1>1, <2>1, <2>2, <2>3 DEF From
<1>2. ASSUME NEW m \in 1 .. n, ~Shifts(m)
      PROVE  From(j, k, gap, m) = IF m = k THEN j ELSE m
  BY <1>2 DEF From
<1>3. ASSUME NEW i \in k .. j, i # j, (j - i) % gap = 0
      PROVE  i + gap \in 1 .. n /\ Shifts(i + gap)
  <2>1. j - i \in Nat /\ 0 \in Nat /\ 0 < j - i /\ 0 % gap = 0
    BY <1>3
  <2>2. 0 + gap <= j - i /\ ((j - i) - gap) % gap = 0
    BY <1>3, <2>1, ByGaps
  <2>3. j - (i + gap) = (j - i) - gap
    OBVIOUS
  <2> QED BY <1>3, <2>2, <2>3
<1>4. \A m \in 1 .. n : From(j, k, gap, m) \in 1 .. n
  BY <1>1, <1>2
<1>5. ASSUME NEW m \in 1 .. n, NEW l \in 1 .. n, From(j, k, gap, m) = From(j, k, gap, l)
      PROVE  m = l
  <2>1. CASE Shifts(m) /\ Shifts(l)
    <3>1. m - gap = l - gap
      BY <1>1, <1>5, <2>1
    <3> QED BY <3>1
  <2>2. CASE ~Shifts(m) /\ ~Shifts(l)
    <3>0. ~Shifts(j) => j = k
      <4>1. (j - j) % gap = 0
        OBVIOUS
      <4> QED BY <4>1
    <3>1. (IF m = k THEN j ELSE m) = (IF l = k THEN j ELSE l)
      BY <1>2, <1>5, <2>2
    <3> QED BY <2>2, <3>0, <3>1
  <2>3. ASSUME NEW x \in 1 .. n, NEW y \in 1 .. n, Shifts(x), ~Shifts(y)
        PROVE  From(j, k, gap, x) # From(j, k, gap, y)
    <3>1. x - gap \in k .. j /\ x - gap < x /\ x <= j /\ (j - (x - gap)) % gap = 0 /\ From(j, k, gap, x) = x - gap
      BY <1>1, <2>3
    <3>2. From(j, k, gap, y) = IF y = k THEN j ELSE y
      BY <1>2, <2>3
    <3>3. ASSUME y = x - gap PROVE y = k
      BY <2>3, <3>1, <3>3
    <3> QED BY <3>1, <3>2, <3>3
  <2> QED BY <1>5, <2>1, <2>2, <2>3
<1>6. ASSUME NEW i \in 1 .. n PROVE \E m \in 1 .. n : From(j, k, gap, m) = i
  <2>1. CASE i = j
    <3>1. ~Shifts(k) /\ k \in 1 .. n
      OBVIOUS
    <3> QED BY <1>2, <2>1, <3>1
  <2>2. CASE i # j /\ i \in k .. j /\ (j - i) % gap = 0
    <3>1. i + gap \in 1 .. n /\ Shifts(i + gap)
      BY <1>3, <2>2
    <3>2. From(j, k, gap, i + gap) = (i + gap) - gap
      BY <1>1, <3>1
    <3>3. (i + gap) - gap = i
      OBVIOUS
    <3> QED BY <3>1, <3>2, <3>3
  <2>3. CASE i # j /\ ~(i \in k .. j /\ (j - i) % gap = 0)
    <3>1. ~Shifts(i) /\ i # k
      BY <2>3
    <3> QED BY <1>2, <3>1
  <2> QED BY <2>1, <2>2, <2>3
<1> QED BY <1>4, <1>5, <1>6 DEF OneToOne

(* Elements that come from other places are the same in another order. *)
LEMMA MovedIsSame ==
  ASSUME NEW n \in Nat, NEW s \in Entries(n), NEW t \in Entries(n), NEW from,
         \A m \in 1 .. n : from[m] \in 1 .. n /\ t[m] = s[from[m]],
         \A m, l \in 1 .. n : from[m] = from[l] => m = l,
         \A i \in 1 .. n : \E m \in 1 .. n : from[m] = i
  PROVE  Same(s, t)
<1>1. DOMAIN s = 1 .. n /\ DOMAIN t = 1 .. n
  BY DEF Entries
<1>2. \A i \in 1 .. n : \E m \in 1 .. n : t[m] = s[i]
  OBVIOUS
<1>4. \A m \in 1 .. n : \E i \in 1 .. n : t[m] = s[i]
  OBVIOUS
<1>3. ASSUME List!Distinct(s) PROVE List!Distinct(t)
  <2> SUFFICES ASSUME NEW m \in 1 .. n, NEW l \in 1 .. n, t[m].name = t[l].name PROVE m = l
    BY <1>1 DEF List!Distinct
  <2>1. from[m] \in 1 .. n /\ from[l] \in 1 .. n /\ s[from[m]].name = s[from[l]].name
    OBVIOUS
  <2>2. from[m] = from[l]
    BY <1>1, <1>3, <2>1 DEF List!Distinct
  <2> QED BY <2>2
<1> QED BY <1>1, <1>2, <1>3, <1>4 DEF Same

(* Where an element stops sinking. *)
Stops(s, j, gap) ==
  {k \in 1 .. j : (j - k) % gap = 0
                  /\ \A m \in k + gap .. j : (j - m) % gap = 0 => List!Compare(s[m - gap], s[j]) > 0}

Sunk(s, t, n, j, gap, k) ==
  /\ k \in Stops(s, j, gap) /\ \A i \in Stops(s, j, gap) : k <= i
  /\ t = [m \in 1 .. n |-> s[From(j, k, gap, m)]]

LEMMA SinkIs ==
  ASSUME NEW n \in Nat, NEW s \in Entries(n), NEW j \in 1 .. n, NEW gap \in Nat \ {0}
  PROVE  \E k : Sunk(s, List!Sink(s, j, gap), n, j, gap, k)
<1>1. j \in Stops(s, j, gap)
  <2>1. (j - j) % gap = 0 /\ j + gap .. j = {}
    OBVIOUS
  <2> QED BY <2>1 DEF Stops
<1>2. Stops(s, j, gap) \in SUBSET Nat
  BY DEF Stops
<1>3. \E k \in Stops(s, j, gap) : \A i \in Stops(s, j, gap) : k <= i
  BY <1>1, <1>2, LeastIs
<1> DEFINE k == CHOOSE k \in Stops(s, j, gap) : \A i \in Stops(s, j, gap) : k <= i
<1>4. k \in Stops(s, j, gap) /\ \A i \in Stops(s, j, gap) : k <= i
  BY <1>3
<1>5. DOMAIN s = 1 .. n
  BY DEF Entries
<1>6. List!Sink(s, j, gap) =
        [m \in 1 .. n |-> IF m = k THEN s[j] ELSE IF m > k /\ m <= j /\ (j - m) % gap = 0 THEN s[m - gap] ELSE s[m]]
  BY <1>5 DEF List!Sink, Stops
<1> HIDE DEF k
<1>7. \A m \in 1 .. n : s[From(j, k, gap, m)] =
        IF m = k THEN s[j] ELSE IF m > k /\ m <= j /\ (j - m) % gap = 0 THEN s[m - gap] ELSE s[m]
  BY DEF From
<1> QED BY <1>4, <1>6, <1>7 DEF Sunk

LEMMA SinkKeeps ==
  ASSUME NEW n \in Nat, NEW s \in Entries(n), NEW j \in 1 .. n, NEW gap \in Nat \ {0}
  PROVE  List!Sink(s, j, gap) \in Entries(n) /\ Same(s, List!Sink(s, j, gap))
<1> DEFINE t == List!Sink(s, j, gap)
<1> HIDE DEF t
<1>1. PICK k : Sunk(s, t, n, j, gap, k)
  BY SinkIs DEF t
<1>2. k \in 1 .. j /\ (j - k) % gap = 0 /\ t = [m \in 1 .. n |-> s[From(j, k, gap, m)]]
  BY <1>1 DEF Stops, Sunk
<1>3. OneToOne(n, j, k, gap)
  BY <1>2, FromIsOneToOne
<1> DEFINE from == [m \in 1 .. n |-> From(j, k, gap, m)]
<1>4. /\ \A m \in 1 .. n : from[m] \in 1 .. n /\ t[m] = s[from[m]]
      /\ \A m, l \in 1 .. n : from[m] = from[l] => m = l
      /\ \A i \in 1 .. n : \E m \in 1 .. n : from[m] = i
  BY <1>2, <1>3 DEF OneToOne
<1>5. t \in Entries(n)
  BY <1>2, <1>3 DEF Entries, OneToOne
<1> HIDE DEF from
<1>6. Same(s, t)
  BY <1>4, <1>5, MovedIsSame
<1> QED BY <1>5, <1>6 DEF t

LEMMA SameIsTransitive ==
  ASSUME NEW n \in Nat, NEW s \in Entries(n), NEW t \in Entries(n), NEW u \in Entries(n), Same(s, t), Same(t, u)
  PROVE  Same(s, u)
<1>1. DOMAIN s = 1 .. n /\ DOMAIN t = 1 .. n /\ DOMAIN u = 1 .. n
  BY DEF Entries
<1> QED BY <1>1 DEF Same


(* The order of entries, whichever was asked for. *)
LEMMA CompareIsOrder ==
  ASSUME asking.order \in List!OrderType
  PROVE  /\ \A a, b \in List!EntryType : List!InTurn(a, b) \/ List!Compare(a, b) > 0
         /\ \A a, b \in List!EntryType : List!Compare(a, b) > 0 => List!InTurn(b, a)
         /\ \A a, b, c \in List!EntryType : List!InTurn(a, b) /\ List!InTurn(b, c) => List!InTurn(a, c)
<1> DEFINE o == asking.order
           Key(e) == IF o.by = "s" THEN e.size ELSE IF o.by = "d" THEN e.mtime ELSE 0
           Up(a, b) == IF Key(a) # Key(b) THEN Key(a) - Key(b) ELSE a.name - b.name
<1>1. o.down \in BOOLEAN
  BY DEF List!OrderType
<1>2. \A a \in List!EntryType : a.dir \in BOOLEAN /\ a.name \in Int /\ Key(a) \in Int
  BY DEF List!EntryType
<1>3. \A a, b : List!Compare(a, b) =
        IF a.dir # b.dir THEN (IF a.dir THEN -1 ELSE 1) ELSE IF o.down THEN -Up(a, b) ELSE Up(a, b)
  BY DEF List!Compare, List!order
<1> HIDE DEF o, Key
<1>4. ASSUME NEW a \in List!EntryType, NEW b \in List!EntryType
      PROVE  /\ List!InTurn(a, b) \/ List!Compare(a, b) > 0
             /\ List!Compare(a, b) > 0 => List!InTurn(b, a)
  BY <1>1, <1>2, <1>3 DEF List!InTurn
<1>5. ASSUME NEW a \in List!EntryType, NEW b \in List!EntryType, NEW c \in List!EntryType,
             List!InTurn(a, b), List!InTurn(b, c)
      PROVE  List!InTurn(a, c)
  BY <1>1, <1>2, <1>3, <1>5 DEF List!InTurn
<1> QED BY <1>4, <1>5

(* The first elements are in order. *)
UpTo(s, j) == \A x, y \in 1 .. j : x < y => List!InTurn(s[x], s[y])

LEMMA SinkSorts ==
  ASSUME asking.order \in List!OrderType,
         NEW n \in Nat, NEW s \in Entries(n), NEW j \in 1 .. n, UpTo(s, j - 1)
  PROVE  UpTo(List!Sink(s, j, 1), j)
<1> DEFINE t == List!Sink(s, j, 1)
<1> HIDE DEF t
<1>1. PICK k : Sunk(s, t, n, j, 1, k)
  BY SinkIs DEF t
<1>2. k \in 1 .. j /\ \A m \in k + 1 .. j : List!Compare(s[m - 1], s[j]) > 0
  <2>1. k \in 1 .. j /\ \A m \in k + 1 .. j : (j - m) % 1 = 0 => List!Compare(s[m - 1], s[j]) > 0
    BY <1>1 DEF Stops, Sunk
  <2>2. \A m \in k + 1 .. j : (j - m) % 1 = 0
    BY <2>1
  <2> QED BY <2>1, <2>2
<1>3. \A i \in 1 .. n : s[i] \in List!EntryType
  BY DEF Entries
<1>4. ASSUME k # 1 PROVE List!InTurn(s[k - 1], s[j])
  <2>1. k - 1 \notin Stops(s, j, 1) /\ k - 1 \in 1 .. j /\ (j - (k - 1)) % 1 = 0
    <3>1. k - 1 \in 1 .. j /\ ~(k <= k - 1)
      BY <1>2, <1>4
    <3> QED BY <1>1, <3>1 DEF Sunk
  <2>2. PICK m \in (k - 1) + 1 .. j : ~(List!Compare(s[m - 1], s[j]) > 0)
    BY <2>1 DEF Stops
  <2>3. m \notin k + 1 .. j
    BY <1>2, <2>2
  <2>4. m = k
    BY <1>2, <2>3
  <2>5. k - 1 \in 1 .. n
    BY <2>1
  <2> QED BY <1>3, <2>2, <2>4, <2>5, CompareIsOrder
<1>5. \A m \in 1 .. j : t[m] = IF m = k THEN s[j] ELSE IF m > k THEN s[m - 1] ELSE s[m]
  <2>1. \A m \in 1 .. n : t[m] = s[From(j, k, 1, m)]
    BY <1>1 DEF Sunk
  <2>2. \A m \in 1 .. j : m \in 1 .. n /\ (j - m) % 1 = 0
    OBVIOUS
  <2> QED BY <2>1, <2>2 DEF From
<1> SUFFICES ASSUME NEW x \in 1 .. j, NEW y \in 1 .. j, x < y PROVE List!InTurn(t[x], t[y])
  BY DEF UpTo, t
<1>6. \A a, b \in 1 .. j - 1 : a < b => List!InTurn(s[a], s[b])
  BY DEF UpTo
<1>7. CASE y < k
  BY <1>2, <1>5, <1>6, <1>7
<1>8. CASE y = k
  <2>1. k # 1 /\ k - 1 \in 1 .. n /\ x \in 1 .. n /\ (x = k - 1 \/ x < k - 1)
    BY <1>2, <1>8
  <2>2. List!InTurn(s[k - 1], s[j])
    BY <1>4, <2>1
  <2>3. x = k - 1 \/ List!InTurn(s[x], s[k - 1])
    BY <1>2, <1>6, <2>1
  <2>4. List!InTurn(s[x], s[j])
    BY <1>3, <2>1, <2>2, <2>3, CompareIsOrder
  <2>5. t[x] = s[x] /\ t[y] = s[j]
    BY <1>2, <1>5, <1>8
  <2> QED BY <2>4, <2>5
<1>9. CASE y > k
  <2>1. t[y] = s[y - 1] /\ y - 1 \in 1 .. j - 1
    BY <1>2, <1>5, <1>9
  <2>2. CASE x < k
    BY <1>2, <1>5, <1>6, <1>9, <2>1, <2>2
  <2>3. CASE x = k
    <3>1. List!Compare(s[y - 1], s[j]) > 0
      BY <1>2, <1>9
    <3>2. List!InTurn(s[j], s[y - 1])
      BY <1>3, <2>1, <3>1, CompareIsOrder
    <3> QED BY <1>5, <2>1, <2>3, <3>2
  <2>4. CASE x > k
    BY <1>2, <1>5, <1>6, <2>1, <2>4
  <2> QED BY <1>2, <2>2, <2>3, <2>4
<1> QED BY <1>2, <1>7, <1>8, <1>9


(* What satisfies the equations of the steps is what they make. *)
LEMMA EquationsMake ==
  ASSUME NEW n \in Nat, NEW S, NEW a \in S, NEW step \in Steps(n, S), NEW g,
         g = [i \in 0 .. n |-> g[i]], g[0] = a,
         \A i \in 1 .. n : g[i - 1] \in S => g[i] = step[i][g[i - 1]]
  PROVE  Made(g, n, S, a, step)
<1>0. step \in [1 .. n -> [S -> S]]
  BY DEF Steps
<1> DEFINE Good == {k \in Nat : k <= n => g[k] \in S}
<1>1. 0 \in Good
  OBVIOUS
<1>2. ASSUME NEW k \in Nat, k \in Good PROVE k + 1 \in Good
  <2> SUFFICES ASSUME k + 1 <= n PROVE g[k + 1] \in S
    OBVIOUS
  <2> DEFINE j == k + 1
  <2>1. j \in 1 .. n /\ j - 1 = k /\ k <= n
    OBVIOUS
  <2> HIDE DEF j
  <2>2. g[k] \in S
    BY <1>2, <2>1
  <2>3. g[j] = step[j][g[k]]
    BY <2>1, <2>2
  <2>4. g[j] \in S
    BY <1>0, <2>1, <2>2, <2>3
  <2> QED BY <2>4 DEF j
<1>3. Nat \subseteq Good
  <2> HIDE DEF Good
  <2> QED BY <1>1, <1>2, Induction
<1>4. \A i \in 0 .. n : g[i] \in S
  BY <1>3
<1>5. g \in [0 .. n -> S]
  BY <1>4
<1>6. \A i \in 1 .. n : i - 1 \in 0 .. n
  OBVIOUS
<1> QED BY <1>4, <1>5, <1>6 DEF Made

(* A pass loses nothing, and with gap 1 it sorts. *)
LEMMA PassKeeps ==
  ASSUME asking.order \in List!OrderType, NEW n \in Nat, NEW s \in Entries(n), NEW gap \in Nat \ {0}
  PROVE  /\ List!Pass(s, gap) \in Entries(n) /\ Same(s, List!Pass(s, gap))
         /\ gap = 1 => UpTo(List!Pass(s, gap), n)
<1> DEFINE S == Entries(n)
           step == [j \in 1 .. n |-> [x \in S |-> List!Sink(x, j, gap)]]
           Up(f) == f = [j \in 0 .. n |-> IF j = 0 THEN s ELSE List!Sink(f[j - 1], j, gap)]
<1>1. Len(s) = n
  BY DEF Entries
<1>2. \A j \in 1 .. n, x \in S : step[j][x] = List!Sink(x, j, gap) /\ List!Sink(x, j, gap) \in S
  BY SinkKeeps
<1>3. step \in Steps(n, S)
  BY <1>2 DEF Steps
<1> HIDE DEF step, S
<1>0. s \in S
  BY DEF S
<1>4. PICK f : Made(f, n, S, s, step)
  BY <1>0, <1>3, StepsMake
<1>5. \A j \in 0 .. n : j = 0 \/ (j \in 1 .. n /\ j - 1 \in 0 .. n)
  OBVIOUS
<1>6. Up(f)
  <2> DEFINE h == [j \in 0 .. n |-> IF j = 0 THEN s ELSE List!Sink(f[j - 1], j, gap)]
  <2>1. ASSUME NEW j \in 0 .. n PROVE f[j] = h[j]
    BY <1>2, <1>4, <1>5 DEF Made
  <2>2. f = [j \in 0 .. n |-> f[j]] /\ h = [j \in 0 .. n |-> h[j]]
    BY <1>4 DEF Made
  <2> HIDE DEF h
  <2>3. f = h
    BY <2>1, <2>2
  <2> QED BY <2>3 DEF h
<1> DEFINE g == CHOOSE g : Up(g)
<1>7. Up(g)
  <2> HIDE DEF Up
  <2> QED BY <1>6
<1>8. List!Pass(s, gap) = g[n]
  BY <1>1 DEF List!Pass
<1> HIDE DEF g
<1>9. g = [j \in 0 .. n |-> g[j]] /\ g[0] = s /\ \A j \in 1 .. n : g[j] = List!Sink(g[j - 1], j, gap)
  BY <1>5, <1>7
<1>10. Made(g, n, S, s, step)
  <2>1. \A j \in 1 .. n : g[j - 1] \in S => g[j] = step[j][g[j - 1]]
    BY <1>2, <1>9
  <2> QED BY <1>0, <1>3, <1>9, <2>1, EquationsMake
<1> DEFINE V == [i \in 0 .. n |-> {x \in S : Same(s, x) /\ (gap = 1 => UpTo(x, i))}]
<1>11. s \in V[0]
  <2>1. Same(s, s) /\ UpTo(s, 0) /\ 0 \in 0 .. n
    BY DEF Same, UpTo
  <2> QED BY <1>0, <2>1
<1>12. ASSUME NEW i \in 1 .. n, NEW x \in S, x \in V[i - 1] PROVE step[i][x] \in V[i]
  <2> DEFINE t == List!Sink(x, i, gap)
  <2>1. i - 1 \in 0 .. n /\ i \in 0 .. n
    OBVIOUS
  <2>2. Same(s, x) /\ (gap = 1 => UpTo(x, i - 1)) /\ x \in Entries(n)
    BY <1>12, <2>1 DEF S
  <2>3. t \in S /\ Same(x, t)
    BY <2>2, SinkKeeps DEF S
  <2>4. gap = 1 => UpTo(t, i)
    BY <2>2, SinkSorts
  <2>5. step[i][x] = t
    BY <1>2
  <2> HIDE DEF t
  <2>6. Same(s, t)
    BY <2>2, <2>3, SameIsTransitive DEF S
  <2> QED BY <2>1, <2>3, <2>4, <2>5, <2>6
<1>13. V[n] = {x \in S : Same(s, x) /\ (gap = 1 => UpTo(x, n))}
  OBVIOUS
<1> HIDE DEF V
<1>14. g[n] \in S /\ g[n] \in V[n]
  BY <1>0, <1>3, <1>10, <1>11, <1>12, MadeKeeps
<1> QED BY <1>8, <1>13, <1>14 DEF S

(* mg_sort() loses nothing, and sorts. *)
LEMMA MgSortSorts ==
  ASSUME asking.order \in List!OrderType, NEW n \in Nat, NEW s \in Entries(n)
  PROVE  /\ List!MgSort(s) \in Entries(n) /\ Same(s, List!MgSort(s))
         /\ UpTo(List!MgSort(s), n)
<1> DEFINE S == Entries(n)
           gaps == List!Gaps
           Then(x, i) == IF gaps[i] > n \div 2 THEN x ELSE List!Pass(x, gaps[i])
           step == [i \in 1 .. 9 |-> [x \in S |-> Then(x, i)]]
           Up(f) == f = [i \in 0 .. 9 |-> IF i = 0 THEN s ELSE IF gaps[i] > n \div 2 THEN f[i - 1]
                                          ELSE List!Pass(f[i - 1], gaps[i])]
<1>1. Len(s) = n
  BY DEF Entries
<1>2. Len(gaps) = 9 /\ gaps[9] = 1 /\ \A i \in 1 .. 9 : gaps[i] \in Nat \ {0}
  BY DEF List!Gaps
<1> HIDE DEF gaps
<1>3. ASSUME NEW i \in 1 .. 9, NEW x \in S
      PROVE  step[i][x] = Then(x, i) /\ Then(x, i) \in S /\ Same(x, Then(x, i))
  <2>1. x \in Entries(n) /\ gaps[i] \in Nat \ {0} /\ Same(x, x)
    BY <1>2 DEF Same
  <2>2. List!Pass(x, gaps[i]) \in Entries(n) /\ Same(x, List!Pass(x, gaps[i]))
    BY <2>1, PassKeeps
  <2> QED BY <2>1, <2>2
<1>4. step \in Steps(9, S)
  <2> HIDE DEF Then, S
  <2> QED BY <1>3 DEF Steps
<1>5. \A i \in 1 .. 9, x \in S : step[i][x] = Then(x, i)
  BY <1>3
<1> HIDE DEF step, S
<1>0. s \in S
  BY DEF S
<1>6. PICK f : Made(f, 9, S, s, step)
  BY <1>0, <1>4, StepsMake
<1>7. \A i \in 0 .. 9 : i = 0 \/ (i \in 1 .. 9 /\ i - 1 \in 0 .. 9)
  OBVIOUS
<1>8. Up(f)
  <2> DEFINE h == [i \in 0 .. 9 |-> IF i = 0 THEN s ELSE IF gaps[i] > n \div 2 THEN f[i - 1]
                                          ELSE List!Pass(f[i - 1], gaps[i])]
  <2>1. ASSUME NEW i \in 0 .. 9 PROVE f[i] = h[i]
    BY <1>5, <1>6, <1>7 DEF Made
  <2>2. f = [i \in 0 .. 9 |-> f[i]] /\ h = [i \in 0 .. 9 |-> h[i]]
    BY <1>6 DEF Made
  <2> HIDE DEF h
  <2>3. f = h
    BY <2>1, <2>2
  <2> QED BY <2>3 DEF h
<1> DEFINE g == CHOOSE g : Up(g)
<1>9. Up(g)
  <2> HIDE DEF Up
  <2> QED BY <1>8
<1>10. List!MgSort(s) = g[9]
  BY <1>1, <1>2 DEF List!MgSort, gaps
<1> HIDE DEF g
<1>11. /\ g = [i \in 0 .. 9 |-> g[i]] /\ g[0] = s
       /\ \A i \in 1 .. 9 : g[i] = Then(g[i - 1], i)
  BY <1>7, <1>9
<1> HIDE DEF Then
<1>12. Made(g, 9, S, s, step)
  <2>1. \A i \in 1 .. 9 : g[i - 1] \in S => g[i] = step[i][g[i - 1]]
    BY <1>5, <1>11
  <2> QED BY <1>0, <1>4, <1>11, <2>1, EquationsMake
<1> DEFINE V == [i \in 0 .. 9 |-> {x \in S : Same(s, x) /\ (i = 9 => UpTo(x, n))}]
<1>13. s \in V[0]
  <2>1. Same(s, s) /\ 0 \in 0 .. 9
    BY DEF Same
  <2> QED BY <1>0, <2>1
<1>14. ASSUME NEW i \in 1 .. 9, NEW x \in S, x \in V[i - 1] PROVE step[i][x] \in V[i]
  <2> DEFINE t == Then(x, i)
  <2>1. i - 1 \in 0 .. 9 /\ i \in 0 .. 9
    OBVIOUS
  <2>2. Same(s, x) /\ x \in Entries(n)
    BY <1>14, <2>1 DEF S
  <2>3. t \in S /\ Same(x, t) /\ step[i][x] = t
    BY <1>3 DEF step
  <2>4. ASSUME i = 9 PROVE UpTo(t, n)
    <3>1. gaps[i] = 1
      BY <1>2, <2>4
    <3>2. CASE 1 > n \div 2
      <4>1. n < 2
        BY <3>2
      <4> QED BY <4>1 DEF UpTo
    <3>3. CASE ~(1 > n \div 2)
      <4>1. t = List!Pass(x, 1)
        BY <3>1, <3>3 DEF Then
      <4>2. UpTo(List!Pass(x, 1), n)
        BY <2>2, PassKeeps
      <4> QED BY <4>1, <4>2
    <3> QED BY <3>2, <3>3
  <2> HIDE DEF t
  <2>6. Same(s, t)
    BY <2>2, <2>3, SameIsTransitive DEF S
  <2> QED BY <2>1, <2>3, <2>4, <2>6
<1>15. V[9] = {x \in S : Same(s, x) /\ UpTo(x, n)}
  OBVIOUS
<1> HIDE DEF V
<1>16. g[9] \in S /\ g[9] \in V[9]
  BY <1>0, <1>4, <1>12, <1>13, <1>14, MadeKeeps
<1> QED BY <1>10, <1>15, <1>16 DEF S


(* ListInv of DirectoryListing is inductive.  The names in a sequence: *)
NamesOf(s) == {s[i].name : i \in DOMAIN s}

LEMMA AddedNames ==
  ASSUME NEW s \in Seq(List!EntryType), NEW e \in List!EntryType, e.name \notin NamesOf(s), List!Distinct(s)
  PROVE  /\ Append(s, e) \in Seq(List!EntryType) /\ Len(Append(s, e)) = Len(s) + 1
         /\ NamesOf(Append(s, e)) = NamesOf(s) \cup {e.name} /\ List!Distinct(Append(s, e))
<1> DEFINE t == Append(s, e)
           n == Len(s)
<1>1. n \in Nat /\ DOMAIN s = 1 .. n
  OBVIOUS
<1>2. /\ t \in Seq(List!EntryType) /\ Len(t) = n + 1 /\ DOMAIN t = 1 .. n + 1
      /\ t[n + 1] = e /\ \A i \in 1 .. n : t[i] = s[i]
  OBVIOUS
<1> HIDE DEF t, n
<1>3. /\ \A i \in 1 .. n + 1 : i = n + 1 \/ i \in 1 .. n
      /\ n + 1 \in 1 .. n + 1 /\ \A i \in 1 .. n : i \in 1 .. n + 1
  BY <1>1
<1>4. NamesOf(t) = NamesOf(s) \cup {e.name}
  BY <1>1, <1>2, <1>3 DEF NamesOf
<1>5. List!Distinct(t)
  <2> SUFFICES ASSUME NEW i \in 1 .. n + 1, NEW j \in 1 .. n + 1, t[i].name = t[j].name PROVE i = j
    BY <1>2 DEF List!Distinct
  <2>1. \A k \in 1 .. n : s[k].name # e.name
    BY <1>1 DEF NamesOf
  <2> QED BY <1>1, <1>2, <1>3, <2>1 DEF List!Distinct
<1> QED BY <1>2, <1>4, <1>5 DEF t, n

LEMMA FirstName ==
  ASSUME NEW s \in Seq(List!EntryType), s # <<>>, List!Distinct(s)
  PROVE  /\ Tail(s) \in Seq(List!EntryType) /\ Len(Tail(s)) = Len(s) - 1 /\ Head(s) \in List!EntryType
         /\ NamesOf(s) = NamesOf(Tail(s)) \cup {Head(s).name} /\ Head(s).name \notin NamesOf(Tail(s))
         /\ List!Distinct(Tail(s))
<1> DEFINE t == Tail(s)
           n == Len(s)
<1>1. n \in Nat \ {0} /\ DOMAIN s = 1 .. n /\ \A i \in 1 .. n : s[i] \in List!EntryType
  OBVIOUS
<1>2. /\ t \in Seq(List!EntryType) /\ Len(t) = n - 1 /\ DOMAIN t = 1 .. n - 1
      /\ Head(s) = s[1] /\ \A i \in 1 .. n - 1 : t[i] = s[i + 1]
  OBVIOUS
<1> HIDE DEF t, n
<1>3. /\ \A i \in 1 .. n : i = 1 \/ (i - 1 \in 1 .. n - 1 /\ (i - 1) + 1 = i)
      /\ 1 \in 1 .. n /\ \A i \in 1 .. n - 1 : i + 1 \in 1 .. n /\ i + 1 # 1
  BY <1>1
<1>4. \A i \in 1 .. n : i = 1 \/ (i - 1 \in 1 .. n - 1 /\ t[i - 1] = s[i])
  BY <1>2, <1>3
<1>5. NamesOf(s) = NamesOf(t) \cup {s[1].name}
  <2>1. ASSUME NEW i \in 1 .. n PROVE s[i].name \in NamesOf(t) \cup {s[1].name}
    <3>1. CASE i = 1
      BY <3>1
    <3>2. CASE i - 1 \in 1 .. n - 1 /\ t[i - 1] = s[i]
      BY <1>2, <3>2 DEF NamesOf
    <3> QED BY <1>4, <3>1, <3>2
  <2>2. ASSUME NEW i \in 1 .. n - 1 PROVE t[i].name \in NamesOf(s)
    BY <1>1, <1>2, <1>3 DEF NamesOf
  <2>3. s[1].name \in NamesOf(s)
    BY <1>1, <1>3 DEF NamesOf
  <2>4. NamesOf(s) \subseteq NamesOf(t) \cup {s[1].name}
    BY <1>1, <2>1 DEF NamesOf
  <2>5. NamesOf(t) \subseteq NamesOf(s)
    BY <1>2, <2>2 DEF NamesOf
  <2> QED BY <2>3, <2>4, <2>5
<1>6. s[1].name \notin NamesOf(t)
  <2>1. \A i \in 1 .. n : s[i].name = s[1].name => i = 1
    BY <1>1, <1>3 DEF List!Distinct
  <2>2. \A i \in 1 .. n - 1 : t[i].name # s[1].name
    BY <1>2, <1>3, <2>1
  <2> QED BY <1>2, <2>2 DEF NamesOf
<1>7. List!Distinct(t)
  <2> SUFFICES ASSUME NEW i \in 1 .. n - 1, NEW j \in 1 .. n - 1, t[i].name = t[j].name PROVE i = j
    BY <1>2 DEF List!Distinct
  <2>1. i + 1 = j + 1
    BY <1>1, <1>2, <1>3 DEF List!Distinct
  <2> QED BY <2>1
<1> QED BY <1>1, <1>2, <1>3, <1>5, <1>6, <1>7 DEF t, n

LEMMA SameNames ==
  ASSUME NEW s, NEW t, Same(s, t)
  PROVE  NamesOf(s) = NamesOf(t)
BY DEF Same, NamesOf

(* The order, apart from the state. *)
InTurnBy(o, a, b) ==
  (IF a.dir # b.dir THEN (IF a.dir THEN -1 ELSE 1)
   ELSE LET key(e) == IF o.by = "s" THEN e.size ELSE IF o.by = "d" THEN e.mtime ELSE 0
            up == IF key(a) # key(b) THEN key(a) - key(b) ELSE a.name - b.name
        IN  IF o.down THEN -up ELSE up) <= 0
AscendingBy(o, s) == \A i, j \in DOMAIN s : i < j => InTurnBy(o, s[i], s[j])
AllBefore(o, s, t) == \A i \in DOMAIN s, j \in DOMAIN t : InTurnBy(o, s[i], t[j])
OrderedBy(r, p, s, t) ==
  r.job = "list" /\ p \in {"print", "done"} =>
    AscendingBy(r.order, s) /\ AscendingBy(r.order, t) /\ AllBefore(r.order, s, t)

LEMMA OrderedIs ==
  /\ \A a, b : List!InTurn(a, b) <=> InTurnBy(asking.order, a, b)
  /\ List!Ordered <=> OrderedBy(asking, listPc, printed, entries)
  /\ List!Ordered' <=> OrderedBy(asking', listPc', printed', entries')
<1>1. \A a, b : List!InTurn(a, b) <=> InTurnBy(asking.order, a, b)
  BY DEF List!InTurn, List!Compare, List!order, InTurnBy
<1>2. List!Ordered <=> OrderedBy(asking, listPc, printed, entries)
  BY <1>1 DEF List!Ordered, List!Ascending, List!job, OrderedBy, AscendingBy, AllBefore
<1>3. List!Ordered' <=> OrderedBy(asking', listPc', printed', entries')
  BY DEF List!Ordered, List!Ascending, List!InTurn, List!Compare, List!order, List!job, OrderedBy, AscendingBy,
         AllBefore, InTurnBy
<1> QED BY <1>1, <1>2, <1>3


OneEachBy(s, p, given, lost) ==
  /\ List!Distinct(s) /\ List!Distinct(p) /\ NamesOf(s) \cap NamesOf(p) = {}
  /\ NamesOf(s) \cup NamesOf(p) \subseteq given \ Hidden
  /\ ~lost => given \ Hidden \subseteq NamesOf(s) \cup NamesOf(p)

LEMMA OneEachIs ==
  /\ List!OneEach <=> OneEachBy(entries, printed, turned, cut)
  /\ List!OneEach' <=> OneEachBy(entries', printed', turned', cut')
<1>1. List!OneEach <=> OneEachBy(entries, printed, turned, cut)
  BY DEF List!OneEach, List!Listed, List!Shown, OneEachBy, NamesOf
<1>2. List!OneEach' <=> OneEachBy(entries', printed', turned', cut')
  BY DEF List!OneEach, List!Listed, List!Shown, OneEachBy, NamesOf, List!Distinct
<1> QED BY <1>1, <1>2

LEMMA KindIsGone == List!Gone \in List!KindType
BY DEF List!Gone, List!KindType

LEMMA EntryIs ==
  ASSUME List!IsTree(dir), NEW n \in DOMAIN dir
  PROVE  List!Entry(n) \in List!EntryType /\ List!Entry(n).name = n
<1>1. n \in Int /\ dir[n].dir \in BOOLEAN /\ dir[n].size \in Int /\ dir[n].mtime \in Int
  BY DEF List!IsTree, List!KindType
<1>2. CASE List!Here(n)
  BY <1>1, <1>2 DEF List!Entry, List!EntryType
<1>3. CASE ~List!Here(n)
  BY <1>1, <1>3 DEF List!Entry, List!EntryType
<1> QED BY <1>2, <1>3

LEMMA ListStarts ==
  ASSUME List!ConstantsAreProper, List!Init
  PROVE  List!ListInv
<1>1. asking \in Listings /\ List!IsTree(dir) /\ FirstSize \in Nat \ {0}
  BY DEF List!ConstantsAreProper, List!Init
<1>2. entries = <<>> /\ printed = <<>> /\ entries \in Seq(List!EntryType) /\ Len(entries) = 0 /\ DOMAIN entries = {}
  BY DEF List!Init
<1>3. List!TypeOK /\ List!Typed /\ List!RoomIsKept /\ List!Stage
  <2>1. List!TypeOK
    BY <1>2 DEF List!Init, List!TypeOK
  <2>2. List!Typed
    BY <1>1, <1>2 DEF List!Init, List!Typed
  <2>3. List!RoomIsKept
    BY <1>2 DEF List!Init, List!RoomIsKept
  <2>4. List!Stage
    BY <1>2 DEF List!Init, List!Stage
  <2> QED BY <2>1, <2>2, <2>3, <2>4
<1>4. List!OneEach
  BY <1>2 DEF List!Init, List!OneEach, List!Distinct, List!Listed, List!Shown
<1>5. List!Ordered
  BY DEF List!Ordered, List!Init
<1> QED BY <1>3, <1>4, <1>5 DEF List!ListInv

(* What every step needs. *)
LEMMA ListIs ==
  ASSUME List!ConstantsAreProper, List!ListInv
  PROVE  /\ asking.job \in {"list", "propfind", "depth0"} /\ asking.order \in List!OrderType
         /\ asking.fails \in BOOLEAN
BY DEF List!ConstantsAreProper, List!ListInv, List!Typed

LEMMA OpenKeepsList ==
  ASSUME List!ConstantsAreProper, List!ListInv, List!Open
  PROVE  List!ListInv'
<1>1. UNCHANGED <<asking, dir, turned, entries, room, arrSize, printed, names>> /\ listPc = "open"
      /\ before' = {n \in List!Names : List!Here(n)}
  BY DEF List!Open, List!rest
<1>2. turned = {} /\ entries = <<>> /\ printed = <<>> /\ ~cut
  BY <1>1 DEF List!ListInv, List!Stage
<1>3. List!TypeOK' /\ List!Typed'
  <2>1. listPc' \in {"scan", "done"} /\ listed' \in {0, 200, 207, 500} /\ cut' \in BOOLEAN
    <3>1. listed \in {0, 200, 207, 500} /\ cut \in BOOLEAN
      BY DEF List!ListInv, List!TypeOK
    <3>2. /\ listPc' = "scan" \/ listPc' = "done"
          /\ listed' = listed \/ listed' = 207 \/ listed' = 500
      BY DEF List!Open
    <3>3. cut' = cut \/ cut' = TRUE
      BY DEF List!Open
    <3>4. cut' \in BOOLEAN
      BY <3>1, <3>3
    <3> QED BY <3>1, <3>2, <3>4
  <2>2. turned' \subseteq DOMAIN dir' /\ before' \subseteq DOMAIN dir'
    <3>1. turned \subseteq DOMAIN dir
      BY DEF List!ListInv, List!TypeOK, List!Names
    <3>2. before' \subseteq DOMAIN dir
      BY <1>1 DEF List!Names
    <3> QED BY <1>1, <3>1, <3>2
  <2>3. names' \in Nat /\ room' \in Nat /\ (asking'.job = "list" => names' = Len(entries'))
    BY <1>1 DEF List!ListInv, List!TypeOK, List!job
  <2>4. List!Typed'
    BY <1>1 DEF List!ListInv, List!Typed
  <2> QED BY <2>1, <2>2, <2>3, <2>4 DEF List!TypeOK, List!Names, List!job
<1>4. List!RoomIsKept'
  BY <1>1 DEF List!ListInv, List!RoomIsKept
<1>5. List!OneEach'
  <2>1. OneEachBy(entries, printed, turned, cut)
    BY OneEachIs DEF List!ListInv
  <2>2. OneEachBy(entries', printed', turned', cut')
    BY <1>1, <1>2, <2>1 DEF OneEachBy
  <2> QED BY <2>2, OneEachIs
<1>6. List!Stage'
  <2>1. /\ listPc' = "scan" \/ listPc' = "done"
        /\ listPc' = "scan" => listed' = listed
        /\ listPc' = "done" => asking.job = "depth0" \/ listed' = 500 \/ cut'
    BY DEF List!Open, List!job
  <2>2. listed # 500
    BY <1>1 DEF List!ListInv, List!Stage
  <2>3. entries' = <<>> /\ printed' = <<>> /\ asking'.job = asking.job
    BY <1>1, <1>2
  <2> QED BY <2>1, <2>2, <2>3 DEF List!Stage, List!job
<1>7. List!Ordered'
  <2>1. DOMAIN entries = {} /\ DOMAIN printed = {}
    BY <1>2
  <2>2. OrderedBy(asking', listPc', printed', entries')
    BY <1>1, <2>1 DEF OrderedBy, AscendingBy, AllBefore
  <2> QED BY <2>2, OrderedIs
<1> QED BY <1>3, <1>4, <1>5, <1>6, <1>7 DEF List!ListInv

LEMMA SkipKeepsList ==
  ASSUME List!ConstantsAreProper, List!ListInv, NEW n \in List!Names, List!Skip(n)
  PROVE  List!ListInv'
<1>1. /\ UNCHANGED <<asking, dir, before, listPc, entries, room, arrSize, printed, names, cut, listed>>
      /\ listPc = "scan" /\ n \in Hidden /\ turned' = turned \cup {n}
  BY DEF List!Skip, List!Scanning, List!rest
<1>2. List!TypeOK' /\ List!Typed' /\ List!RoomIsKept' /\ List!Stage'
  BY <1>1 DEF List!ListInv, List!TypeOK, List!Typed, List!RoomIsKept, List!Stage, List!job, List!Names
<1>3. List!OneEach'
  <2>1. OneEachBy(entries, printed, turned, cut)
    BY OneEachIs DEF List!ListInv
  <2>2. OneEachBy(entries', printed', turned', cut')
    BY <1>1, <2>1 DEF OneEachBy
  <2> QED BY <2>2, OneEachIs
<1>4. List!Ordered'
  <2>1. OrderedBy(asking', listPc', printed', entries')
    BY <1>1 DEF OrderedBy
  <2> QED BY <2>1, OrderedIs
<1> QED BY <1>2, <1>3, <1>4 DEF List!ListInv

LEMMA AddEntryKeepsList ==
  ASSUME List!ConstantsAreProper, List!ListInv, NEW n \in List!Names, List!AddEntry(n)
  PROVE  List!ListInv'
<1>1. /\ UNCHANGED <<asking, dir, before, printed, listed>> /\ listPc = "scan" /\ listPc' \in {"scan", "sort"}
      /\ n \notin turned /\ n \notin Hidden /\ turned' = turned \cup {n} /\ asking.job = "list"
      /\ (listPc' = "scan" \/ cut')
  BY DEF List!AddEntry, List!Scanning, List!rest, List!job
<1>2. /\ entries \in Seq(List!EntryType) /\ printed = <<>> /\ names = Len(entries) /\ Len(entries) \in Nat
      /\ Len(entries) <= room /\ (room = 0 \/ room = arrSize) /\ arrSize \in Nat \ {0} /\ List!IsTree(dir)
  BY <1>1 DEF List!ListInv, List!Typed, List!Stage, List!RoomIsKept, List!job
<1>3. OneEachBy(entries, printed, turned, cut)
  BY OneEachIs DEF List!ListInv
<1>4. \/ /\ entries' = Append(entries, List!Entry(n)) /\ names' = names + 1 /\ UNCHANGED cut
         /\ Len(entries) + 1 <= room'
      \/ UNCHANGED <<entries, names>> /\ cut' = TRUE
  BY <1>2 DEF List!AddEntry, List!Grown
<1>5. /\ Len(entries) <= room' /\ (room' = 0 \/ room' = arrSize') /\ arrSize' \in Nat \ {0} /\ room' \in Nat
      /\ cut' \in BOOLEAN
  <2>1. cut \in BOOLEAN /\ room \in Nat /\ 2 * arrSize \in Nat \ {0} /\ Len(entries) <= 2 * arrSize
    BY <1>2 DEF List!ListInv, List!TypeOK
  <2>2. \/ room' = 2 * arrSize /\ arrSize' = 2 * arrSize
        \/ UNCHANGED <<room, arrSize>>
    BY DEF List!AddEntry
  <2>3. cut' \in BOOLEAN
    BY <2>1 DEF List!AddEntry
  <2> QED BY <1>2, <2>1, <2>2, <2>3
<1>6. List!Entry(n) \in List!EntryType /\ List!Entry(n).name = n
  BY <1>2, EntryIs DEF List!Names
<1>7. n \notin NamesOf(entries) /\ n \notin NamesOf(printed) /\ List!Distinct(entries)
  BY <1>1, <1>3 DEF OneEachBy
<1>8. /\ entries' \in Seq(List!EntryType) /\ Len(entries') = names' /\ names' \in Nat /\ Len(entries') <= room'
      /\ List!Distinct(entries')
      /\ \/ NamesOf(entries') = NamesOf(entries) \cup {n}
         \/ NamesOf(entries') = NamesOf(entries) /\ cut'
  <2>1. CASE entries' = Append(entries, List!Entry(n)) /\ names' = names + 1 /\ Len(entries) + 1 <= room'
    <3>1. /\ entries' \in Seq(List!EntryType) /\ Len(entries') = Len(entries) + 1
          /\ NamesOf(entries') = NamesOf(entries) \cup {n} /\ List!Distinct(entries')
      BY <1>2, <1>6, <1>7, <2>1, AddedNames
    <3> QED BY <1>2, <2>1, <3>1
  <2>2. CASE UNCHANGED <<entries, names>> /\ cut' = TRUE
    BY <1>2, <1>5, <1>7, <2>2
  <2> QED BY <1>4, <2>1, <2>2
<1>9. List!TypeOK' /\ List!Typed' /\ List!RoomIsKept'
  BY <1>1, <1>5, <1>8 DEF List!ListInv, List!TypeOK, List!Typed, List!RoomIsKept, List!job, List!Names
<1>10. List!Stage'
  BY <1>1, <1>2 DEF List!ListInv, List!Stage, List!job
<1>11. List!OneEach'
  <2>1. cut => cut'
    BY <1>4
  <2>2. OneEachBy(entries', printed', turned', cut')
    BY <1>1, <1>3, <1>7, <1>8, <2>1 DEF OneEachBy
  <2> QED BY <2>2, OneEachIs
<1>12. List!Ordered'
  <2>1. OrderedBy(asking', listPc', printed', entries')
    BY <1>1 DEF OrderedBy
  <2> QED BY <2>1, OrderedIs
<1> QED BY <1>9, <1>10, <1>11, <1>12 DEF List!ListInv


LEMMA PrintPropsKeepsList ==
  ASSUME List!ConstantsAreProper, List!ListInv, NEW n \in List!Names, List!PrintProps(n)
  PROVE  List!ListInv'
<1>1. /\ UNCHANGED <<asking, dir, before, listed, entries, room, arrSize, names>> /\ listPc = "scan"
      /\ n \notin turned /\ n \notin Hidden /\ turned' = turned \cup {n} /\ asking.job = "propfind"
  BY DEF List!PrintProps, List!Scanning, List!rest, List!job
<1>2. \/ printed' = Append(printed, List!Entry(n)) /\ UNCHANGED <<listPc, cut>>
      \/ listPc' = "sort" /\ cut' = TRUE /\ UNCHANGED printed
  BY DEF List!PrintProps
<1>3. /\ entries \in Seq(List!EntryType) /\ printed \in Seq(List!EntryType) /\ List!IsTree(dir) /\ entries = <<>>
      /\ arrSize \in Nat \ {0} /\ asking \in Listings
  BY <1>1 DEF List!ListInv, List!Typed, List!Stage, List!job
<1>4. OneEachBy(entries, printed, turned, cut)
  BY OneEachIs DEF List!ListInv
<1>5. List!Entry(n) \in List!EntryType /\ List!Entry(n).name = n
  BY <1>3, EntryIs DEF List!Names
<1>6. n \notin NamesOf(entries) /\ n \notin NamesOf(printed) /\ List!Distinct(printed)
  BY <1>1, <1>4 DEF OneEachBy
<1>7. /\ printed' \in Seq(List!EntryType) /\ List!Distinct(printed')
      /\ \/ NamesOf(printed') = NamesOf(printed) \cup {n} /\ cut' = cut /\ listPc' = "scan"
         \/ NamesOf(printed') = NamesOf(printed) /\ cut' = TRUE /\ listPc' = "sort"
  <2>1. CASE printed' = Append(printed, List!Entry(n)) /\ UNCHANGED <<listPc, cut>>
    <3>1. /\ printed' \in Seq(List!EntryType) /\ List!Distinct(printed')
          /\ NamesOf(printed') = NamesOf(printed) \cup {n}
      BY <1>3, <1>5, <1>6, <2>1, AddedNames
    <3> QED BY <1>1, <2>1, <3>1
  <2>2. CASE listPc' = "sort" /\ cut' = TRUE /\ UNCHANGED printed
    BY <1>3, <1>6, <2>2
  <2> QED BY <1>2, <2>1, <2>2
<1>8. List!TypeOK'
  <2>1. cut \in BOOLEAN /\ listed \in {0, 200, 207, 500} /\ names \in Nat /\ room \in Nat
    BY DEF List!ListInv, List!TypeOK
  <2>2. cut' \in BOOLEAN
    BY <1>7, <2>1
  <2>3. turned' \subseteq DOMAIN dir' /\ before' \subseteq DOMAIN dir'
    BY <1>1 DEF List!ListInv, List!TypeOK, List!Names
  <2>4. listPc' \in {"scan", "sort"} /\ asking'.job # "list"
    BY <1>1, <1>7
  <2> QED BY <1>1, <2>1, <2>2, <2>3, <2>4 DEF List!TypeOK, List!Names, List!job
<1>9. List!Typed' /\ List!RoomIsKept'
  <2>1. List!Typed'
    BY <1>1, <1>3, <1>7 DEF List!Typed
  <2>2. List!RoomIsKept'
    BY <1>1, <1>7 DEF List!ListInv, List!RoomIsKept
  <2> QED BY <2>1, <2>2
<1>10. List!Stage'
  BY <1>1, <1>3, <1>7 DEF List!ListInv, List!Stage, List!job
<1>11. List!OneEach'
  <2>1. OneEachBy(entries', printed', turned', cut')
    BY <1>1, <1>4, <1>6, <1>7 DEF OneEachBy
  <2> QED BY <2>1, OneEachIs
<1>12. List!Ordered'
  <2>1. OrderedBy(asking', listPc', printed', entries')
    BY <1>1 DEF OrderedBy
  <2> QED BY <2>1, OrderedIs
<1> QED BY <1>8, <1>9, <1>10, <1>11, <1>12 DEF List!ListInv

LEMMA EndScanKeepsList ==
  ASSUME List!ConstantsAreProper, List!ListInv, List!EndScan
  PROVE  List!ListInv'
<1>1. /\ UNCHANGED <<asking, dir, before, turned, entries, room, arrSize, printed, names, cut, listed>>
      /\ listPc = "scan" /\ listPc' = "sort" /\ before \subseteq turned
  BY DEF List!EndScan, List!rest
<1>2. List!TypeOK' /\ List!Typed' /\ List!RoomIsKept' /\ List!Stage'
  BY <1>1 DEF List!ListInv, List!TypeOK, List!Typed, List!RoomIsKept, List!Stage, List!job, List!Names
<1>3. List!OneEach'
  <2>1. OneEachBy(entries, printed, turned, cut)
    BY OneEachIs DEF List!ListInv
  <2>2. OneEachBy(entries', printed', turned', cut')
    BY <1>1, <2>1
  <2> QED BY <2>2, OneEachIs
<1>4. List!Ordered'
  <2>1. OrderedBy(asking', listPc', printed', entries')
    BY <1>1 DEF OrderedBy
  <2> QED BY <2>1, OrderedIs
<1> QED BY <1>2, <1>3, <1>4 DEF List!ListInv

LEMMA SortKeepsList ==
  ASSUME List!ConstantsAreProper, List!ListInv, List!Sort
  PROVE  List!ListInv'
<1>1. /\ UNCHANGED <<asking, dir, before, turned, room, arrSize, printed, names, cut>>
      /\ listPc = "sort" /\ listPc' = "print" /\ listed' = (IF asking.job = "list" THEN 200 ELSE 207)
      /\ entries' = List!MgSort(entries)
  BY DEF List!Sort, List!rest, List!job
<1>2. asking.order \in List!OrderType /\ entries \in Seq(List!EntryType) /\ Len(entries) \in Nat
  BY ListIs DEF List!ListInv, List!Typed
<1>3. PICK n : n = Len(entries)
  OBVIOUS
<1>4. PICK s : s = entries
  OBVIOUS
<1>5. n \in Nat /\ s \in Entries(n)
  BY <1>2, <1>3, <1>4 DEF Entries
<1>6. List!MgSort(s) \in Entries(n) /\ Same(s, List!MgSort(s)) /\ UpTo(List!MgSort(s), n)
  BY <1>2, <1>5, MgSortSorts
<1>7. entries' \in Entries(n) /\ Same(entries, entries') /\ UpTo(entries', n)
  BY <1>1, <1>4, <1>6
<1>8. entries' \in Seq(List!EntryType) /\ Len(entries') = n /\ DOMAIN entries' = 1 .. n
  BY <1>5, <1>7 DEF Entries
<1>9. NamesOf(entries') = NamesOf(entries)
  BY <1>7, SameNames
<1>10. List!TypeOK' /\ List!Typed' /\ List!RoomIsKept'
  <2>1. List!TypeOK'
    BY <1>1, <1>3, <1>8 DEF List!ListInv, List!TypeOK, List!job, List!Names
  <2>2. List!Typed'
    BY <1>1, <1>8 DEF List!ListInv, List!Typed
  <2>3. List!RoomIsKept'
    BY <1>1, <1>3, <1>8 DEF List!ListInv, List!RoomIsKept
  <2> QED BY <2>1, <2>2, <2>3
<1>11. List!Stage'
  <2>1. asking.job # "list" => entries = <<>>
    BY DEF List!ListInv, List!Stage, List!job
  <2>2. asking.job # "list" => entries' = <<>>
    <3>1. asking.job # "list" => n = 0
      BY <1>3, <2>1
    <3> QED BY <1>8, <3>1
  <2>3. ~cut /\ asking.job # "depth0" => before \subseteq turned
    BY <1>1 DEF List!ListInv, List!Stage, List!job
  <2>4. listed' # 500 /\ listPc' = "print" /\ (~cut' /\ asking'.job # "depth0" => before' \subseteq turned')
        /\ (asking'.job # "list" => entries' = <<>>)
    BY <1>1, <2>2, <2>3
  <2> QED BY <2>4 DEF List!Stage, List!job
<1>12. List!OneEach'
  <2>1. OneEachBy(entries, printed, turned, cut)
    BY OneEachIs DEF List!ListInv
  <2>2. List!Distinct(entries')
    BY <1>7, <2>1 DEF OneEachBy, Same
  <2>3. OneEachBy(entries', printed', turned', cut')
    BY <1>1, <1>9, <2>1, <2>2 DEF OneEachBy
  <2> QED BY <2>3, OneEachIs
<1>13. List!Ordered'
  <2>1. asking.job = "list" => DOMAIN printed = {}
    BY <1>1 DEF List!ListInv, List!Stage, List!job
  <2>2. \A x, y \in 1 .. n : x < y => List!InTurn(entries'[x], entries'[y])
    <3>1. PICK t : t = entries'
      OBVIOUS
    <3>2. \A x, y \in 1 .. n : x < y => List!InTurn(t[x], t[y])
      BY <1>7, <3>1 DEF UpTo
    <3> QED BY <3>1, <3>2
  <2>3. AscendingBy(asking.order, entries')
    BY <1>8, <2>2, OrderedIs DEF AscendingBy
  <2>4. OrderedBy(asking', listPc', printed', entries')
    BY <1>1, <2>1, <2>3 DEF OrderedBy, AscendingBy, AllBefore
  <2> QED BY <2>4, OrderedIs
<1> QED BY <1>10, <1>11, <1>12, <1>13 DEF List!ListInv


(* The elements of Head and Tail, in order. *)
LEMMA PrintKeepsOrder ==
  ASSUME asking.order \in List!OrderType,
         NEW p \in Seq(List!EntryType), NEW s \in Seq(List!EntryType), s # <<>>,
         AscendingBy(asking.order, p), AscendingBy(asking.order, s), AllBefore(asking.order, p, s)
  PROVE  /\ AscendingBy(asking.order, Append(p, Head(s))) /\ AscendingBy(asking.order, Tail(s))
         /\ AllBefore(asking.order, Append(p, Head(s)), Tail(s)) /\ AllBefore(asking.order, p, Tail(s))
<1> DEFINE o == asking.order
           q == Append(p, Head(s))
           t == Tail(s)
           m == Len(p)
           n == Len(s)
<1>1. /\ m \in Nat /\ n \in Nat \ {0} /\ DOMAIN p = 1 .. m /\ DOMAIN s = 1 .. n
      /\ DOMAIN q = 1 .. m + 1 /\ DOMAIN t = 1 .. n - 1
  OBVIOUS
<1>2. q[m + 1] = s[1] /\ \A i \in 1 .. m : q[i] = p[i]
  OBVIOUS
<1>3. \A i \in 1 .. n - 1 : t[i] = s[i + 1]
  OBVIOUS
<1> HIDE DEF o, q, t, m, n
<1>4. \A i \in 1 .. n - 1 : i + 1 \in 1 .. n /\ 1 < i + 1 /\ 1 \in 1 .. n
  BY <1>1
<1>5. \A i \in 1 .. m + 1 : i \in 1 .. m \/ i = m + 1
  BY <1>1
<1>6. /\ \A i, j \in 1 .. m : i < j => InTurnBy(o, p[i], p[j])
      /\ \A i, j \in 1 .. n : i < j => InTurnBy(o, s[i], s[j])
      /\ \A i \in 1 .. m, j \in 1 .. n : InTurnBy(o, p[i], s[j])
  BY <1>1 DEF AscendingBy, AllBefore, o
<1>7. AscendingBy(o, t)
  <2> SUFFICES ASSUME NEW i \in 1 .. n - 1, NEW j \in 1 .. n - 1, i < j PROVE InTurnBy(o, t[i], t[j])
    BY <1>1 DEF AscendingBy
  <2>1. i + 1 < j + 1
    OBVIOUS
  <2> QED BY <1>3, <1>4, <1>6, <2>1
<1>8. AscendingBy(o, q)
  <2> SUFFICES ASSUME NEW i \in 1 .. m + 1, NEW j \in 1 .. m + 1, i < j PROVE InTurnBy(o, q[i], q[j])
    BY <1>1 DEF AscendingBy
  <2>1. i \in 1 .. m /\ 1 \in 1 .. n
    BY <1>1
  <2>2. CASE j \in 1 .. m
    BY <1>2, <1>6, <2>1, <2>2
  <2>3. CASE j = m + 1
    BY <1>2, <1>6, <2>1, <2>3
  <2> QED BY <1>5, <2>2, <2>3
<1>9. AllBefore(o, p, t)
  <2> SUFFICES ASSUME NEW i \in 1 .. m, NEW j \in 1 .. n - 1 PROVE InTurnBy(o, p[i], t[j])
    BY <1>1 DEF AllBefore
  <2> QED BY <1>3, <1>4, <1>6
<1>10. AllBefore(o, q, t)
  <2> SUFFICES ASSUME NEW i \in 1 .. m + 1, NEW j \in 1 .. n - 1 PROVE InTurnBy(o, q[i], t[j])
    BY <1>1 DEF AllBefore
  <2>1. CASE i \in 1 .. m
    BY <1>2, <1>3, <1>4, <1>6, <2>1
  <2>2. CASE i = m + 1
    BY <1>2, <1>3, <1>4, <1>6, <2>2
  <2> QED BY <1>5, <2>1, <2>2
<1> QED BY <1>7, <1>8, <1>9, <1>10 DEF o, q, t

LEMMA PrintEntryKeepsList ==
  ASSUME List!ConstantsAreProper, List!ListInv, List!PrintEntry
  PROVE  List!ListInv'
<1>1. /\ UNCHANGED <<asking, dir, before, turned, room, arrSize, listed, listPc>> /\ listPc = "print"
      /\ entries # <<>> /\ entries' = Tail(entries) /\ names' = names - 1
  BY DEF List!PrintEntry, List!rest
<1>2. \/ printed' = Append(printed, Head(entries)) /\ cut' = cut
      \/ printed' = printed /\ cut' = TRUE
  BY DEF List!PrintEntry
<1>3. /\ entries \in Seq(List!EntryType) /\ printed \in Seq(List!EntryType) /\ asking.order \in List!OrderType
      /\ names = Len(entries) /\ Len(entries) <= room /\ asking.job = "list"
  BY <1>1, ListIs DEF List!ListInv, List!Typed, List!RoomIsKept, List!Stage, List!job
<1>4. OneEachBy(entries, printed, turned, cut)
  BY OneEachIs DEF List!ListInv
<1>5. /\ Tail(entries) \in Seq(List!EntryType) /\ Len(Tail(entries)) = Len(entries) - 1
      /\ Head(entries) \in List!EntryType
      /\ NamesOf(entries) = NamesOf(Tail(entries)) \cup {Head(entries).name}
      /\ Head(entries).name \notin NamesOf(Tail(entries)) /\ List!Distinct(Tail(entries))
  <2>1. List!Distinct(entries)
    BY <1>4 DEF OneEachBy
  <2> QED BY <1>1, <1>3, <2>1, FirstName
<1>6. /\ Append(printed, Head(entries)) \in Seq(List!EntryType)
      /\ NamesOf(Append(printed, Head(entries))) = NamesOf(printed) \cup {Head(entries).name}
      /\ List!Distinct(Append(printed, Head(entries)))
  <2>1. List!Distinct(printed) /\ Head(entries).name \notin NamesOf(printed)
    BY <1>4, <1>5 DEF OneEachBy
  <2> QED BY <1>3, <1>5, <2>1, AddedNames
<1>7. List!TypeOK'
  <2>1. cut \in BOOLEAN /\ listed \in {0, 200, 207, 500} /\ room \in Nat
    BY DEF List!ListInv, List!TypeOK
  <2>2. cut' \in BOOLEAN
    BY <1>2, <2>1
  <2>3. turned' \subseteq DOMAIN dir' /\ before' \subseteq DOMAIN dir'
    BY <1>1 DEF List!ListInv, List!TypeOK, List!Names
  <2>4. names' = Len(entries') /\ names' \in Nat
    BY <1>1, <1>3, <1>5
  <2> QED BY <1>1, <2>1, <2>2, <2>3, <2>4 DEF List!TypeOK, List!Names, List!job
<1>8. List!Typed'
  <2>1. asking \in Listings /\ List!IsTree(dir) /\ arrSize \in Nat \ {0}
    BY DEF List!ListInv, List!Typed
  <2>2. printed' \in Seq(List!EntryType)
    BY <1>2, <1>3, <1>6
  <2> QED BY <1>1, <1>5, <2>1, <2>2 DEF List!Typed
<1>9. List!RoomIsKept'
  <2>1. names' = Len(entries') /\ Len(entries') <= room' /\ (room' = 0 \/ room' = arrSize')
    <3>1. room = 0 \/ room = arrSize
      BY DEF List!ListInv, List!RoomIsKept
    <3>2. room \in Nat
      BY DEF List!ListInv, List!TypeOK
    <3> QED BY <1>1, <1>3, <1>5, <3>1, <3>2
  <2> QED BY <2>1 DEF List!RoomIsKept
<1>10. List!Stage'
  <2>1. listed # 500
    BY <1>1 DEF List!ListInv, List!Stage
  <2>2. ~cut' => before \subseteq turned
    BY <1>1, <1>2, <1>3, <2>1 DEF List!ListInv, List!Stage, List!job
  <2> QED BY <1>1, <1>3, <2>1, <2>2 DEF List!Stage, List!job
<1>11. List!OneEach'
  <2>1. CASE printed' = Append(printed, Head(entries)) /\ cut' = cut
    <3>1. OneEachBy(entries', printed', turned', cut')
      BY <1>1, <1>4, <1>5, <1>6, <2>1 DEF OneEachBy
    <3> QED BY <3>1, OneEachIs
  <2>2. CASE printed' = printed /\ cut' = TRUE
    <3>1. OneEachBy(entries', printed', turned', cut')
      BY <1>1, <1>4, <1>5, <2>2 DEF OneEachBy
    <3> QED BY <3>1, OneEachIs
  <2> QED BY <1>2, <2>1, <2>2
<1>12. List!Ordered'
  <2>1. AscendingBy(asking.order, printed) /\ AscendingBy(asking.order, entries)
        /\ AllBefore(asking.order, printed, entries)
    <3>1. OrderedBy(asking, listPc, printed, entries)
      BY OrderedIs DEF List!ListInv
    <3> QED BY <1>1, <1>3, <3>1 DEF OrderedBy
  <2>2. /\ AscendingBy(asking.order, Append(printed, Head(entries))) /\ AscendingBy(asking.order, Tail(entries))
        /\ AllBefore(asking.order, Append(printed, Head(entries)), Tail(entries))
        /\ AllBefore(asking.order, printed, Tail(entries))
    BY <1>1, <1>3, <2>1, PrintKeepsOrder
  <2>3. AscendingBy(asking.order, printed') /\ AscendingBy(asking.order, entries')
        /\ AllBefore(asking.order, printed', entries')
    BY <1>1, <1>2, <2>1, <2>2
  <2>4. OrderedBy(asking', listPc', printed', entries')
    BY <1>1, <2>3 DEF OrderedBy
  <2> QED BY <2>4, OrderedIs
<1> QED BY <1>7, <1>8, <1>9, <1>10, <1>11, <1>12 DEF List!ListInv

LEMMA EndKeepsList ==
  ASSUME List!ConstantsAreProper, List!ListInv, List!End
  PROVE  List!ListInv'
<1>1. /\ UNCHANGED <<asking, dir, before, turned, entries, arrSize, printed, names, cut, listed>>
      /\ listPc = "print" /\ listPc' = "done" /\ entries = <<>> /\ room' = 0
  BY DEF List!End, List!rest
<1>2. List!TypeOK'
  BY <1>1 DEF List!ListInv, List!TypeOK, List!job, List!Names
<1>3. List!Typed' /\ List!RoomIsKept' /\ List!Stage'
  BY <1>1 DEF List!ListInv, List!Typed, List!RoomIsKept, List!Stage, List!job
<1>4. List!OneEach'
  <2>1. OneEachBy(entries, printed, turned, cut)
    BY OneEachIs DEF List!ListInv
  <2>2. OneEachBy(entries', printed', turned', cut')
    BY <1>1, <2>1
  <2> QED BY <2>2, OneEachIs
<1>5. List!Ordered'
  <2>1. OrderedBy(asking, listPc, printed, entries)
    BY OrderedIs DEF List!ListInv
  <2>2. OrderedBy(asking', listPc', printed', entries')
    BY <1>1, <2>1 DEF OrderedBy
  <2> QED BY <2>2, OrderedIs
<1> QED BY <1>2, <1>3, <1>4, <1>5 DEF List!ListInv

LEMMA EditKeepsList ==
  ASSUME List!ConstantsAreProper, List!ListInv, NEW n \in List!Names, NEW k \in Kinds \cup {List!Gone},
         List!Edit(n, k)
  PROVE  List!ListInv'
<1>1. /\ UNCHANGED <<asking, listPc, turned, entries, room, arrSize, printed, names, cut, listed>>
      /\ listPc # "done" /\ dir' = [dir EXCEPT ![n] = k] /\ before' \subseteq before
  BY DEF List!Edit
<1>2. DOMAIN dir' = DOMAIN dir /\ List!IsTree(dir)'
  <2>1. k \in List!KindType
    BY KindIsGone DEF List!ConstantsAreProper
  <2>2. List!IsTree(dir)
    BY DEF List!ListInv, List!Typed
  <2> QED BY <1>1, <2>1, <2>2 DEF List!IsTree
<1>3. List!TypeOK'
  BY <1>1, <1>2 DEF List!ListInv, List!TypeOK, List!job, List!Names
<1>4. List!Typed' /\ List!RoomIsKept' /\ List!Stage'
  BY <1>1, <1>2 DEF List!ListInv, List!Typed, List!RoomIsKept, List!Stage, List!job
<1>5. List!OneEach'
  <2>1. OneEachBy(entries, printed, turned, cut)
    BY OneEachIs DEF List!ListInv
  <2>2. OneEachBy(entries', printed', turned', cut')
    BY <1>1, <2>1
  <2> QED BY <2>2, OneEachIs
<1>6. List!Ordered'
  <2>1. OrderedBy(asking, listPc, printed, entries)
    BY OrderedIs DEF List!ListInv
  <2>2. OrderedBy(asking', listPc', printed', entries')
    BY <1>1, <2>1
  <2> QED BY <2>2, OrderedIs
<1> QED BY <1>3, <1>4, <1>5, <1>6 DEF List!ListInv

LEMMA StutterKeepsList ==
  ASSUME List!ListInv, UNCHANGED List!vars
  PROVE  List!ListInv'
<1>1. UNCHANGED <<asking, dir, listPc, before, turned, entries, room, arrSize, printed, names, cut, listed>>
  BY DEF List!vars
<1>2. List!TypeOK' /\ List!Typed' /\ List!RoomIsKept' /\ List!Stage'
  BY <1>1 DEF List!ListInv, List!TypeOK, List!Typed, List!RoomIsKept, List!Stage, List!job, List!Names
<1>3. List!OneEach' /\ List!Ordered'
  <2>1. OneEachBy(entries, printed, turned, cut) /\ OrderedBy(asking, listPc, printed, entries)
    BY OneEachIs, OrderedIs DEF List!ListInv
  <2>2. OneEachBy(entries', printed', turned', cut') /\ OrderedBy(asking', listPc', printed', entries')
    BY <1>1, <2>1
  <2> QED BY <2>2, OneEachIs, OrderedIs
<1> QED BY <1>2, <1>3 DEF List!ListInv

LEMMA ListSteps ==
  ASSUME List!ConstantsAreProper, List!ListInv, List!Next
  PROVE  List!ListInv'
BY OpenKeepsList, SkipKeepsList, AddEntryKeepsList, PrintPropsKeepsList, EndScanKeepsList, SortKeepsList,
   PrintEntryKeepsList, EndKeepsList, EditKeepsList DEF List!Next, List!Serving


(* As many names are printed as there are elements. *)
LEMMA ShownIsCounted ==
  ASSUME NEW s \in Seq(List!EntryType), List!Distinct(s)
  PROVE  Cardinality(NamesOf(s)) = Len(s)
<1> DEFINE n == Len(s)
           f == [i \in 1 .. n |-> s[i].name]
<1>1. n \in Nat /\ DOMAIN s = 1 .. n
  OBVIOUS
<1>2. IsFiniteSet(1 .. n) /\ Cardinality(1 .. n) = n
  BY <1>1, FS_Interval
<1> HIDE DEF n
<1>3. f \in [1 .. n -> NamesOf(s)]
  BY <1>1 DEF NamesOf
<1>4. \A i, j \in 1 .. n : f[i] = f[j] => i = j
  BY <1>1 DEF List!Distinct
<1>5. \A x \in NamesOf(s) : \E i \in 1 .. n : f[i] = x
  BY <1>1 DEF NamesOf
<1>6. f \in Surjection(1 .. n, NamesOf(s)) /\ f \in Injection(1 .. n, NamesOf(s))
  BY <1>3, <1>4, <1>5 DEF Surjection, Injection, IsInjective
<1> HIDE DEF f
<1>7. Cardinality(NamesOf(s)) = Cardinality(1 .. n)
  BY <1>2, <1>6, FS_Surjection
<1> QED BY <1>2, <1>7 DEF n

(* In turn, and not of the same name: before, as the listing promises. *)
LEMMA TurnIsLess ==
  ASSUME NEW o \in List!OrderType, NEW a \in List!EntryType, NEW b \in List!EntryType,
         InTurnBy(o, a, b), a.name # b.name
  PROVE  LET less(x, y) ==
               \/ o.by = "s" /\ (x.size < y.size \/ (x.size = y.size /\ x.name < y.name))
               \/ o.by = "d" /\ (x.mtime < y.mtime \/ (x.mtime = y.mtime /\ x.name < y.name))
               \/ o.by = "n" /\ x.name < y.name
         IN  /\ b.dir => a.dir
             /\ a.dir = b.dir => IF o.down THEN less(b, a) ELSE less(a, b)
<1>1. /\ o.by \in {"n", "s", "d"} /\ o.down \in BOOLEAN
      /\ a.dir \in BOOLEAN /\ b.dir \in BOOLEAN /\ a.name \in Int /\ b.name \in Int
      /\ a.size \in Int /\ b.size \in Int /\ a.mtime \in Int /\ b.mtime \in Int
  BY DEF List!OrderType, List!EntryType
<1> DEFINE key(e) == IF o.by = "s" THEN e.size ELSE IF o.by = "d" THEN e.mtime ELSE 0
           up == IF key(a) # key(b) THEN key(a) - key(b) ELSE a.name - b.name
<1>2. (IF a.dir # b.dir THEN (IF a.dir THEN -1 ELSE 1) ELSE IF o.down THEN -up ELSE up) <= 0
  BY DEF InTurnBy
<1>3. b.dir => a.dir
  <2> SUFFICES ASSUME b.dir, ~a.dir PROVE FALSE
    OBVIOUS
  <2>1. a.dir # b.dir
    OBVIOUS
  <2>2. (IF a.dir THEN -1 ELSE 1) <= 0
    BY <1>2, <2>1
  <2> QED BY <2>2
<1>4. ASSUME a.dir = b.dir PROVE IF o.down THEN up > 0 ELSE up < 0
  <2>1. up \in Int /\ up # 0
    BY <1>1
  <2>2. (IF o.down THEN -up ELSE up) <= 0
    BY <1>2, <1>4
  <2> HIDE DEF up
  <2> QED BY <2>1, <2>2
<1> QED BY <1>1, <1>3, <1>4

LEMMA ListPromises ==
  ASSUME List!ConstantsAreProper, List!ListInv
  PROVE  List!TypeOK /\ List!InBounds /\ List!ShownOnce /\ List!InOrder /\ List!NamesFreed
<1>1. /\ OneEachBy(entries, printed, turned, cut) /\ OrderedBy(asking, listPc, printed, entries)
      /\ printed \in Seq(List!EntryType) /\ asking.order \in List!OrderType
  BY OneEachIs, OrderedIs, ListIs DEF List!ListInv, List!Typed
<1>2. List!Shown = NamesOf(printed)
  BY DEF List!Shown, NamesOf
<1>3. List!InBounds
  BY DEF List!ListInv, List!RoomIsKept, List!InBounds
<1>4. List!NamesFreed
  BY DEF List!ListInv, List!RoomIsKept, List!Stage, List!NamesFreed, List!Done
<1>5. List!ShownOnce
  <2>1. Cardinality(NamesOf(printed)) = Len(printed)
    BY <1>1, ShownIsCounted DEF OneEachBy
  <2>2. NamesOf(printed) \cap Hidden = {}
    BY <1>1 DEF OneEachBy
  <2>3. ASSUME List!Done, listed \in {200, 207}, List!job # "depth0", ~cut
        PROVE  before \ Hidden \subseteq NamesOf(printed)
    <3>1. before \subseteq turned /\ entries = <<>>
      BY <2>3 DEF List!ListInv, List!Stage, List!Done
    <3>2. NamesOf(entries) = {}
      BY <3>1 DEF NamesOf
    <3> QED BY <1>1, <2>3, <3>1, <3>2 DEF OneEachBy
  <2>4. List!Shown \cap Hidden = {} /\ List!Cardinality(List!Shown) = Len(printed)
    <3>1. \A S : List!Cardinality(S) = Cardinality(S)
      BY DEF List!Cardinality, Cardinality
    <3> QED BY <1>2, <2>1, <2>2, <3>1
  <2>5. (List!Done /\ listed \in {200, 207} /\ List!job # "depth0" /\ ~cut) => before \ Hidden \subseteq List!Shown
    BY <1>2, <2>3
  <2> HIDE DEF List!Shown
  <2> QED BY <2>4, <2>5 DEF List!ShownOnce
<1>6. List!InOrder
  <2> SUFFICES ASSUME List!Done, List!job = "list", NEW i \in DOMAIN printed, NEW j \in DOMAIN printed, i < j
               PROVE  LET a == printed[i] b == printed[j]
                          less(x, y) ==
                            \/ List!order.by = "s" /\ (x.size < y.size \/ (x.size = y.size /\ x.name < y.name))
                            \/ List!order.by = "d" /\ (x.mtime < y.mtime \/ (x.mtime = y.mtime /\ x.name < y.name))
                            \/ List!order.by = "n" /\ x.name < y.name
                      IN /\ b.dir => a.dir
                         /\ a.dir = b.dir => IF List!order.down THEN less(b, a) ELSE less(a, b)
    BY DEF List!InOrder
  <2>1. AscendingBy(asking.order, printed)
    BY <1>1 DEF OrderedBy, List!Done, List!job
  <2>2. InTurnBy(asking.order, printed[i], printed[j])
    BY <2>1 DEF AscendingBy
  <2>3. printed[i] \in List!EntryType /\ printed[j] \in List!EntryType /\ i # j
    BY <1>1
  <2>4. printed[i].name # printed[j].name
    BY <1>1, <2>3 DEF OneEachBy, List!Distinct
  <2> QED BY <1>1, <2>2, <2>3, <2>4, TurnIsLess DEF List!order
<1> QED BY <1>3, <1>4, <1>5, <1>6 DEF List!ListInv

\* A listing, and an answer to PROPFIND, shows once what was there all the time and
\* nothing that is hidden; a listing is in the order asked for; no entry is written behind
\* the array, and no name is lost, whichever allocation fails (dir_scan_callback(),
\* handle_directory_request(), mg_sort(), handle_propfind()).
THEOREM ListingsAreWhole == FilesSpec => []ListingIsWhole
<1>1. FilesInit => List!ListInv
  BY ListingsAssumption, ListStarts DEF FilesInit
<1>2. List!ListInv /\ [FilesNext]_all => List!ListInv'
  <2> SUFFICES ASSUME List!ListInv, [FilesNext]_all PROVE List!ListInv'
    OBVIOUS
  <2>1. CASE OfList(List!Next)
    BY <2>1, ListingsAssumption, ListSteps DEF OfList
  <2>2. CASE UNCHANGED listVars
    <3>1. UNCHANGED List!vars
      BY <2>2 DEF listVars, List!vars
    <3> QED BY <3>1, StutterKeepsList
  <2>3. CASE UNCHANGED all
    BY <2>2, <2>3 DEF all
  <2> QED BY <2>1, <2>2, <2>3 DEF FilesNext, OfLocks, OfStore, OfSend
<1>3. List!ListInv => ListingIsWhole
  BY ListingsAssumption, ListPromises DEF ListingIsWhole
<1> QED BY <1>1, <1>2, <1>3, PTL DEF FilesSpec

-----------------------------------------------------------------------------
(* Side by side: what holds in each component holds of them all.           *)

LEMMA SlotsSteps ==
  ASSUME SlotsInv, [Next]_vars
  PROVE  SlotsInv'
BY LockKeepsSlots, ReplyKeepsSlots, UnlockKeepsSlots, BeginKeepsSlots, TickKeepsSlots DEF Next

LEMMA StepsOfLocks ==
  ASSUME [FilesNext]_all
  PROVE  [Next]_vars
BY DEF FilesNext, OfLocks, OfStore, OfSend, OfList, all, lockVars

LEMMA StepsOfStore ==
  ASSUME [FilesNext]_all
  PROVE  [Store!Next]_Store!vars
<1>1. CASE OfStore(Store!Next)
  BY <1>1 DEF OfStore
<1>2. CASE UNCHANGED storeVars
  BY <1>2 DEF storeVars, Store!vars, Store!locals
<1> QED BY <1>1, <1>2 DEF FilesNext, OfLocks, OfStore, OfSend, OfList, all

LEMMA SlotsAlways == FilesSpec => []SlotsInv
<1>1. FilesInit => SlotsInv
  BY SlotsStart DEF FilesInit
<1>2. SlotsInv /\ [FilesNext]_all => SlotsInv'
  BY StepsOfLocks, SlotsSteps
<1> QED BY <1>1, <1>2, PTL DEF FilesSpec

LEMMA StoreAlways == FilesSpec => []Store!StoreInv
<1>1. FilesInit => Store!StoreInv
  BY StoreAssumption, StoreStarts DEF FilesInit
<1>2. Store!StoreInv /\ [FilesNext]_all => Store!StoreInv'
  BY StepsOfStore, StoreSteps, StoreAssumption
<1> QED BY <1>1, <1>2, PTL DEF FilesSpec

\* Whoever is told that a lock is granted is told a token of his own; who is told that a
\* PUT worked has stored and flushed what was read of his body, all of it unless mg_read()
\* returned 0 before its end; who is refused has changed nothing, but for the destination
\* that a MOVE or COPY was to overwrite; nobody changed what he did not name; and every way
\* out closes the file (dav_lock_file(), put_file(), delete_file(), dav_mkcol(),
\* dav_move_file()).
THEOREM AnswersHold == FilesSpec => []AnswersAreTrue
<1>1. SlotsInv => TypeOK /\ AnswerIsOwn
  BY DEF SlotsInv
<1>2. SlotsInv /\ Store!StoreInv => AnswersAreTrue
  BY <1>1, StorePromises DEF AnswersAreTrue
<1> QED BY <1>2, SlotsAlways, StoreAlways, PTL

\* A lock changes hands when it expired, or when there is no room; no step of a MOVE loses
\* the file, but the removal of the destination when that is the file itself; a file that
\* may not be written is never written, and loses its name only to those who do not ask, or
\* asked about another file: for any workers, on any tree (dav_lock_file(),
\* dav_move_file(), delete_file(), put_file()).
THEOREM SafeChanges == FilesSpec => ChangesAreSafe
<1>1. SlotsInv /\ [FilesNext]_all
        => [\A i \in Index : (path[i] # Free /\ path'[i] # path[i])
             => (clock > locktime[i] + Duration \/ (\A j \in Index : path[j] # Free))]_vars
  BY StepsOfLocks, TakeOver
<1>2. Store!StoreInv /\ [FilesNext]_all
        => [\A w \in Runners : Store!KeepsMoved(w)]_storeVars
  BY StepsOfStore, MovedIsKept, StoreAssumption
<1>3. Store!StoreInv /\ [FilesNext]_all => [Store!KeepsProtected]_storeVars
  BY StepsOfStore, ProtectedIsKept, StoreAssumption
<1> QED BY <1>1, <1>2, <1>3, SlotsAlways, StoreAlways, PTL DEF FilesSpec, ChangesAreSafe,
           TakenOverWhenExpired
=============================================================================
