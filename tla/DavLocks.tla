------------------------------ MODULE DavLocks ------------------------------
(***************************************************************************)
(* The table of WebDAV locks: dav_lock_file() and dav_unlock_file() of     *)
(* civetweb.c, run by several workers.  The table is searched and changed  *)
(* under the mutex of the context; the answer to LOCK reads the slot after *)
(* the mutex was released.                                                 *)
(***************************************************************************)
EXTENDS Integers, FiniteSets

CONSTANTS
  Workers, Users, Paths,
  Slots,       \* NUM_WEBDAV_LOCKS
  Duration,    \* LOCK_DURATION_S
  MaxClock,    \* bound: time
  MaxRequests, \* bound: requests
  Free,        \* the empty path
  NoUser

ASSUME SlotsAssumption    == Slots \in Nat \ {0}
ASSUME DurationAssumption == Duration \in Nat
ASSUME BoundsAssumption   == MaxClock \in Nat /\ MaxRequests \in Nat
ASSUME FreeAssumption     == Free \notin Paths
ASSUME WorkersAssumption  == IsFiniteSet(Workers)

VARIABLES
  clock,
  path, user, locktime,   \* dav_lock[i]: the token is made from all three
  token,                  \* dav_lock[i].token: [path, user, time]
  pc, request,            \* of each worker: what it serves, [user, path, op]
  slot,                   \* its lock_index
  answer,                 \* [status, token, user] it sent last
  begun                   \* requests so far

table  == <<path, user, locktime, token>>
worker == <<pc, request, slot, answer, begun>>
vars   == <<clock, table, worker>>

Index    == 1 .. Slots
Requests == [user : Users, path : Paths, op : {"lock", "unlock"}]
NoToken  == [path |-> Free, user |-> NoUser, time |-> 0]
Silence  == [status |-> 0, token |-> NoToken, user |-> NoUser]

Init ==
  /\ clock = 0 /\ begun = 0
  /\ path = [i \in Index |-> Free] /\ user = [i \in Index |-> NoUser]
  /\ locktime = [i \in Index |-> 0] /\ token = [i \in Index |-> NoToken]
  /\ pc = [w \in Workers |-> "idle"] /\ slot = [w \in Workers |-> 0]
  /\ request \in [Workers -> Requests] /\ answer = [w \in Workers |-> Silence]

Begin(w, r) ==
  /\ pc[w] = "idle" /\ begun < MaxRequests /\ begun' = begun + 1
  /\ pc' = [pc EXCEPT ![w] = r.op] /\ request' = [request EXCEPT ![w] = r]
  /\ answer' = [answer EXCEPT ![w] = Silence]
  /\ UNCHANGED <<clock, table, slot>>

Ends(w, status, t, u) ==
  /\ pc' = [pc EXCEPT ![w] = "idle"]
  /\ answer' = [answer EXCEPT ![w] = [status |-> status, token |-> t, user |-> u]]

-----------------------------------------------------------------------------
\* The search for the path goes on behind locks that expired and ends at one of the
\* user's own, or at one of somebody else that is valid.
Own(w)     == {i \in Index : path[i] = request[w].path /\ user[i] = request[w].user}
Others(w)  == {i \in Index : path[i] = request[w].path /\ user[i] # request[w].user}

Expired(i) == clock > locktime[i] + Duration
First(S)   == CHOOSE i \in S : \A j \in S : i <= j
Before(w)  == IF Own(w) = {} THEN Others(w) ELSE {i \in Others(w) : i < First(Own(w))}
Taken(w)   == \E i \in Before(w) : ~Expired(i)
\* (mutant) the search ends at the first slot of the path
ClearedFirst(w) == {i \in Before(w) : Expired(i) /\ \A j \in Before(w) : i <= j}
Cleared(w) == {i \in Before(w) : Expired(i) /\ \A j \in Before(w) : j < i => Expired(j)}

Oldest == CHOOSE i \in Index :
            /\ \A j \in Index : locktime[i] <= locktime[j]
            /\ \A j \in Index : j < i => locktime[i] < locktime[j]

\* The critical section of dav_lock_file().  A lock of the user's own is renewed, and a
\* slot is used for the path nevertheless; with no slot left and none of the user's own,
\* the oldest lock is dropped, and its slot is what the answer is read from.
Lock(w) ==
  LET cleared == [i \in Index |-> IF i \in Cleared(w) THEN Free ELSE path[i]]
      renewed == [i \in Index |-> IF Own(w) # {} /\ i = First(Own(w)) THEN clock ELSE locktime[i]]
      free    == {i \in Index : cleared[i] = Free}
      r       == request[w]
  IN /\ pc[w] = "lock"
     /\ IF Taken(w)
        THEN /\ path' = cleared /\ UNCHANGED <<user, locktime, token, slot>>
             /\ Ends(w, 423, NoToken, NoUser)
        ELSE /\ pc' = [pc EXCEPT ![w] = "reply"] /\ UNCHANGED answer
             /\ IF free # {}
                THEN LET i == First(free)
                     IN /\ path'     = [cleared EXCEPT ![i] = r.path]
                        /\ user'     = [user EXCEPT ![i] = r.user]
                        /\ locktime' = [renewed EXCEPT ![i] = clock]
                        /\ token'    = [token EXCEPT ![i] = [path |-> r.path, user |-> r.user, time |-> clock]]
                        /\ slot'     = [slot EXCEPT ![w] = i]
                ELSE /\ locktime' = renewed /\ UNCHANGED <<user, token>>
                     /\ IF Own(w) # {}
                        THEN slot' = [slot EXCEPT ![w] = First(Own(w))] /\ path' = cleared
                        ELSE slot' = [slot EXCEPT ![w] = Oldest] /\ path' = [cleared EXCEPT ![Oldest] = Free]
     /\ UNCHANGED <<clock, request, begun>>

\* The answer of dav_lock_file(), without the mutex.
Reply(w) ==
  /\ pc[w] = "reply"
  /\ Ends(w, 200, token[slot[w]], user[slot[w]])
  /\ UNCHANGED <<clock, table, request, slot, begun>>

\* dav_unlock_file(): the lock is looked for, whoever holds it, and left as it is.
Unlock(w) ==
  /\ pc[w] = "unlock"
  /\ Ends(w, IF \E i \in Index : path[i] = request[w].path THEN 204 ELSE 423, NoToken, NoUser)
  /\ UNCHANGED <<clock, table, request, slot, begun>>

Tick == clock < MaxClock /\ clock' = clock + 1 /\ UNCHANGED <<table, worker>>

Next ==
  \/ \E w \in Workers : Lock(w) \/ Reply(w) \/ Unlock(w) \/ \E r \in Requests : Begin(w, r)
  \/ Tick

Spec == Init /\ [][Next]_vars

-----------------------------------------------------------------------------
Tokens == [path : Paths \cup {Free}, user : Users \cup {NoUser}, time : Nat]

TypeOK ==
  /\ clock \in Nat /\ begun \in Nat
  /\ path \in [Index -> Paths \cup {Free}] /\ user \in [Index -> Users \cup {NoUser}]
  /\ locktime \in [Index -> Nat] /\ token \in [Index -> Tokens]
  /\ pc \in [Workers -> {"idle", "lock", "unlock", "reply"}] /\ request \in [Workers -> Requests]
  /\ slot \in [Workers -> 0 .. Slots]
  /\ answer \in [Workers -> [status : {0, 200, 204, 423}, token : Tokens, user : Users \cup {NoUser}]]

\* A path is never locked by two users: whatever expired, was renewed, or was dropped to
\* make room, and although a renewal leaves a second slot for the path (dav_lock_file()).
OneHolder == \A i, j \in Index : (path[i] = path[j] /\ path[i] # Free) => user[i] = user[j]

\* A lock that has not expired is given up only for want of room: a slot changes its path
\* when its time is over, or when every slot is taken, and LOCK drops the oldest.
TakenOverWhenExpired ==
  [][\A i \in Index : (path[i] # Free /\ path'[i] # path[i])
        => (clock > locktime[i] + Duration \/ (\A j \in Index : path[j] # Free))]_vars

\* Whoever is told 200 is told a token of his own, although the slot is read when others
\* may change it: as long as every LOCK so far can have had a slot, and none expired.
AnswerIsOwn ==
  (begun <= Slots /\ clock <= Duration) =>
    \A w \in Workers : answer[w].status = 200
      => (answer[w].user = request[w].user /\ answer[w].token.path = request[w].path)

-----------------------------------------------------------------------------
(* Why: as long as every LOCK can have a slot, and none expired, each that *)
(* is still to search will find one free, and none takes that of another.  *)

Used    == {i \in Index : path[i] # Free}
Locking == {w \in Workers : pc[w] = "lock"}
\* The slot of a worker that is about to answer holds what he asked for.
SlotIsOwn(w) ==
  pc[w] = "reply" =>
    /\ slot[w] \in Used
    /\ user[slot[w]] = request[w].user /\ token[slot[w]].path = request[w].path

SlotsInv ==
  /\ TypeOK /\ AnswerIsOwn
  /\ \A w \in Workers : pc[w] = "reply" => slot[w] \in Index
  /\ (begun <= Slots /\ clock <= Duration) =>
       /\ Cardinality(Used) + Cardinality(Locking) <= begun
       /\ \A w \in Workers : SlotIsOwn(w)

=============================================================================
