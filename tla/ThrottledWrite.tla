--------------------------- MODULE ThrottledWrite ---------------------------
(***************************************************************************)
(* mg_write() of civetweb.c, from the quota of a throttled connection down *)
(* to send(), and mg_send_chunk(), which is three writes.  One worker      *)
(* writes, on one connection that carries several requests, while the      *)
(* clock advances, the client goes away and mg_stop() sets stop_flag.      *)
(***************************************************************************)
EXTENDS Integers, Sequences

CONSTANTS
  Throttles,   \* what set_throttle() may find for a request, 0: no limit
  Jobs,        \* what handlers write, each a sequence of lengths: one for mg_write(), three for mg_send_chunk()
  MaxJobs      \* bound: calls of the handlers

VARIABLES
  throttle,    \* conn->throttle
  counted,     \* conn->last_throttle_time is this second
  lastBytes,   \* conn->last_throttle_bytes
  open,        \* the client is there
  stop,        \* ctx->stop_flag
  pc,
  asked,       \* the lengths of the call
  job,         \* lengths still to be written, the one being written first
  total,       \* total of mg_write()
  allowed,     \* allowed of mg_write(), the len push_all() was called with
  nwritten,    \* nwritten of push_all()
  result,      \* what the last call returned
  out, wire,   \* bytes the socket took in this mg_write(), in this call
  sentNow,     \* bytes the socket took in this second
  jobs         \* calls so far

\* What handlers can write.
Writable == {s \in Seq(Nat) : Len(s) \in {1, 3}}
ConstantsAreProper == Throttles \subseteq Nat /\ Jobs \subseteq Writable /\ MaxJobs \in Nat

quota == <<throttle, counted, lastBytes>>
call  == <<asked, job, total, allowed, nwritten>>
seen  == <<out, wire, sentNow>>
env   == <<open, stop>>
vars  == <<quota, call, seen, env, pc, result, jobs>>

Init ==
  /\ throttle \in Throttles /\ counted = FALSE /\ lastBytes = 0
  /\ open = TRUE /\ stop = FALSE
  /\ pc = "idle" /\ asked = <<>> /\ job = <<>> /\ total = 0 /\ allowed = 0 /\ nwritten = 0
  /\ result = 0 /\ out = 0 /\ wire = 0 /\ sentNow = 0 /\ jobs = 0

Least(a, b) == IF a < b THEN a ELSE b
Part(s, i) == IF i <= Len(s) THEN s[i] ELSE 0
Total(s) == Part(s, 1) + Part(s, 2) + Part(s, 3)
Chunk == Len(asked) > 1

-----------------------------------------------------------------------------
\* reset_per_request_attributes() forgets the quota, set_throttle() finds another
\* one, and what was sent in this second is remembered.
NextRequest(t) ==
  /\ pc = "idle" /\ t # throttle
  /\ throttle' = t
  /\ UNCHANGED <<counted, lastBytes, call, seen, env, pc, result, jobs>>

Call(j) ==
  /\ pc = "idle" /\ jobs < MaxJobs
  /\ jobs' = jobs + 1 /\ job' = j /\ pc' = "write" /\ asked' = j /\ wire' = 0 /\ out' = 0
  /\ UNCHANGED <<quota, total, allowed, nwritten, sentNow, env, result>>

\* mg_write() reads the clock and computes what it may send at once.
Write ==
  LET used == IF counted THEN lastBytes ELSE 0
  IN /\ pc = "write"
     /\ out' = 0 /\ total' = 0 /\ nwritten' = 0 /\ pc' = "first"
     /\ IF throttle > 0
        THEN counted' = TRUE /\ lastBytes' = used /\ allowed' = Least(throttle - used, Head(job))
        ELSE allowed' = Head(job) /\ UNCHANGED <<counted, lastBytes>>
     /\ UNCHANGED <<throttle, asked, job, wire, sentNow, env, result, jobs>>

Pushing == pc \in {"first", "again"}
Cut == IF nwritten = 0 THEN -1 ELSE nwritten

\* (mutant) what a send() cut by a stop took is counted as what was asked for
SendAll(n) ==
  /\ Pushing /\ ~stop /\ open /\ n <= allowed - nwritten
  /\ out' = out + n /\ wire' = wire + n /\ sentNow' = sentNow + n
  /\ nwritten' = allowed
  /\ UNCHANGED <<quota, asked, job, total, allowed, stop, pc, open, result, jobs>>

\* One send() of push_inner(): the socket takes n bytes, which are not counted if
\* stop_flag is set by then.
Send(n) ==
  /\ Pushing /\ ~stop /\ open /\ n <= allowed - nwritten
  /\ out' = out + n /\ wire' = wire + n /\ sentNow' = sentNow + n
  /\ \/ nwritten' = nwritten + n /\ UNCHANGED <<stop, pc>>
     \/ stop' = TRUE /\ nwritten' = Cut /\ pc' = IF pc = "first" THEN "firstDone" ELSE "againDone"
  /\ UNCHANGED <<quota, asked, job, total, allowed, open, result, jobs>>

\* push_all() ends: everything went out, or the socket failed, or nothing fits in it
\* for request_timeout_ms, or stop_flag is set.
PushEnds ==
  /\ Pushing
  /\ \/ (nwritten >= allowed \/ stop) /\ UNCHANGED <<nwritten, open>>
     \/ nwritten < allowed /\ stop /\ nwritten' = Cut /\ UNCHANGED open
     \/ nwritten < allowed /\ ~stop /\ nwritten' = Cut /\ open' = FALSE
  /\ pc' = IF pc = "first" THEN "firstDone" ELSE "againDone"
  /\ UNCHANGED <<quota, asked, job, total, allowed, seen, stop, result, jobs>>

\* The head of the loop in mg_write(), with t bytes written.
Turn(t) ==
  /\ total' = t
  /\ IF t < Head(job) /\ ~stop
     THEN /\ allowed' = Least(throttle, Head(job) - t) /\ nwritten' = 0 /\ pc' = "again"
          /\ UNCHANGED result
     ELSE pc' = "returned" /\ result' = t /\ UNCHANGED <<allowed, nwritten>>
Returns(r) == pc' = "returned" /\ result' = r /\ UNCHANGED <<total, allowed, nwritten>>

FirstDone ==
  /\ pc = "firstDone"
  /\ IF throttle = 0 \/ nwritten # allowed
     THEN Returns(nwritten) /\ UNCHANGED lastBytes
     ELSE lastBytes' = lastBytes + nwritten /\ Turn(nwritten)
  /\ UNCHANGED <<throttle, counted, asked, job, seen, env, jobs>>

\* A turn cut short ends mg_write(), which does not report what that turn had sent;
\* after a whole one the loop sleeps for a second, and charges the turn to the next.
AgainDone ==
  /\ pc = "againDone"
  /\ IF nwritten # allowed THEN Returns(total) /\ UNCHANGED <<quota, sentNow>>
     ELSE /\ counted' = TRUE /\ lastBytes' = allowed /\ sentNow' = 0 /\ UNCHANGED throttle
          /\ Turn(total + nwritten)
  /\ UNCHANGED <<asked, job, out, wire, env, jobs>>

\* mg_send_chunk() goes on after a whole write only, and answers -1 otherwise.
Returned ==
  /\ pc = "returned"
  /\ IF result = Head(job) /\ Len(job) > 1 THEN job' = Tail(job) /\ pc' = "write" /\ UNCHANGED result
     ELSE /\ pc' = "idle" /\ UNCHANGED job
          /\ result' = IF ~Chunk THEN result ELSE IF result = Head(job) THEN Total(asked) ELSE -1
  /\ UNCHANGED <<quota, asked, total, allowed, nwritten, seen, env, jobs>>

\* The clock ticks, the client goes away, and mg_stop() runs, at any time.
Tick  == (counted \/ sentNow > 0) /\ counted' = FALSE /\ sentNow' = 0
         /\ UNCHANGED <<throttle, lastBytes, call, out, wire, env, pc, result, jobs>>
Leave == open /\ open' = FALSE /\ UNCHANGED <<quota, call, seen, stop, pc, result, jobs>>
Stop  == ~stop /\ stop' = TRUE /\ UNCHANGED <<quota, call, seen, open, pc, result, jobs>>

\* a step of the worker
Work ==
  \/ Write \/ PushEnds \/ FirstDone \/ AgainDone \/ Returned
  \/ \E n \in 1 .. allowed : Send(n)

Next ==
  \/ \E t \in Throttles : NextRequest(t)
  \/ \E j \in Jobs : Call(j)
  \/ Work \/ Tick \/ Leave \/ Stop

\* The operating system runs the worker, and push_inner() waits for at most
\* request_timeout_ms.
Spec == Init /\ [][Next]_vars /\ WF_vars(Work)

-----------------------------------------------------------------------------
Ranges ==
  /\ counted \in BOOLEAN /\ lastBytes \in Nat /\ open \in BOOLEAN /\ stop \in BOOLEAN
  /\ pc \in {"idle", "write", "first", "again", "firstDone", "againDone", "returned"}
  /\ asked \in Seq(Nat) /\ job \in Seq(Nat)
  /\ total \in Nat /\ allowed \in Int /\ nwritten \in Nat \cup {-1} /\ result \in Nat \cup {-1}
  /\ out \in 0 .. wire /\ wire \in 0 .. Total(asked) /\ sentNow \in Nat
TypeOK == throttle \in Throttles /\ jobs \in 0 .. MaxJobs /\ Ranges

\* A result never promises more than went out: what a handler is told was sent has
\* left, whatever failed in which turn (mg_write(), push_all(), push_inner()).
ReportsAtMostWhatWent == (pc = "returned" => result <= out) /\ (pc = "idle" => result <= wire)

\* A write is whole, and says so, unless the client has gone or the server stops:
\* neither the quota nor a full socket buffer cuts a response (with one quota).
WholeUnlessBroken == (pc = "idle" /\ result # Total(asked)) => (~open \/ stop)

\* The parts of a chunk: one begins only when those before it went out whole, so
\* that what is on the wire can be parsed (mg_send_chunk()).
PartsInOrder == pc = "write" => wire = Total(asked) - Total(job)

\* No second sees more than three quotas: one that an earlier second had granted,
\* one of a first part, one of a first turn of the loop.
NearThrottle == \A t \in Throttles : Throttles = {t} => sentNow <= 3 * t

-----------------------------------------------------------------------------
(* The inductive invariants.                                               *)

Broken == ~open \/ stop
InFirst == pc \in {"first", "firstDone"}
Before == IF InFirst THEN 0 ELSE total

\* Of a call: what is on the wire is the parts before this one, and what this one
\* has sent; each push sends what it is allowed or finds the connection broken.
Parts ==
  pc # "idle" =>
    /\ Len(job) \in 1..3 /\ Len(asked) \in 1..3 /\ (~Chunk => job = asked)
    /\ wire = Total(asked) - Total(job) + (IF pc = "write" THEN 0 ELSE out)
Pushed ==
  pc \in {"first", "again", "firstDone", "againDone"} =>
    /\ allowed >= 0 /\ Before + allowed <= Head(job)
    /\ nwritten <= allowed /\ out \in Before..(Before + allowed) /\ Before + nwritten <= out
    /\ IF Pushing THEN nwritten >= 0 /\ out = Before + nwritten ELSE nwritten # allowed => Broken
Reported ==
  /\ pc = "returned" => result <= out /\ out <= Head(job) /\ (result # Head(job) => Broken)
  /\ pc = "idle" => result <= wire /\ wire <= Total(asked) /\ (result # Total(asked) => Broken)

\* Of the quota: the first part of a second is what the quota has left.
Charged ==
  /\ InFirst => IF throttle = 0 THEN allowed = Head(job) ELSE lastBytes + allowed <= throttle
  /\ pc \in {"again", "againDone"} => throttle > 0 /\ allowed <= throttle
  /\ \A t \in Throttles \ {0} : lastBytes <= t

WriteInv == throttle \in Throttles /\ Ranges /\ Parts /\ Pushed /\ Reported /\ Charged

\* What a second has seen while the connection is whole, with a quota of q: what is
\* charged to it, and what an earlier second was granted.
Seen(q) ==
  CASE pc \in {"idle", "write", "returned"} -> q + (IF counted THEN lastBytes ELSE 0)
    [] InFirst -> nwritten + (IF counted THEN q + lastBytes ELSE 0)
    [] pc = "again" -> 2 * q + nwritten
    [] pc = "againDone" -> 3 * q
RateInv(q) == sentNow <= 3 * q /\ (~Broken => sentNow <= Seen(q))

=============================================================================
