----------------------------- MODULE OutputProofs -----------------------------
(***************************************************************************)
(* Proofs about what a connection sends: mg_write() and mg_send_chunk(),   *)
(* for a quota that is or is not set, and any lengths; and responses, for  *)
(* any answers, any callback for errors and any number of headers.         *)
(***************************************************************************)
EXTENDS MCOutput, FiniteSetTheorems, WellFoundedInduction, TLAPS

-----------------------------------------------------------------------------
(* Induction, by the least number that something is not so for.            *)

LEMMA LeastIs ==
  ASSUME NEW S \in SUBSET Nat, S # {}
  PROVE  \E i \in S : \A j \in S : i <= j
<1> DEFINE R == OpToRel(<, Nat)
<1>1. IsWellFoundedOn(R, Nat)
  BY NatLessThanWellFounded
<1>2. \A x, y \in Nat : (<<x, y>> \in R) <=> (x < y)
  BY DEF OpToRel
<1> HIDE DEF R
<1>3. PICK i \in S : \A j \in S : ~ (<<j, i>> \in R)
  BY <1>1, WFMin
<1>4. \A j \in S : i <= j
  <2> TAKE j \in S
  <2>1. i \in Nat /\ j \in Nat /\ ~(j < i)
    BY <1>2, <1>3
  <2> QED BY <2>1
<1> QED BY <1>4

\* What holds of 0, and of the next number with each, holds of all: as sets of numbers.
LEMMA Induction ==
  ASSUME NEW T, 0 \in T, \A k \in Nat : k \in T => k + 1 \in T
  PROVE  Nat \subseteq T
<1> SUFFICES ASSUME Nat \ T # {} PROVE FALSE
  OBVIOUS
<1>1. PICK k \in Nat \ T : \A j \in Nat \ T : k <= j
  BY LeastIs
<1>2. k \in Nat /\ k # 0 /\ k \notin T
  OBVIOUS
<1>3. k - 1 \in Nat /\ ~(k <= k - 1)
  BY <1>2
<1>4. k - 1 \in T
  BY <1>1, <1>3
<1>5. (k - 1) + 1 \in T /\ (k - 1) + 1 = k
  BY <1>2, <1>3, <1>4
<1> QED BY <1>2, <1>5

-----------------------------------------------------------------------------
(* Writes: the steps keep WriteInv and, while the quota is set, RateInv.   *)

OneQuota == Quota \in Nat \ {0}

\* The quotas that a request can have.
LEMMA QuotaIs == OneQuota => Quota \in Nat /\ Quota > 0
  BY DEF OneQuota

\* The sum of up to three lengths.
LEMMA TotalIs ==
  ASSUME NEW s \in Seq(Nat), Len(s) \in 1..3
  PROVE  /\ Head(s) \in Nat /\ Write!Total(s) \in Nat /\ Write!Total(s) >= Head(s)
         /\ Len(s) = 1 => Write!Total(s) = Head(s)
         /\ Len(s) > 1 => /\ Tail(s) \in Seq(Nat) /\ Len(Tail(s)) = Len(s) - 1
                          /\ Write!Total(Tail(s)) = Write!Total(s) - Head(s)
<1>1. Head(s) = s[1] /\ s[1] \in Nat
  OBVIOUS
<1>2. Len(s) > 1 => s[2] \in Nat
  OBVIOUS
<1>3. Len(s) > 2 => s[3] \in Nat
  OBVIOUS
<1>4. Write!Total(s) = s[1] + (IF 2 <= Len(s) THEN s[2] ELSE 0) + (IF 3 <= Len(s) THEN s[3] ELSE 0)
  BY DEF Write!Total, Write!Part
<1>5. ASSUME Len(s) > 1
      PROVE  /\ Tail(s) \in Seq(Nat) /\ Len(Tail(s)) = Len(s) - 1
             /\ Tail(s)[1] = s[2] /\ (Len(s) > 2 => Tail(s)[2] = s[3])
  BY <1>5
<1>6. ASSUME Len(s) > 1 PROVE Write!Total(Tail(s)) = Write!Total(s) - Head(s)
  <2>1. Write!Total(Tail(s)) = s[2] + (IF 2 <= Len(s) - 1 THEN s[3] ELSE 0)
    BY <1>2, <1>3, <1>5, <1>6 DEF Write!Total, Write!Part
  <2> QED
    BY <1>1, <1>2, <1>3, <1>4, <1>6, <2>1
<1> QED
  BY <1>1, <1>2, <1>3, <1>4, <1>5, <1>6

\* So is the total of any lengths.
LEMMA TotalsAreNat == \A s \in Seq(Nat) : Write!Total(s) \in Nat
<1> SUFFICES ASSUME NEW s \in Seq(Nat) PROVE Write!Total(s) \in Nat
  OBVIOUS
<1>1. \A i \in 1..3 : Write!Part(s, i) \in Nat
  BY DEF Write!Part
<1> QED
  BY <1>1 DEF Write!Total

\* A call of a handler, and a step, of either instance.
Calls(j) ==
  /\ writePc = "idle" /\ job' = j /\ writePc' = "write" /\ asked' = j /\ wire' = 0 /\ out' = 0
  /\ UNCHANGED <<throttle, counted, lastBytes, total, allowed, nwritten, sentNow, open, stop,
       result>>
WriteStep ==
  \/ \E t \in {0, Quota} : Write!NextRequest(t)
  \/ \E j \in Write!Writable : Calls(j)
  \/ Write!Work \/ Write!Tick \/ Write!Leave \/ Write!Stop

\* Nothing is being written at first.
LEMMA WriteInit == OneQuota /\ Write!Init => Write!WriteInv
<1> SUFFICES ASSUME OneQuota, Write!Init PROVE Write!WriteInv
  OBVIOUS
<1> USE QuotaIs DEF Write!Init
<1>1. <<>> \in Seq(Nat) /\ Write!Total(<<>>) = 0
  BY DEF Write!Total, Write!Part
<1>2. Write!Total(asked) = 0 /\ asked \in Seq(Nat) /\ job \in Seq(Nat)
  BY <1>1
<1>3. throttle \in {0, Quota} /\ Write!Ranges
  <2>1. throttle \in {0, Quota} /\ lastBytes = 0 /\ total = 0 /\ allowed = 0 /\ nwritten = 0
        /\ result = 0
        /\ out = 0 /\ wire = 0 /\ sentNow = 0 /\ writePc = "idle"
    OBVIOUS
  <2>2. counted \in BOOLEAN /\ open \in BOOLEAN /\ stop \in BOOLEAN
    BY Zenon
  <2>3. out \in 0..wire /\ wire \in 0..Write!Total(asked)
    BY <1>2, <2>1
  <2> QED
    BY <1>2, <2>1, <2>2, <2>3 DEF Write!Ranges
<1>4. Write!Parts /\ Write!Pushed /\ Write!Reported /\ Write!Charged
  BY <1>2 DEF Write!Parts, Write!Pushed, Write!Reported, Write!Charged, Write!InFirst
<1> QED
  BY <1>3, <1>4 DEF Write!WriteInv

\* The flags stay flags, and a connection that is broken stays so.
LEMMA FlagsStay ==
  Write!Ranges /\ WriteStep =>
    counted' \in BOOLEAN /\ open' \in BOOLEAN /\ stop' \in BOOLEAN /\ (Write!Broken => Write!Broken')
<1> SUFFICES ASSUME Write!Ranges, WriteStep
             PROVE  counted' \in BOOLEAN /\ open' \in BOOLEAN /\ stop' \in BOOLEAN
                    /\ (Write!Broken => Write!Broken')
  OBVIOUS
<1>1. counted \in BOOLEAN /\ open \in BOOLEAN /\ stop \in BOOLEAN
  BY DEF Write!Ranges
<1>2. open' = open \/ open' = FALSE
  <2>1. CASE Write!PushEnds
    BY <2>1, Zenon DEF Write!PushEnds
  <2>2. CASE \E n \in 1 .. allowed : Write!Send(n)
    BY <2>2 DEF Write!Send
  <2>3. CASE ~(Write!PushEnds \/ \E n \in 1 .. allowed : Write!Send(n))
    BY <2>3 DEF WriteStep, Write!NextRequest, Calls, Write!Work, Write!Write, Write!FirstDone,
       Write!AgainDone, Write!Returned, Write!Tick, Write!Leave, Write!Stop, Write!env
  <2> QED
    BY <2>1, <2>2, <2>3
<1>3. stop' = stop \/ stop' = TRUE
  BY DEF WriteStep, Write!NextRequest, Calls, Write!Work, Write!Write, Write!PushEnds, Write!FirstDone,
     Write!AgainDone, Write!Returned, Write!Send, Write!Tick, Write!Leave, Write!Stop, Write!env
<1>4. counted' = counted \/ counted' = TRUE \/ counted' = FALSE
  <2>1. CASE Write!AgainDone
    BY <2>1, Zenon DEF Write!AgainDone, Write!quota
  <2>2. CASE Write!Write
    BY <2>2, Zenon DEF Write!Write
  <2>3. CASE \E n \in 1 .. allowed : Write!Send(n)
    BY <2>3 DEF Write!Send, Write!quota
  <2>4. CASE Write!FirstDone
    BY <2>4, Zenon DEF Write!FirstDone
  <2>5. CASE ~(Write!AgainDone \/ Write!Write \/ Write!FirstDone \/ \E n \in 1 .. allowed : Write!Send(n))
    BY <2>5 DEF WriteStep, Write!NextRequest, Calls, Write!Work, Write!PushEnds,
       Write!Returned, Write!Tick, Write!Leave, Write!Stop, Write!quota
  <2> QED
    BY <2>1, <2>2, <2>3, <2>4, <2>5
<1>5. open' \in BOOLEAN /\ stop' \in BOOLEAN /\ counted' \in BOOLEAN
  BY <1>1, <1>2, <1>3, <1>4, Zenon
<1> QED
  BY <1>2, <1>3, <1>5 DEF Write!Broken

\* What the invariant says of a call that is under way.
Facts ==
  /\ throttle \in {0, Quota} /\ Quota \in Nat /\ Quota > 0 /\ lastBytes \in 0..Quota
  /\ total \in Nat /\ allowed \in Int /\ nwritten \in Nat \cup {-1} /\ result \in Nat \cup {-1}
  /\ out \in Nat /\ wire \in Nat /\ sentNow \in Nat /\ out <= wire
  /\ asked \in Seq(Nat) /\ job \in Seq(Nat) /\ Write!Total(asked) \in Nat /\ Write!Total(job) \in Nat
  /\ wire <= Write!Total(asked)
  /\ writePc \in {"idle", "write", "first", "again", "firstDone", "againDone", "returned"}
  /\ writePc # "idle" =>
       /\ Len(job) \in 1..3 /\ Len(asked) \in 1..3 /\ (Len(asked) <= 1 => job = asked)
       /\ wire = Write!Total(asked) - Write!Total(job) + (IF writePc = "write" THEN 0 ELSE out)
       /\ Head(job) \in Nat /\ Write!Total(job) >= Head(job)
       /\ Len(job) = 1 => Write!Total(job) = Head(job)
       /\ Len(job) > 1 => /\ Tail(job) \in Seq(Nat) /\ Len(Tail(job)) = Len(job) - 1
                          /\ Write!Total(Tail(job)) = Write!Total(job) - Head(job)

\* They follow from the invariant.
LEMMA FactsOf == OneQuota /\ Write!WriteInv => Facts
<1> SUFFICES ASSUME OneQuota, Write!WriteInv PROVE Facts
  OBVIOUS
<1>1. /\ throttle \in {0, Quota} /\ Quota \in Nat /\ Quota > 0 /\ lastBytes \in 0..Quota
      /\ total \in Nat /\ allowed \in Int /\ nwritten \in Nat \cup {-1} /\ result \in Nat \cup {-1}
      /\ out \in Nat /\ wire \in Nat /\ sentNow \in Nat /\ out <= wire
  BY QuotaIs DEF Write!WriteInv, Write!Ranges, Write!Charged
<1>2. /\ asked \in Seq(Nat) /\ job \in Seq(Nat) /\ Write!Total(asked) \in Nat /\ Write!Total(job) \in Nat
      /\ wire <= Write!Total(asked)
  BY TotalsAreNat DEF Write!WriteInv, Write!Ranges
<1>3. writePc \in {"idle", "write", "first", "again", "firstDone", "againDone", "returned"}
  BY DEF Write!WriteInv, Write!Ranges
<1>4. ASSUME writePc # "idle"
      PROVE  /\ Len(job) \in 1..3 /\ Len(asked) \in 1..3 /\ (Len(asked) <= 1 => job = asked)
             /\ wire = Write!Total(asked) - Write!Total(job) + (IF writePc = "write" THEN 0 ELSE out)
  BY <1>2, <1>4 DEF Write!WriteInv, Write!Parts, Write!Chunk
<1>5. ASSUME writePc # "idle"
      PROVE  /\ Head(job) \in Nat /\ Write!Total(job) >= Head(job)
             /\ Len(job) = 1 => Write!Total(job) = Head(job)
             /\ Len(job) > 1 => /\ Tail(job) \in Seq(Nat) /\ Len(Tail(job)) = Len(job) - 1
                                /\ Write!Total(Tail(job)) = Write!Total(job) - Head(job)
  BY <1>2, <1>4, <1>5, TotalIs
<1> QED
  BY <1>1, <1>2, <1>3, <1>4, <1>5 DEF Facts

\* The parts of the invariant after a step, from its numbers.
LEMMA RangesAre ==
  ASSUME Write!Ranges, WriteStep,
         asked' \in Seq(Nat), job' \in Seq(Nat), lastBytes' \in Nat, total' \in Nat,
         allowed' \in Int,
         nwritten' \in Nat \cup {-1}, result' \in Nat \cup {-1}, out' \in Nat, wire' \in Nat,
         out' <= wire',
         wire' <= Write!Total(asked'), Write!Total(asked') \in Nat, sentNow' \in Nat,
         writePc' \in {"idle", "write", "first", "again", "firstDone", "againDone", "returned"}
  PROVE  Write!Ranges'
<1>1. counted' \in BOOLEAN /\ open' \in BOOLEAN /\ stop' \in BOOLEAN
  BY FlagsStay
<1>2. out' \in 0..wire' /\ wire' \in 0..Write!Total(asked)'
  OBVIOUS
<1> QED
  BY <1>1, <1>2 DEF Write!Ranges

\* One lemma for each step: mg_write() begins a part,
LEMMA WriteKeeps == OneQuota /\ Write!WriteInv /\ Write!Write => Write!WriteInv'
<1> SUFFICES ASSUME OneQuota, Write!WriteInv, Write!Write PROVE Write!WriteInv'
  OBVIOUS
<1>0. Facts
  BY FactsOf
<1>1. WriteStep
  BY DEF WriteStep, Write!Work
<1>2. /\ writePc = "write" /\ writePc' = "first" /\ out' = 0 /\ total' = 0 /\ nwritten' = 0
      /\ UNCHANGED <<throttle, asked, job, wire, sentNow, open, stop, result>>
  BY DEF Write!Write, Write!env
<1>3. /\ allowed' \in 0..Head(job) /\ lastBytes' \in 0..Quota
      /\ IF throttle = 0 THEN allowed' = Head(job) ELSE lastBytes' + allowed' <= throttle
  <2>0. Quota \in Nat /\ throttle \in {0, Quota} /\ lastBytes \in 0..Quota /\ Head(job) \in Nat
    BY <1>0, <1>2 DEF Facts
  <2>1. CASE throttle = 0
    BY <2>0, <1>2, <2>1 DEF Write!Write
  <2>2. CASE throttle > 0
    <3>1. PICK used \in {lastBytes, 0} : lastBytes' = used
          /\ allowed' = Write!Least(throttle - used, Head(job))
      BY <2>2, Zenon DEF Write!Write
    <3> QED
      BY <2>0, <2>2, <3>1 DEF Write!Least
  <2> QED
    BY <2>0, <2>1, <2>2
<1>4. Write!Ranges'
  <2>1. Write!Ranges
    BY DEF Write!WriteInv
  <2> QED
    BY <1>0, <1>1, <1>2, <1>3, <2>1, RangesAre DEF Facts
<1>5. Write!Parts'
  BY <1>0, <1>2 DEF Facts, Write!Parts, Write!Chunk
<1>6. Write!Pushed'
  <2>1. Head(job) \in Nat
    BY <1>0, <1>2 DEF Facts
  <2>2. Write!Before' = 0
    BY <1>2 DEF Write!Before, Write!InFirst
  <2>3. Write!Pushing'
    BY <1>2 DEF Write!Pushing
  <2>4. allowed' >= 0 /\ 0 + allowed' <= Head(job') /\ nwritten' <= allowed'
        /\ out' \in 0..(0 + allowed')
        /\ 0 + nwritten' <= out' /\ nwritten' >= 0 /\ out' = 0 + nwritten'
    <3>1. allowed' \in 0..Head(job) /\ job' = job /\ out' = 0 /\ nwritten' = 0
      BY <1>2, <1>3
    <3>2. allowed' >= 0 /\ 0 + allowed' <= Head(job') /\ nwritten' <= allowed'
      BY <2>1, <3>1
    <3>3. out' \in 0..(0 + allowed')
      <4>1. allowed' \in Nat /\ out' = 0
        BY <2>1, <3>1
      <4>2. \A x \in Nat : 0 \in 0..(0 + x)
        OBVIOUS
      <4> QED
        BY <4>1, <4>2, Zenon
    <3>4. 0 + nwritten' <= out' /\ nwritten' >= 0 /\ out' = 0 + nwritten'
      BY <3>1
    <3> QED
      BY <3>2, <3>3, <3>4
  <2> QED
    BY <2>2, <2>3, <2>4 DEF Write!Pushed
<1>7. Write!Reported'
  BY <1>2 DEF Write!Reported
<1>8. Write!Charged'
  BY <1>2, <1>3, QuotaIs DEF Write!Charged, Write!InFirst
<1> QED
  BY <1>0, <1>2, <1>4, <1>5, <1>6, <1>7, <1>8 DEF Facts, Write!WriteInv

\* one send() takes n bytes,
LEMMA SendKeeps == ASSUME OneQuota, Write!WriteInv, NEW n \in 1 .. allowed, Write!Send(n) PROVE Write!WriteInv'
<1>0. Facts
  BY FactsOf
<1>1. WriteStep
  BY DEF WriteStep, Write!Work
<1>2. /\ writePc \in {"first", "again"} /\ n <= allowed - nwritten
      /\ out' = out + n /\ wire' = wire + n /\ sentNow' = sentNow + n
      /\ UNCHANGED <<throttle, counted, lastBytes, asked, job, total, allowed, open, result>>
  BY DEF Write!Send, Write!Pushing, Write!quota
<1>3. \/ nwritten' = nwritten + n /\ UNCHANGED <<stop, writePc>>
      \/ /\ stop' = TRUE /\ nwritten' = (IF nwritten = 0 THEN -1 ELSE nwritten)
         /\ writePc' = IF writePc = "first" THEN "firstDone" ELSE "againDone"
  BY Zenon DEF Write!Send, Write!Cut
<1> DEFINE before == Write!Before
<1>4. before \in Nat /\ before' = before
  <2>1. before = (IF writePc = "first" THEN 0 ELSE total) /\ total \in Nat /\ total' = total
    BY <1>0, <1>2 DEF Facts, Write!Before, Write!InFirst
  <2>2. (writePc' \in {"first", "firstDone"}) = (writePc = "first")
    BY <1>2, <1>3
  <2>3. before' = (IF writePc' \in {"first", "firstDone"} THEN 0 ELSE total')
    BY DEF Write!Before, Write!InFirst
  <2> QED
    BY <2>1, <2>2, <2>3
<1>5. /\ allowed \in Nat /\ before + allowed <= Head(job) /\ nwritten \in 0..allowed
      /\ out = before + nwritten
  BY <1>0, <1>2 DEF Facts, Write!WriteInv, Write!Pushed, Write!Pushing
<1> HIDE DEF before
<1>6. /\ wire = Write!Total(asked) - Write!Total(job) + out /\ Write!Total(job) >= Head(job) /\ Head(job) \in Nat
      /\ Write!Total(asked) \in Nat /\ Write!Total(job) \in Nat /\ out \in Nat /\ wire \in Nat /\ out <= wire
      /\ sentNow \in Nat
  BY <1>0, <1>2 DEF Facts
<1>7. out' \in Nat /\ wire' \in Nat /\ out' <= wire' /\ wire' <= Write!Total(asked) /\ sentNow' \in Nat
      /\ out' <= before + allowed
  BY <1>2, <1>4, <1>5, <1>6
<1>8. \/ /\ nwritten' = nwritten + n /\ nwritten' \in 0..allowed /\ out' = before + nwritten'
         /\ writePc' = writePc
      \/ /\ Write!Broken' /\ nwritten' \in 0..allowed \cup {-1} /\ before + nwritten' <= out'
         /\ writePc' \in {"firstDone", "againDone"}
  <2>1. CASE nwritten' = nwritten + n /\ UNCHANGED <<stop, writePc>>
    BY <1>2, <1>4, <1>5, <2>1
  <2>2. CASE /\ stop' = TRUE /\ nwritten' = (IF nwritten = 0 THEN -1 ELSE nwritten)
             /\ writePc' = IF writePc = "first" THEN "firstDone" ELSE "againDone"
    <3>1. Write!Broken'
      BY <2>2 DEF Write!Broken
    <3> QED
      BY <1>2, <1>4, <1>5, <2>2, <3>1
  <2> QED
    BY <1>3, <2>1, <2>2
<1>9. Write!Ranges'
  <2>1. Write!Ranges
    BY DEF Write!WriteInv
  <2>2. nwritten' \in Nat \cup {-1} /\ writePc' \in {"first", "again", "firstDone", "againDone"}
    BY <1>2, <1>5, <1>8
  <2> QED
    BY <1>0, <1>1, <1>2, <1>7, <2>1, <2>2, RangesAre DEF Facts
<1>10. Write!Parts'
  <2>1. wire' = Write!Total(asked) - Write!Total(job) + out' /\ writePc' # "write"
    BY <1>2, <1>6, <1>8
  <2>2. Len(job) \in 1..3 /\ Len(asked) \in 1..3 /\ (Len(asked) <= 1 => job = asked)
        /\ job' = job /\ asked' = asked
    BY <1>0, <1>2 DEF Facts
  <2> QED
    BY <2>1, <2>2 DEF Write!Parts, Write!Chunk
<1>11. Write!Pushed'
  <2>1. CASE nwritten' = nwritten + n /\ nwritten' \in 0..allowed /\ out' = before + nwritten'
             /\ writePc' = writePc
    <3>1. Write!Pushing'
      BY <1>2, <2>1 DEF Write!Pushing
    <3>2. /\ allowed' >= 0 /\ before' + allowed' <= Head(job') /\ nwritten' <= allowed'
          /\ out' \in before'..(before' + allowed') /\ before' + nwritten' <= out' /\ nwritten' >= 0
          /\ out' = before' + nwritten'
      BY <1>2, <1>4, <1>5, <1>6, <1>7, <2>1
    <3> QED
      BY <3>1, <3>2 DEF Write!Pushed, before
  <2>2. CASE /\ Write!Broken' /\ nwritten' \in 0..allowed \cup {-1} /\ before + nwritten' <= out'
             /\ writePc' \in {"firstDone", "againDone"}
    <3>1. ~Write!Pushing'
      BY <2>2 DEF Write!Pushing
    <3>2. /\ allowed' >= 0 /\ before' + allowed' <= Head(job') /\ nwritten' <= allowed'
          /\ out' \in before'..(before' + allowed') /\ before' + nwritten' <= out'
      <4>1. job' = job /\ allowed' = allowed /\ nwritten' \in 0..allowed \cup {-1} /\ out \in Nat
            /\ Head(job) \in Nat /\ before' = before
        BY <1>2, <1>4, <1>5, <1>6, <1>7, <2>2
      <4>2. out' \in Nat /\ out' <= before + allowed /\ before + nwritten' <= out'
        BY <1>2, <1>4, <1>5, <1>6, <1>7, <2>2
      <4>3. before <= out'
        BY <1>2, <1>4, <1>5, <1>6, <1>7, <2>2, <4>1, <4>2
      <4>4. allowed' >= 0 /\ before' + allowed' <= Head(job') /\ nwritten' <= allowed'
        BY <1>4, <1>5, <4>1
      <4>5. out' \in before'..(before' + allowed')
        BY <1>4, <1>5, <4>1, <4>2, <4>3
      <4>6. before' + nwritten' <= out'
        BY <4>1, <4>2
      <4> QED
        BY <4>4, <4>5, <4>6
    <3> QED
      BY <2>2, <3>1, <3>2 DEF Write!Pushed, before
  <2> QED
    BY <1>8, <2>1, <2>2
<1>12. Write!Reported'
  BY <1>2, <1>8 DEF Write!Reported
<1>13. Write!Charged'
  <2>1. Write!Charged
    BY DEF Write!WriteInv
  <2>2. (Write!InFirst' = Write!InFirst) /\ (writePc' \in {"again", "againDone"} <=> writePc \in {"again", "againDone"})
    BY <1>2, <1>3 DEF Write!InFirst
  <2> QED
    BY <1>2, <2>1, <2>2 DEF Write!Charged
<1> QED
  BY <1>0, <1>2, <1>9, <1>10, <1>11, <1>12, <1>13 DEF Facts, Write!WriteInv

\* push_all() ends,
LEMMA PushEndsKeeps == OneQuota /\ Write!WriteInv /\ Write!PushEnds => Write!WriteInv'
<1> SUFFICES ASSUME OneQuota, Write!WriteInv, Write!PushEnds PROVE Write!WriteInv'
  OBVIOUS
<1>0. Facts
  BY FactsOf
<1>1. WriteStep
  BY DEF WriteStep, Write!Work
<1>2. /\ writePc \in {"first", "again"} /\ writePc' = (IF writePc = "first" THEN "firstDone" ELSE "againDone")
      /\ UNCHANGED <<throttle, counted, lastBytes, asked, job, total, allowed, out, wire, sentNow,
           stop, result>>
  BY Zenon DEF Write!PushEnds, Write!Pushing, Write!quota, Write!seen
<1> DEFINE before == Write!Before
<1>4. before \in Nat /\ before' = before
  <2>1. before = (IF writePc = "first" THEN 0 ELSE total) /\ total \in Nat /\ total' = total
    BY <1>0, <1>2 DEF Facts, Write!Before, Write!InFirst
  <2>2. before' = (IF writePc' \in {"first", "firstDone"} THEN 0 ELSE total')
    BY DEF Write!Before, Write!InFirst
  <2> QED
    BY <1>2, <2>1, <2>2
<1>5. /\ allowed \in Nat /\ before + allowed <= Head(job) /\ nwritten \in 0..allowed
      /\ out = before + nwritten
  BY <1>0, <1>2 DEF Facts, Write!WriteInv, Write!Pushed, Write!Pushing
<1> HIDE DEF before
<1>6. nwritten' \in {nwritten, -1} /\ (nwritten' # allowed => Write!Broken')
  <2>1. CASE (nwritten >= allowed \/ stop) /\ UNCHANGED <<nwritten, open>>
    <3>1. stop => Write!Broken'
      BY <1>2 DEF Write!Broken
    <3> QED
      BY <1>5, <2>1, <3>1
  <2>2. CASE nwritten < allowed /\ stop /\ nwritten' = Write!Cut /\ UNCHANGED open
    <3>1. Write!Broken'
      BY <1>2, <2>2 DEF Write!Broken
    <3> QED
      BY <2>2, <3>1 DEF Write!Cut
  <2>3. CASE nwritten < allowed /\ ~stop /\ nwritten' = Write!Cut /\ open' = FALSE
    <3>1. Write!Broken'
      BY <2>3 DEF Write!Broken
    <3> QED
      BY <2>3, <3>1 DEF Write!Cut
  <2> QED
    BY <2>1, <2>2, <2>3 DEF Write!PushEnds
<1>9. Write!Ranges'
  <2>1. Write!Ranges
    BY DEF Write!WriteInv
  <2>2. nwritten' \in Nat \cup {-1} /\ writePc' \in {"firstDone", "againDone"}
    BY <1>2, <1>5, <1>6
  <2> QED
    BY <1>0, <1>1, <1>2, <2>1, <2>2, RangesAre DEF Facts
<1>10. Write!Parts'
  BY <1>0, <1>2 DEF Facts, Write!Parts, Write!Chunk
<1>11. Write!Pushed'
  <2>1. ~Write!Pushing'
    BY <1>2 DEF Write!Pushing
  <2>2. Head(job) \in Nat
    BY <1>0, <1>2 DEF Facts
  <2>3. /\ allowed' >= 0 /\ before' + allowed' <= Head(job') /\ nwritten' <= allowed'
        /\ out' \in before'..(before' + allowed') /\ before' + nwritten' <= out'
    <3>1. job' = job /\ allowed' = allowed /\ nwritten' \in 0..allowed \cup {-1} /\ out \in Nat
          /\ Head(job) \in Nat /\ before' = before
      BY <1>2, <1>4, <1>5, <1>6, <2>2
    <3>2. out' = out /\ out <= before + allowed /\ before + nwritten' <= out /\ before <= out
      <4>1. out' = out
        BY <1>2
      <4>2. out <= before + allowed /\ before <= out
        BY <1>4, <1>5
      <4>3. before + nwritten' <= out
        <5>1. nwritten' = nwritten \/ nwritten' = -1
          BY <1>6
        <5> QED
          BY <1>4, <1>5, <5>1
      <4> QED
        BY <4>1, <4>2, <4>3
    <3>3. before <= out'
      BY <1>2, <1>4, <1>5, <1>6, <2>2, <3>1, <3>2
    <3>4. allowed' >= 0 /\ before' + allowed' <= Head(job') /\ nwritten' <= allowed'
      BY <1>4, <1>5, <3>1
    <3>5. out' \in before'..(before' + allowed')
      BY <1>4, <1>5, <3>1, <3>2, <3>3
    <3>6. before' + nwritten' <= out'
      BY <3>1, <3>2
    <3> QED
      BY <3>4, <3>5, <3>6
  <2> QED
    BY <1>2, <1>6, <2>1, <2>3 DEF Write!Pushed, before
<1>12. Write!Reported'
  BY <1>2 DEF Write!Reported
<1>13. Write!Charged'
  <2>1. Write!Charged
    BY DEF Write!WriteInv
  <2>2. (Write!InFirst' = Write!InFirst) /\ (writePc' \in {"again", "againDone"} <=> writePc \in {"again", "againDone"})
    BY <1>2 DEF Write!InFirst
  <2> QED
    BY <1>2, <2>1, <2>2 DEF Write!Charged
<1> QED
  BY <1>0, <1>2, <1>9, <1>10, <1>11, <1>12, <1>13 DEF Facts, Write!WriteInv

\* the first part was sent,
LEMMA FirstDoneKeeps == OneQuota /\ Write!WriteInv /\ Write!FirstDone => Write!WriteInv'
<1> SUFFICES ASSUME OneQuota, Write!WriteInv, Write!FirstDone PROVE Write!WriteInv'
  OBVIOUS
<1>0. Facts
  BY FactsOf
<1>1. WriteStep
  BY DEF WriteStep, Write!Work
<1>2. /\ writePc = "firstDone" /\ UNCHANGED <<throttle, counted, asked, job, out, wire, sentNow, open,
           stop>>
  BY Zenon DEF Write!FirstDone, Write!seen, Write!env
<1>3. /\ throttle \in {0, Quota} /\ Quota \in Nat /\ Quota > 0 /\ lastBytes \in 0..Quota
      /\ result \in Nat \cup {-1}
      /\ nwritten \in Nat \cup {-1} /\ total \in Nat /\ Head(job) \in Nat /\ out \in Nat
  BY <1>0, <1>2 DEF Facts
<1>4. /\ allowed \in Nat /\ allowed <= Head(job) /\ nwritten <= allowed /\ out <= allowed
      /\ nwritten <= out
      /\ (nwritten # allowed => Write!Broken)
  <2>1. Write!Before = 0 /\ ~Write!Pushing
    BY <1>2 DEF Write!Before, Write!InFirst, Write!Pushing
  <2>2. allowed \in Int /\ Write!Pushed
    BY <1>0 DEF Facts, Write!WriteInv
  <2>3. allowed >= 0 /\ 0 + allowed <= Head(job) /\ nwritten <= allowed
        /\ out \in 0..(0 + allowed) /\ 0 + nwritten <= out
        /\ (nwritten # allowed => Write!Broken)
    BY <1>2, <2>1, <2>2 DEF Write!Pushed
  <2> QED
    BY <1>3, <2>2, <2>3
<1>5. IF throttle = 0 THEN allowed = Head(job) ELSE lastBytes + allowed <= throttle
  BY <1>2 DEF Write!WriteInv, Write!Charged, Write!InFirst
<1>6. Write!Broken' = Write!Broken
  BY <1>2 DEF Write!Broken
<1>7. \/ /\ writePc' = "returned" /\ result' = nwritten
         /\ UNCHANGED <<lastBytes, total, allowed, nwritten>>
         /\ throttle = 0 \/ nwritten # allowed
      \/ /\ writePc' = "again" /\ throttle # 0 /\ nwritten = allowed /\ lastBytes' = lastBytes + nwritten
         /\ total' = nwritten /\ nwritten' = 0 /\ allowed' = Write!Least(throttle, Head(job) - nwritten)
         /\ nwritten < Head(job) /\ UNCHANGED result
      \/ /\ writePc' = "returned" /\ throttle # 0 /\ nwritten = allowed
         /\ lastBytes' = lastBytes + nwritten
         /\ result' = nwritten /\ total' = nwritten /\ (~(nwritten < Head(job)) \/ stop)
         /\ UNCHANGED <<allowed, nwritten>>
  <2>1. CASE throttle = 0 \/ nwritten # allowed
    BY <2>1, Zenon DEF Write!FirstDone, Write!Returns
  <2>2. CASE ~(throttle = 0 \/ nwritten # allowed)
    BY <2>2, Zenon DEF Write!FirstDone, Write!Turn
  <2> QED
    BY <2>1, <2>2
<1>8. ASSUME Write!Ranges', Write!Pushed', Write!Reported', Write!Charged' PROVE Write!WriteInv'
  <2>1. Write!Parts'
    BY <1>0, <1>2, <1>7 DEF Facts, Write!Parts, Write!Chunk
  <2> QED
    BY <1>2, <1>3, <1>8, <2>1 DEF Write!WriteInv
<1>9. ASSUME lastBytes' \in Nat, total' \in Nat, allowed' \in Int, nwritten' \in Nat \cup {-1},
             result' \in Nat \cup {-1}, writePc' \in {"again", "returned"}
      PROVE  Write!Ranges'
  <2>1. Write!Ranges
    BY DEF Write!WriteInv
  <2> QED
    BY <1>0, <1>1, <1>2, <1>9, <2>1, RangesAre DEF Facts
<1>10. CASE /\ writePc' = "returned" /\ result' = nwritten
            /\ UNCHANGED <<lastBytes, total, allowed, nwritten>>
            /\ throttle = 0 \/ nwritten # allowed
  <2>1. Write!Ranges'
    BY <1>3, <1>4, <1>9, <1>10
  <2>2. result' # Head(job) => Write!Broken
    BY <1>4, <1>5, <1>10
  <2>3. Write!Reported'
    <3>1. result' <= out' /\ out' <= Head(job') /\ writePc' = "returned" /\ job' = job
      BY <1>2, <1>3, <1>4, <1>10
    <3> QED
      BY <1>6, <2>2, <3>1 DEF Write!Reported
  <2>4. Write!Pushed' /\ Write!Charged'
    BY <1>2, <1>10 DEF Write!Pushed, Write!Charged, Write!InFirst, Write!WriteInv
  <2> QED
    BY <1>8, <2>1, <2>3, <2>4
<1>11. CASE /\ writePc' = "again" /\ throttle # 0 /\ nwritten = allowed
            /\ lastBytes' = lastBytes + nwritten
            /\ total' = nwritten /\ nwritten' = 0
            /\ allowed' = Write!Least(throttle, Head(job) - nwritten)
            /\ nwritten < Head(job) /\ UNCHANGED result
  <2>1. lastBytes' \in 0..Quota /\ allowed' \in 0..throttle /\ allowed' <= Head(job) - nwritten
        /\ throttle = Quota
    BY <1>3, <1>4, <1>5, <1>11 DEF Write!Least
  <2>2. Write!Ranges'
    BY <1>3, <1>4, <1>9, <1>11, <2>1
  <2>3. Write!Pushed'
    <3>1. out = nwritten /\ Write!Before' = nwritten /\ Write!Pushing'
      BY <1>3, <1>4, <1>11 DEF Write!Before, Write!InFirst, Write!Pushing
    <3>2. allowed' >= 0 /\ nwritten + allowed' <= Head(job) /\ nwritten' <= allowed'
      BY <1>3, <1>4, <1>11, <2>1
    <3>3. out' \in nwritten..(nwritten + allowed') /\ nwritten + nwritten' <= out'
          /\ out' = nwritten + nwritten'
      <4>1. out' = nwritten /\ nwritten \in Nat /\ allowed' \in Nat
        BY <1>2, <1>3, <1>4, <1>11, <2>1, <3>1
      <4> QED
        BY <1>11, <4>1
    <3> QED
      BY <1>2, <1>11, <3>1, <3>2, <3>3 DEF Write!Pushed
  <2>4. Write!Reported'
    BY <1>11 DEF Write!Reported
  <2>5. Write!Charged'
    BY <1>2, <1>3, <1>11, <2>1, QuotaIs DEF Write!Charged, Write!InFirst
  <2> QED
    BY <1>8, <2>2, <2>3, <2>4, <2>5
<1>12. CASE /\ writePc' = "returned" /\ throttle # 0 /\ nwritten = allowed
            /\ lastBytes' = lastBytes + nwritten
            /\ result' = nwritten /\ total' = nwritten /\ (~(nwritten < Head(job)) \/ stop)
            /\ UNCHANGED <<allowed, nwritten>>
  <2>1. lastBytes' \in 0..Quota /\ throttle = Quota
    BY <1>3, <1>4, <1>5, <1>12
  <2>2. Write!Ranges'
    BY <1>3, <1>4, <1>9, <1>12, <2>1
  <2>3. result' # Head(job) => Write!Broken
    BY <1>3, <1>4, <1>12 DEF Write!Broken
  <2>4. Write!Reported'
    <3>1. result' <= out' /\ out' <= Head(job') /\ writePc' = "returned" /\ job' = job
      BY <1>2, <1>3, <1>4, <1>12
    <3> QED
      BY <1>6, <2>3, <3>1 DEF Write!Reported
  <2>5. Write!Pushed' /\ Write!Charged'
    BY <1>2, <1>3, <1>12, <2>1, QuotaIs DEF Write!Pushed, Write!Charged, Write!InFirst
  <2> QED
    BY <1>8, <2>2, <2>4, <2>5
<1> QED
  BY <1>7, <1>10, <1>11, <1>12

\* a turn of the loop was sent,
LEMMA AgainDoneKeeps == OneQuota /\ Write!WriteInv /\ Write!AgainDone => Write!WriteInv'
<1> SUFFICES ASSUME OneQuota, Write!WriteInv, Write!AgainDone PROVE Write!WriteInv'
  OBVIOUS
<1>0. Facts
  BY FactsOf
<1>1. WriteStep
  BY DEF WriteStep, Write!Work
<1>2. /\ writePc = "againDone" /\ UNCHANGED <<throttle, asked, job, out, wire, open, stop>>
  <2>1. UNCHANGED throttle
    BY Zenon DEF Write!AgainDone, Write!quota
  <2> QED
    BY <2>1, Zenon DEF Write!AgainDone, Write!env
<1>3. /\ throttle = Quota /\ Quota \in Nat /\ Quota > 0 /\ lastBytes \in 0..Quota
      /\ result \in Nat \cup {-1}
      /\ nwritten \in Nat \cup {-1} /\ total \in Nat /\ Head(job) \in Nat /\ out \in Nat
      /\ sentNow \in Nat
      /\ allowed <= throttle
  <2>1. throttle > 0 /\ allowed <= throttle
    BY <1>2 DEF Write!WriteInv, Write!Charged
  <2> QED
    BY <1>0, <1>2, <2>1 DEF Facts
<1>4. /\ allowed \in Nat /\ total + allowed <= Head(job) /\ nwritten <= allowed
      /\ total <= out /\ out <= total + allowed /\ total + nwritten <= out
      /\ (nwritten # allowed => Write!Broken)
  <2>1. Write!Before = total /\ ~Write!Pushing
    BY <1>2 DEF Write!Before, Write!InFirst, Write!Pushing
  <2>2. allowed \in Int /\ Write!Pushed
    BY <1>0 DEF Facts, Write!WriteInv
  <2>3. /\ allowed >= 0 /\ total + allowed <= Head(job) /\ nwritten <= allowed
        /\ out \in total..(total + allowed)
        /\ total + nwritten <= out /\ (nwritten # allowed => Write!Broken)
    BY <1>2, <2>1, <2>2 DEF Write!Pushed
  <2> QED
    BY <1>3, <2>2, <2>3
<1>6. Write!Broken' = Write!Broken
  BY <1>2 DEF Write!Broken
<1>7. \/ /\ writePc' = "returned" /\ result' = total /\ nwritten # allowed
         /\ UNCHANGED <<lastBytes, total, allowed, nwritten, sentNow>>
      \/ /\ writePc' = "again" /\ nwritten = allowed /\ total' = total + nwritten /\ nwritten' = 0
         /\ allowed' = Write!Least(throttle, Head(job) - (total + nwritten))
         /\ total + nwritten < Head(job)
         /\ lastBytes' = allowed /\ sentNow' = 0 /\ UNCHANGED result
      \/ /\ writePc' = "returned" /\ nwritten = allowed /\ total' = total + nwritten
         /\ result' = total + nwritten /\ (~(total + nwritten < Head(job)) \/ stop)
         /\ lastBytes' = allowed /\ sentNow' = 0 /\ UNCHANGED <<allowed, nwritten>>
  <2>1. CASE nwritten # allowed
    BY <2>1, Zenon DEF Write!AgainDone, Write!Returns, Write!quota
  <2>2. CASE nwritten = allowed
    BY <2>2, Zenon DEF Write!AgainDone, Write!Turn
  <2> QED
    BY <2>1, <2>2
<1>8. ASSUME Write!Ranges', Write!Pushed', Write!Reported', Write!Charged' PROVE Write!WriteInv'
  <2>1. Write!Parts'
    BY <1>0, <1>2, <1>7 DEF Facts, Write!Parts, Write!Chunk
  <2> QED
    BY <1>0, <1>2, <1>8, <2>1 DEF Facts, Write!WriteInv
<1>9. ASSUME lastBytes' \in Nat, total' \in Nat, allowed' \in Int, nwritten' \in Nat \cup {-1},
             sentNow' \in Nat,
             result' \in Nat \cup {-1}, writePc' \in {"again", "returned"}
      PROVE  Write!Ranges'
  <2>1. Write!Ranges
    BY DEF Write!WriteInv
  <2> QED
    BY <1>0, <1>1, <1>2, <1>9, <2>1, RangesAre DEF Facts
<1>10. CASE /\ writePc' = "returned" /\ result' = total /\ nwritten # allowed
            /\ UNCHANGED <<lastBytes, total, allowed, nwritten, sentNow>>
  <2>1. Write!Ranges'
    BY <1>3, <1>4, <1>9, <1>10
  <2>2. Write!Reported'
    <3>1. result' <= out' /\ out' <= Head(job') /\ writePc' = "returned" /\ job' = job
      BY <1>2, <1>3, <1>4, <1>10
    <3> QED
      BY <1>4, <1>6, <1>10, <3>1 DEF Write!Reported
  <2>4. Write!Pushed' /\ Write!Charged'
    BY <1>2, <1>10 DEF Write!Pushed, Write!Charged, Write!InFirst, Write!WriteInv
  <2> QED
    BY <1>8, <2>1, <2>2, <2>4
<1>11. CASE /\ writePc' = "again" /\ nwritten = allowed /\ total' = total + nwritten /\ nwritten' = 0
            /\ allowed' = Write!Least(throttle, Head(job) - (total + nwritten))
            /\ total + nwritten < Head(job)
            /\ lastBytes' = allowed /\ sentNow' = 0 /\ UNCHANGED result
  <2>1. lastBytes' \in 0..Quota /\ allowed' \in 0..throttle
        /\ allowed' <= Head(job) - (total + nwritten)
    BY <1>3, <1>4, <1>11 DEF Write!Least
  <2>2. Write!Ranges'
    BY <1>3, <1>4, <1>9, <1>11, <2>1
  <2>3. Write!Pushed'
    <3>1. out = total' /\ Write!Before' = total' /\ Write!Pushing' /\ total' \in Nat
      BY <1>3, <1>4, <1>11 DEF Write!Before, Write!InFirst, Write!Pushing
    <3>2. allowed' >= 0 /\ total' + allowed' <= Head(job) /\ nwritten' <= allowed'
      BY <1>3, <1>4, <1>11, <2>1
    <3>3. out' \in total'..(total' + allowed') /\ total' + nwritten' <= out'
          /\ out' = total' + nwritten'
      <4>1. out' = total' /\ allowed' \in Nat
        BY <1>2, <1>3, <2>1, <3>1
      <4> QED
        BY <1>11, <3>1, <4>1
    <3> QED
      BY <1>2, <1>11, <3>1, <3>2, <3>3 DEF Write!Pushed
  <2>4. Write!Reported'
    BY <1>11 DEF Write!Reported
  <2>5. Write!Charged'
    BY <1>2, <1>3, <1>11, <2>1, QuotaIs DEF Write!Charged, Write!InFirst
  <2> QED
    BY <1>8, <2>2, <2>3, <2>4, <2>5
<1>12. CASE /\ writePc' = "returned" /\ nwritten = allowed /\ total' = total + nwritten
            /\ result' = total + nwritten /\ (~(total + nwritten < Head(job)) \/ stop)
            /\ lastBytes' = allowed /\ sentNow' = 0 /\ UNCHANGED <<allowed, nwritten>>
  <2>1. lastBytes' \in 0..Quota
    BY <1>3, <1>4, <1>12
  <2>2. Write!Ranges'
    BY <1>3, <1>4, <1>9, <1>12, <2>1
  <2>3. result' # Head(job) => Write!Broken
    BY <1>3, <1>4, <1>12 DEF Write!Broken
  <2>4. Write!Reported'
    <3>1. result' <= out' /\ out' <= Head(job') /\ writePc' = "returned" /\ job' = job
      BY <1>2, <1>3, <1>4, <1>12
    <3> QED
      BY <1>6, <2>3, <3>1 DEF Write!Reported
  <2>5. Write!Pushed' /\ Write!Charged'
    BY <1>2, <1>3, <1>12, <2>1, QuotaIs DEF Write!Pushed, Write!Charged, Write!InFirst
  <2> QED
    BY <1>8, <2>2, <2>4, <2>5
<1> QED
  BY <1>7, <1>10, <1>11, <1>12

\* mg_write() returns, perhaps to mg_send_chunk(),
LEMMA ReturnedKeeps == OneQuota /\ Write!WriteInv /\ Write!Returned => Write!WriteInv'
<1> SUFFICES ASSUME OneQuota, Write!WriteInv, Write!Returned PROVE Write!WriteInv'
  OBVIOUS
<1>0. Facts
  BY FactsOf
<1>1. WriteStep
  BY DEF WriteStep, Write!Work
<1>2. /\ writePc = "returned"
      /\ UNCHANGED <<throttle, lastBytes, asked, total, allowed, nwritten, out, wire, sentNow,
           open, stop>>
  BY Zenon DEF Write!Returned, Write!seen, Write!env, Write!quota
<1>3. /\ result \in Nat \cup {-1} /\ Head(job) \in Nat /\ out \in Nat /\ wire \in Nat
      /\ job \in Seq(Nat)
      /\ Len(job) \in 1..3 /\ Len(asked) \in 1..3 /\ (Len(asked) <= 1 => job = asked)
      /\ wire = Write!Total(asked) - Write!Total(job) + out /\ out <= wire
      /\ Write!Total(asked) \in Nat /\ Write!Total(job) \in Nat /\ Write!Total(job) >= Head(job)
      /\ Len(job) = 1 => Write!Total(job) = Head(job)
      /\ Len(job) > 1 => /\ Tail(job) \in Seq(Nat) /\ Len(Tail(job)) = Len(job) - 1
                         /\ Write!Total(Tail(job)) = Write!Total(job) - Head(job)
  BY <1>0, <1>2 DEF Facts
<1>4. result <= out /\ out <= Head(job) /\ (result # Head(job) => Write!Broken)
  BY <1>2 DEF Write!WriteInv, Write!Reported
<1>5. /\ Len(job) \in 1..3 /\ Len(asked) \in 1..3 /\ (Len(asked) <= 1 => job = asked)
      /\ (Len(job) > 1 => Len(Tail(job)) = Len(job) - 1)
  BY <1>0, <1>2 DEF Facts
<1>6. Write!Broken' = Write!Broken
  BY <1>2 DEF Write!Broken
<1>7. \/ /\ result = Head(job) /\ Len(job) > 1 /\ job' = Tail(job) /\ writePc' = "write"
         /\ UNCHANGED result
      \/ /\ ~(result = Head(job) /\ Len(job) > 1) /\ writePc' = "idle" /\ UNCHANGED job
         /\ result' = (IF ~(Len(asked) > 1) THEN result ELSE IF result = Head(job)
            THEN Write!Total(asked) ELSE -1)
  BY Zenon DEF Write!Returned, Write!Chunk
<1>8. wire <= Write!Total(asked)
  BY <1>0 DEF Facts
<1>9. ASSUME job' \in Seq(Nat), result' \in Nat \cup {-1}, writePc' \in {"write", "idle"}, Write!Parts',
             Write!Reported'
      PROVE  Write!WriteInv'
  <2>1. Write!Ranges
    BY DEF Write!WriteInv
  <2>2. Write!Ranges'
    BY <1>0, <1>1, <1>2, <1>9, <2>1, RangesAre DEF Facts
  <2>3. Write!Pushed' /\ Write!Charged'
    BY <1>2, <1>9 DEF Write!Pushed, Write!Charged, Write!InFirst, Write!WriteInv
  <2> QED
    BY <1>0, <1>2, <1>9, <2>2, <2>3 DEF Facts, Write!WriteInv
<1>10. CASE /\ result = Head(job) /\ Len(job) > 1 /\ job' = Tail(job) /\ writePc' = "write"
            /\ UNCHANGED result
  <2>1. out = Head(job) /\ Len(job') \in 1..3 /\ asked' = asked
        /\ wire' = Write!Total(asked) - Write!Total(Tail(job))
        /\ Len(asked) > 1
    <3>1. Len(asked) > 1
      BY <1>3, <1>10
    <3>2. out = Head(job)
      BY <1>3, <1>4, <1>10
    <3>3. Len(job') = Len(job) - 1 /\ Write!Total(Tail(job)) = Write!Total(job) - Head(job)
      BY <1>3, <1>10
    <3>4. Len(job') \in 1..3
      <4> DEFINE n == Len(job)
      <4>1. n \in 1..3 /\ n > 1 /\ Len(job') = n - 1
        BY <1>5, <1>10
      <4> HIDE DEF n
      <4> QED
        BY <4>1
    <3>5. asked' = asked /\ wire' = wire
      BY <1>2
    <3>6. wire = Write!Total(asked) - Write!Total(Tail(job))
      BY <1>3, <3>2, <3>3
    <3> QED
      BY <3>1, <3>2, <3>4, <3>5, <3>6
  <2>2. Write!Parts'
    BY <1>3, <1>10, <2>1 DEF Write!Parts, Write!Chunk
  <2>3. Write!Reported'
    BY <1>10 DEF Write!Reported
  <2> QED
    BY <1>3, <1>9, <1>10, <2>2, <2>3
<1>11. CASE /\ ~(result = Head(job) /\ Len(job) > 1) /\ writePc' = "idle" /\ UNCHANGED job
            /\ result' = (IF ~(Len(asked) > 1) THEN result ELSE IF result = Head(job)
               THEN Write!Total(asked) ELSE -1)
  <2>1. Write!Parts'
    BY <1>11 DEF Write!Parts
  <2>2. wire' = wire /\ Write!Total(asked)' = Write!Total(asked)
    BY <1>2
  <2>3. result' \in Nat \cup {-1} /\ result' <= wire /\ (result' # Write!Total(asked) => Write!Broken)
    <3>1. CASE ~(Len(asked) > 1)
      <4>1. job = asked /\ Len(job) = 1 /\ result' = result
        <5>1. Len(asked) = 1
          <6> DEFINE n == Len(asked)
          <6>1. n \in 1..3 /\ ~(n > 1)
            BY <1>5, <3>1
          <6> HIDE DEF n
          <6>2. n = 1
            BY <6>1
          <6> QED
            BY <6>2 DEF n
        <5>2. job = asked
          BY <1>3, <5>1
        <5> QED
          BY <1>11, <3>1, <5>1, <5>2
      <4>2. Write!Total(asked) = Head(job)
        BY <1>3, <4>1
      <4>3. result' <= wire
        BY <1>3, <1>4, <4>1
      <4> QED
        BY <1>3, <1>4, <4>1, <4>2, <4>3
    <3>2. CASE Len(asked) > 1 /\ result = Head(job)
      <4>1. result' = Write!Total(asked) /\ Write!Total(job) = Head(job)
        <5>1. Len(job) = 1
          BY <1>5, <1>11, <3>2
        <5> QED
          BY <1>3, <1>11, <3>2, <5>1
      <4>2. wire = Write!Total(asked)
        BY <1>3, <1>4, <3>2, <4>1
      <4> QED
        BY <1>3, <4>1, <4>2
    <3>3. CASE Len(asked) > 1 /\ result # Head(job)
      BY <1>3, <1>4, <1>11, <3>3
    <3> QED
      BY <1>3, <3>1, <3>2, <3>3
  <2>4. Write!Reported'
    BY <1>6, <1>8, <1>11, <2>2, <2>3 DEF Write!Reported
  <2> QED
    BY <1>3, <1>9, <1>11, <2>1, <2>3, <2>4
<1> QED
  BY <1>7, <1>10, <1>11

\* a handler calls,
LEMMA CallKeeps == ASSUME OneQuota, Write!WriteInv, NEW j \in Write!Writable, Calls(j) PROVE Write!WriteInv'
<1>0. Facts
  BY FactsOf
<1>1. WriteStep
  BY DEF WriteStep
<1>2. /\ job' = j /\ asked' = j /\ writePc' = "write" /\ wire' = 0 /\ out' = 0
      /\ UNCHANGED <<throttle, counted, lastBytes, total, allowed, nwritten, sentNow, open, stop,
           result>>
  BY DEF Calls
<1>3. j \in Seq(Nat) /\ Len(j) \in 1..3 /\ Write!Total(j) \in Nat
  BY TotalsAreNat DEF Write!Writable
<1>4. Write!Ranges'
  <2>1. Write!Ranges
    BY DEF Write!WriteInv
  <2> QED
    BY <1>0, <1>1, <1>2, <1>3, <2>1, RangesAre DEF Facts
<1>5. Write!Parts'
  BY <1>2, <1>3 DEF Write!Parts, Write!Chunk
<1>6. Write!Pushed' /\ Write!Reported'
  BY <1>2 DEF Write!Pushed, Write!Reported
<1>7. Write!Charged'
  BY <1>2 DEF Write!Charged, Write!InFirst, Write!WriteInv
<1> QED
  BY <1>0, <1>2, <1>4, <1>5, <1>6, <1>7 DEF Facts, Write!WriteInv

\* the next request has another quota,
LEMMA RequestKeeps == ASSUME OneQuota, Write!WriteInv, NEW t \in {0, Quota}, Write!NextRequest(t)
                      PROVE  Write!WriteInv'
<1>0. Facts
  BY FactsOf
<1>1. WriteStep
  BY DEF WriteStep
<1>2. /\ writePc = "idle" /\ throttle' = t
      /\ UNCHANGED <<counted, lastBytes, asked, job, total, allowed, nwritten, out, wire, sentNow,
           open, stop, writePc, result>>
  BY DEF Write!NextRequest, Write!call, Write!seen, Write!env
<1>4. Write!Ranges'
  <2>1. Write!Ranges
    BY DEF Write!WriteInv
  <2> QED
    BY <1>0, <1>1, <1>2, <2>1, RangesAre DEF Facts
<1>5. Write!Parts' /\ Write!Pushed'
  BY <1>2 DEF Write!Parts, Write!Pushed
<1>6. Write!Reported'
  <2>1. Write!Broken' = Write!Broken
    BY <1>2 DEF Write!Broken
  <2> QED
    BY <1>2, <2>1 DEF Write!Reported, Write!WriteInv
<1>7. Write!Charged'
  BY <1>2 DEF Write!Charged, Write!InFirst, Write!WriteInv
<1> QED
  BY <1>2, <1>4, <1>5, <1>6, <1>7, QuotaIs DEF Write!WriteInv

\* and the clock, the client and mg_stop().
LEMMA WorldKeeps == OneQuota /\ Write!WriteInv /\ (Write!Tick \/ Write!Leave \/ Write!Stop) => Write!WriteInv'
<1> SUFFICES ASSUME OneQuota, Write!WriteInv, Write!Tick \/ Write!Leave \/ Write!Stop PROVE Write!WriteInv'
  OBVIOUS
<1>0. Facts
  BY FactsOf
<1>1. WriteStep
  BY DEF WriteStep
<1>2. /\ UNCHANGED <<throttle, lastBytes, asked, job, total, allowed, nwritten, out, wire, writePc,
           result>>
      /\ sentNow' \in {0, sentNow}
  BY Zenon DEF Write!Tick, Write!Leave, Write!Stop, Write!quota, Write!call, Write!seen, Write!env
<1>3. Write!Ranges
  BY DEF Write!WriteInv
<1>4. Write!Broken => Write!Broken'
  BY <1>1, <1>3, FlagsStay
<1>5. Write!Ranges'
  BY <1>0, <1>1, <1>2, <1>3, RangesAre DEF Facts
<1>6. Write!Parts'
  BY <1>2 DEF Write!Parts, Write!Chunk, Write!WriteInv
<1>7. Write!Pushed'
  <2>1. (Write!Pushing' <=> Write!Pushing) /\ Write!Before' = Write!Before
    BY <1>2 DEF Write!Pushing, Write!Before, Write!InFirst
  <2> QED
    BY <1>2, <1>4, <2>1 DEF Write!Pushed, Write!WriteInv
<1>8. Write!Reported'
  BY <1>2, <1>4 DEF Write!Reported, Write!WriteInv
<1>9. Write!Charged'
  BY <1>2 DEF Write!Charged, Write!InFirst, Write!WriteInv
<1> QED
  BY <1>0, <1>2, <1>5, <1>6, <1>7, <1>8, <1>9 DEF Facts, Write!WriteInv

\* So every step keeps the invariant.
LEMMA WriteInvStep == OneQuota /\ Write!WriteInv /\ WriteStep => Write!WriteInv'
  BY WriteKeeps, SendKeeps, PushEndsKeeps, FirstDoneKeeps, AgainDoneKeeps, ReturnedKeeps,
     CallKeeps, RequestKeeps,
     WorldKeeps DEF WriteStep, Write!Work

-----------------------------------------------------------------------------
\* What this second has seen, in the places of the worker.
SeenFacts ==
  /\ writePc \in {"idle", "write", "returned"}
     => Write!Seen(Quota) = Quota + (IF counted THEN lastBytes ELSE 0)
  /\ writePc \in {"first", "firstDone"}
     => Write!Seen(Quota) = nwritten + (IF counted THEN Quota + lastBytes ELSE 0)
  /\ writePc = "again" => Write!Seen(Quota) = 2 * Quota + nwritten
  /\ writePc = "againDone" => Write!Seen(Quota) = 3 * Quota

\* By the places, whatever the flags.
LEMMA SeenIs == SeenFacts
<1>1. CASE writePc = "idle"
  BY <1>1 DEF SeenFacts, Write!Seen, Write!InFirst
<1>2. CASE writePc = "write"
  BY <1>2 DEF SeenFacts, Write!Seen, Write!InFirst
<1>3. CASE writePc = "returned"
  BY <1>3 DEF SeenFacts, Write!Seen, Write!InFirst
<1>4. CASE writePc \in {"first", "firstDone"}
  BY <1>4 DEF SeenFacts, Write!Seen, Write!InFirst
<1>5. CASE writePc = "again"
  BY <1>5 DEF SeenFacts, Write!Seen, Write!InFirst
<1>6. CASE writePc = "againDone"
  BY <1>6 DEF SeenFacts, Write!Seen, Write!InFirst
<1>7. CASE writePc \notin {"idle", "write", "returned", "first", "firstDone", "again", "againDone"}
  BY <1>7 DEF SeenFacts
<1> QED
  BY <1>1, <1>2, <1>3, <1>4, <1>5, <1>6, <1>7

\* No second sees more than three quotas.
LEMMA RateStep ==
  ASSUME OneQuota, Write!WriteInv, WriteStep, throttle = Quota, throttle' = Quota, Write!RateInv(Quota)
  PROVE  Write!RateInv(Quota)'
<1>0. Facts /\ Facts' /\ Write!WriteInv'
  <2>1. Write!WriteInv'
    BY WriteInvStep
  <2>2. Facts'
    BY <2>1, FactsOf, PTL
  <2> QED
    BY <2>1, <2>2, FactsOf
<1> DEFINE charged == IF counted THEN lastBytes ELSE 0
           granted == IF counted THEN Quota + lastBytes ELSE 0
           grant == Write!Seen(Quota)
           lost == Write!Broken
<1>1. /\ Quota \in Nat /\ Quota > 0 /\ lastBytes \in 0..Quota /\ lastBytes' \in 0..Quota
      /\ sentNow \in Nat
      /\ sentNow' \in Nat /\ nwritten \in Nat \cup {-1} /\ nwritten' \in Nat \cup {-1}
  BY <1>0 DEF Facts
<1>2. /\ charged \in 0..Quota /\ granted \in {0, Quota + lastBytes} /\ charged' \in 0..Quota
  BY <1>1
<1>3. /\ writePc \in {"idle", "write", "returned"} => grant = Quota + charged
      /\ writePc \in {"first", "firstDone"} => grant = nwritten + granted
      /\ writePc = "again" => grant = 2 * Quota + nwritten
      /\ writePc = "againDone" => grant = 3 * Quota
  BY SeenIs DEF SeenFacts
<1>4. /\ writePc' \in {"idle", "write", "returned"} => grant' = Quota + charged'
      /\ writePc' \in {"first", "firstDone"} => grant' = nwritten' + granted'
      /\ writePc' = "again" => grant' = 2 * Quota + nwritten'
      /\ writePc' = "againDone" => grant' = 3 * Quota
  <2>1. SeenFacts'
    BY SeenIs, PTL
  <2> QED
    BY <2>1 DEF SeenFacts
<1>5. sentNow <= 3 * Quota /\ (~lost => sentNow <= grant)
  BY DEF Write!RateInv
<1>6. lost => lost'
  BY FlagsStay DEF Write!WriteInv
<1>7. ASSUME writePc \in {"first", "again", "firstDone", "againDone"}
      PROVE  allowed \in Nat /\ nwritten <= allowed /\ (~Write!Pushing => (nwritten # allowed => lost))
             /\ (Write!Pushing => nwritten >= 0)
  <2>1. allowed \in Int /\ Write!Pushed
    BY <1>0 DEF Facts, Write!WriteInv
  <2> QED
    BY <1>7, <2>1 DEF Write!Pushed, Write!Pushing, lost
<1>8. ASSUME writePc \in {"first", "firstDone"} PROVE lastBytes + allowed <= Quota
  BY <1>1, <1>8 DEF Write!WriteInv, Write!Charged, Write!InFirst
<1>9. ASSUME writePc \in {"again", "againDone"} PROVE allowed <= Quota
  BY <1>9 DEF Write!WriteInv, Write!Charged
<1> HIDE DEF grant, lost
<1>10. SUFFICES sentNow' <= 3 * Quota /\ (~lost' => sentNow' <= grant')
  BY DEF Write!RateInv, grant, lost
<1>11. CASE writePc = "idle" /\ writePc' \in {"idle", "write"} /\ UNCHANGED <<counted, lastBytes, sentNow>>
  BY <1>3, <1>4, <1>5, <1>6, <1>11
<1>12. CASE Write!Write
  <2>1. /\ writePc = "write" /\ writePc' = "first" /\ sentNow' = sentNow /\ nwritten' = 0
    BY <1>12, Zenon DEF Write!Write
  <2>2. granted' = Quota + charged
    BY <1>12, <1>1 DEF Write!Write
  <2>3. grant' = grant
    <3>1. grant = Quota + charged
      BY <1>3, <2>1
    <3>2. grant' = 0 + granted'
      BY <1>4, <2>1
    <3> HIDE DEF charged, granted
    <3> QED
      BY <1>1, <1>2, <2>2, <3>1, <3>2
  <2> QED
    BY <1>5, <1>6, <2>1, <2>3
<1>13. CASE \E n \in 1 .. allowed : Write!Send(n)
  <2>1. PICK n \in 1 .. allowed : Write!Send(n)
    BY <1>13
  <2>2. /\ writePc \in {"first", "again"} /\ n <= allowed - nwritten /\ n \in Nat
        /\ sentNow' = sentNow + n /\ UNCHANGED <<counted, lastBytes, allowed>>
    BY <2>1, <1>7 DEF Write!Send, Write!Pushing, Write!quota
  <2>3. ~lost
    BY <2>1, Zenon DEF Write!Send, Write!Broken, lost
  <2>4. allowed \in Nat
    BY <1>7, <2>2
  <2>5. sentNow' <= 3 * Quota
    <3>1. CASE writePc = "first"
      BY <1>1, <1>2, <1>3, <1>5, <1>8, <2>2, <2>3, <2>4, <3>1
    <3>2. CASE writePc = "again"
      BY <1>1, <1>2, <1>3, <1>5, <1>9, <2>2, <2>3, <2>4, <3>2
    <3> QED
      BY <2>2, <3>1, <3>2
  <2>6. (writePc' = writePc /\ nwritten' = nwritten + n) \/ lost'
    <3>1. CASE stop'
      BY <3>1 DEF lost, Write!Broken
    <3>2. CASE ~stop'
      BY <2>1, <3>2 DEF Write!Send
    <3> QED
      BY <3>1, <3>2
  <2>7. granted' = granted
    BY <2>2
  <2> QED
    BY <1>1, <1>2, <1>3, <1>4, <1>5, <2>2, <2>3, <2>5, <2>6, <2>7
<1>14. CASE Write!PushEnds
  <2>1. /\ writePc \in {"first", "again"} /\ writePc' = (IF writePc = "first" THEN "firstDone" ELSE "againDone")
        /\ UNCHANGED <<counted, lastBytes, sentNow, allowed>>
    BY <1>14, Zenon DEF Write!PushEnds, Write!Pushing, Write!quota, Write!seen
  <2>2. nwritten' # allowed => lost'
    <3>1. ~Write!Pushing' /\ Write!Pushed'
      BY <1>0, <2>1 DEF Write!Pushing, Write!WriteInv
    <3> QED
      BY <2>1, <3>1 DEF Write!Pushed, lost
  <2>3. granted' = granted /\ allowed \in Nat /\ nwritten <= allowed
    BY <1>7, <2>1
  <2>4. CASE writePc = "first"
    BY <1>1, <1>2, <1>3, <1>4, <1>5, <1>6, <2>1, <2>2, <2>3, <2>4
  <2>5. CASE writePc = "again"
    BY <1>1, <1>2, <1>3, <1>4, <1>5, <1>6, <2>1, <2>2, <2>3, <2>5
  <2> QED
    BY <2>1, <2>4, <2>5
<1>15. CASE Write!FirstDone
  <2>1. writePc = "firstDone" /\ UNCHANGED <<counted, sentNow>>
    BY <1>15, Zenon DEF Write!FirstDone, Write!seen
  <2>2. CASE lost
    BY <1>5, <1>6, <2>1, <2>2
  <2>3. CASE ~lost
    <3>1. nwritten = allowed /\ allowed \in Nat /\ lastBytes + allowed <= Quota /\ throttle # 0
      BY <1>1, <1>7, <1>8, <2>1, <2>3 DEF Write!Pushing
    <3>2. lastBytes' = lastBytes + nwritten
          /\ ((writePc' = "again" /\ nwritten' = 0) \/ writePc' = "returned")
      BY <1>15, <3>1, Zenon DEF Write!FirstDone, Write!Turn
    <3>3. CASE counted
      <4>1. granted = Quota + lastBytes /\ charged' = lastBytes'
        BY <2>1, <3>3
      <4> QED
        BY <1>1, <1>3, <1>4, <1>5, <2>1, <2>3, <3>1, <3>2, <4>1
    <3>4. CASE ~counted
      <4>1. granted = 0
        BY <3>4
      <4> QED
        BY <1>1, <1>2, <1>3, <1>4, <1>5, <2>1, <2>3, <3>1, <3>2, <4>1
    <3> QED
      BY <3>3, <3>4
  <2> QED
    BY <2>2, <2>3
<1>16. CASE Write!AgainDone
  <2>1. writePc = "againDone"
    BY <1>16 DEF Write!AgainDone
  <2>2. CASE nwritten # allowed
    BY <1>5, <1>6, <1>7, <1>16, <2>1, <2>2 DEF Write!AgainDone, Write!Pushing
  <2>3. CASE nwritten = allowed
    <3>1. sentNow' = 0 /\ ((writePc' = "again" /\ nwritten' = 0) \/ writePc' = "returned")
      BY <1>16, <2>3, Zenon DEF Write!AgainDone, Write!Turn
    <3> QED
      BY <1>1, <1>2, <1>4, <3>1
  <2> QED
    BY <2>2, <2>3
<1>17. CASE Write!Returned
  <2>1. writePc = "returned" /\ writePc' \in {"write", "idle"} /\ UNCHANGED <<counted, lastBytes, sentNow>>
    BY <1>17, Zenon DEF Write!Returned, Write!quota, Write!seen
  <2> QED
    BY <1>3, <1>4, <1>5, <1>6, <2>1
<1>18. CASE Write!Tick
  <2>1. sentNow' = 0 /\ counted' = FALSE /\ UNCHANGED <<writePc, nwritten, allowed, open, stop>>
    BY <1>18 DEF Write!Tick, Write!call, Write!env
  <2>2. granted' = 0 /\ lost' = lost
    BY <2>1 DEF lost, Write!Broken
  <2>3. writePc \in {"first", "firstDone", "again"} => nwritten >= 0 \/ lost
    BY <1>7 DEF Write!Pushing
  <2>4. writePc \in {"idle", "write", "first", "again", "firstDone", "againDone", "returned"}
    BY <1>0 DEF Facts
  <2> QED
    BY <1>1, <1>2, <1>4, <2>1, <2>2, <2>3, <2>4
<1>19. CASE Write!Leave \/ Write!Stop
  <2>1. lost' /\ sentNow' = sentNow
    BY <1>19 DEF Write!Leave, Write!Stop, Write!Broken, lost, Write!seen
  <2> QED
    BY <1>5, <2>1
<1> QED
  <2>1. ASSUME NEW t \in {0, Quota}, Write!NextRequest(t) PROVE <1>11!1
    BY <2>1 DEF Write!NextRequest
  <2>2. ASSUME NEW j \in Write!Writable, Calls(j) PROVE <1>11!1
    BY <2>2 DEF Calls
  <2> QED
    BY <1>11, <1>12, <1>13, <1>14, <1>15, <1>16, <1>17, <1>18, <1>19, <2>1, <2>2 DEF WriteStep, Write!Work

-----------------------------------------------------------------------------
\* What the invariants promise to a handler and to the client.
LEMMA WritePromises ==
  OneQuota /\ Write!WriteInv => Write!Ranges /\ Write!ReportsAtMostWhatWent /\ Write!WholeUnlessBroken /\ Write!PartsInOrder
<1> SUFFICES ASSUME OneQuota, Write!WriteInv
             PROVE  Write!Ranges /\ Write!ReportsAtMostWhatWent /\ Write!WholeUnlessBroken /\ Write!PartsInOrder
  OBVIOUS
<1>1. Write!Ranges
  BY DEF Write!WriteInv
<1>2. Write!ReportsAtMostWhatWent
  BY Zenon DEF Write!WriteInv, Write!Reported, Write!ReportsAtMostWhatWent
<1>3. Write!WholeUnlessBroken
  BY Zenon DEF Write!WriteInv, Write!Reported, Write!WholeUnlessBroken, Write!Broken
<1>4. Write!PartsInOrder
  BY FactsOf DEF Facts, Write!PartsInOrder
<1> QED
  BY <1>1, <1>2, <1>3, <1>4

\* A connection that has sent nothing is within its quota.
LEMMA RateBegins ==
  OneQuota /\ Write!Init /\ throttle = Quota => Write!RateInv(Quota)
<1> SUFFICES ASSUME OneQuota, Write!Init, throttle = Quota PROVE Write!RateInv(Quota)
  OBVIOUS
<1>1. sentNow = 0 /\ writePc = "idle" /\ counted = FALSE
  BY DEF Write!Init
<1>2. Write!Seen(Quota) = Quota + (IF counted THEN lastBytes ELSE 0)
  BY <1>1, SeenIs DEF SeenFacts
<1> QED
  BY <1>1, <1>2, QuotaIs DEF Write!RateInv

-----------------------------------------------------------------------------
(* Responses.  A course of operations leads a client from one place in a   *)
(* response to another; every answer leads to where the response is        *)
(* complete or the connection will be closed, and so does what is still to *)
(* be done of it, at every step, errors and their callback included.       *)

(* A client's view of a response, and what operations make of it. *)
LEMMA AfterIs ==
  ASSUME NEW a \in Respond!Views, NEW o \in Respond!Operations
  PROVE  Respond!After(a, o) \in Respond!Views
<1>1. \A x \in {"none", "begun", "head", "body"} : [a EXCEPT !.at = x] \in Respond!Views
  BY DEF Respond!Views
<1>2. [a EXCEPT !.closes = TRUE] \in Respond!Views /\ [a EXCEPT !.at = "body", !.closes = TRUE] \in Respond!Views
  BY DEF Respond!Views
<1>3. \A x \in Int : [a EXCEPT !.told = x] \in Respond!Views /\ [a EXCEPT !.got = x] \in Respond!Views
  BY DEF Respond!Views
<1>4. \A v \in Respond!Views : [v EXCEPT !.room = v.room - 1] \in Respond!Views
  BY DEF Respond!Views
<1>5. \A h \in Respond!HeaderType : Respond!Told(a, h) \in Respond!Views
  <2> TAKE h \in Respond!HeaderType
  <2>1. a.told \in Int /\ h.v \in Int
    BY DEF Respond!Views, Respond!HeaderType
  <2> DEFINE x == IF h.name = "Content-Length" THEN h.v
                  ELSE IF h.name = "Transfer-Encoding" THEN -1 ELSE a.told
  <2>2. x \in Int /\ Respond!Told(a, h) = IF a.closes THEN a ELSE [a EXCEPT !.told = x]
    BY <2>1 DEF Respond!Told
  <2> HIDE DEF x
  <2> QED BY <1>3, <2>2
<1>6. \A i \in Respond!ItemType : Respond!AfterRaw(a, i) \in Respond!Views
  <2> TAKE i \in Respond!ItemType
  <2>1. CASE i.k = "header"
    <3>1. i \in Respond!HeaderType
      BY <2>1 DEF Respond!ItemType
    <3> QED BY <2>1, <3>1, <1>5 DEF Respond!AfterRaw
  <2>2. CASE i.k \in {"status", "blank"}
    BY <2>2, <1>1 DEF Respond!AfterRaw
  <2>3. CASE i.k = "body"
    <3>1. i.v \in Int /\ a.got \in Int
      BY <2>3 DEF Respond!ItemType, Respond!HeaderType, Respond!Views
    <3> DEFINE x == a.got + i.v
    <3>2. x \in Int /\ Respond!AfterRaw(a, i) = IF a.closes THEN a ELSE [a EXCEPT !.got = x]
      BY <2>3, <3>1 DEF Respond!AfterRaw
    <3> HIDE DEF x
    <3> QED BY <1>3, <3>2
  <2> QED BY <2>1, <2>2, <2>3 DEF Respond!ItemType, Respond!HeaderType
<1>7. CASE o.op = "add"
  <2>1. o.item \in Respond!HeaderType
    BY <1>7 DEF Respond!Operations
  <2>2. Respond!Told(a, o.item) \in Respond!Views
    BY <1>5, <2>1
  <2> QED BY <1>4, <1>7, <2>2 DEF Respond!After
<1>8. CASE o.op = "raw"
  <2>1. o.item \in Respond!ItemType
    BY <1>8 DEF Respond!Operations
  <2> QED BY <1>6, <1>8, <2>1 DEF Respond!After
<1>9. CASE o.op \notin {"add", "raw"}
  BY <1>1, <1>2, <1>9 DEF Respond!After
<1> QED BY <1>7, <1>8, <1>9

\* One operation.
LEMMA CourseOne ==
  ASSUME NEW a \in Respond!Views, NEW o \in Respond!Operations, Respond!Allowed(a, o)
  PROVE  Respond!Course(<<o>>, a, Respond!After(a, o))
<1> DEFINE b == Respond!After(a, o)
           p == <<o>>
           f == [i \in 0 .. 1 |-> IF i = 0 THEN a ELSE b]
<1>1. b \in Respond!Views
  BY AfterIs
<1>2. Len(p) = 1 /\ p[1] = o
  OBVIOUS
<1> HIDE DEF b, p
<1>3. f \in [0 .. Len(p) -> Respond!Views] /\ f[0] = a /\ f[Len(p)] = b
  BY <1>1, <1>2
<1>4. \A i \in 1 .. Len(p) : Respond!Allowed(f[i - 1], p[i]) /\ f[i] = Respond!After(f[i - 1], p[i])
  <2>1. Respond!Allowed(f[0], p[1]) /\ f[1] = Respond!After(f[0], p[1])
    <3>1. f[0] = a /\ f[1] = b
      BY <1>2, <1>3
    <3> HIDE DEF f
    <3> QED BY <1>2, <3>1 DEF b
  <2>2. ASSUME NEW i \in 1 .. Len(p) PROVE i = 1 /\ i - 1 = 0
    BY <1>2
  <2> HIDE DEF f
  <2> QED BY <2>1, <2>2
<1> HIDE DEF f
<1> QED BY <1>3, <1>4, <1>2 DEF Respond!Course, b, p

\* One course after another.
LEMMA CourseJoin ==
  ASSUME NEW S, NEW p \in Seq(S), NEW q \in Seq(S), NEW a, NEW b, NEW c,
         Respond!Course(p, a, b), Respond!Course(q, b, c)
  PROVE  Respond!Course(p \o q, a, c)
<1> DEFINE r == p \o q
<1>1. PICK f \in [0 .. Len(p) -> Respond!Views] :
        /\ f[0] = a /\ f[Len(p)] = b
        /\ \A i \in 1 .. Len(p) : Respond!Allowed(f[i - 1], p[i]) /\ f[i] = Respond!After(f[i - 1], p[i])
  BY DEF Respond!Course
<1>2. PICK g \in [0 .. Len(q) -> Respond!Views] :
        /\ g[0] = b /\ g[Len(q)] = c
        /\ \A i \in 1 .. Len(q) : Respond!Allowed(g[i - 1], q[i]) /\ g[i] = Respond!After(g[i - 1], q[i])
  BY DEF Respond!Course
<1> DEFINE m == Len(p)
           n == Len(q)
           h == [i \in 0 .. m + n |-> IF i <= m THEN f[i] ELSE g[i - m]]
<1>3. /\ m \in Nat /\ n \in Nat /\ Len(r) = m + n
      /\ \A i \in 1 .. m : r[i] = p[i]
      /\ \A i \in m + 1 .. m + n : r[i] = q[i - m]
  OBVIOUS
<1> HIDE DEF r
<1>4. \A i \in 0 .. m : i \in 0 .. m + n /\ h[i] = f[i]
  BY <1>3
<1>5. \A i \in m .. m + n : i \in 0 .. m + n /\ i - m \in 0 .. n /\ h[i] = g[i - m]
  <2> TAKE i \in m .. m + n
  <2>1. CASE i = m
    BY <1>1, <1>2, <1>3, <1>4, <2>1
  <2>2. CASE i > m
    BY <1>3, <2>2
  <2> QED BY <1>3, <2>1, <2>2
<1>0. h = [i \in 0 .. m + n |-> h[i]]
  OBVIOUS
<1> HIDE DEF h
<1>6. h \in [0 .. m + n -> Respond!Views]
  <2>1. ASSUME NEW i \in 0 .. m + n PROVE h[i] \in Respond!Views
    <3>1. CASE i \in 0 .. m
      BY <1>1, <1>4, <3>1
    <3>2. CASE i \in m .. m + n
      <4>1. i - m \in 0 .. n
        BY <1>3, <3>2
      <4> QED BY <1>2, <1>5, <3>2, <4>1
    <3> QED BY <1>3, <3>1, <3>2
  <2> QED BY <1>0, <2>1
<1>7. h[0] = a /\ h[m + n] = c
  <2>1. 0 \in 0 .. m /\ m + n \in m .. m + n /\ (m + n) - m = n
    BY <1>3
  <2> QED BY <1>1, <1>2, <1>4, <1>5, <2>1
<1>8. ASSUME NEW i \in 1 .. m + n
      PROVE  Respond!Allowed(h[i - 1], r[i]) /\ h[i] = Respond!After(h[i - 1], r[i])
  <2>1. CASE i <= m
    <3>1. i \in 1 .. m /\ i \in 0 .. m /\ i - 1 \in 0 .. m
      BY <1>3, <2>1
    <3>2. h[i] = f[i] /\ h[i - 1] = f[i - 1] /\ r[i] = p[i]
      BY <1>3, <1>4, <3>1
    <3> QED BY <1>1, <3>1, <3>2
  <2>2. CASE i > m
    <3>1. i \in m .. m + n /\ i - 1 \in m .. m + n /\ i \in m + 1 .. m + n /\ i - m \in 1 .. n
          /\ (i - 1) - m = (i - m) - 1
      BY <1>3, <2>2
    <3>2. h[i] = g[i - m] /\ h[i - 1] = g[(i - m) - 1] /\ r[i] = q[i - m]
      BY <1>3, <1>5, <3>1
    <3> QED BY <1>2, <3>1, <3>2
  <2> QED BY <1>3, <2>1, <2>2
<1> QED BY <1>3, <1>6, <1>7, <1>8 DEF Respond!Course, r

\* The first operation of a course, and the rest.
LEMMA CourseHead ==
  ASSUME NEW p \in Seq(Respond!Operations), p # <<>>, NEW a, NEW c, Respond!Course(p, a, c)
  PROVE  /\ a \in Respond!Views /\ Head(p) \in Respond!Operations /\ Tail(p) \in Seq(Respond!Operations)
         /\ Respond!Allowed(a, Head(p))
         /\ Respond!Course(Tail(p), Respond!After(a, Head(p)), c)
<1> DEFINE n == Len(p)
           t == Tail(p)
           o == Head(p)
<1>1. PICK f \in [0 .. n -> Respond!Views] :
        /\ f[0] = a /\ f[n] = c
        /\ \A i \in 1 .. n : Respond!Allowed(f[i - 1], p[i]) /\ f[i] = Respond!After(f[i - 1], p[i])
  BY DEF Respond!Course
<1>2. /\ n \in Nat /\ n > 0 /\ Len(t) = n - 1 /\ o = p[1] /\ o \in Respond!Operations
      /\ t \in Seq(Respond!Operations)
      /\ \A i \in 1 .. n - 1 : t[i] = p[i + 1]
  OBVIOUS
<1> HIDE DEF n, t, o
<1>3. f[0] \in Respond!Views /\ Respond!Allowed(f[0], p[1]) /\ f[1] = Respond!After(f[0], p[1])
  <2>1. 1 \in 1 .. n /\ 1 - 1 = 0 /\ 0 \in 0 .. n
    BY <1>2
  <2> QED BY <1>1, <2>1
<1> DEFINE m == n - 1
           g == [i \in 0 .. m |-> f[i + 1]]
<1>4. m \in Nat /\ Len(t) = m /\ m + 1 = n /\ \A i \in 0 .. m : i + 1 \in 0 .. n
  BY <1>2
<1> HIDE DEF m
<1>5. g \in [0 .. m -> Respond!Views] /\ g[0] = f[1] /\ g[m] = c
  <2>1. g \in [0 .. m -> Respond!Views]
    BY <1>1, <1>4
  <2>2. g[0] = f[0 + 1] /\ g[m] = f[m + 1]
    BY <1>4
  <2> QED BY <1>1, <1>4, <2>1, <2>2
<1>6. ASSUME NEW i \in 1 .. m
      PROVE  Respond!Allowed(g[i - 1], t[i]) /\ g[i] = Respond!After(g[i - 1], t[i])
  <2>1. i \in 0 .. m /\ i - 1 \in 0 .. m /\ i + 1 \in 1 .. n /\ (i - 1) + 1 = (i + 1) - 1 /\ i \in 1 .. n - 1
    BY <1>4
  <2>2. g[i] = f[i + 1] /\ g[i - 1] = f[(i + 1) - 1]
    BY <2>1
  <2>3. t[i] = p[i + 1]
    BY <1>2, <2>1
  <2> HIDE DEF g
  <2> QED BY <1>1, <2>1, <2>2, <2>3
<1> HIDE DEF g
<1>7. Respond!Course(t, f[1], c)
  BY <1>4, <1>5, <1>6 DEF Respond!Course
<1> QED BY <1>1, <1>2, <1>3, <1>7 DEF t, o

(* What is done for a request, before there is an error. *)
Ordinary == {o \in Respond!Operations : o.op # "left"}

(* What each operation is, where it is allowed, and what is known after it. *)
LEMMA PlainOps ==
  /\ \A code \in Respond!Codes : Respond!Start(code) \in Ordinary
  /\ Respond!Op("send") \in Ordinary /\ Respond!Op("close") \in Ordinary
  /\ \A a : /\ Respond!Allowed(a, Respond!Op("send")) /\ Respond!Allowed(a, Respond!Op("close"))
            /\ Respond!After(a, Respond!Op("send"))
                 = IF a.at = "begun" THEN [a EXCEPT !.at = "body"] ELSE a
            /\ Respond!After(a, Respond!Op("close")) = [a EXCEPT !.closes = TRUE]
  /\ \A a, code : /\ Respond!Allowed(a, Respond!Start(code))
                  /\ Respond!After(a, Respond!Start(code))
                       = IF a.at = "none" THEN [a EXCEPT !.at = "begun"] ELSE a
  BY DEF Ordinary, Respond!Start, Respond!Op, Respond!Operations, Respond!Allowed, Respond!After

\* An error, wherever the head is not being written by hand.
LEMMA ErrorOps ==
  /\ \A code \in Respond!Codes : Respond!Error(code) \in Ordinary
  /\ \A a, code : /\ a.at # "head" => Respond!Allowed(a, Respond!Error(code))
                  /\ Respond!After(a, Respond!Error(code)) = [a EXCEPT !.at = "body", !.closes = TRUE]
  BY DEF Ordinary, Respond!Error, Respond!Operations, Respond!Allowed, Respond!After

\* A header, where the connection will be closed.
LEMMA AddIs ==
  ASSUME NEW name \in Respond!Names, NEW n \in Nat
  PROVE  /\ Respond!Header(name, n) \in Respond!HeaderType
         /\ Respond!Add(name, n) \in Ordinary
         /\ \A a : a.closes => /\ Respond!Allowed(a, Respond!Add(name, n))
                               /\ Respond!After(a, Respond!Add(name, n)) = a
<1>1. Respond!Header(name, n) \in Respond!HeaderType
  BY DEF Respond!Header, Respond!HeaderType
<1>2. Respond!Add(name, n) \in Ordinary
  BY <1>1 DEF Ordinary, Respond!Add, Respond!Operations
<1>3. Respond!Add(name, n).op = "add"
  BY DEF Respond!Add
<1> QED BY <1>1, <1>2, <1>3 DEF Respond!Allowed, Respond!After, Respond!MayTell

(* What a client knows of a response after which the connection may be kept. *)
Open(place, told, room, have) == [at |-> place, told |-> told, room |-> room, got |-> have, closes |-> FALSE]

Places == {"none", "begun", "head", "body"}

\* Where a client is that may keep the connection.
LEMMA OpenIs ==
  ASSUME NEW place \in Places, NEW told \in Int, NEW room \in Int, NEW have \in Int
  PROVE  /\ Open(place, told, room, have) \in Respond!Views
         /\ Open(place, told, room, have).at = place /\ Open(place, told, room, have).told = told
         /\ Open(place, told, room, have).room = room /\ Open(place, told, room, have).got = have
         /\ ~Open(place, told, room, have).closes
  BY DEF Open, Respond!Views, Places

\* Where nothing is begun and nothing told.
LEMMA NothingYet ==
  ASSUME NEW room \in Int
  PROVE  LET o == Open("none", -2, room, 0)
         IN  o \in Respond!Views /\ o.at = "none" /\ o.told = -2 /\ o.room = room /\ o.got = 0 /\ ~o.closes
  BY SMTT(20) DEF Open, Respond!Views

\* What a header tells a client that may keep the connection.
LEMMA AddTells ==
  ASSUME NEW told \in Int, NEW room \in Int, room > 0, NEW have \in Int, NEW name \in Respond!Names, NEW n \in Int,
         name # "Connection", name \in Respond!Framing => told = -2
  PROVE  /\ Respond!Allowed(Open("begun", told, room, have), Respond!Add(name, n))
         /\ Respond!After(Open("begun", told, room, have), Respond!Add(name, n))
              = Open("begun", IF name = "Content-Length" THEN n
                              ELSE IF name = "Transfer-Encoding" THEN -1 ELSE told, room - 1, have)
<1> DEFINE o == Respond!Add(name, n)
           h == Respond!Header(name, n)
           a == Open("begun", told, room, have)
           x == IF name = "Content-Length" THEN n ELSE IF name = "Transfer-Encoding" THEN -1 ELSE told
           b == Open("begun", x, room, have)
<1>1. o.op = "add" /\ o.item = h /\ h.name = name /\ h.v = n
  BY DEF Respond!Add, Respond!Header
<1>0. x \in Int /\ room - 1 \in Int /\ "begun" \in Places
  BY DEF Places
<1> HIDE DEF o, h
<1>8. x = IF name = "Content-Length" THEN n ELSE IF name = "Transfer-Encoding" THEN -1 ELSE told
  OBVIOUS
<1> HIDE DEF x
<1>2. a.at = "begun" /\ a.told = told /\ a.room = room /\ ~a.closes /\ b.room = room
  BY <1>0, OpenIs
<1> DEFINE c == Open("begun", x, room - 1, have)
<1>3. /\ a \in Respond!Views /\ a.got = have
      /\ b \in Respond!Views /\ b.at = "begun" /\ b.told = x /\ b.got = have /\ ~b.closes
      /\ c \in Respond!Views /\ c.at = "begun" /\ c.told = x /\ c.got = have /\ ~c.closes /\ c.room = room - 1
  BY <1>0, OpenIs
<1> HIDE DEF a, b, c
<1>9. [a EXCEPT !.told = x] = b /\ [b EXCEPT !.room = b.room - 1] = c
  BY <1>2, <1>3 DEF Respond!Views
<1>4. x = IF name = "Content-Length" THEN n ELSE IF name = "Transfer-Encoding" THEN -1 ELSE a.told
  BY <1>2, <1>8
<1>5. Respond!Allowed(a, o)
  BY <1>1, <1>2 DEF Respond!Allowed, Respond!MayTell
<1>6. Respond!Told(a, h) = [a EXCEPT !.told = x]
  BY <1>1, <1>2, <1>4 DEF Respond!Told
<1>7. Respond!After(a, o) = [b EXCEPT !.room = b.room - 1]
  BY <1>1, <1>2, <1>6, <1>9 DEF Respond!After
<1> QED BY <1>5, <1>7, <1>9 DEF a, c, o, x

\* An item that is written by hand.
LEMMA RawIs ==
  ASSUME NEW item \in Respond!ItemType
  PROVE  /\ Respond!Raw(item) \in Ordinary
         /\ \A a : /\ Respond!Allowed(a, Respond!Raw(item))
                        <=> /\ a.at = Respond!Place[item.k]
                            /\ item.k = "header" => Respond!MayTell(a, item)
                   /\ Respond!After(a, Respond!Raw(item)) = Respond!AfterRaw(a, item)
<1>1. Respond!Raw(item) \in Ordinary
  BY DEF Ordinary, Respond!Raw, Respond!Operations
<1>2. Respond!Raw(item).op = "raw" /\ Respond!Raw(item).item = item
  BY DEF Respond!Raw
<1> QED BY <1>1, <1>2 DEF Respond!Allowed, Respond!After

\* Bytes of a body.
LEMMA BytesAre ==
  ASSUME NEW n \in Nat
  PROVE  /\ Respond!Raw(Respond!Bytes(n)) \in Ordinary
         /\ \A a : /\ Respond!Allowed(a, Respond!Raw(Respond!Bytes(n))) <=> a.at = "body"
                   /\ Respond!After(a, Respond!Raw(Respond!Bytes(n)))
                        = IF a.closes THEN a ELSE [a EXCEPT !.got = @ + n]
<1>1. Respond!Bytes(n) \in Respond!ItemType /\ Respond!Bytes(n).k = "body" /\ Respond!Bytes(n).v = n
  BY DEF Respond!Bytes, Respond!ItemType
<1>2. Respond!Place["body"] = "body"
  BY DEF Respond!Place
<1>3. \A a : Respond!AfterRaw(a, Respond!Bytes(n)) = IF a.closes THEN a ELSE [a EXCEPT !.got = @ + n]
  BY <1>1 DEF Respond!AfterRaw
<1> QED BY <1>1, <1>2, <1>3, RawIs

\* Status codes are numbers.
LEMMA CodesAre == \A c \in Respond!Codes : c \in Int
  BY DEF Respond!Codes

\* Status line and blank line, written by hand.
LEMMA LinesAre ==
  ASSUME NEW code \in Int
  PROVE  /\ Respond!Raw(Respond!Line(code)) \in Ordinary
         /\ Respond!Raw(Respond!Blank) \in Ordinary
         /\ \A a : /\ Respond!Allowed(a, Respond!Raw(Respond!Line(code))) <=> a.at = "none"
                   /\ Respond!After(a, Respond!Raw(Respond!Line(code))) = [a EXCEPT !.at = "head"]
                   /\ Respond!Allowed(a, Respond!Raw(Respond!Blank)) <=> a.at = "head"
                   /\ Respond!After(a, Respond!Raw(Respond!Blank)) = [a EXCEPT !.at = "body"]
<1>1. /\ Respond!Line(code) \in Respond!ItemType /\ Respond!Line(code).k = "status"
      /\ Respond!Blank \in Respond!ItemType /\ Respond!Blank.k = "blank"
  BY DEF Respond!Line, Respond!Blank, Respond!ItemType, Respond!Codes
<1>2. Respond!Place["status"] = "none" /\ Respond!Place["blank"] = "head"
  BY DEF Respond!Place
<1>3. \A a : /\ Respond!AfterRaw(a, Respond!Line(code)) = [a EXCEPT !.at = "head"]
             /\ Respond!AfterRaw(a, Respond!Blank) = [a EXCEPT !.at = "body"]
  BY <1>1 DEF Respond!AfterRaw
<1>6. /\ Respond!Place[Respond!Line(code).k] = "none" /\ Respond!Line(code).k # "header"
      /\ Respond!Place[Respond!Blank.k] = "head" /\ Respond!Blank.k # "header"
  BY <1>1, <1>2
<1>4. /\ \A a : Respond!Allowed(a, Respond!Raw(Respond!Line(code))) <=> a.at = "none"
      /\ \A a : Respond!After(a, Respond!Raw(Respond!Line(code))) = [a EXCEPT !.at = "head"]
      /\ Respond!Raw(Respond!Line(code)) \in Ordinary
  BY <1>1, <1>6, <1>3, RawIs
<1>5. /\ \A a : Respond!Allowed(a, Respond!Raw(Respond!Blank)) <=> a.at = "head"
      /\ \A a : Respond!After(a, Respond!Raw(Respond!Blank)) = [a EXCEPT !.at = "body"]
      /\ Respond!Raw(Respond!Blank) \in Ordinary
  BY <1>1, <1>6, <1>3, RawIs
<1> QED BY <1>4, <1>5

\* A header that is written by hand.
LEMMA RawHeaderIs ==
  ASSUME NEW name \in Respond!Names, NEW n \in Nat
  PROVE  /\ Respond!Raw(Respond!Header(name, n)) \in Ordinary
         /\ \A a : /\ Respond!Allowed(a, Respond!Raw(Respond!Header(name, n)))
                        <=> a.at = "head" /\ Respond!MayTell(a, Respond!Header(name, n))
                   /\ Respond!After(a, Respond!Raw(Respond!Header(name, n)))
                        = Respond!Told(a, Respond!Header(name, n))
<1>1. Respond!Header(name, n) \in Respond!ItemType /\ Respond!Header(name, n).k = "header"
  BY DEF Respond!Header, Respond!ItemType, Respond!HeaderType
<1>2. Respond!Place["header"] = "head"
  BY DEF Respond!Place
<1> QED BY <1>1, <1>2, RawIs DEF Respond!AfterRaw

\* No operation.
LEMMA CourseNone == ASSUME NEW a \in Respond!Views PROVE Respond!Course(<<>>, a, a)
<1> DEFINE f == [i \in 0 .. 0 |-> a]
           p == <<>>
<1>1. f \in [0 .. 0 -> Respond!Views] /\ f[0] = a /\ Len(p) = 0 /\ 1 .. 0 = {}
  OBVIOUS
<1> HIDE DEF f, p
<1>2. Respond!Course(p, a, a)
  BY <1>1 DEF Respond!Course
<1> QED BY <1>2 DEF p

\* An operation, and a course from there.
LEMMA CourseCons ==
  ASSUME NEW p \in Seq(Respond!Operations), p # <<>>, NEW a \in Respond!Views, NEW c,
         Respond!Allowed(a, Head(p)), Respond!Course(Tail(p), Respond!After(a, Head(p)), c)
  PROVE  Respond!Course(p, a, c)
<1> DEFINE n == Len(p)
           t == Tail(p)
           o == Head(p)
           b == Respond!After(a, o)
           m == n - 1
<1>1. /\ n \in Nat /\ n > 0 /\ m \in Nat /\ m + 1 = n /\ Len(t) = m /\ o = p[1]
      /\ \A i \in 1 .. m : t[i] = p[i + 1]
  OBVIOUS
<1>0. Respond!Allowed(a, o) /\ Respond!Course(t, b, c)
  OBVIOUS
<1> HIDE DEF n, t, o, m
<1>2. PICK g \in [0 .. m -> Respond!Views] :
        /\ g[0] = b /\ g[m] = c
        /\ \A i \in 1 .. m : Respond!Allowed(g[i - 1], t[i]) /\ g[i] = Respond!After(g[i - 1], t[i])
  BY <1>0, <1>1 DEF Respond!Course
<1> DEFINE f == [i \in 0 .. n |-> IF i = 0 THEN a ELSE g[i - 1]]
<1>3. f \in [0 .. n -> Respond!Views]
  BY <1>1
<1>4. f[0] = a /\ \A i \in 1 .. n : f[i] = g[i - 1]
  BY <1>1
<1> HIDE DEF f
<1>5. f[n] = c
  BY <1>1, <1>2, <1>4
<1>6. ASSUME NEW i \in 1 .. n
      PROVE  Respond!Allowed(f[i - 1], p[i]) /\ f[i] = Respond!After(f[i - 1], p[i])
  <2>1. CASE i = 1
    <3>1. f[1] = g[0] /\ 1 - 1 = 0
      BY <1>1, <1>4
    <3>2. Respond!Allowed(f[0], p[1]) /\ f[1] = Respond!After(f[0], p[1])
      BY <1>0, <1>1, <1>2, <1>4, <3>1
    <3> QED BY <2>1, <3>1, <3>2
  <2>2. CASE i > 1
    <3>1. i - 1 \in 1 .. n /\ i - 1 \in 1 .. m /\ (i - 1) + 1 = i
      BY <1>1, <2>2
    <3>2. f[i] = g[i - 1] /\ f[i - 1] = g[(i - 1) - 1] /\ t[i - 1] = p[i]
      BY <1>1, <1>4, <3>1
    <3> QED BY <1>2, <3>1, <3>2
  <2> QED BY <2>1, <2>2
<1> QED BY <1>1, <1>3, <1>4, <1>5, <1>6 DEF Respond!Course, n

\* Two, three and five operations.
LEMMA CourseTwo ==
  ASSUME NEW o1 \in Respond!Operations, NEW o2 \in Respond!Operations,
         NEW a0 \in Respond!Views, NEW a1 \in Respond!Views, NEW a2 \in Respond!Views,
         Respond!Allowed(a0, o1), Respond!After(a0, o1) = a1,
         Respond!Allowed(a1, o2), Respond!After(a1, o2) = a2
  PROVE  Respond!Course(<<o1, o2>>, a0, a2)
<1> DEFINE p1 == <<o1, o2>>
           p2 == <<o2>>
<1>0. /\ p1 \in Seq(Respond!Operations) /\ p1 # <<>> /\ Head(p1) = o1 /\ Tail(p1) = p2
      /\ p2 \in Seq(Respond!Operations) /\ p2 # <<>> /\ Head(p2) = o2
  OBVIOUS
<1>2. Respond!Course(p2, a1, a2)
  BY CourseOne
<1> HIDE DEF p1, p2
<1>1. Respond!Course(p1, a0, a2)
  BY <1>0, <1>2, CourseCons
<1> QED BY <1>1 DEF p1

LEMMA CourseThree ==
  ASSUME NEW o1 \in Respond!Operations, NEW o2 \in Respond!Operations, NEW o3 \in Respond!Operations,
         NEW a0 \in Respond!Views, NEW a1 \in Respond!Views, NEW a2 \in Respond!Views, NEW a3 \in Respond!Views,
         Respond!Allowed(a0, o1), Respond!After(a0, o1) = a1,
         Respond!Allowed(a1, o2), Respond!After(a1, o2) = a2,
         Respond!Allowed(a2, o3), Respond!After(a2, o3) = a3
  PROVE  Respond!Course(<<o1, o2, o3>>, a0, a3)
<1> DEFINE p1 == <<o1, o2, o3>>
           p2 == <<o2, o3>>
           p3 == <<o3>>
<1>0. /\ p1 \in Seq(Respond!Operations) /\ p1 # <<>> /\ Head(p1) = o1 /\ Tail(p1) = p2
      /\ p2 \in Seq(Respond!Operations) /\ p2 # <<>> /\ Head(p2) = o2 /\ Tail(p2) = p3
      /\ p3 \in Seq(Respond!Operations) /\ p3 # <<>> /\ Head(p3) = o3
  OBVIOUS
<1>3. Respond!Course(p3, a2, a3)
  BY CourseOne
<1> HIDE DEF p1, p2, p3
<1>2. Respond!Course(p2, a1, a3)
  BY <1>0, <1>3, CourseCons
<1>1. Respond!Course(p1, a0, a3)
  BY <1>0, <1>2, CourseCons
<1> QED BY <1>1 DEF p1

LEMMA CourseFive ==
  ASSUME NEW o1 \in Respond!Operations, NEW o2 \in Respond!Operations, NEW o3 \in Respond!Operations, NEW o4 \in Respond!Operations, NEW o5 \in Respond!Operations,
         NEW a0 \in Respond!Views, NEW a1 \in Respond!Views, NEW a2 \in Respond!Views, NEW a3 \in Respond!Views, NEW a4 \in Respond!Views, NEW a5 \in Respond!Views,
         Respond!Allowed(a0, o1), Respond!After(a0, o1) = a1,
         Respond!Allowed(a1, o2), Respond!After(a1, o2) = a2,
         Respond!Allowed(a2, o3), Respond!After(a2, o3) = a3,
         Respond!Allowed(a3, o4), Respond!After(a3, o4) = a4,
         Respond!Allowed(a4, o5), Respond!After(a4, o5) = a5
  PROVE  Respond!Course(<<o1, o2, o3, o4, o5>>, a0, a5)
<1> DEFINE p1 == <<o1, o2, o3, o4, o5>>
           p2 == <<o2, o3, o4, o5>>
           p3 == <<o3, o4, o5>>
           p4 == <<o4, o5>>
           p5 == <<o5>>
<1>0. /\ p1 \in Seq(Respond!Operations) /\ p1 # <<>> /\ Head(p1) = o1 /\ Tail(p1) = p2
      /\ p2 \in Seq(Respond!Operations) /\ p2 # <<>> /\ Head(p2) = o2 /\ Tail(p2) = p3
      /\ p3 \in Seq(Respond!Operations) /\ p3 # <<>> /\ Head(p3) = o3 /\ Tail(p3) = p4
      /\ p4 \in Seq(Respond!Operations) /\ p4 # <<>> /\ Head(p4) = o4 /\ Tail(p4) = p5
      /\ p5 \in Seq(Respond!Operations) /\ p5 # <<>> /\ Head(p5) = o5
  OBVIOUS
<1>5. Respond!Course(p5, a4, a5)
  BY CourseOne
<1> HIDE DEF p1, p2, p3, p4, p5
<1>4. Respond!Course(p4, a3, a5)
  BY <1>0, <1>5, CourseCons
<1>3. Respond!Course(p3, a2, a5)
  BY <1>0, <1>4, CourseCons
<1>2. Respond!Course(p2, a1, a5)
  BY <1>0, <1>3, CourseCons
<1>1. Respond!Course(p1, a0, a5)
  BY <1>0, <1>2, CourseCons
<1> QED BY <1>1 DEF p1

\* All but the operation that leaves a callback.
LEMMA Ordinaries ==
  /\ Ordinary \subseteq Respond!Operations /\ Seq(Ordinary) \subseteq Seq(Respond!Operations)
  /\ \A p \in Seq(Ordinary) : Respond!Lefts(p) = {}
<1>1. Ordinary \subseteq Respond!Operations /\ \A o \in Ordinary : o.op # "left"
  BY DEF Ordinary
<1>2. ASSUME NEW p \in Seq(Ordinary) PROVE Respond!Lefts(p) = {} /\ p \in Seq(Respond!Operations)
  <2>1. \A i \in 1 .. Len(p) : p[i] \in Ordinary
    OBVIOUS
  <2> QED BY <1>1, <2>1 DEF Respond!Lefts
<1> QED BY <1>1, <1>2

(* Where an error leaves the client, and the page that is sent for it. *)
Closing(a) == [a EXCEPT !.at = "body", !.closes = TRUE]

\* The page for an error.
LEMMA PageGoes ==
  ASSUME NEW a \in Respond!Views, a.at # "head", NEW code \in Respond!Codes
  PROVE  Respond!PageOps(code) \in Seq(Ordinary) /\ Respond!Course(Respond!PageOps(code), a, Closing(a))
<1> DEFINE a1 == [a EXCEPT !.closes = TRUE]
           a2 == IF a1.at = "none" THEN [a1 EXCEPT !.at = "begun"] ELSE a1
           c  == Closing(a)
           o1 == Respond!Op("close")
           o2 == Respond!Start(code)
           o3 == Respond!Add("Cache-Control", 0)
           o4 == Respond!Add("Content-Type", 0)
           o5 == Respond!Op("send")
           o6 == Respond!Raw(Respond!Bytes(9))
           head == <<o1, o2, o3>>
           more == IF Respond!Bodiless(code) THEN <<o5>> ELSE <<o4, o5, o6>>
<1>1. /\ a1 \in Respond!Views /\ a2 \in Respond!Views /\ c \in Respond!Views
      /\ a1.closes /\ a2.closes /\ c.closes /\ c.at = "body"
      /\ c = IF a2.at = "begun" THEN [a2 EXCEPT !.at = "body"] ELSE a2
  BY DEF Respond!Views, Closing
<1>2. /\ o1 \in Ordinary /\ o2 \in Ordinary /\ o5 \in Ordinary
      /\ Respond!Allowed(a, o1) /\ Respond!After(a, o1) = a1
      /\ Respond!Allowed(a1, o2) /\ Respond!After(a1, o2) = a2
      /\ Respond!Allowed(a2, o5) /\ Respond!After(a2, o5) = c
  BY <1>1, PlainOps
<1> HIDE DEF a1, a2, c
<1>3. /\ o3 \in Ordinary /\ o4 \in Ordinary
      /\ Respond!Allowed(a2, o3) /\ Respond!After(a2, o3) = a2
      /\ Respond!Allowed(a2, o4) /\ Respond!After(a2, o4) = a2
  <2>1. "Cache-Control" \in Respond!Names /\ "Content-Type" \in Respond!Names
    BY DEF Respond!Names
  <2>2. o3 \in Ordinary /\ \A v : v.closes => Respond!Allowed(v, o3) /\ Respond!After(v, o3) = v
    BY <2>1, AddIs
  <2>3. o4 \in Ordinary /\ \A v : v.closes => Respond!Allowed(v, o4) /\ Respond!After(v, o4) = v
    BY <2>1, AddIs
  <2> HIDE DEF o3, o4
  <2> QED BY <1>1, <2>2, <2>3
<1>4. o6 \in Ordinary /\ Respond!Allowed(c, o6) /\ Respond!After(c, o6) = c
  BY <1>1, BytesAre
<1>5. Respond!PageOps(code) = head \o more
  BY DEF Respond!PageOps
<1> HIDE DEF o1, o2, o3, o4, o5, o6
<1>6. head \in Seq(Ordinary) /\ more \in Seq(Ordinary)
  BY <1>2, <1>3, <1>4
<1>7. Respond!Course(head, a, a2)
  BY <1>1, <1>2, <1>3, Ordinaries, CourseThree
<1>8. Respond!Course(more, a2, c)
  <2>1. Respond!Course(<<o5>>, a2, c)
    BY <1>1, <1>2, Ordinaries, CourseOne
  <2>2. Respond!Course(<<o4, o5, o6>>, a2, c)
    BY <1>1, <1>2, <1>3, <1>4, Ordinaries, CourseThree
  <2> QED BY <2>1, <2>2
<1> HIDE DEF head, more
<1>9. Respond!Course(head \o more, a, c) /\ head \o more \in Seq(Ordinary)
  BY <1>6, <1>7, <1>8, CourseJoin
<1> QED BY <1>5, <1>9 DEF c

(* The head that mg_send_http_ok() sends: where the connection closes, and where it may not. *)
LEMMA OkGoes ==
  ASSUME NEW a \in Respond!Views, a.closes, a.at # "head", NEW n \in Int
  PROVE  /\ Respond!OkOps(n) \in Seq(Ordinary)
         /\ Respond!Course(Respond!OkOps(n), a, [a EXCEPT !.at = "body"])
<1> DEFINE b  == IF a.at = "none" THEN [a EXCEPT !.at = "begun"] ELSE a
           c  == [a EXCEPT !.at = "body"]
           o1 == Respond!Start(200)
           o2 == Respond!Add("Cache-Control", 0)
           o3 == Respond!Add("Content-Type", 0)
           o4 == IF n < 0 THEN Respond!Add("Transfer-Encoding", 0) ELSE Respond!Add("Content-Length", n)
           o5 == Respond!Op("send")
<1>1. /\ b \in Respond!Views /\ c \in Respond!Views /\ b.closes
      /\ c = IF b.at = "begun" THEN [b EXCEPT !.at = "body"] ELSE b
  BY DEF Respond!Views
<1>2. /\ o1 \in Ordinary /\ Respond!Allowed(a, o1) /\ Respond!After(a, o1) = b
      /\ o5 \in Ordinary /\ Respond!Allowed(b, o5) /\ Respond!After(b, o5) = c
  <2>1. 200 \in Respond!Codes
    BY DEF Respond!Codes
  <2> QED BY <1>1, <2>1, PlainOps
<1>5. Respond!OkOps(n) = <<o1, o2, o3, o4, o5>>
  BY DEF Respond!OkOps
<1> HIDE DEF b, c, o1, o5
<1>3. /\ o2 \in Ordinary /\ \A v : v.closes => Respond!Allowed(v, o2) /\ Respond!After(v, o2) = v
      /\ o3 \in Ordinary /\ \A v : v.closes => Respond!Allowed(v, o3) /\ Respond!After(v, o3) = v
  <2>1. "Cache-Control" \in Respond!Names /\ "Content-Type" \in Respond!Names
    BY DEF Respond!Names
  <2>2. o2 \in Ordinary /\ \A v : v.closes => Respond!Allowed(v, o2) /\ Respond!After(v, o2) = v
    BY <2>1, AddIs
  <2>3. o3 \in Ordinary /\ \A v : v.closes => Respond!Allowed(v, o3) /\ Respond!After(v, o3) = v
    BY <2>1, AddIs
  <2> QED BY <2>2, <2>3
<1>4. o4 \in Ordinary /\ \A v : v.closes => Respond!Allowed(v, o4) /\ Respond!After(v, o4) = v
  <2>1. "Transfer-Encoding" \in Respond!Names /\ "Content-Length" \in Respond!Names
    BY DEF Respond!Names, Respond!Framing
  <2> DEFINE x == Respond!Add("Transfer-Encoding", 0)
             y == Respond!Add("Content-Length", n)
  <2>2. x \in Ordinary /\ \A v : v.closes => Respond!Allowed(v, x) /\ Respond!After(v, x) = v
    BY <2>1, AddIs
  <2>3. ASSUME ~(n < 0) PROVE y \in Ordinary /\ \A v : v.closes => Respond!Allowed(v, y) /\ Respond!After(v, y) = v
    <3>1. n \in Nat
      BY <2>3
    <3> QED BY <2>1, <3>1, AddIs
  <2> HIDE DEF x, y
  <2>4. o4 = IF n < 0 THEN x ELSE y
    BY DEF x, y
  <2> HIDE DEF o4
  <2> QED BY <2>2, <2>3, <2>4
<1> HIDE DEF o2, o3, o4
<1>6. <<o1, o2, o3, o4, o5>> \in Seq(Ordinary)
  BY <1>2, <1>3, <1>4
<1>7. Respond!Course(<<o1, o2, o3, o4, o5>>, a, c)
  BY <1>1, <1>2, <1>3, <1>4, Ordinaries, CourseFive
<1> QED BY <1>5, <1>6, <1>7 DEF c

\* The length that mg_send_http_ok() is given.
LEMMA OkTells ==
  ASSUME NEW room \in Int, room >= 3, NEW have \in Int, NEW n \in Int
  PROVE  Respond!Course(Respond!OkOps(n), Open("none", -2, room, have),
                        Open("body", IF n < 0 THEN -1 ELSE n, room - 3, have))
<1> DEFINE told == IF n < 0 THEN -1 ELSE n
           a  == Open("none", -2, room, have)
           b1 == Open("begun", -2, room, have)
           b2 == Open("begun", -2, room - 1, have)
           b3 == Open("begun", -2, room - 2, have)
           b4 == Open("begun", told, room - 3, have)
           c  == Open("body", told, room - 3, have)
           o1 == Respond!Start(200)
           o2 == Respond!Add("Cache-Control", 0)
           o3 == Respond!Add("Content-Type", 0)
           x  == Respond!Add("Transfer-Encoding", 0)
           y  == Respond!Add("Content-Length", n)
           o4 == IF n < 0 THEN x ELSE y
           o5 == Respond!Op("send")
<1>0. told \in Int /\ (n < 0 => told = -1) /\ (~(n < 0) => told = n)
  OBVIOUS
<1>10. /\ "none" \in Places /\ "begun" \in Places /\ "body" \in Places /\ -2 \in Int
       /\ room - 1 \in Int /\ room - 2 \in Int /\ room - 3 \in Int
  BY DEF Places
<1>5. Respond!OkOps(n) = <<o1, o2, o3, o4, o5>>
  BY DEF Respond!OkOps
<1>6. /\ "Cache-Control" \in Respond!Names /\ "Cache-Control" \notin Respond!Framing
      /\ "Content-Type" \in Respond!Names /\ "Content-Type" \notin Respond!Framing
      /\ "Transfer-Encoding" \in Respond!Names /\ "Content-Length" \in Respond!Names
  BY DEF Respond!Names, Respond!Framing
<1> HIDE DEF told
<1>1. /\ a \in Respond!Views /\ b1 \in Respond!Views /\ b2 \in Respond!Views /\ b3 \in Respond!Views
      /\ b4 \in Respond!Views /\ c \in Respond!Views
  BY <1>0, <1>10, OpenIs
<1>2. o1 \in Ordinary /\ Respond!Allowed(a, o1) /\ Respond!After(a, o1) = b1
  <2>1. 200 \in Respond!Codes
    BY DEF Respond!Codes
  <2>2. /\ a \in Respond!Views /\ a.at = "none" /\ a.told = -2 /\ a.room = room /\ a.got = have /\ ~a.closes
        /\ b1 \in Respond!Views /\ b1.at = "begun" /\ b1.told = -2 /\ b1.room = room /\ b1.got = have
        /\ ~b1.closes
    BY <1>10, OpenIs
  <2> HIDE DEF a, b1
  <2>3. [a EXCEPT !.at = "begun"] = b1
    BY <2>2 DEF Respond!Views
  <2> QED BY <2>1, <2>2, <2>3, PlainOps
<1>3. Respond!Allowed(b1, o2) /\ Respond!After(b1, o2) = b2 /\ o2 \in Ordinary
  <2>1. o2 \in Ordinary
    BY <1>6, AddIs
  <2>2. room - 1 \in Int /\ room > 0 /\ "Cache-Control" # "Connection"
    OBVIOUS
  <2> QED BY <1>6, <2>1, <2>2, AddTells
<1>4. Respond!Allowed(b2, o3) /\ Respond!After(b2, o3) = b3 /\ o3 \in Ordinary
  <2>1. o3 \in Ordinary
    BY <1>6, AddIs
  <2> DEFINE r == room - 1
  <2>2. r \in Int /\ r > 0 /\ "Content-Type" # "Connection" /\ r - 1 = room - 2
    OBVIOUS
  <2> HIDE DEF r
  <2>3. /\ Respond!Allowed(Open("begun", -2, r, have), o3)
        /\ Respond!After(Open("begun", -2, r, have), o3) = Open("begun", -2, r - 1, have)
    BY <1>6, <2>2, AddTells
  <2> QED BY <2>1, <2>2, <2>3 DEF r
<1>7. Respond!Allowed(b3, o4) /\ Respond!After(b3, o4) = b4 /\ o4 \in Ordinary
  <2>1. x \in Ordinary
    BY <1>6, AddIs
  <2>6. ASSUME ~(n < 0) PROVE y \in Ordinary
    <3>1. n \in Nat
      BY <2>6
    <3> QED BY <1>6, <3>1, AddIs
  <2> DEFINE r == room - 2
  <2>2. r \in Int /\ r > 0 /\ r - 1 = room - 3
    OBVIOUS
  <2> HIDE DEF r
  <2>3. /\ Respond!Allowed(Open("begun", -2, r, have), x)
        /\ Respond!After(Open("begun", -2, r, have), x) = Open("begun", -1, r - 1, have)
    BY <1>6, <2>2, AddTells
  <2>4. /\ Respond!Allowed(Open("begun", -2, r, have), y)
        /\ Respond!After(Open("begun", -2, r, have), y) = Open("begun", n, r - 1, have)
    BY <1>6, <2>2, AddTells
  <2> HIDE DEF x, y
  <2>5. b3 = Open("begun", -2, r, have) /\ b4 = Open("begun", told, r - 1, have)
    BY <2>2 DEF r
  <2> HIDE DEF b3, b4
  <2> QED BY <1>0, <2>1, <2>3, <2>4, <2>5, <2>6
<1>8. o5 \in Ordinary /\ Respond!Allowed(b4, o5) /\ Respond!After(b4, o5) = c
  <2>1. /\ b4 \in Respond!Views /\ b4.at = "begun" /\ b4.told = told /\ b4.room = room - 3 /\ b4.got = have
        /\ ~b4.closes
        /\ c \in Respond!Views /\ c.at = "body" /\ c.told = told /\ c.room = room - 3 /\ c.got = have /\ ~c.closes
    BY <1>0, <1>10, OpenIs
  <2> HIDE DEF b4, c
  <2>2. [b4 EXCEPT !.at = "body"] = c
    BY <2>1 DEF Respond!Views
  <2> QED BY <2>1, <2>2, PlainOps
<1> HIDE DEF a, b1, b2, b3, b4, c, o1, o2, o3, o4, o5
<1>9. Respond!Course(<<o1, o2, o3, o4, o5>>, a, c)
  BY <1>1, <1>2, <1>3, <1>4, <1>7, <1>8, Ordinaries, CourseFive
<1> QED BY <1>5, <1>9 DEF a, c, told

(* The user's callback for errors closes. *)
LEMMA CallbackGoes ==
  ASSUME NEW c \in Respond!CallbackType, c.by # "none", NEW a \in Respond!Views, a.at # "head"
  PROVE  /\ Respond!CallbackOps(c) \in Seq(Ordinary)
         /\ Respond!Course(Respond!CallbackOps(c), a, Closing(a))
<1>1. CASE c.by = "page"
  <2> DEFINE o == Respond!Op("close")
             p == Respond!OkOps(c.body)
             r == Respond!Raw(Respond!Bytes(c.body))
             b == [a EXCEPT !.closes = TRUE]
             d == Closing(a)
  <2>1. c.body \in Nat
    BY <1>1 DEF Respond!CallbackType
  <2>2. /\ b \in Respond!Views /\ d \in Respond!Views /\ b.closes /\ b.at # "head" /\ d.closes
        /\ d.at = "body" /\ d = [b EXCEPT !.at = "body"]
    BY DEF Respond!Views, Closing
  <2>3. o \in Ordinary /\ Respond!Allowed(a, o) /\ Respond!After(a, o) = b
    BY PlainOps
  <2>4. r \in Ordinary /\ Respond!Allowed(d, r) /\ Respond!After(d, r) = d
    BY <2>1, <2>2, BytesAre
  <2>5. Respond!CallbackOps(c) = (<<o>> \o p) \o <<r>>
    BY <1>1 DEF Respond!CallbackOps
  <2> HIDE DEF b, d, o, r
  <2>6. p \in Seq(Ordinary) /\ Respond!Course(p, b, d)
    BY <2>1, <2>2, OkGoes
  <2> HIDE DEF p
  <2>7. Respond!Course(<<o>>, a, b) /\ Respond!Course(<<r>>, d, d)
    BY <2>2, <2>3, <2>4, Ordinaries, CourseOne
  <2>8. <<o>> \in Seq(Ordinary) /\ <<r>> \in Seq(Ordinary) /\ <<o>> \o p \in Seq(Ordinary)
    BY <2>3, <2>4, <2>6
  <2>9. Respond!Course(<<o>> \o p, a, d)
    BY <2>6, <2>7, <2>8, CourseJoin
  <2> DEFINE q == <<o>> \o p
             u == <<r>>
  <2> HIDE DEF q, u
  <2>10. Respond!Course(q \o u, a, d) /\ q \o u \in Seq(Ordinary)
    <3>1. /\ q \in Seq(Ordinary) /\ u \in Seq(Ordinary)
          /\ Respond!Course(q, a, d) /\ Respond!Course(u, d, d)
      BY <2>7, <2>8, <2>9 DEF q, u
    <3> QED BY <3>1, CourseJoin
  <2> QED BY <2>5, <2>10 DEF d, q, u
<1>2. CASE c.by = "error"
  <2> DEFINE o == Respond!Error(c.status)
  <2>1. c.status \in Respond!Codes
    BY <1>2 DEF Respond!CallbackType
  <2>2. o \in Ordinary /\ Respond!Allowed(a, o) /\ Respond!After(a, o) = Closing(a)
    BY <2>1, ErrorOps DEF Closing
  <2>3. Respond!CallbackOps(c) = <<o>>
    BY <1>2 DEF Respond!CallbackOps
  <2> HIDE DEF o
  <2> QED BY <2>2, <2>3, Ordinaries, CourseOne
<1> QED BY <1>1, <1>2 DEF Respond!CallbackType

\* Operations that change nothing for the client.
LEMMA CourseStays ==
  ASSUME NEW S, NEW p \in Seq(S), NEW a \in Respond!Views,
         \A i \in 1 .. Len(p) : Respond!Allowed(a, p[i]) /\ Respond!After(a, p[i]) = a
  PROVE  Respond!Course(p, a, a)
<1> DEFINE n == Len(p)
           f == [i \in 0 .. n |-> a]
<1>1. n \in Nat /\ f \in [0 .. n -> Respond!Views] /\ f[0] = a /\ f[n] = a
  OBVIOUS
<1>2. \A i \in 1 .. n : f[i] = a /\ f[i - 1] = a
  OBVIOUS
<1> HIDE DEF f
<1>3. \A i \in 1 .. n : Respond!Allowed(f[i - 1], p[i]) /\ f[i] = Respond!After(f[i - 1], p[i])
  BY <1>2
<1> QED BY <1>1, <1>3 DEF Respond!Course

(* Where the connection closes, only where the client is matters. *)
LEMMA ClosingIs ==
  ASSUME NEW a \in Respond!Views, a.closes
  PROVE  /\ [a EXCEPT !.at = "begun"] \in Respond!Views /\ [a EXCEPT !.at = "begun"].closes
         /\ [a EXCEPT !.at = "begun"].at = "begun"
         /\ [a EXCEPT !.at = "head"] \in Respond!Views /\ [a EXCEPT !.at = "head"].closes
         /\ [a EXCEPT !.at = "head"].at = "head"
         /\ [a EXCEPT !.at = "body"] \in Respond!Views /\ [a EXCEPT !.at = "body"].closes
         /\ [a EXCEPT !.at = "body"].at = "body"
         /\ [[a EXCEPT !.at = "begun"] EXCEPT !.at = "body"] = [a EXCEPT !.at = "body"]
         /\ [[a EXCEPT !.at = "head"] EXCEPT !.at = "body"] = [a EXCEPT !.at = "body"]
  BY DEF Respond!Views

\* Where the connection will be closed, all items have their place.
LEMMA RawCloses ==
  ASSUME NEW a \in Respond!Views, a.closes, a.at = "head", NEW name \in Respond!Names, NEW n \in Nat
  PROVE  /\ Respond!Allowed(a, Respond!Raw(Respond!Header(name, n)))
         /\ Respond!After(a, Respond!Raw(Respond!Header(name, n))) = a
<1>1. Respond!MayTell(a, Respond!Header(name, n)) /\ Respond!Told(a, Respond!Header(name, n)) = a
  BY DEF Respond!MayTell, Respond!Told
<1> QED BY <1>1, RawHeaderIs

(* The body of an answer. *)
LEMMA BodyCloses ==
  ASSUME NEW a \in Respond!Views, a.closes, a.at = "body", NEW s \in Seq(Nat)
  PROVE  LET p == [i \in 1 .. Len(s) |-> Respond!Raw(Respond!Bytes(s[i]))]
         IN  p \in Seq(Ordinary) /\ Respond!Course(p, a, a)
<1> DEFINE p == [i \in 1 .. Len(s) |-> Respond!Raw(Respond!Bytes(s[i]))]
<1>1. \A i \in 1 .. Len(s) : s[i] \in Nat
  OBVIOUS
<1>2. \A n \in Nat : /\ Respond!Raw(Respond!Bytes(n)) \in Ordinary
                     /\ Respond!Allowed(a, Respond!Raw(Respond!Bytes(n)))
                     /\ Respond!After(a, Respond!Raw(Respond!Bytes(n))) = a
  BY BytesAre
<1>3. p \in Seq(Ordinary) /\ Len(p) = Len(s)
  BY <1>1, <1>2
<1>4. \A i \in 1 .. Len(p) : Respond!Allowed(a, p[i]) /\ Respond!After(a, p[i]) = a
  BY <1>1, <1>2, <1>3
<1> HIDE DEF p
<1>5. p \in Seq(Ordinary) /\ Respond!Course(p, a, a)
  BY <1>3, <1>4, CourseStays
<1> QED BY <1>5 DEF p

(* The answer of R where the connection closes. *)
LEMMA HandlerCloses ==
  ASSUME NEW a \in Respond!Views, a.closes, a.at = "none", NEW x \in Respond!AnswerType, x.by = "R",
         Respond!Taken(x)
  PROVE  /\ Respond!HandlerOps(x) \in Seq(Ordinary)
         /\ Respond!Course(Respond!HandlerOps(x), a, [a EXCEPT !.at = "body"])
<1> DEFINE put(name, n) == IF x.manual THEN Respond!Raw(Respond!Header(name, n)) ELSE Respond!Add(name, n)
           first == IF x.manual THEN <<Respond!Raw(Respond!Line(x.status)), Respond!Op("close")>>
                    ELSE <<Respond!Start(x.status)>>
           names == [i \in 1 .. Len(x.names) |-> put(x.names[i], 0)]
           type  == IF Respond!Contains(x.names, "Content-Type") THEN <<>> ELSE <<put("Content-Type", 0)>>
           len   == <<put("Content-Length", x.body)>>
           end   == IF x.manual THEN <<Respond!Raw(Respond!Blank)>> ELSE <<Respond!Op("send")>>
           body  == IF x.body > 0 THEN <<Respond!Raw(Respond!Bytes(x.body))>> ELSE <<>>
           b     == IF x.manual THEN [a EXCEPT !.at = "head"] ELSE [a EXCEPT !.at = "begun"]
           c     == [a EXCEPT !.at = "body"]
<1>1. Respond!HandlerOps(x) = first \o names \o type \o len \o end \o body
  BY DEF Respond!HandlerOps
<1>2. /\ x.status \in Int /\ (x.manual \/ x.status \in Respond!Codes) /\ x.manual \in BOOLEAN
      /\ x.names \in Seq(Respond!Names) /\ x.body \in Nat
      /\ \A i \in 1 .. Len(x.names) : x.names[i] \in Respond!Names
      /\ "Content-Type" \in Respond!Names /\ "Content-Length" \in Respond!Names
  BY DEF Respond!AnswerType, Respond!Taken, Respond!Names, Respond!Framing
<1>3. /\ b \in Respond!Views /\ b.closes /\ c \in Respond!Views /\ c.closes /\ c.at = "body"
      /\ b.at = IF x.manual THEN "head" ELSE "begun"
      /\ c = [b EXCEPT !.at = "body"]
  BY <1>2, ClosingIs
<1>4. first \in Seq(Ordinary) /\ Respond!Course(first, a, b)
  <2>1. CASE x.manual
    <3> DEFINE o == Respond!Raw(Respond!Line(x.status))
               q == Respond!Op("close")
    <3>1. o \in Ordinary /\ Respond!Allowed(a, o) /\ Respond!After(a, o) = b
      BY <1>2, <2>1, LinesAre
    <3>2. q \in Ordinary /\ Respond!Allowed(b, q) /\ Respond!After(b, q) = [b EXCEPT !.closes = TRUE]
      BY PlainOps
    <3>3. [b EXCEPT !.closes = TRUE] = b
      BY <1>3 DEF Respond!Views
    <3> HIDE DEF o, q, b
    <3>4. <<o, q>> \in Seq(Ordinary)
      BY <3>1, <3>2
    <3>5. o \in Respond!Operations /\ q \in Respond!Operations /\ Respond!After(b, q) = b
      BY <3>1, <3>2, <3>3, Ordinaries
    <3>6. Respond!Course(<<o, q>>, a, b)
      BY <1>3, <3>1, <3>2, <3>5, CourseTwo
    <3> QED BY <2>1, <3>4, <3>6 DEF o, q
  <2>2. CASE ~x.manual
    <3> DEFINE o == Respond!Start(x.status)
    <3>1. o \in Ordinary /\ Respond!Allowed(a, o) /\ Respond!After(a, o) = b
      BY <1>2, <2>2, PlainOps
    <3> HIDE DEF o, b
    <3>2. <<o>> \in Seq(Ordinary) /\ Respond!Course(<<o>>, a, b)
      BY <1>3, <3>1, Ordinaries, CourseOne
    <3> QED BY <2>2, <3>2 DEF o
  <2> QED BY <1>2, <2>1, <2>2
<1> HIDE DEF b, c, first
<1>5. \A name \in Respond!Names, n \in Nat :
        put(name, n) \in Ordinary /\ Respond!Allowed(b, put(name, n)) /\ Respond!After(b, put(name, n)) = b
  <2> TAKE name \in Respond!Names, n \in Nat
  <2>1. CASE x.manual
    BY <1>3, <2>1, RawCloses, RawHeaderIs
  <2>2. CASE ~x.manual
    BY <1>3, <2>2, AddIs
  <2> QED BY <2>1, <2>2
<1> HIDE DEF put
<1>6. names \in Seq(Ordinary) /\ Respond!Course(names, b, b)
  <2>1. /\ names \in Seq(Ordinary) /\ Len(names) = Len(x.names)
        /\ \A i \in 1 .. Len(names) : Respond!Allowed(b, names[i]) /\ Respond!After(b, names[i]) = b
    BY <1>2, <1>5
  <2> HIDE DEF names
  <2> QED BY <1>3, <2>1, CourseStays
<1>7. type \in Seq(Ordinary) /\ Respond!Course(type, b, b)
  BY <1>2, <1>3, <1>5, Ordinaries, CourseOne, CourseNone
<1>8. len \in Seq(Ordinary) /\ Respond!Course(len, b, b)
  BY <1>2, <1>3, <1>5, Ordinaries, CourseOne
<1>9. end \in Seq(Ordinary) /\ Respond!Course(end, b, c)
  <2>1. CASE x.manual
    <3> DEFINE o == Respond!Raw(Respond!Blank)
    <3>1. o \in Ordinary /\ Respond!Allowed(b, o) /\ Respond!After(b, o) = c
      BY <1>2, <1>3, <2>1, LinesAre
    <3> HIDE DEF o
    <3>2. <<o>> \in Seq(Ordinary) /\ Respond!Course(<<o>>, b, c)
      BY <1>3, <3>1, Ordinaries, CourseOne
    <3> QED BY <2>1, <3>2 DEF o
  <2>2. CASE ~x.manual
    <3> DEFINE o == Respond!Op("send")
    <3>1. o \in Ordinary /\ Respond!Allowed(b, o) /\ Respond!After(b, o) = c
      BY <1>2, <1>3, <2>2, PlainOps
    <3> HIDE DEF o
    <3>2. <<o>> \in Seq(Ordinary) /\ Respond!Course(<<o>>, b, c)
      BY <1>3, <3>1, Ordinaries, CourseOne
    <3> QED BY <2>2, <3>2 DEF o
  <2> QED BY <1>2, <2>1, <2>2
<1>10. body \in Seq(Ordinary) /\ Respond!Course(body, c, c)
  <2> DEFINE o == Respond!Raw(Respond!Bytes(x.body))
  <2>1. o \in Ordinary /\ Respond!Allowed(c, o) /\ Respond!After(c, o) = c
    BY <1>2, <1>3, BytesAre
  <2> HIDE DEF o
  <2>2. <<o>> \in Seq(Ordinary) /\ Respond!Course(<<o>>, c, c)
    BY <1>3, <2>1, Ordinaries, CourseOne
  <2>3. Respond!Course(<<>>, c, c) /\ <<>> \in Seq(Ordinary)
    BY <1>3, CourseNone
  <2> QED BY <2>2, <2>3 DEF o
<1> HIDE DEF names, type, len, end, body
<1> DEFINE p2 == first \o names
           p3 == p2 \o type
           p4 == p3 \o len
           p5 == p4 \o end
           p6 == p5 \o body
<1>11. p2 \in Seq(Ordinary) /\ Respond!Course(p2, a, b)
  BY <1>4, <1>6, CourseJoin
<1> HIDE DEF p2
<1>12. p3 \in Seq(Ordinary) /\ Respond!Course(p3, a, b)
  BY <1>7, <1>11, CourseJoin
<1> HIDE DEF p3
<1>13. p4 \in Seq(Ordinary) /\ Respond!Course(p4, a, b)
  BY <1>8, <1>12, CourseJoin
<1> HIDE DEF p4
<1>14. p5 \in Seq(Ordinary) /\ Respond!Course(p5, a, c)
  BY <1>9, <1>13, CourseJoin
<1> HIDE DEF p5
<1>15. p6 \in Seq(Ordinary) /\ Respond!Course(p6, a, c)
  BY <1>10, <1>14, CourseJoin
<1>16. Respond!HandlerOps(x) = p6
  BY <1>1 DEF p2, p3, p4, p5
<1> QED BY <1>15, <1>16 DEF c

(* The answers of server.c without R, and redirects, where the connection closes. *)
LEMMA ShortCloses ==
  ASSUME NEW a \in Respond!Views, a.closes, a.at = "none", NEW code \in Respond!Codes
  PROVE  /\ Respond!ShortOps(code) \in Seq(Ordinary)
         /\ Respond!Course(Respond!ShortOps(code), a, [a EXCEPT !.at = "body"])
<1> DEFINE b  == [a EXCEPT !.at = "head"]
           c  == [a EXCEPT !.at = "body"]
           o1 == Respond!Raw(Respond!Line(code))
           o2 == Respond!Raw(Respond!Header("Connection", 0))
           o3 == Respond!Raw(Respond!Header("Content-Length", 0))
           o4 == Respond!Raw(Respond!Blank)
           p  == <<o1>>
           q  == IF code = 200 THEN <<o2>> ELSE <<>>
           r  == <<o3, o4>>
<1>1. /\ b \in Respond!Views /\ b.closes /\ b.at = "head" /\ c \in Respond!Views
      /\ c = [b EXCEPT !.at = "body"]
  BY ClosingIs
<1>2. o1 \in Ordinary /\ Respond!Allowed(a, o1) /\ Respond!After(a, o1) = b
  BY CodesAre, LinesAre
<1>6. Respond!ShortOps(code) = p \o q \o r
  BY DEF Respond!ShortOps
<1> HIDE DEF b, c
<1>0. "Connection" \in Respond!Names /\ "Content-Length" \in Respond!Names
  BY DEF Respond!Names, Respond!Framing
<1>3. o2 \in Ordinary /\ Respond!Allowed(b, o2) /\ Respond!After(b, o2) = b
  BY <1>0, <1>1, RawCloses, RawHeaderIs
<1>4. o3 \in Ordinary /\ Respond!Allowed(b, o3) /\ Respond!After(b, o3) = b
  BY <1>0, <1>1, RawCloses, RawHeaderIs
<1>5. o4 \in Ordinary /\ Respond!Allowed(b, o4) /\ Respond!After(b, o4) = c
  BY <1>1, CodesAre, LinesAre
<1> HIDE DEF o1, o2, o3, o4
<1>7. p \in Seq(Ordinary) /\ Respond!Course(p, a, b)
  BY <1>1, <1>2, Ordinaries, CourseOne
<1>8. q \in Seq(Ordinary) /\ Respond!Course(q, b, b)
  BY <1>1, <1>3, Ordinaries, CourseOne, CourseNone
<1>9. r \in Seq(Ordinary)
  BY <1>4, <1>5
<1>10. Respond!Course(r, b, c)
  <2>1. o3 \in Respond!Operations /\ o4 \in Respond!Operations
    BY <1>4, <1>5, Ordinaries
  <2> QED BY <1>1, <1>4, <1>5, <2>1, CourseTwo
<1> DEFINE s == p \o q
<1> HIDE DEF p, q, r
<1>11. s \in Seq(Ordinary) /\ Respond!Course(s, a, b)
  BY <1>7, <1>8, CourseJoin
<1> HIDE DEF s
<1>12. s \o r \in Seq(Ordinary) /\ Respond!Course(s \o r, a, c)
  BY <1>9, <1>10, <1>11, CourseJoin
<1> QED BY <1>6, <1>12 DEF s, c

\* A redirection, where the connection will be closed.
LEMMA RedirectCloses ==
  ASSUME NEW a \in Respond!Views, a.closes, a.at = "none", NEW code \in Respond!Codes
  PROVE  /\ Respond!RedirectOps(code) \in Seq(Ordinary)
         /\ \E b \in Respond!Views : b.closes /\ Respond!Course(Respond!RedirectOps(code), a, b)
<1> DEFINE b  == [a EXCEPT !.at = "begun"]
           c  == [a EXCEPT !.at = "body"]
           o1 == Respond!Start(code)
           o2 == Respond!Add("Location", 0)
           o3 == Respond!Add("Cache-Control", 0)
           o4 == Respond!Add("Content-Length", 0)
           o5 == Respond!Op("send")
<1>1. /\ b \in Respond!Views /\ b.closes /\ b.at = "begun" /\ c \in Respond!Views /\ c.closes
      /\ c = [b EXCEPT !.at = "body"]
  BY ClosingIs
<1>2. o1 \in Ordinary /\ Respond!Allowed(a, o1) /\ Respond!After(a, o1) = b
  BY PlainOps
<1>3. Respond!RedirectOps(code) \in {<<>>, <<o1, o2, o3, o4, o5>>}
  BY DEF Respond!RedirectOps
<1> HIDE DEF b, c
<1>4. o5 \in Ordinary /\ Respond!Allowed(b, o5) /\ Respond!After(b, o5) = c
  BY <1>1, PlainOps
<1>5. "Location" \in Respond!Names /\ "Cache-Control" \in Respond!Names /\ "Content-Length" \in Respond!Names
  BY DEF Respond!Names, Respond!Framing
<1>6. o2 \in Ordinary /\ Respond!Allowed(b, o2) /\ Respond!After(b, o2) = b
  BY <1>1, <1>5, AddIs
<1>7. o3 \in Ordinary /\ Respond!Allowed(b, o3) /\ Respond!After(b, o3) = b
  BY <1>1, <1>5, AddIs
<1>8. o4 \in Ordinary /\ Respond!Allowed(b, o4) /\ Respond!After(b, o4) = b
  BY <1>1, <1>5, AddIs
<1> HIDE DEF o1, o2, o3, o4, o5
<1>9. <<o1, o2, o3, o4, o5>> \in Seq(Ordinary)
  BY <1>2, <1>4, <1>6, <1>7, <1>8
<1>10. Respond!Course(<<o1, o2, o3, o4, o5>>, a, c)
  BY <1>1, <1>2, <1>4, <1>6, <1>7, <1>8, Ordinaries, CourseFive
<1>11. Respond!Course(<<>>, a, a) /\ <<>> \in Seq(Ordinary)
  BY CourseNone
<1> QED BY <1>1, <1>3, <1>9, <1>10, <1>11

(* What follows the head of mg_send_http_ok(). *)
LEMMA OkThen ==
  ASSUME NEW a \in Respond!Views, a.closes, a.at = "none", NEW n \in Int, NEW p \in Seq(Ordinary),
         NEW b, Respond!Course(p, [a EXCEPT !.at = "body"], b)
  PROVE  Respond!OkOps(n) \o p \in Seq(Ordinary) /\ Respond!Course(Respond!OkOps(n) \o p, a, b)
<1> DEFINE q == Respond!OkOps(n)
           c == [a EXCEPT !.at = "body"]
<1>1. q \in Seq(Ordinary) /\ Respond!Course(q, a, c) /\ Respond!Course(p, c, b)
  BY OkGoes
<1> HIDE DEF q, c
<1>2. q \o p \in Seq(Ordinary) /\ Respond!Course(q \o p, a, b)
  BY <1>1, CourseJoin
<1> QED BY <1>2 DEF q

(* Any answer, where the connection closes. *)
LEMMA AnswerCloses ==
  ASSUME NEW a \in Respond!Views, a.closes, a.at = "none", NEW x \in Respond!AnswerType, Respond!Taken(x)
  PROVE  /\ Respond!Answer(x) \in Seq(Ordinary)
         /\ \E b \in Respond!Views : b.closes /\ Respond!Course(Respond!Answer(x), a, b)
<1> DEFINE c == [a EXCEPT !.at = "body"]
<1>1. c \in Respond!Views /\ c.closes /\ c.at = "body" /\ [c EXCEPT !.at = "body", !.closes = TRUE] = c
  BY DEF Respond!Views
<1>2. CASE x.by = "R"
  BY <1>1, <1>2, HandlerCloses DEF Respond!Answer
<1>3. CASE x.by = "server"
  <2>1. x.status \in Respond!Codes
    BY <1>3 DEF Respond!AnswerType
  <2> QED BY <1>1, <1>3, <2>1, ShortCloses DEF Respond!Answer
<1>4. CASE x.by = "redirect"
  <2>1. x.status \in Respond!Codes
    BY <1>4 DEF Respond!AnswerType
  <2> QED BY <1>4, <2>1, RedirectCloses DEF Respond!Answer
<1>5. CASE x.by = "error"
  <2> DEFINE o == Respond!Error(x.status)
  <2>1. x.status \in Respond!Codes
    BY <1>5 DEF Respond!AnswerType
  <2>2. o \in Ordinary /\ Respond!Allowed(a, o)
        /\ Respond!After(a, o) = [a EXCEPT !.at = "body", !.closes = TRUE]
    BY <2>1, ErrorOps
  <2>3. [a EXCEPT !.at = "body", !.closes = TRUE] = c
    BY DEF Respond!Views
  <2>4. Respond!Answer(x) = <<o>>
    BY <1>5 DEF Respond!Answer
  <2> HIDE DEF o, c
  <2>5. <<o>> \in Seq(Ordinary) /\ Respond!Course(<<o>>, a, c)
    BY <2>2, <2>3, Ordinaries, CourseOne
  <2> QED BY <1>1, <2>4, <2>5
<1>6. CASE x.by = "ok"
  <2> DEFINE o == Respond!Raw(Respond!Bytes(x.body))
             p == <<o>>
  <2>1. x.body \in Nat /\ x.body \in Int
    BY <1>6 DEF Respond!AnswerType
  <2>2. o \in Ordinary /\ Respond!Allowed(c, o) /\ Respond!After(c, o) = c
    BY <1>1, <2>1, BytesAre
  <2>3. Respond!Answer(x) = Respond!OkOps(x.body) \o p
    BY <1>6 DEF Respond!Answer
  <2> HIDE DEF o
  <2>4. p \in Seq(Ordinary) /\ Respond!Course(p, c, c)
    BY <1>1, <2>2, Ordinaries, CourseOne
  <2> HIDE DEF p
  <2>5. Respond!OkOps(x.body) \o p \in Seq(Ordinary) /\ Respond!Course(Respond!OkOps(x.body) \o p, a, c)
    BY <2>1, <2>4, OkThen
  <2> HIDE DEF c
  <2> QED BY <1>1, <2>3, <2>5
<1>7. CASE x.by = "parts"
  <2> DEFINE p == [i \in 1 .. Len(x.parts) |-> Respond!Raw(Respond!Bytes(x.parts[i]))]
  <2>1. x.parts \in Seq(Nat)
    BY <1>7 DEF Respond!AnswerType
  <2>2. p \in Seq(Ordinary) /\ Respond!Course(p, c, c)
    BY <1>1, <2>1, BodyCloses
  <2>3. Respond!Answer(x) = Respond!OkOps(-1) \o p
    BY <1>7 DEF Respond!Answer
  <2> HIDE DEF p
  <2>5. Respond!OkOps(-1) \o p \in Seq(Ordinary) /\ Respond!Course(Respond!OkOps(-1) \o p, a, c)
    BY <2>2, OkThen
  <2> HIDE DEF c
  <2> QED BY <1>1, <2>3, <2>5
<1>8. CASE x.by = "fails"
  <2> DEFINE o == Respond!Error(x.status)
             p == <<o>>
  <2>1. x.body \in Int /\ x.status \in Respond!Codes
    BY <1>8 DEF Respond!AnswerType
  <2>2. o \in Ordinary /\ Respond!Allowed(c, o) /\ Respond!After(c, o) = c
    BY <1>1, <2>1, ErrorOps
  <2>3. Respond!Answer(x) = Respond!OkOps(x.body) \o p
    BY <1>8 DEF Respond!Answer
  <2> HIDE DEF o
  <2>4. p \in Seq(Ordinary) /\ Respond!Course(p, c, c)
    BY <1>1, <2>2, Ordinaries, CourseOne
  <2> HIDE DEF p
  <2>5. Respond!OkOps(x.body) \o p \in Seq(Ordinary) /\ Respond!Course(Respond!OkOps(x.body) \o p, a, c)
    BY <2>1, <2>4, OkThen
  <2> HIDE DEF c
  <2> QED BY <1>1, <2>3, <2>5
<1>9. CASE x.by = "closing"
  <2> DEFINE o == Respond!Raw(Respond!Bytes(x.body))
             p == <<o>>
             q == <<Respond!Op("close")>>
             r == Respond!OkOps(x.body)
  <2>1. x.body \in Nat /\ x.body \in Int
    BY <1>9 DEF Respond!AnswerType
  <2>2. o \in Ordinary /\ Respond!Allowed(c, o) /\ Respond!After(c, o) = c
    BY <1>1, <2>1, BytesAre
  <2>3. Respond!Answer(x) = q \o r \o p
    BY <1>9 DEF Respond!Answer
  <2> HIDE DEF o
  <2>4. p \in Seq(Ordinary) /\ Respond!Course(p, c, c)
    BY <1>1, <2>2, Ordinaries, CourseOne
  <2>5. q \in Seq(Ordinary) /\ Respond!Course(q, a, a)
    <3> DEFINE e == Respond!Op("close")
    <3>1. [a EXCEPT !.closes = TRUE] = a
      BY DEF Respond!Views
    <3>2. e \in Ordinary /\ Respond!Allowed(a, e) /\ Respond!After(a, e) = a
      BY <3>1, PlainOps
    <3> HIDE DEF e
    <3>3. <<e>> \in Seq(Ordinary) /\ Respond!Course(<<e>>, a, a)
      BY <3>2, Ordinaries, CourseOne
    <3> QED BY <3>3 DEF e
  <2>6. r \in Seq(Ordinary) /\ Respond!Course(r, a, c)
    BY <2>1, OkGoes
  <2> DEFINE s == q \o r
  <2> HIDE DEF p, q, r
  <2>7. s \in Seq(Ordinary) /\ Respond!Course(s, a, c)
    BY <2>5, <2>6, CourseJoin
  <2> HIDE DEF s
  <2>8. s \o p \in Seq(Ordinary) /\ Respond!Course(s \o p, a, c)
    BY <2>4, <2>7, CourseJoin
  <2>9. Respond!Answer(x) = s \o p
    BY <2>3 DEF s
  <2> QED BY <1>1, <2>8, <2>9
<1> QED BY <1>2, <1>3, <1>4, <1>5, <1>6, <1>7, <1>8, <1>9 DEF Respond!AnswerType

(* What each operation tells where the connection may be kept. *)
LEMMA OpenMoves ==
  ASSUME NEW place \in Places, NEW other \in Places, NEW told \in Int, NEW room \in Int, NEW have \in Int
  PROVE  [Open(place, told, room, have) EXCEPT !.at = other] = Open(other, told, room, have)
<1> DEFINE a == Open(place, told, room, have)
           b == Open(other, told, room, have)
<1>1. /\ a \in Respond!Views /\ a.told = told /\ a.room = room /\ a.got = have /\ ~a.closes
      /\ b \in Respond!Views /\ b.at = other /\ b.told = told /\ b.room = room /\ b.got = have /\ ~b.closes
  BY OpenIs
<1> HIDE DEF a, b
<1>2. [a EXCEPT !.at = other] = b
  BY <1>1 DEF Respond!Views, Places
<1> QED BY <1>2 DEF a, b

\* A response that is begun, its header sent, and its headers.
LEMMA StartTells ==
  ASSUME NEW told \in Int, NEW room \in Int, NEW have \in Int, NEW code \in Respond!Codes
  PROVE  Respond!Course(<<Respond!Start(code)>>, Open("none", told, room, have), Open("begun", told, room, have))
<1> DEFINE o == Respond!Start(code)
           a == Open("none", told, room, have)
           b == Open("begun", told, room, have)
<1>1. "none" \in Places /\ "begun" \in Places
  BY DEF Places
<1>2. a \in Respond!Views /\ a.at = "none" /\ b = [a EXCEPT !.at = "begun"]
  BY <1>1, OpenIs, OpenMoves
<1> HIDE DEF a, b
<1>3. o \in Ordinary /\ Respond!Allowed(a, o) /\ Respond!After(a, o) = b
  BY <1>2, PlainOps
<1> HIDE DEF o
<1>4. Respond!Course(<<o>>, a, b)
  BY <1>2, <1>3, Ordinaries, CourseOne
<1> QED BY <1>4 DEF a, b, o

LEMMA SendTells ==
  ASSUME NEW told \in Int, NEW room \in Int, NEW have \in Int
  PROVE  Respond!Course(<<Respond!Op("send")>>, Open("begun", told, room, have), Open("body", told, room, have))
<1> DEFINE o == Respond!Op("send")
           a == Open("begun", told, room, have)
           b == Open("body", told, room, have)
<1>1. "body" \in Places /\ "begun" \in Places
  BY DEF Places
<1>2. a \in Respond!Views /\ a.at = "begun" /\ b = [a EXCEPT !.at = "body"]
  BY <1>1, OpenIs, OpenMoves
<1> HIDE DEF a, b
<1>3. o \in Ordinary /\ Respond!Allowed(a, o) /\ Respond!After(a, o) = b
  BY <1>2, PlainOps
<1> HIDE DEF o
<1>4. Respond!Course(<<o>>, a, b)
  BY <1>2, <1>3, Ordinaries, CourseOne
<1> QED BY <1>4 DEF a, b, o

LEMMA AddGoes ==
  ASSUME NEW told \in Int, NEW room \in Int, room > 0, NEW have \in Int, NEW name \in Respond!Names, NEW n \in Nat,
         name # "Connection", name \in Respond!Framing => told = -2
  PROVE  Respond!Course(<<Respond!Add(name, n)>>, Open("begun", told, room, have),
           Open("begun", IF name = "Content-Length" THEN n
                         ELSE IF name = "Transfer-Encoding" THEN -1 ELSE told, room - 1, have))
<1> DEFINE o == Respond!Add(name, n)
           x == IF name = "Content-Length" THEN n ELSE IF name = "Transfer-Encoding" THEN -1 ELSE told
           a == Open("begun", told, room, have)
           b == Open("begun", x, room - 1, have)
<1>1. Respond!Allowed(a, o) /\ Respond!After(a, o) = b
  BY AddTells
<1>2. "begun" \in Places /\ x \in Int /\ room - 1 \in Int
  BY DEF Places
<1> HIDE DEF x
<1>3. a \in Respond!Views /\ b \in Respond!Views
  BY <1>2, OpenIs
<1>4. o \in Ordinary
  BY AddIs
<1> HIDE DEF o, a, b
<1>5. Respond!Course(<<o>>, a, b)
  BY <1>1, <1>3, <1>4, Ordinaries, CourseOne
<1> QED BY <1>5 DEF a, b, o, x

LEMMA BytesTell ==
  ASSUME NEW told \in Int, NEW room \in Int, NEW have \in Int, NEW n \in Nat
  PROVE  /\ Respond!Allowed(Open("body", told, room, have), Respond!Raw(Respond!Bytes(n)))
         /\ Respond!After(Open("body", told, room, have), Respond!Raw(Respond!Bytes(n)))
              = Open("body", told, room, have + n)
<1> DEFINE o == Respond!Raw(Respond!Bytes(n))
           a == Open("body", told, room, have)
           b == Open("body", told, room, have + n)
<1>1. "body" \in Places /\ have + n \in Int
  BY DEF Places
<1>2. /\ a \in Respond!Views /\ a.at = "body" /\ a.told = told /\ a.room = room /\ a.got = have /\ ~a.closes
      /\ b \in Respond!Views /\ b.at = "body" /\ b.told = told /\ b.room = room /\ b.got = have + n /\ ~b.closes
  BY <1>1, OpenIs
<1>3. Respond!Allowed(a, o) <=> a.at = "body"
  BY BytesAre
<1>4. Respond!After(a, o) = IF a.closes THEN a ELSE [a EXCEPT !.got = @ + n]
  BY BytesAre
<1> HIDE DEF a, b, o
<1>5. [a EXCEPT !.got = a.got + n] = b
  BY <1>2 DEF Respond!Views
<1>6. Respond!Allowed(a, o) /\ Respond!After(a, o) = b
  BY <1>2, <1>3, <1>4, <1>5
<1> QED BY <1>6 DEF a, b, o

LEMMA BytesGo ==
  ASSUME NEW told \in Int, NEW room \in Int, NEW have \in Int, NEW n \in Nat
  PROVE  Respond!Course(<<Respond!Raw(Respond!Bytes(n))>>, Open("body", told, room, have),
                        Open("body", told, room, have + n))
<1> DEFINE o == Respond!Raw(Respond!Bytes(n))
           a == Open("body", told, room, have)
           b == Open("body", told, room, have + n)
<1>1. "body" \in Places /\ have + n \in Int
  BY DEF Places
<1>2. a \in Respond!Views /\ b \in Respond!Views
  BY <1>1, OpenIs
<1>3. o \in Ordinary
  BY BytesAre
<1>4. Respond!Allowed(a, o) /\ Respond!After(a, o) = b
  BY BytesTell
<1> HIDE DEF a, b, o
<1>5. Respond!Course(<<o>>, a, b)
  BY <1>2, <1>3, <1>4, Ordinaries, CourseOne
<1> QED BY <1>5 DEF a, b, o

(* The headers that R asked for, where there is room for them. *)
LEMMA NamesGo ==
  ASSUME NEW s \in Seq(Respond!Names), \A i \in 1 .. Len(s) : s[i] \notin Respond!Framing,
         NEW room \in Int, room >= Len(s)
  PROVE  Respond!Course([i \in 1 .. Len(s) |-> Respond!Add(s[i], 0)],
                        Open("begun", -2, room, 0), Open("begun", -2, room - Len(s), 0))
<1> DEFINE n == Len(s)
           p == [i \in 1 .. n |-> Respond!Add(s[i], 0)]
           f == [i \in 0 .. n |-> Open("begun", -2, room - i, 0)]
<1>0. n \in Nat /\ p \in Seq({p[i] : i \in 1 .. n}) /\ Len(p) = n
  OBVIOUS
<1>1. "begun" \in Places /\ \A i \in 0 .. n : room - i \in Int
  BY <1>0 DEF Places
<1>2. ASSUME NEW i \in 0 .. n PROVE Open("begun", -2, room - i, 0) \in Respond!Views
  <2> DEFINE r == room - i
  <2>1. r \in Int
    BY <1>1
  <2> HIDE DEF r
  <2>2. Open("begun", -2, r, 0) \in Respond!Views
    BY <1>1, <2>1, OpenIs
  <2> QED BY <2>2 DEF r
<1>3. f \in [0 .. n -> Respond!Views] /\ f[0] = Open("begun", -2, room, 0) /\ f[n] = Open("begun", -2, room - n, 0)
  <2>1. room - 0 = room /\ 0 \in 0 .. n /\ n \in 0 .. n
    BY <1>0
  <2> QED BY <1>2, <2>1
<1>4. ASSUME NEW i \in 1 .. n
      PROVE  Respond!Allowed(f[i - 1], p[i]) /\ f[i] = Respond!After(f[i - 1], p[i])
  <2> DEFINE r == room - (i - 1)
             name == s[i]
  <2>1. r \in Int /\ r > 0 /\ r - 1 = room - i /\ i - 1 \in 0 .. n /\ i \in 0 .. n
    BY <1>0
  <2>2. name \in Respond!Names /\ name \notin Respond!Framing /\ p[i] = Respond!Add(name, 0)
    BY <1>0
  <2>3. f[i - 1] = Open("begun", -2, r, 0) /\ f[i] = Open("begun", -2, room - i, 0)
    BY <2>1
  <2>4. name # "Connection" /\ name # "Content-Length" /\ name # "Transfer-Encoding"
    BY <2>2 DEF Respond!Framing
  <2> HIDE DEF r, name, f, p
  <2>5. /\ Respond!Allowed(Open("begun", -2, r, 0), Respond!Add(name, 0))
        /\ Respond!After(Open("begun", -2, r, 0), Respond!Add(name, 0)) = Open("begun", -2, r - 1, 0)
    BY <2>1, <2>2, <2>4, AddTells
  <2> QED BY <2>1, <2>2, <2>3, <2>5
<1> HIDE DEF f, p
<1>5. Respond!Course(p, Open("begun", -2, room, 0), Open("begun", -2, room - n, 0))
  BY <1>0, <1>3, <1>4 DEF Respond!Course
<1> QED BY <1>5 DEF p

(* Sums along a sequence of numbers: there is one, and but one. *)
SumOf(s, f) == f \in [0 .. Len(s) -> Int] /\ f[0] = 0 /\ \A i \in 1 .. Len(s) : f[i] = f[i - 1] + s[i]

\* The sums of a sequence, up to each place.
LEMMA SumsExist == ASSUME NEW s \in Seq(Int) PROVE \E f : SumOf(s, f)
<1> DEFINE n == Len(s)
           Is(f, k) == f \in [0 .. k -> Int] /\ f[0] = 0 /\ \A i \in 1 .. k : f[i] = f[i - 1] + s[i]
           Right == {k \in Nat : k <= n => \E f : Is(f, k)}
<1>0. n \in Nat /\ \A i \in 1 .. n : s[i] \in Int
  OBVIOUS
<1> HIDE DEF n
<1>1. 0 \in Right
  <2> DEFINE g == [i \in 0 .. 0 |-> 0]
  <2>1. g \in [0 .. 0 -> Int] /\ g[0] = 0 /\ 1 .. 0 = {}
    OBVIOUS
  <2> HIDE DEF g
  <2> QED BY <2>1
<1>2. ASSUME NEW k \in Nat, k \in Right PROVE k + 1 \in Right
  <2> SUFFICES ASSUME k + 1 <= n PROVE \E g : Is(g, k + 1)
    OBVIOUS
  <2>1. PICK f : Is(f, k)
    BY <1>0, <1>2
  <2> DEFINE g == [i \in 0 .. k + 1 |-> IF i = k + 1 THEN f[k] + s[k + 1] ELSE f[i]]
  <2>2. /\ k \in 0 .. k /\ k + 1 \in 1 .. n /\ f[k] \in Int /\ 0 # k + 1
        /\ \A i \in 0 .. k + 1 : i = k + 1 \/ i \in 0 .. k
        /\ \A i \in 1 .. k + 1 : i = k + 1 \/ i \in 1 .. k
        /\ \A i \in 1 .. k : i # k + 1 /\ i \in 0 .. k + 1
    BY <1>0, <2>1
  <2>3. f[k] + s[k + 1] \in Int
    BY <1>0, <2>2
  <2>4. g \in [0 .. k + 1 -> Int] /\ g[k + 1] = f[k] + s[k + 1] /\ \A i \in 0 .. k : g[i] = f[i]
    BY <2>1, <2>2, <2>3
  <2> HIDE DEF g
  <2>5. ASSUME NEW i \in 1 .. k + 1 PROVE g[i] = g[i - 1] + s[i]
    <3>1. CASE i = k + 1
      <4>1. i - 1 = k
        BY <3>1
      <4> QED BY <2>2, <2>4, <3>1, <4>1
    <3>2. CASE i \in 1 .. k
      <4>1. i \in 0 .. k /\ i - 1 \in 0 .. k
        BY <3>2
      <4> QED BY <2>1, <2>4, <3>2, <4>1
    <3> QED BY <2>2, <3>1, <3>2
  <2>6. g[0] = 0
    BY <2>1, <2>4
  <2> QED BY <2>4, <2>5, <2>6
<1>3. Nat \subseteq Right
  <2> HIDE DEF Right
  <2> QED BY <1>1, <1>2, Induction
<1>4. \E f : Is(f, n)
  <2>1. n \in Right /\ n <= n
    <3> HIDE DEF Right
    <3> QED BY <1>0, <1>3
  <2> HIDE DEF Is
  <2> QED BY <2>1
<1> QED BY <1>4 DEF SumOf, n

\* Also of a longer sequence that begins with it.
LEMMA SumsAgree ==
  ASSUME NEW s \in Seq(Int), NEW t \in Seq(Int), Len(s) <= Len(t), \A i \in 1 .. Len(s) : t[i] = s[i],
         NEW f, SumOf(s, f), NEW g, SumOf(t, g)
  PROVE  \A i \in 0 .. Len(s) : g[i] = f[i]
<1> DEFINE n == Len(s)
           Right == {k \in Nat : k <= n => g[k] = f[k]}
<1>0. /\ n \in Nat /\ \A i \in 1 .. n : s[i] \in Int /\ t[i] = s[i] /\ i \in 1 .. Len(t)
      /\ f \in [0 .. n -> Int] /\ f[0] = 0 /\ \A i \in 1 .. n : f[i] = f[i - 1] + s[i]
      /\ g[0] = 0 /\ \A i \in 1 .. Len(t) : g[i] = g[i - 1] + t[i]
  BY DEF SumOf
<1> HIDE DEF n
<1>1. 0 \in Right
  BY <1>0
<1>2. ASSUME NEW k \in Nat, k \in Right PROVE k + 1 \in Right
  <2> SUFFICES ASSUME k + 1 <= n PROVE g[k + 1] = f[k + 1]
    OBVIOUS
  <2> DEFINE j == k + 1
  <2>1. j \in 1 .. n /\ j - 1 = k /\ k <= n
    BY <1>0
  <2> HIDE DEF j
  <2>2. g[k] = f[k]
    BY <1>2, <2>1
  <2>3. g[j] = f[j]
    BY <1>0, <2>1, <2>2
  <2> QED BY <2>3 DEF j
<1>3. Nat \subseteq Right
  <2> HIDE DEF Right
  <2> QED BY <1>1, <1>2, Induction
<1> QED BY <1>0, <1>3 DEF n

(* Where operations lead, where the connection may be kept. *)
Delimits(p, a) == \E b \in Respond!Views : Respond!Course(p, a, b) /\ Respond!Delimited(b)

\* The body is there as it was told.
LEMMA OpenDelimits ==
  ASSUME NEW room \in Int, NEW told \in Int, NEW have \in Int, told = -1 \/ told = have
  PROVE  /\ Open("body", told, room, have) \in Respond!Views
         /\ Respond!Delimited(Open("body", told, room, have))
<1>1. "body" \in Places
  BY DEF Places
<1> DEFINE a == Open("body", told, room, have)
<1>2. a \in Respond!Views /\ a.at = "body" /\ a.told = told /\ a.got = have
  BY <1>1, OpenIs
<1> HIDE DEF a
<1>3. a \in Respond!Views /\ Respond!Delimited(a)
  BY <1>2 DEF Respond!Delimited
<1> QED BY <1>3 DEF a

(* A body of which it was said that it comes in chunks. *)
LEMMA PartsGo ==
  ASSUME NEW s \in Seq(Nat), NEW room \in Int
  PROVE  Delimits([i \in 1 .. Len(s) |-> Respond!Raw(Respond!Bytes(s[i]))], Open("body", -1, room, 0))
<1> DEFINE n == Len(s)
           p == [i \in 1 .. n |-> Respond!Raw(Respond!Bytes(s[i]))]
<1>0. /\ n \in Nat /\ Len(p) = n /\ s \in Seq(Int) /\ \A i \in 1 .. n : s[i] \in Nat
      /\ \A i \in 1 .. n : p[i] = Respond!Raw(Respond!Bytes(s[i]))
  OBVIOUS
<1> HIDE DEF p
<1>1. PICK sum : SumOf(s, sum)
  BY <1>0, SumsExist
<1>2. sum \in [0 .. n -> Int] /\ sum[0] = 0 /\ \A i \in 1 .. n : sum[i] = sum[i - 1] + s[i]
  BY <1>1 DEF SumOf
<1> HIDE DEF n
<1> DEFINE f == [i \in 0 .. n |-> Open("body", -1, room, sum[i])]
<1>3. ASSUME NEW i \in 0 .. n
      PROVE  /\ sum[i] \in Int /\ f[i] = Open("body", -1, room, sum[i])
             /\ Open("body", -1, room, sum[i]) \in Respond!Views
             /\ Respond!Delimited(Open("body", -1, room, sum[i]))
  <2>1. sum[i] \in Int
    BY <1>2
  <2> DEFINE x == sum[i]
  <2> HIDE DEF x
  <2>2. Open("body", -1, room, x) \in Respond!Views /\ Respond!Delimited(Open("body", -1, room, x))
    <3>1. -1 \in Int /\ x \in Int
      BY <2>1 DEF x
    <3> QED BY <3>1, OpenDelimits
  <2> QED BY <2>1, <2>2 DEF x
<1>4. f \in [0 .. n -> Respond!Views]
  BY <1>3
<1>5. 0 \in 0 .. n /\ n \in 0 .. n /\ f[0] = Open("body", -1, room, 0)
  BY <1>0, <1>2
<1>6. ASSUME NEW i \in 1 .. n
      PROVE  Respond!Allowed(f[i - 1], p[i]) /\ f[i] = Respond!After(f[i - 1], p[i])
  <2> DEFINE x == sum[i - 1]
             y == s[i]
  <2>1. /\ i \in 0 .. n /\ i - 1 \in 0 .. n /\ x \in Int /\ y \in Nat /\ sum[i] = x + y /\ -1 \in Int
        /\ p[i] = Respond!Raw(Respond!Bytes(y))
    BY <1>0, <1>2
  <2>2. f[i - 1] = Open("body", -1, room, x) /\ f[i] = Open("body", -1, room, sum[i])
    BY <2>1
  <2> HIDE DEF f, x, y
  <2>3. /\ Respond!Allowed(Open("body", -1, room, x), Respond!Raw(Respond!Bytes(y)))
        /\ Respond!After(Open("body", -1, room, x), Respond!Raw(Respond!Bytes(y))) = Open("body", -1, room, x + y)
    BY <2>1, BytesTell
  <2> QED BY <2>1, <2>2, <2>3
<1>7. Respond!Delimited(f[n])
  BY <1>3, <1>5
<1> DEFINE b == f[n]
<1>8. b \in Respond!Views /\ Respond!Delimited(b)
  BY <1>4, <1>5, <1>7
<1> HIDE DEF f
<1>9. Respond!Course(p, Open("body", -1, room, 0), b)
  BY <1>0, <1>4, <1>5, <1>6 DEF Respond!Course
<1> QED BY <1>8, <1>9 DEF Delimits, p, n

(* What comes first, and what then leads to an end. *)
LEMMA DelimitsThen ==
  ASSUME NEW S, NEW p \in Seq(S), NEW q \in Seq(S), NEW a, NEW b, Respond!Course(p, a, b), Delimits(q, b)
  PROVE  Delimits(p \o q, a)
<1>1. PICK c \in Respond!Views : Respond!Course(q, b, c) /\ Respond!Delimited(c)
  BY DEF Delimits
<1>2. Respond!Course(p \o q, a, c)
  BY <1>1, CourseJoin
<1> QED BY <1>1, <1>2 DEF Delimits

\* A course to where the response is complete.
LEMMA DelimitsHere ==
  ASSUME NEW p, NEW a, NEW b \in Respond!Views, Respond!Course(p, a, b), Respond!Delimited(b)
  PROVE  Delimits(p, a)
  BY DEF Delimits

(* An end of the connection that is asked for at once. *)
LEMMA CloseDelimits ==
  ASSUME NEW p \in Seq(Respond!Operations), p # <<>>, Head(p) = Respond!Op("close"),
         NEW a \in Respond!Views, NEW b \in Respond!Views, b.closes,
         Respond!Course(p, [a EXCEPT !.closes = TRUE], b)
  PROVE  Delimits(p, a)
<1> DEFINE c == [a EXCEPT !.closes = TRUE]
<1>1. c \in Respond!Views /\ [c EXCEPT !.closes = TRUE] = c
  BY DEF Respond!Views
<1>2. Respond!After(a, Head(p)) = c /\ Respond!Allowed(a, Head(p)) /\ Respond!After(c, Head(p)) = c
  BY <1>1, PlainOps
<1>0. Respond!Course(p, c, b)
  OBVIOUS
<1> HIDE DEF c
<1>3. Respond!Course(Tail(p), Respond!After(c, Head(p)), b)
  BY <1>0, CourseHead
<1>4. Respond!Course(p, a, b)
  BY <1>2, <1>3, CourseCons
<1> QED BY <1>4 DEF Delimits, Respond!Delimited

(* The head that ends what server.c writes by hand. *)
LEMMA ShortDelimits ==
  ASSUME NEW room \in Int, NEW code \in Respond!Codes, code # 200
  PROVE  Delimits(Respond!ShortOps(code), Open("none", -2, room, 0))
<1> DEFINE a  == Open("none", -2, room, 0)
           b  == Open("head", -2, room, 0)
           c  == Open("head", 0, room, 0)
           d  == Open("body", 0, room, 0)
           o1 == Respond!Raw(Respond!Line(code))
           h  == Respond!Header("Content-Length", 0)
           o2 == Respond!Raw(h)
           o3 == Respond!Raw(Respond!Blank)
<1>0. "none" \in Places /\ "head" \in Places /\ "body" \in Places /\ -2 \in Int
  BY DEF Places
<1>1. /\ a \in Respond!Views /\ a.at = "none"
      /\ b \in Respond!Views /\ b.at = "head" /\ b.told = -2 /\ b.room = room /\ b.got = 0 /\ ~b.closes
      /\ c \in Respond!Views /\ c.at = "head" /\ c.told = 0 /\ c.room = room /\ c.got = 0 /\ ~c.closes
      /\ b = [a EXCEPT !.at = "head"] /\ d = [c EXCEPT !.at = "body"]
  <2>1. [a EXCEPT !.at = "head"] = b
    BY <1>0, OpenMoves
  <2>2. [c EXCEPT !.at = "body"] = d
    BY <1>0, OpenMoves
  <2>3. a \in Respond!Views /\ a.at = "none"
    BY <1>0, OpenIs
  <2>4. b \in Respond!Views /\ b.at = "head" /\ b.told = -2 /\ b.room = room /\ b.got = 0 /\ ~b.closes
    BY <1>0, OpenIs
  <2>5. c \in Respond!Views /\ c.at = "head" /\ c.told = 0 /\ c.room = room /\ c.got = 0 /\ ~c.closes
    BY <1>0, OpenIs
  <2> HIDE DEF a, b, c, d
  <2> QED BY <2>1, <2>2, <2>3, <2>4, <2>5
<1>2. d \in Respond!Views /\ Respond!Delimited(d)
  BY OpenDelimits
<1>3. /\ o1 \in Ordinary /\ o3 \in Ordinary
      /\ \A v : /\ Respond!Allowed(v, o1) <=> v.at = "none"
                /\ Respond!After(v, o1) = [v EXCEPT !.at = "head"]
                /\ Respond!Allowed(v, o3) <=> v.at = "head"
                /\ Respond!After(v, o3) = [v EXCEPT !.at = "body"]
  BY CodesAre, LinesAre
<1>4. "Content-Length" \in Respond!Names /\ "Content-Length" # "Connection"
  BY DEF Respond!Names, Respond!Framing
<1>5. h.name = "Content-Length" /\ h.v = 0
  BY DEF Respond!Header
<1>6. /\ o2 \in Ordinary
      /\ \A v : /\ Respond!Allowed(v, o2) <=> v.at = "head" /\ Respond!MayTell(v, h)
                /\ Respond!After(v, o2) = Respond!Told(v, h)
  BY <1>4, RawHeaderIs
<1>7. Respond!ShortOps(code) = <<o1>> \o <<>> \o <<o2, o3>>
  BY DEF Respond!ShortOps
<1> HIDE DEF a, b, c, d, o1, o2, o3, h
<1>8. [b EXCEPT !.told = 0] = c
  BY <1>1 DEF Respond!Views
<1>9. Respond!Allowed(b, o2) /\ Respond!After(b, o2) = c
  BY <1>1, <1>4, <1>5, <1>6, <1>8 DEF Respond!MayTell, Respond!Told
<1>10. Respond!Allowed(a, o1) /\ Respond!After(a, o1) = b /\ Respond!Allowed(c, o3) /\ Respond!After(c, o3) = d
  BY <1>1, <1>3
<1>11. o1 \in Respond!Operations /\ o2 \in Respond!Operations /\ o3 \in Respond!Operations
  BY <1>3, <1>6, Ordinaries
<1>12. Respond!Course(<<o1>>, a, b)
  BY <1>1, <1>10, <1>11, CourseOne
<1>13. Respond!Course(<<o2, o3>>, b, d)
  BY <1>1, <1>2, <1>9, <1>10, <1>11, CourseTwo
<1> DEFINE p == <<o1>>
           q == <<o2, o3>>
           r == p \o <<>>
<1>14. p \in Seq(Respond!Operations) /\ q \in Seq(Respond!Operations) /\ r = p
  BY <1>11
<1> HIDE DEF p, q, r
<1>15. Respond!Course(p \o q, a, d)
  BY <1>12, <1>13, <1>14, CourseJoin DEF p, q
<1>16. Respond!ShortOps(code) = p \o q
  BY <1>7, <1>14 DEF p, q, r
<1> QED BY <1>2, <1>15, <1>16, DelimitsHere DEF a

\* A redirection has a length of 0.
LEMMA RedirectDelimits ==
  ASSUME NEW room \in Int, room >= 3, NEW code \in Respond!Codes
  PROVE  Delimits(Respond!RedirectOps(code), Open("none", -2, room, 0))
<1> DEFINE o1 == Respond!Start(code)
           o2 == Respond!Add("Location", 0)
           o3 == Respond!Add("Cache-Control", 0)
           o4 == Respond!Add("Content-Length", 0)
           o5 == Respond!Op("send")
           a  == Open("none", -2, room, 0)
           b  == Open("begun", -2, room, 0)
           c  == Open("begun", -2, room - 1, 0)
           d  == Open("begun", -2, room - 2, 0)
           e  == Open("begun", 0, room - 3, 0)
           f  == Open("body", 0, room - 3, 0)
<1>1. Respond!RedirectOps(code) \in {<<>>, <<o1, o2, o3, o4, o5>>}
  BY DEF Respond!RedirectOps
<1>2. /\ "none" \in Places /\ "begun" \in Places /\ "body" \in Places
      /\ -2 \in Int /\ room - 1 \in Int /\ room - 2 \in Int /\ room - 3 \in Int
  BY DEF Places
<1>3. /\ a \in Respond!Views /\ b \in Respond!Views /\ c \in Respond!Views /\ d \in Respond!Views
      /\ e \in Respond!Views /\ a.at = "none" /\ e.at = "begun"
      /\ b = [a EXCEPT !.at = "begun"] /\ f = [e EXCEPT !.at = "body"]
  <2>0. "none" \in Places /\ "begun" \in Places /\ "body" \in Places /\ -2 \in Int /\ 0 \in Int
    BY <1>2
  <2>1. [a EXCEPT !.at = "begun"] = b
    BY <2>0, OpenMoves
  <2>2. [e EXCEPT !.at = "body"] = f
    <3> DEFINE r == room - 3
    <3>1. r \in Int
      OBVIOUS
    <3> HIDE DEF r
    <3>2. \A t \in Int : [Open("begun", t, r, 0) EXCEPT !.at = "body"] = Open("body", t, r, 0)
      BY <2>0, <3>1, OpenMoves
    <3>3. [Open("begun", 0, r, 0) EXCEPT !.at = "body"] = Open("body", 0, r, 0)
      BY <3>2
    <3> QED BY <3>3 DEF r
  <2>3. a \in Respond!Views /\ a.at = "none" /\ e \in Respond!Views /\ e.at = "begun"
    BY <1>2, OpenIs
  <2>4. b \in Respond!Views /\ c \in Respond!Views /\ d \in Respond!Views
    BY <1>2, OpenIs
  <2> HIDE DEF a, b, c, d, e, f
  <2> QED BY <2>1, <2>2, <2>3, <2>4
<1>4. f \in Respond!Views /\ Respond!Delimited(f)
  BY <1>2, OpenDelimits
<1>5. /\ "Location" \in Respond!Names /\ "Location" \notin Respond!Framing
      /\ "Cache-Control" \in Respond!Names /\ "Cache-Control" \notin Respond!Framing
      /\ "Content-Length" \in Respond!Names
  BY DEF Respond!Names, Respond!Framing
<1>6. o1 \in Ordinary /\ o2 \in Ordinary /\ o3 \in Ordinary /\ o4 \in Ordinary /\ o5 \in Ordinary
  BY <1>5, PlainOps, AddIs
<1>7. Respond!Allowed(b, o2) /\ Respond!After(b, o2) = c
  <2>1. "Location" # "Connection" /\ room > 0
    OBVIOUS
  <2> QED BY <1>2, <1>5, <2>1, AddTells
<1>8. Respond!Allowed(c, o3) /\ Respond!After(c, o3) = d
  <2> DEFINE r == room - 1
  <2>1. r \in Int /\ r > 0 /\ r - 1 = room - 2 /\ "Cache-Control" # "Connection"
    OBVIOUS
  <2>2. c = Open("begun", -2, r, 0) /\ d = Open("begun", -2, r - 1, 0)
    BY <2>1
  <2> HIDE DEF r, c, d
  <2>3. /\ Respond!Allowed(Open("begun", -2, r, 0), o3)
        /\ Respond!After(Open("begun", -2, r, 0), o3) = Open("begun", -2, r - 1, 0)
    BY <1>2, <1>5, <2>1, AddTells
  <2> QED BY <2>2, <2>3
<1>9. Respond!Allowed(d, o4) /\ Respond!After(d, o4) = e
  <2> DEFINE r == room - 2
  <2>1. r \in Int /\ r > 0 /\ r - 1 = room - 3 /\ "Content-Length" # "Connection"
    OBVIOUS
  <2>2. d = Open("begun", -2, r, 0) /\ e = Open("begun", 0, r - 1, 0)
    BY <2>1
  <2> HIDE DEF r, d, e
  <2>3. /\ Respond!Allowed(Open("begun", -2, r, 0), o4)
        /\ Respond!After(Open("begun", -2, r, 0), o4) = Open("begun", 0, r - 1, 0)
    BY <1>2, <1>5, <2>1, AddTells
  <2> QED BY <2>2, <2>3
<1> HIDE DEF a, b, c, d, e, f
<1>10. Respond!Allowed(a, o1) /\ Respond!After(a, o1) = b /\ Respond!Allowed(e, o5) /\ Respond!After(e, o5) = f
  BY <1>3, PlainOps
<1> HIDE DEF o1, o2, o3, o4, o5
<1>11. Respond!Course(<<o1, o2, o3, o4, o5>>, a, f)
  BY <1>3, <1>4, <1>6, <1>7, <1>8, <1>9, <1>10, Ordinaries, CourseFive
<1>12. Respond!Course(<<>>, a, a) /\ Respond!Delimited(a)
  BY <1>3, CourseNone DEF Respond!Delimited
<1> QED BY <1>1, <1>3, <1>4, <1>11, <1>12 DEF Delimits, a

(* The answer of R, with a buffered head. *)
LEMMA HandlerDelimits ==
  ASSUME NEW room \in Int, NEW x \in Respond!AnswerType, x.by = "R", ~x.manual, Respond!Taken(x),
         Len(x.names) + 2 <= room,
         \A i \in 1 .. Len(x.names) : x.names[i] \notin Respond!Framing
  PROVE  Delimits(Respond!HandlerOps(x), Open("none", -2, room, 0))
<1> DEFINE names == [i \in 1 .. Len(x.names) |-> Respond!Add(x.names[i], 0)]
           given == Respond!Contains(x.names, "Content-Type")
           first == <<Respond!Start(x.status)>>
           type  == IF given THEN <<>> ELSE <<Respond!Add("Content-Type", 0)>>
           len   == <<Respond!Add("Content-Length", x.body)>>
           end   == <<Respond!Op("send")>>
           body  == IF x.body > 0 THEN <<Respond!Raw(Respond!Bytes(x.body))>> ELSE <<>>
           r1    == room - Len(x.names)
           r2    == IF given THEN r1 ELSE r1 - 1
           r3    == r2 - 1
<1>1. Respond!HandlerOps(x) = first \o names \o type \o len \o end \o body
  BY DEF Respond!HandlerOps
<1>2. /\ x.status \in Respond!Codes /\ x.names \in Seq(Respond!Names) /\ x.body \in Nat
      /\ \A i \in 1 .. Len(x.names) : x.names[i] \in Respond!Names
      /\ "Content-Type" \in Respond!Names /\ "Content-Length" \in Respond!Names
      /\ "Content-Type" \notin Respond!Framing
  BY DEF Respond!AnswerType, Respond!Taken, Respond!Names, Respond!Framing
<1>3. r1 \in Int /\ r2 \in Int /\ r3 \in Int /\ r1 > 0 /\ r2 > 0 /\ Len(x.names) \in Nat /\ room >= Len(x.names)
  BY <1>2
<1> HIDE DEF given
<1>4. /\ first \in Seq(Ordinary) /\ names \in Seq(Ordinary) /\ type \in Seq(Ordinary)
      /\ len \in Seq(Ordinary) /\ end \in Seq(Ordinary) /\ body \in Seq(Ordinary)
  <2>1. \A name \in Respond!Names : \A n \in Nat : Respond!Add(name, n) \in Ordinary
    BY AddIs
  <2>2. Respond!Start(x.status) \in Ordinary /\ Respond!Op("send") \in Ordinary
    BY <1>2, PlainOps
  <2>3. Respond!Raw(Respond!Bytes(x.body)) \in Ordinary
    BY <1>2, BytesAre
  <2> QED BY <1>2, <2>1, <2>2, <2>3
<1>5. Respond!Course(first, Open("none", -2, room, 0), Open("begun", -2, room, 0))
  BY <1>2, StartTells
<1>6. Respond!Course(names, Open("begun", -2, room, 0), Open("begun", -2, r1, 0))
  BY <1>2, <1>3, NamesGo
<1> HIDE DEF r1
<1>7. Respond!Course(type, Open("begun", -2, r1, 0), Open("begun", -2, r2, 0))
  <2>1. CASE given
    <3>1. Open("begun", -2, r1, 0) \in Respond!Views
      BY <1>3, OpenIs DEF Places
    <3> QED BY <2>1, <3>1, CourseNone
  <2>2. CASE ~given
    <3>1. "Content-Type" # "Connection" /\ -2 \in Int
      OBVIOUS
    <3> QED BY <1>2, <1>3, <2>2, <3>1, AddGoes
  <2> QED BY <2>1, <2>2
<1> HIDE DEF r2
<1>8. Respond!Course(len, Open("begun", -2, r2, 0), Open("begun", x.body, r3, 0))
  <2>1. "Content-Length" # "Connection" /\ -2 \in Int /\ x.body \in Int
    BY <1>2
  <2> QED BY <1>2, <1>3, <2>1, AddGoes
<1> HIDE DEF r3
<1>9. Respond!Course(end, Open("begun", x.body, r3, 0), Open("body", x.body, r3, 0))
  BY <1>2, <1>3, SendTells
<1>10. Delimits(body, Open("body", x.body, r3, 0))
  <2>1. CASE x.body > 0
    <3>1. Respond!Course(body, Open("body", x.body, r3, 0), Open("body", x.body, r3, 0 + x.body))
      BY <1>2, <1>3, <2>1, BytesGo
    <3>2. 0 + x.body = x.body /\ x.body \in Int
      BY <1>2
    <3>3. Open("body", x.body, r3, x.body) \in Respond!Views /\ Respond!Delimited(Open("body", x.body, r3, x.body))
      BY <1>3, <3>2, OpenDelimits
    <3>4. Respond!Course(body, Open("body", x.body, r3, 0), Open("body", x.body, r3, x.body))
      BY <3>1, <3>2
    <3> HIDE DEF body
    <3> QED BY <3>3, <3>4, DelimitsHere
  <2>2. CASE ~(x.body > 0)
    <3>1. x.body = 0
      BY <1>2, <2>2
    <3>2. Open("body", 0, r3, 0) \in Respond!Views /\ Respond!Delimited(Open("body", 0, r3, 0))
      <4>1. r3 \in Int /\ 0 \in Int
        BY <1>3
      <4> QED BY <4>1, OpenDelimits
    <3>3. Respond!Course(<<>>, Open("body", 0, r3, 0), Open("body", 0, r3, 0))
      BY <3>2, CourseNone
    <3> QED BY <3>1, <3>2, <3>3, DelimitsHere
  <2> QED BY <2>1, <2>2
<1> HIDE DEF first, names, type, len, end, body
<1> DEFINE p2 == first \o names
           p3 == p2 \o type
           p4 == p3 \o len
           p5 == p4 \o end
<1>11. p2 \in Seq(Ordinary) /\ Respond!Course(p2, Open("none", -2, room, 0), Open("begun", -2, r1, 0))
  BY <1>4, <1>5, <1>6, CourseJoin
<1> HIDE DEF p2
<1>12. p3 \in Seq(Ordinary) /\ Respond!Course(p3, Open("none", -2, room, 0), Open("begun", -2, r2, 0))
  BY <1>4, <1>7, <1>11, CourseJoin
<1> HIDE DEF p3
<1>13. p4 \in Seq(Ordinary) /\ Respond!Course(p4, Open("none", -2, room, 0), Open("begun", x.body, r3, 0))
  BY <1>4, <1>8, <1>12, CourseJoin
<1> HIDE DEF p4
<1>14. p5 \in Seq(Ordinary) /\ Respond!Course(p5, Open("none", -2, room, 0), Open("body", x.body, r3, 0))
  BY <1>4, <1>9, <1>13, CourseJoin
<1> HIDE DEF p5
<1>15. Delimits(p5 \o body, Open("none", -2, room, 0))
  BY <1>4, <1>10, <1>14, DelimitsThen
<1> QED BY <1>1, <1>15 DEF p2, p3, p4, p5

(* The answer of R that is written by hand: the connection closes. *)
Begins(p, o1, o2) == p # <<>> /\ Head(p) = o1 /\ Tail(p) # <<>> /\ Head(Tail(p)) = o2

\* The first two operations of an answer.
LEMMA BeginsStill ==
  ASSUME NEW S, NEW p \in Seq(S), NEW q \in Seq(S), NEW o1, NEW o2, Begins(p, o1, o2)
  PROVE  Begins(p \o q, o1, o2)
<1> DEFINE r == p \o q
<1>1. /\ Len(p) \in Nat /\ Len(q) \in Nat /\ r \in Seq(S) /\ Len(r) = Len(p) + Len(q)
      /\ \A i \in 1 .. Len(p) : r[i] = p[i]
  OBVIOUS
<1>2. Len(p) >= 2 /\ p[1] = o1 /\ p[2] = o2
  BY DEF Begins
<1> HIDE DEF r
<1>3. Len(r) >= 2 /\ r[1] = o1 /\ r[2] = o2
  BY <1>1, <1>2
<1> DEFINE t == Tail(r)
<1>0. t \in Seq(S) /\ Len(t) = Len(r) - 1 /\ t[1] = r[1 + 1] /\ r # <<>> /\ Head(r) = r[1]
  BY <1>1, <1>3
<1> HIDE DEF t
<1>4. t # <<>> /\ Head(t) = t[1] /\ t[1] = r[2]
  BY <1>0, <1>1, <1>3
<1> QED BY <1>0, <1>3, <1>4 DEF Begins, r, t

\* An answer by hand asks for the end of the connection first.
LEMMA ByHandBegins ==
  ASSUME NEW x \in Respond!AnswerType, x.by = "R", x.manual
  PROVE  Begins(Respond!HandlerOps(x), Respond!Raw(Respond!Line(x.status)), Respond!Op("close"))
<1> DEFINE o1    == Respond!Raw(Respond!Line(x.status))
           o2    == Respond!Op("close")
           put(name, n) == Respond!Raw(Respond!Header(name, n))
           first == <<o1, o2>>
           names == [i \in 1 .. Len(x.names) |-> put(x.names[i], 0)]
           type  == IF Respond!Contains(x.names, "Content-Type") THEN <<>> ELSE <<put("Content-Type", 0)>>
           len   == <<put("Content-Length", x.body)>>
           end   == <<Respond!Raw(Respond!Blank)>>
           body  == IF x.body > 0 THEN <<Respond!Raw(Respond!Bytes(x.body))>> ELSE <<>>
<1>1. Respond!HandlerOps(x) = first \o names \o type \o len \o end \o body
  BY DEF Respond!HandlerOps
<1>2. /\ x.status \in Int /\ x.names \in Seq(Respond!Names) /\ x.body \in Nat
      /\ \A i \in 1 .. Len(x.names) : x.names[i] \in Respond!Names
      /\ "Content-Type" \in Respond!Names /\ "Content-Length" \in Respond!Names
  BY DEF Respond!AnswerType, Respond!Names, Respond!Framing
<1>3. \A name \in Respond!Names : \A n \in Nat : put(name, n) \in Ordinary
  BY RawHeaderIs
<1>4. o1 \in Ordinary /\ o2 \in Ordinary /\ Respond!Raw(Respond!Blank) \in Ordinary
  BY <1>2, LinesAre, PlainOps
<1>5. Respond!Raw(Respond!Bytes(x.body)) \in Ordinary
  BY <1>2, BytesAre
<1> HIDE DEF put, o1, o2
<1>6. /\ first \in Seq(Ordinary) /\ names \in Seq(Ordinary) /\ type \in Seq(Ordinary)
      /\ len \in Seq(Ordinary) /\ end \in Seq(Ordinary) /\ body \in Seq(Ordinary)
  BY <1>2, <1>3, <1>4, <1>5
<1>7. Begins(first, o1, o2)
  BY <1>4 DEF Begins
<1> HIDE DEF first, names, type, len, end, body
<1> DEFINE p2 == first \o names
           p3 == p2 \o type
           p4 == p3 \o len
           p5 == p4 \o end
<1>8. p2 \in Seq(Ordinary) /\ Begins(p2, o1, o2)
  BY <1>6, <1>7, BeginsStill
<1> HIDE DEF p2
<1>9. p3 \in Seq(Ordinary) /\ Begins(p3, o1, o2)
  BY <1>6, <1>8, BeginsStill
<1> HIDE DEF p3
<1>10. p4 \in Seq(Ordinary) /\ Begins(p4, o1, o2)
  BY <1>6, <1>9, BeginsStill
<1> HIDE DEF p4
<1>11. p5 \in Seq(Ordinary) /\ Begins(p5, o1, o2)
  BY <1>6, <1>10, BeginsStill
<1> HIDE DEF p5
<1>12. Begins(p5 \o body, o1, o2)
  BY <1>6, <1>11, BeginsStill
<1> QED BY <1>1, <1>12 DEF p2, p3, p4, p5, o1, o2

LEMMA ByHandDelimits ==
  ASSUME NEW x \in Respond!AnswerType, x.by = "R", x.manual, NEW room \in Int
  PROVE  Delimits(Respond!HandlerOps(x), Open("none", -2, room, 0))
<1> DEFINE p  == Respond!HandlerOps(x)
           a  == Open("none", -2, room, 0)
           c  == [a EXCEPT !.closes = TRUE]
           h  == [a EXCEPT !.at = "head"]
           hc == [h EXCEPT !.closes = TRUE]
           e  == [c EXCEPT !.at = "body"]
           o1 == Respond!Raw(Respond!Line(x.status))
           o2 == Respond!Op("close")
<1>0. x.status \in Int /\ Respond!Taken(x)
  BY DEF Respond!AnswerType, Respond!Taken
<1>1. a \in Respond!Views /\ a.at = "none"
  <2>1. "none" \in Places /\ -2 \in Int /\ 0 \in Int
    BY DEF Places
  <2> QED BY <2>1, OpenIs
<1> HIDE DEF a
<1>2. /\ c \in Respond!Views /\ c.closes /\ c.at = "none" /\ h \in Respond!Views /\ hc \in Respond!Views
      /\ e \in Respond!Views /\ e.closes /\ [c EXCEPT !.at = "head"] = hc
  BY <1>1 DEF Respond!Views
<1>3. \A v : /\ Respond!Allowed(v, o1) <=> v.at = "none"
             /\ Respond!After(v, o1) = [v EXCEPT !.at = "head"]
  BY <1>0, LinesAre
<1>4. Begins(p, o1, o2)
  BY ByHandBegins
<1>5. p \in Seq(Ordinary) /\ Respond!Course(p, c, e)
  BY <1>0, <1>2, HandlerCloses
<1>6. p \in Seq(Respond!Operations) /\ p # <<>> /\ Head(p) = o1 /\ Tail(p) # <<>> /\ Head(Tail(p)) = o2
  BY <1>4, <1>5, Ordinaries DEF Begins
<1>7. Respond!Allowed(a, o1) /\ Respond!After(a, o1) = h /\ Respond!After(c, o1) = hc
  BY <1>1, <1>2, <1>3
<1> HIDE DEF p, c, h, hc, e, o1
<1>8. Tail(p) \in Seq(Respond!Operations) /\ Respond!Course(Tail(p), hc, e)
  BY <1>5, <1>6, <1>7, CourseHead
<1>9. Delimits(Tail(p), h)
  BY <1>2, <1>6, <1>8, CloseDelimits DEF hc
<1>10. PICK b \in Respond!Views : Respond!Course(Tail(p), h, b) /\ Respond!Delimited(b)
  BY <1>9 DEF Delimits
<1>11. Respond!Course(p, a, b)
  BY <1>1, <1>6, <1>7, <1>10, CourseCons
<1>12. Delimits(p, a)
  BY <1>10, <1>11 DEF Delimits
<1> QED BY <1>12 DEF p, a

\* The operations of mg_send_http_ok().
LEMMA OkAre == ASSUME NEW n \in Int PROVE Respond!OkOps(n) \in Seq(Ordinary)
<1> DEFINE a == [at |-> "begun", told |-> 0, room |-> 0, got |-> 0, closes |-> TRUE]
<1>1. a \in Respond!Views /\ a.closes /\ a.at # "head"
  BY DEF Respond!Views
<1> HIDE DEF a
<1> QED BY <1>1, OkGoes

(* Any answer, where the connection may be kept. *)
LEMMA AnswerDelimits ==
  ASSUME NEW x \in Respond!AnswerType, Respond!Taken(x), NEW room \in Int, room >= 3,
         x.by = "R" => Len(x.names) + 2 <= room,
         x.by = "R" => \A i \in 1 .. Len(x.names) : x.names[i] \notin Respond!Framing,
         x.by = "server" => x.status # 200
  PROVE  Delimits(Respond!Answer(x), Open("none", -2, room, 0))
<1> DEFINE a == Open("none", -2, room, 0)
           c == [a EXCEPT !.closes = TRUE]
<1>1. a \in Respond!Views /\ a.at = "none"
  BY NothingYet
<1>2. CASE x.by = "R"
  <2>1. Respond!Answer(x) = Respond!HandlerOps(x)
    BY <1>2 DEF Respond!Answer
  <2>2. CASE x.manual
    BY <1>2, <2>1, <2>2, ByHandDelimits
  <2>3. CASE ~x.manual
    BY <1>2, <2>1, <2>3, HandlerDelimits
  <2> QED BY <2>2, <2>3
<1>3. CASE x.by = "server"
  <2>1. x.status \in Respond!Codes
    BY <1>3 DEF Respond!AnswerType
  <2> QED BY <1>3, <2>1, ShortDelimits DEF Respond!Answer
<1>4. CASE x.by = "redirect"
  <2>1. x.status \in Respond!Codes
    BY <1>4 DEF Respond!AnswerType
  <2> QED BY <1>4, <2>1, RedirectDelimits DEF Respond!Answer
<1>5. CASE x.by = "error"
  <2> DEFINE o == Respond!Error(x.status)
             b == [a EXCEPT !.at = "body", !.closes = TRUE]
  <2>1. x.status \in Respond!Codes
    BY <1>5 DEF Respond!AnswerType
  <2> HIDE DEF a
  <2>2. o \in Ordinary /\ Respond!Allowed(a, o) /\ Respond!After(a, o) = b
    BY <1>1, <2>1, ErrorOps
  <2>3. b \in Respond!Views /\ b.closes
    BY <1>1 DEF Respond!Views
  <2>4. Respond!Answer(x) = <<o>>
    BY <1>5 DEF Respond!Answer
  <2> HIDE DEF o, b
  <2>5. Respond!Course(<<o>>, a, b)
    BY <1>1, <2>2, Ordinaries, CourseOne
  <2>6. Respond!Delimited(b)
    BY <2>3 DEF Respond!Delimited
  <2>7. Delimits(Respond!Answer(x), a)
    BY <2>3, <2>4, <2>5, <2>6, DelimitsHere
  <2> QED BY <2>7 DEF a
<1>6. CASE x.by = "ok"
  <2> DEFINE n == x.body
             r == room - 3
             q == Respond!OkOps(n)
             p == <<Respond!Raw(Respond!Bytes(n))>>
  <2>1. n \in Nat /\ n \in Int /\ r \in Int /\ ~(n < 0) /\ 0 + n = n
    BY <1>6 DEF Respond!AnswerType
  <2>2. Respond!Answer(x) = q \o p
    BY <1>6 DEF Respond!Answer
  <2> HIDE DEF n
  <2>3. Respond!Course(q, Open("none", -2, room, 0), Open("body", n, r, 0))
    BY <2>1, OkTells
  <2> HIDE DEF r
  <2>4. Respond!Course(p, Open("body", n, r, 0), Open("body", n, r, 0 + n))
    BY <2>1, BytesGo
  <2>5. Open("body", n, r, n) \in Respond!Views /\ Respond!Delimited(Open("body", n, r, n))
    BY <2>1, OpenDelimits
  <2>6. Delimits(p, Open("body", n, r, 0))
    BY <2>1, <2>4, <2>5, DelimitsHere
  <2>7. p \in Seq(Ordinary)
    BY <2>1, BytesAre
  <2>8. q \in Seq(Ordinary)
    BY <1>1, <2>1, OkAre
  <2> HIDE DEF p, q
  <2>9. Delimits(q \o p, Open("none", -2, room, 0))
    BY <2>3, <2>6, <2>7, <2>8, DelimitsThen
  <2> QED BY <2>2, <2>9
<1>7. CASE x.by = "parts"
  <2> DEFINE r == room - 3
             q == Respond!OkOps(-1)
             p == [i \in 1 .. Len(x.parts) |-> Respond!Raw(Respond!Bytes(x.parts[i]))]
  <2>1. x.parts \in Seq(Nat) /\ r \in Int /\ -1 \in Int /\ -1 < 0
    BY <1>7 DEF Respond!AnswerType
  <2>2. Respond!Answer(x) = q \o p
    BY <1>7 DEF Respond!Answer
  <2>3. Respond!Course(q, Open("none", -2, room, 0), Open("body", -1, r, 0))
    BY <2>1, OkTells
  <2> HIDE DEF r
  <2>4. Delimits(p, Open("body", -1, r, 0))
    BY <2>1, PartsGo
  <2>5. p \in Seq(Ordinary)
    <3>1. \A n \in Nat : Respond!Raw(Respond!Bytes(n)) \in Ordinary
      BY BytesAre
    <3> QED BY <2>1, <3>1
  <2>6. q \in Seq(Ordinary)
    BY <2>1, OkAre
  <2> HIDE DEF p, q
  <2>7. Delimits(q \o p, Open("none", -2, room, 0))
    BY <2>3, <2>4, <2>5, <2>6, DelimitsThen
  <2> QED BY <2>2, <2>7
<1>8. CASE x.by = "fails"
  <2> DEFINE n == x.body
             r == room - 3
             t == IF n < 0 THEN -1 ELSE n
             q == Respond!OkOps(n)
             o == Respond!Error(x.status)
             p == <<o>>
             b == Open("body", t, r, 0)
             d == [b EXCEPT !.at = "body", !.closes = TRUE]
  <2>1. n \in Int /\ r \in Int /\ t \in Int /\ x.status \in Respond!Codes
    BY <1>8 DEF Respond!AnswerType
  <2>2. Respond!Answer(x) = q \o p
    BY <1>8 DEF Respond!Answer
  <2>3. Respond!Course(q, Open("none", -2, room, 0), b)
    BY <2>1, OkTells
  <2>4. q \in Seq(Ordinary)
    BY <2>1, OkAre
  <2> HIDE DEF q, n, r, t
  <2>5. b \in Respond!Views /\ b.at = "body"
    <3>1. "body" \in Places /\ 0 \in Int
      BY DEF Places
    <3>2. \A i, j, g \in Int : Open("body", i, j, g) \in Respond!Views /\ Open("body", i, j, g).at = "body"
      BY <3>1, OpenIs
    <3> QED BY <2>1, <3>1, <3>2
  <2> HIDE DEF b
  <2>6. d \in Respond!Views /\ d.closes
    BY <2>5 DEF Respond!Views
  <2>7. o \in Ordinary /\ Respond!Allowed(b, o) /\ Respond!After(b, o) = d
    BY <2>1, <2>5, ErrorOps
  <2> HIDE DEF o, d
  <2>8. Respond!Course(p, b, d) /\ p \in Seq(Ordinary)
    BY <2>5, <2>7, Ordinaries, CourseOne
  <2>9. Delimits(p, b)
    BY <2>6, <2>8, DelimitsHere DEF Respond!Delimited
  <2> HIDE DEF p
  <2>10. Delimits(q \o p, Open("none", -2, room, 0))
    BY <2>3, <2>4, <2>8, <2>9, DelimitsThen
  <2> QED BY <2>2, <2>10
<1>9. CASE x.by = "closing"
  <2> DEFINE p == Respond!Answer(x)
             o == Respond!Op("close")
  <2>1. c \in Respond!Views /\ c.closes /\ c.at = "none"
    <3> HIDE DEF a
    <3> QED BY <1>1 DEF Respond!Views
  <2>2. p \in Seq(Ordinary) /\ \E b \in Respond!Views : b.closes /\ Respond!Course(p, c, b)
    <3> HIDE DEF c
    <3> QED BY <2>1, AnswerCloses
  <2>3. p # <<>> /\ Head(p) = o
    <3> DEFINE q == Respond!OkOps(x.body)
               u == <<Respond!Raw(Respond!Bytes(x.body))>>
    <3>1. p = <<o>> \o q \o u
      BY <1>9 DEF Respond!Answer
    <3>2. x.body \in Nat /\ x.body \in Int
      BY <1>9 DEF Respond!AnswerType
    <3>3. q \in Seq(Ordinary)
      BY <3>2, OkAre
    <3>4. u \in Seq(Ordinary)
      BY <3>2, BytesAre
    <3>5. o \in Ordinary
      BY PlainOps
    <3> HIDE DEF p, q, u, o
    <3> QED BY <3>1, <3>3, <3>4, <3>5
  <2> HIDE DEF a, p
  <2>4. PICK b \in Respond!Views : b.closes /\ Respond!Course(p, c, b)
    BY <2>2
  <2>5. p \in Seq(Respond!Operations)
    BY <2>2, Ordinaries
  <2>6. Delimits(p, a)
    BY <1>1, <2>3, <2>4, <2>5, CloseDelimits
  <2> QED BY <2>6 DEF a, p
<1> QED BY <1>2, <1>3, <1>4, <1>5, <1>6, <1>7, <1>8, <1>9 DEF Respond!AnswerType

(* What was got of a body. *)
Sizes(s) == [i \in 1 .. Len(s) |-> Respond!Size(s[i])]

\* The sizes of items, and their sum.
LEMMA SizesAre ==
  ASSUME NEW s \in Seq(Respond!ItemType)
  PROVE  /\ Sizes(s) \in Seq(Nat) /\ Sizes(s) \in Seq(Int) /\ Len(Sizes(s)) = Len(s)
         /\ \A i \in 1 .. Len(s) : Sizes(s)[i] = Respond!Size(s[i])
<1>1. \A x \in Respond!ItemType : Respond!Size(x) \in Nat
  BY DEF Respond!ItemType, Respond!HeaderType, Respond!Size
<1>2. \A i \in 1 .. Len(s) : s[i] \in Respond!ItemType
  OBVIOUS
<1>3. \A i \in 1 .. Len(s) : Respond!Size(s[i]) \in Nat
  BY <1>1, <1>2
<1> QED BY <1>3 DEF Sizes

LEMMA BodyIs ==
  ASSUME NEW s \in Seq(Respond!ItemType), NEW f, SumOf(Sizes(s), f)
  PROVE  Respond!BodyOf(s) = f[Len(s)] /\ Respond!BodyOf(s) \in Int
<1> DEFINE n == Len(s)
           Up(g) == g = [i \in 0 .. n |-> IF i = 0 THEN 0 ELSE g[i - 1] + Respond!Size(s[i])]
<1>0. /\ n \in Nat /\ Sizes(s) \in Seq(Int) /\ Len(Sizes(s)) = n
      /\ \A i \in 1 .. n : Sizes(s)[i] = Respond!Size(s[i])
  BY SizesAre
<1>1. f \in [0 .. n -> Int] /\ f[0] = 0 /\ \A i \in 1 .. n : f[i] = f[i - 1] + Respond!Size(s[i])
  BY <1>0 DEF SumOf
<1>2. \A i \in 0 .. n : i = 0 \/ (i \in 1 .. n /\ i - 1 \in 0 .. n)
  BY <1>0
<1>3. Up(f)
  <2> DEFINE h == [i \in 0 .. n |-> IF i = 0 THEN 0 ELSE f[i - 1] + Respond!Size(s[i])]
  <2>1. ASSUME NEW i \in 0 .. n PROVE f[i] = h[i]
    BY <1>1, <1>2
  <2>2. f = [i \in 0 .. n |-> f[i]] /\ h = [i \in 0 .. n |-> h[i]]
    BY <1>1
  <2> HIDE DEF h
  <2>3. f = h
    BY <2>1, <2>2
  <2> QED BY <2>3 DEF h
<1> DEFINE g == CHOOSE g : Up(g)
<1>4. Up(g)
  <2> HIDE DEF Up
  <2> QED BY <1>3
<1>5. Respond!BodyOf(s) = g[n]
  BY DEF Respond!BodyOf
<1> HIDE DEF g
<1>6. g = [i \in 0 .. n |-> g[i]] /\ g[0] = 0 /\ \A i \in 1 .. n : g[i] = g[i - 1] + Respond!Size(s[i])
  BY <1>0, <1>2, <1>4
<1> HIDE DEF n
<1> DEFINE T == {k \in Nat : k <= n => g[k] = f[k]}
<1>7. 0 \in T
  BY <1>1, <1>6
<1>8. ASSUME NEW k \in Nat, k \in T PROVE k + 1 \in T
  <2> SUFFICES ASSUME k + 1 <= n PROVE g[k + 1] = f[k + 1]
    OBVIOUS
  <2> DEFINE j == k + 1
  <2>1. j \in 1 .. n /\ j - 1 = k /\ k <= n
    BY <1>0
  <2> HIDE DEF j
  <2>2. g[k] = f[k]
    BY <1>8, <2>1
  <2>3. g[j] = f[j]
    BY <1>1, <1>6, <2>1, <2>2
  <2> QED BY <2>3 DEF j
<1>9. Nat \subseteq T
  <2> HIDE DEF T
  <2> QED BY <1>7, <1>8, Induction
<1>10. g[n] = f[n] /\ n \in 0 .. n
  BY <1>0, <1>9
<1> QED BY <1>1, <1>5, <1>10 DEF n

LEMMA BodyIsInt == ASSUME NEW s \in Seq(Respond!ItemType) PROVE Respond!BodyOf(s) \in Int
<1>1. PICK f : SumOf(Sizes(s), f)
  BY SizesAre, SumsExist
<1> QED BY <1>1, BodyIs

LEMMA BodyIsNat == ASSUME NEW s \in Seq(Respond!ItemType) PROVE Respond!BodyOf(s) >= 0
<1> DEFINE n == Len(s)
<1>0. /\ n \in Nat /\ Sizes(s) \in Seq(Nat) /\ Sizes(s) \in Seq(Int) /\ Len(Sizes(s)) = n
  BY SizesAre
<1>1. PICK f : SumOf(Sizes(s), f)
  BY <1>0, SumsExist
<1>2. /\ f \in [0 .. n -> Int] /\ f[0] = 0 /\ \A i \in 1 .. n : f[i] = f[i - 1] + Sizes(s)[i]
      /\ \A i \in 1 .. n : Sizes(s)[i] \in Nat
  BY <1>0, <1>1 DEF SumOf
<1>5. Respond!BodyOf(s) = f[n]
  BY <1>1, BodyIs
<1> HIDE DEF n
<1> DEFINE T == {k \in Nat : k <= n => f[k] >= 0}
<1>3. 0 \in T
  BY <1>2
<1>4. ASSUME NEW k \in Nat, k \in T PROVE k + 1 \in T
  <2> SUFFICES ASSUME k + 1 <= n PROVE f[k + 1] >= 0
    OBVIOUS
  <2> DEFINE j == k + 1
  <2>1. j \in 1 .. n /\ j - 1 = k /\ k <= n /\ k \in 0 .. n
    BY <1>0
  <2> HIDE DEF j
  <2>2. f[k] >= 0 /\ f[k] \in Int
    BY <1>2, <1>4, <2>1
  <2>3. f[j] >= 0
    BY <1>2, <2>1, <2>2
  <2> QED BY <2>3 DEF j
<1>9. Nat \subseteq T
  <2> HIDE DEF T
  <2> QED BY <1>3, <1>4, Induction
<1> QED BY <1>0, <1>5, <1>9

LEMMA BodyNone == Respond!BodyOf(<<>>) = 0
<1> DEFINE s == <<>>
           f == [i \in 0 .. 0 |-> 0]
<1>0. s \in Seq(Respond!ItemType) /\ Len(s) = 0 /\ 1 .. 0 = {}
  OBVIOUS
<1>1. f \in [0 .. 0 -> Int] /\ f[0] = 0
  OBVIOUS
<1> HIDE DEF s, f
<1>2. Len(Sizes(s)) = 0
  BY <1>0, SizesAre
<1>3. SumOf(Sizes(s), f)
  BY <1>0, <1>1, <1>2 DEF SumOf
<1>4. Respond!BodyOf(s) = 0
  BY <1>0, <1>1, <1>3, BodyIs
<1> QED BY <1>4 DEF s

LEMMA BodyAdds ==
  ASSUME NEW s \in Seq(Respond!ItemType), NEW x \in Respond!ItemType
  PROVE  Respond!BodyOf(s \o <<x>>) = Respond!BodyOf(s) + Respond!Size(x)
<1> DEFINE t == s \o <<x>>
           n == Len(s)
           m == n + 1
<1>1. /\ n \in Nat /\ t \in Seq(Respond!ItemType) /\ Len(t) = m /\ t[m] = x
      /\ \A i \in 1 .. n : t[i] = s[i]
  OBVIOUS
<1> HIDE DEF t
<1>2. PICK f : SumOf(Sizes(s), f)
  BY SizesAre, SumsExist
<1>3. PICK g : SumOf(Sizes(t), g)
  BY <1>1, SizesAre, SumsExist
<1>4. /\ Sizes(s) \in Seq(Int) /\ Len(Sizes(s)) = n
      /\ \A i \in 1 .. n : Sizes(s)[i] = Respond!Size(s[i])
  BY SizesAre
<1>5. /\ Sizes(t) \in Seq(Int) /\ Len(Sizes(t)) = m
      /\ \A i \in 1 .. m : Sizes(t)[i] = Respond!Size(t[i])
  BY <1>1, SizesAre
<1>6. \A i \in 0 .. n : g[i] = f[i]
  <2>1. \A i \in 1 .. n : i \in 1 .. m /\ Sizes(t)[i] = Sizes(s)[i]
    BY <1>1, <1>4, <1>5
  <2>2. n <= m
    BY <1>1
  <2> QED BY <1>2, <1>3, <1>4, <1>5, <2>1, <2>2, SumsAgree
<1>7. g[m] = g[n] + Respond!Size(x)
  <2>1. m \in 1 .. m /\ m - 1 = n
    BY <1>1
  <2>2. g[m] = g[m - 1] + Sizes(t)[m]
    BY <1>3, <1>5, <2>1 DEF SumOf
  <2> QED BY <1>1, <1>5, <2>1, <2>2
<1>8. Respond!BodyOf(s) = f[n] /\ Respond!BodyOf(t) = g[m]
  BY <1>1, <1>2, <1>3, BodyIs
<1>9. g[n] = f[n]
  BY <1>1, <1>6
<1>10. Respond!BodyOf(t) = Respond!BodyOf(s) + Respond!Size(x)
  BY <1>7, <1>8, <1>9
<1> QED BY <1>10 DEF t

\* There is no body in a head.
LEMMA HeadHasNoBody ==
  ASSUME NEW s \in Seq(Respond!ItemType), \A i \in 1 .. Len(s) : s[i].k # "body"
  PROVE  Respond!BodyOf(s) = 0
<1> DEFINE n == Len(s)
           f == [i \in 0 .. n |-> 0]
<1>0. n \in Nat /\ Len(Sizes(s)) = n /\ \A i \in 1 .. n : Sizes(s)[i] = Respond!Size(s[i])
  BY SizesAre
<1>1. \A i \in 1 .. n : Sizes(s)[i] = 0
  BY <1>0 DEF Respond!Size
<1> HIDE DEF n
<1>2. f \in [0 .. n -> Int] /\ \A i \in 0 .. n : f[i] = 0
  BY <1>0
<1> HIDE DEF f
<1>3. f[0] = 0 /\ \A i \in 1 .. n : f[i] = 0 /\ f[i - 1] = 0
  BY <1>0, <1>2
<1>4. SumOf(Sizes(s), f)
  BY <1>0, <1>1, <1>2, <1>3 DEF SumOf
<1>5. Respond!BodyOf(s) = f[n]
  BY <1>4, BodyIs DEF n
<1> QED BY <1>0, <1>2, <1>5

(* The headers of a name. *)
LEMMA NamedJoins ==
  ASSUME NEW S, NEW p \in Seq(S), NEW q \in Seq(S), NEW name
  PROVE  Respond!Named(p \o q, name) = Respond!Named(p, name) \cup Respond!Named(q, name)
<1> DEFINE r == p \o q
           m == Len(p)
           n == Len(q)
<1>1. /\ m \in Nat /\ n \in Nat /\ Len(r) = m + n
      /\ \A i \in 1 .. m : r[i] = p[i]
      /\ \A i \in 1 .. n : r[m + i] = q[i]
  OBVIOUS
<1>2. /\ \A i \in 1 .. m : i \in 1 .. m + n
      /\ \A i \in 1 .. n : m + i \in 1 .. m + n
      /\ \A i \in 1 .. m + n : i \in 1 .. m \/ (i - m \in 1 .. n /\ m + (i - m) = i)
  BY <1>1
<1> HIDE DEF r, m, n
<1>3. \A x : x \in Respond!Named(r, name)
               <=> \E i \in 1 .. m + n : r[i].k = "header" /\ r[i].name = name /\ x = r[i].v
  BY <1>1 DEF Respond!Named, Respond!Is
<1>4. \A x : x \in Respond!Named(p, name)
               <=> \E i \in 1 .. m : p[i].k = "header" /\ p[i].name = name /\ x = p[i].v
  BY DEF Respond!Named, Respond!Is, m
<1>5. \A x : x \in Respond!Named(q, name)
               <=> \E i \in 1 .. n : q[i].k = "header" /\ q[i].name = name /\ x = q[i].v
  BY DEF Respond!Named, Respond!Is, n
<1>6. ASSUME NEW x PROVE x \in Respond!Named(r, name)
                          <=> x \in Respond!Named(p, name) \/ x \in Respond!Named(q, name)
  <2>1. ASSUME x \in Respond!Named(p, name) PROVE x \in Respond!Named(r, name)
    BY <1>1, <1>2, <1>3, <1>4, <2>1
  <2>2. ASSUME x \in Respond!Named(q, name) PROVE x \in Respond!Named(r, name)
    BY <1>1, <1>2, <1>3, <1>5, <2>2
  <2>3. ASSUME x \in Respond!Named(r, name)
        PROVE  x \in Respond!Named(p, name) \/ x \in Respond!Named(q, name)
    <3>1. PICK i \in 1 .. m + n : r[i].k = "header" /\ r[i].name = name /\ x = r[i].v
      BY <1>3, <2>3
    <3>2. CASE i \in 1 .. m
      BY <1>1, <1>4, <3>1, <3>2
    <3>3. CASE i - m \in 1 .. n /\ m + (i - m) = i
      <4>1. r[i] = q[i - m]
        BY <1>1, <3>3
      <4> QED BY <1>5, <3>1, <3>3, <4>1
    <3> QED BY <1>2, <3>2, <3>3
  <2> QED BY <2>1, <2>2, <2>3
<1>7. Respond!Named(r, name) = Respond!Named(p, name) \cup Respond!Named(q, name)
  BY <1>6
<1> QED BY <1>7 DEF r

\* The values of a header in one item, and in none.
LEMMA NamedOne ==
  ASSUME NEW x, NEW name
  PROVE  Respond!Named(<<x>>, name) = IF x.k = "header" /\ x.name = name THEN {x.v} ELSE {}
<1> DEFINE s == <<x>>
<1>1. Len(s) = 1 /\ s[1] = x /\ 1 .. 1 = {1}
  OBVIOUS
<1> HIDE DEF s
<1>2. Respond!Named(s, name) = IF x.k = "header" /\ x.name = name THEN {x.v} ELSE {}
  BY <1>1 DEF Respond!Named, Respond!Is
<1> QED BY <1>2 DEF s

LEMMA NamedNone == \A name : Respond!Named(<<>>, name) = {}
<1> DEFINE s == <<>>
<1>1. Len(s) = 0 /\ 1 .. 0 = {}
  OBVIOUS
<1> HIDE DEF s
<1>2. \A name : Respond!Named(s, name) = {}
  BY <1>1 DEF Respond!Named, Respond!Is
<1> QED BY <1>2 DEF s

(* What the client has of a response: a status line, headers, a blank line, a body. *)
Shaped(s) == s = <<>> \/ Respond!HeadOnly(s) \/ Respond!WithBody(s)

\* The beginning of a sequence.
LEMMA PrefixIs ==
  ASSUME NEW S, NEW s \in Seq(S), NEW i \in 0 .. Len(s)
  PROVE  /\ SubSeq(s, 1, i) \in Seq(S) /\ Len(SubSeq(s, 1, i)) = i
         /\ \A j \in 1 .. i : SubSeq(s, 1, i)[j] = s[j]
  OBVIOUS

\* A response that is cut off.
LEMMA PrefixShaped ==
  ASSUME NEW S, NEW s \in Seq(S), Respond!WithBody(s), NEW n \in 0 .. Len(s)
  PROVE  Shaped(SubSeq(s, 1, n))
<1> DEFINE t == SubSeq(s, 1, n)
<1>1. t \in Seq(S) /\ Len(t) = n /\ \A j \in 1 .. n : t[j] = s[j]
  BY PrefixIs
<1> HIDE DEF t
<1>2. PICK b \in 2 .. Len(s) :
        /\ s[1].k = "status" /\ s[b].k = "blank"
        /\ \A i \in 2 .. b - 1 : s[i].k = "header"
        /\ \A i \in b + 1 .. Len(s) : s[i].k = "body"
  BY DEF Respond!WithBody
<1>3. CASE n = 0
  BY <1>1, <1>3 DEF Shaped
<1>4. CASE n # 0 /\ n < b
  <2>1. n > 0 /\ 1 \in 1 .. n /\ \A i \in 2 .. n : i \in 1 .. n /\ i \in 2 .. b - 1
    BY <1>2, <1>4
  <2>2. Respond!HeadOnly(t)
    BY <1>1, <1>2, <2>1 DEF Respond!HeadOnly
  <2> QED BY <2>2 DEF Shaped, t
<1>5. CASE n >= b
  <2>1. /\ b \in 2 .. n /\ 1 \in 1 .. n /\ b \in 1 .. n
        /\ \A i \in 2 .. b - 1 : i \in 1 .. n
        /\ \A i \in b + 1 .. n : i \in 1 .. n /\ i \in b + 1 .. Len(s)
    BY <1>2, <1>5
  <2>2. /\ t[1].k = "status" /\ t[b].k = "blank"
        /\ \A i \in 2 .. b - 1 : t[i].k = "header"
        /\ \A i \in b + 1 .. n : t[i].k = "body"
    BY <1>1, <1>2, <2>1
  <2>3. Respond!WithBody(t)
    BY <1>1, <2>1, <2>2 DEF Respond!WithBody
  <2> QED BY <2>3 DEF Shaped, t
<1> QED BY <1>2, <1>3, <1>4, <1>5 DEF t

\* One more of what is allowed.
LEMMA ShapeAdds ==
  ASSUME NEW S, NEW s \in Seq(S), NEW x \in S
  PROVE  /\ (s = <<>> /\ x.k = "status") => Respond!HeadOnly(s \o <<x>>)
         /\ (Respond!HeadOnly(s) /\ x.k = "header") => Respond!HeadOnly(s \o <<x>>)
         /\ (Respond!HeadOnly(s) /\ x.k = "blank") => Respond!WithBody(s \o <<x>>)
         /\ (Respond!WithBody(s) /\ x.k = "body") => Respond!WithBody(s \o <<x>>)
<1> DEFINE t == s \o <<x>>
           n == Len(s)
           m == n + 1
<1>1. /\ n \in Nat /\ Len(t) = m /\ t[m] = x /\ \A i \in 1 .. n : t[i] = s[i]
      /\ s = <<>> => n = 0
  OBVIOUS
<1> HIDE DEF t
<1>2. ASSUME s = <<>>, x.k = "status" PROVE Respond!HeadOnly(t)
  <2>1. n = 0 /\ m = 1 /\ 2 .. 1 = {}
    BY <1>1, <1>2
  <2> QED BY <1>1, <1>2, <2>1 DEF Respond!HeadOnly
<1>3. ASSUME Respond!HeadOnly(s), x.k = "header" PROVE Respond!HeadOnly(t)
  <2>1. n > 0 /\ s[1].k = "status" /\ \A i \in 2 .. n : s[i].k = "header"
    BY <1>3 DEF Respond!HeadOnly
  <2>2. /\ m > 0 /\ 1 \in 1 .. n
        /\ \A i \in 2 .. m : i = m \/ (i \in 2 .. n /\ i \in 1 .. n)
    BY <1>1, <2>1
  <2>3. t[1].k = "status" /\ \A i \in 2 .. m : t[i].k = "header"
    BY <1>1, <1>3, <2>1, <2>2
  <2> QED BY <1>1, <2>2, <2>3 DEF Respond!HeadOnly
<1>4. ASSUME Respond!HeadOnly(s), x.k = "blank" PROVE Respond!WithBody(t)
  <2>1. n > 0 /\ s[1].k = "status" /\ \A i \in 2 .. n : s[i].k = "header"
    BY <1>4 DEF Respond!HeadOnly
  <2>2. /\ m \in 2 .. m /\ 1 \in 1 .. n /\ m + 1 .. m = {}
        /\ \A i \in 2 .. m - 1 : i \in 2 .. n /\ i \in 1 .. n
    BY <1>1, <2>1
  <2>3. t[1].k = "status" /\ t[m].k = "blank" /\ \A i \in 2 .. m - 1 : t[i].k = "header"
    BY <1>1, <1>4, <2>1, <2>2
  <2> QED BY <1>1, <2>2, <2>3 DEF Respond!WithBody
<1>5. ASSUME Respond!WithBody(s), x.k = "body" PROVE Respond!WithBody(t)
  <2>1. PICK b \in 2 .. n :
          /\ s[1].k = "status" /\ s[b].k = "blank"
          /\ \A i \in 2 .. b - 1 : s[i].k = "header"
          /\ \A i \in b + 1 .. n : s[i].k = "body"
    BY <1>5 DEF Respond!WithBody
  <2>2. /\ b \in 2 .. m /\ 1 \in 1 .. n /\ b \in 1 .. n
        /\ \A i \in 2 .. b - 1 : i \in 1 .. n
        /\ \A i \in b + 1 .. m : i = m \/ (i \in b + 1 .. n /\ i \in 1 .. n)
    BY <1>1, <2>1
  <2>3. /\ t[1].k = "status" /\ t[b].k = "blank"
        /\ \A i \in 2 .. b - 1 : t[i].k = "header"
        /\ \A i \in b + 1 .. m : t[i].k = "body"
    BY <1>1, <1>5, <2>1, <2>2
  <2> QED BY <1>1, <2>2, <2>3 DEF Respond!WithBody
<1> QED BY <1>2, <1>3, <1>4, <1>5 DEF t

\* Sequences, joined.
LEMMA SeqsJoin ==
  ASSUME NEW S, NEW p \in Seq(S), NEW q \in Seq(S), NEW r \in Seq(S)
  PROVE  (p \o q) \o r = p \o (q \o r)
  OBVIOUS

LEMMA OneIn == ASSUME NEW S, NEW x \in S PROVE <<x>> \in Seq(S)
  OBVIOUS

\* What mg_response_header_send() writes.
LEMMA FullHeaderIs ==
  ASSUME headers \in Seq(Respond!HeaderType), status \in Int
  PROVE  /\ Respond!FullHeader \in Seq(Respond!ItemType) /\ Respond!WithBody(Respond!FullHeader)
         /\ Respond!BodyOf(Respond!FullHeader) = 0
<1> DEFINE l == <<Respond!Line(status)>>
           d == IF Respond!HasHeader("Date") THEN <<>> ELSE <<Respond!Header("Date", 0)>>
           c == IF Respond!HasHeader("Connection") THEN <<>>
                ELSE <<Respond!Header("Connection", Respond!Suggested)>>
           e == <<Respond!Blank>>
<1>1. Respond!FullHeader = l \o headers \o d \o c \o e
  BY DEF Respond!FullHeader
<1>2. /\ "Date" \in Respond!Names /\ "Connection" \in Respond!Names
  BY DEF Respond!Names, Respond!Framing
<1>3. Respond!Suggested \in Nat
  BY DEF Respond!Suggested
<1>4. /\ Respond!Header("Date", 0) \in Respond!HeaderType
      /\ Respond!Header("Connection", Respond!Suggested) \in Respond!HeaderType
  BY <1>2, <1>3, AddIs
<1>5. /\ Respond!Line(status) \in Respond!ItemType /\ Respond!Line(status).k = "status"
      /\ Respond!Blank \in Respond!ItemType /\ Respond!Blank.k = "blank"
  BY DEF Respond!Line, Respond!Blank, Respond!ItemType
<1>6. d \in Seq(Respond!HeaderType) /\ c \in Seq(Respond!HeaderType)
  <2> DEFINE x == Respond!Header("Date", 0)
             y == Respond!Header("Connection", Respond!Suggested)
  <2>1. (d = <<>> \/ d = <<x>>) /\ (c = <<>> \/ c = <<y>>)
    OBVIOUS
  <2>2. x \in Respond!HeaderType /\ y \in Respond!HeaderType
    BY <1>4
  <2> HIDE DEF d, c, x, y
  <2>3. <<x>> \in Seq(Respond!HeaderType) /\ <<y>> \in Seq(Respond!HeaderType) /\ <<>> \in Seq(Respond!HeaderType)
    BY <2>2, OneIn
  <2> QED BY <2>1, <2>3
<1>7. \A h \in Respond!HeaderType : h.k = "header" /\ h \in Respond!ItemType
  BY DEF Respond!HeaderType, Respond!ItemType
<1> DEFINE L == Respond!Line(status)
           B == Respond!Blank
<1> HIDE DEF d, c, L, B
<1> DEFINE h == headers \o d \o c
<1>8. h \in Seq(Respond!HeaderType)
  BY <1>6
<1> HIDE DEF h
<1>9. l \o headers \o d \o c \o e = l \o h \o e
  <2>1. l \in Seq(Respond!ItemType) /\ e \in Seq(Respond!ItemType)
    BY <1>5, OneIn
  <2>2. /\ headers \in Seq(Respond!ItemType) /\ d \in Seq(Respond!ItemType) /\ c \in Seq(Respond!ItemType)
    BY <1>6, <1>7
  <2> HIDE DEF l, e
  <2> DEFINE m == headers \o d
  <2>3. (l \o headers) \o d = l \o m /\ m \in Seq(Respond!ItemType)
    BY <2>1, <2>2, SeqsJoin
  <2>4. h = m \o c
    BY DEF h
  <2> HIDE DEF m
  <2>5. m \in Seq(Respond!ItemType) /\ c \in Seq(Respond!ItemType) /\ l \in Seq(Respond!ItemType)
    BY <2>1, <2>2, <2>3
  <2>6. (l \o m) \o c = l \o (m \o c)
    BY <2>5, SeqsJoin
  <2> QED BY <2>3, <2>4, <2>6
<1> DEFINE s == l \o h \o e
           n == Len(h)
<1>10. /\ n \in Nat /\ \A i \in 1 .. n : h[i].k = "header" /\ h[i] \in Respond!ItemType
  BY <1>7, <1>8
<1>11. /\ Len(s) = n + 2 /\ s[1] = L /\ s[n + 2] = B /\ \A i \in 2 .. n + 1 : s[i] = h[i - 1]
       /\ s \in Seq(Respond!ItemType)
  <2>1. l = <<L>> /\ e = <<B>> /\ h \in Seq(Respond!ItemType) /\ L \in Respond!ItemType /\ B \in Respond!ItemType
    BY <1>5, <1>8, <1>10 DEF L, B
  <2> HIDE DEF l, e
  <2> QED BY <1>10, <2>1
<1> HIDE DEF s, n
<1>12. \A i \in 2 .. n + 1 : s[i].k = "header"
  <2>1. \A i \in 2 .. n + 1 : i - 1 \in 1 .. n
    BY <1>10
  <2> QED BY <1>10, <1>11, <2>1
<1>13. Respond!WithBody(s)
  <2>1. /\ n + 2 \in 2 .. Len(s) /\ (n + 2) - 1 = n + 1 /\ (n + 2) + 1 .. Len(s) = {}
    BY <1>10, <1>11
  <2>2. s[1].k = "status" /\ s[n + 2].k = "blank"
    BY <1>5, <1>11 DEF L, B
  <2> QED BY <1>12, <2>1, <2>2 DEF Respond!WithBody
<1>14. Respond!BodyOf(s) = 0
  <2>1. \A i \in 1 .. Len(s) : i = 1 \/ i = n + 2 \/ i \in 2 .. n + 1
    BY <1>10, <1>11
  <2>2. s[1].k = "status" /\ s[n + 2].k = "blank"
    BY <1>5, <1>11 DEF L, B
  <2>3. \A i \in 1 .. Len(s) : s[i].k # "body"
    BY <1>12, <2>1, <2>2
  <2> QED BY <1>11, <2>3, HeadHasNoBody
<1>15. Respond!FullHeader = s
  BY <1>1, <1>9 DEF s
<1> QED BY <1>11, <1>13, <1>14, <1>15

\* And what it tells, where the connection may be kept.
LEMMA FullHeaderTells ==
  ASSUME headers \in Seq(Respond!HeaderType), Respond!KeepsAlive, NEW n \in Int, Respond!Tells(headers, n)
  PROVE  Respond!Tells(Respond!FullHeader, n)
<1> DEFINE l == <<Respond!Line(status)>>
           d == IF Respond!HasHeader("Date") THEN <<>> ELSE <<Respond!Header("Date", 0)>>
           c == IF Respond!HasHeader("Connection") THEN <<>>
                ELSE <<Respond!Header("Connection", Respond!Suggested)>>
           e == <<Respond!Blank>>
           U == Respond!ItemType \cup {Respond!Line(status), Respond!Header("Date", 0), Respond!Blank,
                  Respond!Header("Connection", Respond!Suggested)}
           new(name) == Respond!Named(Respond!FullHeader, name)
           was(name) == Respond!Named(headers, name)
<1>1. Respond!FullHeader = l \o headers \o d \o c \o e
  BY DEF Respond!FullHeader
<1>2. Respond!Suggested = 1
  BY DEF Respond!Suggested
<1>3. /\ l \in Seq(U) /\ headers \in Seq(U) /\ d \in Seq(U) /\ c \in Seq(U) /\ e \in Seq(U)
  <2> DEFINE x == Respond!Header("Date", 0)
             y == Respond!Header("Connection", Respond!Suggested)
             u == Respond!Line(status)
             v == Respond!Blank
  <2>1. headers \in Seq(Respond!ItemType)
    BY DEF Respond!ItemType
  <2>2. /\ (d = <<>> \/ d = <<x>>) /\ (c = <<>> \/ c = <<y>>) /\ l = <<u>> /\ e = <<v>>
        /\ U = Respond!ItemType \cup {u, x, v, y}
    OBVIOUS
  <2> HIDE DEF l, d, c, e, x, y, u, v, U
  <2>3. x \in U /\ y \in U /\ u \in U /\ v \in U /\ Respond!ItemType \subseteq U
    BY <2>2
  <2>4. <<x>> \in Seq(U) /\ <<y>> \in Seq(U) /\ <<u>> \in Seq(U) /\ <<v>> \in Seq(U) /\ <<>> \in Seq(U)
    BY <2>3, OneIn
  <2>5. headers \in Seq(U)
    BY <2>1, <2>3
  <2> QED BY <2>2, <2>4, <2>5
<1>4. ASSUME NEW name PROVE new(name) = Respond!Named(l, name) \cup was(name) \cup Respond!Named(d, name)
                                         \cup Respond!Named(c, name) \cup Respond!Named(e, name)
  <2> HIDE DEF l, d, c, e, U
  <2> DEFINE p2 == l \o headers
             p3 == p2 \o d
             p4 == p3 \o c
  <2>1. p2 \in Seq(U) /\ Respond!Named(p2, name) = Respond!Named(l, name) \cup was(name)
    BY <1>3, NamedJoins
  <2> HIDE DEF p2
  <2>2. p3 \in Seq(U) /\ Respond!Named(p3, name) = Respond!Named(p2, name) \cup Respond!Named(d, name)
    BY <1>3, <2>1, NamedJoins
  <2> HIDE DEF p3
  <2>3. p4 \in Seq(U) /\ Respond!Named(p4, name) = Respond!Named(p3, name) \cup Respond!Named(c, name)
    BY <1>3, <2>2, NamedJoins
  <2> HIDE DEF p4
  <2>4. Respond!Named(p4 \o e, name) = Respond!Named(p4, name) \cup Respond!Named(e, name)
    BY <1>3, <2>3, NamedJoins
  <2>5. Respond!FullHeader = p4 \o e
    BY <1>1 DEF p2, p3, p4
  <2> QED BY <2>1, <2>2, <2>3, <2>4, <2>5
<1>5. ASSUME NEW name
      PROVE  /\ Respond!Named(l, name) = {} /\ Respond!Named(e, name) = {}
             /\ Respond!Named(d, name) = {} \/ name = "Date"
             /\ Respond!Named(c, name) = {} \/ (name = "Connection" /\ Respond!Named(c, name) = {1})
  <2>1. Respond!Named(l, name) = {}
    <3>1. Respond!Line(status).k = "status"
      BY DEF Respond!Line
    <3> QED BY <3>1, NamedOne
  <2>2. Respond!Named(e, name) = {}
    <3>1. Respond!Blank.k = "blank"
      BY DEF Respond!Blank
    <3> QED BY <3>1, NamedOne
  <2>3. Respond!Named(d, name) = {} \/ name = "Date"
    <3> DEFINE x == Respond!Header("Date", 0)
    <3>1. x.k = "header" /\ x.name = "Date"
      BY DEF Respond!Header
    <3> HIDE DEF x
    <3>2. Respond!Named(<<x>>, name) = {} \/ name = "Date"
      BY <3>1, NamedOne
    <3>3. Respond!Named(<<>>, name) = {}
      BY NamedNone
    <3>4. d = <<>> \/ d = <<x>>
      BY DEF x
    <3> HIDE DEF d
    <3> QED BY <3>2, <3>3, <3>4
  <2>4. Respond!Named(c, name) = {} \/ (name = "Connection" /\ Respond!Named(c, name) = {1})
    <3> DEFINE x == Respond!Header("Connection", Respond!Suggested)
    <3>1. x.k = "header" /\ x.name = "Connection" /\ x.v = 1
      BY <1>2 DEF Respond!Header
    <3> HIDE DEF x
    <3>2. Respond!Named(<<x>>, name) = {} \/ (name = "Connection" /\ Respond!Named(<<x>>, name) = {1})
      BY <3>1, NamedOne
    <3>3. Respond!Named(<<>>, name) = {}
      BY NamedNone
    <3>4. c = <<>> \/ c = <<x>>
      BY DEF x
    <3> HIDE DEF c
    <3> QED BY <3>2, <3>3, <3>4
  <2> QED BY <2>1, <2>2, <2>3, <2>4
<1> HIDE DEF l, d, c, e, new, was
<1>6. new("Transfer-Encoding") = was("Transfer-Encoding") /\ new("Content-Length") = was("Content-Length")
  <2>1. "Transfer-Encoding" \notin {"Date", "Connection"} /\ "Content-Length" \notin {"Date", "Connection"}
    OBVIOUS
  <2>2. new("Transfer-Encoding") = was("Transfer-Encoding")
    BY <1>4, <1>5, <2>1
  <2>3. new("Content-Length") = was("Content-Length")
    BY <1>4, <1>5, <2>1
  <2> QED BY <2>2, <2>3
<1>7. 0 \notin was("Connection") => 0 \notin new("Connection")
  <2>1. "Connection" # "Date"
    OBVIOUS
  <2>2. new("Connection") = was("Connection") \/ new("Connection") = was("Connection") \cup {1}
    BY <1>4, <1>5, <2>1
  <2> QED BY <2>2
<1> QED BY <1>6, <1>7 DEF Respond!Tells, new, was

(* What a response is made of, and what is left to do for it. *)
ResponseTyped ==
  /\ Respond!TypeOK /\ headers \in Seq(Respond!HeaderType) /\ onWire \in Seq(Respond!ItemType)
  /\ todo \in Seq(Respond!Operations) /\ Shaped(onWire)

Led(p) == \E a, b \in Respond!Views : Respond!Seen(a) /\ Respond!Course(p, a, b) /\ Respond!Delimited(b)

\* The next operation and its arguments.
LEMMA HeadIs ==
  ASSUME todo \in Seq(Respond!Operations), todo # <<>>
  PROVE  /\ Head(todo) \in Respond!Operations /\ Tail(todo) \in Seq(Respond!Operations)
         /\ Head(todo).op \in {"start", "error", "left"} => Head(todo).code \in Respond!Codes
         /\ Head(todo).op = "add" => Head(todo).item \in Respond!HeaderType
         /\ Head(todo).op = "raw" => Head(todo).item \in Respond!ItemType
         /\ Head(todo).op = "left" => Head(todo).handles \in BOOLEAN
<1>1. Head(todo) \in Respond!Operations /\ Tail(todo) \in Seq(Respond!Operations)
  OBVIOUS
<1> DEFINE o == Head(todo)
<1> HIDE DEF o
<1>2. /\ o.op \in {"start", "error", "left"} => o.code \in Respond!Codes
      /\ o.op = "add" => o.item \in Respond!HeaderType
      /\ o.op = "raw" => o.item \in Respond!ItemType
      /\ o.op = "left" => o.handles \in BOOLEAN
  BY <1>1 DEF o, Respond!Operations
<1> QED BY <1>1, <1>2 DEF o

\* The next operation, where the client is.
LEMMA LedHead ==
  ASSUME todo \in Seq(Respond!Operations), todo # <<>>, Led(todo)
  PROVE  \E a, b \in Respond!Views :
           /\ Respond!Seen(a) /\ Respond!Allowed(a, Head(todo)) /\ b = Respond!After(a, Head(todo))
           /\ Delimits(Tail(todo), b)
<1>1. PICK a \in Respond!Views, b \in Respond!Views :
        Respond!Seen(a) /\ Respond!Course(todo, a, b) /\ Respond!Delimited(b)
  BY DEF Led
<1> DEFINE p == todo
           o == Head(p)
           c == Respond!After(a, o)
<1>2. /\ o \in Respond!Operations /\ Respond!Allowed(a, o) /\ Respond!Course(Tail(p), c, b)
  BY <1>1, CourseHead
<1>3. c \in Respond!Views
  BY <1>2, AfterIs
<1> HIDE DEF c
<1>4. Delimits(Tail(p), c)
  BY <1>1, <1>2 DEF Delimits
<1> QED BY <1>1, <1>2, <1>3, <1>4 DEF c

\* Where the client is afterwards.
LEMMA LedThen ==
  ASSUME NEW a \in Respond!Views, Respond!Seen(a)', Delimits(todo', a)
  PROVE  Led(todo)'
<1>1. PICK b \in Respond!Views : Respond!Course(todo', a, b) /\ Respond!Delimited(b)
  BY DEF Delimits
<1> QED BY <1>1 DEF Led

\* What comes out of writes; in this part no write is only late.
LEMMA OutcomesAre ==
  ASSUME broken \in BOOLEAN, NEW s, NEW o \in Respond!Outcomes(s)
  PROVE  /\ o.broken \in BOOLEAN
         /\ broken => o.broken /\ o.out = <<>>
         /\ ~o.broken => o.out = s
         /\ (~broken /\ o.broken) => \E i \in 0 .. Len(s) : o.out = SubSeq(s, 1, i)
<1>1. CASE broken
  <2>1. o = [out |-> <<>>, broken |-> TRUE]
    BY <1>1 DEF Respond!Outcomes
  <2> QED BY <1>1, <2>1
<1>2. CASE ~broken
  <2>1. o = [out |-> s, broken |-> FALSE] \/ \E i \in 0 .. Len(s) : o = [out |-> SubSeq(s, 1, i), broken |-> TRUE]
    BY <1>2 DEF Respond!Outcomes
  <2>2. CASE o = [out |-> s, broken |-> FALSE]
    BY <1>2, <2>2
  <2>3. CASE \E i \in 0 .. Len(s) : o = [out |-> SubSeq(s, 1, i), broken |-> TRUE]
    <3>1. PICK i \in 0 .. Len(s) : o = [out |-> SubSeq(s, 1, i), broken |-> TRUE]
      BY <2>3
    <3>2. o.broken = TRUE /\ o.out = SubSeq(s, 1, i)
      BY <3>1
    <3> QED BY <1>2, <3>2
  <2> QED BY <2>1, <2>2, <2>3
<1> QED BY <1>1, <1>2

\* No headers tell nothing.
LEMMA TellsNone == Respond!Tells(<<>>, -2)
  BY NamedNone DEF Respond!Tells

\* Headers that tell what they told, and the new one.
LEMMA TellsMore ==
  ASSUME NEW s \in Seq(Respond!ItemType), NEW h \in Respond!ItemType, NEW told \in Int, Respond!Tells(s, told),
         h.k = "header", h.name # "Connection", h.name \in Respond!Framing => told = -2, h.v \in Nat
  PROVE  Respond!Tells(s \o <<h>>, IF h.name = "Content-Length" THEN h.v
                                   ELSE IF h.name = "Transfer-Encoding" THEN -1 ELSE told)
<1> DEFINE t == s \o <<h>>
           new(name) == Respond!Named(t, name)
           was(name) == Respond!Named(s, name)
           x == IF h.name = "Content-Length" THEN h.v ELSE IF h.name = "Transfer-Encoding" THEN -1 ELSE told
<1>1. ASSUME NEW name PROVE new(name) = IF h.name = name THEN was(name) \cup {h.v} ELSE was(name)
  <2> DEFINE q == <<h>>
  <2>1. q \in Seq(Respond!ItemType)
    OBVIOUS
  <2>3. Respond!Named(q, name) = IF h.name = name THEN {h.v} ELSE {}
    BY NamedOne
  <2> HIDE DEF q
  <2>2. Respond!Named(s \o q, name) = Respond!Named(s, name) \cup Respond!Named(q, name)
    BY <2>1, NamedJoins
  <2>4. t = s \o q
    BY DEF q
  <2> HIDE DEF t
  <2> QED BY <2>2, <2>3, <2>4
<1>2. "Content-Length" \in Respond!Framing /\ "Transfer-Encoding" \in Respond!Framing
  BY DEF Respond!Framing
<1> HIDE DEF t, new, was, x
<1>3. 0 \notin new("Connection")
  BY <1>1 DEF Respond!Tells, was
<1>4. CASE h.name = "Content-Length"
  <2>1. x = h.v /\ told = -2
    BY <1>2, <1>4 DEF x
  <2>2. was("Content-Length") = {}
    BY <2>1 DEF Respond!Tells, was
  <2>3. new("Content-Length") = {h.v} /\ new("Transfer-Encoding") = was("Transfer-Encoding")
    BY <1>1, <1>4, <2>2
  <2>4. x # -1 /\ x # -2 /\ Respond!Named(t, "Content-Length") = {x} /\ 0 \notin Respond!Named(t, "Connection")
    BY <1>3, <2>1, <2>3 DEF new
  <2>5. Respond!Tells(t, x)
    BY <2>4 DEF Respond!Tells
  <2> QED BY <2>5 DEF x, t
<1>5. CASE h.name = "Transfer-Encoding"
  <2>1. x = -1
    BY <1>5 DEF x
  <2>2. new("Transfer-Encoding") # {}
    BY <1>1, <1>5
  <2>3. x = -1 /\ Respond!Named(t, "Transfer-Encoding") # {} /\ 0 \notin Respond!Named(t, "Connection")
    BY <1>3, <2>1, <2>2 DEF new
  <2>4. Respond!Tells(t, x)
    BY <2>3 DEF Respond!Tells
  <2> QED BY <2>4 DEF x, t
<1>6. CASE h.name \notin {"Content-Length", "Transfer-Encoding"}
  <2>1. x = told
    BY <1>6 DEF x
  <2>2. new("Transfer-Encoding") = was("Transfer-Encoding") /\ new("Content-Length") = was("Content-Length")
    BY <1>1, <1>6
  <2>3. /\ Respond!Named(t, "Transfer-Encoding") = Respond!Named(s, "Transfer-Encoding")
        /\ Respond!Named(t, "Content-Length") = Respond!Named(s, "Content-Length")
        /\ 0 \notin Respond!Named(t, "Connection")
    BY <1>3, <2>2 DEF new, was
  <2>4. Respond!Tells(t, told)
    BY <2>3 DEF Respond!Tells
  <2> QED BY <2>1, <2>4 DEF x, t
<1> QED BY <1>4, <1>5, <1>6

\* Other items tell nothing.
LEMMA TellsStill ==
  ASSUME NEW s \in Seq(Respond!ItemType), NEW x \in Respond!ItemType, NEW told \in Int, Respond!Tells(s, told),
         x.k # "header"
  PROVE  Respond!Tells(s \o <<x>>, told)
<1> DEFINE t == s \o <<x>>
<1>1. ASSUME NEW name PROVE Respond!Named(t, name) = Respond!Named(s, name)
  <2>1. s \in Seq(Respond!ItemType) /\ <<x>> \in Seq(Respond!ItemType)
    OBVIOUS
  <2>2. Respond!Named(t, name) = Respond!Named(s, name) \cup Respond!Named(<<x>>, name)
    BY <2>1, NamedJoins
  <2>3. Respond!Named(<<x>>, name) = {}
    BY NamedOne
  <2> HIDE DEF t
  <2> QED BY <2>2, <2>3
<1> HIDE DEF t
<1>2. Respond!Tells(t, told)
  BY <1>1 DEF Respond!Tells
<1> QED BY <1>2 DEF t

(* The operations, where the client is. *)
LEMMA StartSeen ==
  ASSUME ResponseTyped, Respond!StartResponse, NEW a \in Respond!Views, Respond!Seen(a),
         NEW b, b = Respond!After(a, Head(todo))
  PROVE  Respond!Seen(b)'
<1> DEFINE o == Head(todo)
<1>1. /\ todo # <<>> /\ o.op = "start" /\ o.code \in Respond!Codes
      /\ UNCHANGED <<keepAlive, mustClose, onWire>>
      /\ IF state = 0 THEN state' = 1 /\ headers' = <<>> ELSE UNCHANGED <<state, headers>>
  <2>1. todo # <<>> /\ o.op = "start"
    BY DEF Respond!StartResponse, Respond!At
  <2>2. o.code \in Respond!Codes
    BY <2>1, HeadIs DEF ResponseTyped
  <2> QED BY <2>1, <2>2 DEF Respond!StartResponse, Respond!At, Respond!Arg, Respond!config
<1>2. b = IF a.at = "none" THEN [a EXCEPT !.at = "begun"] ELSE a
  BY <1>1 DEF Respond!After
<1>3. Respond!KeepsAlive' = Respond!KeepsAlive
  BY <1>1 DEF Respond!KeepsAlive
<1> HIDE DEF o
<1>4. CASE a.at = "none"
  <2>1. /\ b \in Respond!Views /\ b.at = "begun" /\ b.told = a.told /\ b.room = a.room /\ b.got = a.got
        /\ b.closes = a.closes
    BY <1>2, <1>4 DEF Respond!Views
  <2>2. state' = 1 /\ headers' = <<>> /\ onWire' = <<>> /\ onWire = <<>>
    BY <1>1, <1>4 DEF Respond!Seen
  <2>3. b.closes = ~Respond!KeepsAlive'
    BY <1>3, <2>1 DEF Respond!Seen
  <2>4. ASSUME ~b.closes
        PROVE  /\ Respond!BodyOf(onWire') = b.got /\ Len(headers') + b.room <= MaxHeaders
               /\ Respond!Tells(headers', b.told)
    <3>1. a.told = -2 /\ a.room = MaxHeaders /\ Respond!BodyOf(onWire) = a.got
      BY <1>4, <2>1, <2>4 DEF Respond!Seen
    <3>2. a.room \in Int
      BY DEF Respond!Views
    <3> QED BY <2>1, <2>2, <3>1, <3>2, TellsNone
  <2> QED BY <2>1, <2>2, <2>3, <2>4 DEF Respond!Seen
<1>5. CASE a.at # "none"
  <2>1. b = a
    BY <1>2, <1>5
  <2>2. state # 0
    BY <1>5 DEF Respond!Seen, Respond!Views
  <2>3. UNCHANGED <<state, headers, onWire>>
    BY <1>1, <2>2
  <2> QED BY <1>3, <2>1, <2>3 DEF Respond!Seen
<1> QED BY <1>4, <1>5

\* mg_disable_connection_keep_alive()
LEMMA CloseSeen ==
  ASSUME ResponseTyped, Respond!Close, NEW a \in Respond!Views, Respond!Seen(a),
         NEW b, b = Respond!After(a, Head(todo))
  PROVE  Respond!Seen(b)'
<1> DEFINE o == Head(todo)
<1>1. o.op = "close" /\ mustClose' = TRUE /\ UNCHANGED <<keepAlive, state, headers, onWire>>
  BY DEF Respond!Close, Respond!At, Respond!config
<1>2. b = [a EXCEPT !.closes = TRUE]
  BY <1>1 DEF Respond!After
<1> HIDE DEF o
<1>3. b \in Respond!Views /\ b.at = a.at /\ b.closes = TRUE
  BY <1>2 DEF Respond!Views
<1>4. Respond!KeepsAlive' = FALSE
  BY <1>1 DEF Respond!KeepsAlive
<1>5. /\ b.at = "none" => state' = 0 /\ onWire' = <<>>
      /\ b.at = "begun" => state' = 1 /\ onWire' = <<>>
      /\ b.at = "head" => state' = 10 /\ Respond!HeadOnly(onWire')
      /\ b.at = "body" => state' \in {3, 10} /\ Respond!WithBody(onWire')
  BY <1>1, <1>3 DEF Respond!Seen
<1> QED BY <1>3, <1>4, <1>5 DEF Respond!Seen

\* mg_response_header_add()
LEMMA AddSeen ==
  ASSUME ResponseTyped, Respond!AddHeader, NEW a \in Respond!Views, Respond!Seen(a), Respond!Allowed(a, Head(todo)),
         NEW b, b = Respond!After(a, Head(todo))
  PROVE  Respond!Seen(b)'
<1> DEFINE o == Head(todo)
           h == o.item
<1>1. /\ todo # <<>> /\ o.op = "add" /\ UNCHANGED <<keepAlive, state, mustClose, onWire>>
      /\ headers' = IF state = 1 /\ Len(headers) < MaxHeaders THEN Append(headers, h) ELSE headers
  BY DEF Respond!AddHeader, Respond!At, Respond!config
<1>2. h \in Respond!HeaderType /\ headers \in Seq(Respond!HeaderType)
  BY <1>1, HeadIs DEF ResponseTyped
<1>3. h.k = "header" /\ h.v \in Nat /\ h \in Respond!ItemType
  <2> HIDE DEF o, h
  <2> QED BY <1>2 DEF Respond!HeaderType, Respond!ItemType
<1>4. /\ b = IF a.closes THEN a ELSE [Respond!Told(a, h) EXCEPT !.room = @ - 1]
      /\ ~a.closes => a.at = "begun" /\ a.room > 0 /\ Respond!MayTell(a, h)
  BY <1>1 DEF Respond!After, Respond!Allowed
<1>5. Respond!KeepsAlive' = Respond!KeepsAlive
  BY <1>1 DEF Respond!KeepsAlive
<1> HIDE DEF o, h
<1>6. CASE a.closes
  <2>1. b = a
    BY <1>4, <1>6
  <2> QED BY <1>1, <1>5, <1>6, <2>1 DEF Respond!Seen
<1>7. CASE ~a.closes
  <2> DEFINE x == IF h.name = "Content-Length" THEN h.v ELSE IF h.name = "Transfer-Encoding" THEN -1 ELSE a.told
  <2>1. x \in Int /\ a.told \in Int /\ a.room \in Int
    BY <1>3 DEF Respond!Views
  <2>2. Respond!Told(a, h) = [a EXCEPT !.told = x]
    BY <1>7 DEF Respond!Told
  <2>3. /\ a.at = "begun" /\ a.room > 0
        /\ h.name # "Connection" /\ (h.name \in Respond!Framing => a.told = -2)
    BY <1>4, <1>7 DEF Respond!MayTell
  <2>4. /\ state = 1 /\ onWire = <<>> /\ Len(headers) + a.room <= MaxHeaders
        /\ Respond!Tells(headers, a.told) /\ Respond!BodyOf(onWire) = a.got /\ a.closes = ~Respond!KeepsAlive
    BY <1>7, <2>3 DEF Respond!Seen
  <2>5. MaxHeaders \in Nat /\ Len(headers) \in Nat
    BY <1>2, AnswersAssumption DEF Respond!ConstantsAreProper
  <2>6. headers' = headers \o <<h>> /\ Len(headers') = Len(headers) + 1
    <3>1. Len(headers) < MaxHeaders
      BY <2>1, <2>3, <2>4, <2>5
    <3> QED BY <1>1, <1>2, <2>4, <3>1
  <2>7. Respond!Tells(headers', x)
    <3>1. headers \in Seq(Respond!ItemType)
      BY <1>2 DEF Respond!ItemType
    <3>2. Respond!Tells(headers \o <<h>>, x)
      BY <1>3, <2>1, <2>3, <2>4, <3>1, TellsMore
    <3> QED BY <2>6, <3>2
  <2> HIDE DEF x
  <2>8. /\ b \in Respond!Views /\ b.at = "begun" /\ b.told = x /\ b.room = a.room - 1 /\ b.got = a.got
        /\ b.closes = a.closes
    <3> DEFINE v == [a EXCEPT !.told = x]
               r == a.room - 1
    <3>1. /\ v \in Respond!Views /\ v.at = a.at /\ v.told = x /\ v.room = a.room /\ v.got = a.got
          /\ v.closes = a.closes /\ r \in Int
      BY <2>1 DEF Respond!Views
    <3>2. b = [Respond!Told(a, h) EXCEPT !.room = Respond!Told(a, h).room - 1]
      BY <1>4, <1>7
    <3>3. Respond!Told(a, h) = v
      BY <2>2
    <3> HIDE DEF v
    <3>4. b = [v EXCEPT !.room = v.room - 1]
      BY <3>2, <3>3
    <3>5. v.room - 1 = r
      BY <3>1
    <3> HIDE DEF r
    <3>6. b = [v EXCEPT !.room = r]
      BY <3>4, <3>5
    <3>7. /\ b \in Respond!Views /\ b.at = v.at /\ b.told = v.told /\ b.room = r /\ b.got = v.got
          /\ b.closes = v.closes
      BY <3>1, <3>6 DEF Respond!Views
    <3> QED BY <2>3, <3>1, <3>7 DEF r
  <2>9. Len(headers') + b.room <= MaxHeaders
    BY <2>1, <2>4, <2>5, <2>6, <2>8
  <2>10. state' = 1 /\ onWire' = <<>> /\ Respond!BodyOf(onWire') = b.got /\ b.closes = ~Respond!KeepsAlive'
    BY <1>1, <1>5, <2>4, <2>8
  <2> QED BY <2>7, <2>8, <2>9, <2>10 DEF Respond!Seen
<1> QED BY <1>6, <1>7

\* What a write by hand adds.
LEMMA RawWrites ==
  ASSUME ResponseTyped, Respond!WriteRaw
  PROVE  /\ todo # <<>> /\ Head(todo).op = "raw" /\ Head(todo).item \in Respond!ItemType
         /\ state' = 10 /\ UNCHANGED <<keepAlive, onError, phase, status, headers, mustClose, inError, sendResult>>
         /\ todo' = Tail(todo) /\ broken' \in BOOLEAN
         /\ onWire' = onWire \/ (~broken /\ onWire' = onWire \o <<Head(todo).item>>)
         /\ ~broken' => ~broken /\ onWire' = onWire \o <<Head(todo).item>>
         /\ broken => broken'
<1> DEFINE i == Head(todo).item
           s == <<i>>
<1>1. /\ todo # <<>> /\ Head(todo).op = "raw" /\ state' = 10 /\ todo' = Tail(todo)
      /\ UNCHANGED <<keepAlive, onError, phase, status, headers, mustClose, inError, sendResult>>
      /\ \E o \in Respond!Outcomes(s) : onWire' = onWire \o o.out /\ broken' = o.broken
  BY DEF Respond!WriteRaw, Respond!At, Respond!Then, Respond!config
<1>2. PICK o \in Respond!Outcomes(s) : onWire' = onWire \o o.out /\ broken' = o.broken
  BY <1>1
<1>3. i \in Respond!ItemType
  BY <1>1, HeadIs DEF ResponseTyped
<1>4. broken \in BOOLEAN /\ onWire \in Seq(Respond!ItemType)
  BY DEF ResponseTyped, Respond!TypeOK
<1> HIDE DEF i
<1>5. s \in Seq(Respond!ItemType) /\ Len(s) = 1 /\ s[1] = i
  BY <1>3
<1> HIDE DEF s
<1>6. /\ o.broken \in BOOLEAN /\ (broken => o.broken /\ o.out = <<>>) /\ (~o.broken => o.out = s)
      /\ (~broken /\ o.broken) => \E n \in 0 .. 1 : o.out = SubSeq(s, 1, n)
  BY <1>4, <1>5, OutcomesAre
<1>7. onWire \o <<>> = onWire
  BY <1>4
<1>8. CASE broken
  BY <1>1, <1>2, <1>3, <1>6, <1>7, <1>8 DEF i
<1>9. CASE ~broken
  <2>1. o.out = <<>> \/ o.out = s
    <3>1. CASE o.broken
      <4>1. PICK n \in 0 .. 1 : o.out = SubSeq(s, 1, n)
        BY <1>6, <1>9, <3>1
      <4>2. Len(SubSeq(s, 1, n)) = n /\ SubSeq(s, 1, n) \in Seq(Respond!ItemType)
            /\ \A j \in 1 .. n : SubSeq(s, 1, n)[j] = s[j]
        BY <1>5, PrefixIs
      <4>3. CASE n = 0
        BY <4>1, <4>2, <4>3
      <4>4. CASE n = 1
        BY <1>5, <4>1, <4>2, <4>4
      <4> QED BY <4>3, <4>4
    <3> QED BY <1>6, <3>1
  <2>2. onWire' = onWire \/ onWire' = onWire \o s
    BY <1>2, <1>7, <2>1
  <2> QED BY <1>1, <1>2, <1>3, <1>6, <1>9, <2>2 DEF s, i
<1> QED BY <1>4, <1>8, <1>9

\* mg_write() and mg_printf()
LEMMA RawSeen ==
  ASSUME ResponseTyped, Respond!WriteRaw, NEW a \in Respond!Views, Respond!Seen(a), Respond!Allowed(a, Head(todo)),
         NEW b, b = Respond!After(a, Head(todo))
  PROVE  Shaped(onWire \o <<Head(todo).item>>) /\ (~broken' => Respond!Seen(b)')
<1> DEFINE o == Head(todo)
           i == o.item
           w == onWire \o <<i>>
           p == Respond!Place[i.k]
<1>1. /\ o.op = "raw" /\ i \in Respond!ItemType /\ state' = 10 /\ UNCHANGED <<keepAlive, mustClose>>
      /\ ~broken' => onWire' = w
  BY RawWrites
<1>2. onWire \in Seq(Respond!ItemType)
  BY DEF ResponseTyped
<1>3. a.at = p /\ (i.k = "header" => Respond!MayTell(a, i)) /\ b = Respond!AfterRaw(a, i)
  BY <1>1 DEF Respond!After, Respond!Allowed
<1>4. Respond!KeepsAlive' = Respond!KeepsAlive
  BY <1>1 DEF Respond!KeepsAlive
<1>5. /\ p = "none" => i.k = "status"
      /\ p = "head" => i.k \in {"header", "blank"}
      /\ p = "body" => i.k = "body"
      /\ p \in {"none", "head", "body"}
      /\ i.k = "header" => i \in Respond!HeaderType
  <2> HIDE DEF i, o
  <2> QED BY <1>1 DEF Respond!Place, Respond!ItemType, Respond!HeaderType
<1>6. i.k = "body" => i.v \in Nat
  <2> HIDE DEF i, o
  <2> QED BY <1>1 DEF Respond!ItemType, Respond!HeaderType
<1> HIDE DEF o, i, p
<1>7. w \in Seq(Respond!ItemType)
  BY <1>1, <1>2
<1>8. Respond!BodyOf(w) = Respond!BodyOf(onWire) + Respond!Size(i)
  BY <1>1, <1>2, BodyAdds
<1>9. /\ (onWire = <<>> /\ i.k = "status") => Respond!HeadOnly(w)
      /\ (Respond!HeadOnly(onWire) /\ i.k = "header") => Respond!HeadOnly(w)
      /\ (Respond!HeadOnly(onWire) /\ i.k = "blank") => Respond!WithBody(w)
      /\ (Respond!WithBody(onWire) /\ i.k = "body") => Respond!WithBody(w)
  BY <1>1, <1>2, ShapeAdds
<1>10. \A t \in Int : (i.k # "header" /\ Respond!Tells(onWire, t)) => Respond!Tells(w, t)
  BY <1>1, <1>2, TellsStill
<1> DEFINE x == IF i.name = "Content-Length" THEN i.v ELSE IF i.name = "Transfer-Encoding" THEN -1 ELSE a.told
<1>11. ASSUME i.k = "header", ~a.closes, Respond!Tells(onWire, a.told) PROVE x \in Int /\ Respond!Tells(w, x)
  <2>1. i.v \in Nat /\ a.told \in Int
    BY <1>5, <1>11 DEF Respond!HeaderType, Respond!Views
  <2>2. i.name # "Connection" /\ (i.name \in Respond!Framing => a.told = -2)
    BY <1>3, <1>11 DEF Respond!MayTell
  <2> QED BY <1>1, <1>2, <1>11, <2>1, <2>2, TellsMore
<1> HIDE DEF w
<1>12. a.told \in Int /\ a.got \in Int /\ a.closes \in BOOLEAN /\ a.closes = ~Respond!KeepsAlive
  BY DEF Respond!Views, Respond!Seen
<1> SUFFICES Shaped(w) /\ ((state' = 10 /\ onWire' = w) => Respond!Seen(b)')
  BY <1>1 DEF w, i, o
<1>13. CASE p = "none"
  <2>1. i.k = "status" /\ onWire = <<>> /\ b = [a EXCEPT !.at = "head"] /\ Respond!Size(i) = 0
    BY <1>3, <1>5, <1>13 DEF Respond!Seen, Respond!AfterRaw, Respond!Size
  <2>2. b \in Respond!Views /\ b.at = "head" /\ b.told = a.told /\ b.got = a.got /\ b.closes = a.closes
    BY <2>1 DEF Respond!Views
  <2>3. Respond!HeadOnly(w)
    BY <1>9, <2>1
  <2>4. ASSUME ~a.closes PROVE Respond!BodyOf(w) = a.got /\ Respond!Tells(w, a.told)
    <3>1. Respond!BodyOf(onWire) = a.got /\ a.told = -2
      BY <1>3, <1>13, <2>4 DEF Respond!Seen
    <3>2. Respond!Tells(onWire, a.told)
      BY <2>1, <3>1, TellsNone
    <3> QED BY <1>8, <1>10, <1>12, <2>1, <3>1, <3>2
  <2>5. b.closes = ~Respond!KeepsAlive'
    BY <1>4, <1>12, <2>2
  <2> QED BY <2>2, <2>3, <2>4, <2>5 DEF Respond!Seen, Shaped
<1>14. CASE p = "head" /\ i.k = "header"
  <2>1. Respond!HeadOnly(onWire) /\ b = Respond!Told(a, i) /\ Respond!Size(i) = 0
    BY <1>3, <1>14 DEF Respond!Seen, Respond!AfterRaw, Respond!Size
  <2>2. Respond!HeadOnly(w)
    BY <1>9, <1>14, <2>1
  <2>3. CASE a.closes
    <3>1. b = a
      BY <2>1, <2>3 DEF Respond!Told
    <3> QED BY <1>3, <1>4, <1>12, <1>14, <2>2, <2>3, <3>1 DEF Respond!Seen, Shaped
  <2>4. CASE ~a.closes
    <3>1. Respond!BodyOf(onWire) = a.got /\ Respond!Tells(onWire, a.told)
      BY <1>3, <1>14, <2>4 DEF Respond!Seen
    <3>2. x \in Int /\ Respond!Tells(w, x)
      BY <1>11, <1>14, <2>4, <3>1
    <3>3. b = [a EXCEPT !.told = x]
      BY <2>1, <2>4 DEF Respond!Told
    <3> HIDE DEF x
    <3>4. b \in Respond!Views /\ b.at = "head" /\ b.told = x /\ b.got = a.got /\ b.closes = a.closes
      BY <1>3, <1>14, <3>2, <3>3 DEF Respond!Views
    <3>5. Respond!BodyOf(w) = b.got
      BY <1>8, <1>12, <2>1, <3>1, <3>4
    <3>6. b.closes = ~Respond!KeepsAlive'
      BY <1>4, <1>12, <3>4
    <3> QED BY <2>2, <3>2, <3>4, <3>5, <3>6 DEF Respond!Seen, Shaped
  <2> QED BY <1>12, <2>3, <2>4
<1>15. CASE p = "head" /\ i.k = "blank"
  <2>1. Respond!HeadOnly(onWire) /\ b = [a EXCEPT !.at = "body"] /\ Respond!Size(i) = 0
    BY <1>3, <1>15 DEF Respond!Seen, Respond!AfterRaw, Respond!Size
  <2>2. b \in Respond!Views /\ b.at = "body" /\ b.told = a.told /\ b.got = a.got /\ b.closes = a.closes
    BY <2>1 DEF Respond!Views
  <2>3. Respond!WithBody(w)
    BY <1>9, <1>15, <2>1
  <2>4. ASSUME ~a.closes PROVE Respond!BodyOf(w) = a.got /\ Respond!Tells(w, a.told)
    <3>1. Respond!BodyOf(onWire) = a.got /\ Respond!Tells(onWire, a.told)
      BY <1>3, <1>15, <2>4 DEF Respond!Seen
    <3> QED BY <1>8, <1>10, <1>12, <1>15, <2>1, <3>1
  <2>5. b.closes = ~Respond!KeepsAlive'
    BY <1>4, <1>12, <2>2
  <2> QED BY <2>2, <2>3, <2>4, <2>5 DEF Respond!Seen, Shaped
<1>16. CASE p = "body"
  <2>1. i.k = "body" /\ Respond!WithBody(onWire) /\ i.v \in Nat /\ Respond!Size(i) = i.v
        /\ b = IF a.closes THEN a ELSE [a EXCEPT !.got = @ + i.v]
    BY <1>3, <1>5, <1>6, <1>16 DEF Respond!Seen, Respond!AfterRaw, Respond!Size
  <2>2. Respond!WithBody(w)
    BY <1>9, <2>1
  <2>3. CASE a.closes
    <3>1. b = a
      BY <2>1, <2>3
    <3> QED BY <1>3, <1>4, <1>12, <1>16, <2>2, <2>3, <3>1 DEF Respond!Seen, Shaped
  <2>4. CASE ~a.closes
    <3>1. Respond!BodyOf(onWire) = a.got /\ Respond!Tells(onWire, a.told)
      BY <1>3, <1>16, <2>4 DEF Respond!Seen
    <3>2. Respond!Tells(w, a.told)
      BY <1>10, <1>12, <2>1, <3>1
    <3> DEFINE g == a.got + i.v
    <3>3. g \in Int /\ b = [a EXCEPT !.got = g] /\ Respond!BodyOf(w) = g
      BY <1>8, <1>12, <2>1, <2>4, <3>1
    <3> HIDE DEF g
    <3>4. b \in Respond!Views /\ b.at = "body" /\ b.told = a.told /\ b.got = g /\ b.closes = a.closes
      BY <1>3, <1>16, <3>3 DEF Respond!Views
    <3>6. b.closes = ~Respond!KeepsAlive'
      BY <1>4, <1>12, <3>4
    <3> QED BY <2>2, <3>2, <3>3, <3>4, <3>6 DEF Respond!Seen, Shaped
  <2> QED BY <1>12, <2>3, <2>4
<1> QED BY <1>5, <1>13, <1>14, <1>15, <1>16

\* What comes out of a header that is sent.
LEMMA SendIs ==
  ASSUME ResponseTyped, Respond!SendHeader
  PROVE  /\ todo # <<>> /\ Head(todo).op = "send" /\ todo' = Tail(todo)
         /\ UNCHANGED <<keepAlive, onError, phase, status, mustClose, inError>>
         /\ broken' \in BOOLEAN /\ (broken => broken' /\ onWire' = onWire) /\ sendResult' \in {0, -3, -4}
         /\ state # 1 => UNCHANGED <<state, headers, onWire, broken>>
         /\ state = 1 =>
              /\ headers' = <<>> /\ state' \in {3, 10}
              /\ ~broken' => ~broken /\ onWire' = onWire \o Respond!FullHeader /\ state' = 3
              /\ (~broken /\ broken') =>
                    \/ onWire' = onWire
                    \/ \E n \in 0 .. Len(Respond!FullHeader) : onWire' = onWire \o SubSeq(Respond!FullHeader, 1, n)
<1> DEFINE full == Respond!FullHeader
<1>1. /\ todo # <<>> /\ Head(todo).op = "send" /\ todo' = Tail(todo)
      /\ UNCHANGED <<keepAlive, onError, phase, status, mustClose, inError>>
  BY DEF Respond!SendHeader, Respond!At, Respond!Then, Respond!config
<1>2. broken \in BOOLEAN /\ onWire \in Seq(Respond!ItemType)
  BY DEF ResponseTyped, Respond!TypeOK
<1>3. CASE state # 1
  BY <1>1, <1>2, <1>3 DEF Respond!SendHeader
<1>4. CASE state = 1
  <2>1. PICK o \in Respond!Outcomes(full) :
          LET ok == o.out # <<>> /\ o.out[1].k = "status"
          IN /\ broken' = o.broken /\ headers' = <<>>
             /\ onWire' = IF ok THEN onWire \o o.out ELSE onWire
             /\ state' = IF ok THEN 3 ELSE 10
             /\ sendResult' = IF ok THEN 0 ELSE -4
    BY <1>4 DEF Respond!SendHeader
  <2>2. headers \in Seq(Respond!HeaderType) /\ status \in Int
    BY DEF ResponseTyped, Respond!TypeOK
  <2>3. full \in Seq(Respond!ItemType) /\ Respond!WithBody(full)
    BY <2>2, FullHeaderIs
  <2>4. /\ o.broken \in BOOLEAN /\ (broken => o.broken /\ o.out = <<>>) /\ (~o.broken => o.out = full)
        /\ (~broken /\ o.broken) => \E n \in 0 .. Len(full) : o.out = SubSeq(full, 1, n)
    BY <1>2, OutcomesAre
  <2> HIDE DEF full
  <2>5. full # <<>> /\ full[1].k = "status"
    BY <2>3 DEF Respond!WithBody
  <2>6. broken' = o.broken /\ headers' = <<>> /\ state' \in {3, 10} /\ sendResult' \in {0, -3, -4}
    BY <2>1
  <2>7. onWire' = onWire \o o.out \/ onWire' = onWire
    BY <2>1
  <2>8. ASSUME broken PROVE onWire' = onWire
    BY <2>1, <2>4, <2>8
  <2>9. ASSUME ~broken' PROVE ~broken /\ onWire' = onWire \o full /\ state' = 3
    <3>1. o.out = full /\ ~broken
      BY <1>2, <2>4, <2>6, <2>9
    <3> QED BY <2>1, <2>5, <3>1
  <2>10. ASSUME ~broken, broken'
         PROVE  onWire' = onWire \/ \E n \in 0 .. Len(full) : onWire' = onWire \o SubSeq(full, 1, n)
    <3>1. PICK n \in 0 .. Len(full) : o.out = SubSeq(full, 1, n)
      BY <2>4, <2>6, <2>10
    <3> QED BY <2>7, <3>1
  <2> QED BY <1>1, <1>4, <2>4, <2>6, <2>8, <2>9, <2>10 DEF full
<1> QED BY <1>3, <1>4

\* mg_response_header_send()
LEMMA SendSeen ==
  ASSUME ResponseTyped, Respond!SendHeader, ~broken, NEW a \in Respond!Views, Respond!Seen(a),
         NEW b, b = Respond!After(a, Head(todo))
  PROVE  onWire' \in Seq(Respond!ItemType) /\ Shaped(onWire') /\ (~broken' => Respond!Seen(b)')
<1> DEFINE o == Head(todo)
           full == Respond!FullHeader
<1>1. o.op = "send" /\ UNCHANGED <<keepAlive, mustClose>>
  BY SendIs
<1>2. b = IF a.at = "begun" THEN [a EXCEPT !.at = "body"] ELSE a
  BY <1>1 DEF Respond!After
<1>3. Respond!KeepsAlive' = Respond!KeepsAlive
  BY <1>1 DEF Respond!KeepsAlive
<1>4. onWire \in Seq(Respond!ItemType) /\ Shaped(onWire)
  BY DEF ResponseTyped
<1>5. a.at = "begun" <=> state = 1
  BY DEF Respond!Seen, Respond!Views
<1> HIDE DEF o
<1>6. CASE a.at # "begun"
  <2>1. b = a /\ UNCHANGED <<state, headers, onWire>>
    BY <1>2, <1>5, <1>6, SendIs
  <2> QED BY <1>3, <1>4, <2>1 DEF Respond!Seen
<1>7. CASE a.at = "begun"
  <2>1. headers \in Seq(Respond!HeaderType) /\ status \in Int
    BY DEF ResponseTyped, Respond!TypeOK
  <2>2. full \in Seq(Respond!ItemType) /\ Respond!WithBody(full) /\ Respond!BodyOf(full) = 0
    BY <2>1, FullHeaderIs
  <2>3. /\ headers' = <<>> /\ broken' \in BOOLEAN
        /\ ~broken' => onWire' = onWire \o full /\ state' = 3
        /\ broken' => onWire' = onWire \/ \E n \in 0 .. Len(full) : onWire' = onWire \o SubSeq(full, 1, n)
    BY <1>5, <1>7, SendIs
  <2>4. onWire = <<>>
    BY <1>7 DEF Respond!Seen
  <2>5. \A q \in Seq(Respond!ItemType) : onWire \o q = q
    BY <2>4
  <2>6. /\ b \in Respond!Views /\ b.at = "body" /\ b.told = a.told /\ b.got = a.got /\ b.closes = a.closes
    BY <1>2, <1>7 DEF Respond!Views
  <2>7. a.told \in Int /\ a.closes = ~Respond!KeepsAlive
    BY DEF Respond!Views, Respond!Seen
  <2>8. ASSUME ~a.closes PROVE Respond!BodyOf(full) = a.got /\ Respond!Tells(full, a.told)
    <3>1. Respond!BodyOf(onWire) = a.got /\ Respond!Tells(headers, a.told)
      BY <1>7, <2>8 DEF Respond!Seen
    <3>2. Respond!BodyOf(onWire) = 0
      BY <2>4, BodyNone
    <3> QED BY <2>1, <2>2, <2>7, <2>8, <3>1, <3>2, FullHeaderTells
  <2>9. CASE broken'
    <3>1. CASE onWire' = onWire
      BY <1>4, <2>9, <3>1
    <3>2. CASE \E n \in 0 .. Len(full) : onWire' = onWire \o SubSeq(full, 1, n)
      <4>1. PICK n \in 0 .. Len(full) : onWire' = onWire \o SubSeq(full, 1, n)
        BY <3>2
      <4> HIDE DEF full
      <4>2. SubSeq(full, 1, n) \in Seq(Respond!ItemType)
        BY <2>2, PrefixIs
      <4>3. onWire' = SubSeq(full, 1, n)
        BY <2>5, <4>1, <4>2
      <4>4. Shaped(SubSeq(full, 1, n))
        BY <2>2, PrefixShaped
      <4> QED BY <2>9, <4>2, <4>3, <4>4
    <3> QED BY <2>3, <2>9, <3>1, <3>2
  <2>10. CASE ~broken'
    <3> HIDE DEF full
    <3>1. onWire' = full /\ state' = 3
      BY <2>2, <2>3, <2>5, <2>10
    <3>2. b.closes = ~Respond!KeepsAlive'
      BY <1>3, <2>6, <2>7
    <3>3. Shaped(onWire') /\ onWire' \in Seq(Respond!ItemType)
      BY <2>2, <3>1 DEF Shaped
    <3>4. Respond!WithBody(onWire') /\ (~b.closes => Respond!BodyOf(onWire') = b.got /\ Respond!Tells(onWire', b.told))
      BY <2>2, <2>6, <2>8, <3>1
    <3>5. Respond!Seen(b)'
      BY <2>6, <3>1, <3>2, <3>4 DEF Respond!Seen
    <3> QED BY <3>3, <3>5
  <2> QED BY <2>3, <2>9, <2>10
<1> QED BY <1>6, <1>7

(* Where an error's callback is left. *)
LEMMA LeftsJoin ==
  ASSUME NEW p \in Seq(Ordinary), NEW q \in Seq(Respond!Operations)
  PROVE  \A i \in Respond!Lefts(p \o q) : i > Len(p) /\ i - Len(p) \in Respond!Lefts(q)
<1> DEFINE w == p \o q
           n == Len(p)
           m == Len(q)
<1>1. n \in Nat /\ m \in Nat /\ Len(w) = n + m
      /\ \A i \in 1 .. Len(w) : w[i] = IF i <= n THEN p[i] ELSE q[i - n]
  OBVIOUS
<1>2. \A i \in 1 .. n : p[i].op # "left"
  <2>1. \A i \in 1 .. n : p[i] \in Ordinary
    OBVIOUS
  <2> QED BY <2>1 DEF Ordinary
<1> HIDE DEF w
<1>3. ASSUME NEW i \in Respond!Lefts(w) PROVE i > n /\ i - n \in Respond!Lefts(q)
  <2>1. i \in 1 .. Len(w) /\ w[i].op = "left"
    BY DEF Respond!Lefts
  <2>2. i > n
    BY <1>1, <1>2, <2>1
  <2>3. w[i] = q[i - n] /\ i - n \in 1 .. m
    BY <1>1, <2>1, <2>2
  <2> QED BY <2>1, <2>2, <2>3 DEF Respond!Lefts
<1> QED BY <1>3 DEF w

\* Callbacks to be left, after an operation, and behind others.
LEMMA LeftsTail ==
  ASSUME NEW p \in Seq(Respond!Operations), p # <<>>
  PROVE  \A i \in Respond!Lefts(Tail(p)) : i \in Nat /\ i > 0 /\ i + 1 \in Respond!Lefts(p)
<1> DEFINE t == Tail(p)
<1>1. Len(p) \in Nat /\ Len(t) = Len(p) - 1 /\ Len(p) > 0 /\ \A i \in 1 .. Len(t) : t[i] = p[i + 1]
  OBVIOUS
<1> HIDE DEF t
<1>2. ASSUME NEW i \in Respond!Lefts(t) PROVE i \in Nat /\ i > 0 /\ i + 1 \in Respond!Lefts(p)
  <2>1. i \in 1 .. Len(t) /\ t[i].op = "left"
    BY DEF Respond!Lefts
  <2>2. i + 1 \in 1 .. Len(p) /\ p[i + 1].op = "left"
    BY <1>1, <2>1
  <2> QED BY <1>1, <2>1, <2>2 DEF Respond!Lefts
<1> QED BY <1>2 DEF t

OneLeft(p)  == \A i, j \in Respond!Lefts(p) : i = j
NoLeft(p)   == Respond!Lefts(p) = {}

LEMMA TailLefts ==
  ASSUME NEW p \in Seq(Respond!Operations), p # <<>>
  PROVE  (OneLeft(p) => OneLeft(Tail(p))) /\ (NoLeft(p) => NoLeft(Tail(p)))
         /\ ((OneLeft(p) /\ Head(p).op = "left") => NoLeft(Tail(p)))
<1>1. \A i \in Respond!Lefts(Tail(p)) : i \in Nat /\ i > 0 /\ i + 1 \in Respond!Lefts(p)
  BY LeftsTail
<1>2. ASSUME OneLeft(p) PROVE OneLeft(Tail(p))
  <2> SUFFICES ASSUME NEW i \in Respond!Lefts(Tail(p)), NEW j \in Respond!Lefts(Tail(p)) PROVE i = j
    BY DEF OneLeft
  <2>1. i + 1 = j + 1 /\ i \in Nat /\ j \in Nat
    BY <1>1, <1>2 DEF OneLeft
  <2> QED BY <2>1
<1>3. NoLeft(p) => NoLeft(Tail(p))
  BY <1>1 DEF NoLeft
<1>4. ASSUME OneLeft(p), Head(p).op = "left", NEW i \in Respond!Lefts(Tail(p)) PROVE FALSE
  <2>1. Len(p) \in Nat /\ Len(p) > 0 /\ p[1] = Head(p)
    OBVIOUS
  <2>2. 1 \in Respond!Lefts(p)
    BY <1>4, <2>1 DEF Respond!Lefts
  <2>3. i + 1 = 1 /\ i \in Nat /\ i > 0
    BY <1>1, <1>4, <2>2 DEF OneLeft
  <2> QED BY <2>3
<1> QED BY <1>2, <1>3, <1>4 DEF NoLeft

LEMMA JoinLefts ==
  ASSUME NEW p \in Seq(Ordinary), NEW q \in Seq(Respond!Operations)
  PROVE  /\ p \o q \in Seq(Respond!Operations)
         /\ (OneLeft(q) => OneLeft(p \o q)) /\ (NoLeft(q) => NoLeft(p \o q))
<1>1. p \in Seq(Respond!Operations) /\ Len(p) \in Nat
  BY Ordinaries
<1>2. \A i \in Respond!Lefts(p \o q) : i > Len(p) /\ i - Len(p) \in Respond!Lefts(q)
  BY LeftsJoin
<1> DEFINE w == p \o q
<1>3. w \in Seq(Respond!Operations)
  BY <1>1
<1>4. \A i \in Respond!Lefts(w) : i \in Int
  BY DEF Respond!Lefts
<1> HIDE DEF w
<1>5. ASSUME OneLeft(q) PROVE OneLeft(w)
  <2> SUFFICES ASSUME NEW i \in Respond!Lefts(w), NEW j \in Respond!Lefts(w) PROVE i = j
    BY DEF OneLeft
  <2> DEFINE n == Len(p)
  <2>1. i - n \in Respond!Lefts(q) /\ j - n \in Respond!Lefts(q) /\ i \in Int /\ j \in Int /\ n \in Int
    BY <1>1, <1>2, <1>4 DEF w
  <2>2. i - n = j - n
    BY <1>5, <2>1 DEF OneLeft
  <2> QED BY <2>1, <2>2
<1>6. NoLeft(q) => NoLeft(w)
  BY <1>2 DEF NoLeft, w
<1> QED BY <1>3, <1>5, <1>6 DEF w

LEMMA LeftIsOne ==
  ASSUME NEW p \in Seq(Ordinary), NEW x \in Respond!Operations, NEW q \in Seq(Respond!Operations), NoLeft(q)
  PROVE  (p \o <<x>>) \o q \in Seq(Respond!Operations) /\ OneLeft((p \o <<x>>) \o q)
<1> DEFINE r == <<x>>
           u == r \o q
           w == (p \o r) \o q
<1>1. r \in Seq(Respond!Operations) /\ p \in Seq(Respond!Operations)
  BY Ordinaries
<1>2. u \in Seq(Respond!Operations) /\ Len(q) \in Nat /\ Len(u) = Len(q) + 1
      /\ \A i \in 1 .. Len(u) : i > 1 => u[i] = q[i - 1]
  BY <1>1
<1>3. \A i \in Respond!Lefts(u) : i = 1
  <2> HIDE DEF u
  <2> SUFFICES ASSUME NEW i \in Respond!Lefts(u), i # 1 PROVE FALSE
    OBVIOUS
  <2>1. i \in 1 .. Len(u) /\ u[i].op = "left"
    BY DEF Respond!Lefts
  <2>2. i - 1 \in 1 .. Len(q) /\ q[i - 1].op = "left"
    BY <1>2, <2>1
  <2> QED BY <2>2 DEF NoLeft, Respond!Lefts
<1>4. OneLeft(u)
  BY <1>3 DEF OneLeft
<1> HIDE DEF r
<1>5. w = p \o u
  BY <1>1, SeqsJoin
<1> HIDE DEF u, w
<1>6. p \o u \in Seq(Respond!Operations) /\ OneLeft(p \o u)
  BY <1>2, <1>4, JoinLefts
<1> QED BY <1>5, <1>6 DEF w, r

(* The invariant, by name. *)
IdleIs ==
  phase = "idle" =>
    /\ ~broken /\ 0 \notin Respond!Named(onWire, "Connection")
    /\ \/ onWire = <<>>
       \/ Respond!Named(onWire, "Transfer-Encoding") # {}
       \/ Respond!Named(onWire, "Content-Length") = {Respond!BodyOf(onWire)}
Answering ==
  /\ ResponseTyped /\ OneLeft(todo) /\ (~inError => NoLeft(todo))
  /\ (phase = "busy" /\ ~broken => Led(todo))
  /\ IdleIs

\* It is the one of ResponseWriter, for a status that was not refused.
LEMMA AnsweringIs == Respond!Headed <=> Answering
  BY DEF Respond!Headed, Answering, IdleIs, ResponseTyped, Shaped, OneLeft, NoLeft, Led

\* An operation that is done, and nothing put in its place.
LEMMA TailStep ==
  ASSUME Answering, todo # <<>>, todo' = Tail(todo), inError' = inError
  PROVE  todo' \in Seq(Respond!Operations) /\ OneLeft(todo') /\ (~inError' => NoLeft(todo'))
<1>1. todo \in Seq(Respond!Operations) /\ OneLeft(todo) /\ (~inError => NoLeft(todo))
  BY DEF Answering, ResponseTyped
<1>2. Tail(todo) \in Seq(Respond!Operations)
  BY <1>1
<1> QED BY <1>1, <1>2, TailLefts

\* What makes it an invariant again, while a response is written.
LEMMA BusyStill ==
  ASSUME ResponseTyped', OneLeft(todo'), ~inError' => NoLeft(todo'), phase' = "busy", ~broken' => Led(todo)'
  PROVE  Answering'
  BY DEF Answering, IdleIs

\* Headers never take more than the room there is.
LEMMA RoomKept ==
  ASSUME NEW S, NEW s \in Seq(S), NEW n \in Nat, Len(s) <= n, NEW t,
         \/ t = s
         \/ t = <<>>
         \/ Len(s) < n /\ \E x \in S : t = Append(s, x)
  PROVE  t \in Seq(S) /\ Len(t) <= n
<1>1. CASE t = s
  BY <1>1
<1>2. CASE t = <<>>
  <2>1. <<>> \in Seq(S) /\ Len(<<>>) = 0
    OBVIOUS
  <2> QED BY <1>2, <2>1
<1>3. CASE Len(s) < n /\ \E x \in S : t = Append(s, x)
  <2>1. PICK x \in S : t = Append(s, x)
    BY <1>3
  <2>2. t \in Seq(S) /\ Len(t) = Len(s) + 1 /\ Len(s) \in Nat
    BY <2>1
  <2> QED BY <1>3, <2>2
<1> QED BY <1>1, <1>2, <1>3

\* mg_response_header_start() keeps the invariant, and so does every other step.
LEMMA StartMoves == ASSUME Answering, Respond!StartResponse PROVE Answering'
<1>1. /\ todo # <<>> /\ phase = "busy" /\ todo' = Tail(todo)
      /\ UNCHANGED <<keepAlive, onError, phase, mustClose, inError, onWire, broken, sendResult>>
      /\ \/ UNCHANGED <<status, state, headers>>
         \/ status' \in Respond!Codes /\ state' = 1 /\ headers' = <<>>
  BY DEF Respond!StartResponse, Respond!At, Respond!Then, Respond!config
<1>2. /\ Respond!TypeOK /\ headers \in Seq(Respond!HeaderType) /\ onWire \in Seq(Respond!ItemType)
      /\ todo \in Seq(Respond!Operations) /\ Shaped(onWire) /\ ResponseTyped
  BY DEF Answering, ResponseTyped
<1>3. todo' \in Seq(Respond!Operations) /\ OneLeft(todo') /\ (~inError' => NoLeft(todo'))
  BY <1>1, TailStep
<1>4. MaxHeaders \in Nat
  BY AnswersAssumption DEF Respond!ConstantsAreProper
<1>5. ResponseTyped'
  <2>1. headers' \in Seq(Respond!HeaderType) /\ Len(headers') <= MaxHeaders
    <3>1. Len(headers) <= MaxHeaders /\ (headers' = headers \/ headers' = <<>>)
      BY <1>1, <1>2 DEF Respond!TypeOK
    <3> QED BY <1>2, <1>4, <3>1, RoomKept
  <2>2. status' \in Int /\ state' \in {0, 1, 3, 10}
    <3>1. status \in Int /\ state \in {0, 1, 3, 10}
      BY <1>2 DEF Respond!TypeOK
    <3>2. CASE UNCHANGED <<status, state, headers>>
      BY <3>1, <3>2
    <3>3. CASE status' \in Respond!Codes /\ state' = 1
      BY <3>3, CodesAre
    <3> QED BY <1>1, <3>2, <3>3
  <2> QED BY <1>1, <1>2, <1>3, <2>1, <2>2 DEF ResponseTyped, Respond!TypeOK
<1>6. ASSUME ~broken' PROVE Led(todo)'
  <2>1. Led(todo)
    BY <1>1, <1>6 DEF Answering
  <2>2. PICK a \in Respond!Views, b \in Respond!Views :
          /\ Respond!Seen(a) /\ b = Respond!After(a, Head(todo)) /\ Delimits(Tail(todo), b)
    BY <1>1, <1>2, <2>1, LedHead
  <2>3. Respond!Seen(b)'
    BY <1>2, <2>2, StartSeen
  <2> QED BY <1>1, <2>2, <2>3, LedThen
<1> QED BY <1>1, <1>3, <1>5, <1>6, BusyStill

LEMMA CloseMoves == ASSUME Answering, Respond!Close PROVE Answering'
<1>1. /\ todo # <<>> /\ phase = "busy" /\ todo' = Tail(todo) /\ mustClose' = TRUE
      /\ UNCHANGED <<keepAlive, onError, phase, state, status, headers, inError, onWire, broken, sendResult>>
  BY DEF Respond!Close, Respond!At, Respond!Then, Respond!config
<1>2. /\ Respond!TypeOK /\ headers \in Seq(Respond!HeaderType) /\ onWire \in Seq(Respond!ItemType)
      /\ todo \in Seq(Respond!Operations) /\ Shaped(onWire) /\ ResponseTyped
  BY DEF Answering, ResponseTyped
<1>3. todo' \in Seq(Respond!Operations) /\ OneLeft(todo') /\ (~inError' => NoLeft(todo'))
  BY <1>1, TailStep
<1>4. ResponseTyped'
  BY <1>1, <1>2, <1>3 DEF ResponseTyped, Respond!TypeOK
<1>5. ASSUME ~broken' PROVE Led(todo)'
  <2>1. Led(todo)
    BY <1>1, <1>5 DEF Answering
  <2>2. PICK a \in Respond!Views, b \in Respond!Views :
          /\ Respond!Seen(a) /\ b = Respond!After(a, Head(todo)) /\ Delimits(Tail(todo), b)
    BY <1>1, <1>2, <2>1, LedHead
  <2>3. Respond!Seen(b)'
    BY <1>2, <2>2, CloseSeen
  <2> QED BY <1>1, <2>2, <2>3, LedThen
<1> QED BY <1>1, <1>3, <1>4, <1>5, BusyStill

LEMMA AddMoves == ASSUME Answering, Respond!AddHeader PROVE Answering'
<1>1. /\ todo # <<>> /\ phase = "busy" /\ todo' = Tail(todo) /\ Head(todo).op = "add"
      /\ UNCHANGED <<keepAlive, onError, phase, state, status, mustClose, inError, onWire, broken, sendResult>>
      /\ \/ headers' = headers
         \/ Len(headers) < MaxHeaders /\ headers' = Append(headers, Head(todo).item)
  BY DEF Respond!AddHeader, Respond!At, Respond!Then, Respond!config
<1>2. /\ Respond!TypeOK /\ headers \in Seq(Respond!HeaderType) /\ onWire \in Seq(Respond!ItemType)
      /\ todo \in Seq(Respond!Operations) /\ Shaped(onWire) /\ ResponseTyped
  BY DEF Answering, ResponseTyped
<1>3. todo' \in Seq(Respond!Operations) /\ OneLeft(todo') /\ (~inError' => NoLeft(todo'))
  BY <1>1, TailStep
<1>4. MaxHeaders \in Nat /\ Head(todo).item \in Respond!HeaderType
  BY <1>1, <1>2, HeadIs, AnswersAssumption DEF Respond!ConstantsAreProper
<1>5. headers' \in Seq(Respond!HeaderType) /\ Len(headers') <= MaxHeaders
  <2>1. Len(headers) <= MaxHeaders
    BY <1>2 DEF Respond!TypeOK
  <2>2. \/ headers' = headers
        \/ Len(headers) < MaxHeaders /\ \E x \in Respond!HeaderType : headers' = Append(headers, x)
    BY <1>1, <1>4
  <2> QED BY <1>2, <1>4, <2>1, <2>2, RoomKept
<1>6. ResponseTyped'
  BY <1>1, <1>2, <1>3, <1>5 DEF ResponseTyped, Respond!TypeOK
<1>7. ASSUME ~broken' PROVE Led(todo)'
  <2>1. Led(todo)
    BY <1>1, <1>7 DEF Answering
  <2>2. PICK a \in Respond!Views, b \in Respond!Views :
          /\ Respond!Seen(a) /\ Respond!Allowed(a, Head(todo)) /\ b = Respond!After(a, Head(todo))
          /\ Delimits(Tail(todo), b)
    BY <1>1, <1>2, <2>1, LedHead
  <2>3. Respond!Seen(b)'
    BY <1>2, <2>2, AddSeen
  <2> QED BY <1>1, <2>2, <2>3, LedThen
<1> QED BY <1>1, <1>3, <1>6, <1>7, BusyStill

LEMMA RawMoves == ASSUME Answering, Respond!WriteRaw PROVE Answering'
<1>1. phase = "busy" /\ ResponseTyped
  BY DEF Answering, Respond!WriteRaw, Respond!At
<1>2. /\ Respond!TypeOK /\ headers \in Seq(Respond!HeaderType) /\ onWire \in Seq(Respond!ItemType)
      /\ todo \in Seq(Respond!Operations) /\ Shaped(onWire)
  BY <1>1 DEF ResponseTyped
<1> DEFINE i == Head(todo).item
           w == onWire \o <<i>>
<1>3. /\ todo # <<>> /\ i \in Respond!ItemType /\ state' = 10
      /\ UNCHANGED <<keepAlive, onError, phase, status, headers, mustClose, inError, sendResult>>
      /\ todo' = Tail(todo) /\ broken' \in BOOLEAN
      /\ onWire' = onWire \/ (~broken /\ onWire' = w)
      /\ ~broken' => ~broken
  BY <1>1, RawWrites
<1>4. todo' \in Seq(Respond!Operations) /\ OneLeft(todo') /\ (~inError' => NoLeft(todo'))
  BY <1>3, TailStep
<1>5. w \in Seq(Respond!ItemType)
  BY <1>2, <1>3
<1>6. ASSUME ~broken PROVE Shaped(w) /\ (~broken' => Led(todo)')
  <2>1. Led(todo)
    BY <1>1, <1>6 DEF Answering
  <2>2. PICK a \in Respond!Views, b \in Respond!Views :
          /\ Respond!Seen(a) /\ Respond!Allowed(a, Head(todo)) /\ b = Respond!After(a, Head(todo))
          /\ Delimits(Tail(todo), b)
    BY <1>2, <1>3, <2>1, LedHead
  <2>3. Shaped(w) /\ (~broken' => Respond!Seen(b)')
    BY <1>1, <2>2, RawSeen
  <2> QED BY <1>3, <2>2, <2>3, LedThen
<1> HIDE DEF w, i
<1>7. onWire' \in Seq(Respond!ItemType) /\ Shaped(onWire')
  BY <1>2, <1>3, <1>5, <1>6
<1>8. ResponseTyped'
  BY <1>2, <1>3, <1>4, <1>7 DEF ResponseTyped, Respond!TypeOK
<1> QED BY <1>1, <1>3, <1>4, <1>6, <1>8, BusyStill

LEMMA SendMoves == ASSUME Answering, Respond!SendHeader PROVE Answering'
<1>1. phase = "busy" /\ ResponseTyped
  BY DEF Answering, Respond!SendHeader, Respond!At
<1>2. /\ Respond!TypeOK /\ headers \in Seq(Respond!HeaderType) /\ onWire \in Seq(Respond!ItemType)
      /\ todo \in Seq(Respond!Operations) /\ Shaped(onWire) /\ broken \in BOOLEAN
  BY <1>1 DEF ResponseTyped, Respond!TypeOK
<1>3. /\ todo # <<>> /\ todo' = Tail(todo)
      /\ UNCHANGED <<keepAlive, onError, phase, status, mustClose, inError>>
      /\ broken' \in BOOLEAN /\ (broken => broken' /\ onWire' = onWire) /\ sendResult' \in {0, -3, -4}
      /\ state # 1 => state' = state /\ headers' = headers
      /\ state = 1 => headers' = <<>> /\ state' \in {3, 10}
  BY <1>1, SendIs
<1>4. todo' \in Seq(Respond!Operations) /\ OneLeft(todo') /\ (~inError' => NoLeft(todo'))
  BY <1>3, TailStep
<1>5. ASSUME ~broken PROVE onWire' \in Seq(Respond!ItemType) /\ Shaped(onWire') /\ (~broken' => Led(todo)')
  <2>1. Led(todo)
    BY <1>1, <1>5 DEF Answering
  <2>2. PICK a \in Respond!Views, b \in Respond!Views :
          /\ Respond!Seen(a) /\ b = Respond!After(a, Head(todo)) /\ Delimits(Tail(todo), b)
    BY <1>2, <1>3, <2>1, LedHead
  <2>3. onWire' \in Seq(Respond!ItemType) /\ Shaped(onWire') /\ (~broken' => Respond!Seen(b)')
    BY <1>1, <1>5, <2>2, SendSeen
  <2> QED BY <1>3, <2>2, <2>3, LedThen
<1>6. onWire' \in Seq(Respond!ItemType) /\ Shaped(onWire')
  BY <1>2, <1>3, <1>5
<1>7. MaxHeaders \in Nat
  BY AnswersAssumption DEF Respond!ConstantsAreProper
<1>8. headers' \in Seq(Respond!HeaderType) /\ Len(headers') <= MaxHeaders /\ state' \in {0, 1, 3, 10}
  <2>1. Len(headers) <= MaxHeaders /\ state \in {0, 1, 3, 10}
    BY <1>2 DEF Respond!TypeOK
  <2>2. (headers' = headers \/ headers' = <<>>) /\ state' \in {0, 1, 3, 10}
    BY <1>3, <2>1
  <2> QED BY <1>2, <1>7, <2>1, <2>2, RoomKept
<1>9. ResponseTyped'
  BY <1>2, <1>3, <1>4, <1>6, <1>8 DEF ResponseTyped, Respond!TypeOK
<1> QED BY <1>1, <1>2, <1>3, <1>4, <1>5, <1>9, BusyStill

\* An end of the connection that was asked for stays.
LEMMA ClosingTwice ==
  ASSUME NEW a \in Respond!Views
  PROVE  /\ Closing(a) \in Respond!Views /\ Closing(a).at = "body" /\ Closing(a).closes
         /\ \A b \in Respond!Views : b.closes /\ b.at = "body" => Closing(b) = b
<1>1. Closing(a) \in Respond!Views /\ Closing(a).at = "body" /\ Closing(a).closes
  BY DEF Closing, Respond!Views
<1>2. ASSUME NEW b \in Respond!Views, b.closes, b.at = "body" PROVE Closing(b) = b
  <2>1. b.closes = TRUE
    BY <1>2 DEF Respond!Views
  <2> QED BY <1>2, <2>1 DEF Closing, Respond!Views
<1> QED BY <1>1, <1>2

\* An error, with and without a callback, and the end of the callback.
LEMMA ErrorMoves == ASSUME Answering, Respond!SendError PROVE Answering'
<1> DEFINE code == Head(todo).code
           t == Tail(todo)
           page == Respond!PageOps(code)
           l == Respond!Left(onError, code)
           ops == Respond!CallbackOps(onError)
<1>1. /\ todo # <<>> /\ phase = "busy" /\ Head(todo).op = "error" /\ status' = code
      /\ UNCHANGED <<keepAlive, onError, phase, state, headers, mustClose, onWire, broken, sendResult>>
      /\ \/ ~inError /\ inError' /\ onError.by # "none" /\ todo' = ops \o <<l>> \o t /\ inError' = TRUE
         \/ inError' = inError /\ todo' = page \o t
  BY DEF Respond!SendError, Respond!At, Respond!config, Respond!Arg
<1>2. /\ Respond!TypeOK /\ headers \in Seq(Respond!HeaderType) /\ onWire \in Seq(Respond!ItemType)
      /\ todo \in Seq(Respond!Operations) /\ Shaped(onWire) /\ ResponseTyped
      /\ OneLeft(todo) /\ (~inError => NoLeft(todo))
  BY DEF Answering, ResponseTyped
<1>3. code \in Respond!Codes /\ t \in Seq(Respond!Operations) /\ code \in Int
  <2>1. code \in Respond!Codes /\ t \in Seq(Respond!Operations)
    BY <1>1, <1>2, HeadIs
  <2> HIDE DEF code, t
  <2> QED BY <2>1, CodesAre
<1>4. OneLeft(t) /\ (~inError => NoLeft(t))
  BY <1>1, <1>2, TailLefts
<1>5. onError \in Respond!CallbackType
  BY <1>2, AnswersAssumption DEF Respond!ConstantsAreProper, Respond!TypeOK
<1>6. \A a \in Respond!Views : a.at # "head" => page \in Seq(Ordinary) /\ Respond!Course(page, a, Closing(a))
  BY <1>3, PageGoes
<1>7. \A a \in Respond!Views : (onError.by # "none" /\ a.at # "head") =>
        ops \in Seq(Ordinary) /\ Respond!Course(ops, a, Closing(a))
  BY <1>5, CallbackGoes
<1>8. PICK v \in Respond!Views : v.at = "none"
  <2> DEFINE v == Open("none", 0, 0, 0)
  <2>1. v \in Respond!Views /\ v.at = "none"
    BY OpenIs DEF Places
  <2> QED BY <2>1
<1>9. page \in Seq(Ordinary) /\ (onError.by # "none" => ops \in Seq(Ordinary))
  BY <1>6, <1>7, <1>8
<1>10. onError.by # "none" => /\ l \in Respond!Operations
                              /\ \A a : a.at = "body" /\ a.closes => Respond!Allowed(a, l)
                              /\ \A a : Respond!After(a, l) = Closing(a)
  BY <1>3, <1>5 DEF Respond!Left, Respond!Operations, Respond!CallbackType, Respond!Allowed, Respond!After, Closing
<1>11. ASSUME NEW a \in Respond!Views, Respond!Allowed(a, Head(todo)) PROVE a.at # "head"
  BY <1>1, <1>11 DEF Respond!Allowed
<1>12. ASSUME NEW a \in Respond!Views PROVE Respond!After(a, Head(todo)) = Closing(a)
  BY <1>1 DEF Respond!After, Closing
<1> HIDE DEF code, t, page, l, ops
<1>13. todo' \in Seq(Respond!Operations) /\ OneLeft(todo') /\ (~inError' => NoLeft(todo'))
  <2>1. CASE inError' = inError /\ todo' = page \o t
    BY <1>3, <1>4, <1>9, <2>1, JoinLefts
  <2>2. CASE ~inError /\ onError.by # "none" /\ todo' = ops \o <<l>> \o t /\ inError' = TRUE
    BY <1>3, <1>4, <1>9, <1>10, <2>2, LeftIsOne
  <2> QED BY <1>1, <2>1, <2>2
<1>14. ResponseTyped'
  <2>1. inError' \in BOOLEAN /\ status' \in Int
    BY <1>1, <1>2, <1>3 DEF Respond!TypeOK
  <2> QED BY <1>1, <1>2, <1>13, <2>1 DEF ResponseTyped, Respond!TypeOK
<1>15. ASSUME ~broken' PROVE Led(todo)'
  <2>1. Led(todo)
    BY <1>1, <1>15 DEF Answering
  <2>2. PICK a \in Respond!Views, b \in Respond!Views :
          /\ Respond!Seen(a) /\ Respond!Allowed(a, Head(todo)) /\ b = Respond!After(a, Head(todo))
          /\ Delimits(Tail(todo), b)
    BY <1>1, <1>2, <2>1, LedHead
  <2> DEFINE c == Closing(a)
  <2>3. a.at # "head" /\ Delimits(t, c)
    BY <1>11, <1>12, <2>2 DEF t
  <2>4. Respond!Seen(a)'
    BY <1>1, <2>2 DEF Respond!Seen, Respond!KeepsAlive
  <2>5. c \in Respond!Views /\ c.at = "body" /\ c.closes /\ Closing(c) = c
    BY ClosingTwice
  <2>6. Respond!Course(page, a, c) /\ (onError.by # "none" => Respond!Course(ops, a, c))
    BY <1>6, <1>7, <2>3
  <2> HIDE DEF c
  <2>7. CASE todo' = page \o t
    <3>1. page \in Seq(Respond!Operations)
      BY <1>9, Ordinaries
    <3>2. Delimits(page \o t, a)
      BY <1>3, <2>3, <2>6, <3>1, DelimitsThen
    <3> QED BY <2>4, <2>7, <3>2, LedThen
  <2>8. CASE onError.by # "none" /\ todo' = ops \o <<l>> \o t
    <3> DEFINE r == <<l>>
               p == ops \o r
    <3>1. ops \in Seq(Respond!Operations) /\ r \in Seq(Respond!Operations)
      BY <1>9, <1>10, <2>8, Ordinaries
    <3>2. Respond!Course(<<l>>, c, Respond!After(c, l))
      BY <1>10, <2>5, <2>8, CourseOne
    <3>3. Respond!Course(r, c, c)
      BY <1>10, <2>5, <2>8, <3>2
    <3> HIDE DEF r
    <3>4. p \in Seq(Respond!Operations) /\ Respond!Course(p, a, c)
      BY <2>6, <2>8, <3>1, <3>3, CourseJoin
    <3>5. todo' = p \o t
      BY <2>8 DEF r
    <3> HIDE DEF p
    <3>6. Delimits(p \o t, a)
      BY <1>3, <2>3, <3>4, DelimitsThen
    <3> QED BY <2>4, <3>5, <3>6, LedThen
  <2> QED BY <1>1, <2>7, <2>8
<1> QED BY <1>1, <1>13, <1>14, <1>15, BusyStill

LEMMA LeftMoves == ASSUME Answering, Respond!CallbackLeft PROVE Answering'
<1> DEFINE code == Head(todo).code
           t == Tail(todo)
           page == Respond!PageOps(code)
<1>1. /\ todo # <<>> /\ phase = "busy" /\ Head(todo).op = "left" /\ inError' = FALSE
      /\ UNCHANGED <<keepAlive, onError, phase, state, status, headers, mustClose, onWire, broken, sendResult>>
      /\ todo' = <<>> \o t \/ todo' = page \o t
  BY DEF Respond!CallbackLeft, Respond!At, Respond!config, Respond!Arg
<1>2. /\ Respond!TypeOK /\ headers \in Seq(Respond!HeaderType) /\ onWire \in Seq(Respond!ItemType)
      /\ todo \in Seq(Respond!Operations) /\ Shaped(onWire) /\ ResponseTyped
      /\ OneLeft(todo)
  BY DEF Answering, ResponseTyped
<1>3. code \in Respond!Codes /\ t \in Seq(Respond!Operations)
  BY <1>1, <1>2, HeadIs
<1>4. <<>> \o t = t
  BY <1>3
<1>5. NoLeft(t) /\ OneLeft(t)
  BY <1>1, <1>2, TailLefts
<1>6. \A a \in Respond!Views : a.at # "head" => page \in Seq(Ordinary) /\ Respond!Course(page, a, Closing(a))
  BY <1>3, PageGoes
<1>7. PICK v \in Respond!Views : v.at = "none"
  <2> DEFINE v == Open("none", 0, 0, 0)
  <2>1. v \in Respond!Views /\ v.at = "none"
    BY OpenIs DEF Places
  <2> QED BY <2>1
<1>8. page \in Seq(Ordinary)
  BY <1>6, <1>7
<1>9. ASSUME NEW a \in Respond!Views, Respond!Allowed(a, Head(todo)) PROVE a.at = "body" /\ a.closes
  BY <1>1, <1>9 DEF Respond!Allowed
<1>10. ASSUME NEW a \in Respond!Views PROVE Respond!After(a, Head(todo)) = Closing(a)
  BY <1>1 DEF Respond!After, Closing
<1> HIDE DEF code, t, page
<1>11. todo' \in Seq(Respond!Operations) /\ OneLeft(todo') /\ (~inError' => NoLeft(todo'))
  <2>1. CASE todo' = <<>> \o t
    BY <1>3, <1>4, <1>5, <2>1
  <2>2. CASE todo' = page \o t
    BY <1>3, <1>5, <1>8, <2>2, JoinLefts
  <2> QED BY <1>1, <2>1, <2>2
<1>12. ResponseTyped'
  BY <1>1, <1>2, <1>11 DEF ResponseTyped, Respond!TypeOK
<1>13. ASSUME ~broken' PROVE Led(todo)'
  <2>1. Led(todo)
    BY <1>1, <1>13 DEF Answering
  <2>2. PICK a \in Respond!Views, b \in Respond!Views :
          /\ Respond!Seen(a) /\ Respond!Allowed(a, Head(todo)) /\ b = Respond!After(a, Head(todo))
          /\ Delimits(Tail(todo), b)
    BY <1>1, <1>2, <2>1, LedHead
  <2>3. a.at = "body" /\ a.closes
    BY <1>9, <2>2
  <2>4. b = Closing(a) /\ Closing(a) = a
    BY <1>10, <2>2, <2>3, ClosingTwice
  <2>5. Delimits(t, a)
    BY <2>2, <2>4 DEF t
  <2>6. Respond!Seen(a)'
    BY <1>1, <2>2 DEF Respond!Seen, Respond!KeepsAlive
  <2>7. CASE todo' = <<>> \o t
    BY <1>4, <2>5, <2>6, <2>7, LedThen
  <2>8. CASE todo' = page \o t
    <3>1. page \in Seq(Respond!Operations)
      BY <1>8, Ordinaries
    <3>2. Respond!Course(page, a, a)
      BY <1>6, <2>3, <2>4
    <3>3. Delimits(page \o t, a)
      BY <1>3, <2>5, <3>1, <3>2, DelimitsThen
    <3> QED BY <2>6, <2>8, <3>3, LedThen
  <2> QED BY <1>1, <2>7, <2>8
<1> QED BY <1>1, <1>11, <1>12, <1>13, BusyStill

(* Where a response begins and ends. *)
LEMMA RequestMoves ==
  ASSUME Answering, NEW x \in Replies[keepAlive], Respond!Taken(x), Respond!Request(x)
  PROVE  Answering'
<1> DEFINE p == Respond!Answer(x)
           o == Open("none", -2, MaxHeaders, 0)
           c == [o EXCEPT !.closes = TRUE]
<1>1. /\ phase = "idle" /\ phase' = "busy" /\ todo' = p /\ state' = 0 /\ status' = -1 /\ headers' = <<>>
      /\ mustClose' = FALSE /\ onWire' = <<>> /\ sendResult' = 0
      /\ UNCHANGED <<keepAlive, onError, inError, broken>>
  BY DEF Respond!Request, Respond!config
<1>2. Respond!TypeOK /\ (~inError => NoLeft(todo)) /\ keepAlive \in BOOLEAN
  BY DEF Answering, ResponseTyped, Respond!TypeOK
<1>3. /\ MaxHeaders \in Nat /\ MaxHeaders >= 3 /\ MaxHeaders \in Int /\ x \in Respond!AnswerType
      /\ keepAlive => /\ x.by = "R" => Len(x.names) + 2 <= MaxHeaders
                      /\ x.by = "R" => \A i \in 1 .. Len(x.names) : x.names[i] \notin Respond!Framing
                      /\ x.by = "server" => x.status # 200
  <2>1. /\ MaxHeaders \in Nat /\ MaxHeaders >= 3 /\ \A k \in BOOLEAN : Replies[k] \subseteq Respond!AnswerType
        /\ \A z \in Replies[TRUE] :
             /\ z.by = "R" => /\ Len(z.names) + 2 <= MaxHeaders
                              /\ \A i \in 1 .. Len(z.names) : z.names[i] \notin Respond!Framing
             /\ z.by = "server" => z.status # 200
    BY AnswersAssumption DEF Respond!ConstantsAreProper
  <2>2. MaxHeaders \in Int
    BY <2>1
  <2>3. x \in Respond!AnswerType
    BY <1>2, <2>1
  <2>4. ASSUME keepAlive PROVE x \in Replies[TRUE]
    BY <1>2, <2>4
  <2>5. ASSUME keepAlive
        PROVE  /\ x.by = "R" => Len(x.names) + 2 <= MaxHeaders
               /\ x.by = "R" => \A i \in 1 .. Len(x.names) : x.names[i] \notin Respond!Framing
               /\ x.by = "server" => x.status # 200
    <3>1. x \in Replies[TRUE]
      BY <2>4, <2>5
    <3> QED BY ZenonT(40), <2>1, <3>1
  <2>6. MaxHeaders >= 3 /\ MaxHeaders \in Nat
    BY <2>1
  <2> QED BY <2>2, <2>3, <2>5, <2>6, Zenon
<1>4. /\ o \in Respond!Views /\ o.at = "none" /\ o.told = -2 /\ o.room = MaxHeaders /\ o.got = 0 /\ o.closes = FALSE
  <2>1. /\ o \in Respond!Views /\ o.at = "none" /\ o.told = -2 /\ o.room = MaxHeaders /\ o.got = 0 /\ ~o.closes
    BY <1>3, NothingYet
  <2> HIDE DEF o
  <2> QED BY <2>1 DEF Respond!Views
<1> HIDE DEF o
<1>5. c \in Respond!Views /\ c.at = "none" /\ c.closes = TRUE
  BY <1>4 DEF Respond!Views
<1> HIDE DEF c
<1>6. p \in Seq(Ordinary) /\ \E b \in Respond!Views : b.closes /\ Respond!Course(p, c, b)
  BY <1>3, <1>5, AnswerCloses
<1>7. keepAlive => Delimits(p, o)
  BY <1>3, AnswerDelimits DEF o
<1> HIDE DEF p
<1>8. Delimits(p, c)
  <2>1. PICK b \in Respond!Views : b.closes /\ Respond!Course(p, c, b)
    BY <1>6
  <2>2. Respond!Delimited(b)
    BY <2>1 DEF Respond!Delimited
  <2> QED BY <2>1, <2>2 DEF Delimits
<1>9. p \in Seq(Respond!Operations) /\ NoLeft(p) /\ OneLeft(p)
  BY <1>6, Ordinaries DEF NoLeft, OneLeft
<1>10. Respond!KeepsAlive' = keepAlive
  BY <1>1, <1>2 DEF Respond!KeepsAlive
<1>11. Led(todo)'
  <2>1. CASE keepAlive
    <3>1. Respond!Seen(o)'
      BY <1>1, <1>4, <1>10, <2>1, BodyNone DEF Respond!Seen
    <3> QED BY <1>1, <1>4, <1>7, <2>1, <3>1, LedThen
  <2>2. CASE ~keepAlive
    <3>1. c.closes = ~Respond!KeepsAlive' /\ state' = 0 /\ onWire' = <<>>
      BY <1>1, <1>2, <1>5, <1>10, <2>2
    <3>2. Respond!Seen(c)'
      BY <1>5, <3>1 DEF Respond!Seen
    <3> QED BY <1>1, <1>5, <1>8, <3>2, LedThen
  <2> QED BY <2>1, <2>2
<1>12. ResponseTyped'
  <2>1. headers' \in Seq(Respond!HeaderType) /\ Len(headers') <= MaxHeaders /\ onWire' \in Seq(Respond!ItemType)
    <3>1. Len(<<>>) = 0 /\ <<>> \in Seq(Respond!HeaderType) /\ <<>> \in Seq(Respond!ItemType)
      OBVIOUS
    <3> QED BY <1>1, <1>3, <3>1
  <2>2. Shaped(onWire')
    BY <1>1 DEF Shaped
  <2>3. Respond!TypeOK'
    <3>1. /\ state' \in {0, 1, 3, 10} /\ status' \in Int
          /\ sendResult' \in {0, -3, -4} /\ phase' \in {"idle", "busy", "closed"}
      BY <1>1
    <3>3. mustClose' \in BOOLEAN
      BY <1>1, Zenon
    <3>2. keepAlive' \in BOOLEAN /\ onError' \in Callbacks /\ inError' \in BOOLEAN /\ broken' \in BOOLEAN
      BY <1>1, <1>2 DEF Respond!TypeOK
    <3> QED BY <2>1, <3>1, <3>2, <3>3 DEF Respond!TypeOK
  <2> QED BY <1>1, <1>9, <2>1, <2>2, <2>3 DEF ResponseTyped
<1> QED BY <1>1, <1>9, <1>11, <1>12, BusyStill

\* Without operations the client stays.
LEMMA NoCourse == ASSUME NEW a, NEW b, Respond!Course(<<>>, a, b) PROVE a = b
<1> DEFINE p == <<>>
<1>1. PICK f \in [0 .. Len(p) -> Respond!Views] : f[0] = a /\ f[Len(p)] = b
  BY DEF Respond!Course
<1>2. Len(p) = 0
  OBVIOUS
<1> HIDE DEF p
<1> QED BY <1>1, <1>2

\* process_new_connection() after a request.
LEMMA EndMoves == ASSUME Answering, Respond!End PROVE Answering'
<1>1. /\ phase = "busy" /\ todo = <<>> /\ headers' = <<>>
      /\ phase' = IF Respond!KeepsAlive /\ ~broken THEN "idle" ELSE "closed"
      /\ UNCHANGED <<keepAlive, onError, state, status, mustClose, inError, todo, onWire, broken, sendResult>>
  BY DEF Respond!End, Respond!config
<1>2. /\ Respond!TypeOK /\ onWire \in Seq(Respond!ItemType) /\ todo \in Seq(Respond!Operations) /\ Shaped(onWire)
      /\ OneLeft(todo) /\ (~inError => NoLeft(todo))
  BY DEF Answering, ResponseTyped
<1>3. ResponseTyped'
  <2>1. headers' \in Seq(Respond!HeaderType) /\ Len(headers') <= MaxHeaders
    <3>1. Len(<<>>) = 0 /\ <<>> \in Seq(Respond!HeaderType) /\ MaxHeaders \in Nat
      BY AnswersAssumption DEF Respond!ConstantsAreProper
    <3> QED BY <1>1, <3>1
  <2>2. phase' \in {"idle", "busy", "closed"}
    BY <1>1
  <2> QED BY <1>1, <1>2, <2>1, <2>2 DEF ResponseTyped, Respond!TypeOK
<1>4. OneLeft(todo') /\ (~inError' => NoLeft(todo')) /\ phase' # "busy"
  BY <1>1, <1>2
<1>5. ASSUME phase' = "idle"
      PROVE  /\ ~broken /\ 0 \notin Respond!Named(onWire, "Connection")
             /\ \/ onWire = <<>>
                \/ Respond!Named(onWire, "Transfer-Encoding") # {}
                \/ Respond!Named(onWire, "Content-Length") = {Respond!BodyOf(onWire)}
  <2>1. ~broken /\ Respond!KeepsAlive
    BY <1>1, <1>5
  <2>2. Led(todo)
    BY <1>1, <2>1 DEF Answering
  <2>3. PICK a \in Respond!Views, b \in Respond!Views :
          Respond!Seen(a) /\ Respond!Course(todo, a, b) /\ Respond!Delimited(b)
    BY <2>2 DEF Led
  <2>4. a = b
    BY <1>1, <2>3, NoCourse
  <2>5. ~a.closes /\ Respond!Delimited(a)
    BY <2>1, <2>3, <2>4 DEF Respond!Seen
  <2>6. CASE a.at \in {"none", "begun"}
    <3>1. onWire = <<>>
      BY <2>3, <2>6 DEF Respond!Seen
    <3>2. Respond!Named(onWire, "Connection") = {}
      BY <3>1, NamedNone
    <3> QED BY <2>1, <3>1, <3>2
  <2>7. CASE a.at = "body" /\ (a.told = -1 \/ a.told = a.got)
    <3>1. Respond!BodyOf(onWire) = a.got /\ Respond!Tells(onWire, a.told)
      BY <2>3, <2>5, <2>7 DEF Respond!Seen
    <3>2. a.got >= 0 /\ a.told \in Int /\ a.got \in Int
      BY <1>2, <3>1, BodyIsNat DEF Respond!Views
    <3>3. 0 \notin Respond!Named(onWire, "Connection")
      BY <3>1 DEF Respond!Tells
    <3>4. CASE a.told = -1
      BY <2>1, <3>1, <3>3, <3>4 DEF Respond!Tells
    <3>5. CASE a.told = a.got
      <4>1. a.told # -1 /\ a.told # -2
        BY <3>2, <3>5
      <4>2. Respond!Named(onWire, "Content-Length") = {a.told}
        BY <3>1, <4>1 DEF Respond!Tells
      <4> QED BY <2>1, <3>1, <3>3, <3>5, <4>2
    <3> QED BY <2>7, <3>4, <3>5
  <2> QED BY <2>5, <2>6, <2>7 DEF Respond!Delimited
<1>6. IdleIs'
  BY <1>1, <1>5 DEF IdleIs
<1> QED BY <1>3, <1>4, <1>6 DEF Answering

\* What a part that does not write answers leaves alone.
LEMMA AnswersStay == ASSUME Answering, UNCHANGED answerVars PROVE Answering'
<1>1. UNCHANGED <<keepAlive, onError, state, status, headers, mustClose, inError, todo, onWire, broken,
                  sendResult, phase>>
  BY DEF answerVars
<1>2. ResponseTyped' /\ IdleIs'
  BY <1>1 DEF Answering, ResponseTyped, Respond!TypeOK, IdleIs
<1>3. Led(todo) => Led(todo)'
  BY <1>1 DEF Led, Respond!Seen, Respond!KeepsAlive
<1> QED BY <1>1, <1>2, <1>3 DEF Answering

\* The beginning and every step.
LEMMA AnswersBegin == Respond!Init => Answering
<1> SUFFICES ASSUME Respond!Init PROVE Answering
  OBVIOUS
<1>1. /\ keepAlive \in BOOLEAN /\ onError \in Callbacks /\ state = 0 /\ status = -1 /\ headers = <<>>
      /\ mustClose = FALSE /\ inError = FALSE /\ todo = <<>> /\ onWire = <<>> /\ broken = FALSE
      /\ sendResult = 0 /\ phase = "idle"
  BY DEF Respond!Init
<1>2. /\ headers \in Seq(Respond!HeaderType) /\ onWire \in Seq(Respond!ItemType)
      /\ todo \in Seq(Respond!Operations) /\ Len(headers) <= MaxHeaders /\ Len(todo) = 0
  <2>1. MaxHeaders \in Nat
    BY AnswersAssumption DEF Respond!ConstantsAreProper
  <2>2. Len(<<>>) = 0
    OBVIOUS
  <2> QED BY <1>1, <2>1, <2>2
<1>3. ResponseTyped
  <2>1. state \in {0, 1, 3, 10} /\ status \in Int /\ sendResult \in {0, -3, -4}
    BY <1>1
  <2>2. mustClose \in BOOLEAN /\ inError \in BOOLEAN /\ broken \in BOOLEAN
    BY <1>1, Zenon
  <2>3. phase \in {"idle", "busy", "closed"} /\ keepAlive \in BOOLEAN /\ onError \in Callbacks /\ Shaped(onWire)
    BY <1>1 DEF Shaped
  <2> QED BY <1>2, <2>1, <2>2, <2>3 DEF ResponseTyped, Respond!TypeOK
<1>4. Respond!Lefts(todo) = {}
  BY <1>2 DEF Respond!Lefts
<1>5. IdleIs
  BY <1>1, NamedNone DEF IdleIs
<1> QED BY <1>1, <1>3, <1>4, <1>5 DEF Answering, OneLeft, NoLeft

LEMMA AnswersStep ==
  ASSUME Answering, Respond!Next, \A x \in Replies[keepAlive] : Respond!Request(x) => Respond!Taken(x)
  PROVE  Answering'
BY RequestMoves, StartMoves, AddMoves, SendMoves, RawMoves, CloseMoves, ErrorMoves, LeftMoves, EndMoves
   DEF Respond!Next

(* A status that mg_response_header_start() refuses. *)
LEMMA RefusedHead ==
  ASSUME todo \in Seq(Respond!RefusedOps), todo # <<>>
  PROVE  /\ Tail(todo) \in Seq(Respond!RefusedOps)
         /\ Head(todo).op \in {"send", "start", "add", "raw"}
         /\ Head(todo).op = "start" => Head(todo).code \notin Respond!Codes
         /\ Head(todo).op = "raw" => Head(todo).item \in Respond!ItemType /\ Head(todo).item.k = "body"
<1> DEFINE o == Head(todo)
<1>1. o \in Respond!RefusedOps /\ Tail(todo) \in Seq(Respond!RefusedOps)
  OBVIOUS
<1> HIDE DEF o
<1>2. /\ o.op \in {"send", "start", "add", "raw"}
      /\ o.op = "start" => o.code \notin Respond!Codes
      /\ o.op = "raw" => o.item \in Respond!ItemType /\ o.item.k = "body"
  BY <1>1 DEF Respond!RefusedOps, Respond!ItemType
<1> QED BY <1>1, <1>2 DEF o

\* The body comes after the head that is lost, also after another operation.
LEMMA BodyLastTail ==
  ASSUME NEW S, NEW p \in Seq(S), p # <<>>, Respond!BodyLast(p), Head(p).op # "send"
  PROVE  Head(p).op # "raw" /\ Respond!BodyLast(Tail(p))
<1> DEFINE t == Tail(p)
<1>1. Len(p) \in Nat /\ Len(p) > 0 /\ p[1] = Head(p) /\ Len(t) = Len(p) - 1
      /\ \A i \in 1 .. Len(t) : t[i] = p[i + 1]
  OBVIOUS
<1> HIDE DEF t
<1>2. \A i \in 1 .. Len(p) : p[i].op = "raw" => \E j \in 1 .. i - 1 : p[j].op = "send"
  BY DEF Respond!BodyLast
<1>3. p[1].op # "raw"
  BY <1>1, <1>2
<1>4. ASSUME NEW i \in 1 .. Len(t), t[i].op = "raw" PROVE \E j \in 1 .. i - 1 : t[j].op = "send"
  <2>1. i + 1 \in 1 .. Len(p) /\ p[i + 1].op = "raw"
    BY <1>1, <1>4
  <2>2. PICK j \in 1 .. i : p[j].op = "send"
    BY <1>2, <2>1
  <2>3. j # 1
    BY <1>1, <2>2
  <2>4. j - 1 \in 1 .. i - 1 /\ t[j - 1] = p[j]
    BY <1>1, <2>2, <2>3
  <2> QED BY <2>2, <2>4
<1> QED BY <1>1, <1>3, <1>4 DEF Respond!BodyLast, t

LEMMA BodyIsLast ==
  ASSUME NEW S, NEW p \in Seq(S), NEW s \in S, NEW q \in Seq(S), s.op = "send",
         \A i \in 1 .. Len(p) : p[i].op # "raw"
  PROVE  Respond!BodyLast((p \o <<s>>) \o q)
<1> DEFINE w == (p \o <<s>>) \o q
           n == Len(p) + 1
<1>1. /\ Len(p) \in Nat /\ Len(w) \in Nat /\ Len(w) >= n /\ w[n] = s
      /\ \A i \in 1 .. Len(p) : w[i] = p[i]
  OBVIOUS
<1> HIDE DEF w
<1>2. ASSUME NEW i \in 1 .. Len(w), w[i].op = "raw" PROVE \E j \in 1 .. i - 1 : w[j].op = "send"
  <2>1. i > n
    BY <1>1, <1>2
  <2> QED BY <1>1, <2>1
<1> QED BY <1>2 DEF Respond!BodyLast, w

\* What handler() does with it.
LEMMA HandlerRefused ==
  ASSUME NEW x \in Respond!AnswerType, ~Respond!Taken(x)
  PROVE  Respond!Answer(x) \in Seq(Respond!RefusedOps) /\ Respond!BodyLast(Respond!Answer(x))
<1> DEFINE first == <<Respond!Start(x.status)>>
           names == [i \in 1 .. Len(x.names) |-> Respond!Add(x.names[i], 0)]
           type  == IF Respond!Contains(x.names, "Content-Type") THEN <<>>
                    ELSE <<Respond!Add("Content-Type", 0)>>
           len   == <<Respond!Add("Content-Length", x.body)>>
           s     == Respond!Op("send")
           body  == IF x.body > 0 THEN <<Respond!Raw(Respond!Bytes(x.body))>> ELSE <<>>
           Heads == {o \in Respond!RefusedOps : o.op # "raw"}
           p     == first \o names \o type \o len
<1>1. x.by = "R" /\ ~x.manual /\ x.status \notin Respond!Codes
  BY DEF Respond!Taken
<1>2. /\ x.status \in Int /\ x.names \in Seq(Respond!Names) /\ x.body \in Nat
      /\ \A i \in 1 .. Len(x.names) : x.names[i] \in Respond!Names
      /\ "Content-Type" \in Respond!Names /\ "Content-Length" \in Respond!Names
  BY <1>1 DEF Respond!AnswerType, Respond!Names, Respond!Framing
<1>3. Respond!Answer(x) = (p \o <<s>>) \o body
  BY <1>1 DEF Respond!Answer, Respond!HandlerOps
<1>4. \A name \in Respond!Names, n \in Nat : Respond!Add(name, n) \in Heads
  BY DEF Respond!Add, Respond!Header, Respond!RefusedOps, Respond!HeaderType
<1>5. Respond!Start(x.status) \in Heads
  BY <1>1, <1>2 DEF Respond!Start, Respond!RefusedOps
<1>6. s \in Respond!RefusedOps /\ s.op = "send"
  BY DEF Respond!Op, Respond!RefusedOps
<1>7. Respond!Raw(Respond!Bytes(x.body)) \in Respond!RefusedOps
  BY <1>2 DEF Respond!Raw, Respond!Bytes, Respond!RefusedOps
<1>8. body \in Seq(Respond!RefusedOps)
  BY <1>7
<1> HIDE DEF s, body
<1> HIDE DEF Heads
<1>9. first \in Seq(Heads) /\ names \in Seq(Heads) /\ type \in Seq(Heads) /\ len \in Seq(Heads)
  <2>1. first \in Seq(Heads)
    BY <1>5
  <2>2. names \in Seq(Heads)
    BY <1>2, <1>4
  <2>3. type \in Seq(Heads)
    BY <1>2, <1>4
  <2>4. len \in Seq(Heads)
    BY <1>2, <1>4
  <2> QED BY <2>1, <2>2, <2>3, <2>4
<1> HIDE DEF first, names, type, len
<1>10. p \in Seq(Heads)
  BY <1>9
<1> HIDE DEF p
<1>11. \A i \in 1 .. Len(p) : p[i] \in Heads
  BY <1>10
<1>12. p \in Seq(Respond!RefusedOps) /\ \A i \in 1 .. Len(p) : p[i].op # "raw"
  BY <1>10, <1>11 DEF Heads
<1>13. Respond!BodyLast((p \o <<s>>) \o body)
  BY <1>6, <1>8, <1>12, BodyIsLast
<1>14. (p \o <<s>>) \o body \in Seq(Respond!RefusedOps)
  BY <1>6, <1>8, <1>12
<1> QED BY <1>3, <1>13, <1>14

LEMMA RefusedBegins ==
  ASSUME Answering, NEW x \in Replies[keepAlive], ~Respond!Taken(x), Respond!Request(x)
  PROVE  Respond!Refused'
<1>1. /\ phase' = "busy" /\ todo' = Respond!Answer(x) /\ state' = 0 /\ status' = -1 /\ headers' = <<>>
      /\ mustClose' = FALSE /\ onWire' = <<>> /\ sendResult' = 0
      /\ UNCHANGED <<keepAlive, onError, inError, broken>>
  BY DEF Respond!Request, Respond!config
<1>2. Respond!TypeOK /\ keepAlive \in BOOLEAN
  BY DEF Answering, ResponseTyped, Respond!TypeOK
<1>3. /\ MaxHeaders \in Nat /\ \A k \in BOOLEAN : Replies[k] \subseteq Respond!AnswerType
      /\ \A z \in Replies[TRUE] : Respond!Taken(z)
  BY AnswersAssumption DEF Respond!ConstantsAreProper
<1>4. x \in Respond!AnswerType /\ ~keepAlive
  BY <1>2, <1>3
<1>5. Respond!Answer(x) \in Seq(Respond!RefusedOps) /\ Respond!BodyLast(Respond!Answer(x))
  BY <1>4, HandlerRefused
<1>6. Respond!TypeOK'
  <2>1. /\ state' \in {0, 1, 3, 10} /\ status' \in Int /\ Len(headers') <= MaxHeaders
        /\ sendResult' \in {0, -3, -4} /\ phase' \in {"idle", "busy", "closed"}
    BY <1>1, <1>3
  <2>2. mustClose' \in BOOLEAN
    BY <1>1, Zenon
  <2>3. keepAlive' \in BOOLEAN /\ onError' \in Callbacks /\ inError' \in BOOLEAN /\ broken' \in BOOLEAN
    BY <1>1, <1>2 DEF Respond!TypeOK
  <2> QED BY <2>1, <2>2, <2>3 DEF Respond!TypeOK
<1>7. ~Respond!KeepsAlive'
  BY <1>1, <1>4 DEF Respond!KeepsAlive
<1>8. onWire' \in Seq(Respond!ItemType)
  BY <1>1
<1> QED BY <1>1, <1>5, <1>6, <1>7, <1>8 DEF Respond!Refused, Respond!BodyLast

\* Such an answer never gets a head, and ends the connection.
LEMMA RefusedStep == ASSUME Respond!Refused, Respond!Next PROVE Respond!Refused'
<1>1. /\ Respond!TypeOK /\ phase # "idle" /\ ~Respond!KeepsAlive
      /\ todo \in Seq(Respond!RefusedOps) /\ onWire \in Seq(Respond!ItemType)
      /\ sendResult = -3 \/ Respond!BodyLast(todo)
      /\ (state = 0 /\ onWire = <<>>) \/ Respond!Headless
      /\ broken \in BOOLEAN /\ MaxHeaders \in Nat /\ state # 1
  BY AnswersAssumption DEF Respond!Refused, Respond!TypeOK, Respond!ConstantsAreProper, Respond!Headless
<1>2. CASE Respond!End
  <2>1. /\ phase' = "closed" /\ headers' = <<>> /\ todo' = todo
        /\ UNCHANGED <<keepAlive, onError, state, status, mustClose, inError, onWire, broken, sendResult>>
    BY <1>1, <1>2 DEF Respond!End, Respond!config
  <2>2. Len(headers') <= MaxHeaders /\ phase' \in {"idle", "busy", "closed"}
    BY <1>1, <2>1
  <2>3. Respond!TypeOK'
    BY <1>1, <2>1, <2>2 DEF Respond!TypeOK
  <2> QED BY <1>1, <2>1, <2>3 DEF Respond!Refused, Respond!Headless, Respond!KeepsAlive, Respond!BodyLast
<1>3. CASE \/ Respond!StartResponse \/ Respond!AddHeader
           \/ Respond!SendHeader \/ Respond!WriteRaw
  <2>0. todo # <<>> /\ todo' = Tail(todo) /\ UNCHANGED <<keepAlive, onError, phase, mustClose, inError>>
    BY <1>3 DEF Respond!StartResponse, Respond!AddHeader, Respond!SendHeader, Respond!WriteRaw, Respond!At,
       Respond!Then, Respond!config
  <2>8. UNCHANGED <<status, headers>>
    <3>1. Head(todo).op = "start" => Head(todo).code \notin Respond!Codes
      BY <1>1, <2>0, RefusedHead
    <3> QED BY <1>1, <1>3, <3>1 DEF Respond!StartResponse, Respond!AddHeader, Respond!SendHeader, Respond!WriteRaw,
               Respond!At, Respond!Arg
  <2>1. Tail(todo) \in Seq(Respond!RefusedOps)
    BY <1>1, <2>0, <2>8, RefusedHead
  <2>2. Respond!KeepsAlive' = Respond!KeepsAlive
    BY <2>0, <2>8 DEF Respond!KeepsAlive
  <2>3. CASE UNCHANGED <<state, onWire, broken>> /\ (sendResult' = -3 \/ (sendResult' = sendResult /\ Head(todo).op \notin {"send", "raw"}))
    <3>1. sendResult' = -3 \/ (sendResult' = sendResult /\ Respond!BodyLast(todo'))
      <4>1. CASE sendResult' = -3
        BY <4>1
      <4>2. CASE sendResult' = sendResult /\ Head(todo).op \notin {"send", "raw"}
        BY <1>1, <2>0, <2>8, <4>2, BodyLastTail
      <4> QED BY <2>3, <4>1, <4>2
    <3>2. Respond!TypeOK'
      BY <1>1, <2>0, <2>8, <2>3 DEF Respond!TypeOK
    <3>3. (state' = 0 /\ onWire' = <<>>) \/ (Respond!Headless /\ sendResult = -3)
      BY <1>1, <2>3 DEF Respond!Headless
    <3>4. sendResult = -3 => sendResult' = -3
      BY <2>3
    <3>5. (state' = 0 /\ onWire' = <<>>) \/ Respond!Headless'
      BY <2>3, <3>3, <3>4 DEF Respond!Headless
    <3> QED BY <1>1, <2>0, <2>8, <2>1, <2>2, <2>3, <3>1, <3>2, <3>5 DEF Respond!Refused, Respond!BodyLast
  <2>4. CASE Respond!WriteRaw
    <3> DEFINE i == Head(todo).item
               s == <<i>>
    <3>1. /\ Head(todo).op = "raw" /\ state' = 10 /\ sendResult' = sendResult
          /\ \E o \in Respond!Outcomes(s) : onWire' = onWire \o o.out /\ broken' = o.broken
      BY <2>4 DEF Respond!WriteRaw, Respond!At
    <3>2. i \in Respond!ItemType /\ i.k = "body"
      BY <1>1, <2>0, <2>8, <3>1, RefusedHead
    <3>3. sendResult = -3
      BY <1>1, <2>0, <2>8, <3>1, BodyLastTail
    <3> HIDE DEF i
    <3>4. s \in Seq(Respond!ItemType) /\ Len(s) = 1 /\ s[1].k = "body"
      BY <3>2
    <3> HIDE DEF s
    <3>5. PICK o \in Respond!Outcomes(s) : onWire' = onWire \o o.out /\ broken' = o.broken
      BY <3>1
    <3>6. /\ o.broken \in BOOLEAN
          /\ o.out = <<>> \/ o.out = s \/ \E n \in 0 .. Len(s) : o.out = SubSeq(s, 1, n)
      BY <1>1, OutcomesAre
    <3>7. o.out \in Seq(Respond!ItemType) /\ \A j \in 1 .. Len(o.out) : o.out[j].k = "body"
      <4>1. CASE o.out = <<>>
        BY <4>1
      <4>2. CASE o.out = s
        BY <3>4, <4>2
      <4>3. CASE \E n \in 0 .. Len(s) : o.out = SubSeq(s, 1, n)
        <5>1. PICK n \in 0 .. Len(s) : o.out = SubSeq(s, 1, n)
          BY <4>3
        <5>2. /\ SubSeq(s, 1, n) \in Seq(Respond!ItemType) /\ Len(SubSeq(s, 1, n)) = n
              /\ \A j \in 1 .. n : SubSeq(s, 1, n)[j] = s[j]
          BY <3>4, PrefixIs
        <5> QED BY <3>4, <5>1, <5>2
      <4> QED BY <3>6, <4>1, <4>2, <4>3
    <3>8. \A j \in 1 .. Len(onWire) : onWire[j].k = "body"
      BY <1>1 DEF Respond!Headless
    <3>9. onWire \o o.out \in Seq(Respond!ItemType) /\ \A j \in 1 .. Len(onWire \o o.out) : (onWire \o o.out)[j].k = "body"
      BY <1>1, <3>7, <3>8
    <3>10. onWire' \in Seq(Respond!ItemType) /\ \A j \in 1 .. Len(onWire') : onWire'[j].k = "body"
      BY <3>5, <3>9
    <3>11. Respond!Headless'
      BY <3>1, <3>3, <3>10 DEF Respond!Headless
    <3>12. broken' \in BOOLEAN /\ sendResult' \in {0, -3, -4} /\ state' \in {0, 1, 3, 10}
      BY <3>1, <3>3, <3>5, <3>6
    <3>13. Respond!TypeOK'
      BY <1>1, <2>0, <2>8, <3>12 DEF Respond!TypeOK
    <3> QED BY <1>1, <2>0, <2>8, <2>1, <2>2, <3>1, <3>3, <3>10, <3>11, <3>13 DEF Respond!Refused
  <2>5. CASE Respond!StartResponse
    <3>1. UNCHANGED <<state, onWire, broken, sendResult>> /\ Head(todo).op = "start"
      <4>1. Head(todo).op = "start" /\ Head(todo).code \notin Respond!Codes
        BY <1>1, <2>0, <2>5, RefusedHead DEF Respond!StartResponse, Respond!At
      <4> QED BY <2>5, <4>1 DEF Respond!StartResponse, Respond!Arg
    <3> QED BY <2>3, <3>1
  <2>6. CASE Respond!AddHeader
    <3>1. UNCHANGED <<state, onWire, broken, sendResult>> /\ Head(todo).op = "add"
      BY <2>6 DEF Respond!AddHeader, Respond!At
    <3> QED BY <2>3, <3>1
  <2>7. CASE Respond!SendHeader
    <3>1. UNCHANGED <<state, onWire, broken>> /\ sendResult' = -3
      BY <1>1, <2>7 DEF Respond!SendHeader
    <3> QED BY <2>3, <3>1
  <2> QED BY <1>3, <2>4, <2>5, <2>6, <2>7
<1>4. CASE ~Respond!End
  <2>1. ~Respond!Close /\ ~Respond!SendError /\ ~Respond!CallbackLeft
    <3>1. todo # <<>> => Head(todo).op \in {"send", "start", "add", "raw"}
      BY <1>1, RefusedHead
    <3> QED BY <3>1 DEF Respond!Close, Respond!SendError, Respond!CallbackLeft, Respond!At
  <2>2. \A x \in Replies[keepAlive] : ~Respond!Request(x)
    BY <1>1 DEF Respond!Request
  <2> QED BY <1>3, <1>4, <2>1, <2>2 DEF Respond!Next
<1> QED BY <1>2, <1>4

(* What it means for the client. *)
LEMMA SameCardinality == \A T : Respond!Cardinality(T) = Cardinality(T)
  BY DEF Respond!Cardinality, Cardinality

LEMMA OnlyOne ==
  ASSUME NEW T, \A i, j \in T : i = j
  PROVE  Respond!Cardinality(T) <= 1
<1>0. Respond!Cardinality(T) = Cardinality(T)
  BY SameCardinality
<1>1. CASE T = {}
  BY <1>0, <1>1, FS_EmptySet
<1>2. CASE T # {}
  <2>1. PICK x : x \in T
    BY <1>2
  <2>2. T = {x}
    BY <2>1
  <2>3. Cardinality({x}) = 1
    BY FS_Singleton
  <2> QED BY <1>0, <2>2, <2>3
<1> QED BY <1>1, <1>2

\* A head, or a head and a body, in their order.
LEMMA ShapedInOrder ==
  ASSUME NEW s \in Seq(Respond!ItemType), Shaped(s)
  PROVE  /\ \A i, j \in Respond!Is(s, "status") : i = j
         /\ \A i, j \in Respond!Is(s, "blank") : i = j
         /\ s # <<>> => s[1].k = "status"
         /\ \A i \in 1 .. Len(s) - 1 : Respond!Rank[s[i].k] <= Respond!Rank[s[i + 1].k]
         /\ Respond!Is(s, "body") # {} => Respond!Is(s, "blank") # {}
<1> DEFINE n == Len(s)
<1>1. n \in Nat
  OBVIOUS
<1>2. /\ Respond!Rank["status"] = 1 /\ Respond!Rank["header"] = 2
      /\ Respond!Rank["blank"] = 3 /\ Respond!Rank["body"] = 4
  BY DEF Respond!Rank
<1>3. ASSUME NEW kind PROVE Respond!Is(s, kind) = {i \in 1 .. n : s[i].k = kind}
  BY DEF Respond!Is
<1>4. CASE s = <<>>
  <2>1. n = 0
    BY <1>4
  <2>2. \A kind : Respond!Is(s, kind) = {}
    BY <1>3, <2>1
  <2> QED BY <1>4, <2>1, <2>2
<1>5. CASE Respond!HeadOnly(s)
  <2>1. n > 0 /\ s[1].k = "status" /\ \A i \in 2 .. n : s[i].k = "header"
    BY <1>5 DEF Respond!HeadOnly
  <2>2. Respond!Is(s, "status") = {1} /\ Respond!Is(s, "blank") = {} /\ Respond!Is(s, "body") = {}
    <3>1. \A i \in 1 .. n : i = 1 \/ i \in 2 .. n
      BY <1>1
    <3> QED BY <1>1, <1>3, <2>1, <3>1
  <2>3. ASSUME NEW i \in 1 .. n - 1 PROVE Respond!Rank[s[i].k] <= Respond!Rank[s[i + 1].k]
    <3>1. i + 1 \in 2 .. n /\ (i = 1 \/ i \in 2 .. n)
      BY <1>1
    <3>2. s[i + 1].k = "header" /\ s[i].k \in {"status", "header"}
      BY <2>1, <3>1
    <3> QED BY <1>2, <3>2
  <2> QED BY <2>1, <2>2, <2>3
<1>6. CASE Respond!WithBody(s)
  <2>1. PICK b \in 2 .. n :
          /\ s[1].k = "status" /\ s[b].k = "blank"
          /\ \A i \in 2 .. b - 1 : s[i].k = "header"
          /\ \A i \in b + 1 .. n : s[i].k = "body"
    BY <1>6 DEF Respond!WithBody
  <2>2. \A i \in 1 .. n : i = 1 \/ i \in 2 .. b - 1 \/ i = b \/ i \in b + 1 .. n
    BY <1>1
  <2>3. b \in 1 .. n /\ 1 \in 1 .. n
    BY <1>1
  <2>4. Respond!Is(s, "status") = {1} /\ Respond!Is(s, "blank") = {b}
    BY <1>1, <1>3, <2>1, <2>2, <2>3
  <2>5. ASSUME NEW i \in 1 .. n - 1 PROVE Respond!Rank[s[i].k] <= Respond!Rank[s[i + 1].k]
    <3>1. i \in 1 .. n /\ i + 1 \in 1 .. n
      BY <1>1
    <3>2. CASE i = 1
      <4>1. s[i].k = "status" /\ s[i + 1].k \in {"header", "blank"}
        BY <1>1, <2>1, <3>2
      <4> QED BY <1>2, <4>1
    <3>3. CASE i \in 2 .. b - 1
      <4>1. i + 1 = b \/ i + 1 \in 2 .. b - 1
        BY <3>3
      <4>2. s[i].k = "header" /\ s[i + 1].k \in {"header", "blank"}
        BY <2>1, <3>3, <4>1
      <4> QED BY <1>2, <4>2
    <3>4. CASE i = b \/ i \in b + 1 .. n
      <4>1. i + 1 \in b + 1 .. n
        BY <1>1, <3>4
      <4>2. s[i].k \in {"blank", "body"} /\ s[i + 1].k = "body"
        BY <2>1, <3>4, <4>1
      <4> QED BY <1>2, <4>2
    <3> QED BY <2>2, <3>1, <3>2, <3>3, <3>4
  <2> QED BY <2>1, <2>4, <2>5
<1> QED BY <1>4, <1>5, <1>6 DEF Shaped

\* The invariant is what was to be shown.
LEMMA AnsweringDelimits ==
  Answering => /\ Respond!TypeOK /\ Respond!InOrder /\ Respond!KeptOnlyIfDelimited /\ Respond!CloseIsKept
               /\ Respond!CallbackNotNested
<1> SUFFICES ASSUME Answering
             PROVE  /\ Respond!TypeOK /\ Respond!InOrder /\ Respond!KeptOnlyIfDelimited /\ Respond!CloseIsKept
                    /\ Respond!CallbackNotNested
  OBVIOUS
<1>1. Respond!TypeOK /\ onWire \in Seq(Respond!ItemType) /\ Shaped(onWire) /\ OneLeft(todo)
  BY DEF Answering, ResponseTyped
<1>2. Respond!InOrder
  <2>1. Respond!Cardinality(Respond!Is(onWire, "status")) <= 1 /\ Respond!Cardinality(Respond!Is(onWire, "blank")) <= 1
    <3>1. \A i, j \in Respond!Is(onWire, "status") : i = j
      BY <1>1, ShapedInOrder
    <3>2. \A i, j \in Respond!Is(onWire, "blank") : i = j
      BY <1>1, ShapedInOrder
    <3> QED BY <3>1, <3>2, OnlyOne
  <2> QED BY <1>1, <2>1, ShapedInOrder DEF Respond!InOrder
<1>3. Respond!KeptOnlyIfDelimited
  BY DEF Answering, IdleIs, Respond!KeptOnlyIfDelimited
<1>4. Respond!CloseIsKept
  BY DEF Answering, IdleIs, Respond!CloseIsKept
<1>5. Respond!CallbackNotNested
  BY <1>1, OnlyOne DEF OneLeft, Respond!CallbackNotNested
<1> QED BY <1>1, <1>2, <1>3, <1>4, <1>5

\* Without a head there is only a body, and the connection closes.
LEMMA RefusedDelimits ==
  Respond!Refused => /\ Respond!TypeOK /\ Respond!InOrder /\ Respond!KeptOnlyIfDelimited /\ Respond!CloseIsKept
                     /\ Respond!CallbackNotNested
<1> SUFFICES ASSUME Respond!Refused
             PROVE  /\ Respond!TypeOK /\ Respond!InOrder /\ Respond!KeptOnlyIfDelimited /\ Respond!CloseIsKept
                    /\ Respond!CallbackNotNested
  OBVIOUS
<1>1. /\ Respond!TypeOK /\ phase # "idle" /\ todo \in Seq(Respond!RefusedOps)
      /\ (state = 0 /\ onWire = <<>>) \/ Respond!Headless
  BY DEF Respond!Refused
<1>2. Respond!InOrder
  <2>1. CASE onWire = <<>>
    <3>1. Shaped(onWire) /\ onWire \in Seq(Respond!ItemType)
      BY <2>1 DEF Shaped
    <3>2. Respond!Cardinality(Respond!Is(onWire, "status")) <= 1 /\ Respond!Cardinality(Respond!Is(onWire, "blank")) <= 1
      <4>1. \A i, j \in Respond!Is(onWire, "status") : i = j
        BY <3>1, ShapedInOrder
      <4>2. \A i, j \in Respond!Is(onWire, "blank") : i = j
        BY <3>1, ShapedInOrder
      <4> QED BY <4>1, <4>2, OnlyOne
    <3> QED BY <3>1, <3>2, ShapedInOrder DEF Respond!InOrder
  <2> QED BY <1>1, <2>1 DEF Respond!InOrder
<1>3. Respond!KeptOnlyIfDelimited /\ Respond!CloseIsKept
  BY <1>1 DEF Respond!KeptOnlyIfDelimited, Respond!CloseIsKept
<1>4. Respond!CallbackNotNested
  <2>1. \A i \in 1 .. Len(todo) : todo[i] \in Respond!RefusedOps
    BY <1>1
  <2>2. Respond!Lefts(todo) = {}
    BY <2>1 DEF Respond!Lefts, Respond!RefusedOps
  <2> QED BY <2>2, OnlyOne DEF Respond!CallbackNotNested
<1> QED BY <1>1, <1>2, <1>3, <1>4

(* Both together. *)
LEMMA ResponsesBegin == Respond!Init => Respond!ResponseInv
  BY AnswersBegin, AnsweringIs DEF Respond!ResponseInv

LEMMA ResponsesStep == ASSUME Respond!ResponseInv, [Respond!Next]_answerVars PROVE Respond!ResponseInv'
<1>1. Respond!Headed' <=> Answering'
  BY AnsweringIs, PTL
<1>2. CASE UNCHANGED answerVars
  <2>1. CASE Answering
    BY <1>1, <1>2, <2>1, AnswersStay DEF Respond!ResponseInv
  <2>2. CASE Respond!Refused
    BY <1>2, <2>2 DEF answerVars, Respond!ResponseInv, Respond!Refused, Respond!TypeOK, Respond!KeepsAlive,
       Respond!Headless, Respond!BodyLast
  <2> QED BY <2>1, <2>2, AnsweringIs DEF Respond!ResponseInv
<1>3. CASE Respond!Next /\ Answering
  <2>1. CASE \E x \in Replies[keepAlive] : ~Respond!Taken(x) /\ Respond!Request(x)
    BY <1>3, <2>1, RefusedBegins DEF Respond!ResponseInv
  <2>2. CASE \A x \in Replies[keepAlive] : Respond!Request(x) => Respond!Taken(x)
    BY <1>1, <1>3, <2>2, AnswersStep DEF Respond!ResponseInv
  <2> QED BY <2>1, <2>2
<1>4. CASE Respond!Next /\ Respond!Refused
  BY <1>4, RefusedStep DEF Respond!ResponseInv
<1> QED BY <1>2, <1>3, <1>4, AnsweringIs DEF Respond!ResponseInv

LEMMA ResponsesDelimit ==
  Respond!ResponseInv =>
    /\ Respond!TypeOK /\ Respond!InOrder /\ Respond!KeptOnlyIfDelimited /\ Respond!CloseIsKept
    /\ Respond!CallbackNotNested
  BY AnsweringIs, AnsweringDelimits, RefusedDelimits DEF Respond!ResponseInv

===============================================================================
