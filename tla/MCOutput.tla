------------------------------- MODULE MCOutput -------------------------------
(***************************************************************************)
(* What a connection sends: writes, with and without a quota, and the      *)
(* responses that are written.  MCConnection puts the other components     *)
(* beside them; OutputProofs proves about these alone.                     *)
(***************************************************************************)
EXTENDS Integers, Sequences, SequencesExt, FiniteSets

CONSTANTS
  Quota, SomeJobs, MaxSome, LongJobs, MaxLong,                      \* of ThrottledWrite
  Replies, Callbacks, MaxHeaders                                    \* of ResponseWriter

VARIABLES
  \* ThrottledWrite
  throttle, counted, lastBytes, open, stop, writePc, asked, job, total, allowed, nwritten, result,
  out, wire, sentNow, jobs,
  \* ResponseWriter
  keepAlive, onError, state, status, headers, mustClose, inError, todo, onWire, broken, sendResult,
  phase

writeVars  == <<throttle, counted, lastBytes, open, stop, writePc, asked, job, total, allowed, nwritten,
                result, out, wire, sentNow, jobs>>
answerVars == <<keepAlive, onError, state, status, headers, mustClose, inError, todo, onWire, broken,
                sendResult, phase>>

Write == INSTANCE ThrottledWrite WITH
  Throttles <- {0, Quota}, Jobs <- SomeJobs, MaxJobs <- MaxSome, pc <- writePc
Rate == INSTANCE ThrottledWrite WITH
  Throttles <- {Quota}, Jobs <- LongJobs, MaxJobs <- MaxLong, pc <- writePc

ASSUME QuotaAssumption == Quota > 0 /\ Write!ConstantsAreProper /\ Rate!ConstantsAreProper

Respond == INSTANCE ResponseWriter WITH MayStall <- FALSE, callback <- onError, wire <- onWire

ASSUME AnswersAssumption == Respond!ConstantsAreProper

===============================================================================
