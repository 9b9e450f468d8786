-------------------------- MODULE LogIteratorProofs --------------------------
(***************************************************************************)
(* The safety of LogIterator, for answers of any length and channels of    *)
(* any capacity.                                                           *)
(***************************************************************************)
EXTENDS LogIterator, TLAPS

(* Until Fetch has asked there is no feeder; while it waits for the        *)
(* feeder there is one.                                                    *)
FeederIsAsked ==
    /\ fetch = "filter" => feeder = "none" /\ received = 0 /\ ~done /\ answer = "none"
    /\ fetch \in {"next", "close", "unsubscribe"} => feeder # "none"

(* Only Close tells the feeder to stop; a feeder that was not told has     *)
(* sent all it has, and Next notices its end no sooner than it comes.      *)
EndIsTheEnd ==
    /\ quit => fetch \in {"unsubscribe", "returned"}
    /\ feeder = "ended" => sent = total \/ quit
    /\ done => feeder = "ended"

(* Close has told a feeder that still runs to stop.                        *)
IsTold == fetch = "unsubscribe" => quit \/ feeder = "ended"

(* What was received so far has become an event, and unpacks.              *)
NothingSkipped ==
    fetch \in {"filter", "next"} =>
      /\ answer = "none"
      /\ out = received
      /\ bad = 0 \/ bad > received

IteratorInv ==
    /\ IteratorTypeOK
    /\ FeederIsAsked
    /\ EndIsTheEnd
    /\ IsTold
    /\ NothingSkipped
    /\ FetchIsWhole
    /\ NoFeederLeft

LEMMA InvHolds == IteratorInit => IteratorInv
<1> SUFFICES ASSUME IteratorInit PROVE IteratorInv
  OBVIOUS
<1>1. total \in Nat /\ bad \in 0..total
  BY LogIteratorAssumption DEF IteratorInit
<1>2. sent \in 0..total /\ received \in 0..sent /\ out \in 0..received /\ Buffered <= Capacity
  BY <1>1, LogIteratorAssumption DEF IteratorInit, Buffered
<1>3. IteratorTypeOK
  BY <1>2 DEF IteratorInit, IteratorTypeOK
<1>4. NothingSkipped
  BY <1>1 DEF IteratorInit, NothingSkipped
<1> QED
  BY <1>3, <1>4 DEF IteratorInit, IteratorInv, FeederIsAsked, EndIsTheEnd, IsTold, FetchIsWhole,
     NoFeederLeft

LEMMA InvStays ==
  ASSUME IteratorInv, [FetchStep \/ FeederStep]_iteratorVars
  PROVE  IteratorInv'
<1> USE LogIteratorAssumption
    DEF IteratorInv, IteratorTypeOK, Buffered, FeederIsAsked, EndIsTheEnd, IsTold, NothingSkipped,
        FetchIsWhole, NoFeederLeft, feederVars, iterVars
<1>1. CASE EmptyRange
  BY <1>1 DEF EmptyRange
<1>2. CASE FilterFails
  BY <1>2 DEF FilterFails
<1>3. CASE Filter
  BY <1>3 DEF Filter
<1>4. CASE NextLog
  <2>1. CASE received' = bad
    <3>1. fetch = "next" /\ received' = received + 1 /\ received < sent /\ out' = out
      BY <1>4, <2>1 DEF NextLog
    <3>2. UNCHANGED <<total, bad, feeder, sent, quit, done>>
      BY <1>4 DEF NextLog
    <3>3. fail' = TRUE /\ fetch' = "close" /\ answer' = "error"
      BY <1>4, <2>1 DEF NextLog
    <3>4. IteratorTypeOK'
      BY <3>1, <3>2, <3>3
    <3> QED  BY <3>1, <3>2, <3>3, <3>4
  <2>2. CASE received' # bad
    BY <1>4, <2>2 DEF NextLog
  <2> QED  BY <2>1, <2>2
<1>5. CASE NextSubEnded
  BY <1>5 DEF NextSubEnded
<1>6. CASE NextDrained
  \* All was sent, for nobody told the feeder to stop, and all was received.
  <2>1. sent = total /\ received = sent
    BY <1>6 DEF NextDrained
  <2> QED  BY <1>6, <2>1 DEF NextDrained
<1>7. CASE Close
  BY <1>7 DEF Close
<1>8. CASE Unsubscribed
  BY <1>8 DEF Unsubscribed
<1>9. CASE Feed
  BY <1>9 DEF Feed
<1>10. CASE FeederEnds
  BY <1>10 DEF FeederEnds
<1>11. CASE UNCHANGED iteratorVars
  BY <1>11 DEF iteratorVars
<1> QED
  BY <1>1, <1>2, <1>3, <1>4, <1>5, <1>6, <1>7, <1>8, <1>9, <1>10, <1>11
  DEF FetchStep, FeederStep

LEMMA AlwaysInv == IteratorSpec => []IteratorInv
  BY InvHolds, InvStays, PTL DEF IteratorSpec

(* Fetch and the feeder keep their types, and the channel its capacity     *)
(* (SignalService.go:1086-1135).                                           *)
THEOREM IteratorTypeCorrect == IteratorSpec => []IteratorTypeOK
<1>1. IteratorInv => IteratorTypeOK
  BY DEF IteratorInv
<1> QED  BY <1>1, AlwaysInv, PTL

(* However long the answer and however the two goroutines interleave, an   *)
(* answer without an error holds every log (SignalService.go:1091).        *)
THEOREM FetchAlwaysWhole == IteratorSpec => []FetchIsWhole
<1>1. IteratorInv => FetchIsWhole
  BY DEF IteratorInv
<1> QED  BY <1>1, AlwaysInv, PTL

(* Whichever way Fetch returns, the feeder has ended or was never started  *)
(* (wait.go:232).                                                          *)
THEOREM NeverAFeederLeft == IteratorSpec => []NoFeederLeft
<1>1. IteratorInv => NoFeederLeft
  BY DEF IteratorInv
<1> QED  BY <1>1, AlwaysInv, PTL

-----------------------------------------------------------------------------
(* What FetchReturns rests on besides the scheduler, as two theorems: one  *)
(* of the two can always go on, and the steps run out.                     *)

(* Next waits in its select while no log is buffered and the error channel *)
(* is open, and Unsubscribe waits for the error channel.                   *)
FetchWaits ==
    /\ feeder # "ended"
    /\ \/ fetch = "next" /\ ~done /\ Buffered = 0
       \/ fetch = "unsubscribe"

(* The feeder waits with a log for a full channel, until it is told to     *)
(* stop.                                                                   *)
FeederWaits == feeder = "running" /\ sent < total /\ Buffered = Capacity /\ ~quit

(* Whenever Fetch waits there is a feeder that can go on: the two never    *)
(* wait for each other, neither in Next (SignalService.go:1108) nor, with  *)
(* the channel full of logs that nobody reads any more, in the deferred    *)
(* Close (wait.go:232).                                                    *)
NeverBothWait == FetchWaits => feeder = "running" /\ ~FeederWaits

(* Whenever Fetch waits, in Next or in Close, the feeder runs and can go   *)
(* on, whatever the capacity of the channel (SignalService.go:1108,        *)
(* wait.go:232).                                                           *)
THEOREM OneCanGoOn == IteratorSpec => []NeverBothWait
<1>1. IteratorInv => NeverBothWait
  <2> SUFFICES ASSUME IteratorInv, FetchWaits
               PROVE  feeder = "running" /\ ~FeederWaits
    BY DEF NeverBothWait
  <2>1. feeder = "running"
    BY DEF IteratorInv, IteratorTypeOK, FeederIsAsked, FetchWaits
  <2>2. CASE fetch = "next" /\ Buffered = 0
    \* A channel that is empty is not full.
    BY <2>1, <2>2, LogIteratorAssumption DEF FeederWaits
  <2>3. CASE fetch = "unsubscribe"
    \* The feeder was told to stop.
    BY <2>1, <2>3 DEF IteratorInv, IsTold, FeederWaits
  <2> QED  BY <2>1, <2>2, <2>3 DEF FetchWaits
<1> QED  BY <1>1, AlwaysInv, PTL

FeederRank == [none |-> 2, running |-> 1, ended |-> 0][feeder]

FetchRank ==
    [filter |-> 5, next |-> IF done THEN 3 ELSE 4, close |-> 2,
     unsubscribe |-> 1, returned |-> 0][fetch]

(* A bound of the steps that Fetch and the feeder have left.               *)
StepsLeft == (total - sent) + (total - received) + FeederRank + FetchRank

(* Every step of the loop of Fetch (wait.go:234) and of the feeder uses up *)
(* one of a number of steps that the length of the answer bounds: Next     *)
(* does not spin on a channel that is closed or empty.                     *)
StepsRunOut == [][StepsLeft' \in 0..(StepsLeft - 1)]_iteratorVars

LEMMA EachStepCounts ==
  ASSUME IteratorInv, IteratorInv', FetchStep \/ FeederStep
  PROVE  StepsLeft' \in 0..(StepsLeft - 1)
<1> USE DEF StepsLeft, FeederRank, FetchRank, feederVars, iterVars
<1>1. /\ total \in Nat /\ sent \in 0..total /\ received \in 0..sent /\ done \in BOOLEAN
      /\ total' \in Nat /\ sent' \in 0..total' /\ received' \in 0..sent'
  BY LogIteratorAssumption DEF IteratorInv, IteratorTypeOK
<1>2. CASE EmptyRange
  BY <1>1, <1>2 DEF EmptyRange, IteratorInv, FeederIsAsked
<1>3. CASE FilterFails
  BY <1>1, <1>3 DEF FilterFails, IteratorInv, FeederIsAsked
<1>4. CASE Filter
  BY <1>1, <1>4 DEF Filter, IteratorInv, FeederIsAsked
<1>5. CASE NextLog
  BY <1>1, <1>5 DEF NextLog, IteratorInv, FeederIsAsked, EndIsTheEnd, IteratorTypeOK
<1>6. CASE NextSubEnded
  BY <1>1, <1>6 DEF NextSubEnded
<1>7. CASE NextDrained
  BY <1>1, <1>7 DEF NextDrained, IteratorInv, IteratorTypeOK
<1>8. CASE Close
  BY <1>1, <1>8 DEF Close, IteratorInv, IteratorTypeOK
<1>9. CASE Unsubscribed
  BY <1>1, <1>9 DEF Unsubscribed
<1>10. CASE Feed
  BY <1>1, <1>10 DEF Feed, IteratorInv, IteratorTypeOK
<1>11. CASE FeederEnds
  BY <1>1, <1>11 DEF FeederEnds, IteratorInv, IteratorTypeOK
<1> QED
  BY <1>2, <1>3, <1>4, <1>5, <1>6, <1>7, <1>8, <1>9, <1>10, <1>11 DEF FetchStep, FeederStep

(* However the two goroutines interleave, the steps they take are bounded  *)
(* by the length of the answer (wait.go:234).                              *)
THEOREM StepsAlwaysRunOut == IteratorSpec => StepsRunOut
<1>1. ASSUME IteratorInv, IteratorInv', [FetchStep \/ FeederStep]_iteratorVars
      PROVE  [StepsLeft' \in 0..(StepsLeft - 1)]_iteratorVars
  BY <1>1, EachStepCounts
<1> QED  BY <1>1, AlwaysInv, PTL DEF IteratorSpec, StepsRunOut
=============================================================================
