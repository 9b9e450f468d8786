----------------------------- MODULE LogIterator -----------------------------
(***************************************************************************)
(* SignalServiceSource.Fetch of internal/ready/wait.go and the iterator of *)
(* the signal service binding that it reads the CheckpointSaved logs from. *)
(*                                                                         *)
(* The node answers eth_getLogs with a list.  A goroutine of go-ethereum   *)
(* (bind.BoundContract.FilterLogs and event.NewSubscription) feeds the     *)
(* list into a channel and closes the error channel of the subscription    *)
(* when it has done so; Next selects on the two channels.  Fetch must not  *)
(* take the end of the feeder for the end of the logs, and must not leave  *)
(* the feeder behind.                                                      *)
(***************************************************************************)
EXTENDS Naturals

CONSTANTS
    MaxLogs,  \* bound of the model: the longest answer of the node
    Capacity  \* of the channel, 128 in go-ethereum

ASSUME LogIteratorAssumption ==
    /\ MaxLogs \in Nat
    /\ Capacity \in Nat \ {0}

VARIABLES
    total,     \* the number of logs in the node's answer
    bad,       \* the first of them that does not unpack, 0 if all do
    feeder,    \* the goroutine: "none", "running" or "ended"
    sent,      \* the number of logs it has put into the channel
    quit,      \* whether it was told to stop
    fetch,     \* where Fetch is
    received,  \* the number of logs Next has taken from the channel
    done,      \* it.done
    fail,      \* it.fail # nil
    out,       \* the number of events appended to out
    answer     \* what Fetch returned: "none", "nil", "error" or "out"

feederVars == <<total, bad, feeder, sent>>
iterVars == <<received, done, fail, out>>
iteratorVars == <<feederVars, quit, fetch, iterVars, answer>>

Buffered == sent - received

IteratorTypeOK ==
    /\ total \in 0..MaxLogs
    /\ bad \in 0..total
    /\ feeder \in {"none", "running", "ended"}
    /\ sent \in 0..total
    /\ quit \in BOOLEAN
    /\ fetch \in {"filter", "next", "close", "unsubscribe", "returned"}
    /\ received \in 0..sent
    /\ Buffered <= Capacity
    /\ done \in BOOLEAN
    /\ fail \in BOOLEAN
    /\ out \in 0..received
    /\ answer \in {"none", "nil", "error", "out"}

IteratorInit ==
    /\ total \in 0..MaxLogs
    /\ bad \in 0..total
    /\ feeder = "none"
    /\ sent = 0
    /\ quit = FALSE
    /\ fetch = "filter"
    /\ received = 0
    /\ done = FALSE
    /\ fail = FALSE
    /\ out = 0
    /\ answer = "none"
-----------------------------------------------------------------------------
(* The range is empty, and nothing is asked.                               *)
EmptyRange ==
    /\ fetch = "filter"
    /\ total = 0
    /\ fetch' = "returned"
    /\ answer' = "nil"
    /\ UNCHANGED <<feederVars, quit, iterVars>>

FilterFails ==
    /\ fetch = "filter"
    /\ fetch' = "returned"
    /\ answer' = "error"
    /\ UNCHANGED <<feederVars, quit, iterVars>>

(* FilterCheckpointSaved has the answer of the node, and the feeder runs.  *)
Filter ==
    /\ fetch = "filter"
    /\ feeder' = "running"
    /\ fetch' = "next"
    /\ UNCHANGED <<total, bad, sent, quit, iterVars, answer>>

Feed ==
    /\ feeder = "running"
    /\ sent < total
    /\ Buffered < Capacity
    /\ sent' = sent + 1
    /\ UNCHANGED <<total, bad, feeder, quit, fetch, iterVars, answer>>

(* The feeder closes the error channel when the list is at its end, or     *)
(* when it is told to stop.                                                *)
FeederEnds ==
    /\ feeder = "running"
    /\ sent = total \/ quit
    /\ feeder' = "ended"
    /\ UNCHANGED <<total, bad, sent, quit, fetch, iterVars, answer>>

(* Mutant: the feeder closes the channel, and Next takes what a closed     *)
(* channel gives for a log.                                                *)
NextLog_ReadsClosed ==
    /\ fetch = "next"
    /\ Buffered > 0 \/ feeder = "ended"
    /\ received' = received + 1
    /\ out' = out + 1
    /\ UNCHANGED <<feederVars, quit, done, fail, fetch, answer>>

(* The case of Next's select that takes a log, and what Fetch does with    *)
(* the event.  A log that does not unpack ends the loop.                   *)
NextLog ==
    /\ fetch = "next"
    /\ Buffered > 0
    /\ received' = received + 1
    /\ \/ /\ received' = bad
          /\ fail' = TRUE
          /\ fetch' = "close"
          /\ answer' = "error"
          /\ UNCHANGED out
       \/ /\ received' # bad
          /\ out' = out + 1
          /\ UNCHANGED <<fail, fetch, answer>>
    /\ UNCHANGED <<feederVars, quit, done>>

(* Mutant: the end of the feeder is the end of the logs.                   *)
NextSubEnded_IsTheEnd ==
    /\ fetch = "next" /\ ~done
    /\ feeder = "ended"
    /\ done' = TRUE
    /\ fetch' = "close"
    /\ answer' = "out"
    /\ UNCHANGED <<feederVars, quit, received, fail, out>>

(* The other case: the error channel is closed.  Next is called again, and *)
(* from now on takes what is in the channel without waiting.               *)
NextSubEnded ==
    /\ fetch = "next" /\ ~done
    /\ feeder = "ended"
    /\ done' = TRUE
    /\ UNCHANGED <<feederVars, quit, fetch, received, fail, out, answer>>

(* Nothing is left: Next returns false, and Fetch the events.              *)
NextDrained ==
    /\ fetch = "next" /\ done
    /\ Buffered = 0
    /\ fetch' = "close"
    /\ answer' = "out"
    /\ UNCHANGED <<feederVars, quit, iterVars>>

(* Mutant: Fetch does not close the iterator.                              *)
Close_Forgotten ==
    /\ fetch = "close"
    /\ fetch' = "returned"
    /\ UNCHANGED <<feederVars, quit, iterVars, answer>>

(* Mutant: Close waits for the feeder without telling it to stop.          *)
Close_OnlyWaits ==
    /\ fetch = "close"
    /\ fetch' = "unsubscribe"
    /\ UNCHANGED <<feederVars, quit, iterVars, answer>>

(* The deferred iter.Close: Unsubscribe tells the feeder to stop.          *)
Close ==
    /\ fetch = "close"
    /\ quit' = (feeder = "running")
    /\ fetch' = "unsubscribe"
    /\ UNCHANGED <<feederVars, iterVars, answer>>

(* It waits until the error channel is closed.                             *)
Unsubscribed ==
    /\ fetch = "unsubscribe"
    /\ feeder = "ended"
    /\ fetch' = "returned"
    /\ UNCHANGED <<feederVars, quit, iterVars, answer>>

FetchStep ==
    \/ EmptyRange \/ FilterFails \/ Filter
    \/ NextLog \/ NextSubEnded \/ NextDrained
    \/ Close \/ Unsubscribed

FeederStep == Feed \/ FeederEnds

IteratorSpec == IteratorInit /\ [][FetchStep \/ FeederStep]_iteratorVars

(* Two goroutines, both scheduled.                                         *)
IteratorFairSpec ==
    /\ IteratorSpec
    /\ WF_iteratorVars(FetchStep)
    /\ WF_iteratorVars(FeederStep)
-----------------------------------------------------------------------------
(* An answer without an error holds every log of the node's answer: none   *)
(* that was still in the channel when the feeder ended is lost             *)
(* (SignalService.go:1091), and one that does not unpack is an error, not  *)
(* a gap.  The prober never asks for these blocks again.                   *)
FetchIsWhole == answer \in {"nil", "out"} => out = total /\ bad = 0

(* Fetch leaves no goroutine behind, whichever way it returns              *)
(* (wait.go:232).                                                          *)
NoFeederLeft == fetch = "returned" => feeder # "running"

(* Fetch and the feeder never wait for each other for good: neither on a   *)
(* full channel that nobody reads any more, nor in Unsubscribe.            *)
FetchReturns == <>(fetch = "returned")
=============================================================================
