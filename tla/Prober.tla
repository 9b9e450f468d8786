-------------------------------- MODULE Prober --------------------------------
(***************************************************************************)
(* internal/ready/wait.go: the readiness algorithm for a single message.   *)
(* A Prober remembers which destination blocks it has scanned and the best *)
(* checkpoint it has seen, and each Probe scans only the new blocks.       *)
(*                                                                         *)
(* Probe makes four calls over the network, and the chain moves between    *)
(* any two of them, so each call is an action of its own.  The code        *)
(* between two calls only touches the prober and belongs to the call       *)
(* before it.                                                              *)
(***************************************************************************)
EXTENDS DestChain

CONSTANTS
    SourceMessageBlock,  \* the source block of the MessageSent event
    CheckpointConfs,     \* --checkpoint-confs
    Word                 \* 2^64: block numbers are uint64

ASSUME ProberAssumption ==
    /\ SourceMessageBlock \in Nat \ {0}  \* no message is sent in the genesis block
    /\ CheckpointConfs \in Nat
    /\ Word \in Nat
    /\ CheckpointConfs < Word
    /\ MaxHead < Word

VARIABLES
    pc,              \* the call Probe makes next, or "failed" after an error
    head,            \* Probe's local: the destination head it read
    nextLogBlock,    \* the next destination log block to scan from
    bestCheckpoint,  \* the highest qualifying checkpoint seen, 0 for none
    result           \* what the last completed Probe returned

probeVars == <<pc, head, nextLogBlock, bestCheckpoint, result>>
vars == <<destHead, highHead, saved, pc, head, nextLogBlock, bestCheckpoint, result>>

ProbeSteps == {"BlockNumber", "Fetch", "BuildProof", "CheckMessage"}
Result == [Ready : BOOLEAN, CheckpointBlock : SourceBlocks]

ProberTypeOK ==
    /\ pc \in ProbeSteps \cup {"failed"}
    /\ head \in DestBlocks
    /\ nextLogBlock \in 0..(MaxHead + 1)
    /\ bestCheckpoint \in SourceBlocks
    /\ result \in Result

TypeOK == ChainTypeOK /\ ProberTypeOK

(* NewProber.  pc = "BlockNumber" is a Probe about to start: the loops that *)
(* call Probe start the next one whenever the last returned no error.       *)
NewProber ==
    /\ pc = "BlockNumber"
    /\ head = 0
    /\ nextLogBlock = 0
    /\ bestCheckpoint = 0
    /\ result = [Ready |-> FALSE, CheckpointBlock |-> 0]

Init == ChainInit /\ NewProber

(* p.DestHead.BlockNumber.                                                 *)
BlockNumber ==
    /\ pc = "BlockNumber"
    /\ head' \in Views(HeadLag)
    /\ pc' = "Fetch"
    /\ UNCHANGED <<nextLogBlock, bestCheckpoint, result>>

(* Mutant: the range is taken to exclude its first block.                  *)
Fetched_ExcludesFirst(from, to, v) == FilterCheckpointSaved(from + 1, to, v)

(* SignalServiceSource.Fetch: with toLog < fromLog the range is empty, and *)
(* so is the answer.                                                       *)
Fetched(from, to, v) == FilterCheckpointSaved(from, to, v)

(* Mutant: the log's own block counts as a confirmation.                   *)
Confirmed_OneShort(e, h) ==
    CheckpointConfs = 0 \/ (e.LogBlock + CheckpointConfs) % Word <= h + 1

(* The confirmation test, in uint64 arithmetic.                            *)
Confirmed(e, h) ==
    \/ CheckpointConfs = 0
    \/ (e.LogBlock + CheckpointConfs) % Word <= h

Qualifies(e) == e.CheckpointBlock >= SourceMessageBlock

Accepted(events, h) ==
    {e \in events : e.LogBlock <= h /\ Confirmed(e, h) /\ Qualifies(e)}

(* Mutant: a scan that accepts a log forgets what earlier scans found.     *)
ScanFrom_Forgets(best, events, h) ==
    LET found == {e.CheckpointBlock : e \in Accepted(events, h)}
        candidates == IF found = {} THEN {best} ELSE found
    IN  {c \in candidates : \A d \in candidates : d <= c}

(* Mutant: any accepted log replaces the best.                             *)
ScanFrom_TakesLast(best, events, h) ==
    LET found == {e.CheckpointBlock : e \in Accepted(events, h)}
    IN  IF found = {} THEN {best} ELSE found

(* best after the scan of events: the highest accepted one, unless the     *)
(* highest so far is as high.                                              *)
ScanFrom(best, events, h) ==
    LET candidates == {best} \cup {e.CheckpointBlock : e \in Accepted(events, h)}
    IN  {c \in candidates : \A d \in candidates : d <= c}

(* Mutant: the scan resumes one block late.                                *)
Fetch_ResumesLate ==
    /\ pc = "Fetch"
    /\ \E v \in Views(LogLag) :
         bestCheckpoint' \in
           ScanFrom(bestCheckpoint, Fetched(nextLogBlock, head, v), head)
    /\ nextLogBlock' = head + 2
    /\ IF bestCheckpoint' = 0
       THEN pc' = "BlockNumber" /\ result' = [Ready |-> FALSE, CheckpointBlock |-> 0]
       ELSE pc' = "BuildProof" /\ UNCHANGED result
    /\ UNCHANGED head

(* p.Source.Fetch, the scan of what it returned, and the early return when *)
(* no checkpoint qualifies yet.                                            *)
Fetch ==
    /\ pc = "Fetch"
    /\ \E v \in Views(LogLag) :
         bestCheckpoint' \in
           ScanFrom(bestCheckpoint, Fetched(nextLogBlock, head, v), head)
    /\ nextLogBlock' = head + 1
    /\ \/ /\ bestCheckpoint' = 0
          /\ result' = [Ready |-> FALSE, CheckpointBlock |-> 0]
          /\ pc' = "BlockNumber"
       \/ /\ bestCheckpoint' # 0
          /\ pc' = "BuildProof"
          /\ UNCHANGED result
    /\ UNCHANGED head

(* p.BuildProof reads the source chain only.                               *)
BuildProof ==
    /\ pc = "BuildProof"
    /\ pc' = "CheckMessage"
    /\ UNCHANGED <<head, nextLogBlock, bestCheckpoint, result>>

(* p.CheckMessage, and the result of the Probe.                            *)
CheckMessage ==
    /\ pc = "CheckMessage"
    /\ \E v \in Views(HeadLag) :
         result' = [Ready |-> IsMessageReceived(SourceMessageBlock, bestCheckpoint, v),
                    CheckpointBlock |-> bestCheckpoint]
    /\ pc' = "BlockNumber"
    /\ UNCHANGED <<head, nextLogBlock, bestCheckpoint>>

(* Any of the four calls may fail: Probe returns the error, and so do the  *)
(* loops around it.                                                        *)
CallFails ==
    /\ pc \in ProbeSteps
    /\ pc' = "failed"
    /\ UNCHANGED <<head, nextLogBlock, bestCheckpoint, result>>

Probe == BlockNumber \/ Fetch \/ BuildProof \/ CheckMessage

Next ==
    \/ (Probe \/ CallFails) /\ UNCHANGED chainVars
    \/ ChainNext /\ UNCHANGED probeVars

Spec == Init /\ [][Next]_vars

(* A call that the newest node of the pool answers.                        *)
AskNewest ==
    \/ BlockNumber /\ head' = destHead
    \/ /\ CheckMessage
       /\ result'.Ready = IsMessageReceived(SourceMessageBlock, bestCheckpoint, destHead)

(* The loops poll until they are told to stop, a live endpoint answers or  *)
(* fails (a call is never pending forever), and whoever asks again and     *)
(* again for the head or the message is answered by an up-to-date node in  *)
(* the end.                                                                *)
FairSpec ==
    /\ Spec
    /\ WF_vars(Probe /\ UNCHANGED chainVars)
    /\ SF_vars(BlockNumber /\ AskNewest /\ UNCHANGED chainVars)
    /\ SF_vars(CheckMessage /\ AskNewest /\ UNCHANGED chainVars)
-----------------------------------------------------------------------------
(* --checkpoint-confs counts the blocks a log must be below the head.      *)
HasConfs(e, h) == e.LogBlock + CheckpointConfs <= h

(* A log of the canonical chain saves checkpoint c with its confirmations. *)
BackedWithConfs(c) ==
    \E e \in saved :
      e.CheckpointBlock = c /\ Qualifies(e) /\ HasConfs(e, highHead)

(* The checkpoint the prober settles on has the required confirmations: it *)
(* is backed by a log of the canonical chain that lies CheckpointConfs     *)
(* blocks deep.  Reorgs must not be able to take the log away between the  *)
(* scan and the claim, nor may the arithmetic of the test (wait.go:127)    *)
(* let an unconfirmed log through.                                         *)
BestIsConfirmed == bestCheckpoint # 0 => BackedWithConfs(bestCheckpoint)

(* bestCheckpoint is "the highest qualifying checkpoint block seen so far" *)
(* (wait.go:57): no log with the required confirmations at the head of the *)
(* last scan is higher, although no Probe scans a block twice.             *)
BestIsHighest ==
    \A e \in saved :
      Qualifies(e) /\ nextLogBlock > 0 /\ HasConfs(e, nextLogBlock - 1)
        => e.CheckpointBlock <= bestCheckpoint

(* Ready is a statement about the chain: a log that qualifies backs it.    *)
ReadyIsBacked ==
    result.Ready =>
      \E e \in saved : e.CheckpointBlock = result.CheckpointBlock /\ Qualifies(e)

(* The checkpoint of successive proofs never falls back to an older one,   *)
(* and once a Probe has found one, the next never finds none.              *)
BestNeverFalls == [][bestCheckpoint' >= bestCheckpoint]_vars

(* A log that qualifies and has its confirmations is seen in the end: the  *)
(* prober reports the message ready unless a call fails.                   *)
ConfirmedLeadsToReady ==
    (\E e \in saved : Qualifies(e) /\ HasConfs(e, destHead))
      ~> (result.Ready \/ pc = "failed")
-----------------------------------------------------------------------------
(* The oracle that looks at the whole chain afresh is what the incremental *)
(* prober implements: with no confirmations required, no reorgs and a log  *)
(* index that keeps up, each scan answers as a scan from block 0 would,    *)
(* even when the endpoint reports a head below the last one.               *)
Oracle == INSTANCE ReadinessOracle WITH answer <- bestCheckpoint

ProberImplementsOracle == Oracle!OracleSpec
=============================================================================
