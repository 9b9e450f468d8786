---------------------------- MODULE ClaimPipeline ----------------------------
(***************************************************************************)
(* The claim-eth, claim-erc20, claim-erc721 and claim-erc1155 commands:    *)
(* internal/cmd/claim_*.go and shared_flow.go.  One invocation loads its   *)
(* runtime, sends the message on the source chain, and then probes and     *)
(* claims in a loop until the claim is mined, an error ends it or the time *)
(* is up.                                                                  *)
(*                                                                         *)
(* The module extends Prober, which the loop is built around, and composes *)
(* it with SendProcess and ClaimProcess.  The three share one context,     *)
(* whose deadline runs from the start of the command (claim_eth.go:35);    *)
(* the loop has a deadline of its own, which runs from the end of the send *)
(* (shared_flow.go:87).                                                    *)
(***************************************************************************)
EXTENDS Prober

CONSTANTS
    MaxClaimTxs,     \* bound of the model: claim transactions submitted
    Timeout,         \* --timeout
    MaxClock,        \* bound of the model: the clock stops here
    MaxMessageBlock  \* bound of the model: the last block a reorg moves the message to

ASSUME PipelineAssumption ==
    /\ MaxClaimTxs \in Nat \ {0}
    /\ Timeout \in Nat
    /\ MaxClock \in Nat
    /\ 2 * Timeout < MaxClock  \* both deadlines pass
    /\ MaxMessageBlock \in Nat
    /\ SourceMessageBlock <= MaxMessageBlock

VARIABLES
    messageBlock,  \* the source block that holds the message now
    status, step, outcome, claimTx,                     \* ClaimProcess
    request, sendStep, sendOutcome, sendTx, hasEvent,   \* SendProcess
    clock,         \* the time since the command started
    stage,         \* where the command is
    loopDeadline,  \* the deadline of autoClaimWithProber
    err,           \* the error that ended the command, "none" if none did
    exit,          \* its exit code
    payload        \* the final JSON object: "none", or what its "claimed" says

attemptVars == <<step, outcome>>
sendVars == <<request, sendStep, sendOutcome>>
endVars == <<err, exit, payload>>
pipelineVars ==
    <<chainVars, messageBlock, probeVars, status, attemptVars, claimTx, sendVars, sendTx,
      hasEvent, clock, stage, loopDeadline, endVars>>

(* context.WithTimeout(cmd.Context(), timeout), before anything else.      *)
CtxDone == clock >= Timeout

Received ==
    /\ result.CheckpointBlock > 0
    /\ IsMessageReceived(messageBlock, result.CheckpointBlock, destHead)

Provable ==
    \E c \in SourceBlocks : IsMessageReceived(messageBlock, c, destHead)

C == INSTANCE ClaimProcess WITH received <- Received, provable <- Provable, ctxDone <- CtxDone
S == INSTANCE SendProcess WITH sendCtxDone <- CtxDone

Stages == {"setup", "send", "probe", "decide", "claim", "checkDeadline", "sleep", "exited"}

OK == 0
ConfigError == 2
Validation == 3
TimeoutCode == 4
TxReverted == 5
RPCOrProof == 7
Unexpected == 10
Running == 99  \* no exit code yet

Errors == {"none", "config", "usage", "write", "ErrTimeout"} \cup S!SendErrors \cup C!ProcessErrors

PipelineTypeOK ==
    /\ TypeOK
    /\ messageBlock \in SourceMessageBlock..MaxMessageBlock
    /\ C!ClaimTypeOK
    /\ S!SendTypeOK
    /\ clock \in 0..MaxClock
    /\ stage \in Stages
    /\ loopDeadline \in 0..(MaxClock + Timeout)
    /\ err \in Errors
    /\ exit \in {OK, ConfigError, Validation, TimeoutCode, RPCOrProof, Unexpected, Running}
    /\ payload \in {"none", "claimed", "unclaimed"}

PipelineInit ==
    /\ Init
    /\ messageBlock = SourceMessageBlock
    /\ status = "NEW"
    /\ step = "returned"
    /\ outcome = "none"
    /\ claimTx = [i \in 1..MaxClaimTxs |-> "unsent"]
    /\ S!SendInit
    /\ clock = 0
    /\ stage = "setup"
    /\ loopDeadline = 0
    /\ err = "none"
    /\ exit = Running
    /\ payload = "none"

Exit(code, e, p) ==
    /\ stage' = "exited"
    /\ exit' = code
    /\ err' = e
    /\ payload' = p

CallError == IF CtxDone THEN "DeadlineExceeded" ELSE "rpc"
-----------------------------------------------------------------------------
(* Cobra's check of the arguments, which gives a plain error, loadRuntime, *)
(* LoadPrivateKey, the flags, ResolveETHGasLimit and the destination chain *)
(* id.  A call that fails in loadRuntime counts as a configuration error.  *)
SetupFails ==
    /\ stage = "setup"
    /\ \/ \E e \in {"config", CallError} : Exit(ConfigError, e, "none")
       \/ \E code \in {Validation, Unexpected} : Exit(code, "usage", "none")
       \/ Exit(RPCOrProof, CallError, "none")
    /\ UNCHANGED <<probeVars, attemptVars, claimTx, sendVars, sendTx, loopDeadline>>

Setup ==
    /\ stage = "setup"
    /\ ~CtxDone
    /\ S!StartSend
    /\ stage' = "send"
    /\ UNCHANGED <<request, probeVars, attemptVars, claimTx, loopDeadline, endVars>>

Send ==
    /\ stage = "send"
    /\ S!SendProgress
    /\ UNCHANGED <<request, probeVars, attemptVars, claimTx, stage, loopDeadline, endVars>>

(* Mutant: the time is added to a deadline that already holds it.          *)
SendReturned_DoublesTimeout ==
    /\ stage = "send"
    /\ sendStep = "returned"
    /\ \/ /\ sendOutcome = "sent"
          /\ loopDeadline' = clock + 2 * Timeout
          /\ stage' = "probe"
          /\ UNCHANGED endVars
       \/ /\ sendOutcome # "sent"
          /\ Exit(RPCOrProof, sendOutcome, "none")
          /\ UNCHANGED loopDeadline
    /\ UNCHANGED <<probeVars, attemptVars, claimTx, sendVars, sendTx>>

(* SendETH or its like returned: the loop starts, or every error alike     *)
(* ends the command.                                                       *)
SendReturned ==
    /\ stage = "send"
    /\ sendStep = "returned"
    /\ \/ /\ sendOutcome = "sent"
          /\ loopDeadline' = clock + Timeout
          /\ stage' = "probe"
          /\ UNCHANGED endVars
       \/ /\ sendOutcome # "sent"
          /\ Exit(RPCOrProof, sendOutcome, "none")
          /\ UNCHANGED loopDeadline
    /\ UNCHANGED <<probeVars, attemptVars, claimTx, sendVars, sendTx>>

(* Mutant: the value of the storage proof is not looked at.                *)
StorageProofValue_NotChecked(c) == TRUE

(* getProof of proof.Build: the slot of the signal is set in the state of  *)
(* source block c.                                                         *)
StorageProofValue(c) == c >= messageBlock

(* prober.Probe, call by call; its result is in when the next would start. *)
(* It looks for a checkpoint of the block that the receipt named, however  *)
(* the message may have moved since; no proof is built for one of a block  *)
(* below it, and the error ends the command like any other.                *)
ProbeStep ==
    /\ stage = "probe"
    /\ ~CtxDone
    /\ Probe
    /\ pc = "BuildProof" => StorageProofValue(bestCheckpoint)
    /\ stage' = IF pc' = "BlockNumber" THEN "decide" ELSE "probe"
    /\ UNCHANGED <<attemptVars, claimTx, sendVars, sendTx, loopDeadline, endVars>>

ProbeFails ==
    /\ stage = "probe"
    /\ CallFails
    /\ Exit(RPCOrProof, CallError, "none")
    /\ UNCHANGED <<attemptVars, claimTx, sendVars, sendTx, loopDeadline>>

(* onProgress, then a claim is attempted when there is a checkpoint at     *)
(* all, whether or not Probe found the message ready.                      *)
Decide ==
    /\ stage = "decide"
    /\ \/ result.CheckpointBlock > 0 /\ stage' = "claim" /\ C!StartProcess
       \/ result.CheckpointBlock = 0 /\ stage' = "checkDeadline" /\ UNCHANGED <<attemptVars, claimTx>>
    /\ UNCHANGED <<probeVars, sendVars, sendTx, loopDeadline, endVars>>

Claim ==
    /\ stage = "claim"
    /\ C!ProcessStep
    /\ UNCHANGED <<probeVars, sendVars, sendTx, stage, loopDeadline, endVars>>

(* The success payload: the claim is done, but Emit may fail to write it,  *)
(* and its plain error has no code of its own.                             *)
EmitClaimed ==
    \/ Exit(OK, "none", "claimed")
    \/ Exit(Unexpected, "write", "none")

(* Mutant: a revert is taken to mean that the message is claimed already.  *)
ClaimReturned_RevertIsDone ==
    /\ stage = "claim"
    /\ step = "returned"
    /\ \/ outcome \in {"claimed", "ErrReverted"} /\ EmitClaimed
       \/ outcome = "ErrNotReady" /\ stage' = "checkDeadline" /\ UNCHANGED endVars
       \/ outcome \in {"rpc", "DeadlineExceeded"} /\ Exit(RPCOrProof, outcome, "none")
    /\ UNCHANGED <<probeVars, attemptVars, claimTx, sendVars, sendTx, loopDeadline>>

(* Mutant: any error of the claim is retried, not ErrNotReady alone.       *)
ClaimReturned_RetriesAll ==
    /\ stage = "claim"
    /\ step = "returned"
    /\ \/ outcome = "claimed" /\ EmitClaimed
       \/ outcome # "claimed" /\ stage' = "checkDeadline" /\ UNCHANGED endVars
    /\ UNCHANGED <<probeVars, attemptVars, claimTx, sendVars, sendTx, loopDeadline>>

(* claimFn returned: done, or not ready, or an error that ends the loop.   *)
ClaimReturned ==
    /\ stage = "claim"
    /\ step = "returned"
    /\ \/ outcome = "claimed" /\ EmitClaimed
       \/ outcome = "ErrNotReady" /\ stage' = "checkDeadline" /\ UNCHANGED endVars
       \/ outcome \notin {"claimed", "ErrNotReady"} /\ Exit(RPCOrProof, outcome, "none")
    /\ UNCHANGED <<probeVars, attemptVars, claimTx, sendVars, sendTx, loopDeadline>>

(* The error of Emit is dropped here, and the payload may be missing.      *)
CheckDeadline ==
    /\ stage = "checkDeadline"
    /\ \/ /\ clock > loopDeadline
          /\ \E p \in {"unclaimed", "none"} : Exit(TimeoutCode, "ErrTimeout", p)
       \/ clock <= loopDeadline /\ stage' = "sleep" /\ UNCHANGED endVars
    /\ UNCHANGED <<probeVars, attemptVars, claimTx, sendVars, sendTx, loopDeadline>>

(* The select: when the context is done and the poll interval is over,     *)
(* either case may be taken.                                               *)
Sleep ==
    /\ stage = "sleep"
    /\ \/ stage' = "probe" /\ UNCHANGED endVars
       \/ CtxDone /\ Exit(RPCOrProof, "DeadlineExceeded", "none")
    /\ UNCHANGED <<probeVars, attemptVars, claimTx, sendVars, sendTx, loopDeadline>>

CommandStep ==
    /\ \/ SetupFails \/ Setup \/ Send \/ SendReturned \/ ProbeStep \/ ProbeFails
       \/ Decide \/ Claim \/ ClaimReturned \/ CheckDeadline \/ Sleep
    /\ UNCHANGED <<chainVars, messageBlock, status, hasEvent, clock>>
-----------------------------------------------------------------------------
commandVars ==
    <<probeVars, attemptVars, sendVars, stage, loopDeadline, endVars>>

Tick ==
    /\ clock < MaxClock
    /\ clock' = clock + 1
    /\ UNCHANGED <<chainVars, messageBlock, status, claimTx, sendTx, hasEvent, commandVars>>

(* A reorg of the source chain moves the transaction to a later block, or  *)
(* back to the mempool.  A state that the destination knows stays.         *)
SourceReorg ==
    /\ sendTx = "succeeded"
    /\ \A e \in saved : e.CheckpointBlock < messageBlock
    /\ messageBlock < MaxMessageBlock
    /\ messageBlock' = messageBlock + 1
    /\ sendTx' \in {"succeeded", "pending"}
    /\ UNCHANGED hasEvent

SourceStep ==
    /\ \/ S!MineSend /\ UNCHANGED messageBlock
       \/ SourceReorg
    /\ UNCHANGED <<chainVars, status, claimTx, clock, commandVars>>

(* The source block of the message is checkpointed only once it exists,    *)
(* and a reorg takes back no checkpoint that a claim rests on.             *)
DestinationStep ==
    /\ ChainNext
    /\ UNCHANGED messageBlock
    /\ \A e \in saved' \ saved :
         e.CheckpointBlock >= messageBlock => sendTx = "succeeded"
    /\ status # "NEW" => Provable'
    /\ UNCHANGED <<status, claimTx, sendTx, hasEvent, clock, commandVars>>

DestBridgeStep ==
    /\ C!BridgeStep
    /\ UNCHANGED <<chainVars, messageBlock, sendTx, hasEvent, clock, commandVars>>

PipelineNext ==
    CommandStep \/ Tick \/ SourceStep \/ DestinationStep \/ DestBridgeStep

PipelineSpec == PipelineInit /\ [][PipelineNext]_pipelineVars

(* Time passes, and the command runs whenever it can: the process is       *)
(* scheduled, and a call returns at the latest when its context is done.   *)
PipelineFairSpec ==
    PipelineSpec /\ WF_pipelineVars(Tick) /\ WF_pipelineVars(CommandStep)
-----------------------------------------------------------------------------
OursSucceeded == \E i \in C!Submitted : claimTx[i] = "succeeded"
OursInFlight == \E i \in C!Submitted : claimTx[i] = "pending"

(* Exit code 0 says "claimed": our transaction processed the message, and  *)
(* exactly one transaction of each kind was needed (claim_eth.go:112).     *)
SuccessIsClaimed ==
    exit = OK => /\ OursSucceeded /\ ~OursInFlight
                 /\ status # "NEW"
                 /\ sendTx = "succeeded"

(* Success rests on a checkpoint that no reorg can take away: the one the  *)
(* claim was proved with has the confirmations asked for                   *)
(* (shared_flow.go:107-118).                                               *)
SuccessIsConfirmed == exit = OK => BackedWithConfs(result.CheckpointBlock)

(* A timeout says "claimed": false, by its payload or, when that could not *)
(* be written, by its exit code alone, and SKILL.md:127 sends its reader   *)
(* to claim again: no claim of ours has happened nor can happen behind his *)
(* back (shared_flow.go:124-131).                                          *)
TimeoutIsUnclaimed ==
    payload = "unclaimed" \/ exit = TimeoutCode => ~OursSucceeded /\ ~OursInFlight

(* One invocation submits one claim at most, over all its retries.         *)
OneClaimPerCommand == C!OneClaimAtMost

(* Every claim carries a proof of the message, although the source block   *)
(* that the prober starts from was read once, and a reorg of the source    *)
(* chain may have moved the message behind it since (send.go:481).         *)
ClaimHoldsMessage == stage = "claim" => result.CheckpointBlock >= messageBlock

(* When the time is up the command stops, whatever it waits for: a source  *)
(* transaction or a claim that is never mined, or a checkpoint that never  *)
(* comes (claim_eth.go:35).                                                *)
CommandEnds == <>(stage = "exited")

(* "Timeout indicates the command timed out before completion."            *)
(* (exitcodes.go:10): a command that has sent the message and then ran out *)
(* of time exits with 4.                                                   *)
DeadlineExitsTimeout ==
    err = "DeadlineExceeded" /\ sendOutcome = "sent" => exit = TimeoutCode

(* "TxReverted indicates an on-chain transaction reverted."                *)
(* (exitcodes.go:12): a command that a revert ended exits with 5.          *)
RevertExitsTxReverted == err \in {"ErrReverted", "ErrTxReverted"} => exit = TxReverted

(* The whole pipeline is a bridge transfer: nothing is released that was   *)
(* not locked and proved before, it is released once, and success is       *)
(* reported for a release of our own alone.                                *)
T == INSTANCE BridgeTransfer WITH
       locked <- sendTx = "succeeded",
       proved <- Provable,
       released <- IF status = "NEW" THEN "no" ELSE IF OursSucceeded THEN "ours" ELSE "theirs",
       report <- IF exit = Running THEN "none" ELSE IF exit = OK THEN "ok" ELSE "failed"

PipelineIsTransfer == T!TransferSpec
=============================================================================
