------------------------- MODULE ClaimPipelineProofs -------------------------
(***************************************************************************)
(* Proofs about the claim commands, for every length of both chains, every *)
(* timeout and every interleaving of the command, the clock, the chains    *)
(* and the relayers: what a success and a timeout say, and that the whole  *)
(* pipeline is a bridge transfer.                                          *)
(*                                                                         *)
(* What ProberProofs proves of the prober alone holds in the pipeline,     *)
(* where it takes no other steps.                                          *)
(***************************************************************************)
EXTENDS ClaimPipeline, ProberProofs


(* What the command itself remembers, and the chain of the message.        *)
CommandTyped ==
    /\ messageBlock \in SourceMessageBlock..MaxMessageBlock
    /\ clock \in 0..MaxClock
    /\ stage \in Stages
    /\ loopDeadline \in 0..(MaxClock + Timeout)
    /\ err \in Errors
    /\ exit \in {OK, ConfigError, Validation, TimeoutCode, RPCOrProof, Unexpected, Running}
    /\ payload \in {"none", "claimed", "unclaimed"}

SendTyped ==
    /\ request \in {"valid", "invalid"}
    /\ sendStep \in S!SendSteps \cup {"idle", "returned"}
    /\ sendOutcome \in S!SendOutcomes
    /\ sendTx \in {"unsent", "pending", "succeeded", "reverted"}

(* The invariant of ClaimProofs, for the attempts inside the command: up   *)
(* to the call that submits, and after ErrNotReady, nothing has been       *)
(* submitted; from then on there is one transaction.                       *)
AttemptInv ==
    /\ C!ClaimTypeOK
    /\ C!OneClaimAtMost
    /\ step \in {"IsMessageReceived", "ChainID", "ProcessMessage"} => C!Submitted = {}
    /\ step = "TransactionReceipt" => C!Submitted # {}
    /\ C!NotReadyLeavesNothing
    /\ C!OutcomeIsHonest
    /\ \A i \in C!Submitted : claimTx[i] = "succeeded" => status # "NEW"

(* Outside the claim stage no attempt is under way, and up to its end the  *)
(* command has submitted nothing that it still waits for.                  *)
StageInv ==
    /\ stage \notin {"claim", "exited"} =>
         /\ step = "returned" /\ outcome \in {"none", "ErrNotReady"}
         /\ C!Submitted = {}
    /\ stage = "claim" => result.CheckpointBlock > 0
    /\ (exit = Running) = (stage # "exited")
    /\ stage # "exited" => payload = "none"

(* What the end of the command says of the claims.                         *)
EndInv ==
    /\ exit = OK => outcome = "claimed" /\ result.CheckpointBlock > 0
    /\ payload = "unclaimed" \/ exit = TimeoutCode => C!Submitted = {}

(* A checkpoint of the message's block is a checkpoint of a block that has *)
(* the transaction, and what was processed was proved.                     *)
SourceInv ==
    /\ \A e \in saved : e.CheckpointBlock >= messageBlock => sendTx = "succeeded"
    /\ status # "NEW" => Provable
    /\ sendStep \in {"idle", "ChainID", "Build", "Submit"} => sendTx = "unsent"

PipelineInv ==
    TypeOK /\ CommandTyped /\ SendTyped /\ AttemptInv /\ StageInv /\ EndInv /\ SourceInv

(* A claim is proved from a state that holds the message, and so is the    *)
(* one that the prober is about to ask about.                              *)
HoldsInv ==
    /\ result.CheckpointBlock # 0 => result.CheckpointBlock >= messageBlock
    /\ pc = "CheckMessage" => bestCheckpoint # 0 /\ bestCheckpoint >= messageBlock
    /\ pc = "BuildProof" => bestCheckpoint # 0
-----------------------------------------------------------------------------
(* Inside the command the prober takes steps of its own specification:     *)
(* what is proved of the prober alone holds in the pipeline.               *)
LEMMA ProberStep == [PipelineNext]_pipelineVars => [Next]_vars
<1> SUFFICES ASSUME [PipelineNext]_pipelineVars PROVE [Next]_vars
  OBVIOUS
<1>1. CASE CommandStep
  <2>1. UNCHANGED <<destHead, highHead, saved>>
    BY <1>1 DEF CommandStep, chainVars
  <2>2. Probe \/ CallFails \/ UNCHANGED probeVars
    BY <1>1 DEF CommandStep, SetupFails, Setup, Send, SendReturned, ProbeStep, ProbeFails, Decide,
       Claim, ClaimReturned, CheckDeadline, Sleep
  <2> QED BY <2>1, <2>2 DEF Next, chainVars, vars, probeVars
<1>2. CASE DestinationStep
  <2>1. ChainNext /\ UNCHANGED <<pc, head, nextLogBlock, bestCheckpoint, result>>
    BY <1>2 DEF DestinationStep, commandVars, probeVars
  <2> QED BY <2>1 DEF Next, probeVars
<1>3. CASE Tick \/ SourceStep \/ DestBridgeStep \/ UNCHANGED pipelineVars
  <2>1. UNCHANGED <<destHead, highHead, saved, pc, head, nextLogBlock, bestCheckpoint, result>>
    BY <1>3 DEF Tick, SourceStep, DestBridgeStep, pipelineVars, chainVars, commandVars, probeVars
  <2> QED BY <2>1 DEF vars
<1> QED BY <1>1, <1>2, <1>3 DEF PipelineNext

LEMMA ProberRuns == PipelineSpec => Spec
<1>1. PipelineInit => Init
  BY DEF PipelineInit
<1> QED BY <1>1, ProberStep, PTL DEF PipelineSpec, Spec
-----------------------------------------------------------------------------
LEMMA TypeStep == TypeOK /\ [PipelineNext]_pipelineVars => TypeOK'
BY ProberStep, NextType

(* The numbers in a state of the chains.                                   *)
LEMMA ChainNumbers ==
    ASSUME TypeOK
    PROVE  /\ \A e \in saved : e.CheckpointBlock \in 0..MaxCheckpoint /\ e.LogBlock \in 1..destHead
           /\ result.CheckpointBlock \in 0..MaxCheckpoint
           /\ bestCheckpoint \in 0..MaxCheckpoint
BY DEF TypeOK, ChainTypeOK, CheckpointEvent, ProberTypeOK, Result,
   SourceBlocks, DestBlocks

(* A log on the chain is enough for a proof that the bridge accepts.       *)
LEMMA ProvableBySaved ==
    ASSUME TypeOK, messageBlock \in Nat
    PROVE  /\ Provable <=> \E e \in saved : e.CheckpointBlock >= messageBlock
           /\ Received => Provable
<1>1. /\ \A e \in saved : e.CheckpointBlock \in 0..MaxCheckpoint /\ e.LogBlock <= destHead
      /\ result.CheckpointBlock \in 0..MaxCheckpoint
  <2>1. destHead \in Nat
    BY DEF TypeOK, ChainTypeOK, DestBlocks
  <2> QED BY <2>1, ChainNumbers
<1> QED BY <1>1, PipelineAssumption DEF Provable, Received, IsMessageReceived, SourceBlocks

(* What the bridge has processed was proved: as long as no reorg takes a   *)
(* checkpoint away that a claim rests on, and none moves what is proved.   *)
LEMMA SourceKeeps ==
    ASSUME TypeOK, messageBlock \in Nat, SourceInv, [PipelineNext]_pipelineVars
    PROVE  SourceInv'
<1> USE DEF SourceInv
<1>u. ASSUME UNCHANGED <<saved, messageBlock, destHead>>
      PROVE  Provable' = Provable
  BY <1>u DEF Provable, IsMessageReceived
<1>1. CASE CommandStep
  <2>1. UNCHANGED <<saved, messageBlock, destHead, status>>
    BY <1>1 DEF CommandStep, chainVars
  <2>2. CASE Setup \/ Send
    <3>1. S!StartSend \/ S!SendProgress
      BY <2>2 DEF Setup, Send
    <3>2. /\ sendTx = "succeeded" => sendTx' = "succeeded"
          /\ (sendStep \in {"idle", "ChainID", "Build", "Submit"} => sendTx = "unsent")'
      BY <3>1 DEF S!StartSend, S!SendProgress, S!SendReturn, S!SendGoTo, S!SendAnswers,
         S!SendChainID, S!Build, S!Submit, S!SubmitFails, S!SendReceipt, S!Parse,
         S!SendCallFails, S!SendDeadline
    <3> QED BY <1>u, <2>1, <3>2
  <2>3. CASE ~(Setup \/ Send)
    <3>1. UNCHANGED <<sendStep, sendTx>>
      BY <1>1, <2>3 DEF CommandStep, SetupFails, SendReturned, ProbeStep, ProbeFails, Decide,
         Claim, ClaimReturned, CheckDeadline, Sleep, sendVars
    <3> QED BY <1>u, <2>1, <3>1
  <2> QED BY <2>2, <2>3
<1>2. CASE S!MineSend /\ SourceStep
  <2>1. UNCHANGED <<saved, destHead, status, messageBlock, sendStep>>
        /\ sendTx = "pending" /\ sendTx' \in {"succeeded", "reverted"}
    BY <1>2 DEF SourceStep, SourceReorg, S!MineSend, chainVars
  <2> QED BY <1>u, <2>1
<1>3. CASE SourceReorg /\ SourceStep
  <2>1. /\ UNCHANGED <<saved, destHead, status, sendStep>>
        /\ messageBlock' = messageBlock + 1
        /\ \A e \in saved : e.CheckpointBlock < messageBlock
        /\ sendTx = "succeeded"
    BY <1>3 DEF SourceStep, SourceReorg, commandVars, sendVars, chainVars
  <2>2. \A e \in saved : e.CheckpointBlock \in Nat
    BY ChainNumbers
  <2>3. status = "NEW"
    BY <2>1, <2>2, ProvableBySaved
  <2> QED BY <2>1, <2>2, <2>3
<1>4. CASE DestinationStep
  BY <1>4 DEF DestinationStep, commandVars, sendVars
<1>5. CASE DestBridgeStep
  <2>1. UNCHANGED <<saved, destHead, messageBlock, sendTx, sendStep>>
    BY <1>5 DEF DestBridgeStep, chainVars, commandVars, sendVars
  <2>2. status' # "NEW" => Provable
    BY <1>5, ProvableBySaved
       DEF DestBridgeStep, C!BridgeStep, C!MineClaim, C!RelayerClaims, C!OwnerRetries
  <2> QED BY <1>u, <2>1, <2>2
<1>6. CASE Tick \/ UNCHANGED pipelineVars
  <2>1. UNCHANGED <<saved, destHead, messageBlock, sendTx, sendStep, status>>
    BY <1>6 DEF Tick, pipelineVars, chainVars, commandVars, sendVars
  <2> QED BY <1>u, <2>1
<1> QED BY <1>1, <1>2, <1>3, <1>4, <1>5, <1>6 DEF PipelineNext, SourceStep
-----------------------------------------------------------------------------
(* While there is one transaction at most, the one waitReceipt polls for   *)
(* is it.                                                                  *)
LEMMA CurrentIsSubmitted ==
    ASSUME C!ClaimTypeOK, C!OneClaimAtMost, C!Submitted # {}
    PROVE  C!Current \in C!Submitted /\ C!Submitted = {C!Current}
<1>1. PICK i : i \in C!Submitted
  OBVIOUS
<1>2. i \in Nat /\ \A j \in C!Submitted : j <= i
  BY <1>1 DEF C!OneClaimAtMost, C!Submitted
<1>3. C!Current \in C!Submitted
  BY <1>1, <1>2 DEF C!Current
<1> QED BY <1>3 DEF C!OneClaimAtMost

(* A transaction enters the mempool: when there was none, it is the only   *)
(* one.                                                                    *)
LEMMA AcceptAddsOne ==
    ASSUME C!ClaimTypeOK, C!Submitted = {}, C!Accept
    PROVE  /\ claimTx' \in [1..MaxClaimTxs -> C!TxStates]
           /\ \E i \in 1..MaxClaimTxs : claimTx'[i] = "pending" /\ C!Submitted' = {i}
<1>1. PICK i \in 1..MaxClaimTxs : claimTx' = [claimTx EXCEPT ![i] = "pending"]
  BY DEF C!Accept
<1>2. \A j \in 1..MaxClaimTxs : claimTx[j] = "unsent"
  BY DEF C!Submitted
<1> QED BY <1>1, <1>2 DEF C!ClaimTypeOK, C!Submitted, C!TxStates

(* A step of Process.                                                      *)
LEMMA AttemptKeepsInv ==
    ASSUME AttemptInv, C!ProcessStep, UNCHANGED <<status, Received, Provable, CtxDone>>
    PROVE  AttemptInv'
<1> USE DEF AttemptInv
<1>0. ASSUME UNCHANGED claimTx
      PROVE  C!Submitted' = C!Submitted /\ C!OneClaimAtMost'
  BY <1>0 DEF C!Submitted, C!OneClaimAtMost
<1>t. ASSUME NEW o \in C!Outcomes, C!Return(o), claimTx' \in [1..MaxClaimTxs -> C!TxStates]
      PROVE  C!ClaimTypeOK'
  BY <1>t DEF C!Return, C!ClaimTypeOK, C!ClaimSteps, C!Outcomes
<1>1. CASE C!CheckReceived
  <2>1. CASE Received
    BY <1>0, <1>1, <2>1
       DEF C!CheckReceived, C!CallAnswers, C!GoTo, C!ClaimTypeOK, C!ClaimSteps, C!NotReadyLeavesNothing,
           C!OutcomeIsHonest
  <2>2. CASE ~Received
    <3>1. C!Submitted' = {} /\ C!OneClaimAtMost' /\ C!Return("ErrNotReady")
      BY <1>0, <1>1, <2>2 DEF C!CheckReceived, C!CallAnswers
    <3>2. C!ClaimTypeOK'
      BY <1>1, <1>t, <3>1 DEF C!CheckReceived, C!ClaimTypeOK, C!Outcomes, C!ProcessErrors
    <3> QED BY <3>1, <3>2 DEF C!Return, C!NotReadyLeavesNothing, C!OutcomeIsHonest
  <2> QED BY <2>1, <2>2
<1>2. CASE C!ChainID
  BY <1>0, <1>2
     DEF C!ChainID, C!CallAnswers, C!GoTo, C!ClaimTypeOK, C!ClaimSteps, C!NotReadyLeavesNothing,
         C!OutcomeIsHonest
<1>3. CASE C!ProcessMessage
  <2>1. step = "ProcessMessage" /\ C!Submitted = {} /\ C!Accept /\ C!GoTo("TransactionReceipt")
    BY <1>3 DEF C!ProcessMessage, C!CallAnswers
  <2>2. /\ claimTx' \in [1..MaxClaimTxs -> C!TxStates]
        /\ \E i \in 1..MaxClaimTxs : claimTx'[i] = "pending" /\ C!Submitted' = {i}
    BY <2>1, AcceptAddsOne
  <2>3. outcome' = "none" /\ step' = "TransactionReceipt"
    BY <2>1 DEF C!GoTo, C!ClaimTypeOK, C!ClaimSteps
  <2>4. C!ClaimTypeOK'
    BY <2>2, <2>3 DEF C!ClaimTypeOK, C!ClaimSteps, C!Outcomes
  <2> QED
    BY <2>2, <2>3, <2>4 DEF C!OneClaimAtMost, C!NotReadyLeavesNothing, C!OutcomeIsHonest
<1>4. CASE C!ProcessMessageFails
  <2>1. step = "ProcessMessage" /\ C!Submitted = {}
    BY <1>4 DEF C!ProcessMessageFails, C!CallAnswers
  <2>2. CASE UNCHANGED claimTx /\ (C!Return("ErrNotReady") \/ C!Return("rpc"))
    <3>1. C!Submitted' = {} /\ C!OneClaimAtMost'
      BY <1>0, <2>1, <2>2
    <3>2. C!ClaimTypeOK'
      BY <1>t, <2>2 DEF C!ClaimTypeOK, C!Outcomes, C!ProcessErrors
    <3> QED BY <2>2, <3>1, <3>2 DEF C!Return, C!NotReadyLeavesNothing, C!OutcomeIsHonest
  <2>3. CASE C!Accept /\ C!Return("rpc")
    <3>1. /\ claimTx' \in [1..MaxClaimTxs -> C!TxStates]
          /\ \E i \in 1..MaxClaimTxs : claimTx'[i] = "pending" /\ C!Submitted' = {i}
      BY <2>1, <2>3, AcceptAddsOne
    <3>2. C!ClaimTypeOK'
      BY <1>t, <2>3, <3>1 DEF C!Outcomes, C!ProcessErrors
    <3> QED
      BY <2>3, <3>1, <3>2 DEF C!Return, C!OneClaimAtMost, C!NotReadyLeavesNothing, C!OutcomeIsHonest
  <2> QED BY <1>4, <2>2, <2>3 DEF C!ProcessMessageFails
<1>5. CASE C!ReceiptFound
  <2>1. C!Submitted = {C!Current} /\ C!Submitted' = C!Submitted /\ C!OneClaimAtMost'
    BY <1>0, <1>5, CurrentIsSubmitted DEF C!ReceiptFound, C!CallAnswers
  <2>2. CASE claimTx[C!Current] = "succeeded" /\ C!Return("claimed")
    <3>1. C!ClaimTypeOK'
      BY <1>5, <1>t, <2>2 DEF C!ReceiptFound, C!ClaimTypeOK, C!Outcomes
    <3> QED
      BY <1>5, <2>1, <2>2, <3>1
         DEF C!ReceiptFound, C!Return, C!NotReadyLeavesNothing, C!OutcomeIsHonest
  <2>3. CASE claimTx[C!Current] = "reverted" /\ C!Return("ErrReverted")
    <3>1. C!ClaimTypeOK'
      BY <1>5, <1>t, <2>3 DEF C!ReceiptFound, C!ClaimTypeOK, C!Outcomes, C!ProcessErrors
    <3> QED
      BY <1>5, <2>1, <2>3, <3>1
         DEF C!ReceiptFound, C!Return, C!NotReadyLeavesNothing, C!OutcomeIsHonest
  <2> QED BY <1>5, <2>2, <2>3 DEF C!ReceiptFound
<1>6. CASE C!ClaimCallFails \/ C!ClaimDeadline
  <2>1. C!Return("rpc") \/ C!Return("DeadlineExceeded")
    BY <1>6 DEF C!ClaimCallFails, C!ClaimDeadline
  <2>2. C!Submitted' = C!Submitted /\ C!OneClaimAtMost' /\ UNCHANGED claimTx
    BY <1>0, <1>6 DEF C!ClaimCallFails, C!ClaimDeadline
  <2>3. C!ClaimTypeOK'
    BY <1>t, <2>1, <2>2 DEF C!ClaimTypeOK, C!Outcomes, C!ProcessErrors
  <2> QED BY <2>1, <2>2, <2>3 DEF C!Return, C!NotReadyLeavesNothing, C!OutcomeIsHonest
<1> QED
  BY <1>1, <1>2, <1>3, <1>4, <1>5, <1>6 DEF C!ProcessStep

(* A step of the bridge: transactions are mined and the message processed, *)
(* by us or by others.                                                     *)
LEMMA BridgeKeepsInv ==
    ASSUME AttemptInv, C!BridgeStep, UNCHANGED <<Received, Provable, CtxDone>>
    PROVE  AttemptInv'
<1> USE DEF AttemptInv
<1>1. CASE C!MineClaim
  <2>1. PICK i \in 1..MaxClaimTxs :
          /\ claimTx[i] = "pending"
          /\ \/ /\ C!Processed
                /\ claimTx' = [claimTx EXCEPT ![i] = "succeeded"]
             \/ /\ claimTx' = [claimTx EXCEPT ![i] = "reverted"]
                /\ UNCHANGED status
    BY <1>1 DEF C!MineClaim
  <2>2. UNCHANGED <<step, outcome>>
    BY <1>1 DEF C!MineClaim, C!processVars
  <2>3. i \in C!Submitted /\ C!Submitted = {i}
    BY <2>1 DEF C!Submitted, C!OneClaimAtMost
  <2>4. /\ claimTx' \in [1..MaxClaimTxs -> C!TxStates]
        /\ \A j \in 1..MaxClaimTxs : j # i => claimTx'[j] = claimTx[j]
        /\ claimTx'[i] \in {"succeeded", "reverted"}
        /\ claimTx'[i] = "succeeded" => status' # "NEW"
        /\ status' \in C!Statuses
    BY <2>1 DEF C!ClaimTypeOK, C!TxStates, C!Processed, C!Statuses
  <2>5. C!Submitted' = C!Submitted
    BY <2>3, <2>4 DEF C!Submitted
  <2>6. C!ClaimTypeOK'
    BY <2>2, <2>4 DEF C!ClaimTypeOK
  <2>7. outcome # "claimed" /\ outcome # "ErrReverted"
    BY <2>1, <2>3 DEF C!OutcomeIsHonest
  <2> QED
    BY <2>2, <2>3, <2>4, <2>5, <2>6, <2>7
       DEF C!OneClaimAtMost, C!NotReadyLeavesNothing, C!OutcomeIsHonest
<1>2. CASE C!RelayerClaims \/ C!OwnerRetries
  <2>1. UNCHANGED <<step, outcome, claimTx>> /\ status' \in {"RETRIABLE", "DONE"}
    BY <1>2 DEF C!RelayerClaims, C!OwnerRetries, C!Processed, C!processVars
  <2> QED
    BY <2>1
       DEF C!ClaimTypeOK, C!Statuses, C!Submitted, C!OneClaimAtMost, C!NotReadyLeavesNothing,
           C!OutcomeIsHonest
<1> QED BY <1>1, <1>2 DEF C!BridgeStep

(* Nothing that an attempt knows of has changed.                           *)
LEMMA FrameKeepsInv ==
    ASSUME AttemptInv, UNCHANGED <<status, step, outcome, claimTx>>
    PROVE  AttemptInv'
<1>1. (Received \in BOOLEAN)' /\ (Provable \in BOOLEAN)' /\ (CtxDone \in BOOLEAN)'
  <2>1. (Received \in BOOLEAN)' /\ (Provable \in BOOLEAN)'
    BY Zenon DEF Received, Provable, IsMessageReceived
  <2>2. (CtxDone \in BOOLEAN)'
    BY SMT DEF CtxDone
  <2> QED BY <2>1, <2>2
<1> QED
  BY <1>1 DEF AttemptInv, C!ClaimTypeOK, C!Submitted, C!OneClaimAtMost, C!NotReadyLeavesNothing,
     C!OutcomeIsHonest
-----------------------------------------------------------------------------
LEMMA InitPipeline == PipelineInit => PipelineInv
<1> SUFFICES ASSUME PipelineInit PROVE PipelineInv
  OBVIOUS
<1> USE DEF PipelineInit
<1>1. TypeOK /\ saved = {}
  BY InitType DEF Init, ChainInit
<1>2. CommandTyped
  BY PipelineAssumption, ProberAssumption DEF CommandTyped, Stages, Errors, Running
<1>3. SendTyped /\ SourceInv
  BY <1>1 DEF S!SendInit, SendTyped, S!SendOutcomes, SourceInv
<1>4. C!Submitted = {}
  BY DEF C!Submitted
<1>5. AttemptInv
  <2>1. Received \in BOOLEAN /\ Provable \in BOOLEAN
    BY Zenon DEF Received, Provable, IsMessageReceived
  <2>2. CtxDone \in BOOLEAN
    BY SMT DEF CtxDone
  <2> QED
    BY <1>4, <2>1, <2>2, PipelineAssumption
       DEF AttemptInv, C!ClaimTypeOK, C!Statuses, C!ClaimSteps, C!Outcomes, C!TxStates,
           C!OneClaimAtMost, C!NotReadyLeavesNothing, C!OutcomeIsHonest
<1>6. StageInv /\ EndInv
  BY <1>4 DEF StageInv, EndInv, Running, OK
<1> QED BY <1>1, <1>2, <1>3, <1>5, <1>6 DEF PipelineInv

(* The invariant of the attempts, across the steps of all the others.      *)
LEMMA AttemptStep ==
    ASSUME AttemptInv, StageInv, [PipelineNext]_pipelineVars
    PROVE  AttemptInv'
<1>1. CASE CommandStep
  <2>1. UNCHANGED <<status, messageBlock, saved, destHead, clock>>
    BY <1>1 DEF CommandStep, chainVars
  <2>2. CASE Claim
    <3>1. UNCHANGED result
      BY <2>2 DEF Claim, probeVars
    <3>2. UNCHANGED <<status, Received, Provable, CtxDone>>
      BY <2>1, <3>1 DEF Received, Provable, CtxDone, IsMessageReceived
    <3> QED BY <2>2, <3>2, AttemptKeepsInv DEF Claim
  <2>3. CASE Decide
    <3>1. CASE UNCHANGED attemptVars /\ UNCHANGED claimTx
      BY <2>1, <3>1, FrameKeepsInv DEF attemptVars
    <3>2. CASE C!StartProcess
      <4>1. C!Submitted = {} /\ C!Submitted' = {} /\ step' = "IsMessageReceived"
            /\ outcome' = "none" /\ UNCHANGED claimTx
        BY <2>3, <3>2 DEF Decide, StageInv, C!StartProcess, C!Submitted
      <4>2. (Received \in BOOLEAN)' /\ (Provable \in BOOLEAN)' /\ (CtxDone \in BOOLEAN)'
        <5>1. (Received \in BOOLEAN)' /\ (Provable \in BOOLEAN)'
          BY Zenon DEF Received, Provable, IsMessageReceived
        <5>2. (CtxDone \in BOOLEAN)'
          BY SMT DEF CtxDone
        <5> QED BY <5>1, <5>2
      <4>3. C!ClaimTypeOK'
        BY <2>1, <4>1, <4>2 DEF AttemptInv, C!ClaimTypeOK, C!ClaimSteps, C!Outcomes
      <4> QED
        BY <4>1, <4>3 DEF AttemptInv, C!OneClaimAtMost, C!NotReadyLeavesNothing, C!OutcomeIsHonest
    <3> QED BY <2>3, <3>1, <3>2 DEF Decide
  <2>4. CASE ~(Claim \/ Decide)
    <3>1. UNCHANGED <<step, outcome, claimTx>>
      BY <1>1, <2>4 DEF CommandStep, SetupFails, Setup, Send, SendReturned, ProbeStep, ProbeFails,
         ClaimReturned, CheckDeadline, Sleep, attemptVars
    <3> QED BY <2>1, <3>1, FrameKeepsInv
  <2> QED BY <2>2, <2>3, <2>4
<1>2. CASE DestBridgeStep
  <2>1. UNCHANGED <<Received, Provable, CtxDone>>
    BY <1>2 DEF DestBridgeStep, chainVars, commandVars, probeVars, Received, Provable, CtxDone,
       IsMessageReceived
  <2> QED BY <1>2, <2>1, BridgeKeepsInv DEF DestBridgeStep
<1>3. CASE Tick \/ SourceStep \/ DestinationStep \/ UNCHANGED pipelineVars
  <2>1. UNCHANGED <<status, step, outcome, claimTx>>
    BY <1>3 DEF Tick, SourceStep, DestinationStep, pipelineVars, commandVars, attemptVars
  <2> QED BY <2>1, FrameKeepsInv
<1> QED BY <1>1, <1>2, <1>3 DEF PipelineNext

LEMMA SendStep ==
    ASSUME SendTyped, [PipelineNext]_pipelineVars
    PROVE  SendTyped'
<1>1. CASE CommandStep
  <2>1. CASE S!StartSend /\ UNCHANGED request
    BY <2>1 DEF S!StartSend, S!SendGoTo, SendTyped, S!SendSteps
  <2>2. CASE S!SendProgress /\ UNCHANGED request
    BY <2>2 DEF SendTyped, S!SendProgress, S!SendSteps, S!SendOutcomes, S!SendErrors, S!SendReturn,
       S!SendGoTo, S!SendChainID, S!Build, S!Submit, S!SubmitFails, S!SendReceipt, S!Parse,
       S!SendCallFails, S!SendDeadline, S!SendAnswers
  <2>3. CASE UNCHANGED <<request, sendStep, sendOutcome, sendTx>>
    BY <2>3 DEF SendTyped
  <2> QED
    BY <1>1, <2>1, <2>2, <2>3
       DEF CommandStep, SetupFails, Setup, Send, SendReturned, ProbeStep, ProbeFails, Decide, Claim,
           ClaimReturned, CheckDeadline, Sleep, sendVars
<1>2. CASE SourceStep
  BY <1>2 DEF SourceStep, SourceReorg, S!MineSend, SendTyped, commandVars, sendVars
<1>3. CASE Tick \/ DestinationStep \/ DestBridgeStep \/ UNCHANGED pipelineVars
  BY <1>3 DEF Tick, DestinationStep, DestBridgeStep, pipelineVars, SendTyped, commandVars, sendVars
<1> QED BY <1>1, <1>2, <1>3 DEF PipelineNext

(* What the command remembers, and the block of the message.               *)
LEMMA CommandTypeStep ==
    ASSUME CommandTyped, SendTyped, AttemptInv, [PipelineNext]_pipelineVars
    PROVE  CommandTyped'
<1>n. /\ SourceMessageBlock \in Nat /\ MaxMessageBlock \in Nat /\ Timeout \in Nat /\ MaxClock \in Nat
      /\ clock \in 0..MaxClock /\ loopDeadline \in 0..(MaxClock + Timeout)
  BY PipelineAssumption, ProberAssumption DEF CommandTyped
<1>e. /\ "rpc" \in Errors /\ "DeadlineExceeded" \in Errors /\ "config" \in Errors
      /\ "usage" \in Errors /\ "write" \in Errors /\ "none" \in Errors /\ "ErrTimeout" \in Errors
      /\ (sendOutcome \notin {"none", "sent"} => sendOutcome \in Errors)
      /\ (outcome \notin {"none", "claimed"} => outcome \in Errors)
  BY DEF Errors, S!SendErrors, C!ProcessErrors, SendTyped, S!SendOutcomes, AttemptInv, C!ClaimTypeOK,
     C!Outcomes
<1>1. CASE CommandStep
  <2>1. UNCHANGED <<messageBlock, clock>>
    BY <1>1 DEF CommandStep
  <2>2. loopDeadline' \in 0..(MaxClock + Timeout)
    <3>1. CASE SendReturned
      <4>1. loopDeadline' = clock + Timeout \/ loopDeadline' = loopDeadline
        BY <3>1 DEF SendReturned
      <4> QED BY <1>n, <4>1
    <3>2. CASE ~SendReturned
      <4>1. UNCHANGED loopDeadline
        BY <1>1, <3>2 DEF CommandStep, SetupFails, Setup, Send, ProbeStep, ProbeFails, Decide, Claim,
           ClaimReturned, CheckDeadline, Sleep
      <4> QED BY <1>n, <4>1
    <3> QED BY <3>1, <3>2
  <2>3. \/ UNCHANGED endVars /\ stage' \in Stages
        \/ \E code \in {OK, ConfigError, Validation, TimeoutCode, RPCOrProof, Unexpected}, e \in Errors,
              p \in {"none", "claimed", "unclaimed"} : Exit(code, e, p)
    <3>c. CallError \in Errors
      BY <1>e DEF CallError
    <3>1. CASE SetupFails
      BY <1>e, <3>c, <3>1 DEF SetupFails
    <3>2. CASE SendReturned
      BY <1>e, <3>2 DEF SendReturned, Stages
    <3>3. CASE ProbeFails
      BY <3>c, <3>3 DEF ProbeFails
    <3>4. CASE ClaimReturned
      BY <1>e, <3>4 DEF ClaimReturned, EmitClaimed, Stages
    <3>5. CASE CheckDeadline \/ Sleep
      BY <1>e, <3>5 DEF CheckDeadline, Sleep, Stages
    <3>6. CASE Setup \/ Send \/ ProbeStep \/ Decide \/ Claim
      BY <3>6 DEF Setup, Send, ProbeStep, Decide, Claim, Stages, CommandTyped
    <3> QED BY <1>1, <3>1, <3>2, <3>3, <3>4, <3>5, <3>6 DEF CommandStep
  <2>4. /\ stage' \in Stages /\ err' \in Errors
        /\ exit' \in {OK, ConfigError, Validation, TimeoutCode, RPCOrProof, Unexpected, Running}
        /\ payload' \in {"none", "claimed", "unclaimed"}
    BY <2>3 DEF Exit, endVars, CommandTyped, Stages
  <2> QED BY <2>1, <2>2, <2>4 DEF CommandTyped
<1>2. CASE ~CommandStep
  <2>1. UNCHANGED <<stage, loopDeadline, err, exit, payload>>
    BY <1>2 DEF PipelineNext, Tick, SourceStep, DestinationStep, DestBridgeStep, pipelineVars,
       commandVars, endVars
  <2>2. clock' \in 0..MaxClock
    <3>1. UNCHANGED clock \/ (clock < MaxClock /\ clock' = clock + 1)
      BY <1>2 DEF PipelineNext, Tick, SourceStep, DestinationStep, DestBridgeStep, pipelineVars
    <3> QED BY <1>n, <3>1
  <2>3. messageBlock' \in SourceMessageBlock..MaxMessageBlock
    <3>1. UNCHANGED messageBlock \/ (messageBlock < MaxMessageBlock /\ messageBlock' = messageBlock + 1)
      BY <1>2 DEF PipelineNext, Tick, SourceStep, SourceReorg, DestinationStep, DestBridgeStep,
         pipelineVars
    <3> QED BY <1>n, <3>1 DEF CommandTyped
  <2> QED BY <2>1, <2>2, <2>3 DEF CommandTyped
<1> QED BY <1>1, <1>2

(* Only the command submits claims.                                        *)
LEMMA OthersSubmitNothing ==
    ASSUME ~CommandStep, [PipelineNext]_pipelineVars, C!Submitted = {}
    PROVE  C!Submitted' = {}
<1>1. CASE DestBridgeStep
  BY <1>1 DEF DestBridgeStep, C!BridgeStep, C!MineClaim, C!RelayerClaims, C!OwnerRetries, C!Submitted
<1>2. CASE ~DestBridgeStep
  <2>1. UNCHANGED claimTx
    BY <1>2 DEF PipelineNext, Tick, SourceStep, DestinationStep, pipelineVars
  <2> QED BY <2>1 DEF C!Submitted
<1> QED BY <1>1, <1>2

(* Where the command is, and what it has submitted there.                  *)
LEMMA StageStep ==
    ASSUME TypeOK, CommandTyped, AttemptInv, StageInv, [PipelineNext]_pipelineVars
    PROVE  StageInv'
<1> USE DEF StageInv
<1>n. OK # Running /\ ConfigError # Running /\ Validation # Running /\ TimeoutCode # Running
      /\ RPCOrProof # Running /\ Unexpected # Running
  BY DEF OK, ConfigError, Validation, TimeoutCode, RPCOrProof, Unexpected, Running
<1>1. CASE CommandStep
  <2>0. ASSUME UNCHANGED claimTx
        PROVE  C!Submitted' = C!Submitted
    BY <2>0 DEF C!Submitted
  <2>r. result.CheckpointBlock \in Nat
    BY ChainNumbers
  <2>1. CASE SetupFails \/ ProbeFails
    BY <1>n, <2>1 DEF SetupFails, ProbeFails, Exit
  <2>2. CASE Setup \/ Send
    BY <2>2, <2>0 DEF Setup, Send, endVars, attemptVars
  <2>3. CASE SendReturned
    BY <2>3, <1>n, <2>0 DEF SendReturned, endVars, attemptVars, Exit
  <2>4. CASE ProbeStep
    BY <2>4, <2>0 DEF ProbeStep, endVars, attemptVars
  <2>5. CASE Decide
    BY <2>5, <2>0 DEF Decide, endVars, attemptVars, probeVars
  <2>6. CASE Claim
    BY <2>6 DEF Claim, endVars, probeVars
  <2>7. CASE ClaimReturned
    BY <2>7, <1>n, <2>0 DEF ClaimReturned, EmitClaimed, endVars, attemptVars, Exit, AttemptInv, C!NotReadyLeavesNothing
  <2>8. CASE CheckDeadline \/ Sleep
    BY <2>8, <1>n, <2>0 DEF CheckDeadline, Sleep, endVars, attemptVars, Exit
  <2> QED BY <1>1, <2>1, <2>2, <2>3, <2>4, <2>5, <2>6, <2>7, <2>8 DEF CommandStep
<1>2. CASE ~CommandStep
  <2>1. UNCHANGED <<step, outcome, stage, result, exit, payload>>
    BY <1>2 DEF PipelineNext, Tick, SourceStep, DestinationStep, DestBridgeStep, pipelineVars,
       commandVars, endVars, attemptVars, probeVars, C!BridgeStep
  <2>2. C!Submitted = {} => C!Submitted' = {}
    BY <1>2, OthersSubmitNothing
  <2> QED BY <2>1, <2>2
<1> QED BY <1>1, <1>2

(* What the end of the command says stays true.                            *)
LEMMA EndStep ==
    ASSUME CommandTyped, AttemptInv, StageInv, EndInv, [PipelineNext]_pipelineVars
    PROVE  EndInv'
<1> USE DEF EndInv
<1>n. /\ OK \notin {ConfigError, Validation, TimeoutCode, RPCOrProof, Unexpected, Running}
      /\ TimeoutCode \notin {OK, ConfigError, Validation, RPCOrProof, Unexpected, Running}
  BY DEF OK, ConfigError, Validation, TimeoutCode, RPCOrProof, Unexpected, Running
<1>1. CASE CommandStep
  <2>s. stage # "exited" /\ exit = Running /\ payload = "none"
    BY <1>1 DEF CommandStep, SetupFails, Setup, Send, SendReturned, ProbeStep, ProbeFails, Decide,
       Claim, ClaimReturned, CheckDeadline, Sleep, StageInv
  <2>1. CASE ClaimReturned
    BY <1>n, <2>s, <2>1 DEF ClaimReturned, EmitClaimed, Exit, StageInv, attemptVars, probeVars, endVars
  <2>2. CASE CheckDeadline
    BY <1>n, <2>s, <2>2 DEF CheckDeadline, Exit, StageInv, C!Submitted, endVars
  <2>3. CASE ~(ClaimReturned \/ CheckDeadline)
    <3>1. UNCHANGED endVars \/ (exit' \notin {OK, TimeoutCode} /\ payload' = "none")
      BY <1>1, <1>n, <2>3 DEF CommandStep, SetupFails, Setup, Send, SendReturned, ProbeStep,
         ProbeFails, Decide, Claim, Sleep, Exit
    <3> QED BY <1>n, <2>s, <3>1 DEF endVars
  <2> QED BY <2>1, <2>2, <2>3
<1>2. CASE ~CommandStep
  <2>1. UNCHANGED <<outcome, result, exit, payload>>
    BY <1>2 DEF PipelineNext, Tick, SourceStep, DestinationStep, DestBridgeStep, pipelineVars,
       commandVars, endVars, attemptVars, probeVars
  <2>2. C!Submitted = {} => C!Submitted' = {}
    BY <1>2, OthersSubmitNothing
  <2> QED BY <2>1, <2>2
<1> QED BY <1>1, <1>2

LEMMA NextPipeline ==
    ASSUME PipelineInv, [PipelineNext]_pipelineVars
    PROVE  PipelineInv'
<1> USE DEF PipelineInv
<1>1. messageBlock \in Nat
  BY PipelineAssumption, ProberAssumption DEF CommandTyped
<1>2. TypeOK'
  BY TypeStep
<1>3. CommandTyped' /\ SendTyped'
  BY CommandTypeStep, SendStep
<1>4. AttemptInv' /\ StageInv'
  BY AttemptStep, StageStep
<1>5. EndInv' /\ SourceInv'
  BY <1>1, EndStep, SourceKeeps
<1> QED BY <1>2, <1>3, <1>4, <1>5

LEMMA PipelineInvHolds == PipelineSpec => []PipelineInv
<1>1. PipelineInit => PipelineInv
  BY InitPipeline
<1>2. PipelineInv /\ [PipelineNext]_pipelineVars => PipelineInv'
  BY NextPipeline
<1> QED BY <1>1, <1>2, PTL DEF PipelineSpec
-----------------------------------------------------------------------------
(* The receipt has the log or has it not.                                  *)
EventTyped == hasEvent \in BOOLEAN

LEMMA EventAlwaysTyped == PipelineSpec => []EventTyped
<1> USE DEF EventTyped
<1>1. PipelineInit => EventTyped
  BY DEF PipelineInit, S!SendInit
<1>2. EventTyped /\ [PipelineNext]_pipelineVars => EventTyped'
  <2> SUFFICES ASSUME EventTyped, [PipelineNext]_pipelineVars PROVE EventTyped'
    OBVIOUS
  <2>1. CASE S!MineSend
    <3>1. hasEvent' = FALSE \/ hasEvent' = (sendTx' = "succeeded")
      BY <2>1 DEF S!MineSend
    <3> QED BY <3>1, Zenon
  <2>2. CASE ~S!MineSend
    <3>1. UNCHANGED hasEvent
      BY <2>2 DEF PipelineNext, CommandStep, Tick, SourceStep, SourceReorg, DestinationStep,
         DestBridgeStep, pipelineVars
    <3> QED BY <3>1
  <2> QED BY <2>1, <2>2
<1> QED BY <1>1, <1>2, PTL DEF PipelineSpec

(* In every state of a claim command and of what is around it, the prober, *)
(* the attempt, the send and the command hold the values that they are     *)
(* declared for.                                                           *)
THEOREM PipelineTyped == PipelineSpec => []PipelineTypeOK
<1>1. PipelineInv /\ EventTyped => PipelineTypeOK
  <2> SUFFICES ASSUME PipelineInv, EventTyped PROVE PipelineTypeOK
    OBVIOUS
  <2>1. CtxDone \in BOOLEAN
    BY SMT DEF CtxDone
  <2>2. S!SendTypeOK
    BY <2>1 DEF EventTyped, PipelineInv, SendTyped, S!SendTypeOK
  <2> QED BY <2>2 DEF PipelineInv, PipelineTypeOK, CommandTyped, AttemptInv
<1> QED BY <1>1, PipelineInvHolds, EventAlwaysTyped, PTL

(* The loop of autoClaimWithProber submits one claim at most, however      *)
(* often it polls and whatever its calls return.                           *)
THEOREM CommandClaimsOnce == PipelineSpec => []OneClaimPerCommand
<1>1. PipelineInv => OneClaimPerCommand
  BY DEF PipelineInv, AttemptInv, OneClaimPerCommand
<1> QED BY <1>1, PipelineInvHolds, PTL

(* Whoever reads "claimed": false may claim again: the command left no     *)
(* transaction behind, and none of its claims is mined later.              *)
THEOREM TimeoutIsAlwaysUnclaimed == PipelineSpec => []TimeoutIsUnclaimed
<1>1. PipelineInv => TimeoutIsUnclaimed
  BY DEF PipelineInv, EndInv, TimeoutIsUnclaimed, OursSucceeded, OursInFlight
<1> QED BY <1>1, PipelineInvHolds, PTL

(* Exit code 0 is given only when a transaction of the command itself      *)
(* processed the message, the only one it submitted, and the message is on *)
(* the source chain.                                                       *)
THEOREM SuccessIsAlwaysClaimed == PipelineSpec => []SuccessIsClaimed
<1>1. PipelineInv => SuccessIsClaimed
  <2> SUFFICES ASSUME PipelineInv, exit = OK
               PROVE  /\ OursSucceeded /\ ~OursInFlight
                      /\ status # "NEW"
                      /\ sendTx = "succeeded"
    BY DEF SuccessIsClaimed
  <2>1. status # "NEW" /\ OursSucceeded
    BY DEF PipelineInv, EndInv, AttemptInv, C!OutcomeIsHonest, OursSucceeded
  <2>2. ~OursInFlight
    BY <2>1 DEF PipelineInv, AttemptInv, C!OneClaimAtMost, OursSucceeded, OursInFlight
  <2>3. messageBlock \in Nat
    BY PipelineAssumption, ProberAssumption DEF PipelineInv, CommandTyped
  <2>4. sendTx = "succeeded"
    BY <2>1, <2>3, ProvableBySaved DEF PipelineInv, SourceInv
  <2> QED BY <2>1, <2>2, <2>4
<1> QED BY <1>1, PipelineInvHolds, PTL
-----------------------------------------------------------------------------
(* What a log on the chain backs stays above the message's block: a reorg  *)
(* of the source chain moves a message only while no such log is there.    *)
LEMMA BackedStays ==
    ASSUME TypeOK, messageBlock \in Nat, [PipelineNext]_pipelineVars,
           NEW c \in Nat, c >= messageBlock, BackedWithConfs(c)
    PROVE  c >= messageBlock'
<1>1. CASE SourceReorg /\ SourceStep
  <2>1. \A e \in saved : e.CheckpointBlock < messageBlock
    BY <1>1 DEF SourceReorg
  <2>2. \E e \in saved : e.CheckpointBlock = c
    BY DEF BackedWithConfs
  <2> QED BY <2>1, <2>2
<1>2. CASE ~(SourceReorg /\ SourceStep)
  <2>1. UNCHANGED messageBlock
    BY <1>2 DEF PipelineNext, CommandStep, Tick, SourceStep, DestinationStep, DestBridgeStep,
       pipelineVars
  <2> QED BY <2>1
<1> QED BY <1>1, <1>2

LEMMA HoldsStep ==
    ASSUME PipelineInv, ConfirmedInv, ConfirmedInv', HoldsInv, [PipelineNext]_pipelineVars
    PROVE  HoldsInv'
<1> USE DEF HoldsInv
<1>n. /\ TypeOK /\ messageBlock \in Nat
      /\ result.CheckpointBlock \in Nat /\ bestCheckpoint \in Nat
  <2>1. TypeOK /\ messageBlock \in Nat
    BY PipelineAssumption, ProberAssumption DEF PipelineInv, CommandTyped
  <2> QED BY <2>1, ChainNumbers
<1>1. CASE ProbeStep /\ CommandStep
  <2>1. UNCHANGED messageBlock
    BY <1>1 DEF CommandStep
  <2>2. CASE BlockNumber
    BY <2>1, <2>2 DEF BlockNumber
  <2>3. CASE Fetch
    BY <2>1, <2>3 DEF Fetch
  <2>4. CASE BuildProof
    BY <1>1, <2>1, <2>4 DEF BuildProof, ProbeStep, StorageProofValue
  <2>5. CASE CheckMessage
    BY <2>1, <2>5 DEF CheckMessage
  <2> QED BY <1>1, <2>2, <2>3, <2>4, <2>5 DEF ProbeStep, Probe
<1>2. CASE ~(ProbeStep /\ CommandStep)
  <2>1. UNCHANGED <<bestCheckpoint, result>> /\ (pc' = pc \/ pc' = "failed")
    BY <1>2 DEF PipelineNext, CommandStep, SetupFails, Setup, Send, SendReturned, ProbeFails,
       CallFails, Decide, Claim, ClaimReturned, CheckDeadline, Sleep, Tick, SourceStep,
       DestinationStep, DestBridgeStep, pipelineVars, commandVars, probeVars
  <2>2. ASSUME result.CheckpointBlock # 0
        PROVE  result.CheckpointBlock >= messageBlock'
    <3>1. BackedWithConfs(result.CheckpointBlock)
      BY <2>2 DEF ConfirmedInv
    <3> QED BY <1>n, <2>2, <3>1, BackedStays
  <2>3. ASSUME pc = "CheckMessage"
        PROVE  bestCheckpoint >= messageBlock'
    <3>1. BackedWithConfs(bestCheckpoint)
      BY <2>3 DEF ConfirmedInv, BestIsConfirmed
    <3> QED BY <1>n, <2>3, <3>1, BackedStays
  <2> QED BY <2>1, <2>2, <2>3
<1> QED BY <1>1, <1>2

LEMMA HoldsInvHolds ==
    ASSUME NoWrap, ConfsCoverReorgs
    PROVE  PipelineSpec => [](PipelineInv /\ ConfirmedInv /\ HoldsInv)
<1>1. PipelineSpec => []ConfirmedInv
  BY ProberRuns, ConfirmedInvHolds, PTL
<1>2. PipelineInit => HoldsInv
  BY DEF PipelineInit, Init, NewProber, HoldsInv
<1>3. PipelineInv /\ ConfirmedInv /\ ConfirmedInv' /\ HoldsInv /\ [PipelineNext]_pipelineVars
        => HoldsInv'
  BY HoldsStep
<1> QED BY <1>1, <1>2, <1>3, PipelineInvHolds, PTL DEF PipelineSpec

(* A reorg of the source chain never leaves a claim without its message:   *)
(* the prober starts from the block of the receipt, but what it settles on *)
(* was proved, and the confirmations keep the log of it on the chain.      *)
THEOREM ClaimAlwaysHoldsMessage ==
    ASSUME NoWrap, ConfsCoverReorgs
    PROVE  PipelineSpec => []ClaimHoldsMessage
<1>1. PipelineInv /\ HoldsInv => ClaimHoldsMessage
  BY DEF PipelineInv, StageInv, HoldsInv, ClaimHoldsMessage
<1> QED BY <1>1, HoldsInvHolds, PTL

(* When exit code 0 is given, the checkpoint that the claim was proved     *)
(* with lies --checkpoint-confs blocks deep.                               *)
THEOREM SuccessIsAlwaysConfirmed ==
    ASSUME NoWrap, ConfsCoverReorgs
    PROVE  PipelineSpec => []SuccessIsConfirmed
<1>1. PipelineInv /\ ConfirmedInv => SuccessIsConfirmed
  BY DEF PipelineInv, EndInv, ConfirmedInv, SuccessIsConfirmed
<1> QED BY <1>1, HoldsInvHolds, PTL
-----------------------------------------------------------------------------
(* What the user of a transfer sees of the pipeline.                       *)
Released == IF status = "NEW" THEN "no" ELSE IF OursSucceeded THEN "ours" ELSE "theirs"
Report == IF exit = Running THEN "none" ELSE IF exit = OK THEN "ok" ELSE "failed"
SameLock == (sendTx' = "succeeded") <=> (sendTx = "succeeded")
SameProof == Provable' <=> Provable
SameRelease == Released' = Released
SameReport == Report' = Report

(* What a step of the pipeline may do to the transfer.                     *)
ReportOnly ==
    /\ SameLock /\ SameProof /\ SameRelease
    /\ \/ SameReport
       \/ Report = "none" /\ Report' = "ok" /\ Released = "ours"
       \/ Report = "none" /\ Report' = "failed"

LockOnly ==
    /\ SameProof /\ SameRelease /\ SameReport
    /\ \/ SameLock
       \/ sendTx # "succeeded" /\ sendTx' = "succeeded"
       \/ sendTx = "succeeded" /\ sendTx' # "succeeded" /\ ~Provable

ProofOnly ==
    /\ SameLock /\ SameRelease /\ SameReport
    /\ \/ SameProof
       \/ ~Provable /\ Provable' /\ sendTx = "succeeded"
       \/ Provable /\ ~Provable' /\ Released = "no"

ReleaseOnly ==
    /\ SameLock /\ SameProof /\ SameReport
    /\ \/ SameRelease
       \/ Provable /\ Released = "no" /\ Released' \in {"ours", "theirs"}

(* Each of these is a step of the abstract transfer, or none.              *)
LEMMA TransferStep ==
    ASSUME ReportOnly \/ LockOnly \/ ProofOnly \/ ReleaseOnly
    PROVE  [T!TransferNext]_(T!transferVars)
<1>1. Provable \in BOOLEAN /\ (Provable \in BOOLEAN)'
  BY Zenon DEF Provable, IsMessageReceived
<1>2. CASE ReportOnly
  BY <1>1, <1>2, Zenon
     DEF ReportOnly, SameLock, SameProof, SameRelease, SameReport, Released, Report, T!TransferNext,
         T!transferVars, T!Report
<1>3. CASE LockOnly
  BY <1>1, <1>3, Zenon
     DEF LockOnly, SameLock, SameProof, SameRelease, SameReport, Released, Report, T!TransferNext,
         T!transferVars, T!Lock, T!Unlock
<1>4. CASE ProofOnly
  BY <1>1, <1>4, Zenon
     DEF ProofOnly, SameLock, SameProof, SameRelease, SameReport, Released, Report, T!TransferNext,
         T!transferVars, T!Prove, T!Unprove
<1>5. CASE ReleaseOnly
  BY <1>1, <1>5, Zenon
     DEF ReleaseOnly, SameLock, SameProof, SameRelease, SameReport, Released, Report, T!TransferNext,
         T!transferVars, T!Release
<1> QED BY <1>2, <1>3, <1>4, <1>5

(* The command reports; whatever else it does, the transfer does not see.  *)
LEMMA CommandReports ==
    ASSUME PipelineInv, CommandStep
    PROVE  ReportOnly
<1>1. UNCHANGED <<saved, destHead, messageBlock, status>>
  BY DEF CommandStep, chainVars
<1>2. SameProof
  BY <1>1 DEF SameProof, Provable, IsMessageReceived
<1>3. SameLock
  <2>1. CASE Setup \/ Send
    <3>1. S!StartSend \/ S!SendProgress
      BY <2>1 DEF Setup, Send
    <3>2. sendTx' = sendTx \/ (sendTx = "unsent" /\ sendTx' # "succeeded")
      BY <3>1 DEF PipelineInv, SourceInv, S!StartSend, S!SendProgress, S!SendAnswers, S!SendChainID,
         S!Build, S!Submit, S!SubmitFails, S!SendReceipt, S!Parse, S!SendCallFails, S!SendDeadline
    <3> QED BY <3>2 DEF SameLock
  <2>2. CASE ~(Setup \/ Send)
    <3>1. UNCHANGED sendTx
      BY <2>2 DEF CommandStep, SetupFails, SendReturned, ProbeStep, ProbeFails, Decide, Claim,
         ClaimReturned, CheckDeadline, Sleep
    <3> QED BY <3>1 DEF SameLock
  <2> QED BY <2>1, <2>2
<1>4. SameRelease
  <2>1. CASE status = "NEW"
    BY <1>1, <2>1 DEF SameRelease, Released
  <2>2. CASE status # "NEW"
    <3>1. UNCHANGED claimTx
      BY <2>2 DEF CommandStep, SetupFails, Setup, Send, SendReturned, ProbeStep, ProbeFails, Decide,
         Claim, ClaimReturned, CheckDeadline, Sleep, C!StartProcess, C!ProcessStep, C!CheckReceived,
         C!ChainID, C!ProcessMessage, C!ProcessMessageFails, C!ReceiptFound, C!ClaimCallFails,
         C!ClaimDeadline
    <3>2. OursSucceeded' = OursSucceeded
      BY <3>1 DEF OursSucceeded, C!Submitted
    <3> QED BY <1>1, <3>2 DEF SameRelease, Released
  <2> QED BY <2>1, <2>2
<1>5. CASE UNCHANGED exit
  BY <1>2, <1>3, <1>4, <1>5 DEF ReportOnly, SameReport, Report
<1>6. CASE ClaimReturned /\ outcome = "claimed" /\ Exit(OK, "none", "claimed")
  <2>1. exit = Running /\ Running # OK
    BY <1>6 DEF PipelineInv, StageInv, ClaimReturned, Running, OK
  <2>2. Report = "none" /\ Report' = "ok"
    BY <1>6, <2>1 DEF Report, Exit
  <2>3. Released = "ours"
    BY <1>6 DEF PipelineInv, AttemptInv, C!OutcomeIsHonest, Released, OursSucceeded
  <2> QED BY <1>2, <1>3, <1>4, <2>2, <2>3 DEF ReportOnly
<1>7. CASE exit' \in {ConfigError, Validation, TimeoutCode, RPCOrProof, Unexpected}
  <2>1. exit = Running
    BY DEF PipelineInv, StageInv, CommandStep, SetupFails, Setup, Send, SendReturned, ProbeStep,
       ProbeFails, Decide, Claim, ClaimReturned, CheckDeadline, Sleep
  <2>2. Report = "none" /\ Report' = "failed"
    BY <1>7, <2>1 DEF Report, Running, OK, ConfigError, Validation, TimeoutCode, RPCOrProof, Unexpected
  <2> QED BY <1>2, <1>3, <1>4, <2>2 DEF ReportOnly
<1> QED
  BY <1>5, <1>6, <1>7 DEF CommandStep, SetupFails, Setup, Send, SendReturned, ProbeStep, ProbeFails,
     Decide, Claim, ClaimReturned, EmitClaimed, CheckDeadline, Sleep, Exit, endVars

(* The source chain locks the assets, and a reorg takes the lock back only *)
(* while nothing proves it.                                                *)
LEMMA SourceLocks ==
    ASSUME PipelineInv, SourceStep
    PROVE  LockOnly
<1>1. UNCHANGED <<saved, destHead, status, claimTx, exit>>
  BY DEF SourceStep, chainVars, commandVars, endVars
<1>2. SameRelease /\ SameReport
  BY <1>1 DEF SameRelease, SameReport, Released, Report, OursSucceeded, C!Submitted
<1>3. CASE S!MineSend /\ UNCHANGED messageBlock
  <2>1. SameProof
    BY <1>1, <1>3 DEF SameProof, Provable, IsMessageReceived
  <2> QED BY <1>2, <1>3, <2>1 DEF LockOnly, SameLock, S!MineSend
<1>4. CASE SourceReorg
  <2>1. /\ messageBlock \in Nat /\ messageBlock' = messageBlock + 1
        /\ \A e \in saved : e.CheckpointBlock < messageBlock /\ e.CheckpointBlock \in Nat
    BY <1>4, ChainNumbers, PipelineAssumption, ProberAssumption
       DEF SourceReorg, PipelineInv, CommandTyped
  <2>2. ~Provable
    BY <2>1, ProvableBySaved DEF PipelineInv
  <2>3. ~Provable'
    <3>1. \A e \in saved' : ~(messageBlock' <= e.CheckpointBlock)
      BY <1>1, <2>1
    <3> QED BY <3>1 DEF Provable, IsMessageReceived
  <2> QED BY <1>2, <1>4, <2>2, <2>3 DEF LockOnly, SameLock, SameProof, SourceReorg
<1> QED BY <1>3, <1>4 DEF SourceStep

(* A checkpoint proves the lock, or a reorg takes back one that nothing    *)
(* rests on.                                                               *)
LEMMA DestinationProves ==
    ASSUME PipelineInv, DestinationStep
    PROVE  ProofOnly
<1>1. UNCHANGED <<messageBlock, sendTx, status, claimTx, exit>>
  BY DEF DestinationStep, commandVars, endVars
<1>2. SameLock /\ SameRelease /\ SameReport
  BY <1>1 DEF SameLock, SameRelease, SameReport, Released, Report, OursSucceeded, C!Submitted
<1>3. CASE ~Provable /\ Provable'
  <2>1. PICK e \in saved' : messageBlock <= e.CheckpointBlock
    BY <1>1, <1>3 DEF Provable, IsMessageReceived
  <2>2. messageBlock \in Nat
    BY PipelineAssumption, ProberAssumption DEF PipelineInv, CommandTyped
  <2>n. e.CheckpointBlock \in Nat
    <3>1. ChainTypeOK'
      BY ChainStepType DEF DestinationStep, PipelineInv, TypeOK
    <3> QED BY <3>1 DEF ChainTypeOK, CheckpointEvent, SourceBlocks
  <2>3. e \notin saved
    BY <1>3, <2>1, <2>2, <2>n, ProvableBySaved DEF PipelineInv
  <2>4. sendTx = "succeeded"
    BY <2>1, <2>2, <2>3, <2>n DEF DestinationStep
  <2> QED BY <1>2, <1>3, <2>4 DEF ProofOnly
<1>4. CASE Provable /\ ~Provable'
  BY <1>2, <1>4 DEF ProofOnly, DestinationStep, Released
<1>5. CASE SameProof
  BY <1>2, <1>5 DEF ProofOnly
<1> QED BY <1>3, <1>4, <1>5 DEF SameProof

(* The bridge releases once, to us or to another claimer of the message.   *)
LEMMA BridgeReleases ==
    ASSUME PipelineInv, DestBridgeStep
    PROVE  ReleaseOnly
<1>1. UNCHANGED <<saved, destHead, messageBlock, sendTx, exit>>
  BY DEF DestBridgeStep, chainVars, commandVars, endVars
<1>2. SameLock /\ SameProof /\ SameReport
  BY <1>1 DEF SameLock, SameProof, SameReport, Report, Provable, IsMessageReceived
<1>3. CASE status = "NEW" /\ status' # "NEW"
  <2>1. Received => Provable
    BY ProvableBySaved, PipelineAssumption, ProberAssumption DEF PipelineInv, CommandTyped
  <2>2. Provable
    BY <1>3, <2>1 DEF DestBridgeStep, C!BridgeStep, C!MineClaim, C!RelayerClaims, C!OwnerRetries
  <2> QED BY <1>2, <1>3, <2>2 DEF ReleaseOnly, Released
<1>4. CASE status = "NEW" /\ status' = "NEW"
  BY <1>2, <1>4 DEF ReleaseOnly, SameRelease, Released
<1>5. CASE status # "NEW"
  <2>1. status' # "NEW"
    BY <1>5 DEF DestBridgeStep, C!BridgeStep, C!MineClaim, C!RelayerClaims, C!OwnerRetries, C!Processed
  <2>2. OursSucceeded' <=> OursSucceeded
    <3>1. CASE UNCHANGED claimTx
      BY <3>1 DEF OursSucceeded, C!Submitted
    <3>2. CASE C!MineClaim
      <4>1. PICK i \in 1..MaxClaimTxs :
              claimTx[i] = "pending" /\ claimTx' = [claimTx EXCEPT ![i] = "reverted"]
        BY <1>5, <3>2 DEF C!MineClaim
      <4>2. claimTx \in [1..MaxClaimTxs -> C!TxStates]
        BY DEF PipelineInv, AttemptInv, C!ClaimTypeOK
      <4> QED BY <4>1, <4>2 DEF OursSucceeded, C!Submitted
    <3> QED BY <3>1, <3>2 DEF DestBridgeStep, C!BridgeStep, C!RelayerClaims, C!OwnerRetries
  <2> QED BY <1>2, <1>5, <2>1, <2>2 DEF ReleaseOnly, SameRelease, Released
<1> QED BY <1>3, <1>4, <1>5

(* A claim command, the chains and the relayers together behave like a     *)
(* transfer: every release was locked and proved before, there is one, and *)
(* success is reported for a release of the command's own.                 *)
THEOREM PipelineIsATransfer == PipelineSpec => PipelineIsTransfer
<1>1. PipelineInit => T!TransferInit
  <2> SUFFICES ASSUME PipelineInit PROVE T!TransferInit
    OBVIOUS
  <2>1. saved = {}
    BY DEF PipelineInit, Init, ChainInit
  <2>2. ~Provable
    BY <2>1 DEF Provable, IsMessageReceived
  <2> QED BY <2>2 DEF PipelineInit, S!SendInit, T!TransferInit
<1>2. PipelineInv /\ [PipelineNext]_pipelineVars => [T!TransferNext]_(T!transferVars)
  <2> SUFFICES ASSUME PipelineInv, [PipelineNext]_pipelineVars
               PROVE  [T!TransferNext]_(T!transferVars)
    OBVIOUS
  <2>1. CASE CommandStep
    BY <2>1, CommandReports, TransferStep
  <2>2. CASE SourceStep
    BY <2>2, SourceLocks, TransferStep
  <2>3. CASE DestinationStep
    BY <2>3, DestinationProves, TransferStep
  <2>4. CASE DestBridgeStep
    BY <2>4, BridgeReleases, TransferStep
  <2>5. CASE Tick \/ UNCHANGED pipelineVars
    <3>1. UNCHANGED <<saved, destHead, messageBlock, sendTx, status, claimTx, exit>>
      BY <2>5 DEF Tick, pipelineVars, chainVars, commandVars, endVars
    <3>2. ReportOnly
      BY <3>1 DEF ReportOnly, SameLock, SameProof, SameRelease, SameReport, Released, Report,
         OursSucceeded, C!Submitted, Provable, IsMessageReceived
    <3> QED BY <3>2, TransferStep
  <2> QED BY <2>1, <2>2, <2>3, <2>4, <2>5 DEF PipelineNext
<1> QED BY <1>1, <1>2, PipelineInvHolds, PTL DEF PipelineSpec, PipelineIsTransfer, T!TransferSpec
=============================================================================
