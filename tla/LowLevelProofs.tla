---------------------------- MODULE LowLevelProofs ----------------------------
(***************************************************************************)
(* Proofs about the low-level commands, for every chain, every number of   *)
(* invocations one after another and every interleaving with the bridge:   *)
(* what the exit code of claim says of this invocation's transaction, and  *)
(* that the two halves of what status reports fit together.                *)
(***************************************************************************)
EXTENDS LowLevelCommands, ProberProofs

(* The invocation itself.                                                  *)
RunTyped ==
    /\ command \in Commands
    /\ stage \in Stages
    /\ reported \in C!Statuses \cup {"none"}
    /\ readAt \in DestBlocks
    /\ exit \in {OK, ConfigError, Validation, TimeoutCode, TxReverted, NotReady,
                 RPCOrProof, Unexpected, Running}
    /\ payload \in {"none", "ready", "notReady", "claimed"}
    /\ outages \in 0..MaxOutages

CtxTyped ==
    /\ ctxDone \in BOOLEAN
    /\ waitDone \in BOOLEAN
    /\ waitDone => ctxDone

ClaimTyped ==
    /\ status \in C!Statuses
    /\ step \in C!ClaimSteps \cup {"returned"}
    /\ outcome \in C!Outcomes
    /\ step \in C!ClaimSteps => outcome = "none"

TxTyped ==
    /\ claimTx \in [1..MaxClaimTxs -> C!TxStates]
    /\ proof \in [1..MaxClaimTxs -> SourceBlocks]
    /\ earlier \subseteq C!Submitted

(* This invocation has one transaction at most, submitted after those of   *)
(* earlier ones; there is none before the call that submits, and one while *)
(* the receipt is waited for.                                              *)
MineInv ==
    /\ \A i, j \in Mine : i = j
    /\ \A i \in Mine : \A j \in earlier : j < i
    /\ step \in {"IsMessageReceived", "ChainID", "ProcessMessage"} => Mine = {}
    /\ step = "TransactionReceipt" => Mine # {}

(* What Process has returned is about that transaction.                    *)
OutcomeInv ==
    /\ outcome = "ErrNotReady" => Mine = {}
    /\ outcome = "claimed" => Mine # {} /\ \A i \in Mine : claimTx[i] = "succeeded"
    /\ outcome = "ErrReverted" => Mine # {} /\ \A i \in Mine : claimTx[i] = "reverted"
    /\ \A i \in C!Submitted : claimTx[i] = "succeeded" => status # "NEW"

(* Process runs in the claim stage only, and only there is anything        *)
(* submitted.                                                              *)
StageInv ==
    /\ (exit = Running) = (stage # "exited")
    /\ stage \notin {"claim", "exited"} => step = "returned" /\ outcome = "none" /\ Mine = {}
    /\ stage = "claim" => command = "claim"

(* The exit codes that say something of the claim.                         *)
ExitInv ==
    /\ command = "claim" /\ exit = OK => outcome = "claimed"
    /\ exit = TxReverted => outcome = "ErrReverted"
    /\ exit = NotReady => outcome = "ErrNotReady"
    /\ exit = TimeoutCode => Mine = {}

RunInv ==
    TypeOK /\ RunTyped /\ CtxTyped /\ ClaimTyped /\ TxTyped /\ MineInv /\ OutcomeInv
    /\ StageInv /\ ExitInv

(* Reads are answered by the newest node, the log index lags no further    *)
(* behind than the confirmations asked for, and no block is replaced.      *)
CurrentReads == ReorgDepth = 0 /\ HeadLag = 0 /\ LogLag <= CheckpointConfs

(* A log that had its confirmations when the message's status was read.    *)
Settled == \E e \in saved : Qualifies(e) /\ HasConfs(e, readAt)

(* A log backs the checkpoint that the probe is about to prove with.       *)
BestIsBacked ==
    bestCheckpoint # 0 /\ \E e \in saved : e.CheckpointBlock = bestCheckpoint /\ Qualifies(e)

(* The one probe of status starts from block 0, sees every log that was    *)
(* settled before it started, and what it sees backs its answer.           *)
SnapshotInv ==
    /\ readAt <= destHead /\ destHead = highHead
    /\ command = "status" =>
         /\ stage \notin {"sleep", "claim"}
         /\ stage \in {"setup", "readMessageSent", "messageStatus"} => pc = "BlockNumber"
         /\ /\ stage \in {"setup", "readMessageSent", "messageStatus", "probe"}
            /\ pc \in {"BlockNumber", "Fetch"}
            => nextLogBlock = 0 /\ bestCheckpoint = 0
         /\ stage = "probe" =>
              /\ pc = "Fetch" => readAt <= head
              /\ pc \in {"BuildProof", "CheckMessage"} => BestIsBacked
         /\ stage = "probed" /\ Settled => result.Ready
         /\ exit = OK /\ Settled => payload = "ready"
-----------------------------------------------------------------------------
(* Within an invocation the prober takes steps of its own specification.   *)
LEMMA ProberStep ==
    ASSUME [LowLevelNext]_lowLevelVars, ~UserStep
    PROVE  [Next]_vars
<1>1. CASE CommandStep
  <2>1. UNCHANGED <<destHead, highHead, saved>>
    BY <1>1 DEF CommandStep, chainVars
  <2>2. Probe \/ CallFails \/ UNCHANGED probeVars
    BY <1>1 DEF CommandStep, Setup, SetupFails, ReadMessageSent, MessageStatus, ReadFails, ProbeStep,
       ProbeFails, ReportProbe, WaitReturns, WaitGoesOn, Sleep, Claim, ClaimReturned
  <2> QED BY <2>1, <2>2 DEF Next, chainVars, vars, probeVars
<1>2. CASE DestinationStep
  <2>1. ChainNext /\ UNCHANGED <<pc, head, nextLogBlock, bestCheckpoint, result>>
    BY <1>2 DEF DestinationStep, probeVars
  <2> QED BY <2>1 DEF Next, probeVars
<1>3. CASE TimePasses \/ DestBridgeStep \/ UNCHANGED lowLevelVars
  <2>1. UNCHANGED <<destHead, highHead, saved, pc, head, nextLogBlock, bestCheckpoint, result>>
    BY <1>3 DEF TimePasses, DestBridgeStep, lowLevelVars, chainVars, probeVars
  <2> QED BY <2>1 DEF vars
<1> QED BY <1>1, <1>2, <1>3 DEF LowLevelNext

LEMMA TypeStep ==
    ASSUME TypeOK, [LowLevelNext]_lowLevelVars
    PROVE  TypeOK'
<1>1. CASE UserStep
  <2>1. PICK c \in Commands : Start(c)
    BY <1>1 DEF UserStep
  <2>2. ChainTypeOK'
    BY <2>1 DEF Start, StartInvocation, chainVars, TypeOK, ChainTypeOK
  <2>3. ProberTypeOK'
    BY <2>1, ChainAssumption DEF Start, ProberTypeOK, ProbeSteps, DestBlocks, SourceBlocks, Result
  <2> QED BY <2>2, <2>3 DEF TypeOK
<1>2. CASE ~UserStep
  BY <1>2, ProberStep, NextType
<1> QED BY <1>1, <1>2

(* The context ends before the deadline of Wait does.                      *)
LEMMA CtxStep ==
    ASSUME CtxTyped, [LowLevelNext]_lowLevelVars
    PROVE  CtxTyped'
<1>1. CASE UserStep
  BY <1>1 DEF UserStep, Start, StartInvocation, CtxTyped
<1>2. CASE TimePasses
  BY <1>2 DEF TimePasses, ContextEnds, WaitDeadlinePasses, CtxTyped
<1>3. CASE ~(UserStep \/ TimePasses)
  <2>1. UNCHANGED <<ctxDone, waitDone>>
    BY <1>3 DEF LowLevelNext, CommandStep, DestBridgeStep, DestinationStep, lowLevelVars, runVars
  <2> QED BY <2>1 DEF CtxTyped
<1> QED BY <1>1, <1>2, <1>3

LEMMA RunTypeStep ==
    ASSUME TypeOK, RunTyped, ClaimTyped, [LowLevelNext]_lowLevelVars
    PROVE  RunTyped'
<1>n. outages \in 0..MaxOutages /\ MaxOutages \in Nat /\ MaxHead \in Nat
  BY CommandsAssumption, ChainAssumption DEF RunTyped
<1>1. command' \in Commands
  BY DEF RunTyped, LowLevelNext, UserStep, Start, StartInvocation, CommandStep, TimePasses,
     DestBridgeStep, DestinationStep, lowLevelVars, runVars
<1>2. outages' \in 0..MaxOutages
  <2>1. Outage \/ UNCHANGED outages
    BY DEF LowLevelNext, UserStep, Start, StartInvocation, CommandStep, TimePasses, DestBridgeStep,
       DestinationStep, lowLevelVars, ContextEnds, WaitDeadlinePasses, Setup, SetupFails,
       ReadMessageSent, MessageStatus, ReadFails, ProbeStep, ProbeFails, ReportProbe, WaitReturns,
       WaitGoesOn, Sleep, Claim, ClaimReturned, Disrupted, Emit
  <2> QED BY <1>n, <2>1 DEF Outage
<1>3. reported' \in C!Statuses \cup {"none"} /\ readAt' \in DestBlocks
  <2>1. CASE UserStep
    BY <2>1, <1>n DEF UserStep, Start, StartInvocation, DestBlocks
  <2>2. CASE CommandStep /\ MessageStatus
    BY <2>2 DEF MessageStatus, ClaimTyped, TypeOK, ChainTypeOK
  <2>3. CASE ~(UserStep \/ (CommandStep /\ MessageStatus))
    <3>1. UNCHANGED readVars
      BY <2>3 DEF LowLevelNext, CommandStep, TimePasses, DestBridgeStep, DestinationStep,
         lowLevelVars, Setup, SetupFails, ReadMessageSent, ReadFails, ProbeStep, ProbeFails,
         ReportProbe, WaitReturns, WaitGoesOn, Sleep, Claim, ClaimReturned
    <3> QED BY <3>1 DEF RunTyped, readVars
  <2> QED BY <2>1, <2>2, <2>3
<1>4. /\ stage' \in Stages
      /\ exit' \in {OK, ConfigError, Validation, TimeoutCode, TxReverted, NotReady,
                     RPCOrProof, Unexpected, Running}
      /\ payload' \in {"none", "ready", "notReady", "claimed"}
  <2>1. CASE UserStep
    BY <2>1 DEF UserStep, Start, StartInvocation, Stages
  <2>2. CASE CommandStep
    <3>1. \/ \E s \in Stages : GoTo(s)
          \/ UNCHANGED <<stage, endVars>>
          \/ \E code \in {OK, ConfigError, Validation, TimeoutCode, TxReverted, NotReady, RPCOrProof,
                          Unexpected},
                p \in {"none", "ready", "notReady", "claimed"} : Exit(code, p)
      <4> USE DEF Stages
      <4>1. CASE Setup \/ ReadMessageSent \/ MessageStatus \/ ProbeStep
        BY <4>1 DEF Setup, ReadMessageSent, MessageStatus, ProbeStep
      <4>2. CASE SetupFails \/ ReadFails \/ ProbeFails \/ ReportProbe
        BY <4>2 DEF SetupFails, ReadFails, ProbeFails, ReportProbe, Emit
      <4>3. CASE WaitReturns \/ WaitGoesOn \/ Sleep
        BY <4>3 DEF WaitReturns, WaitGoesOn, Sleep, Emit
      <4>4. CASE Claim \/ ClaimReturned
        BY <4>4 DEF Claim, ClaimReturned, Emit
      <4> QED BY <2>2, <4>1, <4>2, <4>3, <4>4 DEF CommandStep
    <3> QED BY <3>1 DEF GoTo, Exit, endVars, Stages, RunTyped
  <2>3. CASE ~(UserStep \/ CommandStep)
    <3>1. UNCHANGED <<stage, exit, payload>>
      BY <2>3 DEF LowLevelNext, TimePasses, DestBridgeStep, DestinationStep, lowLevelVars, endVars
    <3> QED BY <3>1 DEF RunTyped
  <2> QED BY <2>1, <2>2, <2>3
<1> QED BY <1>1, <1>2, <1>3, <1>4 DEF RunTyped
-----------------------------------------------------------------------------
AttemptInv == ClaimTyped /\ TxTyped /\ MineInv /\ OutcomeInv

(* waitReceipt polls for the transaction of this invocation, although      *)
(* those of earlier ones may still be in the mempool.                      *)
LEMMA CurrentIsMine ==
    ASSUME TxTyped, MineInv, Mine # {}
    PROVE  C!Current \in Mine /\ Mine = {C!Current}
<1>1. PICK i : i \in Mine
  OBVIOUS
<1>2. i \in C!Submitted /\ i \in Nat
  BY <1>1 DEF Mine, C!Submitted
<1>3. \A j \in C!Submitted : j <= i
  <2> SUFFICES ASSUME NEW j \in C!Submitted PROVE j <= i
    OBVIOUS
  <2>1. j \in Nat
    BY DEF C!Submitted
  <2>2. CASE j \in Mine
    BY <1>1, <1>2, <2>2 DEF MineInv
  <2>3. CASE j \notin Mine
    <3>1. j \in earlier
      BY <2>3 DEF Mine
    <3> QED BY <1>1, <1>2, <2>1, <3>1 DEF MineInv
  <2> QED BY <2>2, <2>3
<1>4. \A k \in C!Submitted : (\A j \in C!Submitted : j <= k) => k = i
  <2>1. \A k \in C!Submitted : k \in Nat
    BY DEF C!Submitted
  <2> QED BY <1>2, <1>3, <2>1
<1>5. C!Current = i
  BY <1>2, <1>3, <1>4 DEF C!Current
<1> QED BY <1>1, <1>5 DEF MineInv

(* The transaction that enters the mempool is the only one of this         *)
(* invocation, and comes after those of earlier ones.                      *)
LEMMA AcceptIsMine ==
    ASSUME TxTyped, Mine = {}, C!Accept, UNCHANGED earlier
    PROVE  \E i \in 1..MaxClaimTxs :
             /\ claimTx' = [claimTx EXCEPT ![i] = "pending"]
             /\ claimTx' \in [1..MaxClaimTxs -> C!TxStates]
             /\ claimTx'[i] = "pending"
             /\ C!Submitted' = C!Submitted \cup {i}
             /\ Mine' = {i}
             /\ \A j \in earlier : j < i
<1>1. PICK i \in (1..MaxClaimTxs) \ C!Submitted :
        /\ \A j \in C!Submitted : j < i
        /\ claimTx' = [claimTx EXCEPT ![i] = "pending"]
  BY DEF C!Accept
<1>2. /\ claimTx' \in [1..MaxClaimTxs -> C!TxStates]
      /\ claimTx'[i] = "pending"
      /\ \A j \in 1..MaxClaimTxs : j # i => claimTx'[j] = claimTx[j]
  BY <1>1 DEF TxTyped, C!TxStates
<1>3. C!Submitted' = C!Submitted \cup {i}
  BY <1>1, <1>2 DEF C!Submitted
<1>4. earlier = C!Submitted
  BY DEF TxTyped, Mine
<1>5. Mine' = {i} /\ \A j \in earlier : j < i
  BY <1>1, <1>3, <1>4 DEF Mine
<1> QED BY <1>1, <1>2, <1>3, <1>5

(* A call of Process, and what it is proved with.                          *)
LEMMA ProcessKeeps ==
    ASSUME TypeOK, AttemptInv, Claim, UNCHANGED <<status, earlier>>
    PROVE  AttemptInv'
<1> USE DEF AttemptInv
<1>p. ASSUME claimTx' \in [1..MaxClaimTxs -> C!TxStates]
      PROVE  (proof \in [1..MaxClaimTxs -> SourceBlocks])'
  <2>1. result.CheckpointBlock \in SourceBlocks
    BY DEF TypeOK, ProberTypeOK, Result
  <2> QED BY <2>1 DEF Claim, TxTyped
<1>0. ASSUME UNCHANGED claimTx
      PROVE  /\ C!Submitted' = C!Submitted /\ Mine' = Mine
             /\ TxTyped'
  <2>1. C!Submitted' = C!Submitted /\ Mine' = Mine
    BY <1>0 DEF C!Submitted, Mine
  <2> QED BY <1>0, <1>p, <2>1 DEF TxTyped
<1>r. ASSUME NEW o \in C!Outcomes \ {"none"}, C!Return(o)
      PROVE  ClaimTyped' /\ step' = "returned" /\ outcome' = o
  BY <1>r DEF C!Return, ClaimTyped, C!ClaimSteps
<1>1. CASE C!CheckReceived
  <2>1. step = "IsMessageReceived" /\ Mine = {} /\ UNCHANGED claimTx
        /\ (C!GoTo("ChainID") \/ C!Return("ErrNotReady"))
    BY <1>1 DEF C!CheckReceived, C!CallAnswers, MineInv
  <2>2. CASE C!GoTo("ChainID")
    BY <1>0, <2>1, <2>2 DEF C!GoTo, ClaimTyped, C!ClaimSteps, MineInv, OutcomeInv
  <2>3. CASE C!Return("ErrNotReady")
    <3>1. ClaimTyped' /\ step' = "returned" /\ outcome' = "ErrNotReady"
      BY <1>r, <2>3 DEF C!Outcomes, C!ProcessErrors
    <3> QED BY <1>0, <2>1, <3>1 DEF MineInv, OutcomeInv
  <2> QED BY <2>1, <2>2, <2>3
<1>2. CASE C!ChainID
  BY <1>0, <1>2
     DEF C!ChainID, C!CallAnswers, C!GoTo, ClaimTyped, C!ClaimSteps, MineInv, OutcomeInv
<1>3. CASE C!Accept /\ step = "ProcessMessage" /\ (C!GoTo("TransactionReceipt") \/ C!Return("rpc"))
  <2>1. Mine = {} /\ outcome = "none"
    BY <1>3 DEF MineInv, ClaimTyped, C!ClaimSteps
  <2>2. PICK i \in 1..MaxClaimTxs :
          /\ claimTx' = [claimTx EXCEPT ![i] = "pending"]
          /\ claimTx' \in [1..MaxClaimTxs -> C!TxStates]
          /\ claimTx'[i] = "pending"
          /\ C!Submitted' = C!Submitted \cup {i}
          /\ Mine' = {i}
          /\ \A j \in earlier : j < i
    BY <1>3, <2>1, AcceptIsMine
  <2>3. TxTyped'
    BY <1>p, <2>2 DEF TxTyped
  <2>4. /\ ClaimTyped'
        /\ step' \in {"TransactionReceipt", "returned"} /\ outcome' \in {"none", "rpc"}
    BY <1>3, <2>1 DEF C!GoTo, C!Return, ClaimTyped, C!ClaimSteps, C!Outcomes, C!ProcessErrors
  <2>5. MineInv'
    BY <2>2, <2>4 DEF MineInv
  <2>6. \A j \in C!Submitted' : claimTx'[j] = "succeeded" => status' # "NEW"
    BY <2>2 DEF OutcomeInv, TxTyped
  <2> QED BY <2>3, <2>4, <2>5, <2>6 DEF OutcomeInv
<1>4. CASE C!ProcessMessageFails /\ UNCHANGED claimTx /\ (C!Return("ErrNotReady") \/ C!Return("rpc"))
  <2>1. Mine = {}
    BY <1>4 DEF C!ProcessMessageFails, C!CallAnswers, MineInv
  <2>2. ClaimTyped' /\ step' = "returned" /\ outcome' \in {"ErrNotReady", "rpc"}
    BY <1>4, <1>r DEF C!Outcomes, C!ProcessErrors
  <2> QED BY <1>0, <1>4, <2>1, <2>2 DEF MineInv, OutcomeInv
<1>5. CASE C!ReceiptFound
  <2>1. Mine = {C!Current} /\ UNCHANGED claimTx
    BY <1>5, CurrentIsMine DEF C!ReceiptFound, C!CallAnswers, MineInv
  <2>2. CASE claimTx[C!Current] = "succeeded" /\ C!Return("claimed")
    <3>1. ClaimTyped' /\ step' = "returned" /\ outcome' = "claimed"
      BY <1>r, <2>2 DEF C!Outcomes
    <3> QED BY <1>0, <2>1, <2>2, <3>1 DEF MineInv, OutcomeInv
  <2>3. CASE claimTx[C!Current] = "reverted" /\ C!Return("ErrReverted")
    <3>1. ClaimTyped' /\ step' = "returned" /\ outcome' = "ErrReverted"
      BY <1>r, <2>3 DEF C!Outcomes, C!ProcessErrors
    <3> QED BY <1>0, <2>1, <2>3, <3>1 DEF MineInv, OutcomeInv
  <2> QED BY <1>5, <2>2, <2>3 DEF C!ReceiptFound
<1>6. CASE C!ClaimCallFails \/ C!ClaimDeadline
  <2>1. UNCHANGED claimTx /\ (C!Return("rpc") \/ C!Return("DeadlineExceeded"))
    BY <1>6 DEF C!ClaimCallFails, C!ClaimDeadline
  <2>2. ClaimTyped' /\ step' = "returned" /\ outcome' \in {"rpc", "DeadlineExceeded"}
    BY <1>r, <2>1 DEF C!Outcomes, C!ProcessErrors
  <2> QED BY <1>0, <2>1, <2>2 DEF MineInv, OutcomeInv
<1> QED
  BY <1>1, <1>2, <1>3, <1>4, <1>5, <1>6
     DEF Claim, C!ProcessStep, C!ProcessMessage, C!ProcessMessageFails, C!CallAnswers

(* Transactions are mined and the message processed, by any of our         *)
(* invocations or by others.                                               *)
LEMMA BridgeKeeps ==
    ASSUME AttemptInv, DestBridgeStep
    PROVE  AttemptInv' /\ Mine' = Mine
<1> USE DEF AttemptInv
<1>1. CASE MineClaim
  <2>1. PICK i \in 1..MaxClaimTxs :
          /\ claimTx[i] = "pending"
          /\ \/ C!Processed /\ claimTx' = [claimTx EXCEPT ![i] = "succeeded"]
             \/ UNCHANGED status /\ claimTx' = [claimTx EXCEPT ![i] = "reverted"]
    BY <1>1 DEF MineClaim
  <2>2. UNCHANGED <<step, outcome, proof, earlier>>
    BY <1>1 DEF DestBridgeStep, MineClaim, attemptVars, runVars
  <2>3. /\ claimTx' \in [1..MaxClaimTxs -> C!TxStates]
        /\ \A j \in 1..MaxClaimTxs : j # i => claimTx'[j] = claimTx[j]
        /\ claimTx'[i] \in {"succeeded", "reverted"}
        /\ claimTx'[i] = "succeeded" => status' # "NEW"
        /\ status' \in C!Statuses
        /\ status # "NEW" => status' # "NEW"
    BY <2>1 DEF TxTyped, ClaimTyped, C!TxStates, C!Processed, C!Statuses
  <2>4. C!Submitted' = C!Submitted
    BY <2>1, <2>3 DEF C!Submitted
  <2>5. Mine' = Mine
    BY <2>2, <2>4 DEF Mine
  <2>6. \A j \in Mine : claimTx[j] # "pending" => claimTx'[j] = claimTx[j]
    BY <2>1, <2>3 DEF Mine, C!Submitted
  <2>7. TxTyped' /\ ClaimTyped' /\ MineInv'
    BY <2>2, <2>3, <2>4, <2>5 DEF TxTyped, ClaimTyped, MineInv
  <2>8. \A j \in C!Submitted : claimTx'[j] = "succeeded" => status' # "NEW"
    BY <2>3 DEF OutcomeInv, C!Submitted
  <2> QED BY <2>2, <2>4, <2>5, <2>6, <2>7, <2>8 DEF OutcomeInv
<1>2. CASE C!RelayerClaims \/ C!OwnerRetries
  <2>1. UNCHANGED <<step, outcome, claimTx, proof, earlier>> /\ status' \in {"RETRIABLE", "DONE"}
    BY <1>2 DEF C!RelayerClaims, C!OwnerRetries, C!Processed, C!processVars, DestBridgeStep, runVars
  <2>2. C!Submitted' = C!Submitted /\ Mine' = Mine
    BY <2>1 DEF C!Submitted, Mine
  <2> QED BY <2>1, <2>2 DEF ClaimTyped, TxTyped, C!Statuses, MineInv, OutcomeInv
<1> QED BY <1>1, <1>2 DEF DestBridgeStep

LEMMA FrameKeeps ==
    ASSUME AttemptInv, UNCHANGED <<status, step, outcome, claimTx, proof, earlier>>
    PROVE  AttemptInv' /\ Mine' = Mine
BY DEF AttemptInv, ClaimTyped, TxTyped, MineInv, OutcomeInv, Mine, C!Submitted
-----------------------------------------------------------------------------
LEMMA AttemptStep ==
    ASSUME TypeOK, AttemptInv, StageInv, [LowLevelNext]_lowLevelVars
    PROVE  AttemptInv'
<1>1. CASE UserStep
  <2>1. PICK c \in Commands : StartInvocation(c)
    BY <1>1 DEF UserStep, Start
  <2>2. /\ UNCHANGED <<status, claimTx, proof>> /\ step' = "returned" /\ outcome' = "none"
        /\ earlier' = C!Submitted
    BY <2>1 DEF StartInvocation, txVars
  <2>3. C!Submitted' = C!Submitted /\ Mine' = {}
    BY <2>2 DEF C!Submitted, Mine
  <2>4. ClaimTyped' /\ TxTyped'
    BY <2>2, <2>3 DEF AttemptInv, ClaimTyped, TxTyped, C!ClaimSteps, C!Outcomes
  <2>5. MineInv'
    BY <2>2, <2>3 DEF MineInv
  <2>6. OutcomeInv'
    BY <2>2, <2>3 DEF AttemptInv, OutcomeInv
  <2> QED BY <2>4, <2>5, <2>6 DEF AttemptInv
<1>2. CASE CommandStep /\ Claim
  BY <1>2, ProcessKeeps DEF CommandStep, runVars
<1>3. CASE CommandStep /\ C!StartProcess /\ WaitReturns
  <2>1. /\ Mine = {} /\ UNCHANGED <<claimTx, proof, status, earlier>>
        /\ step' = "IsMessageReceived" /\ outcome' = "none"
    BY <1>3 DEF CommandStep, WaitReturns, C!StartProcess, StageInv, runVars
  <2>2. C!Submitted' = C!Submitted /\ Mine' = {}
    BY <2>1 DEF C!Submitted, Mine
  <2>3. ClaimTyped' /\ TxTyped'
    BY <2>1, <2>2 DEF AttemptInv, ClaimTyped, TxTyped, C!ClaimSteps, C!Outcomes
  <2> QED BY <2>1, <2>2, <2>3 DEF AttemptInv, MineInv, OutcomeInv
<1>4. CASE DestBridgeStep
  BY <1>4, BridgeKeeps
<1>5. CASE ~(UserStep \/ DestBridgeStep \/ (CommandStep /\ (Claim \/ (C!StartProcess /\ WaitReturns))))
  <2>1. UNCHANGED <<status, step, outcome, claimTx, proof, earlier>>
    BY <1>5 DEF LowLevelNext, CommandStep, TimePasses, DestinationStep, lowLevelVars, Setup,
       SetupFails, ReadMessageSent, MessageStatus, ReadFails, ProbeStep, ProbeFails, ReportProbe,
       WaitReturns, WaitGoesOn, Sleep, ClaimReturned, attemptVars, txVars, runVars
  <2> QED BY <2>1, FrameKeeps
<1> QED BY <1>1, <1>2, <1>3, <1>4, <1>5

(* Only Process submits.                                                   *)
LEMMA MineStays ==
    ASSUME AttemptInv, [LowLevelNext]_lowLevelVars, ~UserStep, ~Claim
    PROVE  Mine' = Mine
<1>1. CASE DestBridgeStep
  BY <1>1, BridgeKeeps
<1>2. CASE ~DestBridgeStep
  <2>1. UNCHANGED <<claimTx, earlier>>
    BY <1>2 DEF LowLevelNext, CommandStep, TimePasses, DestinationStep, lowLevelVars, Setup,
       SetupFails, ReadMessageSent, MessageStatus, ReadFails, ProbeStep, ProbeFails, ReportProbe,
       WaitReturns, WaitGoesOn, Sleep, ClaimReturned, C!StartProcess, txVars, runVars
  <2> QED BY <2>1 DEF Mine, C!Submitted
<1> QED BY <1>1, <1>2

LEMMA StageStep ==
    ASSUME AttemptInv, StageInv, [LowLevelNext]_lowLevelVars
    PROVE  StageInv'
<1> USE DEF StageInv
<1>n. /\ OK # Running /\ ConfigError # Running /\ Validation # Running /\ TimeoutCode # Running
      /\ TxReverted # Running /\ NotReady # Running /\ RPCOrProof # Running
      /\ Unexpected # Running
  BY DEF OK, ConfigError, Validation, TimeoutCode, TxReverted, NotReady, RPCOrProof, Unexpected, Running
<1>1. CASE UserStep
  <2>1. PICK c \in Commands : StartInvocation(c)
    BY <1>1 DEF UserStep, Start
  <2>2. Mine' = {}
    BY <2>1 DEF StartInvocation, Mine, txVars, C!Submitted
  <2> QED BY <2>1, <2>2 DEF StartInvocation
<1>2. CASE CommandStep /\ ~UserStep
  <2>1. UNCHANGED command
    BY <1>2 DEF CommandStep, runVars
  <2>2. CASE Claim
    BY <2>1, <2>2 DEF Claim, endVars
  <2>m. ~Claim => Mine' = Mine
    BY <1>2, MineStays
  <2>3. CASE ~Claim /\ (Setup \/ ReadMessageSent \/ MessageStatus)
    BY <2>1, <2>3, <2>m DEF Setup, ReadMessageSent, MessageStatus, GoTo, endVars, attemptVars
  <2>4. CASE ~Claim /\ (SetupFails \/ ReadFails \/ ProbeFails \/ ReportProbe)
    BY <1>n, <2>1, <2>4 DEF SetupFails, ReadFails, ProbeFails, ReportProbe, Emit, Exit
  <2>5. CASE ~Claim /\ ProbeStep
    BY <2>1, <2>5, <2>m DEF ProbeStep, GoTo, endVars, attemptVars
  <2>6. CASE ~Claim /\ WaitReturns
    BY <1>n, <2>1, <2>6, <2>m DEF WaitReturns, GoTo, Emit, Exit, endVars, attemptVars
  <2>7. CASE ~Claim /\ (WaitGoesOn \/ Sleep)
    BY <1>n, <2>1, <2>7, <2>m DEF WaitGoesOn, Sleep, GoTo, Exit, endVars, attemptVars
  <2>8. CASE ClaimReturned
    BY <1>n, <2>1, <2>8 DEF ClaimReturned, Emit, Exit
  <2> QED BY <1>2, <2>2, <2>3, <2>4, <2>5, <2>6, <2>7, <2>8 DEF CommandStep
<1>3. CASE ~(UserStep \/ CommandStep)
  <2>1. UNCHANGED <<stage, exit, step, outcome, command>>
    BY <1>3 DEF LowLevelNext, TimePasses, DestBridgeStep, MineClaim, C!RelayerClaims, C!OwnerRetries,
       DestinationStep, lowLevelVars, endVars, runVars, attemptVars, C!processVars
  <2>2. Mine' = Mine \/ Claim
    BY <1>3, MineStays
  <2>3. Claim => stage = "claim"
    BY DEF Claim
  <2> QED BY <2>1, <2>2, <2>3
<1> QED BY <1>1, <1>2, <1>3

LEMMA ExitStep ==
    ASSUME AttemptInv, StageInv, ExitInv, [LowLevelNext]_lowLevelVars
    PROVE  ExitInv'
<1> USE DEF ExitInv
<1>n. /\ OK # TxReverted /\ OK # NotReady /\ OK # TimeoutCode /\ OK # Running
      /\ TxReverted # NotReady /\ TxReverted # TimeoutCode /\ TxReverted # Running
      /\ NotReady # TimeoutCode /\ NotReady # Running /\ TimeoutCode # Running
      /\ {ConfigError, Validation, RPCOrProof, Unexpected} \cap {OK, TxReverted, NotReady, TimeoutCode} = {}
  BY DEF OK, ConfigError, Validation, TimeoutCode, TxReverted, NotReady, RPCOrProof, Unexpected, Running
<1>1. CASE UserStep
  BY <1>1, <1>n DEF UserStep, Start, StartInvocation
<1>2. CASE CommandStep /\ ~UserStep
  <2>1. UNCHANGED command /\ exit = Running /\ stage # "exited"
    BY <1>2 DEF CommandStep, runVars, Setup, SetupFails, ReadMessageSent, MessageStatus, ReadFails,
       ProbeStep, ProbeFails, ReportProbe, WaitReturns, WaitGoesOn, Sleep, Claim, ClaimReturned,
       StageInv
  <2>2. CASE ClaimReturned
    <3>1. /\ UNCHANGED outcome
          /\ \/ outcome = "claimed" /\ exit' = OK
             \/ outcome = "ErrNotReady" /\ exit' = NotReady
             \/ outcome = "ErrReverted" /\ exit' = TxReverted
             \/ exit' \in {RPCOrProof, Unexpected}
      BY <2>2 DEF ClaimReturned, Emit, Exit, attemptVars
    <3> QED BY <1>n, <3>1
  <2>3. CASE WaitGoesOn
    <3>1. Mine' = {}
      BY <2>3, <1>2, MineStays DEF WaitGoesOn, StageInv, Claim
    <3>2. exit' = TimeoutCode \/ exit' = Running
      BY <2>1, <2>3 DEF WaitGoesOn, GoTo, Exit, endVars
    <3> QED BY <1>n, <3>1, <3>2
  <2>4. CASE ReportProbe \/ WaitReturns
    <3>1. exit' \in {Running, Unexpected} \/ (exit' = OK /\ command # "claim")
      BY <2>1, <2>4 DEF ReportProbe, WaitReturns, GoTo, Emit, Exit, endVars
    <3> QED BY <1>n, <2>1, <3>1
  <2>5. CASE ~(ClaimReturned \/ WaitGoesOn \/ ReportProbe \/ WaitReturns)
    <3>1. exit' \in {Running, ConfigError, Validation, RPCOrProof, Unexpected}
      BY <1>2, <2>1, <2>5 DEF CommandStep, Setup, SetupFails, ReadMessageSent, MessageStatus,
         ReadFails, ProbeStep, ProbeFails, Sleep, Claim, GoTo, Exit, endVars
    <3> QED BY <1>n, <3>1
  <2> QED BY <2>2, <2>3, <2>4, <2>5
<1>3. CASE ~(UserStep \/ CommandStep)
  <2>1. UNCHANGED <<stage, exit, outcome, command>>
    BY <1>3 DEF LowLevelNext, TimePasses, DestBridgeStep, MineClaim, C!RelayerClaims, C!OwnerRetries,
       DestinationStep, lowLevelVars, endVars, runVars, attemptVars, C!processVars
  <2>2. Mine' = Mine \/ Claim
    BY <1>3, MineStays
  <2>3. Claim => exit = Running
    BY DEF Claim, StageInv
  <2> QED BY <1>n, <2>1, <2>2, <2>3
<1> QED BY <1>1, <1>2, <1>3

LEMMA InitRun == LowLevelInit => RunInv
<1> SUFFICES ASSUME LowLevelInit PROVE RunInv
  OBVIOUS
<1> USE DEF LowLevelInit
<1>1. TypeOK
  BY InitType
<1>2. RunTyped /\ CtxTyped
  <2>1. RunTyped
    BY ChainAssumption, CommandsAssumption DEF RunTyped, Commands, Stages, DestBlocks
  <2> QED BY <2>1 DEF CtxTyped
<1>3. C!Submitted = {} /\ Mine = {}
  BY DEF C!Submitted, Mine
<1>4. ClaimTyped /\ TxTyped
  BY <1>3, ChainAssumption
     DEF ClaimTyped, TxTyped, C!Statuses, C!ClaimSteps, C!Outcomes, C!TxStates, SourceBlocks
<1>5. MineInv /\ OutcomeInv
  BY <1>3 DEF MineInv, OutcomeInv
<1>6. StageInv /\ ExitInv
  BY <1>3 DEF StageInv, ExitInv, ConfigError, Running, OK, TxReverted, NotReady, TimeoutCode
<1> QED BY <1>1, <1>2, <1>4, <1>5, <1>6 DEF RunInv

LEMMA RunInvHolds == LowLevelSpec => []RunInv
<1>1. LowLevelInit => RunInv
  BY InitRun
<1>2. RunInv /\ [LowLevelNext]_lowLevelVars => RunInv'
  <2> SUFFICES ASSUME RunInv, [LowLevelNext]_lowLevelVars PROVE RunInv'
    OBVIOUS
  <2>1. TypeOK /\ RunTyped /\ CtxTyped /\ ClaimTyped /\ AttemptInv /\ StageInv /\ ExitInv
    BY DEF RunInv, AttemptInv
  <2>2. TypeOK' /\ RunTyped' /\ CtxTyped'
    BY <2>1, TypeStep, RunTypeStep, CtxStep
  <2>3. AttemptInv' /\ StageInv' /\ ExitInv'
    BY <2>1, AttemptStep, StageStep, ExitStep
  <2> QED BY <2>2, <2>3 DEF RunInv, AttemptInv
<1> QED BY <1>1, <1>2, PTL DEF LowLevelSpec
-----------------------------------------------------------------------------
(* In every state of every invocation the variables hold the values that   *)
(* the code can give them.                                                 *)
THEOREM LowLevelTyped == LowLevelSpec => []LowLevelTypeOK
<1>1. RunInv => LowLevelTypeOK
  <2> SUFFICES ASSUME RunInv PROVE LowLevelTypeOK
    OBVIOUS
  <2>1. Received \in BOOLEAN /\ Provable \in BOOLEAN
    BY Zenon DEF Received, Provable, IsMessageReceived
  <2>2. C!ClaimTypeOK
    BY <2>1 DEF RunInv, CtxTyped, ClaimTyped, TxTyped, C!ClaimTypeOK
  <2>3. waitDone \in BOOLEAN /\ (waitDone => ctxDone)
    BY DEF RunInv, CtxTyped
  <2> QED BY <2>2, <2>3 DEF RunInv, RunTyped, TxTyped, StageInv, LowLevelTypeOK
<1> QED BY <1>1, RunInvHolds, PTL

(* The exit code of claim speaks of the transaction of this invocation,    *)
(* however many earlier ones may still be mined meanwhile: after 0 it has  *)
(* processed the message, after 5 it never will, and after 4 and 6 there   *)
(* is none.                                                                *)
THEOREM ExitIsAlwaysAboutThisRun == LowLevelSpec => []ExitIsAboutThisRun
<1>1. RunInv => ExitIsAboutThisRun
  <2> SUFFICES ASSUME RunInv PROVE ExitIsAboutThisRun
    OBVIOUS
  <2>1. command = "claim" /\ exit = OK =>
          status # "NEW" /\ \E i \in Mine : claimTx[i] = "succeeded"
    BY DEF RunInv, ExitInv, OutcomeInv, Mine
  <2> QED BY <2>1 DEF RunInv, MineInv, ExitInv, OutcomeInv, ExitIsAboutThisRun
<1> QED BY <1>1, RunInvHolds, PTL
-----------------------------------------------------------------------------
(* With current reads, blocks are only added, above whatever was read.     *)
LEMMA ChainGrows ==
    ASSUME CurrentReads, TypeOK, readAt \in Nat, readAt <= destHead, destHead = highHead, ChainNext
    PROVE  /\ destHead' = highHead' /\ destHead <= destHead'
           /\ saved \subseteq saved'
           /\ \A e \in saved' : e.LogBlock <= destHead => e \in saved
<1>n. /\ destHead \in Nat /\ destHead' \in Nat /\ highHead \in Nat /\ MaxHead \in Nat
      /\ \A h \in DestBlocks : h \in Nat
  BY ChainAssumption, ChainStepType DEF TypeOK, ChainTypeOK, DestBlocks
<1>1. CASE MineBlock
  <2>1. destHead' = destHead + 1 /\ destHead' = highHead'
    BY <1>1, <1>n DEF MineBlock
  <2>2. PICK blocks \in SUBSET SourceBlocks :
          saved' = saved \cup [CheckpointBlock : blocks, LogBlock : {destHead'}]
    BY <1>1 DEF MineBlock
  <2> QED BY <1>n, <2>1, <2>2
<1>2. CASE Reorg
  <2>1. PICK h \in DestBlocks : h < destHead /\ highHead <= h + ReorgDepth
    BY <1>2 DEF Reorg
  <2> QED BY <1>n, <2>1 DEF CurrentReads
<1> QED BY <1>1, <1>2 DEF ChainNext

(* The scan of status sees what was settled when it read the status.       *)
LEMMA SettledIsSeen ==
    ASSUME CurrentReads, TypeOK, readAt \in DestBlocks, readAt <= destHead, readAt <= head,
           nextLogBlock = 0, bestCheckpoint = 0, Fetch, UNCHANGED chainVars
    PROVE  /\ bestCheckpoint' # 0 => BestIsBacked'
           /\ Settled => bestCheckpoint' # 0
<1>n. /\ head \in Nat /\ destHead \in Nat /\ readAt \in 0..MaxHead /\ MaxHead \in Nat /\ Word \in Nat
      /\ CheckpointConfs \in Nat /\ LogLag \in Nat /\ MaxHead < Word
      /\ SourceMessageBlock \in Nat \ {0}
  BY ChainAssumption, ProberAssumption
     DEF TypeOK, ChainTypeOK, ProberTypeOK, DestBlocks
<1>s. \A e \in saved : e.CheckpointBlock \in Nat /\ e.LogBlock \in Nat
  BY DEF TypeOK, ChainTypeOK, CheckpointEvent, SourceBlocks, DestBlocks
<1>1. PICK v \in Views(LogLag) :
        bestCheckpoint' \in ScanFrom(bestCheckpoint, Fetched(nextLogBlock, head, v), head)
  BY DEF Fetch
<1>2. v \in Nat /\ destHead <= v + LogLag
  BY <1>1 DEF Views, DestBlocks
<1> DEFINE seen == Accepted(Fetched(0, head, v), head)
<1>3. /\ bestCheckpoint' = 0 \/ \E e \in seen : e.CheckpointBlock = bestCheckpoint'
      /\ \A e \in seen : e.CheckpointBlock <= bestCheckpoint'
  BY <1>1, ScanFromIsHighest
<1>4. ASSUME bestCheckpoint' # 0
      PROVE  BestIsBacked'
  <2>1. PICK e \in seen : e.CheckpointBlock = bestCheckpoint'
    BY <1>3, <1>4
  <2>2. e \in saved' /\ Qualifies(e)
    BY <2>1 DEF Accepted, Fetched, FilterCheckpointSaved, chainVars
  <2> QED BY <1>4, <2>1, <2>2 DEF BestIsBacked, Qualifies
<1>5. ASSUME Settled
      PROVE  bestCheckpoint' # 0
  <2>1. PICK e \in saved : Qualifies(e) /\ HasConfs(e, readAt)
    BY <1>5 DEF Settled
  <2>2. /\ e.LogBlock \in Nat /\ e.CheckpointBlock \in Nat
        /\ e.LogBlock + CheckpointConfs <= readAt
        /\ e.CheckpointBlock >= SourceMessageBlock
    BY <1>s, <2>1 DEF HasConfs, Qualifies
  <2>3. e.LogBlock <= head /\ e.LogBlock <= v
    BY <1>n, <1>2, <2>2 DEF CurrentReads
  <2>4. e \in Fetched(0, head, v)
    BY <2>2, <2>3 DEF Fetched, FilterCheckpointSaved
  <2>5. Confirmed(e, head)
    <3>1. (e.LogBlock + CheckpointConfs) \in 0..(Word - 1)
      BY <1>n, <2>2
    <3>2. (e.LogBlock + CheckpointConfs) % Word = e.LogBlock + CheckpointConfs
      BY <1>n, <3>1
    <3> QED BY <1>n, <2>2, <3>2 DEF Confirmed
  <2>6. e \in seen
    BY <2>1, <2>3, <2>4, <2>5 DEF Accepted
  <2>7. bestCheckpoint' \in Nat /\ e.CheckpointBlock <= bestCheckpoint'
    <3>1. e.CheckpointBlock <= bestCheckpoint'
      BY <1>3, <2>6
    <3>2. bestCheckpoint' \in Nat
      BY <1>3, <1>s DEF Accepted, Fetched, FilterCheckpointSaved
    <3> QED BY <3>1, <3>2
  <2> QED BY <1>n, <2>2, <2>7
<1> QED BY <1>4, <1>5

(* An answer that a log backs is that the message is ready.                *)
LEMMA BackedIsReady ==
    ASSUME CurrentReads, TypeOK, BestIsBacked, CheckMessage
    PROVE  result'.Ready
<1>1. PICK v \in Views(HeadLag) :
        result' = [Ready |-> IsMessageReceived(SourceMessageBlock, bestCheckpoint, v),
                   CheckpointBlock |-> bestCheckpoint]
  BY DEF CheckMessage
<1>2. v = destHead
  <2>1. v \in Nat /\ destHead \in Nat /\ v <= destHead /\ destHead <= v
    BY <1>1 DEF CurrentReads, Views, TypeOK, ChainTypeOK, DestBlocks
  <2> QED BY <2>1
<1>3. PICK e \in saved : e.CheckpointBlock = bestCheckpoint /\ Qualifies(e)
  BY DEF BestIsBacked
<1>4. e.LogBlock <= destHead /\ SourceMessageBlock <= bestCheckpoint
  <2>1. /\ e.LogBlock \in 1..destHead /\ destHead \in Nat
        /\ e.CheckpointBlock \in Nat /\ SourceMessageBlock \in Nat
    BY ProberAssumption DEF TypeOK, ChainTypeOK, DestBlocks, CheckpointEvent, SourceBlocks
  <2> QED BY <1>3, <2>1 DEF Qualifies
<1>5. IsMessageReceived(SourceMessageBlock, bestCheckpoint, v)
  BY <1>2, <1>3, <1>4 DEF IsMessageReceived
<1> QED BY <1>1, <1>5

LEMMA SnapshotStep ==
    ASSUME CurrentReads, RunInv, SnapshotInv, [LowLevelNext]_lowLevelVars
    PROVE  SnapshotInv'
<1> USE DEF SnapshotInv
<1>t. TypeOK /\ readAt \in DestBlocks /\ readAt \in Nat /\ destHead \in Nat
  BY DEF RunInv, RunTyped, TypeOK, ChainTypeOK, DestBlocks
<1>n. exit = OK => stage = "exited"
  BY DEF RunInv, StageInv, OK, Running
<1>1. CASE UserStep
  <2>1. /\ destHead' = destHead /\ highHead' = highHead /\ readAt' = 0 /\ stage' = "setup"
        /\ pc' = "BlockNumber" /\ nextLogBlock' = 0 /\ bestCheckpoint' = 0 /\ exit' = Running
    BY <1>1 DEF UserStep, Start, StartInvocation, chainVars
  <2> QED BY <1>t, <2>1 DEF OK, Running
<1>2. CASE CommandStep
  <2>1. UNCHANGED <<destHead, highHead, saved, command>>
    BY <1>2 DEF CommandStep, chainVars, runVars
  <2>s. ASSUME UNCHANGED readAt
        PROVE  (Settled <=> Settled') /\ (UNCHANGED bestCheckpoint => (BestIsBacked <=> BestIsBacked'))
    BY <2>1, <2>s DEF Settled, HasConfs, BestIsBacked, Qualifies
  <2>o. stage # "exited" /\ exit # OK
    BY <1>2, <1>n DEF CommandStep, Setup, SetupFails, ReadMessageSent, MessageStatus, ReadFails,
       ProbeStep, ProbeFails, ReportProbe, WaitReturns, WaitGoesOn, Sleep, Claim, ClaimReturned
  <2>2. CASE Setup \/ ReadMessageSent
    BY <2>1, <2>2, <2>o DEF Setup, ReadMessageSent, GoTo, endVars, readVars, probeVars
  <2>3. CASE MessageStatus
    <3>1. /\ readAt' = destHead /\ stage = "messageStatus" /\ stage' = "probe"
          /\ UNCHANGED <<exit, pc, nextLogBlock, bestCheckpoint>>
      BY <2>3 DEF MessageStatus, GoTo, endVars, probeVars
    <3> QED BY <1>t, <2>1, <2>o, <3>1
  <2>4. CASE SetupFails \/ ReadFails \/ ProbeFails
    <3>1. stage' = "exited" /\ exit' # OK /\ UNCHANGED readAt
      BY <2>4 DEF SetupFails, ReadFails, ProbeFails, Exit, readVars, OK, ConfigError, Validation,
         RPCOrProof, Unexpected
    <3> QED BY <2>1, <3>1
  <2>5. CASE ProbeStep
    <3>1. /\ stage = "probe" /\ UNCHANGED <<readAt, exit>>
          /\ stage' = IF pc' = "BlockNumber" THEN "probed" ELSE "probe"
      BY <2>5 DEF ProbeStep, GoTo, endVars, readVars
    <3>2. CASE BlockNumber
      <4>1. head' \in Views(HeadLag) /\ UNCHANGED <<nextLogBlock, bestCheckpoint>>
            /\ pc = "BlockNumber" /\ pc' = "Fetch"
        BY <3>2 DEF BlockNumber
      <4>2. readAt <= head'
        <5>1. head' \in Nat /\ destHead <= head'
          BY <1>t, <4>1 DEF Views, CurrentReads, DestBlocks
        <5> QED BY <1>t, <5>1
      <4> QED BY <2>1, <2>o, <3>1, <4>1, <4>2
    <3>3. CASE Fetch /\ command = "status"
      <4>1. pc = "Fetch" /\ nextLogBlock = 0 /\ bestCheckpoint = 0 /\ readAt <= head
        BY <3>1, <3>3 DEF Fetch
      <4>2. /\ bestCheckpoint' # 0 => BestIsBacked'
            /\ Settled => bestCheckpoint' # 0
        BY <1>t, <2>1, <3>3, <4>1, SettledIsSeen DEF chainVars
      <4>3. CASE bestCheckpoint' = 0 /\ pc' = "BlockNumber"
        <5>1. stage' = "probed" /\ ~Settled'
          BY <2>s, <3>1, <4>2, <4>3
        <5> QED BY <2>1, <2>o, <3>1, <5>1
      <4>4. CASE bestCheckpoint' # 0 /\ pc' = "BuildProof"
        <5>1. stage' = "probe" /\ BestIsBacked'
          BY <3>1, <4>2, <4>4
        <5> QED BY <2>1, <2>o, <3>1, <4>4, <5>1
      <4> QED BY <3>3, <4>3, <4>4 DEF Fetch
    <3>4. CASE BuildProof
      <4>1. pc = "BuildProof" /\ pc' = "CheckMessage" /\ UNCHANGED bestCheckpoint
        BY <3>4 DEF BuildProof
      <4> QED BY <2>1, <2>s, <2>o, <3>1, <4>1
    <3>5. CASE CheckMessage
      <4>1. pc = "CheckMessage" /\ pc' = "BlockNumber" /\ stage' = "probed"
        BY <3>1, <3>5 DEF CheckMessage
      <4>2. command = "status" => result'.Ready
        BY <1>t, <3>1, <3>5, <4>1, BackedIsReady
      <4> QED BY <2>1, <2>o, <3>1, <4>1, <4>2
    <3>6. CASE command # "status"
      BY <2>1, <3>1, <3>6
    <3> QED BY <2>5, <3>2, <3>3, <3>4, <3>5, <3>6 DEF ProbeStep, Probe
  <2>6. CASE ReportProbe
    <3>1. /\ stage = "probed" /\ stage' = "exited" /\ UNCHANGED <<result, readAt>>
          /\ \/ payload' = IF result.Ready THEN "ready" ELSE "notReady"
             \/ exit' # OK
      BY <2>6 DEF ReportProbe, Emit, Exit, probeVars, readVars, OK, Unexpected
    <3> QED BY <2>1, <2>s, <3>1
  <2>7. CASE WaitReturns \/ WaitGoesOn
    <3>1. command # "status" /\ UNCHANGED readAt
      BY <2>7 DEF WaitReturns, WaitGoesOn, readVars
    <3> QED BY <2>1, <3>1
  <2>8. CASE Sleep \/ Claim \/ ClaimReturned
    <3>1. stage \in {"sleep", "claim"} /\ UNCHANGED readAt
      BY <2>8 DEF Sleep, Claim, ClaimReturned, readVars
    <3> QED BY <2>1, <3>1
  <2> QED BY <1>2, <2>2, <2>3, <2>4, <2>5, <2>6, <2>7, <2>8 DEF CommandStep
<1>3. CASE ~(UserStep \/ CommandStep)
  <2>1. UNCHANGED <<pc, head, nextLogBlock, bestCheckpoint, result, stage, command, readAt, exit,
                    payload>>
    BY <1>3 DEF LowLevelNext, TimePasses, DestBridgeStep, DestinationStep, lowLevelVars, probeVars,
       endVars, readVars, runVars
  <2>2. /\ destHead' = highHead' /\ destHead <= destHead'
        /\ saved \subseteq saved'
        /\ \A e \in saved' : e.LogBlock <= destHead => e \in saved
    <3>1. CASE DestinationStep
      BY <1>t, <3>1, ChainGrows DEF DestinationStep
    <3>2. CASE ~DestinationStep
      <4>1. UNCHANGED <<destHead, highHead, saved>>
        BY <1>3, <3>2 DEF LowLevelNext, TimePasses, DestBridgeStep, lowLevelVars, chainVars
      <4> QED BY <1>t, <4>1
    <3> QED BY <3>1, <3>2
  <2>3. BestIsBacked => BestIsBacked'
    BY <2>1, <2>2 DEF BestIsBacked, Qualifies
  <2>4. Settled' => Settled
    <3> SUFFICES ASSUME Settled' PROVE Settled
      OBVIOUS
    <3>1. PICK e \in saved' : Qualifies(e) /\ HasConfs(e, readAt)
      BY <2>1 DEF Settled, HasConfs, Qualifies
    <3>2. e.LogBlock \in Nat
      BY <1>t, TypeStep DEF TypeOK, ChainTypeOK, CheckpointEvent, DestBlocks
    <3>3. e.LogBlock <= destHead
      BY <1>t, <3>1, <3>2, ProberAssumption DEF HasConfs
    <3> QED BY <2>2, <3>1, <3>3 DEF Settled
  <2>5. readAt' <= destHead'
    <3>1. destHead' \in Nat
      BY <1>t, TypeStep DEF TypeOK, ChainTypeOK, DestBlocks
    <3> QED BY <1>t, <2>1, <2>2, <3>1
  <2> QED BY <2>1, <2>2, <2>3, <2>4, <2>5
<1> QED BY <1>1, <1>2, <1>3

(* When nothing that is read changes any more and the log index keeps up   *)
(* with the confirmations, status never says of a message that it is       *)
(* processed and not ready: the probe, although it reads later, finds      *)
(* whatever had its confirmations when the status was read.                *)
THEOREM SnapshotAlwaysFits ==
    ASSUME CurrentReads
    PROVE  LowLevelSpec => []SnapshotFits
<1>1. LowLevelInit => SnapshotInv
  BY DEF LowLevelInit, Init, ChainInit, NewProber, SnapshotInv, OK, ConfigError
<1>2. RunInv /\ SnapshotInv /\ [LowLevelNext]_lowLevelVars => SnapshotInv'
  BY SnapshotStep
<1>3. SnapshotInv => SnapshotFits
  BY DEF SnapshotInv, SnapshotFits, Settled
<1> QED BY <1>1, <1>2, <1>3, RunInvHolds, PTL DEF LowLevelSpec
=============================================================================
