----------------------------- MODULE ClaimProofs -----------------------------
(***************************************************************************)
(* Proofs about claim.Process for any number of attempts: what it returns  *)
(* is true of the chain, and retrying it never competes with itself.       *)
(***************************************************************************)
EXTENDS ClaimProcess, TLAPS

(* The inductive invariant.  Up to the call that submits, and after        *)
(* ErrNotReady, nothing has been submitted by any attempt; from then on    *)
(* there is one transaction, the one waitReceipt asks for.                 *)
ClaimInv ==
    /\ ClaimTypeOK
    /\ OneClaimAtMost
    /\ step \in {"IsMessageReceived", "ChainID", "ProcessMessage"} => Submitted = {}
    /\ step = "TransactionReceipt" => Submitted # {}
    /\ NotReadyLeavesNothing
    /\ OutcomeIsHonest
    /\ \A i \in Submitted : claimTx[i] = "succeeded" => status # "NEW"

(* While there is one transaction at most, the one waitReceipt polls for   *)
(* is it.                                                                  *)
LEMMA CurrentIsSubmitted ==
    ASSUME ClaimTypeOK, OneClaimAtMost, Submitted # {}
    PROVE  Current \in Submitted /\ Submitted = {Current}
<1>1. PICK i : i \in Submitted
  OBVIOUS
<1>2. i \in Nat /\ \A j \in Submitted : j <= i
  BY <1>1 DEF OneClaimAtMost, Submitted
<1>3. Current \in Submitted
  BY <1>1, <1>2 DEF Current
<1> QED BY <1>3 DEF OneClaimAtMost

(* A transaction enters the mempool: when there was none, it is the only   *)
(* one.                                                                    *)
LEMMA AcceptAddsOne ==
    ASSUME ClaimTypeOK, Submitted = {}, Accept
    PROVE  /\ claimTx' \in [1..MaxClaimTxs -> TxStates]
           /\ \E i \in 1..MaxClaimTxs : claimTx'[i] = "pending" /\ Submitted' = {i}
<1>1. PICK i \in 1..MaxClaimTxs : claimTx' = [claimTx EXCEPT ![i] = "pending"]
  BY DEF Accept
<1>2. \A j \in 1..MaxClaimTxs : claimTx[j] = "unsent"
  BY DEF Submitted
<1> QED BY <1>1, <1>2 DEF ClaimTypeOK, Submitted, TxStates

LEMMA InitClaim == ClaimInit => ClaimInv
BY ClaimAssumption
   DEF ClaimInit, ClaimInv, ClaimTypeOK, OneClaimAtMost, NotReadyLeavesNothing,
       OutcomeIsHonest, Submitted, Statuses, ClaimSteps, Outcomes, TxStates

(* A step of Process or of its caller.                                     *)
LEMMA AttemptKeepsInv ==
    ASSUME ClaimInv, ProcessStep \/ Retry, UNCHANGED <<status, received, provable, ctxDone>>
    PROVE  ClaimInv'
<1> USE DEF ClaimInv
<1>0. ASSUME UNCHANGED claimTx
      PROVE  Submitted' = Submitted /\ OneClaimAtMost'
  BY <1>0 DEF Submitted, OneClaimAtMost
<1>t. ASSUME NEW o \in Outcomes, Return(o), claimTx' \in [1..MaxClaimTxs -> TxStates]
      PROVE  ClaimTypeOK'
  BY <1>t DEF Return, ClaimTypeOK, ClaimSteps, Outcomes
<1>1. CASE CheckReceived
  <2>1. CASE received
    BY <1>0, <1>1, <2>1
       DEF CheckReceived, CallAnswers, GoTo, ClaimTypeOK, ClaimSteps, NotReadyLeavesNothing,
           OutcomeIsHonest
  <2>2. CASE ~received
    <3>1. Submitted' = {} /\ OneClaimAtMost' /\ Return("ErrNotReady")
      BY <1>0, <1>1, <2>2 DEF CheckReceived, CallAnswers
    <3>2. ClaimTypeOK'
      BY <1>1, <1>t, <3>1 DEF CheckReceived, ClaimTypeOK, Outcomes, ProcessErrors
    <3> QED BY <3>1, <3>2 DEF Return, NotReadyLeavesNothing, OutcomeIsHonest
  <2> QED BY <2>1, <2>2
<1>2. CASE ChainID
  BY <1>0, <1>2
     DEF ChainID, CallAnswers, GoTo, ClaimTypeOK, ClaimSteps, NotReadyLeavesNothing,
         OutcomeIsHonest
<1>3. CASE ProcessMessage
  <2>1. step = "ProcessMessage" /\ Submitted = {} /\ Accept /\ GoTo("TransactionReceipt")
    BY <1>3 DEF ProcessMessage, CallAnswers
  <2>2. /\ claimTx' \in [1..MaxClaimTxs -> TxStates]
        /\ \E i \in 1..MaxClaimTxs : claimTx'[i] = "pending" /\ Submitted' = {i}
    BY <2>1, AcceptAddsOne
  <2>3. outcome' = "none" /\ step' = "TransactionReceipt"
    BY <2>1 DEF GoTo, ClaimTypeOK, ClaimSteps
  <2>4. ClaimTypeOK'
    BY <2>2, <2>3 DEF ClaimTypeOK, ClaimSteps, Outcomes
  <2> QED
    BY <2>2, <2>3, <2>4 DEF OneClaimAtMost, NotReadyLeavesNothing, OutcomeIsHonest
<1>4. CASE ProcessMessageFails
  <2>1. step = "ProcessMessage" /\ Submitted = {}
    BY <1>4 DEF ProcessMessageFails, CallAnswers
  <2>2. CASE UNCHANGED claimTx /\ (Return("ErrNotReady") \/ Return("rpc"))
    <3>1. Submitted' = {} /\ OneClaimAtMost'
      BY <1>0, <2>1, <2>2
    <3>2. ClaimTypeOK'
      BY <1>t, <2>2 DEF ClaimTypeOK, Outcomes, ProcessErrors
    <3> QED BY <2>2, <3>1, <3>2 DEF Return, NotReadyLeavesNothing, OutcomeIsHonest
  <2>3. CASE Accept /\ Return("rpc")
    <3>1. /\ claimTx' \in [1..MaxClaimTxs -> TxStates]
          /\ \E i \in 1..MaxClaimTxs : claimTx'[i] = "pending" /\ Submitted' = {i}
      BY <2>1, <2>3, AcceptAddsOne
    <3>2. ClaimTypeOK'
      BY <1>t, <2>3, <3>1 DEF Outcomes, ProcessErrors
    <3> QED
      BY <2>3, <3>1, <3>2 DEF Return, OneClaimAtMost, NotReadyLeavesNothing, OutcomeIsHonest
  <2> QED BY <1>4, <2>2, <2>3 DEF ProcessMessageFails
<1>5. CASE ReceiptFound
  <2>1. Submitted = {Current} /\ Submitted' = Submitted /\ OneClaimAtMost'
    BY <1>0, <1>5, CurrentIsSubmitted DEF ReceiptFound, CallAnswers
  <2>2. CASE claimTx[Current] = "succeeded" /\ Return("claimed")
    <3>1. ClaimTypeOK'
      BY <1>5, <1>t, <2>2 DEF ReceiptFound, ClaimTypeOK, Outcomes
    <3> QED
      BY <1>5, <2>1, <2>2, <3>1
         DEF ReceiptFound, Return, NotReadyLeavesNothing, OutcomeIsHonest
  <2>3. CASE claimTx[Current] = "reverted" /\ Return("ErrReverted")
    <3>1. ClaimTypeOK'
      BY <1>5, <1>t, <2>3 DEF ReceiptFound, ClaimTypeOK, Outcomes, ProcessErrors
    <3> QED
      BY <1>5, <2>1, <2>3, <3>1
         DEF ReceiptFound, Return, NotReadyLeavesNothing, OutcomeIsHonest
  <2> QED BY <1>5, <2>2, <2>3 DEF ReceiptFound
<1>6. CASE ClaimCallFails \/ ClaimDeadline
  <2>1. Return("rpc") \/ Return("DeadlineExceeded")
    BY <1>6 DEF ClaimCallFails, ClaimDeadline
  <2>2. Submitted' = Submitted /\ OneClaimAtMost' /\ UNCHANGED claimTx
    BY <1>0, <1>6 DEF ClaimCallFails, ClaimDeadline
  <2>3. ClaimTypeOK'
    BY <1>t, <2>1, <2>2 DEF ClaimTypeOK, Outcomes, ProcessErrors
  <2> QED BY <2>1, <2>2, <2>3 DEF Return, NotReadyLeavesNothing, OutcomeIsHonest
<1>7. CASE Retry
  <2>1. Submitted = {} /\ Submitted' = Submitted /\ OneClaimAtMost'
    BY <1>0, <1>7 DEF Retry, StartProcess, NotReadyLeavesNothing
  <2> QED
    BY <1>7, <2>1
       DEF Retry, StartProcess, ClaimTypeOK, ClaimSteps, Outcomes, NotReadyLeavesNothing,
           OutcomeIsHonest
<1> QED
  BY <1>1, <1>2, <1>3, <1>4, <1>5, <1>6, <1>7 DEF ProcessStep

(* A step of the bridge: transactions are mined and the message processed, *)
(* by us or by others.                                                     *)
LEMMA BridgeKeepsInv ==
    ASSUME ClaimInv, BridgeStep, UNCHANGED <<received, provable, ctxDone>>
    PROVE  ClaimInv'
<1> USE DEF ClaimInv
<1>1. CASE MineClaim
  <2>1. PICK i \in 1..MaxClaimTxs :
          /\ claimTx[i] = "pending"
          /\ \/ /\ Processed
                /\ claimTx' = [claimTx EXCEPT ![i] = "succeeded"]
             \/ /\ claimTx' = [claimTx EXCEPT ![i] = "reverted"]
                /\ UNCHANGED status
    BY <1>1 DEF MineClaim
  <2>2. UNCHANGED <<step, outcome>>
    BY <1>1 DEF MineClaim, processVars
  <2>3. i \in Submitted /\ Submitted = {i}
    BY <2>1 DEF Submitted, OneClaimAtMost
  <2>4. /\ claimTx' \in [1..MaxClaimTxs -> TxStates]
        /\ \A j \in 1..MaxClaimTxs : j # i => claimTx'[j] = claimTx[j]
        /\ claimTx'[i] \in {"succeeded", "reverted"}
        /\ claimTx'[i] = "succeeded" => status' # "NEW"
        /\ status' \in Statuses
    BY <2>1 DEF ClaimTypeOK, TxStates, Processed, Statuses
  <2>5. Submitted' = Submitted
    BY <2>3, <2>4 DEF Submitted
  <2>6. ClaimTypeOK'
    BY <2>2, <2>4 DEF ClaimTypeOK
  <2>7. outcome # "claimed" /\ outcome # "ErrReverted"
    BY <2>1, <2>3 DEF OutcomeIsHonest
  <2> QED
    BY <2>2, <2>3, <2>4, <2>5, <2>6, <2>7
       DEF OneClaimAtMost, NotReadyLeavesNothing, OutcomeIsHonest
<1>2. CASE RelayerClaims \/ OwnerRetries
  <2>1. UNCHANGED <<step, outcome, claimTx>> /\ status' \in {"RETRIABLE", "DONE"}
    BY <1>2 DEF RelayerClaims, OwnerRetries, Processed, processVars
  <2> QED
    BY <2>1
       DEF ClaimTypeOK, Statuses, Submitted, OneClaimAtMost, NotReadyLeavesNothing,
           OutcomeIsHonest
<1> QED BY <1>1, <1>2 DEF BridgeStep

LEMMA NextClaim == ClaimInv /\ [ClaimNext]_claimVars => ClaimInv'
<1> SUFFICES ASSUME ClaimInv, [ClaimNext]_claimVars PROVE ClaimInv'
  OBVIOUS
<1>1. CASE (ProcessStep \/ Retry) /\ UNCHANGED <<status, received, provable, ctxDone>>
  BY <1>1, AttemptKeepsInv
<1>2. CASE BridgeStep /\ UNCHANGED <<received, provable, ctxDone>>
  BY <1>2, BridgeKeepsInv
<1>3. CASE \/ SignalChanges /\ UNCHANGED <<status, ctxDone, processVars, claimTx>>
           \/ ContextEnds /\ UNCHANGED <<status, received, provable, processVars, claimTx>>
           \/ UNCHANGED claimVars
  <2>1. UNCHANGED <<status, step, outcome, claimTx>>
    BY <1>3 DEF processVars, claimVars
  <2>2. received' \in BOOLEAN /\ provable' \in BOOLEAN /\ ctxDone' \in BOOLEAN
    BY <1>3 DEF SignalChanges, ContextEnds, claimVars, ClaimInv, ClaimTypeOK
  <2> QED
    BY <2>1, <2>2
       DEF ClaimInv, ClaimTypeOK, Submitted, OneClaimAtMost, NotReadyLeavesNothing,
           OutcomeIsHonest
<1> QED BY <1>1, <1>2, <1>3 DEF ClaimNext

LEMMA ClaimInvHolds == ClaimSpec => []ClaimInv
BY InitClaim, NextClaim, PTL DEF ClaimSpec

(* The attempt's steps, results and transactions stay in their types       *)
(* (process.go:65-111).                                                    *)
THEOREM ClaimTypeCorrect == ClaimSpec => []ClaimTypeOK
<1>1. ClaimInv => ClaimTypeOK
  BY DEF ClaimInv
<1> QED BY <1>1, ClaimInvHolds, PTL

(* "claimed" and "reverted" are true when they are returned and stay true, *)
(* whatever relayers, reorgs of checkpoints and deadlines do in between    *)
(* (process.go:101-110).                                                   *)
THEOREM OutcomeAlwaysHonest == ClaimSpec => []OutcomeIsHonest
<1>1. ClaimInv => OutcomeIsHonest
  BY DEF ClaimInv
<1> QED BY <1>1, ClaimInvHolds, PTL

(* ErrNotReady, the one error that is retried, leaves nothing in flight    *)
(* (process.go:76-78 and 94-97).                                           *)
THEOREM NotReadyAlwaysClean == ClaimSpec => []NotReadyLeavesNothing
<1>1. ClaimInv => NotReadyLeavesNothing
  BY DEF ClaimInv
<1> QED BY <1>1, ClaimInvHolds, PTL

(* Retries never submit a second claim, for any number of transactions the *)
(* account could submit (shared_flow.go:107-122).                          *)
THEOREM AlwaysOneClaim == ClaimSpec => []OneClaimAtMost
<1>1. ClaimInv => OneClaimAtMost
  BY DEF ClaimInv
<1> QED BY <1>1, ClaimInvHolds, PTL
=============================================================================
