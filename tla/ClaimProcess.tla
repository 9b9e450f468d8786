----------------------------- MODULE ClaimProcess -----------------------------
(***************************************************************************)
(* internal/claim/process.go: one attempt to claim a message.  Process     *)
(* asks the destination bridge whether it accepts the proof, submits       *)
(* processMessage and polls for the receipt.  The chain, the relayers that *)
(* claim the same message and the deadline of the context move between any *)
(* two of its calls.                                                       *)
(***************************************************************************)
EXTENDS Naturals

CONSTANT MaxClaimTxs  \* bound of the model: claim transactions submitted

ASSUME ClaimAssumption == MaxClaimTxs \in Nat \ {0}

VARIABLES
    status,     \* the bridge's status of the message
    received,   \* whether the bridge accepts our proof
    provable,   \* whether there is a proof that the bridge accepts
    ctxDone,    \* the context's deadline has passed
    step,       \* the call Process makes next, or "returned"
    outcome,    \* what the last Process returned
    claimTx     \* our claim transactions, in the order they were submitted

claimVars == <<status, received, provable, ctxDone, step, outcome, claimTx>>
processVars == <<step, outcome>>

ClaimSteps == {"IsMessageReceived", "ChainID", "ProcessMessage", "TransactionReceipt"}

(* The error values Process returns; "claimed" is its nil error.  "rpc" is *)
(* any error that callers do not tell apart.                               *)
ProcessErrors == {"ErrNotReady", "ErrReverted", "DeadlineExceeded", "rpc"}
Outcomes == {"none", "claimed"} \cup ProcessErrors

TxStates == {"unsent", "pending", "succeeded", "reverted"}

(* IBridge.Status: a message whose call failed is left RETRIABLE by a      *)
(* transaction that succeeds.                                              *)
Statuses == {"NEW", "RETRIABLE", "DONE"}

ClaimTypeOK ==
    /\ status \in Statuses
    /\ received \in BOOLEAN
    /\ provable \in BOOLEAN
    /\ ctxDone \in BOOLEAN
    /\ step \in ClaimSteps \cup {"returned"}
    /\ outcome \in Outcomes
    /\ step \in ClaimSteps => outcome = "none"
    /\ claimTx \in [1..MaxClaimTxs -> TxStates]

ClaimInit ==
    /\ status = "NEW"
    /\ provable \in BOOLEAN
    /\ received \in {FALSE, provable}
    /\ ctxDone = FALSE
    /\ step = "IsMessageReceived"
    /\ outcome = "none"
    /\ claimTx = [i \in 1..MaxClaimTxs |-> "unsent"]

Submitted == {i \in 1..MaxClaimTxs : claimTx[i] # "unsent"}

(* Transactions are submitted in order, so one with none after it is the   *)
(* one whose hash waitReceipt polls for.                                   *)
Current == CHOOSE i \in Submitted : \A j \in Submitted : j <= i
-----------------------------------------------------------------------------
Return(o) ==
    /\ step' = "returned"
    /\ outcome' = o

GoTo(s) ==
    /\ step' = s
    /\ UNCHANGED outcome

(* Every call fails once the context is done.                              *)
CallAnswers(s) == step = s /\ ~ctxDone

(* destBridge.IsMessageReceived.                                           *)
CheckReceived ==
    /\ CallAnswers("IsMessageReceived")
    /\ IF received THEN GoTo("ChainID") ELSE Return("ErrNotReady")
    /\ UNCHANGED claimTx

(* client.ChainID, and the transactor for it.                              *)
ChainID ==
    /\ CallAnswers("ChainID")
    /\ GoTo("ProcessMessage")
    /\ UNCHANGED claimTx

(* A transaction enters the mempool of the node.                           *)
Accept ==
    \E i \in (1..MaxClaimTxs) \ Submitted :
      /\ \A j \in Submitted : j < i
      /\ \A j \in (1..MaxClaimTxs) \ Submitted : i <= j
      /\ claimTx' = [claimTx EXCEPT ![i] = "pending"]

(* destBridge.ProcessMessage, answered with a transaction: the node        *)
(* estimated its gas, so it would have succeeded on the present state.     *)
ProcessMessage ==
    /\ CallAnswers("ProcessMessage")
    /\ status = "NEW" /\ received
    /\ Accept
    /\ GoTo("TransactionReceipt")

(* Mutant: an error whose transaction may have been accepted is taken to   *)
(* mean that the message was not ready.                                    *)
ProcessMessageFails_CallsAllNotReady ==
    /\ CallAnswers("ProcessMessage")
    /\ Accept \/ UNCHANGED claimTx
    /\ Return("ErrNotReady")

(* destBridge.ProcessMessage fails: the estimate reverted or the node did  *)
(* not answer, and nothing was submitted, or the answer was lost on the    *)
(* way back.  IsNotReadyError knows the revert of an unreceived signal     *)
(* only from a node that names it, and takes a node's own "not ready" for  *)
(* the same.                                                               *)
ProcessMessageFails ==
    /\ CallAnswers("ProcessMessage")
    /\ \/ /\ UNCHANGED claimTx
          /\ Return("ErrNotReady") \/ Return("rpc")
       \/ /\ status = "NEW" /\ received
          /\ Accept
          /\ Return("rpc")

(* Mutant: the receipt's status is not looked at.                          *)
ReceiptFound_IgnoresStatus ==
    /\ CallAnswers("TransactionReceipt")
    /\ claimTx[Current] \in {"succeeded", "reverted"}
    /\ Return("claimed")
    /\ UNCHANGED claimTx

(* client.TransactionReceipt: until there is a receipt waitReceipt polls.  *)
ReceiptFound ==
    /\ CallAnswers("TransactionReceipt")
    /\ \/ claimTx[Current] = "succeeded" /\ Return("claimed")
       \/ claimTx[Current] = "reverted" /\ Return("ErrReverted")
    /\ UNCHANGED claimTx

(* A call other than ProcessMessage fails; so does the poll for a receipt, *)
(* on any error but "not found".                                           *)
ClaimCallFails ==
    /\ step \in ClaimSteps \ {"ProcessMessage"}
    /\ ~ctxDone
    /\ Return("rpc")
    /\ UNCHANGED claimTx

(* Mutant: waitReceipt does not select on ctx.Done.                        *)
ClaimDeadline_NotWhilePolling ==
    /\ step \in ClaimSteps \ {"TransactionReceipt"}
    /\ ctxDone
    /\ Return("DeadlineExceeded")
    /\ UNCHANGED claimTx

(* The context is done: the next call, or the select of waitReceipt,       *)
(* returns its error, whatever became of a transaction.                    *)
ClaimDeadline ==
    /\ step \in ClaimSteps
    /\ ctxDone
    /\ Return("DeadlineExceeded")
    /\ UNCHANGED claimTx

ProcessStep ==
    \/ CheckReceived \/ ChainID \/ ProcessMessage \/ ProcessMessageFails
    \/ ReceiptFound \/ ClaimCallFails \/ ClaimDeadline

(* Mutant: the last attempt's result is still there during the next.       *)
StartProcess_KeepsOutcome ==
    /\ step' = "IsMessageReceived"
    /\ UNCHANGED <<outcome, claimTx>>

StartProcess ==
    /\ step' = "IsMessageReceived"
    /\ outcome' = "none"
    /\ UNCHANGED claimTx

(* Mutant: the caller tries again after any error but a revert.            *)
Retry_AnyError ==
    /\ step = "returned"
    /\ outcome \in ProcessErrors \ {"ErrReverted"}
    /\ StartProcess

(* The caller tries again after ErrNotReady, and after nothing else        *)
(* (shared_flow.go:119).                                                   *)
Retry ==
    /\ step = "returned"
    /\ outcome = "ErrNotReady"
    /\ StartProcess
-----------------------------------------------------------------------------
(* The destination bridge and those who use it besides us.  A transaction  *)
(* may stay pending forever.                                               *)
Processed == status' \in {"RETRIABLE", "DONE"}

MineClaim ==
    /\ \E i \in 1..MaxClaimTxs :
         /\ claimTx[i] = "pending"
         /\ \/ /\ status = "NEW" /\ received
               /\ Processed
               /\ claimTx' = [claimTx EXCEPT ![i] = "succeeded"]
            \/ /\ ~(status = "NEW" /\ received)
               /\ claimTx' = [claimTx EXCEPT ![i] = "reverted"]
               /\ UNCHANGED status
    /\ UNCHANGED processVars

RelayerClaims ==
    /\ status = "NEW" /\ provable
    /\ Processed
    /\ UNCHANGED <<processVars, claimTx>>

OwnerRetries ==
    /\ status = "RETRIABLE"
    /\ status' = "DONE"
    /\ UNCHANGED <<processVars, claimTx>>

BridgeStep == MineClaim \/ RelayerClaims \/ OwnerRetries

(* A checkpoint is saved on the destination, or a reorg takes it away.     *)
SignalChanges ==
    /\ provable' \in BOOLEAN
    /\ received' \in {FALSE, provable'}

ContextEnds == ~ctxDone /\ ctxDone' = TRUE

ClaimNext ==
    \/ (ProcessStep \/ Retry) /\ UNCHANGED <<status, received, provable, ctxDone>>
    \/ BridgeStep /\ UNCHANGED <<received, provable, ctxDone>>
    \/ SignalChanges /\ UNCHANGED <<status, ctxDone, processVars, claimTx>>
    \/ ContextEnds /\ UNCHANGED <<status, received, provable, processVars, claimTx>>

ClaimSpec == ClaimInit /\ [][ClaimNext]_claimVars

(* Process runs on its own goroutine and the runtime schedules it.         *)
ClaimFairSpec ==
    ClaimSpec /\ WF_claimVars(ProcessStep /\ UNCHANGED <<status, received, provable, ctxDone>>)
-----------------------------------------------------------------------------
(* A claim is reported when our own transaction processed the message, and *)
(* a revert only when none of our transactions did or ever will            *)
(* (process.go:101-110).                                                   *)
OutcomeIsHonest ==
    /\ outcome = "claimed" => /\ status # "NEW"
                              /\ \E i \in Submitted : claimTx[i] = "succeeded"
    /\ outcome = "ErrReverted" => \A i \in Submitted : claimTx[i] = "reverted"

(* ErrNotReady makes the pipeline try again: when it is returned, no       *)
(* transaction of ours is in flight or mined that a second one would       *)
(* compete with (process.go:76-78 and 94-97).                              *)
NotReadyLeavesNothing == outcome = "ErrNotReady" => Submitted = {}

(* However often an attempt is repeated, one claim is submitted at most.   *)
OneClaimAtMost == \A i, j \in Submitted : i = j

(* No call and no poll outlives the context (process.go:129-131).          *)
DeadlineEndsProcess == ctxDone ~> step = "returned"
=============================================================================
