----------------------------- MODULE SendProcess -----------------------------
(***************************************************************************)
(* internal/bridge/send.go: SendETH, SendERC20, SendERC721, SendERC1155.   *)
(* The four differ in the request they build and in the contract they      *)
(* call; their control is one: read the chain id, build the request,       *)
(* submit the transaction, poll for its receipt and find the MessageSent   *)
(* event in it.                                                            *)
(***************************************************************************)
EXTENDS Naturals

VARIABLES
    request,      \* whether the amounts of the request pass the Build functions
    sendCtxDone,  \* the context's deadline has passed
    sendStep,     \* the call the function makes next, or "returned"
    sendOutcome,  \* what it returned
    sendTx,       \* the source transaction
    hasEvent      \* whether its receipt has a MessageSent log of the bridge

sendVars == <<request, sendCtxDone, sendStep, sendOutcome, sendTx, hasEvent>>

SendSteps == {"ChainID", "Build", "Submit", "TransactionReceipt", "Parse"}

(* "sent" is the nil error; "rpc" is any error of a call.                  *)
SendErrors == {"invalid", "rpc", "ErrTxReverted", "ErrNoMessageSentEvent",
               "DeadlineExceeded"}
SendOutcomes == {"none", "sent"} \cup SendErrors

SendTypeOK ==
    /\ request \in {"valid", "invalid"}
    /\ sendCtxDone \in BOOLEAN
    /\ sendStep \in SendSteps \cup {"idle", "returned"}
    /\ sendOutcome \in SendOutcomes
    /\ sendTx \in {"unsent", "pending", "succeeded", "reverted"}
    /\ hasEvent \in BOOLEAN

SendInit ==
    /\ request \in {"valid", "invalid"}
    /\ sendStep = "idle"
    /\ sendOutcome = "none"
    /\ sendTx = "unsent"
    /\ hasEvent = FALSE

SendReturn(o) ==
    /\ sendStep' = "returned"
    /\ sendOutcome' = o

SendGoTo(s) ==
    /\ sendStep' = s
    /\ UNCHANGED sendOutcome

SendAnswers(s) == sendStep = s /\ ~sendCtxDone

StartSend ==
    /\ sendStep = "idle"
    /\ SendGoTo("ChainID")
    /\ UNCHANGED sendTx

(* client.ChainID.                                                         *)
SendChainID ==
    /\ SendAnswers("ChainID")
    /\ SendGoTo("Build")
    /\ UNCHANGED sendTx

(* BuildETHMessage, BuildERC20Op, or BuildNFTAmounts and toUint64, and the *)
(* transactor: no call is made, so the context does not matter.            *)
Build ==
    /\ sendStep = "Build"
    /\ IF request = "valid" THEN SendGoTo("Submit") ELSE SendReturn("invalid")
    /\ UNCHANGED sendTx

(* SendMessage or SendToken answered with a transaction.                   *)
Submit ==
    /\ SendAnswers("Submit")
    /\ sendTx' = "pending"
    /\ SendGoTo("TransactionReceipt")

(* SendMessage or SendToken fails, perhaps after the node accepted it.     *)
SubmitFails ==
    /\ SendAnswers("Submit")
    /\ sendTx' \in {"unsent", "pending"}
    /\ SendReturn("rpc")

(* client.TransactionReceipt: until there is a receipt waitReceipt polls.  *)
SendReceipt ==
    /\ SendAnswers("TransactionReceipt")
    /\ \/ sendTx = "succeeded" /\ SendGoTo("Parse")
       \/ sendTx = "reverted" /\ SendReturn("ErrTxReverted")
    /\ UNCHANGED sendTx

(* parseMessageSentFromReceipt, with event index 0.                        *)
Parse ==
    /\ sendStep = "Parse"
    /\ SendReturn(IF hasEvent THEN "sent" ELSE "ErrNoMessageSentEvent")
    /\ UNCHANGED sendTx

SendCallFails ==
    /\ sendStep \in {"ChainID", "TransactionReceipt"}
    /\ ~sendCtxDone
    /\ SendReturn("rpc")
    /\ UNCHANGED sendTx

(* Mutant: waitReceipt does not select on ctx.Done.                        *)
SendDeadline_NotWhilePolling ==
    /\ sendStep \in {"ChainID", "Submit"}
    /\ sendCtxDone
    /\ SendReturn("DeadlineExceeded")
    /\ UNCHANGED sendTx

SendDeadline ==
    /\ sendStep \in {"ChainID", "Submit", "TransactionReceipt"}
    /\ sendCtxDone
    /\ SendReturn("DeadlineExceeded")
    /\ UNCHANGED sendTx

SendProgress ==
    \/ SendChainID \/ Build \/ Submit \/ SubmitFails \/ SendReceipt \/ Parse
    \/ SendCallFails \/ SendDeadline

(* The source chain includes the transaction, or never does.               *)
MineSend ==
    /\ sendTx = "pending"
    /\ sendTx' \in {"succeeded", "reverted"}
    /\ hasEvent' \in {FALSE, sendTx' = "succeeded"}
    /\ UNCHANGED <<sendStep, sendOutcome>>
=============================================================================
