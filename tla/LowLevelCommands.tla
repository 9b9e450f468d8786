--------------------------- MODULE LowLevelCommands ---------------------------
(***************************************************************************)
(* The low-level commands on a message that has been sent:                 *)
(* internal/cmd/claim.go, wait_ready.go, check_ready.go and status.go, and *)
(* Prober.Wait of internal/ready/wait.go, the loop that claim and          *)
(* wait-ready poll in.                                                     *)
(*                                                                         *)
(* A user runs one command after another against the same transaction.     *)
(* An invocation has a prober of its own that starts from block 0, and a   *)
(* context of its own; what outlives it are the chains and the claim       *)
(* transactions it submitted, which may be mined during a later one.       *)
(***************************************************************************)
EXTENDS Prober

CONSTANTS
    MaxClaimTxs,  \* bound of the model: claim transactions submitted
    MaxOutages    \* bound of the model: calls before a claim that fail or are cut off, and
                  \* final objects that cannot be written

ASSUME CommandsAssumption ==
    /\ MaxClaimTxs \in Nat \ {0}
    /\ MaxOutages \in Nat

VARIABLES
    status, step, outcome, claimTx,  \* ClaimProcess
    proof,      \* the checkpoint that each claim transaction was proved with
    earlier,    \* the claim transactions of earlier invocations
    command,    \* the command that runs, or ran last
    stage,      \* where it is
    ctxDone,    \* its context's deadline has passed
    waitDone,   \* so has the deadline of Wait, which was set later
    reported,   \* the message status that status read
    readAt,     \* history: the destination head when it did
    exit,       \* its exit code
    payload,    \* what its JSON object says of readiness, "none" if nothing
    outages     \* history: how many calls failed or were cut off, and writes failed, so far

attemptVars == <<step, outcome>>
txVars == <<claimTx, proof>>
readVars == <<reported, readAt>>
endVars == <<exit, payload>>
runVars == <<earlier, command, ctxDone, waitDone>>
lowLevelVars ==
    <<chainVars, probeVars, status, attemptVars, txVars, runVars, stage, readVars,
      endVars, outages>>

(* The claim of this invocation is proved with what Wait returned.         *)
Received == IsMessageReceived(SourceMessageBlock, result.CheckpointBlock, destHead)

Provable ==
    \E c \in SourceBlocks : IsMessageReceived(SourceMessageBlock, c, destHead)

C == INSTANCE ClaimProcess WITH received <- Received, provable <- Provable

Commands == {"check-ready", "wait-ready", "claim", "status"}
Stages ==
    {"setup", "readMessageSent", "messageStatus", "probe", "probed", "sleep", "claim", "exited"}

OK == 0
ConfigError == 2
Validation == 3
TimeoutCode == 4
TxReverted == 5
NotReady == 6
RPCOrProof == 7
Unexpected == 10
Running == 99  \* no exit code yet

LowLevelTypeOK ==
    /\ TypeOK
    /\ C!ClaimTypeOK
    /\ proof \in [1..MaxClaimTxs -> SourceBlocks]
    /\ earlier \subseteq C!Submitted
    /\ command \in Commands
    /\ stage \in Stages
    /\ waitDone \in BOOLEAN /\ (waitDone => ctxDone)
    /\ reported \in C!Statuses \cup {"none"}
    /\ readAt \in DestBlocks
    /\ exit \in {OK, ConfigError, Validation, TimeoutCode, TxReverted, NotReady,
                 RPCOrProof, Unexpected, Running}
    /\ (exit = Running) = (stage # "exited")
    /\ payload \in {"none", "ready", "notReady", "claimed"}
    /\ outages \in 0..MaxOutages

(* The message is sent, nobody has claimed it, and no command has run: the *)
(* state reads as if one had failed before it did anything.                *)
LowLevelInit ==
    /\ Init
    /\ status = "NEW"
    /\ step = "returned"
    /\ outcome = "none"
    /\ claimTx = [i \in 1..MaxClaimTxs |-> "unsent"]
    /\ proof = [i \in 1..MaxClaimTxs |-> 0]
    /\ earlier = {}
    /\ command = "status"
    /\ stage = "exited"
    /\ ctxDone = FALSE
    /\ waitDone = FALSE
    /\ reported = "none"
    /\ readAt = 0
    /\ exit = ConfigError
    /\ payload = "none"
    /\ outages = 0

Exit(code, p) ==
    /\ stage' = "exited"
    /\ exit' = code
    /\ payload' = p

GoTo(s) ==
    /\ stage' = s
    /\ UNCHANGED endVars

Outage ==
    /\ outages < MaxOutages
    /\ outages' = outages + 1

(* Every call fails once the context is done.                              *)
Disrupted ==
    \/ ctxDone /\ UNCHANGED outages
    \/ ~ctxDone /\ Outage

(* The final object of a command that did what it should.  The error of a  *)
(* failing write has no code of its own.                                   *)
Emit(p) ==
    \/ Exit(OK, p) /\ UNCHANGED outages
    \/ Exit(Unexpected, "none") /\ Outage
-----------------------------------------------------------------------------
StartInvocation(c) ==
    /\ stage = "exited"
    /\ command' = c
    /\ stage' = "setup"
    /\ ctxDone' = FALSE
    /\ waitDone' = FALSE
    /\ earlier' = C!Submitted
    /\ reported' = "none"
    /\ readAt' = 0
    /\ exit' = Running
    /\ payload' = "none"
    /\ step' = "returned"
    /\ outcome' = "none"
    /\ UNCHANGED <<chainVars, status, txVars, outages>>

(* Mutant: the prober of the last invocation is used again.                *)
Start_KeepsProber(c) ==
    /\ StartInvocation(c)
    /\ pc' = "BlockNumber"
    /\ result' = [Ready |-> FALSE, CheckpointBlock |-> 0]
    /\ UNCHANGED <<head, nextLogBlock, bestCheckpoint>>

(* A user runs a command: a new context, and later a new prober.           *)
Start(c) ==
    /\ StartInvocation(c)
    /\ pc' = "BlockNumber"
    /\ head' = 0
    /\ nextLogBlock' = 0
    /\ bestCheckpoint' = 0
    /\ result' = [Ready |-> FALSE, CheckpointBlock |-> 0]

(* The arguments, loadRuntime, LoadPrivateKey of claim, parseHash.         *)
Setup ==
    /\ stage = "setup"
    /\ ~ctxDone
    /\ GoTo("readMessageSent")
    /\ UNCHANGED <<probeVars, attemptVars, txVars, readVars, outages>>

SetupFails ==
    /\ stage = "setup"
    /\ Disrupted
    /\ \E code \in {ConfigError, Validation, Unexpected} : Exit(code, "none")
    /\ UNCHANGED <<probeVars, attemptVars, txVars, readVars>>

(* ReadMessageSentFromTx answers; status goes on to the message's status.  *)
ReadMessageSent ==
    /\ stage = "readMessageSent"
    /\ ~ctxDone
    /\ \/ command = "status" /\ GoTo("messageStatus")
       \/ command # "status" /\ GoTo("probe")
    /\ UNCHANGED <<probeVars, attemptVars, txVars, readVars, outages>>

(* DstBridge.MessageStatus.                                                *)
MessageStatus ==
    /\ stage = "messageStatus"
    /\ ~ctxDone
    /\ reported' = status
    /\ readAt' = destHead
    /\ GoTo("probe")
    /\ UNCHANGED <<probeVars, attemptVars, txVars, outages>>

(* The receipt or the status cannot be read, or has no such event, or the  *)
(* context is done.                                                        *)
ReadFails ==
    /\ stage \in {"readMessageSent", "messageStatus"}
    /\ Disrupted
    /\ Exit(RPCOrProof, "none")
    /\ UNCHANGED <<probeVars, attemptVars, txVars, readVars>>

ProbeStep ==
    /\ stage = "probe"
    /\ ~ctxDone
    /\ Probe
    /\ GoTo(IF pc' = "BlockNumber" THEN "probed" ELSE "probe")
    /\ UNCHANGED <<attemptVars, txVars, readVars, outages>>

ProbeFails ==
    /\ stage = "probe"
    /\ CallFails
    /\ Disrupted
    /\ Exit(RPCOrProof, "none")
    /\ UNCHANGED <<attemptVars, txVars, readVars>>

(* Mutant: status reads the message's status after the probe.              *)
ReportProbe_ReadsStatusLast ==
    /\ stage = "probed"
    /\ command \in {"check-ready", "status"}
    /\ Emit(IF result.Ready THEN "ready" ELSE "notReady")
    /\ reported' = status
    /\ readAt' = destHead
    /\ UNCHANGED <<probeVars, attemptVars, txVars>>

(* check-ready and status report a single probe, whatever it found.        *)
ReportProbe ==
    /\ stage = "probed"
    /\ command \in {"check-ready", "status"}
    /\ Emit(IF result.Ready THEN "ready" ELSE "notReady")
    /\ UNCHANGED <<probeVars, attemptVars, txVars, readVars>>

(* Wait returns as soon as a probe is ready: wait-ready is done, and claim *)
(* makes its one attempt.                                                  *)
WaitReturns ==
    /\ stage = "probed"
    /\ command \in {"wait-ready", "claim"}
    /\ result.Ready
    /\ \/ command = "wait-ready" /\ Emit("ready") /\ UNCHANGED <<attemptVars, claimTx>>
       \/ command = "claim" /\ GoTo("claim") /\ C!StartProcess /\ UNCHANGED outages
    /\ UNCHANGED <<probeVars, proof, readVars>>

(* Wait found the message not ready: time is up, or it sleeps.  wait-ready *)
(* drops the error of writing what it found.                               *)
WaitGoesOn ==
    /\ stage = "probed"
    /\ command \in {"wait-ready", "claim"}
    /\ ~result.Ready
    /\ \/ /\ waitDone
          /\ \/ Exit(TimeoutCode, "none")
             \/ command = "wait-ready" /\ Exit(TimeoutCode, "notReady")
       \/ ~waitDone /\ GoTo("sleep")
    /\ UNCHANGED <<probeVars, attemptVars, txVars, readVars, outages>>

(* The select of Wait.                                                     *)
Sleep ==
    /\ stage = "sleep"
    /\ \/ GoTo("probe")
       \/ ctxDone /\ Exit(RPCOrProof, "none")
    /\ UNCHANGED <<probeVars, attemptVars, txVars, readVars, outages>>

(* claim.Process, which proves its transaction with what Wait returned.    *)
Claim ==
    /\ stage = "claim"
    /\ C!ProcessStep
    /\ proof' = [i \in DOMAIN proof |->
                   IF claimTx'[i] = claimTx[i] THEN proof[i] ELSE result.CheckpointBlock]
    /\ UNCHANGED <<probeVars, stage, readVars, endVars, outages>>

(* Mutant: claim takes a call that failed for a revert.                    *)
ClaimReturned_RevertsOnAnyError ==
    /\ stage = "claim"
    /\ step = "returned"
    /\ \/ outcome = "claimed" /\ Emit("claimed")
       \/ outcome = "ErrNotReady" /\ Exit(NotReady, "none") /\ UNCHANGED outages
       \/ /\ outcome \in {"ErrReverted", "DeadlineExceeded", "rpc"}
          /\ Exit(TxReverted, "none")
          /\ UNCHANGED outages
    /\ UNCHANGED <<probeVars, attemptVars, txVars, readVars>>

ClaimReturned ==
    /\ stage = "claim"
    /\ step = "returned"
    /\ \/ outcome = "claimed" /\ Emit("claimed")
       \/ outcome = "ErrNotReady" /\ Exit(NotReady, "none") /\ UNCHANGED outages
       \/ outcome = "ErrReverted" /\ Exit(TxReverted, "none") /\ UNCHANGED outages
       \/ /\ outcome \in {"DeadlineExceeded", "rpc"}
          /\ Exit(RPCOrProof, "none")
          /\ UNCHANGED outages
    /\ UNCHANGED <<probeVars, attemptVars, txVars, readVars>>

CommandStep ==
    /\ \/ Setup \/ SetupFails \/ ReadMessageSent \/ MessageStatus \/ ReadFails
       \/ ProbeStep \/ ProbeFails \/ ReportProbe \/ WaitReturns \/ WaitGoesOn \/ Sleep
       \/ Claim \/ ClaimReturned
    /\ UNCHANGED <<chainVars, status, runVars>>
-----------------------------------------------------------------------------
(* The deadline of the context passes.  Wherever the command does not wait  *)
(* for somebody else, that is an outage: the calls took longer than usual. *)
ContextEnds ==
    /\ stage # "exited" /\ ~ctxDone
    /\ ctxDone' = TRUE
    /\ \/ stage = "sleep" /\ UNCHANGED outages
       \/ stage = "claim" /\ step = "TransactionReceipt" /\ UNCHANGED outages
       \/ stage # "sleep" /\ step # "TransactionReceipt" /\ Outage
    /\ UNCHANGED waitDone

(* The deadline of Wait was set after that of the context (wait.go:179).   *)
WaitDeadlinePasses ==
    /\ ctxDone /\ ~waitDone
    /\ stage \in {"probe", "probed", "sleep"}
    /\ waitDone' = TRUE
    /\ UNCHANGED <<ctxDone, outages>>

TimePasses ==
    /\ ContextEnds \/ WaitDeadlinePasses
    /\ UNCHANGED <<chainVars, probeVars, status, attemptVars, txVars, earlier, command,
                   stage, readVars, endVars>>

(* Bridge.processMessage of a claim of this or an earlier invocation.      *)
MineClaim ==
    /\ \E i \in 1..MaxClaimTxs :
         LET accepted == status = "NEW" /\ IsMessageReceived(SourceMessageBlock, proof[i], destHead)
         IN  /\ claimTx[i] = "pending"
             /\ \/ accepted /\ C!Processed /\ claimTx' = [claimTx EXCEPT ![i] = "succeeded"]
                \/ ~accepted /\ UNCHANGED status /\ claimTx' = [claimTx EXCEPT ![i] = "reverted"]
    /\ UNCHANGED attemptVars

DestBridgeStep ==
    /\ MineClaim \/ C!RelayerClaims \/ C!OwnerRetries
    /\ UNCHANGED <<chainVars, probeVars, proof, runVars, stage, readVars, endVars, outages>>

DestinationStep ==
    /\ ChainNext
    /\ UNCHANGED <<probeVars, status, attemptVars, txVars, runVars, stage, readVars,
                   endVars, outages>>

UserStep == \E c \in Commands : Start(c)

LowLevelNext ==
    UserStep \/ CommandStep \/ TimePasses \/ DestBridgeStep \/ DestinationStep

LowLevelSpec == LowLevelInit /\ [][LowLevelNext]_lowLevelVars

(* A command runs whenever it can, since a call returns at the latest when *)
(* its context is done, and time passes while it polls.                    *)
LowLevelFairSpec ==
    /\ LowLevelSpec
    /\ WF_lowLevelVars(CommandStep)
    /\ SF_lowLevelVars(TimePasses)

(* The user of SKILL.md:127, who runs wait-ready again and again.          *)
RerunSpec == LowLevelFairSpec /\ SF_lowLevelVars(Start("wait-ready"))
-----------------------------------------------------------------------------
Mine == C!Submitted \ earlier

(* The exit code of claim is about the transaction of this invocation,     *)
(* however many earlier ones are still in the mempool: 0 and 5 say what    *)
(* became of it, 4 and 6 that there is none and that a new attempt         *)
(* competes with nothing of this one (claim.go:52-71).                     *)
ExitIsAboutThisRun ==
    /\ \A i, j \in Mine : i = j
    /\ command = "claim" /\ exit = OK =>
         status # "NEW" /\ \E i \in Mine : claimTx[i] = "succeeded"
    /\ exit = TxReverted => Mine # {} /\ \A i \in Mine : claimTx[i] = "reverted"
    /\ exit \in {NotReady, TimeoutCode} => Mine = {}

(* The two halves of the answer of status fit together although the chain  *)
(* moves and a relayer may claim between the two reads: of a message that  *)
(* was processed, and whose checkpoint had the confirmations asked for by  *)
(* then, the probe says that it is ready (status.go:44-52).                *)
SnapshotFits ==
    /\ command = "status" /\ exit = OK /\ reported # "NEW"
    /\ \E e \in saved : Qualifies(e) /\ HasConfs(e, readAt)
    => payload = "ready"

(* No invocation outlives its context: neither the polls of Wait nor the   *)
(* wait for a receipt (claim.go:29, wait_ready.go:28).                     *)
InvocationEnds == ctxDone ~> stage = "exited"

(* "keep polling with larger --timeout, then retry claim" (SKILL.md:127):  *)
(* what one invocation has missed for good, because it scanned the log     *)
(* before it had its confirmations, the next one finds, since it scans     *)
(* from block 0 again.                                                     *)
RerunFindsReady ==
    (\E e \in saved : Qualifies(e) /\ HasConfs(e, destHead))
      ~> (command = "wait-ready" /\ exit = OK)
=============================================================================
