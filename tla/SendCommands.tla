----------------------------- MODULE SendCommands -----------------------------
(***************************************************************************)
(* The send-eth, send-erc20, send-erc721 and send-erc1155 commands of      *)
(* internal/cmd/send_*.go, from the root flags to the JSON line, and a     *)
(* user who runs them again when one has failed.                           *)
(*                                                                         *)
(* The module composes Runtime, SendRequest and SendProcess.  What         *)
(* outlives an invocation is its transaction, which may be mined during a  *)
(* later one.                                                              *)
(***************************************************************************)
EXTENDS SendRequest, FiniteSets

CONSTANTS
    MaxRuns,  \* bound of the model: how often the user runs a command
    MaxLogs   \* bound of the model: the logs of a receipt

ASSUME SendAssumption ==
    /\ Word \in Nat /\ Word > 3
    /\ MaxRuns \in Nat \ {0}
    /\ MaxLogs \in Nat

VARIABLES
    flags, ctxDone, load, client, bindings,  \* Runtime
    sendStep, sendOutcome, sendTx,            \* SendProcess
    asked,     \* the flags of the command
    key,       \* --private-key, and the variable that --private-key-env names
    stage,     \* where the command is
    gasLimit,  \* gasResolution.EffectiveGasLimit
    tx,        \* what the transaction says and pays
    logs,      \* the logs of its receipt
    exit,      \* the exit code
    event,     \* the log that the payload describes, 0 without a payload
    runs,      \* how many commands have been started
    earlier,   \* the transactions of earlier invocations
    careful    \* whether the user heeds the exit code

runtimeVars == <<load, client, bindings>>
processVars == <<sendStep, sendOutcome>>
inputVars == <<flags, asked, key>>
userVars == <<runs, earlier, careful>>
endVars == <<exit, event>>
sendCommandVars ==
    <<inputVars, ctxDone, runtimeVars, processVars, sendTx, stage, gasLimit, tx, logs,
      endVars, userVars>>

Request == BuildRequest(asked, gasLimit)

R == INSTANCE Runtime
S == INSTANCE SendProcess WITH
       request <- IF Request.ok THEN "valid" ELSE "invalid",
       sendCtxDone <- ctxDone,
       hasEvent <- ParseMessageSent(logs, 0) # 0

OK == 0
ConfigError == 2
Validation == 3
RPCOrProof == 7
Unexpected == 10
Running == 99  \* no exit code yet
-----------------------------------------------------------------------------
(* The inputs: configurations and keys of all sorts with a plain request,  *)
(* and a plain configuration with requests of all sorts.                   *)
PlainFlags ==
    [rpc |-> [side \in R!Sides |-> TRUE],
     chain |-> [side \in R!Sides |-> IF side = "src" THEN 1 ELSE 2],
     override |-> [c \in R!Overrides |-> "empty"]]

(* All overrides of a side, one alone, and all but one.                    *)
OfSide(side, text) == [c \in R!Overrides |-> IF c[1] = side THEN text ELSE "empty"]
Only(flag, text) == [c \in R!Overrides |-> IF c = flag THEN text ELSE "empty"]
AllBut(flag) == [c \in R!Overrides |-> IF c = flag THEN "empty" ELSE "address"]

Served(chain, override) == [PlainFlags EXCEPT !.chain = chain, !.override = override]

RootFlags ==
    {[PlainFlags EXCEPT !.rpc[side] = FALSE] : side \in R!Sides} \cup
    {Served(chain, OfSide(side, text)) :
       chain \in [R!Sides -> R!Chains], side \in R!Sides, text \in {"empty", "address", "garbage"}} \cup
    {Served(PlainFlags.chain, Only(flag, text)) :
       flag \in R!Overrides, text \in {"address", "garbage"}} \cup
    {Served(chain, AllBut(flag)) : chain \in [R!Sides -> {1, 3}], flag \in R!Overrides}

PlainData == [prefixed |-> TRUE, digits |-> <<>>]
PlainETH ==
    [flow |-> "eth", to |-> "address", destOwner |-> "empty", token |-> "address",
     fee |-> Number(1), value |-> Number(1), ids |-> <<>>, amounts |-> <<>>,
     data |-> PlainData, gasLimit |-> 2]
PlainNFT == [PlainETH EXCEPT !.flow = "erc1155", !.ids = <<Number(5), Number(6)>>]

Amount == {Empty, Garbage} \cup {Number(n) : n \in {-1, 0, 1, Word}}
Texts == {<<>>, <<Number(1)>>, <<Number(1), Number(0)>>, <<Number(2), Number(1)>>, <<Number(1), Garbage>>}

Paying(flow, fee, value) == [PlainETH EXCEPT !.flow = flow, !.fee = fee, !.value = value]
Listing(flow, fee, amounts) == [PlainNFT EXCEPT !.flow = flow, !.fee = fee, !.amounts = amounts]
Naming(ids) == [PlainNFT EXCEPT !.ids = ids, !.amounts = <<Number(1)>>]
Calling(prefixed, digits, limit) ==
    [PlainETH EXCEPT !.data = [prefixed |-> prefixed, digits |-> digits], !.gasLimit = limit]
Addressing(flow, to, owner, token) ==
    [PlainETH EXCEPT !.flow = flow, !.to = to, !.destOwner = owner, !.token = token]

Requests ==
    {Paying(flow, fee, value) :
       flow \in {"eth", "erc20"}, fee \in Amount \cup {Number(Word - 1)}, value \in Amount}
    \cup {Listing(flow, fee, amounts) :
       flow \in {"erc721", "erc1155"}, fee \in Amount, amounts \in Texts}
    \cup {Naming(ids) : ids \in Texts}
    \cup {Calling(prefixed, digits, limit) :
       prefixed \in BOOLEAN, digits \in {<<"byte">>, <<"byte", "byte">>, <<"byte", "junk">>}, limit \in {1, 2, 3}}
    \cup {Addressing(flow, to, owner, token) :
       flow \in {"eth", "erc20"}, to \in {"address", "garbage"},
       owner \in {"empty", "address", "garbage"}, token \in {"address", "garbage"}}

Keys == [flag : {"empty", "key", "malformed"}, env : {"empty", "key"}]
PlainKey == [flag |-> "empty", env |-> "key"]

Input(f, k, r) == [flags |-> f, key |-> k, asked |-> r]

Inputs ==
    {Input(f, PlainKey, PlainETH) : f \in RootFlags} \cup
    {Input(PlainFlags, k, PlainETH) : k \in Keys} \cup
    {Input(PlainFlags, PlainKey, r) : r \in Requests}

SendCommandsInit ==
    /\ \E i \in Inputs : flags = i.flags /\ key = i.key /\ asked = i.asked
    /\ ctxDone = FALSE
    /\ R!NotLoaded
    /\ sendStep = "idle" /\ sendOutcome = "none" /\ sendTx = "unsent"
    /\ stage = "flags"
    /\ gasLimit = 0
    /\ tx = Refused
    /\ logs = <<>>
    /\ exit = Running /\ event = 0
    /\ runs = 1
    /\ earlier = <<>>
    /\ careful \in BOOLEAN
-----------------------------------------------------------------------------
GoTo(s) ==
    /\ stage' = s
    /\ UNCHANGED <<runtimeVars, endVars>>

(* A command returns, with its exit code; the deferred close runs when     *)
(* there is a runtime.                                                     *)
Exit(code) ==
    /\ stage' = "exited"
    /\ exit' = code
    /\ UNCHANGED event
    /\ \/ R!CloseRuntime
       \/ load # "loaded" /\ UNCHANGED runtimeVars

(* Cobra misses a required flag, or knows one not: a plain error.          *)
ParseArgs ==
    /\ stage = "flags"
    /\ \/ GoTo("runtime")
       \/ Exit(Unexpected)
    /\ UNCHANGED <<processVars, sendTx, gasLimit, tx>>

LoadRuntime ==
    /\ stage = "runtime"
    /\ \/ R!LoadRuntime /\ UNCHANGED <<stage, endVars>>
       \/ load = "loaded" /\ GoTo("key")
       \/ load = "failed" /\ Exit(ConfigError)
    /\ UNCHANGED <<processVars, sendTx, gasLimit, tx>>

(* The flag, or else the variable of the process's own environment.        *)
LoadPrivateKey ==
    LET keyHex == IF key.flag = "empty" THEN key.env ELSE key.flag
    IN  /\ stage = "key"
        /\ IF keyHex = "key" THEN GoTo("parse") ELSE Exit(ConfigError)
        /\ UNCHANGED <<processVars, sendTx, gasLimit, tx>>

Parse ==
    /\ stage = "parse"
    /\ \/ ParseFlags(asked) /\ GoTo(IF asked.flow = "eth" THEN "gas" ELSE "destChainID")
       \/ ~ParseFlags(asked) /\ Exit(Validation)
    /\ UNCHANGED <<processVars, sendTx, gasLimit, tx>>

(* GetMessageMinGasLimit of the source bridge: it grows with the data.     *)
MessageMinGasLimit(length) == 1 + length

ResolveGas ==
    /\ stage = "gas"
    /\ \/ /\ ~ctxDone
          /\ gasLimit' = ResolveETHGasLimit(asked.gasLimit, MessageMinGasLimit(Len(ParseBytesHex(asked.data))))
          /\ GoTo("destChainID")
       \/ Exit(RPCOrProof) /\ UNCHANGED gasLimit
    /\ UNCHANGED <<processVars, sendTx, tx>>

DestChainID ==
    /\ stage = "destChainID"
    /\ \/ ~ctxDone /\ S!StartSend /\ GoTo("send")
       \/ Exit(RPCOrProof) /\ UNCHANGED <<processVars, sendTx>>
    /\ UNCHANGED <<gasLimit, tx>>

Send ==
    /\ stage = "send"
    /\ S!SendProgress
    /\ tx' = IF sendTx = "unsent" /\ sendTx' = "pending" THEN Request ELSE tx
    /\ UNCHANGED <<stage, runtimeVars, gasLimit, endVars>>

(* Mutant: an error before the receipt is taken for one of the request.    *)
SendReturned_RPCIsValidation ==
    /\ stage = "send"
    /\ sendStep = "returned"
    /\ \/ sendOutcome = "sent" /\ GoTo("emit")
       \/ sendOutcome \in {"invalid", "rpc"} /\ Exit(Validation)
       \/ sendOutcome \notin {"sent", "invalid", "rpc"} /\ Exit(RPCOrProof)
    /\ UNCHANGED <<processVars, sendTx, gasLimit, tx>>

(* Every error of the send exits alike, that of an amount too.             *)
SendReturned ==
    /\ stage = "send"
    /\ sendStep = "returned"
    /\ \/ sendOutcome = "sent" /\ GoTo("emit")
       \/ sendOutcome # "sent" /\ Exit(RPCOrProof)
    /\ UNCHANGED <<processVars, sendTx, gasLimit, tx>>

(* Mutant: the error of Emit is dropped.                                   *)
Emit_IgnoresError ==
    /\ stage = "emit"
    /\ stage' = "exited"
    /\ R!CloseRuntime
    /\ exit' = OK
    /\ event' \in {ParseMessageSent(logs, 0), 0}
    /\ UNCHANGED <<processVars, sendTx, gasLimit, tx>>

(* Printer.Emit: the error of a broken pipe has no code of its own.        *)
Emit ==
    /\ stage = "emit"
    /\ stage' = "exited"
    /\ R!CloseRuntime
    /\ \/ exit' = OK /\ event' = ParseMessageSent(logs, 0)
       \/ exit' = Unexpected /\ UNCHANGED event
    /\ UNCHANGED <<processVars, sendTx, gasLimit, tx>>

CommandStep ==
    /\ \/ ParseArgs \/ LoadRuntime \/ LoadPrivateKey \/ Parse \/ ResolveGas
       \/ DestChainID \/ Send \/ SendReturned \/ Emit
    /\ UNCHANGED <<inputVars, ctxDone, logs, userVars>>

CtxEnds ==
    /\ stage # "exited" /\ ~ctxDone
    /\ ctxDone' = TRUE
    /\ UNCHANGED <<inputVars, runtimeVars, processVars, sendTx, stage, gasLimit, tx, logs,
                   endVars, userVars>>

(* The logs of a receipt: of another contract, of the bridge but of        *)
(* another kind, or MessageSent of the bridge.                             *)
Receipts == SeqOf({[bridge |-> FALSE, parses |-> TRUE], [bridge |-> TRUE, parses |-> FALSE],
                   [bridge |-> TRUE, parses |-> TRUE]}, MaxLogs)

MineSend ==
    /\ logs' \in Receipts
    /\ S!MineSend
    /\ sendTx' = "reverted" => logs' = <<>>
    /\ UNCHANGED <<inputVars, ctxDone, runtimeVars, stage, gasLimit, tx, endVars, userVars>>

MineEarlier ==
    /\ \E i \in DOMAIN earlier :
         /\ earlier[i] = "pending"
         /\ \E end \in {"succeeded", "reverted"} : earlier' = [earlier EXCEPT ![i] = end]
    /\ UNCHANGED <<inputVars, ctxDone, runtimeVars, processVars, sendTx, stage, gasLimit, tx,
                   logs, endVars, runs, careful>>

(* The user tries again, in a new process; a careful one only after an     *)
(* exit code that tells of his own mistake.                                *)
RunAgain ==
    /\ stage = "exited" /\ exit # OK
    /\ runs < MaxRuns
    /\ careful => exit \in {ConfigError, Validation}
    /\ runs' = runs + 1
    /\ earlier' = IF sendTx = "unsent" THEN earlier ELSE Append(earlier, sendTx)
    /\ \E i \in Inputs : flags' = i.flags /\ key' = i.key /\ asked' = i.asked
    /\ ctxDone' = FALSE
    /\ load' = "flags" /\ client' = [side \in R!Sides |-> "none"] /\ bindings' = <<>>
    /\ sendStep' = "idle" /\ sendOutcome' = "none" /\ sendTx' = "unsent"
    /\ stage' = "flags"
    /\ gasLimit' = 0
    /\ tx' = Refused
    /\ logs' = <<>>
    /\ exit' = Running /\ event' = 0
    /\ UNCHANGED careful

SendCommandsNext == CommandStep \/ CtxEnds \/ MineSend \/ MineEarlier \/ RunAgain

SendCommandsSpec == SendCommandsInit /\ [][SendCommandsNext]_sendCommandVars
-----------------------------------------------------------------------------
SendCommandsTypeOK ==
    /\ R!RuntimeTypeOK
    /\ S!SendTypeOK
    /\ stage \in {"flags", "runtime", "key", "parse", "gas", "destChainID", "send", "emit", "exited"}
    /\ exit \in {OK, ConfigError, Validation, RPCOrProof, Unexpected, Running}
    /\ (exit = Running) = (stage # "exited")
    /\ event \in 0..Len(logs)
    /\ Len(earlier) < runs /\ runs \in 1..MaxRuns

(* Whoever runs a command again only when its exit code names a mistake of *)
(* his own (2 or 3) never sends twice: behind these codes there is no      *)
(* transaction, neither one that was accepted while its answer was lost    *)
(* nor one whose receipt could not be read (send.go:261, 443).             *)
CarefulUserSendsOnce ==
    careful => IF sendTx = "unsent" THEN Len(earlier) <= 1 ELSE earlier = <<>>

(* Exit code 0 is about the transaction of this invocation, whatever       *)
(* became of earlier ones, and its payload describes the first MessageSent *)
(* of the bridge in the receipt; that there is none is said only when      *)
(* there is none (send.go:455-489).                                        *)
SuccessIsOwn ==
    LET Sent(i) == logs[i].bridge /\ logs[i].parses
    IN  /\ exit = OK => sendTx = "succeeded" /\ event # 0 /\ Sent(event)
                        /\ \A j \in 1..(event - 1) : ~Sent(j)
        /\ sendOutcome = "ErrNoMessageSentEvent" => \A i \in DOMAIN logs : ~Sent(i)

(* --event-index n names the n-th MessageSent of the bridge, however many  *)
(* other logs lie in between (send.go:466-486).                            *)
EventIndexCountsMessages ==
    LET sent == {i \in DOMAIN logs : logs[i].bridge /\ logs[i].parses}
    IN  \A n \in 0..MaxLogs :
          LET e == ParseMessageSent(logs, n)
          IN  \/ e \in sent /\ Cardinality({i \in sent : i < e}) = n
              \/ e = 0 /\ Cardinality(sent) <= n

(* A transaction that was submitted moves what was asked for, and pays for *)
(* it exactly: the fee in the message is the fee paid, none is cut to 64   *)
(* bits, no amount is negative, and the gas limit of an ETH message is     *)
(* never below the bridge's minimum (send.go:155-232, 492).                *)
PaysAsAsked ==
    sendTx # "unsent" =>
      /\ tx.fee = asked.fee.n /\ tx.fee \in 0..(Word - 1)
      /\ tx.msgValue = tx.fee + (IF asked.flow = "eth" THEN asked.value.n ELSE 0)
      /\ asked.flow \in {"eth", "erc20"} => tx.amounts = <<asked.value.n>>
      /\ asked.flow \in {"erc721", "erc1155"} =>
           /\ tx.ids = Numbers(asked.ids)
           /\ tx.amounts = IF asked.amounts = <<>> THEN [i \in DOMAIN asked.ids |-> 1]
                           ELSE Numbers(asked.amounts)
      /\ \A i \in DOMAIN tx.amounts : tx.amounts[i] >= IF asked.flow = "eth" THEN 0 ELSE 1
      /\ asked.flow = "eth" => tx.gasLimit >= MessageMinGasLimit(Len(tx.data))

(* The clients are open for as long as a command may use them, and when it *)
(* has ended, whichever of its many errors ended it, none is left open     *)
(* (runtime.go:83-189, send_eth.go:37).                                    *)
ClientsOpenWhileUsed ==
    /\ stage \in {"key", "parse", "gas", "destChainID", "send", "emit"} =>
         \A side \in R!Sides : client[side] = "open"
    /\ stage = "exited" => \A side \in R!Sides : client[side] # "open"

(* Every contract of the runtime is one of its kind, deployed on the chain *)
(* that its client is connected to, or else the one that its own flag and  *)
(* no other names: none of the seven hand-written calls has got the flag,  *)
(* preset or client of another, whatever the endpoints serve and whichever *)
(* mixture of overrides hides it (runtime.go:103-189).  A chain id beyond  *)
(* 64 bits is taken for its remainder, and left out here.                  *)
AddressesAreOfTheirChain ==
    load = "loaded" =>
      \A name \in DOMAIN bindings :
        LET b == bindings[name]
            chain == flags.chain[b.client]
            flag == <<b.client, b.kind>>
        IN  chain < Word =>
              b.at = IF flags.override[flag] = "empty" THEN R!Deployed(chain, b.kind)
                     ELSE R!Given(flag)

(* "data must be 0x-prefixed hex" (runtime.go:288): the calldata of the    *)
(* message is the calldata asked for, and text that is not hex is refused. *)
DataAsAsked == sendTx # "unsent" => tx.data = asked.data.digits
=============================================================================
