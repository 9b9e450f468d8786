----------------------------- MODULE SendRequest -----------------------------
(***************************************************************************)
(* What a send command makes of its flags before it submits a transaction, *)
(* and of the receipt afterwards: the parse functions of                   *)
(* internal/cmd/runtime.go, and the Build functions, ResolveETHGasLimit    *)
(* and parseMessageSentFromReceipt of internal/bridge/send.go.             *)
(*                                                                         *)
(* A flag's text is what the parser can tell of it: empty, an integer of   *)
(* any sign and size (a big.Int), or garbage.                              *)
(***************************************************************************)
EXTENDS Integers, SequencesExt

CONSTANT Word  \* 2^64: the fee of a message is a uint64

Empty == [is |-> "empty", n |-> 0]
Garbage == [is |-> "garbage", n |-> 0]
Number(n) == [is |-> "number", n |-> n]

Refused == [ok |-> FALSE]

(* parseBig, and a list of values by parseCSVBigInts.                      *)
ParseBig(v) == v.is = "number"
ParseCSV(list) == list # <<>> /\ \A i \in DOMAIN list : ParseBig(list[i])
Numbers(list) == [i \in DOMAIN list |-> list[i].n]

(* parseBytesHex: common.FromHex gives the bytes before the first digit    *)
(* that is none.                                                           *)
ParseBytesHex(data) ==
    LET junk == SelectInSeq(data.digits, LAMBDA d : d = "junk")
    IN  IF junk = 0 THEN data.digits ELSE SubSeq(data.digits, 1, junk - 1)

(* The addresses and numbers that every command checks before it calls     *)
(* anything (Validation); --amounts is optional for send-erc721 alone.     *)
ParseFlags(f) ==
    /\ f.to = "address"
    /\ f.destOwner \in {"empty", "address"}
    /\ f.flow # "eth" => f.token = "address"
    /\ ParseBig(f.fee)
    /\ f.flow \in {"eth", "erc20"} => ParseBig(f.value)
    /\ f.flow = "eth" => f.data.prefixed \/ f.data.digits = <<>>
    /\ f.flow \in {"erc721", "erc1155"} => ParseCSV(f.ids)
    /\ f.flow = "erc721" => f.amounts = <<>> \/ ParseCSV(f.amounts)
    /\ f.flow = "erc1155" => ParseCSV(f.amounts)

(* ensureDestOwner.                                                        *)
EnsureDestOwner(f) == IF f.destOwner = "empty" THEN "to" ELSE "destOwner"

(* Mutant: the fee is cut to 64 bits.                                      *)
ToUint64_Truncates(n) ==
    IF n < 0 THEN Refused ELSE [ok |-> TRUE, n |-> n % Word]

ToUint64(n) ==
    IF n < 0 \/ n >= Word THEN Refused ELSE [ok |-> TRUE, n |-> n]

(* BuildETHMessage: what the message says, and what the transaction pays.  *)
BuildETHMessage(f, gasLimit) ==
    LET fee == ToUint64(f.fee.n)
    IN  IF f.value.n < 0 \/ ~fee.ok
        THEN Refused
        ELSE [ok |-> TRUE, flow |-> "eth", fee |-> fee.n, amounts |-> <<f.value.n>>, ids |-> <<>>,
              data |-> ParseBytesHex(f.data), destOwner |-> EnsureDestOwner(f),
              gasLimit |-> gasLimit, msgValue |-> f.value.n + f.fee.n]

BuildERC20Op(f) ==
    LET fee == ToUint64(f.fee.n)
    IN  IF f.value.n <= 0 \/ ~fee.ok
        THEN Refused
        ELSE [ok |-> TRUE, flow |-> "erc20", fee |-> fee.n, amounts |-> <<f.value.n>>, ids |-> <<>>,
              data |-> <<>>, destOwner |-> EnsureDestOwner(f),
              gasLimit |-> f.gasLimit, msgValue |-> f.fee.n]

(* BuildNFTAmounts: send-erc721 may leave the amounts out.                 *)
BuildNFTAmounts(ids, amounts, is721) ==
    LET given == IF is721 /\ amounts = <<>> THEN [i \in DOMAIN ids |-> 1] ELSE amounts
    IN  IF ids = <<>> \/ Len(ids) # Len(given) \/ \E i \in DOMAIN given : given[i] <= 0
        THEN Refused
        ELSE [ok |-> TRUE, amounts |-> given]

(* The operation of SendERC721 and SendERC1155.                            *)
BuildNFTOp(f) ==
    LET built == BuildNFTAmounts(Numbers(f.ids), Numbers(f.amounts), f.flow = "erc721")
        fee == ToUint64(f.fee.n)
    IN  IF ~built.ok \/ ~fee.ok
        THEN Refused
        ELSE [ok |-> TRUE, flow |-> f.flow, fee |-> fee.n, amounts |-> built.amounts,
              ids |-> Numbers(f.ids), data |-> <<>>, destOwner |-> EnsureDestOwner(f),
              gasLimit |-> f.gasLimit, msgValue |-> f.fee.n]

BuildRequest(f, gasLimit) ==
    CASE f.flow = "eth" -> BuildETHMessage(f, gasLimit)
      [] f.flow = "erc20" -> BuildERC20Op(f)
      [] f.flow \in {"erc721", "erc1155"} -> BuildNFTOp(f)

(* ResolveETHGasLimit: a limit below the bridge's minimum is raised to it. *)
ResolveETHGasLimit(requested, minimum) ==
    IF requested < minimum THEN minimum ELSE requested
-----------------------------------------------------------------------------
(* A log of a receipt: who emitted it, and whether ParseMessageSent        *)
(* accepts it.                                                             *)
Log == [bridge : BOOLEAN, parses : BOOLEAN]

(* Mutant: the index counts the logs of the bridge, parseable or not.      *)
ParseMessageSent_CountsAll(logs, eventIndex) ==
    LET Step(acc, i) ==
          IF acc.event # 0 \/ ~logs[i].bridge THEN acc
          ELSE [seen |-> acc.seen + 1,
                event |-> IF acc.seen = eventIndex /\ logs[i].parses THEN i ELSE 0]
    IN  FoldLeft(Step, [seen |-> 0, event |-> 0], [i \in DOMAIN logs |-> i]).event

(* Mutant: the position is off by one.                                     *)
ParseMessageSent_OneFurther(logs, eventIndex) ==
    LET Step(acc, i) ==
          IF acc.event # 0 \/ ~logs[i].bridge \/ ~logs[i].parses THEN acc
          ELSE [seen |-> acc.seen + 1, event |-> IF acc.seen = eventIndex THEN i + 1 ELSE 0]
    IN  FoldLeft(Step, [seen |-> 0, event |-> 0], [i \in DOMAIN logs |-> i]).event

(* parseMessageSentFromReceipt: the position of the event, 0 if there is   *)
(* none.                                                                   *)
ParseMessageSent(logs, eventIndex) ==
    LET Step(acc, i) ==
          IF acc.event # 0 \/ ~logs[i].bridge \/ ~logs[i].parses THEN acc
          ELSE [seen |-> acc.seen + 1, event |-> IF acc.seen = eventIndex THEN i ELSE 0]
    IN  FoldLeft(Step, [seen |-> 0, event |-> 0], [i \in DOMAIN logs |-> i]).event
=============================================================================
