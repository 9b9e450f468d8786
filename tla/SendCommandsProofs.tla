-------------------------- MODULE SendCommandsProofs --------------------------
(***************************************************************************)
(* Proofs about the send commands for any number of invocations, receipts  *)
(* of any length and any width of a fee: what a user may conclude from an  *)
(* exit code, what a submitted transaction pays, and what the runtime      *)
(* keeps open.                                                             *)
(***************************************************************************)
EXTENDS SendCommands, FiniteSetTheorems, TLAPS

(* < on Nat is well founded, so every set of numbers has a smallest.       *)
LEMMA MinIsSmallest ==
    ASSUME NEW I \in SUBSET Nat, I # {}
    PROVE  Min(I) \in I /\ \A j \in I : Min(I) <= j
<1>1. IsWellFoundedOn({p \in Nat \X Nat : p[1] < p[2]}, Nat)
  BY NatLessThanWellFounded DEF OpToRel
<1>2. PICK m \in I : \A j \in I : ~ (<<j, m>> \in {p \in Nat \X Nat : p[1] < p[2]})
  BY <1>1, WFMin
<1>3. ASSUME NEW j \in I PROVE m <= j
  <2>1. <<j, m>> \in Nat \X Nat /\ <<j, m>>[1] = j /\ <<j, m>>[2] = m
    OBVIOUS
  <2>2. ~(j < m)
    BY <1>2, <2>1
  <2> QED BY <2>2
<1> QED BY <1>3 DEF Min

(* The flags of a command, as far as a parser can tell their texts apart.  *)
FlagText == [is : {"empty", "garbage", "number"}, n : Int]
Flow == {"eth", "erc20", "erc721", "erc1155"}
Calldata == [prefixed : BOOLEAN, digits : Seq({"byte", "junk"})]
Asked ==
    [flow : Flow, to : {"address", "garbage"}, destOwner : {"empty", "address", "garbage"},
     token : {"address", "garbage"}, fee : FlagText, value : FlagText,
     ids : Seq(FlagText), amounts : Seq(FlagText), data : Calldata, gasLimit : Nat]

LEMMA TextsTyped ==
    /\ Amount \cup {Number(Word - 1)} \subseteq FlagText
    /\ Texts \subseteq Seq(FlagText)
    /\ Number(1) \in FlagText
    /\ <<Number(1)>> \in Seq(FlagText) /\ <<Number(5), Number(6)>> \in Seq(FlagText)
<1>1. Empty \in FlagText /\ Garbage \in FlagText /\ \A n \in Int : Number(n) \in FlagText
  BY DEF Empty, Garbage, Number, FlagText
<1>2. Amount \cup {Number(Word - 1)} \subseteq FlagText
  BY <1>1, SendAssumption DEF Amount
<1>3. Texts \subseteq Seq(FlagText)
  <2>1. Number(0) \in FlagText /\ Number(1) \in FlagText /\ Number(2) \in FlagText
    BY <1>1
  <2> QED BY <1>1, <2>1 DEF Texts
<1>4. Number(1) \in FlagText /\ Number(5) \in FlagText /\ Number(6) \in FlagText
  BY <1>1
<1> QED BY <1>2, <1>3, <1>4

LEMMA RequestsTyped == PlainETH \in Asked /\ Requests \subseteq Asked
<1>1. PlainData \in Calldata
  BY DEF PlainData, Calldata
<1>2. PlainETH \in Asked
  BY <1>1, TextsTyped DEF PlainETH, Asked, Flow
<1>3. PlainNFT \in Asked
  BY <1>2, TextsTyped DEF PlainNFT, Asked, Flow
<1>4. ASSUME NEW flow \in {"eth", "erc20"}, NEW fee \in FlagText, NEW value \in FlagText
      PROVE  Paying(flow, fee, value) \in Asked
  BY <1>2 DEF Paying, Asked, Flow
<1>5. ASSUME NEW flow \in {"erc721", "erc1155"}, NEW fee \in FlagText,
             NEW amounts \in Seq(FlagText)
      PROVE  Listing(flow, fee, amounts) \in Asked
  BY <1>3 DEF Listing, Asked, Flow
<1>6. ASSUME NEW ids \in Seq(FlagText)
      PROVE  Naming(ids) \in Asked
  BY <1>3, TextsTyped DEF Naming, Asked
<1>7. ASSUME NEW prefixed \in BOOLEAN, NEW digits \in Seq({"byte", "junk"}), NEW limit \in Nat
      PROVE  Calling(prefixed, digits, limit) \in Asked
  BY <1>2 DEF Calling, Asked, Calldata
<1>8. ASSUME NEW flow \in {"eth", "erc20"}, NEW to \in {"address", "garbage"},
             NEW owner \in {"empty", "address", "garbage"}, NEW token \in {"address", "garbage"}
      PROVE  Addressing(flow, to, owner, token) \in Asked
  BY <1>2 DEF Addressing, Asked, Flow
<1>9. {<<"byte">>, <<"byte", "byte">>, <<"byte", "junk">>} \subseteq Seq({"byte", "junk"})
  <2>1. /\ <<"byte">> \in Seq({"byte", "junk"})
        /\ <<"byte", "byte">> \in Seq({"byte", "junk"})
        /\ <<"byte", "junk">> \in Seq({"byte", "junk"})
    OBVIOUS
  <2> QED BY <2>1, Zenon
<1>10. {1, 2, 3} \subseteq Nat
  OBVIOUS
<1>11. \A prefixed \in BOOLEAN, digits \in {<<"byte">>, <<"byte", "byte">>, <<"byte", "junk">>},
          limit \in {1, 2, 3} : Calling(prefixed, digits, limit) \in Asked
  BY <1>7, <1>9, <1>10, Zenon
<1>12. Requests \subseteq Asked
  BY <1>4, <1>5, <1>6, <1>8, <1>11, TextsTyped, SMTT(60) DEF Requests
<1> QED BY <1>2, <1>12

LEMMA RootFlagsTyped == PlainFlags \in R!Flags /\ RootFlags \subseteq R!Flags
<1>1. PlainFlags \in R!Flags
  BY DEF PlainFlags, R!Flags, R!Chains, R!KnownChains
<1>2. ASSUME NEW side \in R!Sides
      PROVE  [PlainFlags EXCEPT !.rpc[side] = FALSE] \in R!Flags
  BY <1>1 DEF R!Flags
<1>3. ASSUME NEW chain \in [R!Sides -> R!Chains],
             NEW override \in [R!Overrides -> {"empty", "address", "garbage"}]
      PROVE  Served(chain, override) \in R!Flags
  BY <1>1 DEF R!Flags, Served
<1>4. ASSUME NEW text \in {"empty", "address", "garbage"}, NEW side, NEW flag
      PROVE  /\ OfSide(side, text) \in [R!Overrides -> {"empty", "address", "garbage"}]
             /\ Only(flag, text) \in [R!Overrides -> {"empty", "address", "garbage"}]
             /\ AllBut(flag) \in [R!Overrides -> {"empty", "address", "garbage"}]
  BY DEF OfSide, Only, AllBut
<1>5. PlainFlags.chain \in [R!Sides -> R!Chains] /\ [R!Sides -> {1, 3}] \subseteq [R!Sides -> R!Chains]
  BY DEF PlainFlags, R!Chains, R!KnownChains
<1>6. /\ \A chain \in [R!Sides -> R!Chains], side \in R!Sides, text \in {"empty", "address", "garbage"} :
           Served(chain, OfSide(side, text)) \in R!Flags
      /\ \A flag \in R!Overrides, text \in {"address", "garbage"} :
           Served(PlainFlags.chain, Only(flag, text)) \in R!Flags
      /\ \A chain \in [R!Sides -> {1, 3}], flag \in R!Overrides :
           Served(chain, AllBut(flag)) \in R!Flags
  BY <1>3, <1>4, <1>5
<1> QED BY <1>1, <1>2, <1>6 DEF RootFlags

LEMMA InputsTyped ==
    ASSUME NEW i \in Inputs
    PROVE  i.flags \in R!Flags /\ i.asked \in Asked
<1>1. \A f, k, r : Input(f, k, r).flags = f /\ Input(f, k, r).asked = r
  BY DEF Input
<1> QED BY <1>1, RequestsTyped, RootFlagsTyped DEF Inputs
-----------------------------------------------------------------------------
Working == {"key", "parse", "gas", "destChainID", "send", "emit"}
Stages == {"flags", "runtime", "exited"} \cup Working

StageTyped ==
    /\ stage \in Stages
    /\ exit \in {OK, ConfigError, Validation, RPCOrProof, Unexpected, Running}
    /\ (exit = Running) = (stage # "exited")

(* What the prover needs of the types.                                     *)
TypeInv ==
    /\ flags \in R!Flags /\ asked \in Asked
    /\ gasLimit \in Nat
    /\ R!RuntimeTypeOK
    /\ S!SendTypeOK
    /\ StageTyped

(* Which clients are open at each step of loadRuntime.                     *)
LoadInv ==
    /\ load \in {"flags", "dialSrc"} => \A side \in R!Sides : client[side] = "none"
    /\ load = "dialDst" => client["src"] = "open" /\ client["dst"] = "none"
    /\ load \in {"srcChainID", "dstChainID", "resolve", "loaded"} =>
         \A side \in R!Sides : client[side] = "open"
    /\ load \in {"failed", "closed"} => \A side \in R!Sides : client[side] # "open"
    /\ load = "loaded" => /\ bindings = R!Bindings(R!Addresses)
                          /\ \A name \in DOMAIN R!Addresses : R!Addresses[name].ok

(* How far loadRuntime has come at each stage of the command.              *)
StageInv ==
    /\ stage = "flags" => load = "flags"
    /\ stage \in Working => load = "loaded"
    /\ stage = "exited" => load \in {"flags", "failed", "closed"}

(* Up to the call that sends nothing has been sent, and the codes that     *)
(* blame the user are behind.                                              *)
ExitInv ==
    /\ stage \in Stages \ {"send", "emit", "exited"} => sendTx = "unsent" /\ sendStep = "idle"
    /\ exit \in {ConfigError, Validation} => sendTx = "unsent"

(* What the flags were found to be, from the stage that looked at them.    *)
RequestInv ==
    /\ stage \in {"gas", "destChainID", "send", "emit"} => ParseFlags(asked)
    /\ stage \in {"destChainID", "send", "emit"} /\ asked.flow = "eth" =>
         gasLimit >= MessageMinGasLimit(Len(ParseBytesHex(asked.data)))
    /\ sendStep \in {"Submit", "TransactionReceipt", "Parse"} => Request.ok
    /\ sendTx # "unsent" =>
         /\ tx = Request /\ Request.ok /\ ParseFlags(asked)
         /\ asked.flow = "eth" => gasLimit >= MessageMinGasLimit(Len(ParseBytesHex(asked.data)))

(* A run that succeeded did so with the receipt that is there.             *)
EmitInv ==
    /\ sendStep = "Parse" \/ sendOutcome = "sent" => sendTx = "succeeded"
    /\ sendOutcome = "sent" => ParseMessageSent(logs, 0) # 0
    /\ stage = "emit" \/ exit = OK => sendOutcome = "sent"
    /\ sendOutcome = "ErrNoMessageSentEvent" => ParseMessageSent(logs, 0) = 0 /\ sendTx = "succeeded"
    /\ sendStep # "returned" => sendOutcome = "none"
    /\ event = IF exit = OK THEN ParseMessageSent(logs, 0) ELSE 0

(* The invocations before this one; a careful user tries again only when   *)
(* nothing was sent.                                                       *)
UserInv ==
    /\ runs \in 1..MaxRuns
    /\ earlier \in Seq({"pending", "succeeded", "reverted"})
    /\ Len(earlier) < runs
    /\ careful => earlier = <<>>

SendCommandsInv == TypeInv /\ LoadInv /\ StageInv /\ ExitInv /\ RequestInv /\ EmitInv /\ UserInv
-----------------------------------------------------------------------------
(* The addresses are a function of the flags.                              *)
LEMMA AddressesOfFlags ==
    ASSUME UNCHANGED flags
    PROVE  R!Addresses' = R!Addresses
BY DEF R!Addresses, R!ResolveAddressWithPreset, R!LookupFixedAddresses, R!ChainIDUint64

(* A step of loadRuntime.                                                  *)
LEMMA LoadKeepsRuntime ==
    ASSUME R!RuntimeTypeOK, LoadInv, R!LoadRuntime, UNCHANGED flags
    PROVE  client' \in [R!Sides -> {"none", "open", "closed"}] /\ LoadInv'
<1> USE DEF R!RuntimeTypeOK, LoadInv, R!Sides
<1>1. CASE R!RequireFlags
  BY <1>1 DEF R!RequireFlags
<1>2. CASE R!DialSrc \/ R!DialDst
  BY <1>2 DEF R!DialSrc, R!DialDst, R!Dial
<1>3. CASE R!DialFails \/ R!ChainIDFails \/ R!ResolveFails
  BY <1>3 DEF R!DialFails, R!ChainIDFails, R!ResolveFails, R!Close
<1>4. CASE R!ChainIDs
  BY <1>4 DEF R!ChainIDs
<1>5. CASE R!Resolve
  <2>1. R!Addresses' = R!Addresses
    BY AddressesOfFlags
  <2>2. R!Bindings(R!Addresses)' = R!Bindings(R!Addresses)
    BY <2>1
  <2> QED BY <1>5, <2>1, <2>2 DEF R!Resolve
<1> QED BY <1>1, <1>2, <1>3, <1>4, <1>5 DEF R!LoadRuntime

(* The deferred close.                                                     *)
LEMMA CloseKeepsRuntime ==
    ASSUME R!RuntimeTypeOK, LoadInv, R!CloseRuntime, UNCHANGED flags
    PROVE  client' \in [R!Sides -> {"none", "open", "closed"}] /\ LoadInv'
BY DEF R!RuntimeTypeOK, LoadInv, R!Sides, R!CloseRuntime, R!Close

LEMMA RestKeepsRuntime ==
    ASSUME LoadInv, UNCHANGED <<flags, runtimeVars>>
    PROVE  LoadInv'
<1>1. R!Addresses' = R!Addresses
  BY AddressesOfFlags
<1>2. R!Bindings(R!Addresses)' = R!Bindings(R!Addresses)
  BY <1>1
<1> QED BY <1>1, <1>2 DEF LoadInv, runtimeVars

(* What SendTypeOK says of the variables; the request and the event that   *)
(* SendProcess is given are well typed by their definition.                *)
SendTyped ==
    /\ sendStep \in S!SendSteps \cup {"idle", "returned"}
    /\ sendOutcome \in S!SendOutcomes
    /\ sendTx \in {"unsent", "pending", "succeeded", "reverted"}

LEMMA SendTypes ==
    /\ S!SendTypeOK <=> SendTyped /\ ctxDone \in BOOLEAN
    /\ S!SendTypeOK' <=> SendTyped' /\ ctxDone' \in BOOLEAN
BY Zenon DEF S!SendTypeOK, SendTyped

LEMMA SendStepTyped ==
    ASSUME SendTyped, S!SendProgress
    PROVE  SendTyped'
BY DEF SendTyped, S!SendProgress, S!SendSteps, S!SendOutcomes, S!SendErrors, S!SendReturn,
   S!SendGoTo, S!SendChainID, S!Build, S!Submit, S!SubmitFails, S!SendReceipt, S!Parse,
   S!SendCallFails, S!SendDeadline

(* A command returns, and whatever was open is closed.                     *)
LEMMA ExitKeepsRuntime ==
    ASSUME R!RuntimeTypeOK, LoadInv, StageInv, stage \in Stages \ {"exited"},
           stage = "runtime" => load = "failed", UNCHANGED flags, NEW code, Exit(code)
    PROVE  R!RuntimeTypeOK' /\ LoadInv' /\ StageInv'
<1>1. stage' = "exited"
  BY DEF Exit
<1>2. CASE R!CloseRuntime
  BY <1>1, <1>2, CloseKeepsRuntime DEF R!CloseRuntime, R!RuntimeTypeOK, StageInv, Working
<1>3. CASE load # "loaded" /\ UNCHANGED runtimeVars
  <2>1. load \in {"flags", "failed"}
    BY <1>3 DEF StageInv, Stages
  <2> QED
    BY <1>1, <1>3, <2>1, RestKeepsRuntime DEF runtimeVars, R!RuntimeTypeOK, StageInv, Working
<1> QED BY <1>2, <1>3 DEF Exit

(* A command goes on with its runtime as it is.                            *)
LEMMA GoToKeepsRuntime ==
    ASSUME R!RuntimeTypeOK, LoadInv, UNCHANGED <<flags, runtimeVars>>,
           \/ stage' = "runtime"
           \/ stage' \in Working /\ load = "loaded"
    PROVE  R!RuntimeTypeOK' /\ LoadInv' /\ StageInv'
BY RestKeepsRuntime DEF runtimeVars, R!RuntimeTypeOK, StageInv, Working

LEMMA CommandKeepsRuntime ==
    ASSUME R!RuntimeTypeOK, LoadInv, StageInv, stage \in Stages, CommandStep
    PROVE  R!RuntimeTypeOK' /\ LoadInv' /\ StageInv'
<1>f. UNCHANGED flags
  BY DEF CommandStep, inputVars
<1>1. CASE ParseArgs
  BY <1>f, <1>1, GoToKeepsRuntime, ExitKeepsRuntime DEF ParseArgs, GoTo, Stages
<1>2. CASE LoadRuntime
  <2>1. CASE R!LoadRuntime /\ UNCHANGED <<stage, endVars>>
    <3>1. stage = "runtime" /\ stage' = "runtime"
      BY <1>2, <2>1 DEF LoadRuntime
    <3>2. flags' \in R!Flags
      BY <1>f DEF R!RuntimeTypeOK
    <3>3. load' \in {"flags", "dialSrc", "dialDst", "srcChainID", "dstChainID", "resolve",
                     "loaded", "failed", "closed"}
      BY <2>1
         DEF R!LoadRuntime, R!RequireFlags, R!DialSrc, R!DialDst, R!Dial, R!DialFails,
             R!ChainIDs, R!ChainIDFails, R!Resolve, R!ResolveFails
    <3> QED
      BY <1>f, <2>1, <3>1, <3>2, <3>3, LoadKeepsRuntime DEF R!RuntimeTypeOK, StageInv, Working
  <2>2. CASE load = "loaded" /\ GoTo("key")
    BY <1>f, <2>2, GoToKeepsRuntime DEF GoTo, Working
  <2>3. CASE load = "failed" /\ Exit(ConfigError)
    BY <1>f, <1>2, <2>3, ExitKeepsRuntime DEF LoadRuntime, Stages
  <2> QED BY <1>2, <2>1, <2>2, <2>3 DEF LoadRuntime
<1>3. ASSUME NEW s \in Working, GoTo(s), stage \in Working
      PROVE  R!RuntimeTypeOK' /\ LoadInv' /\ StageInv'
  BY <1>f, <1>3, GoToKeepsRuntime DEF GoTo, StageInv
<1>4. ASSUME NEW code, Exit(code), stage \in Working
      PROVE  R!RuntimeTypeOK' /\ LoadInv' /\ StageInv'
  BY <1>f, <1>4, ExitKeepsRuntime DEF Working, Stages
<1>5. CASE LoadPrivateKey
  BY <1>3, <1>4, <1>5 DEF LoadPrivateKey, Working
<1>6. CASE Parse
  BY <1>3, <1>4, <1>6 DEF Parse, Working
<1>7. CASE ResolveGas
  BY <1>3, <1>4, <1>7 DEF ResolveGas, Working
<1>8. CASE DestChainID
  BY <1>3, <1>4, <1>8 DEF DestChainID, Working
<1>9. CASE Send
  BY <1>f, <1>9, GoToKeepsRuntime DEF Send, Working, StageInv
<1>10. CASE SendReturned
  BY <1>3, <1>4, <1>10 DEF SendReturned, Working
<1>11. CASE Emit
  BY <1>f, <1>11, CloseKeepsRuntime DEF Emit, R!CloseRuntime, R!RuntimeTypeOK, StageInv, Working
<1> QED
  BY <1>1, <1>2, <1>5, <1>6, <1>7, <1>8, <1>9, <1>10, <1>11 DEF CommandStep
-----------------------------------------------------------------------------
(* MessageMinGasLimit of any calldata is a number, so that the limit can   *)
(* be compared with it.                                                    *)
LEMMA CalldataIsSeq ==
    ASSUME NEW data \in Calldata
    PROVE  Len(ParseBytesHex(data)) \in Nat
<1> DEFINE junk == {i \in 1..Len(data.digits) : data.digits[i] = "junk"}
<1>1. data.digits \in Seq({"byte", "junk"}) /\ junk \subseteq Nat
  BY DEF Calldata
<1>2. CASE junk = {}
  BY <1>1, <1>2 DEF ParseBytesHex, SelectInSeq
<1>3. CASE junk # {}
  <2>1. Min(junk) \in junk
    BY <1>1, <1>3, MinIsSmallest
  <2>2. ParseBytesHex(data) = SubSeq(data.digits, 1, Min(junk) - 1)
    <3>1. SelectInSeq(data.digits, LAMBDA d : d = "junk") = Min(junk)
      BY <1>3 DEF SelectInSeq
    <3>2. Min(junk) # 0
      BY <1>1, <2>1
    <3> HIDE DEF junk
    <3> QED BY <3>1, <3>2 DEF ParseBytesHex
  <2> QED BY <1>1, <2>1, <2>2
<1> QED BY <1>2, <1>3

LEMMA CommandTyped ==
    ASSUME TypeInv, LoadInv, StageInv, CommandStep
    PROVE  TypeInv'
<1> USE DEF TypeInv
<1>1. R!RuntimeTypeOK'
  BY CommandKeepsRuntime DEF StageTyped
<1>2. flags' \in R!Flags /\ asked' \in Asked
  BY DEF CommandStep, inputVars
<1>3. gasLimit' \in Nat
  <2>1. CASE ResolveGas
    <3>1. asked.data \in Calldata /\ asked.gasLimit \in Nat
      BY DEF Asked
    <3>2. MessageMinGasLimit(Len(ParseBytesHex(asked.data))) \in Nat
      BY <3>1, CalldataIsSeq DEF MessageMinGasLimit
    <3> QED BY <2>1, <3>1, <3>2 DEF ResolveGas, ResolveETHGasLimit
  <2>2. CASE UNCHANGED gasLimit
    BY <2>2
  <2> QED
    BY <2>1, <2>2
       DEF CommandStep, ParseArgs, LoadRuntime, LoadPrivateKey, Parse, DestChainID, Send,
           SendReturned, Emit
<1>4. SendTyped /\ ctxDone \in BOOLEAN /\ ctxDone' = ctxDone
  BY SendTypes DEF CommandStep
<1>5. SendTyped'
  <2>1. CASE UNCHANGED <<processVars, sendTx>>
    BY <1>4, <2>1 DEF SendTyped, processVars
  <2>2. CASE Send
    BY <1>4, <2>2, SendStepTyped DEF Send
  <2>3. CASE DestChainID
    BY <1>4, <2>1, <2>3
       DEF DestChainID, SendTyped, S!StartSend, S!SendGoTo, S!SendSteps
  <2> QED
    BY <2>1, <2>2, <2>3
       DEF CommandStep, ParseArgs, LoadRuntime, LoadPrivateKey, Parse, ResolveGas,
           SendReturned, Emit
<1>6. StageTyped'
  <2> USE DEF StageTyped, OK, ConfigError, Validation, RPCOrProof, Unexpected, Running
  <2>1. ASSUME NEW s \in Stages \ {"exited"}, stage # "exited", GoTo(s) PROVE StageTyped'
    BY <2>1 DEF GoTo, endVars
  <2>2. ASSUME NEW c \in {ConfigError, Validation, RPCOrProof, Unexpected}, Exit(c)
        PROVE  StageTyped'
    BY <2>2 DEF Exit, Stages
  <2>3. CASE ParseArgs \/ LoadPrivateKey \/ Parse
    BY <2>1, <2>2, <2>3 DEF ParseArgs, LoadPrivateKey, Parse, Stages, Working
  <2>7. CASE ResolveGas \/ DestChainID \/ SendReturned
    BY <2>1, <2>2, <2>7 DEF ResolveGas, DestChainID, SendReturned, Stages, Working
  <2>4. CASE LoadRuntime
    BY <2>1, <2>2, <2>4 DEF LoadRuntime, endVars, Stages, Working
  <2>5. CASE Send
    BY <2>5 DEF Send, endVars
  <2>6. CASE Emit
    BY <2>6 DEF Emit, Stages
  <2> QED BY <2>3, <2>4, <2>5, <2>6, <2>7 DEF CommandStep
<1> QED BY <1>1, <1>2, <1>3, <1>4, <1>5, <1>6, SendTypes

LEMMA CommandKeepsExit ==
    ASSUME TypeInv, ExitInv, CommandStep
    PROVE  ExitInv'
<1> USE DEF ExitInv, Stages, Working, OK, ConfigError, Validation, RPCOrProof, Unexpected, Running
<1>t. StageTyped /\ stage \in Stages
  BY DEF TypeInv, StageTyped
<1>1. ASSUME stage \notin {"send", "emit", "exited"}, UNCHANGED <<processVars, sendTx>>
      PROVE  ExitInv'
  BY <1>1, <1>t DEF processVars
<1>2. CASE ParseArgs \/ LoadRuntime \/ LoadPrivateKey \/ Parse \/ ResolveGas
  BY <1>1, <1>2 DEF ParseArgs, LoadRuntime, LoadPrivateKey, Parse, ResolveGas
<1>3. CASE DestChainID
  BY <1>1, <1>3, <1>t DEF DestChainID, GoTo, StageTyped, S!StartSend, endVars
<1>4. CASE Send
  BY <1>4, <1>t DEF Send, StageTyped, endVars
<1>5. CASE SendReturned
  BY <1>5, <1>t DEF SendReturned, StageTyped, GoTo, Exit, endVars
<1>6. CASE Emit
  BY <1>6, <1>t DEF Emit
<1> QED BY <1>2, <1>3, <1>4, <1>5, <1>6 DEF CommandStep

LEMMA CommandKeepsRequest ==
    ASSUME TypeInv, ExitInv, RequestInv, CommandStep
    PROVE  RequestInv'
<1>t. stage \in Stages /\ SendTyped
  BY SendTypes DEF TypeInv, StageTyped
<1>a. asked' = asked
  BY DEF CommandStep, inputVars
<1>1. ASSUME UNCHANGED <<gasLimit, tx, processVars, sendTx>>,
             \/ stage' \notin {"gas", "destChainID", "send", "emit"}
             \/ stage' = stage
             \/ stage' = "emit" /\ stage = "send"
             \/ stage' \in {"gas", "destChainID"} /\ ParseFlags(asked)
                /\ (stage' = "destChainID" => asked.flow # "eth")
      PROVE  RequestInv'
  BY <1>1, <1>a DEF processVars, Request, RequestInv
<1>2. CASE ParseArgs
  BY <1>1, <1>2 DEF ParseArgs, GoTo, Exit
<1>3. CASE LoadRuntime
  BY <1>1, <1>3 DEF LoadRuntime, GoTo, Exit
<1>4. CASE LoadPrivateKey
  BY <1>1, <1>4 DEF LoadPrivateKey, GoTo, Exit
<1>5. CASE Parse
  BY <1>1, <1>5 DEF Parse, GoTo, Exit
<1>6. CASE ResolveGas
  <2>1. /\ stage = "gas" /\ sendTx' = "unsent" /\ sendStep' = "idle"
        /\ ParseFlags(asked)
    BY <1>6 DEF ResolveGas, ExitInv, RequestInv, Stages, Working, processVars
  <2>2. CASE ~ctxDone /\ GoTo("destChainID")
             /\ gasLimit' = ResolveETHGasLimit(asked.gasLimit,
                              MessageMinGasLimit(Len(ParseBytesHex(asked.data))))
    <3>1. asked.gasLimit \in Nat /\ asked.data \in Calldata
      BY DEF TypeInv, Asked
    <3>2. MessageMinGasLimit(Len(ParseBytesHex(asked.data))) \in Nat
      BY <3>1, CalldataIsSeq DEF MessageMinGasLimit
    <3>3. gasLimit' >= MessageMinGasLimit(Len(ParseBytesHex(asked.data)))
      BY <2>2, <3>1, <3>2 DEF ResolveETHGasLimit
    <3> QED BY <1>a, <2>1, <2>2, <3>3 DEF RequestInv, GoTo
  <2>3. CASE Exit(RPCOrProof) /\ UNCHANGED gasLimit
    BY <2>1, <2>3 DEF RequestInv, Exit
  <2> QED BY <1>6, <2>2, <2>3 DEF ResolveGas
<1>7. CASE DestChainID
  <2>1. /\ stage = "destChainID" /\ UNCHANGED <<gasLimit, tx>>
        /\ sendTx = "unsent" /\ ParseFlags(asked)
    BY <1>7 DEF DestChainID, ExitInv, RequestInv, Stages, Working
  <2>2. CASE ~ctxDone /\ S!StartSend /\ GoTo("send")
    BY <1>a, <2>1, <2>2 DEF S!StartSend, S!SendGoTo, GoTo, RequestInv
  <2>3. CASE Exit(RPCOrProof) /\ UNCHANGED <<processVars, sendTx>>
    BY <1>1, <2>1, <2>3 DEF Exit
  <2> QED BY <1>7, <2>2, <2>3 DEF DestChainID
<1>8. CASE Send
  <2>1. /\ stage = "send" /\ stage' = "send" /\ UNCHANGED <<asked, gasLimit>>
        /\ Request' = Request
        /\ tx' = IF sendTx = "unsent" /\ sendTx' = "pending" THEN Request ELSE tx
    BY <1>a, <1>8 DEF Send, Request
  <2>2. sendStep' \in {"Submit", "TransactionReceipt", "Parse"} => Request.ok
    BY <1>8
       DEF Send, RequestInv, S!SendProgress, S!SendReturn, S!SendGoTo, S!SendAnswers, S!SendChainID,
           S!Build, S!Submit, S!SubmitFails, S!SendReceipt, S!Parse, S!SendCallFails,
           S!SendDeadline
  <2>3. sendTx = "unsent" /\ sendTx' # "unsent" => sendTx' = "pending" /\ Request.ok
    BY <1>8
       DEF Send, RequestInv, S!SendProgress, S!SendAnswers, S!SendChainID,
           S!Build, S!Submit, S!SubmitFails, S!SendReceipt, S!Parse, S!SendCallFails,
           S!SendDeadline
  <2>4. sendTx # "unsent" /\ sendTx' # "unsent" => tx' = tx
    BY <2>1
  <2> QED BY <2>1, <2>2, <2>3, <2>4 DEF RequestInv
<1>9. CASE SendReturned
  BY <1>1, <1>9 DEF SendReturned, GoTo, Exit
<1>10. CASE Emit
  BY <1>1, <1>10 DEF Emit
<1> QED
  BY <1>2, <1>3, <1>4, <1>5, <1>6, <1>7, <1>8, <1>9, <1>10 DEF CommandStep

LEMMA CommandKeepsEmit ==
    ASSUME TypeInv, EmitInv, CommandStep
    PROVE  EmitInv'
<1> USE DEF OK, ConfigError, Validation, RPCOrProof, Unexpected, Running
<1>t. StageTyped
  BY DEF TypeInv
<1>l. ParseMessageSent(logs, 0)' = ParseMessageSent(logs, 0)
  BY DEF CommandStep
<1>1. ASSUME UNCHANGED <<processVars, sendTx, event>>, stage # "exited",
             stage' # "emit", exit' # OK
      PROVE  EmitInv'
  BY <1>1, <1>l, <1>t DEF processVars, EmitInv, StageTyped
<1>2. CASE ParseArgs \/ LoadPrivateKey \/ Parse \/ ResolveGas
  BY <1>1, <1>2, <1>t
     DEF ParseArgs, LoadPrivateKey, Parse, ResolveGas, GoTo, Exit, endVars, StageTyped
<1>3. CASE LoadRuntime
  BY <1>1, <1>3, <1>t DEF LoadRuntime, GoTo, Exit, endVars, StageTyped
<1>4. CASE DestChainID
  <2>1. CASE Exit(RPCOrProof) /\ UNCHANGED <<processVars, sendTx>>
    BY <1>1, <1>4, <1>t, <2>1 DEF DestChainID, Exit, StageTyped
  <2>2. CASE S!StartSend /\ GoTo("send")
    BY <1>4, <1>l, <1>t, <2>2
       DEF DestChainID, S!StartSend, S!SendGoTo, GoTo, endVars, EmitInv, StageTyped
  <2> QED BY <1>4, <2>1, <2>2 DEF DestChainID
<1>5. CASE Send
  <2>1. stage = "send" /\ stage' = "send" /\ UNCHANGED <<exit, event>> /\ exit # OK
    BY <1>5, <1>t DEF Send, endVars, StageTyped
  <2>2. /\ sendStep' = "Parse" \/ sendOutcome' = "sent" => sendTx' = "succeeded"
        /\ sendOutcome' = "sent" => ParseMessageSent(logs, 0) # 0
        /\ sendOutcome' = "ErrNoMessageSentEvent" =>
             ParseMessageSent(logs, 0) = 0 /\ sendTx' = "succeeded"
        /\ sendStep' # "returned" => sendOutcome' = "none"
    BY <1>5
       DEF Send, EmitInv, S!SendProgress, S!SendReturn, S!SendGoTo, S!SendAnswers, S!SendChainID,
           S!Build, S!Submit, S!SubmitFails, S!SendReceipt, S!Parse, S!SendCallFails,
           S!SendDeadline
  <2> QED BY <1>l, <2>1, <2>2 DEF EmitInv
<1>6. CASE SendReturned
  <2>1. CASE sendOutcome = "sent" /\ GoTo("emit")
    BY <1>6, <1>l, <1>t, <2>1 DEF SendReturned, GoTo, endVars, processVars, EmitInv, StageTyped
  <2>2. CASE sendOutcome # "sent" /\ Exit(RPCOrProof)
    BY <1>1, <1>6, <1>t, <2>2 DEF SendReturned, Exit, StageTyped
  <2> QED BY <1>6, <2>1, <2>2 DEF SendReturned
<1>7. CASE Emit
  BY <1>7, <1>l, <1>t DEF Emit, processVars, EmitInv, StageTyped
<1> QED
  BY <1>2, <1>3, <1>4, <1>5, <1>6, <1>7 DEF CommandStep
-----------------------------------------------------------------------------
(* A new command starts, the first or a later one.                         *)
Fresh ==
    /\ flags \in R!Flags /\ asked \in Asked
    /\ ctxDone = FALSE
    /\ load = "flags" /\ client = [side \in R!Sides |-> "none"]
    /\ sendStep = "idle" /\ sendOutcome = "none" /\ sendTx = "unsent"
    /\ stage = "flags"
    /\ gasLimit = 0
    /\ exit = Running /\ event = 0

LEMMA FreshKeepsInv ==
    Fresh /\ UserInv => SendCommandsInv
<1> SUFFICES ASSUME Fresh, UserInv PROVE SendCommandsInv
  OBVIOUS
<1> USE DEF Fresh, Stages, Working, OK, ConfigError, Validation, RPCOrProof, Unexpected, Running
<1>1. SendTyped /\ ctxDone \in BOOLEAN
  BY DEF SendTyped, S!SendSteps, S!SendOutcomes
<1>2. R!RuntimeTypeOK
  BY DEF R!RuntimeTypeOK
<1>3. TypeInv
  BY <1>1, <1>2, SendTypes DEF TypeInv, StageTyped
<1>4. LoadInv /\ StageInv
  BY DEF LoadInv, StageInv
<1>5. ExitInv /\ RequestInv /\ EmitInv
  BY DEF ExitInv, RequestInv, EmitInv
<1> QED BY <1>3, <1>4, <1>5 DEF SendCommandsInv

LEMMA InitSendCommands == SendCommandsInit => SendCommandsInv
<1> SUFFICES ASSUME SendCommandsInit PROVE SendCommandsInv
  OBVIOUS
<1>1. Fresh
  BY InputsTyped DEF SendCommandsInit, Fresh, R!NotLoaded
<1>2. UserInv
  BY SendAssumption DEF SendCommandsInit, UserInv
<1> QED BY <1>1, <1>2, FreshKeepsInv

LEMMA RunAgainIsFresh ==
    ASSUME SendCommandsInv, RunAgain
    PROVE  (Fresh /\ UserInv)'
<1>1. Fresh'
  BY InputsTyped DEF RunAgain, Fresh, OK
<1>2. UserInv'
  <2>1. sendTx \in {"unsent", "pending", "succeeded", "reverted"}
    BY SendTypes DEF SendCommandsInv, TypeInv, SendTyped
  <2>2. exit \in {ConfigError, Validation} => sendTx = "unsent"
    BY DEF SendCommandsInv, ExitInv
  <2>3. earlier \in Seq({"pending", "succeeded", "reverted"}) /\ Len(earlier) < runs
        /\ runs \in Nat /\ runs' = runs + 1 /\ runs' \in 1..MaxRuns
    BY SendAssumption DEF RunAgain, SendCommandsInv, UserInv
  <2>4. CASE sendTx = "unsent"
    BY <2>3, <2>4 DEF RunAgain, SendCommandsInv, UserInv
  <2>5. CASE sendTx # "unsent"
    <3>1. ~careful' /\ earlier' = Append(earlier, sendTx)
      BY <2>2, <2>5 DEF RunAgain
    <3>2. earlier' \in Seq({"pending", "succeeded", "reverted"}) /\ Len(earlier') = Len(earlier) + 1
      BY <2>1, <2>3, <2>5, <3>1
    <3>3. Len(earlier') < runs'
      BY <2>3, <3>2
    <3> QED BY <2>3, <3>1, <3>2, <3>3 DEF UserInv
  <2> QED BY <2>4, <2>5
<1> QED BY <1>1, <1>2

LEMMA RunAgainKeepsInv == SendCommandsInv /\ RunAgain => SendCommandsInv'
<1>1. SendCommandsInv /\ RunAgain => (Fresh /\ UserInv)'
  BY RunAgainIsFresh
<1> QED BY <1>1, FreshKeepsInv, PTL

LEMMA CommandKeepsInv ==
    ASSUME SendCommandsInv, CommandStep
    PROVE  SendCommandsInv'
<1> USE DEF SendCommandsInv
<1>1. TypeInv' /\ LoadInv' /\ StageInv'
  BY CommandTyped, CommandKeepsRuntime DEF TypeInv, StageTyped
<1>2. ExitInv' /\ RequestInv' /\ EmitInv'
  BY CommandKeepsExit, CommandKeepsRequest, CommandKeepsEmit
<1>3. UserInv'
  BY DEF CommandStep, userVars, UserInv
<1> QED BY <1>1, <1>2, <1>3

(* The chain and the clock leave the command where it is.                  *)
LEMMA RestKeepsInv ==
    ASSUME SendCommandsInv, CtxEnds \/ MineSend \/ MineEarlier \/ UNCHANGED sendCommandVars
    PROVE  SendCommandsInv'
<1> USE DEF SendCommandsInv
<1>0. SendTyped /\ ctxDone \in BOOLEAN /\ R!RuntimeTypeOK
  BY SendTypes DEF TypeInv
<1>1. UNCHANGED <<inputVars, runtimeVars, stage, gasLimit, tx, endVars, careful, runs>>
  BY DEF CtxEnds, MineSend, MineEarlier, sendCommandVars, userVars
<1>2. UNCHANGED <<sendStep, sendOutcome>>
  BY DEF CtxEnds, MineSend, MineEarlier, sendCommandVars, processVars, S!MineSend
<1>3. \/ UNCHANGED <<sendTx, logs>>
      \/ sendTx = "pending" /\ sendTx' \in {"succeeded", "reverted"}
  BY DEF CtxEnds, MineSend, MineEarlier, sendCommandVars, S!MineSend
<1>4. ctxDone' \in BOOLEAN /\ SendTyped'
  BY <1>0, <1>2, <1>3 DEF CtxEnds, MineSend, MineEarlier, sendCommandVars, SendTyped
<1>5. R!RuntimeTypeOK' /\ LoadInv' /\ StageInv'
  BY <1>0, <1>1, RestKeepsRuntime
     DEF inputVars, runtimeVars, R!RuntimeTypeOK, StageInv
<1>6. TypeInv'
  BY <1>1, <1>4, <1>5, SendTypes DEF TypeInv, StageTyped, inputVars, endVars
<1>7. ExitInv'
  BY <1>1, <1>2, <1>3 DEF ExitInv, endVars
<1>8. RequestInv'
  BY <1>1, <1>2, <1>3 DEF RequestInv, Request, inputVars
<1>9. EmitInv'
  <2>1. CASE UNCHANGED <<sendTx, logs>>
    <3>1. ParseMessageSent(logs, 0)' = ParseMessageSent(logs, 0)
      BY <2>1
    <3> QED BY <1>1, <1>2, <2>1, <3>1 DEF EmitInv, endVars
  <2>2. CASE sendTx = "pending" /\ sendTx' \in {"succeeded", "reverted"}
    BY <1>1, <1>2, <2>2 DEF EmitInv, endVars
  <2> QED BY <1>3, <2>1, <2>2
<1>10. UserInv'
  <2>1. CASE UNCHANGED earlier
    BY <1>1, <2>1 DEF UserInv
  <2>2. CASE MineEarlier
    <3>1. PICK i \in DOMAIN earlier, end \in {"succeeded", "reverted"} :
            earlier' = [earlier EXCEPT ![i] = end]
      BY <2>2 DEF MineEarlier
    <3> QED BY <1>1, <3>1 DEF UserInv
  <2> QED BY <2>1, <2>2 DEF CtxEnds, MineSend, sendCommandVars, userVars
<1> QED BY <1>5, <1>6, <1>7, <1>8, <1>9, <1>10

LEMMA NextSendCommands ==
    SendCommandsInv /\ [SendCommandsNext]_sendCommandVars => SendCommandsInv'
BY RunAgainKeepsInv, CommandKeepsInv, RestKeepsInv DEF SendCommandsNext

LEMMA SendCommandsInvHolds == SendCommandsSpec => []SendCommandsInv
BY InitSendCommands, NextSendCommands, PTL DEF SendCommandsSpec

(* Whoever runs a command again only after exit code 2 or 3 never sends    *)
(* twice, however often he does (send.go:261, 443).                        *)
THEOREM CarefulAlwaysSendsOnce == SendCommandsSpec => []CarefulUserSendsOnce
<1>1. SendCommandsInv => CarefulUserSendsOnce
  BY DEF SendCommandsInv, UserInv, CarefulUserSendsOnce
<1> QED BY <1>1, SendCommandsInvHolds, PTL

(* A command uses its clients only while they are open, and leaves none    *)
(* behind, at whichever of its steps it fails (runtime.go:83-189).         *)
THEOREM ClientsAlwaysOpenWhileUsed == SendCommandsSpec => []ClientsOpenWhileUsed
<1>1. SendCommandsInv => ClientsOpenWhileUsed
  BY DEF SendCommandsInv, LoadInv, StageInv, TypeInv, R!RuntimeTypeOK, Working, ClientsOpenWhileUsed
<1> QED BY <1>1, SendCommandsInvHolds, PTL

(* What one call resolves to, given the preset of a chain id that fits.    *)
LEMMA PresetOfItsChain ==
    ASSUME NEW side \in R!Sides, flags \in R!Flags, flags.chain[side] < Word
    PROVE  LET preset == R!LookupFixedAddresses(R!ChainIDUint64(side))
           IN  preset.ok =>
                 /\ preset.Bridge = R!Deployed(flags.chain[side], "Bridge")
                 /\ preset.SignalService = R!Deployed(flags.chain[side], "SignalService")
                 /\ preset.ERC20Vault = R!Deployed(flags.chain[side], "ERC20Vault")
                 /\ preset.ERC721Vault = R!Deployed(flags.chain[side], "ERC721Vault")
                 /\ preset.ERC1155Vault = R!Deployed(flags.chain[side], "ERC1155Vault")
<1> DEFINE n == flags.chain[side]
<1>1. n \in R!Chains
  BY DEF R!Flags
<1>2. n \in Nat /\ Word \in Nat /\ n < Word
  BY <1>1, SendAssumption DEF R!Chains, R!KnownChains
<1> HIDE DEF n
<1>3. n % Word = n
  BY <1>2
<1>4. R!ChainIDUint64(side) = flags.chain[side]
  BY <1>3 DEF R!ChainIDUint64, n
<1> QED BY <1>4 DEF R!LookupFixedAddresses

LEMMA ResolvesToOwn ==
    ASSUME flags \in R!Flags, NEW side, NEW kind, <<side, kind>> \in R!Overrides,
           NEW preset, NEW ok \in BOOLEAN, ok => preset = R!Deployed(flags.chain[side], kind),
           R!ResolveAddressWithPreset(<<side, kind>>, preset, ok).ok
    PROVE  R!ResolveAddressWithPreset(<<side, kind>>, preset, ok).at =
             IF flags.override[<<side, kind>>] = "empty"
             THEN R!Deployed(flags.chain[side], kind) ELSE R!Given(<<side, kind>>)
<1> DEFINE text == flags.override[<<side, kind>>]
<1>1. text \in {"empty", "address", "garbage"}
  BY DEF R!Flags
<1>2. R!ResolveAddressWithPreset(<<side, kind>>, preset, ok) =
        CASE text = "address" -> [ok |-> TRUE, at |-> R!Given(<<side, kind>>)]
          [] text = "empty" /\ ok -> [ok |-> TRUE, at |-> preset]
          [] OTHER -> [ok |-> FALSE]
  BY DEF R!ResolveAddressWithPreset
<1> HIDE DEF text
<1>3. CASE text = "address"
  BY <1>2, <1>3 DEF text
<1>4. CASE text = "empty" /\ ok
  <2>1. text # "address" /\ preset = R!Deployed(flags.chain[side], kind)
    BY <1>4
  <2> HIDE DEF text
  <2>2. R!ResolveAddressWithPreset(<<side, kind>>, preset, ok) = [ok |-> TRUE, at |-> preset]
    BY <1>2, <1>4, <2>1, Zenon
  <2>3. R!ResolveAddressWithPreset(<<side, kind>>, preset, ok).at = preset
    BY <2>2
  <2> QED BY <1>4, <2>1, <2>3 DEF text
<1>5. CASE text # "address" /\ ~(text = "empty" /\ ok)
  BY <1>2, <1>5
<1> QED BY <1>1, <1>3, <1>4, <1>5

(* Each of the seven contracts is one of its kind on the chain that its    *)
(* client is connected to, or the one its own flag names, for all flags,   *)
(* all chains whose ids fit, and any width (runtime.go:103-189).           *)
THEOREM AddressesAlwaysOfTheirChain == SendCommandsSpec => []AddressesAreOfTheirChain
<1>1. SendCommandsInv => AddressesAreOfTheirChain
  <2> SUFFICES ASSUME SendCommandsInv, load = "loaded",
                      NEW name \in DOMAIN bindings,
                      flags.chain[bindings[name].client] < Word
               PROVE  LET b == bindings[name]
                          flag == <<b.client, b.kind>>
                      IN  b.at = IF flags.override[flag] = "empty"
                                 THEN R!Deployed(flags.chain[b.client], b.kind)
                                 ELSE R!Given(flag)
    BY DEF AddressesAreOfTheirChain
  <2> DEFINE b == bindings[name]
             src == R!LookupFixedAddresses(R!ChainIDUint64("src"))
             dst == R!LookupFixedAddresses(R!ChainIDUint64("dst"))
  <2>1. /\ flags \in R!Flags /\ flags.chain[b.client] < Word
        /\ src.ok \in BOOLEAN /\ dst.ok \in BOOLEAN
    BY DEF SendCommandsInv, TypeInv, R!LookupFixedAddresses
  <2>2. /\ bindings = R!Bindings(R!Addresses)
        /\ \A call \in DOMAIN R!Addresses : R!Addresses[call].ok
    BY DEF SendCommandsInv, LoadInv
  <2>3. name \in {"SrcBridge", "DstBridge", "SrcERC20Vault", "SrcERC721Vault",
                  "SrcERC1155Vault", "SrcSignalService", "DstSignalService"}
    BY <2>2 DEF R!Bindings
  <2>4. CASE name = "SrcBridge"
    <3>1. b = R!Binding("Bridge", R!Addresses.SrcBridge, "src")
      BY <2>2, <2>4 DEF R!Bindings
    <3>2. /\ R!Addresses.SrcBridge = R!ResolveAddressWithPreset(<<"src", "Bridge">>, src.Bridge, src.ok)
          /\ R!Addresses.SrcBridge.ok
      BY <2>2 DEF R!Addresses
    <3>3. src.ok => src.Bridge = R!Deployed(flags.chain["src"], "Bridge")
      BY <2>1, <3>1, PresetOfItsChain DEF R!Sides, R!Binding
    <3> QED
      BY <2>1, <3>1, <3>2, <3>3, ResolvesToOwn DEF R!Overrides, R!Binding
  <2>5. CASE name = "DstBridge"
    <3>1. b = R!Binding("Bridge", R!Addresses.DstBridge, "dst")
      BY <2>2, <2>5 DEF R!Bindings
    <3>2. /\ R!Addresses.DstBridge = R!ResolveAddressWithPreset(<<"dst", "Bridge">>, dst.Bridge, dst.ok)
          /\ R!Addresses.DstBridge.ok
      BY <2>2 DEF R!Addresses
    <3>3. dst.ok => dst.Bridge = R!Deployed(flags.chain["dst"], "Bridge")
      BY <2>1, <3>1, PresetOfItsChain DEF R!Sides, R!Binding
    <3> QED
      BY <2>1, <3>1, <3>2, <3>3, ResolvesToOwn DEF R!Overrides, R!Binding
  <2>6. CASE name = "SrcERC20Vault"
    <3>1. b = R!Binding("ERC20Vault", R!Addresses.SrcERC20, "src")
      BY <2>2, <2>6 DEF R!Bindings
    <3>2. /\ R!Addresses.SrcERC20 = R!ResolveAddressWithPreset(<<"src", "ERC20Vault">>, src.ERC20Vault, src.ok)
          /\ R!Addresses.SrcERC20.ok
      BY <2>2 DEF R!Addresses
    <3>3. src.ok => src.ERC20Vault = R!Deployed(flags.chain["src"], "ERC20Vault")
      BY <2>1, <3>1, PresetOfItsChain DEF R!Sides, R!Binding
    <3> QED
      BY <2>1, <3>1, <3>2, <3>3, ResolvesToOwn DEF R!Overrides, R!Binding
  <2>7. CASE name = "SrcERC721Vault"
    <3>1. b = R!Binding("ERC721Vault", R!Addresses.SrcERC721, "src")
      BY <2>2, <2>7 DEF R!Bindings
    <3>2. /\ R!Addresses.SrcERC721 = R!ResolveAddressWithPreset(<<"src", "ERC721Vault">>, src.ERC721Vault, src.ok)
          /\ R!Addresses.SrcERC721.ok
      BY <2>2 DEF R!Addresses
    <3>3. src.ok => src.ERC721Vault = R!Deployed(flags.chain["src"], "ERC721Vault")
      BY <2>1, <3>1, PresetOfItsChain DEF R!Sides, R!Binding
    <3> QED
      BY <2>1, <3>1, <3>2, <3>3, ResolvesToOwn DEF R!Overrides, R!Binding
  <2>8. CASE name = "SrcERC1155Vault"
    <3>1. b = R!Binding("ERC1155Vault", R!Addresses.SrcERC1155, "src")
      BY <2>2, <2>8 DEF R!Bindings
    <3>2. /\ R!Addresses.SrcERC1155 = R!ResolveAddressWithPreset(<<"src", "ERC1155Vault">>, src.ERC1155Vault, src.ok)
          /\ R!Addresses.SrcERC1155.ok
      BY <2>2 DEF R!Addresses
    <3>3. src.ok => src.ERC1155Vault = R!Deployed(flags.chain["src"], "ERC1155Vault")
      BY <2>1, <3>1, PresetOfItsChain DEF R!Sides, R!Binding
    <3> QED
      BY <2>1, <3>1, <3>2, <3>3, ResolvesToOwn DEF R!Overrides, R!Binding
  <2>9. CASE name = "SrcSignalService"
    <3>1. b = R!Binding("SignalService", R!Addresses.SrcSignal, "src")
      BY <2>2, <2>9 DEF R!Bindings
    <3>2. /\ R!Addresses.SrcSignal = R!ResolveAddressWithPreset(<<"src", "SignalService">>, src.SignalService, src.ok)
          /\ R!Addresses.SrcSignal.ok
      BY <2>2 DEF R!Addresses
    <3>3. src.ok => src.SignalService = R!Deployed(flags.chain["src"], "SignalService")
      BY <2>1, <3>1, PresetOfItsChain DEF R!Sides, R!Binding
    <3> QED
      BY <2>1, <3>1, <3>2, <3>3, ResolvesToOwn DEF R!Overrides, R!Binding
  <2>10. CASE name = "DstSignalService"
    <3>1. b = R!Binding("SignalService", R!Addresses.DstSignal, "dst")
      BY <2>2, <2>10 DEF R!Bindings
    <3>2. /\ R!Addresses.DstSignal = R!ResolveAddressWithPreset(<<"dst", "SignalService">>, dst.SignalService, dst.ok)
          /\ R!Addresses.DstSignal.ok
      BY <2>2 DEF R!Addresses
    <3>3. dst.ok => dst.SignalService = R!Deployed(flags.chain["dst"], "SignalService")
      BY <2>1, <3>1, PresetOfItsChain DEF R!Sides, R!Binding
    <3> QED
      BY <2>1, <3>1, <3>2, <3>3, ResolvesToOwn DEF R!Overrides, R!Binding
  <2> QED BY <2>3, <2>4, <2>5, <2>6, <2>7, <2>8, <2>9, <2>10
<1> QED BY <1>1, SendCommandsInvHolds, PTL
-----------------------------------------------------------------------------
(* What the Build functions of internal/bridge/send.go return, when they   *)
(* do not refuse.                                                          *)
LEMMA ToUint64Exact ==
    ASSUME NEW n \in Int, ToUint64(n).ok
    PROVE  ToUint64(n).n = n /\ n \in 0..(Word - 1)
BY SendAssumption DEF ToUint64, Refused

LEMMA NumbersTyped ==
    ASSUME NEW list \in Seq(FlagText)
    PROVE  /\ Numbers(list) \in Seq(Int)
           /\ Len(Numbers(list)) = Len(list)
           /\ list = <<>> <=> Numbers(list) = <<>>
<1>1. /\ Len(list) \in Nat /\ DOMAIN list = 1..Len(list)
      /\ \A i \in 1..Len(list) : list[i].n \in Int
  <2>1. Len(list) \in Nat /\ DOMAIN list = 1..Len(list)
    OBVIOUS
  <2>2. \A i \in 1..Len(list) : list[i] \in FlagText
    OBVIOUS
  <2> QED BY <2>1, <2>2 DEF FlagText
<1>2. Numbers(list) = [i \in 1..Len(list) |-> list[i].n]
  BY <1>1 DEF Numbers
<1>3. Numbers(list) \in Seq(Int) /\ Len(Numbers(list)) = Len(list)
  BY <1>1, <1>2
<1> QED BY <1>1, <1>3

LEMMA BuildETHExact ==
    ASSUME NEW f \in Asked, NEW g \in Nat, BuildETHMessage(f, g).ok
    PROVE  LET t == BuildETHMessage(f, g)
           IN  /\ t.fee = f.fee.n /\ t.fee \in 0..(Word - 1)
               /\ t.msgValue = t.fee + f.value.n
               /\ t.amounts = <<f.value.n>> /\ f.value.n >= 0
               /\ t.gasLimit = g /\ t.data = ParseBytesHex(f.data)
<1>1. f.fee.n \in Int /\ f.value.n \in Int
  BY DEF Asked, FlagText
<1>2. ToUint64(f.fee.n).ok /\ ~(f.value.n < 0)
  BY DEF BuildETHMessage, Refused
<1>3. ToUint64(f.fee.n).n = f.fee.n /\ f.fee.n \in 0..(Word - 1)
  BY <1>1, <1>2, ToUint64Exact
<1> QED BY <1>1, <1>2, <1>3 DEF BuildETHMessage

LEMMA BuildERC20Exact ==
    ASSUME NEW f \in Asked, BuildERC20Op(f).ok
    PROVE  LET t == BuildERC20Op(f)
           IN  /\ t.fee = f.fee.n /\ t.fee \in 0..(Word - 1)
               /\ t.msgValue = t.fee
               /\ t.amounts = <<f.value.n>> /\ f.value.n >= 1
<1>1. f.fee.n \in Int /\ f.value.n \in Int
  BY DEF Asked, FlagText
<1>2. ToUint64(f.fee.n).ok /\ ~(f.value.n <= 0)
  BY DEF BuildERC20Op, Refused
<1>3. ToUint64(f.fee.n).n = f.fee.n /\ f.fee.n \in 0..(Word - 1)
  BY <1>1, <1>2, ToUint64Exact
<1> QED BY <1>1, <1>2, <1>3 DEF BuildERC20Op

(* The amounts of an NFT message are those given, or one for each id.      *)
LEMMA BuildNFTAmountsExact ==
    ASSUME NEW ids \in Seq(Int), NEW amounts \in Seq(Int), NEW is721 \in BOOLEAN,
           BuildNFTAmounts(ids, amounts, is721).ok
    PROVE  LET t == BuildNFTAmounts(ids, amounts, is721).amounts
           IN  /\ t = IF is721 /\ amounts = <<>> THEN [i \in DOMAIN ids |-> 1] ELSE amounts
               /\ \A i \in DOMAIN t : t[i] >= 1
<1> DEFINE given == IF is721 /\ amounts = <<>> THEN [i \in DOMAIN ids |-> 1] ELSE amounts
<1>1. BuildNFTAmounts(ids, amounts, is721).amounts = given
      /\ \A i \in DOMAIN given : ~(given[i] <= 0)
  BY DEF BuildNFTAmounts, Refused
<1>2. \A i \in DOMAIN given : given[i] \in Int
  OBVIOUS
<1> QED BY <1>1, <1>2

LEMMA BuildNFTExact ==
    ASSUME NEW f \in Asked, ParseFlags(f), f.flow \in {"erc721", "erc1155"}, BuildNFTOp(f).ok
    PROVE  LET t == BuildNFTOp(f)
           IN  /\ t.fee = f.fee.n /\ t.fee \in 0..(Word - 1)
               /\ t.msgValue = t.fee
               /\ t.ids = Numbers(f.ids)
               /\ t.amounts = IF f.amounts = <<>> THEN [i \in DOMAIN f.ids |-> 1]
                              ELSE Numbers(f.amounts)
               /\ \A i \in DOMAIN t.amounts : t.amounts[i] >= 1
<1>1. f.fee.n \in Int /\ f.ids \in Seq(FlagText) /\ f.amounts \in Seq(FlagText)
  BY DEF Asked, FlagText
<1> DEFINE built == BuildNFTAmounts(Numbers(f.ids), Numbers(f.amounts), f.flow = "erc721")
<1>2. built.ok /\ ToUint64(f.fee.n).ok
  BY DEF BuildNFTOp, Refused
<1>3. ToUint64(f.fee.n).n = f.fee.n /\ f.fee.n \in 0..(Word - 1)
  BY <1>1, <1>2, ToUint64Exact
<1>4. /\ built.amounts = IF f.flow = "erc721" /\ Numbers(f.amounts) = <<>>
                         THEN [i \in DOMAIN Numbers(f.ids) |-> 1] ELSE Numbers(f.amounts)
      /\ \A i \in DOMAIN built.amounts : built.amounts[i] >= 1
  BY <1>1, <1>2, NumbersTyped, BuildNFTAmountsExact, ZenonT(60)
<1>5. f.flow = "erc1155" => f.amounts # <<>>
  BY DEF ParseFlags, ParseCSV
<1>6. (Numbers(f.amounts) = <<>> <=> f.amounts = <<>>) /\ DOMAIN Numbers(f.ids) = DOMAIN f.ids
  BY <1>1, NumbersTyped DEF Numbers
<1>7. built.amounts = IF f.amounts = <<>> THEN [i \in DOMAIN f.ids |-> 1] ELSE Numbers(f.amounts)
  BY <1>4, <1>5, <1>6
<1>8. /\ BuildNFTOp(f).fee = f.fee.n /\ BuildNFTOp(f).msgValue = f.fee.n
      /\ BuildNFTOp(f).ids = Numbers(f.ids) /\ BuildNFTOp(f).amounts = built.amounts
  BY <1>2, <1>3 DEF BuildNFTOp
<1> QED BY <1>3, <1>4, <1>7, <1>8

(* Whatever was asked for in whichever numbers, a transaction that was     *)
(* submitted moves and pays exactly that (send.go:155-232, 492).           *)
THEOREM AlwaysPaysAsAsked == SendCommandsSpec => []PaysAsAsked
<1>1. SendCommandsInv => PaysAsAsked
  <2> SUFFICES ASSUME SendCommandsInv, sendTx # "unsent" PROVE PaysAsAsked
    BY DEF PaysAsAsked
  <2>1. /\ asked \in Asked /\ gasLimit \in Nat
        /\ tx = BuildRequest(asked, gasLimit) /\ tx.ok /\ ParseFlags(asked)
        /\ asked.flow = "eth" => gasLimit >= MessageMinGasLimit(Len(ParseBytesHex(asked.data)))
    BY DEF SendCommandsInv, TypeInv, RequestInv, Request
  <2>2. asked.flow \in Flow /\ asked.value.n \in Int
    BY <2>1 DEF Asked, FlagText
  <2>3. CASE asked.flow = "eth"
    <3>1. tx = BuildETHMessage(asked, gasLimit)
      BY <2>1, <2>3 DEF BuildRequest
    <3> QED BY <2>1, <2>2, <2>3, <3>1, BuildETHExact DEF PaysAsAsked
  <2>4. CASE asked.flow = "erc20"
    <3>1. tx = BuildERC20Op(asked)
      BY <2>1, <2>4 DEF BuildRequest
    <3> QED BY <2>1, <2>2, <2>4, <3>1, BuildERC20Exact, SendAssumption DEF PaysAsAsked
  <2>5. CASE asked.flow \in {"erc721", "erc1155"}
    <3>1. tx = BuildNFTOp(asked)
      BY <2>1, <2>5 DEF BuildRequest
    <3> QED BY <2>1, <2>2, <2>5, <3>1, BuildNFTExact, SendAssumption DEF PaysAsAsked
  <2> QED BY <2>2, <2>3, <2>4, <2>5 DEF Flow
<1> QED BY <1>1, SendCommandsInvHolds, PTL
-----------------------------------------------------------------------------
(* What ParseMessageSent(s, n) looks for, and a step of its loop.          *)
IsSent(s, i) == s[i].bridge /\ s[i].parses
Start == [seen |-> 0, event |-> 0]
Look(s, n, acc, i) ==
    IF acc.event # 0 \/ ~s[i].bridge \/ ~s[i].parses THEN acc
    ELSE [seen |-> acc.seen + 1, event |-> IF acc.seen = n THEN i ELSE 0]

(* The function behind FoldLeft, on sets of positions.                     *)
FoldRule(s, n, iter) ==
    iter = [I \in SUBSET DOMAIN [i \in DOMAIN s |-> i] |->
              IF I = {} THEN Start
              ELSE Look(s, n, iter[I \ {Max(I)}], [i \in DOMAIN s |-> i][Max(I)])]
Found(s, n) == CHOOSE iter : FoldRule(s, n, iter)

(* What it should return: the messages of I, those with n before them, and *)
(* what the loop knows after I.                                            *)
SentIn(s, I) == {i \in I : IsSent(s, i)}
NthIn(s, n, I) == {m \in SentIn(s, I) : Cardinality({i \in SentIn(s, I) : i < m}) = n}
Nth(s, n, I) == CHOOSE m : m \in NthIn(s, n, I)
After(s, n, I) ==
    IF NthIn(s, n, I) # {}
    THEN [seen |-> n + 1, event |-> Nth(s, n, I)]
    ELSE [seen |-> Cardinality(SentIn(s, I)), event |-> 0]

LEMMA MaxIsLargest ==
    ASSUME NEW n \in Nat, NEW I \in SUBSET (1..n), I # {}
    PROVE  Max(I) \in I /\ \A j \in I : j <= Max(I)
<1> DEFINE below == {n - i : i \in I}
<1>1. below \in SUBSET Nat /\ below # {}
  <2>1. \A i \in I : n - i \in Nat
    OBVIOUS
  <2> QED BY <2>1
<1>2. Min(below) \in below /\ \A j \in below : Min(below) <= j
  BY <1>1, MinIsSmallest
<1> HIDE DEF below
<1>3. PICK m \in I : Min(below) = n - m
  BY <1>2 DEF below
<1>4. ASSUME NEW j \in I PROVE m >= j
  <2>1. n - j \in below
    BY DEF below
  <2> QED BY <1>2, <1>3, <2>1
<1>5. \E x \in I : \A y \in I : x >= y
  BY <1>4
<1>6. Max(I) \in I /\ \A y \in I : Max(I) >= y
  BY <1>5 DEF Max
<1> QED BY <1>6

LEMMA SentFinite ==
    ASSUME NEW s \in Seq(Log), NEW I \in SUBSET (1..Len(s))
    PROVE  /\ IsFiniteSet(SentIn(s, I)) /\ Cardinality(SentIn(s, I)) \in Nat
           /\ NthIn(s, 0, I) \subseteq SentIn(s, I) /\ SentIn(s, I) \subseteq I
<1>1. IsFiniteSet(1..Len(s))
  <2>1. Len(s) \in Int
    OBVIOUS
  <2> QED BY <2>1, FS_Interval
<1>2. SentIn(s, I) \in SUBSET (1..Len(s))
  BY DEF SentIn
<1> QED BY <1>1, <1>2, FS_Subset, FS_CardinalityType DEF SentIn, NthIn

LEMMA AfterNames ==
    ASSUME NEW s, NEW n, NEW I, NthIn(s, n, I) # {}
    PROVE  After(s, n, I).event \in NthIn(s, n, I)
<1>1. Nth(s, n, I) \in NthIn(s, n, I)
  BY DEF Nth
<1> QED BY <1>1 DEF After

(* The last position of I is a message or is not: what After says of I and *)
(* of the rest of I differ by one look.                                    *)
LEMMA AfterStep ==
    ASSUME NEW s \in Seq(Log), NEW n \in Nat, NEW I \in SUBSET (1..Len(s)), I # {}
    PROVE  /\ After(s, n, I) = Look(s, n, After(s, n, I \ {Max(I)}), Max(I))
           /\ \/ NthIn(s, n, I \ {Max(I)}) # {}
              \/ Cardinality(SentIn(s, I \ {Max(I)})) <= n
              => \/ NthIn(s, n, I) # {}
                 \/ Cardinality(SentIn(s, I)) <= n
<1> DEFINE m == Max(I)
           rest == I \ {m}
           before == SentIn(s, rest)
<1>1. m \in I /\ \A j \in I : j <= m
  <2>1. Len(s) \in Nat
    OBVIOUS
  <2> QED BY <2>1, MaxIsLargest
<1> HIDE DEF m
<1>2. m \in Nat /\ m # 0 /\ (\A i \in I : i \in Nat) /\ (\A i \in rest : i < m)
  BY <1>1
<1>3. IsFiniteSet(before) /\ Cardinality(before) \in Nat
  <2>1. rest \in SUBSET (1..Len(s))
    OBVIOUS
  <2> QED BY <2>1, SentFinite
<1>b. \A k \in before : k \in Nat /\ k < m
  BY <1>2 DEF SentIn
<1>o. /\ NthIn(s, n, rest) = {k \in before : Cardinality({i \in before : i < k}) = n}
      /\ After(s, n, rest) = IF NthIn(s, n, rest) # {}
                             THEN [seen |-> n + 1, event |-> Nth(s, n, rest)]
                             ELSE [seen |-> Cardinality(before), event |-> 0]
  BY DEF NthIn, After
<1>4. CASE ~IsSent(s, m)
  <2>1. SentIn(s, I) = before
    BY <1>4 DEF SentIn
  <2>2. NthIn(s, n, I) = NthIn(s, n, rest)
    BY <2>1 DEF NthIn
  <2>3. After(s, n, I) = After(s, n, rest)
    BY <2>1, <2>2 DEF After, Nth
  <2> QED BY <1>4, <2>1, <2>2, <2>3 DEF Look, IsSent, m
<1>5. CASE IsSent(s, m)
  <2>1. SentIn(s, I) = before \cup {m} /\ m \notin before
    BY <1>1, <1>5 DEF SentIn
  <2>2. Cardinality(SentIn(s, I)) = Cardinality(before) + 1
    BY <1>3, <2>1, FS_AddElement
  <2> HIDE DEF before
  <2>3. ASSUME NEW k \in before
        PROVE  {i \in SentIn(s, I) : i < k} = {i \in before : i < k}
    <3>1. ~(m < k)
      BY <1>2, <1>b
    <3> QED BY <2>1, <3>1
  <2>4. {i \in SentIn(s, I) : i < m} = before
    <3>1. ~(m < m)
      BY <1>2
    <3> QED BY <1>b, <2>1, <3>1
  <2>5. NthIn(s, n, I) = NthIn(s, n, rest) \cup (IF Cardinality(before) = n THEN {m} ELSE {})
    <3> DEFINE rank(k) == Cardinality({i \in SentIn(s, I) : i < k})
    <3>1. NthIn(s, n, I) = {k \in before \cup {m} : rank(k) = n}
      BY <2>1 DEF NthIn
    <3>2. rank(m) = Cardinality(before)
      BY <2>4
    <3>3. \A k \in before : rank(k) = Cardinality({i \in before : i < k})
      BY <2>3
    <3> HIDE DEF rank
    <3>4. NthIn(s, n, rest) = {k \in before : rank(k) = n}
      BY <1>o, <3>3
    <3> QED BY <3>1, <3>2, <3>4
  <2>l. \A acc : acc.event = 0 =>
          Look(s, n, acc, m) = [seen |-> acc.seen + 1, event |-> IF acc.seen = n THEN m ELSE 0]
    BY <1>5 DEF Look, IsSent
  <2>6. CASE NthIn(s, n, rest) # {}
    <3>1. PICK k \in NthIn(s, n, rest) : TRUE
      BY <2>6
    <3>2. k \in before /\ Cardinality({i \in before : i < k}) = n
      BY <1>o
    <3>3. Cardinality(before) # n
      <4> SUFFICES ASSUME Cardinality(before) = n PROVE FALSE
        OBVIOUS
      <4>1. {i \in before : i < k} \in SUBSET before
        OBVIOUS
      <4>2. before = {i \in before : i < k}
        BY <1>3, <3>2, <4>1, FS_Subset
      <4>3. k < k /\ k \in Nat
        BY <1>b, <3>2, <4>2
      <4> QED BY <4>3
    <3>4. NthIn(s, n, I) = NthIn(s, n, rest)
      BY <2>5, <3>3
    <3>5. After(s, n, I) = After(s, n, rest)
      BY <2>6, <3>4 DEF After, Nth
    <3>6. After(s, n, rest).event \in NthIn(s, n, rest)
      BY <2>6, AfterNames
    <3>7. After(s, n, rest).event # 0
      <4>1. ~IsSent(s, 0) \/ 0 \notin rest
        BY <1>2
      <4> QED BY <3>6, <4>1, <1>o DEF before, SentIn
    <3> QED BY <2>6, <3>4, <3>5, <3>7 DEF Look, m
  <2>7. CASE NthIn(s, n, rest) = {} /\ Cardinality(before) = n
    <3>1. NthIn(s, n, I) = {m}
      BY <2>5, <2>7
    <3>2. After(s, n, I) = [seen |-> n + 1, event |-> m]
      <4>1. (CHOOSE k : k \in {m}) = m
        OBVIOUS
      <4> QED BY <3>1, <4>1 DEF After, Nth
    <3>3. After(s, n, rest) = [seen |-> n, event |-> 0]
      BY <1>o, <2>7
    <3>4. Look(s, n, After(s, n, rest), m) = [seen |-> n + 1, event |-> m]
      BY <2>l, <3>3
    <3> QED BY <3>1, <3>2, <3>4 DEF m
  <2>8. CASE NthIn(s, n, rest) = {} /\ Cardinality(before) # n
    <3>1. NthIn(s, n, I) = {}
      BY <2>5, <2>8
    <3>2. After(s, n, I) = [seen |-> Cardinality(before) + 1, event |-> 0]
      BY <2>2, <3>1 DEF After
    <3>3. After(s, n, rest) = [seen |-> Cardinality(before), event |-> 0]
      BY <1>o, <2>8
    <3>4. After(s, n, I) = Look(s, n, After(s, n, rest), m)
      BY <2>l, <2>8, <3>2, <3>3
    <3>5. Cardinality(before) <= n => Cardinality(SentIn(s, I)) <= n
      BY <1>3, <2>2, <2>8
    <3>6. Cardinality(before) <= n \/ NthIn(s, n, rest) # {} => Cardinality(SentIn(s, I)) <= n
      BY <2>8, <3>5
    <3> QED BY <3>4, <3>6 DEF m, before
  <2> QED BY <2>6, <2>7, <2>8
<1> QED BY <1>4, <1>5

(* After obeys the rule, so there is a function that does.                 *)
LEMMA FoldRuleHolds ==
    ASSUME NEW s \in Seq(Log), NEW n \in Nat
    PROVE  FoldRule(s, n, Found(s, n))
<1> DEFINE D == DOMAIN [i \in DOMAIN s |-> i]
           g == [I \in SUBSET D |-> After(s, n, I)]
<1>1. D = 1..Len(s) /\ Len(s) \in Nat
  OBVIOUS
<1>2. ASSUME NEW I \in SUBSET D
      PROVE  After(s, n, I) = IF I = {} THEN Start
                              ELSE Look(s, n, g[I \ {Max(I)}], [i \in DOMAIN s |-> i][Max(I)])
  <2>1. CASE I = {}
    <3>1. SentIn(s, {}) = {} /\ NthIn(s, n, {}) = {}
      BY DEF SentIn, NthIn
    <3> QED BY <2>1, <3>1, FS_EmptySet DEF After, Start
  <2>2. CASE I # {}
    <3>1. Max(I) \in I
      BY <1>1, <2>2, MaxIsLargest
    <3>2. [i \in DOMAIN s |-> i][Max(I)] = Max(I) /\ g[I \ {Max(I)}] = After(s, n, I \ {Max(I)})
      BY <3>1
    <3> QED BY <1>1, <2>2, <3>2, AfterStep
  <2> QED BY <2>1, <2>2
<1>3. FoldRule(s, n, g)
  BY <1>2 DEF FoldRule
<1> QED BY <1>3 DEF Found

(* By induction along the receipt, a loop over the first k logs knows what *)
(* After says of them: there is no smallest k for which it does not.       *)
LEMMA FoldFindsNth ==
    ASSUME NEW s \in Seq(Log), NEW n \in Nat
    PROVE  /\ ParseMessageSent(s, n) = After(s, n, DOMAIN s).event
           /\ NthIn(s, n, DOMAIN s) # {} \/ Cardinality(SentIn(s, DOMAIN s)) <= n
<1> DEFINE D == DOMAIN [i \in DOMAIN s |-> i]
           f == Found(s, n)
           Enough(k) == NthIn(s, n, 1..k) # {} \/ Cardinality(SentIn(s, 1..k)) <= n
           Differ == {k \in 0..Len(s) : ~(f[1..k] = After(s, n, 1..k) /\ Enough(k))}
<1>1. D = 1..Len(s) /\ DOMAIN s = 1..Len(s) /\ Len(s) \in Nat
  OBVIOUS
<1>2. \A I \in SUBSET D :
        f[I] = IF I = {} THEN Start
               ELSE Look(s, n, f[I \ {Max(I)}], [i \in DOMAIN s |-> i][Max(I)])
  BY FoldRuleHolds, ZenonT(60) DEF FoldRule
<1> HIDE DEF f
<1>3. ASSUME NEW k \in 1..Len(s)
      PROVE  /\ f[1..k] = Look(s, n, f[1..(k-1)], k)
             /\ After(s, n, 1..k) = Look(s, n, After(s, n, 1..(k-1)), k)
             /\ Enough(k-1) => Enough(k)
  <2>1. (1..k) \in SUBSET (1..Len(s)) /\ (1..k) # {}
    <3>1. k \in 1..k /\ \A j \in 1..k : j \in 1..Len(s)
      BY <1>1
    <3> QED BY <3>1
  <2>2. Max(1..k) \in 1..k /\ \A j \in 1..k : j <= Max(1..k)
    BY <1>1, <2>1, MaxIsLargest
  <2>3. Max(1..k) = k
    BY <2>2
  <2>4. (1..k) \ {k} = 1..(k-1)
    OBVIOUS
  <2>5. [i \in DOMAIN s |-> i][k] = k
    BY <1>1
  <2>6. /\ After(s, n, 1..k) = Look(s, n, After(s, n, 1..(k-1)), k)
        /\ Enough(k-1) => Enough(k)
    BY <2>1, <2>3, <2>4, AfterStep
  <2>7. f[1..k] = Look(s, n, f[1..(k-1)], k)
    BY <1>1, <1>2, <2>1, <2>3, <2>4, <2>5
  <2> QED BY <2>6, <2>7
<1>4. f[1..0] = After(s, n, 1..0) /\ Enough(0)
  <2>1. (1..0) = {} /\ {} \in SUBSET D
    OBVIOUS
  <2>2. SentIn(s, {}) = {} /\ NthIn(s, n, {}) = {}
    BY DEF SentIn, NthIn
  <2>3. Cardinality({}) = 0
    BY FS_EmptySet
  <2>4. f[{}] = Start /\ After(s, n, {}) = Start
    BY <1>2, <2>1, <2>2, <2>3 DEF After, Start
  <2>5. f[1..0] = After(s, n, 1..0)
    BY <2>1, <2>4
  <2>6. Cardinality(SentIn(s, 1..0)) <= n
    <3>1. SentIn(s, 1..0) = {}
      BY <2>1, <2>2
    <3>2. Cardinality(SentIn(s, 1..0)) = 0
      BY <2>3, <3>1
    <3> QED BY <3>2
  <2> QED BY <2>5, <2>6
<1> HIDE DEF Enough
<1>5. Differ = {}
  <2> SUFFICES ASSUME Differ # {} PROVE FALSE
    OBVIOUS
  <2>1. Differ \in SUBSET Nat
    BY <1>1
  <2> DEFINE k == Min(Differ)
  <2>2. k \in Differ /\ \A j \in Differ : k <= j
    BY <2>1, MinIsSmallest
  <2> HIDE DEF k
  <2>3. CASE k = 0
    BY <1>4, <2>2, <2>3
  <2>4. CASE k # 0
    <3>1. k \in 1..Len(s) /\ k - 1 \in 0..Len(s) /\ ~(k <= k - 1)
      BY <1>1, <2>2, <2>4
    <3>2. f[1..(k-1)] = After(s, n, 1..(k-1)) /\ Enough(k-1)
      BY <2>2, <3>1
    <3> QED BY <1>3, <2>2, <3>1, <3>2
  <2> QED BY <2>3, <2>4
<1>6. f[1..Len(s)] = After(s, n, 1..Len(s)) /\ Enough(Len(s))
  BY <1>1, <1>5
<1>7. ParseMessageSent(s, n) = f[D].event
  BY DEF ParseMessageSent, FoldLeft, MapThenFoldSet, f, Found, FoldRule, Start, Look
<1> QED BY <1>1, <1>6, <1>7 DEF Enough

(* The position of the MessageSent of the bridge that has n of them before *)
(* it, however many other logs lie in between, or 0 when there are n of    *)
(* them or fewer.                                                          *)
LEMMA ParseFindsNth ==
    ASSUME NEW s \in Seq(Log), NEW n \in Nat
    PROVE  \/ ParseMessageSent(s, n) \in NthIn(s, n, DOMAIN s)
           \/ ParseMessageSent(s, n) = 0 /\ Cardinality(SentIn(s, DOMAIN s)) <= n
<1>1. CASE NthIn(s, n, DOMAIN s) # {}
  BY <1>1, AfterNames, FoldFindsNth
<1>2. CASE NthIn(s, n, DOMAIN s) = {}
  BY <1>2, FoldFindsNth DEF After
<1> QED BY <1>1, <1>2

(* The first of them, for index 0.                                         *)
LEMMA ParseFindsFirst ==
    ASSUME NEW s \in Seq(Log)
    PROVE  LET e == ParseMessageSent(s, 0)
           IN  /\ e \in 0..Len(s)
               /\ e = 0 => \A i \in DOMAIN s : ~IsSent(s, i)
               /\ e # 0 => IsSent(s, e) /\ \A i \in 1..(e - 1) : ~IsSent(s, i)
<1> DEFINE e == ParseMessageSent(s, 0)
           sent == SentIn(s, DOMAIN s)
<1>1. DOMAIN s = 1..Len(s) /\ Len(s) \in Nat
  OBVIOUS
<1>2. IsFiniteSet(sent) /\ Cardinality(sent) \in Nat
  BY <1>1, SentFinite
<1>3. CASE e \in NthIn(s, 0, DOMAIN s)
  <2>1. e \in sent /\ Cardinality({i \in sent : i < e}) = 0
    BY <1>3 DEF NthIn
  <2>2. {i \in sent : i < e} \in SUBSET sent
    OBVIOUS
  <2>3. IsFiniteSet({i \in sent : i < e})
    BY <1>2, <2>2, FS_Subset
  <2>4. {i \in sent : i < e} = {}
    BY <2>1, <2>3, FS_EmptySet
  <2>5. e \in 1..Len(s) /\ IsSent(s, e)
    BY <1>1, <2>1 DEF SentIn
  <2>6. \A i \in 1..(e - 1) : i \in DOMAIN s /\ i < e
    BY <1>1, <2>5
  <2>7. \A i \in 1..(e - 1) : ~IsSent(s, i)
    BY <2>4, <2>6 DEF SentIn
  <2> QED BY <1>1, <2>5, <2>7
<1>4. CASE e = 0 /\ Cardinality(sent) <= 0
  <2>1. Cardinality(sent) = 0
    BY <1>2, <1>4
  <2>2. sent = {}
    BY <1>2, <2>1, FS_EmptySet
  <2> QED BY <1>1, <1>4, <2>2 DEF SentIn
<1>5. 0 \in Nat
  OBVIOUS
<1> QED BY <1>3, <1>4, <1>5, ParseFindsNth

(* A receipt is a finite sequence of logs.                                 *)
LogsInv == logs \in Seq(Log)

LEMMA LogsInvHolds == SendCommandsSpec => []LogsInv
<1>1. SendCommandsInit => LogsInv
  BY DEF SendCommandsInit, LogsInv
<1>2. Receipts \subseteq Seq(Log)
  <2> DEFINE kinds == {[bridge |-> FALSE, parses |-> TRUE], [bridge |-> TRUE, parses |-> FALSE],
                       [bridge |-> TRUE, parses |-> TRUE]}
  <2>1. kinds \subseteq Log
    BY DEF Log
  <2>2. Receipts = UNION {[1..m -> kinds] : m \in 0..MaxLogs}
    BY DEF Receipts, SeqOf
  <2> HIDE DEF kinds
  <2>3. ASSUME NEW m \in 0..MaxLogs, NEW r \in [1..m -> kinds] PROVE r \in Seq(Log)
    BY <2>1, SendAssumption
  <2> QED BY <2>2, <2>3
<1>3. LogsInv /\ [SendCommandsNext]_sendCommandVars => LogsInv'
  <2> SUFFICES ASSUME LogsInv, [SendCommandsNext]_sendCommandVars PROVE LogsInv'
    OBVIOUS
  <2>1. CASE MineSend
    BY <1>2, <2>1 DEF MineSend, LogsInv
  <2>2. CASE RunAgain
    BY <2>2 DEF RunAgain, LogsInv
  <2>3. CASE CommandStep \/ CtxEnds \/ MineEarlier \/ UNCHANGED sendCommandVars
    BY <2>3 DEF CommandStep, CtxEnds, MineEarlier, sendCommandVars, LogsInv
  <2> QED BY <2>1, <2>2, <2>3 DEF SendCommandsNext
<1> QED BY <1>1, <1>3, PTL DEF SendCommandsSpec

(* Exit code 0 is about the transaction of this invocation, and its        *)
(* payload describes the first MessageSent of the bridge in the receipt,   *)
(* at whatever position among however many logs; that there is none is     *)
(* said only when there is none (send.go:455-489).                         *)
THEOREM SuccessIsAlwaysOwn == SendCommandsSpec => []SuccessIsOwn
<1>1. SendCommandsInv /\ LogsInv => SuccessIsOwn
  <2> SUFFICES ASSUME SendCommandsInv, LogsInv PROVE SuccessIsOwn
    OBVIOUS
  <2> DEFINE found == ParseMessageSent(logs, 0)
  <2>1. /\ found \in 0..Len(logs)
        /\ found = 0 => \A i \in DOMAIN logs : ~IsSent(logs, i)
        /\ found # 0 => IsSent(logs, found) /\ \A i \in 1..(found - 1) : ~IsSent(logs, i)
    BY ParseFindsFirst DEF LogsInv
  <2>2. exit = OK => sendTx = "succeeded" /\ found # 0 /\ event = found
    BY DEF SendCommandsInv, EmitInv
  <2>3. sendOutcome = "ErrNoMessageSentEvent" => found = 0
    BY DEF SendCommandsInv, EmitInv
  <2> HIDE DEF found
  <2> QED BY <2>1, <2>2, <2>3 DEF SuccessIsOwn, IsSent
<1> QED BY <1>1, SendCommandsInvHolds, LogsInvHolds, PTL

(* Every state has its type, and an exit code exactly at the end.          *)
THEOREM SendCommandsTyped == SendCommandsSpec => []SendCommandsTypeOK
<1>1. SendCommandsInv /\ LogsInv => SendCommandsTypeOK
  <2> SUFFICES ASSUME SendCommandsInv, LogsInv PROVE SendCommandsTypeOK
    OBVIOUS
  <2>1. event \in 0..Len(logs)
    <3>1. ParseMessageSent(logs, 0) \in 0..Len(logs)
      BY ParseFindsFirst DEF LogsInv
    <3>2. Len(logs) \in Nat
      BY DEF LogsInv
    <3> QED BY <3>1, <3>2 DEF SendCommandsInv, EmitInv
  <2>2. R!RuntimeTypeOK /\ S!SendTypeOK /\ StageTyped
    BY DEF SendCommandsInv, TypeInv
  <2>3. Len(earlier) < runs /\ runs \in 1..MaxRuns
    BY DEF SendCommandsInv, UserInv
  <2> QED BY <2>1, <2>2, <2>3 DEF SendCommandsTypeOK, StageTyped, Stages, Working
<1> QED BY <1>1, SendCommandsInvHolds, LogsInvHolds, PTL

(* --event-index n names the n-th MessageSent of the bridge, in a receipt  *)
(* of any length and whatever logs lie in between (send.go:466-486).       *)
THEOREM EventIndexAlwaysCounts == SendCommandsSpec => []EventIndexCountsMessages
<1>1. LogsInv => EventIndexCountsMessages
  <2> SUFFICES ASSUME LogsInv, NEW n \in 0..MaxLogs
               PROVE  LET sent == SentIn(logs, DOMAIN logs)
                          e == ParseMessageSent(logs, n)
                      IN  \/ e \in sent /\ Cardinality({i \in sent : i < e}) = n
                          \/ e = 0 /\ Cardinality(sent) <= n
    BY DEF EventIndexCountsMessages, SentIn, IsSent
  <2>1. n \in Nat
    BY SendAssumption
  <2> QED BY <2>1, ParseFindsNth DEF LogsInv, NthIn
<1> QED BY <1>1, LogsInvHolds, PTL
=============================================================================
