------------------------------- MODULE Runtime -------------------------------
(***************************************************************************)
(* loadRuntime and close of internal/cmd/runtime.go: the root flags, the   *)
(* two RPC clients, and the bindings of seven contracts, each at the       *)
(* address of an override of its own or at a preset of the chain that an   *)
(* endpoint turned out to serve.  Whoever returns an error closes what is  *)
(* open; whoever gets a runtime closes it when the command ends.           *)
(***************************************************************************)
EXTENDS Naturals

CONSTANT Word  \* 2^64: a chain id is kept as a uint64

VARIABLES
    flags,      \* the root flags, and which chains the two endpoints serve
    ctxDone,    \* the context's deadline has passed
    load,       \* the next step of loadRuntime, or "loaded", "failed" or "closed"
    client,     \* the client of each side: "none", "open" or "closed"
    bindings    \* the contracts of the runtime

Sides == {"src", "dst"}

(* Two stand for the chain ids with presets (fixed_addresses.go), one for  *)
(* those without, and one, for what eth_chainId may well answer, does not  *)
(* fit into 64 bits.                                                       *)
KnownChains == {1, 2}
Chains == KnownChains \cup {3, Word + 1}

(* The overrides that there are flags for, by side and kind of contract.   *)
Overrides == {<<"src", "Bridge">>, <<"dst", "Bridge">>, <<"src", "SignalService">>,
              <<"dst", "SignalService">>, <<"src", "ERC20Vault">>,
              <<"src", "ERC721Vault">>, <<"src", "ERC1155Vault">>}

Flags == [rpc : [Sides -> BOOLEAN], chain : [Sides -> Chains],
          override : [Overrides -> {"empty", "address", "garbage"}]]

RuntimeTypeOK ==
    /\ flags \in Flags
    /\ load \in {"flags", "dialSrc", "dialDst", "srcChainID", "dstChainID", "resolve",
                 "loaded", "failed", "closed"}
    /\ client \in [Sides -> {"none", "open", "closed"}]

NotLoaded ==
    /\ load = "flags"
    /\ client = [side \in Sides |-> "none"]
    /\ bindings = <<>>

(* Close, of the clients that there are.                                   *)
Close == client' = [side \in Sides |-> IF client[side] = "open" THEN "closed" ELSE client[side]]

(* requireFlag of --src-rpc and --dst-rpc.                                 *)
RequireFlags ==
    /\ load = "flags"
    /\ load' = IF \A side \in Sides : flags.rpc[side] THEN "dialSrc" ELSE "failed"
    /\ UNCHANGED <<client, bindings>>

Dial(step, side, next) ==
    /\ load = step
    /\ ~ctxDone
    /\ client' = [client EXCEPT ![side] = "open"]
    /\ load' = next
    /\ UNCHANGED bindings

DialSrc == Dial("dialSrc", "src", "dialDst")
DialDst == Dial("dialDst", "dst", "srcChainID")

(* Mutant: a dial that fails leaves the other client open.                 *)
DialFails_LeavesOpen ==
    /\ load \in {"dialSrc", "dialDst"}
    /\ load' = "failed"
    /\ UNCHANGED <<client, bindings>>

DialFails ==
    /\ load \in {"dialSrc", "dialDst"}
    /\ load' = "failed"
    /\ Close
    /\ UNCHANGED bindings

(* chainIDUint64, of the source and then of the destination.               *)
ChainIDs ==
    /\ load \in {"srcChainID", "dstChainID"}
    /\ ~ctxDone
    /\ load' = IF load = "srcChainID" THEN "dstChainID" ELSE "resolve"
    /\ UNCHANGED <<client, bindings>>

ChainIDFails ==
    /\ load \in {"srcChainID", "dstChainID"}
    /\ load' = "failed"
    /\ Close
    /\ UNCHANGED bindings

ChainIDUint64(side) == flags.chain[side] % Word

(* An address is the deployment of a kind on a chain, or what a flag gave; *)
(* Go's zero address comes with ok = FALSE alone.                          *)
Deployed(chain, kind) == [chain |-> chain, kind |-> kind]
Given(flag) == [flag |-> flag]

LookupFixedAddresses(id) ==
    LET Preset(kind) == IF id \in KnownChains THEN Deployed(id, kind) ELSE [zero |-> TRUE]
    IN  [ok |-> id \in KnownChains,
         Bridge |-> Preset("Bridge"), SignalService |-> Preset("SignalService"),
         ERC20Vault |-> Preset("ERC20Vault"), ERC721Vault |-> Preset("ERC721Vault"),
         ERC1155Vault |-> Preset("ERC1155Vault")]

ResolveAddressWithPreset(flag, preset, hasPreset) ==
    CASE flags.override[flag] = "address" -> [ok |-> TRUE, at |-> Given(flag)]
      [] flags.override[flag] = "empty" /\ hasPreset -> [ok |-> TRUE, at |-> preset]
      [] OTHER -> [ok |-> FALSE]

(* Mutant: the last call was copied from the one before it, and its preset *)
(* was left as it is there.                                                *)
Addresses_CopiedPreset ==
    LET src == LookupFixedAddresses(ChainIDUint64("src"))
        dst == LookupFixedAddresses(ChainIDUint64("dst"))
    IN  [SrcBridge  |-> ResolveAddressWithPreset(<<"src", "Bridge">>, src.Bridge, src.ok),
         DstBridge  |-> ResolveAddressWithPreset(<<"dst", "Bridge">>, dst.Bridge, dst.ok),
         SrcSignal  |-> ResolveAddressWithPreset(<<"src", "SignalService">>, src.SignalService, src.ok),
         DstSignal  |-> ResolveAddressWithPreset(<<"dst", "SignalService">>, dst.SignalService, dst.ok),
         SrcERC20   |-> ResolveAddressWithPreset(<<"src", "ERC20Vault">>, src.ERC20Vault, src.ok),
         SrcERC721  |-> ResolveAddressWithPreset(<<"src", "ERC721Vault">>, src.ERC721Vault, src.ok),
         SrcERC1155 |-> ResolveAddressWithPreset(<<"src", "ERC1155Vault">>, src.ERC721Vault, src.ok)]

(* The seven calls, each with its own flag, preset and ok.                 *)
Addresses ==
    LET src == LookupFixedAddresses(ChainIDUint64("src"))
        dst == LookupFixedAddresses(ChainIDUint64("dst"))
    IN  [SrcBridge  |-> ResolveAddressWithPreset(<<"src", "Bridge">>, src.Bridge, src.ok),
         DstBridge  |-> ResolveAddressWithPreset(<<"dst", "Bridge">>, dst.Bridge, dst.ok),
         SrcSignal  |-> ResolveAddressWithPreset(<<"src", "SignalService">>, src.SignalService, src.ok),
         DstSignal  |-> ResolveAddressWithPreset(<<"dst", "SignalService">>, dst.SignalService, dst.ok),
         SrcERC20   |-> ResolveAddressWithPreset(<<"src", "ERC20Vault">>, src.ERC20Vault, src.ok),
         SrcERC721  |-> ResolveAddressWithPreset(<<"src", "ERC721Vault">>, src.ERC721Vault, src.ok),
         SrcERC1155 |-> ResolveAddressWithPreset(<<"src", "ERC1155Vault">>, src.ERC1155Vault, src.ok)]

(* NewBridge, NewERC20Vault and their like: the contract of a kind at an   *)
(* address, called through a client.                                       *)
Binding(kind, address, side) == [kind |-> kind, at |-> address.at, client |-> side]

Bindings(a) ==
    [SrcBridge        |-> Binding("Bridge", a.SrcBridge, "src"),
     DstBridge        |-> Binding("Bridge", a.DstBridge, "dst"),
     SrcERC20Vault    |-> Binding("ERC20Vault", a.SrcERC20, "src"),
     SrcERC721Vault   |-> Binding("ERC721Vault", a.SrcERC721, "src"),
     SrcERC1155Vault  |-> Binding("ERC1155Vault", a.SrcERC1155, "src"),
     SrcSignalService |-> Binding("SignalService", a.SrcSignal, "src"),
     DstSignalService |-> Binding("SignalService", a.DstSignal, "dst")]

(* All addresses resolve, and the runtime is ready.  A binding fails only  *)
(* when its generated ABI does not parse, which it does.                   *)
Resolve ==
    /\ load = "resolve"
    /\ \A name \in DOMAIN Addresses : Addresses[name].ok
    /\ bindings' = Bindings(Addresses)
    /\ load' = "loaded"
    /\ UNCHANGED client

ResolveFails ==
    /\ load = "resolve"
    /\ \E name \in DOMAIN Addresses : ~Addresses[name].ok
    /\ load' = "failed"
    /\ Close
    /\ UNCHANGED bindings

LoadRuntime ==
    \/ RequireFlags \/ DialSrc \/ DialDst \/ DialFails
    \/ ChainIDs \/ ChainIDFails \/ Resolve \/ ResolveFails

(* The deferred close of the command.                                      *)
CloseRuntime ==
    /\ load = "loaded"
    /\ load' = "closed"
    /\ Close
    /\ UNCHANGED bindings
=============================================================================
