# A formal model of taiko-bridge-cli

`taiko-bridge-cli` moves ETH, ERC20, ERC721 and ERC1155 tokens over Taiko's native bridge. A command
sends a message on the source chain, waits until a checkpoint of the source chain is known on the
destination, builds a storage proof against it and claims the message there. This directory holds
TLA+ models of that, TLC configurations that check them on small instances, and proofs of the main
results for every value of the constants, checked by TLAPS. `PROJECT.json` names, for every definition,
the lines of `src/` it stands for, and lists runs, mutants, hazards, findings and theorems.

    tlc -config Pipeline.cfg ClaimPipeline          # one run
    tlapm ProberProofs.tla                          # the proofs of one module

## 1. Inventory

| component | state | operations | talks to |
|---|---|---|---|
| readiness prober, `internal/ready/wait.go` | `nextLogBlock`, `bestCheckpoint` | `Probe` (head, logs, proof, check), `Wait` (poll until ready) | destination node, proof builder |
| claim attempt, `internal/claim/process.go` | none of its own; the transaction it submits | `Process`, `waitReceipt` | destination bridge and mempool |
| source send, `internal/bridge/send.go` | none; the transaction it submits | `SendETH`, `SendERC20`, `SendERC721`, `SendERC1155`, `ReadMessageSentFromTx`, the `Build*` functions, `ResolveETHGasLimit` | source bridge and vaults |
| pipeline commands, `internal/cmd/shared_flow.go`, `claim_{eth,erc20,erc721,erc1155}.go` | the two deadlines, the final payload | send, then probe and claim in a loop | the three above |
| low-level commands, `internal/cmd/{claim,wait_ready,check_ready,status}.go` | none between invocations | one command on one source transaction | prober, claim attempt |
| send commands, `internal/cmd/send_*.go` | the transaction that outlives them | flags, gas limit, send, JSON line | runtime, source send |
| proof builder, `internal/proof/proof.go` | none | `Build`: slot, block, `eth_getProof`, encoding | source node |
| runtime and configuration, `internal/cmd/runtime.go`, `internal/config` | resolved addresses, clients, key | `loadRuntime`, `close`, the parse functions, `LoadPrivateKey`, `LoadProfile` | both nodes, flags, environment |
| runner, `pkg/runner` | partial line, last progress, final payload | `Run`, `Write`, `Flush` | the command tree, in process |
| command tree, output, exit codes | none | flags, JSON, error wrapping | |
| bindings, `internal/bindings` | generated code | | |

**What is hard.** The program is sequential but for one goroutine that feeds it logs, yet everything it reads moves under it: blocks arrive,
checkpoints are saved, forks are dropped, relayers claim the same message, nodes behind one endpoint
disagree about the head, answers are lost after the transaction was accepted, and deadlines fall between any
two calls. The prober keeps a cursor and a best checkpoint over all this, and never reads a
block twice unless the endpoint's head steps back. The loops retry one particular error. Two deadlines of equal length start
at different times. A user reruns commands while transactions of earlier ones are still in the mempool.

**What makes each part correct.**
- *Prober*: the checkpoint it settles on is on the chain with the confirmations asked for and is the highest
  one; the incremental scan is worth a scan of the whole chain; a message whose checkpoint is confirmed is
  reported ready in the end.
- *Claim attempt*: what it returns is true of its transaction; the one error that is retried leaves nothing
  behind that a second attempt would compete with; it does not outlive its context.
- *Pipeline*: success means our own claim went through, on a checkpoint that stays; a timeout that says
  `"claimed": false` is right; one claim at most; the command ends; as a whole it is a bridge transfer.
- *Low-level commands*: an exit code is about the transaction of this invocation; the two reads of `status`
  fit together; running a command again finds what the last one missed.
- *Send commands*: the transaction moves and pays what was asked for; an exit code that names the user's own
  mistake means that nothing was sent; the event reported is the one of this transaction; clients are
  closed on every path, and each address belongs to the chain that its endpoint turned out to serve.
- *Fetch*: all logs or an error, and no goroutine left behind.
- *Runner*: callbacks and result describe the whole lines of the output, however it was cut into writes.

## 2. Modules

| module | models | state and actions |
|---|---|---|
| `DestChain` | the destination chain, as its use in `src/` shows it (external) | head, highest head, the logs `CheckpointSaved` on the canonical chain; `MineBlock` with any set of checkpoints, `Reorg` of the last `ReorgDepth` blocks; `Views(lag)`: what a lagging node may answer from |
| `Prober` | `ready.Prober.Probe`, `SignalServiceSource.Fetch` | one action per network call: `BlockNumber`, `Fetch` (with the scan and the early return), `BuildProof`, `CheckMessage`, and `CallFails`; the confirmation test is in `Word`-bit arithmetic |
| `LogIterator` | `SignalServiceSource.Fetch`, the generated iterator it ranges over, and the goroutine of go-ethereum that feeds it | the feeder (`Feed`, `FeederEnds`) and `Fetch` (filter, `Next` with its select, close) around a bounded channel; `Prober` has all of it as one answer, which `FetchIsWhole` justifies |
| `LogIteratorProofs` | | theorems about `LogIterator` |
| `ReadinessOracle` | the abstract prober | one `answer`, found by looking at the whole chain afresh |
| `ProberProofs` | | theorems about `Prober` |
| `ClaimProcess` | `claim.Process`, `waitReceipt`, and the retry of its callers | the four calls, an answer that is lost (`ProcessMessageFails`), the deadline; around them relayers, the miner and checkpoints that come and go |
| `ClaimProofs` | | theorems about `ClaimProcess` |
| `SendProcess` | the control that the four `Send*` functions share | chain id, build, submit (perhaps with the answer lost), receipt, event; it has no specification of its own and runs inside the pipeline and the send commands |
| `ClaimPipeline` | `claim-*` commands and `autoClaimWithProber` | extends `Prober` and composes `SendProcess` and `ClaimProcess` by `INSTANCE`; `clock`, `stage`, `loopDeadline`, exit code, payload, which may fail to be written (`EmitClaimed`) |
| `ClaimPipelineProofs` | | theorems about `ClaimPipeline`, among them the refinement of `BridgeTransfer` |
| `BridgeTransfer` | the abstract transfer | lock, prove, release once, report; a reorg may unlock or unprove what nobody has released yet |
| `SendRequest` | the parse functions of `runtime.go`, the `Build*` functions, `toUint64`, `ResolveETHGasLimit`, `parseMessageSentFromReceipt` | operators: flags in, request or refusal out; the logs of a receipt in, the position of the event out |
| `Runtime` | `loadRuntime`, `close` | flags, two dials, two chain ids cut to 64 bits, the seven calls that resolve an address (`Addresses`) and the seven bindings, each written out with its own arguments; every failure closes what is open |
| `SendCommands` | `send-eth`, `send-erc20`, `send-erc721`, `send-erc1155`, run by a user who may run them again | composes `Runtime`, `SendRequest` and `SendProcess`; `stage`, exit code, payload, and the transactions of earlier invocations |
| `SendCommandsProofs` | | theorems about `SendCommands` and the operators of `SendRequest` |
| `Runner` | `pkg/runner`: `Run`, the line handlers, `lineCaptureWriter` | a script of lines is written in pieces of any size; `Write`, `Flush`, the check of the context, the result |
| `FoldLemmas` | | induction along a sequence, and what a left fold is on an empty sequence, after one more element, and on two sequences joined |
| `RunnerProofs` | | theorems about `Runner` |
| `LowLevelCommands` | `claim`, `wait-ready`, `check-ready`, `status` and `Prober.Wait`, any number of invocations on one message | extends `Prober` and instantiates `ClaimProcess`; a fresh prober and context per invocation, claim transactions that outlive it, a final object that may fail to be written (`Emit`) |
| `LowLevelProofs` | | theorems about `LowLevelCommands` |

**How state corresponds.** `pc`, `step`, `sendStep` and `stage` are program counters: each names the call that
is made next, and the code between two calls, which touches local state only, belongs to the call before it.
`head` is `Probe`'s local variable. `nextLogBlock` and `bestCheckpoint` are the fields of `Prober`; `result` is
the last `*Result`. `claimTx[i]` and `sendTx` are transactions in a mempool or on a chain, which nobody owns
once they are submitted. `status` is the destination bridge's message status. `err`, `exit` and `payload` are what
a command leaves behind. In `LogIterator` the fields `done` and `fail` of the iterator keep their names, and `sent - received` is what the channel holds. In the pipeline, `CtxDone` is the context's deadline as a function of the clock.

**Composition.** `ClaimPipeline` and `LowLevelCommands` extend `Prober`, whose actions they guard and frame (its theorems are then theorems
about the commands' own variables), and instantiate the other components with what those leave open replaced: `received` (the bridge accepts our proof) becomes "the checkpoint of the last result is on the
destination chain", `provable` "some checkpoint that covers the message is", `ctxDone` the command's context.
`SendCommands` gives `SendProcess` a request that is valid exactly when `BuildRequest` of `SendRequest` makes one, and a receipt with an event
exactly when `ParseMessageSent` finds one in its logs.

## 3. Runs

| run | constants | what it shows |
|---|---|---|
| `prober_sync` | 3 blocks, source blocks 0..2, no confirmations or reorgs, head lag 1 | `BestIsHighest`, `BestNeverFalls`, the refinement of `ReadinessOracle` and `ConfirmedLeadsToReady`: incremental scans lose nothing, although the endpoint may step back a block, and what is confirmed is reported |
| `prober_reorg` | 4 blocks, reorgs of 1 block, 1 confirmation, both lags 1 | `BestIsConfirmed`, `ReadyIsBacked`: confirmations that cover the reorgs make the memory of the prober safe |
| `prober_confs_skip` | 3 blocks, 1 confirmation | **violated** `BestIsHighest`: finding 1 |
| `log_iterator` | answers of 0..5 logs, any of them malformed, a channel for 2 | `FetchIsWhole`, `NoFeederLeft`, `FetchReturns` |
| `claim_attempt` | 2 claim transactions | honesty of outcomes, one claim at most, termination at the deadline |
| `commands` | 2 blocks, 1 confirmation, 2 claim transactions, 1 outage | `ExitIsAboutThisRun`, `SnapshotFits`, `InvocationEnds` over any sequence of low-level commands; `RerunFindsReady`: a new invocation recovers from finding 1 |
| `pipeline` | 2 blocks, source blocks 0..2, the message in block 1 or, after a reorg, 2; reorgs of 1 block, 1 confirmation, both lags 1, timeout 1, clock to 3 | success, timeout and count of claims are right, success rests on a checkpoint that stays, every claim holds the message, the command ends, and the pipeline refines `BridgeTransfer` |
| `pipeline_deadline_exit` | timeout 1 | **violated** `DeadlineExitsTimeout`: finding 2 |
| `pipeline_revert_exit` | timeout 1 | **violated** `RevertExitsTxReverted`: finding 3 |
| `send_commands` | `Word` 4, 2 invocations, receipts of up to 3 logs | what is sent is what was asked for, whoever heeds exit codes sends once, and each contract of the runtime is the right one on the right chain |
| `send_data` | 1 invocation | **violated** `DataAsAsked`: finding 4 |
| `runner` | up to 3 lines on stdout, 1 on stderr | events, result and cancellation |

**Bounds.** `MaxHead` bounds the chain: a log can be scanned in its own block, one block late, or after the
endpoint stepped back and forth, and with `MaxHead` 3 or 4 there is still a block after each of these.
`MaxCheckpoint` 2 with the message in source block 1 gives a checkpoint below the message, one at it and one
above it, so that "highest" and "qualifying" differ; 1 is enough where only qualifying matters. Two claim transactions are one more than a
correct program submits per command; in `commands` they are two invocations' claims in
the mempool together. `Timeout` 1 with the clock to 3 lets the send take time, so that the two deadlines differ, and lets both pass (the loop's is 2 at the latest).
`Word` 16 keeps the confirmation test from wrapping in the runs; in `send_commands` it is 4, so that fees of -1, 0, 1, 3 and 4 stand for
a negative one, the ends of the range of `uint64` and the first beyond it. The inputs of `send_commands` are configurations and keys of all sorts with a plain request, and a plain
configuration with requests of all sorts, because the two are judged one after the other. The configurations combine two chains with presets, one without and one whose id does not fit into a word,
on either side, with all overrides of a side, one override alone, or all but one, so that each of the seven calls decides once by itself. Two invocations are enough to send twice. Three logs hold
a foreign one, one of the bridge that does not parse, and the event, in any order. In `log_iterator` 5 logs and a channel for 2 let the feeder block, end early and late; the theorems lift both bounds.
In `runner` a line is two atoms and a newline a third, so a write may end inside a line, at its end, after its newline or lines later; three lines are one more than
are needed for a last object and a last progress with something after each. `MaxOutages` bounds the calls before a claim
that fail or are cut off by the deadline, and the final objects that cannot be written, in all invocations together; commands polling for readiness or a receipt run into the
deadline as often as they like. Deadlock is not checked: a command stops when it has exited, and the chain
stops at its bound.

**Fairness.** In `Prober.FairSpec` the prober takes its next step if it can: an RPC call returns, and `Wait` and the pipeline poll until they are told to stop. The
chain is not fair: it may stop at any block. Strong fairness of `AskNewest` says that a caller who asks again and again for the head, or for the message, is answered by an up-to-date node in the end. `ClaimFairSpec` has the same for `Process`; a transaction need never be mined and a relayer need never
act. `PipelineFairSpec` adds that the clock goes on. `LowLevelFairSpec` has strong fairness of time,
because a polling command is interruptible only between its calls; `RerunSpec` adds a user who runs `wait-ready`
again and again (SKILL.md:127). No success of a remote call is ever assumed, except through the bound `MaxOutages`
in `commands`, which says that outages end. `IteratorFairSpec` has weak fairness of the two goroutines. `Runner` and `SendCommands` have safety properties only.

## 4. Properties worth a word

- `ProberImplementsOracle`. The prober moves its cursor on, may see the head step back, and keeps its best
  over it all; the oracle rescans the chain for each answer. That they agree is what the incremental
  scan has to achieve. It needs a log index that is up to date with the head (`LogLag = 0`): if the node's logs lag behind
  its own head, the cursor passes blocks whose logs were not served yet. Nothing in the repository promises more, so the assumption is named in the theorem and in the hazards.
- `OneClaimAtMost`, `NotReadyLeavesNothing`. The pipeline tries again after `ErrNotReady` alone, so the whole
  weight lies on that error never being returned when a transaction may have been accepted.
- `TimeoutIsUnclaimed`. It relates a payload printed at the end to transactions of an earlier stage: nothing of
  ours may be mined after the user was told `"claimed": false`, by the payload or, where that could not be written, by exit code 4 alone. A claim that
  succeeded while its payload went into a broken pipe exits with 10, which tells the user neither.
- `SnapshotFits`. `status` makes its two reads in an order that matters: with the status read last, a relayer's
  claim between the two would give "processed" beside "not ready". The mutant swaps them. It asks for a checkpoint that has its confirmations at the time
  of the read; one without may rightly escape the probe while a relayer uses it.
- `ExitIsAboutThisRun`. `claim` reruns while an earlier claim is pending; 0 and 5 must not be about that one.

- `ClaimHoldsMessage`. The prober looks for a checkpoint of the source block that the receipt named once. After a reorg of the source chain the message is in a
  later block, and a checkpoint between the two qualifies without holding it. What saves the claim is not the
  prober but one check far away: `getProof` refuses a proof of the value zero (`proof.go:173`). The mutant drops it. The price is that the
  command ends with exit code 7 instead of waiting for the next checkpoint.
- `CarefulUserSendsOnce`. Exit codes 2 and 3 invite the user to correct his flags and run the command again; behind them
  there must never be a transaction, also none that the node accepted while its answer was lost, nor one whose
  payload went into a broken pipe (that exits with 10).
- `AddressesAreOfTheirChain`. `loadRuntime` pairs flag, preset, chain and client by hand, seven times for the addresses and seven times
  for the bindings. The property knows nothing of these calls: it compares what each binding is used for, its kind and its client, with where it points.
  The mutant is a call that kept the preset of the one it was copied from. An id beyond 64 bits is taken modulo 2^64 (`runtime.go:343`) and would get the presets of another chain;
  the model has such a chain, and the property leaves it out, since no document says what should happen there.
- `FetchIsWhole`, `NoFeederLeft`. The end of the feeder and the last logs race in a select; the prober never asks for
  these blocks again. A malformed log ends `Fetch` while the feeder may be blocked on a full channel.
- `NothingIsUntold`. `Run` drops the result of a command that had finished when the context ends late; the callback has had all of it by then.

Every property of a passing run has a mutant, a plausible bug that TLC finds with the same configuration.

## 5. Findings

1. **Unconfirmed checkpoint logs are lost** (`wait.go:127-138`). With `--checkpoint-confs` above 0, a log
   first scanned before it has its confirmations is skipped, the cursor moves past it and no later `Probe` reads it. A
   prober that polls at least once per block may never become ready. `commands` shows that a new invocation recovers,
   because its prober starts from block 0; a larger `--timeout` alone does not help.
2. **A timeout exits with 7 and prints nothing** (`claim_eth.go:35`, `shared_flow.go:87`). The context is started before
   the send and the loop's deadline after it, with the same length, so the context wins. Exit code 4 and its payload with the hash of the source
   transaction remain for a loop that is between two calls when both pass. `Wait` has the same shape (`wait.go:179`).
3. **A revert in a pipeline command exits with 7** (`claim_eth.go:89` and `109`), where `claim` exits with 5.
4. **Calldata is cut off where it is not hex** (`runtime.go:290`). `common.FromHex` ignores the error of its decoder: `--data 0xabXY` is sent as
   `0xab`, although text without the prefix is refused with "data must be 0x-prefixed hex".

Met on the way, and not counted as findings because no document decides them: `Process` reports a claim whose
transaction left the message RETRIABLE (`process.go:110`); a negative fee or a zero token amount exits with 7, not with 3; a missing or unknown flag exits
with 10, like an `Emit` that failed after the send; `rt.PrivateKeyHex`, read from the injected environment, is never used, and
`LoadPrivateKey` reads the environment of the process, so an embedder's `LookupEnv` (`root.go:19`) does not supply keys.

## 6. What is proved

Every safety invariant, action property and refinement that a passing run checks is also a theorem, for every value of the constants
that the modules' assumptions allow: the bounds `MaxHead`, `MaxCheckpoint`, `MaxClaimTxs`, `MaxClock`, `MaxRuns`, `MaxLogs`,
`MaxLines` and so on are constants of the theorems, so they hold for bounds of any size. For each the pattern is the same: an inductive invariant that
holds initially and that every action keeps (one lemma or step per action), from which the property follows.
Beside the `ASSUME`s of the modules, which only give constants their types and say that block numbers fit into a word and that the clock
runs past both deadlines, some theorems have one of four hypotheses, each of which a run's constants satisfy:

| hypothesis | says | needed by |
|---|---|---|
| `NoWrap` | the confirmation test `LogBlock + CheckpointConfs` does not wrap | `BestAlwaysConfirmed`, `ReadyAlwaysBacked`, `ClaimAlwaysHoldsMessage`, `SuccessIsAlwaysConfirmed` |
| `ConfsCoverReorgs` | a reorg is no deeper than `--checkpoint-confs` | the same four |
| `SettledChain` | no reorgs, no confirmations asked for, no index lag | `BestAlwaysHighest`, `Implements` |
| `CurrentReads` | no reorgs, no head lag, the index lags no further than the confirmations | `SnapshotAlwaysFits` |

- `ProberProofs`
  - `TypeCorrect`, `BestNeverFallsBack`: unconditionally.
  - `BestAlwaysConfirmed`, `ReadyAlwaysBacked`. `BestIsConfirmed` is not inductive, because `Fetch` judges logs
    by `head`, which was read earlier; `ConfirmedInv` adds that `head` never exceeds the
    highest head the chain had, and lemma `BackingStays` shows that a log that deep survives any reorg.
  - `BestAlwaysHighest`, `Implements`: on a settled chain. `OracleInv` says that `bestCheckpoint` answers for all blocks up to some `f`, with the cursor at most at
    `f + 1`; it is this `f`, and not the cursor, that never steps back when the endpoint does. `FetchAnswers` carries the argument; the refinement follows step by step.
- `ClaimProofs`
  - `ClaimTypeCorrect`, `OutcomeAlwaysHonest`, `NotReadyAlwaysClean`, `AlwaysOneClaim`. None of the last three
    is inductive alone. `ClaimInv` adds where a transaction can exist at all (none before `ProcessMessage`, one
    while its receipt is awaited) and that one that succeeded moved the message's status.
- `LogIteratorProofs`
  - `IteratorTypeCorrect`, `FetchAlwaysWhole`, `NeverAFeederLeft`: unconditionally, for channels of any capacity. `IteratorInv` adds
    what the end of the feeder means (`EndIsTheEnd`: it was told to stop or has sent all, and only `Close` tells it) and
    that what was received has become an event (`NothingSkipped`).
  - `OneCanGoOn`, `StepsAlwaysRunOut`: whenever `Fetch` waits the feeder can take a step, and each step of either lowers `StepsLeft`, a natural number. This is all of
    `FetchReturns` but the fairness: if the scheduler runs a goroutine that can go on, `Fetch` returns, for answers and channels of any size.
- `ClaimPipelineProofs`
  - Lemma `ProberRuns`: the prober inside the command behaves as `Prober`'s own specification, so what is proved of it alone holds here.
  - `PipelineTyped`, `CommandClaimsOnce`, `TimeoutIsAlwaysUnclaimed`, `SuccessIsAlwaysClaimed`: unconditionally. `PipelineInv` joins the invariant of
    the attempt, now across the attempts of a loop (`AttemptInv`: up to `ProcessMessage`, and after `ErrNotReady`, nothing is submitted), with where the command is (`StageInv`),
    what its end says (`EndInv`) and where the message is (`SourceInv`: whatever is released was proved, and no checkpoint covers a block that does not have the send).
  - `ClaimAlwaysHoldsMessage`, `SuccessIsAlwaysConfirmed`: with `NoWrap` and `ConfsCoverReorgs`. `HoldsInv` says that a result, and already the checkpoint `CheckMessage` asks about, is not below the
    message's block of that moment, which a reorg of the source chain may have raised since the receipt; it is the check in `getProof` that establishes it, and the log that backs the
    result that keeps it, because no reorg of the source moves a message that a checkpoint on the chain holds.
  - `PipelineIsATransfer`: each step of the command, the chains and the relayers is a step of `BridgeTransfer` or a stutter.
- `LowLevelProofs`
  - `LowLevelTyped`, `ExitIsAlwaysAboutThisRun`: unconditionally, for any number of invocations and of claims of earlier ones still in the mempool. `RunInv` separates
    the transactions of this invocation (`Mine`) from `earlier` ones: they come after those, there is one at most, and `outcome` speaks of it (`OutcomeInv`).
  - `SnapshotAlwaysFits`: with `CurrentReads`. `SnapshotInv` says that the single probe of `status` starts from block 0 with a head no lower than the one
    the status was read at, so that it sees each log settled by then (lemma `SettledIsSeen`), and that such a log still backs its checkpoint when the bridge is asked.
- `SendCommandsProofs`
  - `AddressesAlwaysOfTheirChain`: for every configuration of the inputs and every width of a chain id, one case per binding, over what one call resolves to (`ResolvesToOwn`)
    and what a preset holds when the id fits (`PresetOfItsChain`).
  - `CarefulAlwaysSendsOnce`, `ClientsAlwaysOpenWhileUsed`, `SendCommandsTyped`: unconditionally, for any number of invocations. `SendCommandsInv` says for each
    stage what has been loaded, built and sent by then, and that an exit with 2 or 3 has submitted nothing (`ExitInv`), so that a user who heeds these codes has no earlier transaction (`UserInv`).
  - `AlwaysPaysAsAsked`: what was submitted is `BuildRequest` of the flags, and lemmas about the operators of `SendRequest` (`ToUint64Exact`, `BuildNFTAmountsExact`, `BuildNFTExact` and the others) show that a request
    they make carries the numbers that were asked for, for every integer and every width of a fee.
  - `SuccessIsAlwaysOwn`, `EventIndexAlwaysCounts`: for receipts of any length. `FoldFindsNth` shows by induction along the logs that the loop of `parseMessageSentFromReceipt` ends at the n-th message.
- `RunnerProofs`, over `FoldLemmas`
  - `RunnerTyped`, `EventsAlwaysTheLines`, `NothingEverUntold`, `ResultAlwaysTheOutput`: unconditionally, for outputs of any length and writes of any size. `RunnerInv` says of each stream that
    what has been told (`Out(seen)`, `Err(seen)`), continued with the lines of what is kept back and unwritten (`ToTell`), is what the whole script tells (`OutAll`, `ErrAll`). A write keeps it because
    cutting a text at newlines is cutting its first piece and then the rest together with the second (`SplitConcat`), because a fold over joined sequences is two folds (`FoldOfConcat`), and
    because a handler touches its own stream only (`StdoutProjects`, `StderrProjects`); it holds initially because the text of a script splits into its lines again (`TextSplits`, `AllOfText`). That the
    error appears once rests on `ErrorIsNoLine`: no line of the output is the text of the error unless the error quotes it.

The prover cannot instantiate the library's induction theorems, which take an operator as a parameter. The inductions above are therefore along `<` on `Nat`, whose well-foundedness the
library states for a set: there is no smallest counterexample. `NumberInduction` and `SequenceInduction` put a set of numbers or of sequences where a predicate would be, and `FoldOf` a function where `FoldLeft`
has an operator; one lemma per fold of the model (`SplitFold`, `StdoutFold`, `StderrFold`, `KeepFold`, `TextFold`) says that the two are the same.

## 7. What is model-checked only, and what is left out

Model-checked only:
- liveness, which is out of the prover's reach: `ConfirmedLeadsToReady`, `DeadlineEndsProcess`, `CommandEnds`, `InvocationEnds`, `RerunFindsReady`, `FetchReturns`;
- the four violations, which are counterexamples and need no proof;
- the theorems with a hypothesis, where it fails. `prober_confs_skip` shows that `BestAlwaysHighest` really needs that no confirmations are asked for.
  A node behind its head breaks `SnapshotFits` outright: `status` then reads the message at one head and probes at an older one.

Not modelled, with the reason:
- the bindings in `internal/bindings`, more than three quarters of the lines of Go: abigen writes one wrapper per method and event of four contracts, each of them a call
  of the same library function with another name. They have no state and no control, and the tool calls about a dozen of the several hundred. The one
  piece with behaviour of its own, the iterator of `CheckpointSaved`, is modelled; the other iterators are copies that nothing uses. What the contracts do is modelled as external;
- reorgs of the destination chain that remove a mined claim: the code never looks at a transaction again once it has
  its receipt; success is therefore success on the chain as it was then. In the pipeline no reorg takes back a checkpoint that a claim rests on, for the same reason;
- reorgs of the source chain under the low-level commands: they read the receipt once per invocation, as the pipeline does once in its life, and build the same proofs;
- on-chain reverts for reasons other than the message's status and its proof. No property depends on their absence:
  a revert may happen at any time in the model because relayers may claim at any time;
- a lagging answer to the two reads inside `Process`: it would return `ErrNotReady` with nothing submitted, an outcome that `ProcessMessageFails`
  has at the same point anyway, so `ClaimProcess` reads the newest block;
- a command that is killed: it keeps nothing on disk, and leaves behind what a deadline at the same call leaves, less the exit code;
- order of nonces: in `LowLevelCommands` pending claims may be mined in any order, which allows more than the chain does;
- the content of proofs and messages, hashing, ABI encoding, JSON and formatting: data no property tells apart. A hex digit that is missing (calldata of odd length is padded on the left)
  and an amount beyond 2^256, which go-ethereum's encoder reduces, are among them;
- errors of `OnEvent` and `OnProgress`, which `Run` ignores, and the times in `RunResult`;
- `LoadProfile` (`config.go`), which no command calls; the declarations of flags; `schema` and `agent exit-codes`, which print constants.

## 8. Plan

The code with control of its own is modelled, and its safety is proved. What is left:
1. the part of liveness that a safety property can say, for `Process` and `Run` as it is done for `Fetch`: a measure that every step lowers between two polls or writes;
2. the hazards in `PROJECT.json` that no property covers, of which the reorg between the two calls of the proof builder (`proof.go:105`) is the one the model could be extended to.
