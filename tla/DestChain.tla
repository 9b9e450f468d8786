------------------------------ MODULE DestChain ------------------------------
(***************************************************************************)
(* The destination chain as the CLI sees it through its RPC endpoint.  The *)
(* chain itself is not part of the repository: this module models what     *)
(* internal/ready and internal/claim rely on.                              *)
(*                                                                         *)
(* Blocks are numbered 0..MaxHead.  A block may carry CheckpointSaved logs *)
(* of the signal service: each says that the state of one source block is  *)
(* now known on the destination.  The last ReorgDepth blocks may be        *)
(* replaced.  The endpoint may be a pool of nodes, so a read of the head   *)
(* or of contract state may be served from a view up to HeadLag blocks     *)
(* behind the newest block, and a query of the log index from one LogLag   *)
(* blocks behind.                                                          *)
(***************************************************************************)
EXTENDS Naturals

CONSTANTS
    MaxHead,        \* bound of the model: the last destination block
    MaxCheckpoint,  \* bound of the model: the last source block checkpointed
    ReorgDepth,     \* how many of the newest blocks may still be replaced
    HeadLag,        \* how far behind a read of the head or the state may be
    LogLag          \* how far behind the log index may be

ASSUME ChainAssumption ==
    /\ MaxHead \in Nat
    /\ MaxCheckpoint \in Nat
    /\ ReorgDepth \in Nat
    /\ HeadLag \in Nat
    /\ LogLag \in Nat

VARIABLES
    destHead,  \* number of the newest destination block
    highHead,  \* the highest destHead so far: what reorgs are measured from
    saved      \* the CheckpointSaved logs of the canonical chain

chainVars == <<destHead, highHead, saved>>

DestBlocks == 0..MaxHead
SourceBlocks == 0..MaxCheckpoint

(* ready.checkpointEvent, without the transaction hash nobody reads.       *)
CheckpointEvent == [CheckpointBlock : SourceBlocks, LogBlock : DestBlocks]

ChainTypeOK ==
    /\ destHead \in DestBlocks
    /\ highHead \in DestBlocks
    /\ destHead <= highHead
    /\ saved \subseteq CheckpointEvent
    /\ \A e \in saved : e.LogBlock \in 1..destHead

ChainInit ==
    /\ destHead = 0
    /\ highHead = 0
    /\ saved = {}

(* A block is appended, with the checkpoints of any set of source blocks:  *)
(* the proposers of checkpoints promise no order.                          *)
MineBlock ==
    /\ destHead < MaxHead
    /\ destHead' = destHead + 1
    /\ highHead' = IF destHead' > highHead THEN destHead' ELSE highHead
    /\ \E blocks \in SUBSET SourceBlocks :
         saved' = saved \cup [CheckpointBlock : blocks, LogBlock : {destHead'}]

(* The blocks above h are dropped; MineBlock puts others in their place.   *)
Reorg ==
    \E h \in DestBlocks :
      /\ h < destHead
      /\ highHead <= h + ReorgDepth
      /\ destHead' = h
      /\ saved' = {e \in saved : e.LogBlock <= h}
      /\ UNCHANGED highHead

ChainNext == MineBlock \/ Reorg

(* The views a call may be served from, when the node is lag blocks behind *)
(* at most.                                                                *)
Views(lag) == {v \in DestBlocks : v <= destHead /\ destHead <= v + lag}

(* SignalService.FilterCheckpointSaved over the blocks from..to, as far as *)
(* the log index has got at view v.                                        *)
FilterCheckpointSaved(from, to, v) ==
    {e \in saved : from <= e.LogBlock /\ e.LogBlock <= to /\ e.LogBlock <= v}

(* Bridge.isMessageReceived, for a message of source block sentIn and a    *)
(* proof built from the state of source block c, asked of the node at view *)
(* v: the signal service knows the checkpoint, and the state it commits to *)
(* holds the message.                                                      *)
IsMessageReceived(sentIn, c, v) ==
    /\ sentIn <= c
    /\ \E e \in saved : e.CheckpointBlock = c /\ e.LogBlock <= v
=============================================================================
