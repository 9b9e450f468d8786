--------------------------- MODULE ReadinessOracle ---------------------------
(***************************************************************************)
(* What ready.Prober promises its callers, said without cursors, local     *)
(* variables or pending calls: from time to time it looks at the whole     *)
(* chain up to some block and answers with the highest checkpoint there    *)
(* that qualifies, 0 for none.  Its answers never fall.                    *)
(***************************************************************************)
EXTENDS DestChain

CONSTANT SourceMessageBlock  \* the source block of the MessageSent event

VARIABLE answer

oracleVars == <<destHead, highHead, saved, answer>>

(* The checkpoints saved up to destination block h that cover the message. *)
Qualifying(h) ==
    {c \in SourceBlocks :
       /\ c >= SourceMessageBlock
       /\ \E e \in saved : e.CheckpointBlock = c /\ e.LogBlock <= h}

IsHighestUpTo(c, h) ==
    /\ c \in Qualifying(h) \cup {0}
    /\ \A d \in Qualifying(h) : d <= c

OracleInit == ChainInit /\ answer = 0

Answer ==
    \E h \in DestBlocks, c \in SourceBlocks :
      /\ h <= destHead
      /\ IsHighestUpTo(c, h)
      /\ answer <= c
      /\ answer' = c
      /\ UNCHANGED chainVars

OracleNext == Answer \/ (ChainNext /\ UNCHANGED answer)

OracleSpec == OracleInit /\ [][OracleNext]_oracleVars
=============================================================================
