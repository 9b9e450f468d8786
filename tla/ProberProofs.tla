---------------------------- MODULE ProberProofs ----------------------------
(***************************************************************************)
(* Proofs about ready.Prober for every length of the chain, every reorg    *)
(* depth, every lag of the endpoint and every --checkpoint-confs, under    *)
(* the named conditions on these constants that a theorem needs.           *)
(***************************************************************************)
EXTENDS Prober, TLAPS

(* The confirmation test does not wrap around.                             *)
NoWrap == MaxHead + CheckpointConfs < Word

(* Reorgs are shallower than the confirmations asked for.                  *)
ConfsCoverReorgs == ReorgDepth <= CheckpointConfs

(* No confirmations are asked for, and nothing the prober has read ever    *)
(* changes or shows up late.                                               *)
SettledChain == CheckpointConfs = 0 /\ ReorgDepth = 0 /\ LogLag = 0
-----------------------------------------------------------------------------
(* A step of the chain keeps its own state well typed.                     *)
LEMMA ChainStepType ==
    ASSUME ChainTypeOK, ChainNext
    PROVE  ChainTypeOK'
<1>1. CASE MineBlock
  <2>1. destHead' \in DestBlocks /\ highHead' \in DestBlocks /\ destHead' <= highHead'
    BY <1>1, ChainAssumption DEF MineBlock, ChainTypeOK, DestBlocks
  <2>2. PICK blocks \in SUBSET SourceBlocks :
          saved' = saved \cup [CheckpointBlock : blocks, LogBlock : {destHead'}]
    BY <1>1 DEF MineBlock
  <2>3. saved' \subseteq CheckpointEvent
    BY <2>1, <2>2 DEF ChainTypeOK, CheckpointEvent
  <2>4. \A e \in saved' : e.LogBlock \in 1..destHead'
    BY <1>1, <2>1, <2>2, ChainAssumption DEF MineBlock, ChainTypeOK, CheckpointEvent, DestBlocks
  <2> QED BY <2>1, <2>3, <2>4 DEF ChainTypeOK
<1>2. CASE Reorg
  <2>1. PICK h \in DestBlocks :
          /\ h < destHead
          /\ destHead' = h
          /\ saved' = {e \in saved : e.LogBlock <= h}
          /\ highHead' = highHead
    BY <1>2 DEF Reorg
  <2> QED BY <2>1, ChainAssumption DEF ChainTypeOK, CheckpointEvent, DestBlocks
<1> QED BY <1>1, <1>2 DEF ChainNext

(* What a scan leaves is the best so far or the checkpoint of an accepted  *)
(* log, and is as high as each of them.                                    *)
LEMMA ScanFromIsHighest ==
    ASSUME NEW best, NEW events, NEW h, NEW c \in ScanFrom(best, events, h)
    PROVE  /\ c = best \/ \E e \in Accepted(events, h) : e.CheckpointBlock = c
           /\ best <= c
           /\ \A e \in Accepted(events, h) : e.CheckpointBlock <= c
BY DEF ScanFrom

LEMMA InitType ==
    ASSUME Init
    PROVE  TypeOK
BY ChainAssumption DEF Init, ChainInit, NewProber, TypeOK, ChainTypeOK, ProberTypeOK,
   DestBlocks, SourceBlocks, Result, ProbeSteps, CheckpointEvent

LEMMA NextType ==
    ASSUME TypeOK, [Next]_vars
    PROVE  TypeOK'
<1> USE DEF TypeOK
<1>1. CASE BlockNumber /\ UNCHANGED chainVars
  BY <1>1 DEF BlockNumber, chainVars, ChainTypeOK, ProberTypeOK, Views, ProbeSteps
<1>2. CASE Fetch /\ UNCHANGED chainVars
  <2>1. PICK v \in Views(LogLag) :
          bestCheckpoint' \in ScanFrom(bestCheckpoint, Fetched(nextLogBlock, head, v), head)
    BY <1>2 DEF Fetch
  <2>2. \A e \in Accepted(Fetched(nextLogBlock, head, v), head) :
          e.CheckpointBlock \in SourceBlocks
    BY DEF Accepted, Fetched, FilterCheckpointSaved, ChainTypeOK, CheckpointEvent
  <2>3. bestCheckpoint' \in SourceBlocks
    BY <2>1, <2>2, ScanFromIsHighest DEF ProberTypeOK
  <2>4. head' \in DestBlocks /\ nextLogBlock' \in 0..(MaxHead + 1)
    BY <1>2, ChainAssumption DEF Fetch, ProberTypeOK, DestBlocks
  <2>5. 0 \in SourceBlocks
    BY ChainAssumption DEF SourceBlocks
  <2>6. pc' \in ProbeSteps
    BY <1>2 DEF Fetch, ProbeSteps
  <2>7. result' \in Result
    <3>1. [Ready |-> FALSE, CheckpointBlock |-> 0] \in Result
      BY <2>5 DEF Result
    <3> QED BY <1>2, <3>1 DEF Fetch, ProberTypeOK
  <2> QED BY <1>2, <2>3, <2>4, <2>6, <2>7 DEF ChainTypeOK, ProberTypeOK, chainVars
<1>3. CASE BuildProof /\ UNCHANGED chainVars
  BY <1>3 DEF BuildProof, chainVars, ChainTypeOK, ProberTypeOK, ProbeSteps
<1>4. CASE CheckMessage /\ UNCHANGED chainVars
  <2>1. result' \in Result
    BY <1>4 DEF CheckMessage, IsMessageReceived, Result, ProberTypeOK
  <2> QED
    BY <1>4, <2>1 DEF CheckMessage, chainVars, ChainTypeOK, ProberTypeOK, ProbeSteps
<1>5. CASE CallFails /\ UNCHANGED chainVars
  BY <1>5 DEF CallFails, chainVars, ChainTypeOK, ProberTypeOK
<1>6. CASE ChainNext /\ UNCHANGED probeVars
  BY <1>6, ChainStepType DEF probeVars, ProberTypeOK
<1>7. CASE UNCHANGED vars
  BY <1>7 DEF vars, ChainTypeOK, ProberTypeOK
<1> QED BY <1>1, <1>2, <1>3, <1>4, <1>5, <1>6, <1>7 DEF Next, Probe

(* The prober's cursor, its checkpoints and its results stay in their      *)
(* types (wait.go:108-167).                                                *)
THEOREM TypeCorrect == Spec => []TypeOK
BY InitType, NextType, PTL DEF Spec
-----------------------------------------------------------------------------
(* wait.go:127 tests what --checkpoint-confs says when it does not wrap.   *)
LEMMA ConfirmedHasConfs ==
    ASSUME NoWrap, NEW e \in CheckpointEvent, NEW h \in DestBlocks, e.LogBlock <= h,
           Confirmed(e, h)
    PROVE  HasConfs(e, h)
<1> e.LogBlock \in 0..MaxHead /\ h \in 0..MaxHead
  BY DEF CheckpointEvent, DestBlocks
<1>1. CASE CheckpointConfs = 0
  BY <1>1, ChainAssumption DEF HasConfs
<1>2. CASE (e.LogBlock + CheckpointConfs) % Word <= h
  <2> DEFINE n == e.LogBlock + CheckpointConfs
  <2>1. n \in Nat /\ Word \in Nat /\ n < Word
    BY ChainAssumption, ProberAssumption DEF NoWrap
  <2>2. n % Word = n
    <3> HIDE DEF n
    <3> QED BY <2>1
  <2> QED BY <1>2, <2>2 DEF HasConfs
<1> QED BY <1>1, <1>2 DEF Confirmed

(* What the chain does leaves a confirmed log alone: it lies deeper than   *)
(* any reorg reaches.                                                      *)
LEMMA BackingStays ==
    ASSUME TypeOK, ConfsCoverReorgs, ChainNext, NEW c, BackedWithConfs(c)
    PROVE  BackedWithConfs(c)'
<1>1. PICK e \in saved : e.CheckpointBlock = c /\ Qualifies(e) /\ HasConfs(e, highHead)
  BY DEF BackedWithConfs
<1>2. e.LogBlock \in 0..MaxHead /\ highHead \in 0..MaxHead /\ destHead \in 0..MaxHead
  BY DEF TypeOK, ChainTypeOK, CheckpointEvent, DestBlocks
<1>3. e \in saved' /\ e.LogBlock + CheckpointConfs <= highHead'
  <2>1. CASE MineBlock
    BY <1>1, <1>2, <2>1, ChainAssumption, ProberAssumption DEF MineBlock, HasConfs
  <2>2. CASE Reorg
    BY <1>1, <1>2, <2>2, ChainAssumption, ProberAssumption
       DEF Reorg, HasConfs, ConfsCoverReorgs, DestBlocks
  <2> QED BY <2>1, <2>2 DEF ChainNext
<1> QED BY <1>1, <1>3 DEF BackedWithConfs, HasConfs, Qualifies

(* The inductive invariant: the head a Probe works with was the head of    *)
(* the chain once, and a log with its confirmations backs the checkpoint   *)
(* in use as well as the one the last Probe returned.                      *)
ConfirmedInv ==
    /\ TypeOK
    /\ head <= highHead
    /\ BestIsConfirmed
    /\ result.CheckpointBlock # 0 => BackedWithConfs(result.CheckpointBlock)
    /\ result.Ready => result.CheckpointBlock # 0

LEMMA InitConfirmed ==
    ASSUME Init
    PROVE  ConfirmedInv
BY InitType, ChainAssumption
   DEF Init, ChainInit, NewProber, ConfirmedInv, BestIsConfirmed

LEMMA NextConfirmed ==
    ASSUME NoWrap, ConfsCoverReorgs, ConfirmedInv, [Next]_vars
    PROVE  ConfirmedInv'
<1>0. TypeOK /\ TypeOK'
  BY NextType DEF ConfirmedInv
<1>u. ASSUME UNCHANGED chainVars, NEW c, BackedWithConfs(c)
      PROVE  BackedWithConfs(c)'
  BY <1>u DEF chainVars, BackedWithConfs, HasConfs, Qualifies
<1>1. CASE BlockNumber /\ UNCHANGED chainVars
  <2>1. head' <= highHead'
    BY <1>1, <1>0, ChainAssumption
       DEF BlockNumber, Views, chainVars, TypeOK, ChainTypeOK, DestBlocks
  <2> QED BY <1>1, <1>0, <1>u, <2>1 DEF BlockNumber, ConfirmedInv, BestIsConfirmed
<1>2. CASE Fetch /\ UNCHANGED chainVars
  <2>1. PICK v \in Views(LogLag) :
          bestCheckpoint' \in ScanFrom(bestCheckpoint, Fetched(nextLogBlock, head, v), head)
    BY <1>2 DEF Fetch
  <2>2. BestIsConfirmed'
    <3>1. CASE bestCheckpoint' = bestCheckpoint
      BY <1>2, <1>u, <3>1 DEF ConfirmedInv, BestIsConfirmed
    <3>2. CASE bestCheckpoint' # bestCheckpoint
      <4>1. PICK e \in Accepted(Fetched(nextLogBlock, head, v), head) :
              e.CheckpointBlock = bestCheckpoint'
        BY <2>1, <3>2, ScanFromIsHighest
      <4>2. /\ e \in saved /\ e \in CheckpointEvent
            /\ e.LogBlock <= head /\ Confirmed(e, head) /\ Qualifies(e)
        BY <1>0, <4>1
           DEF Accepted, Fetched, FilterCheckpointSaved, TypeOK, ChainTypeOK
      <4>3. HasConfs(e, head)
        BY <1>0, <4>2, ConfirmedHasConfs DEF TypeOK, ProberTypeOK
      <4>4. HasConfs(e, highHead)
        BY <1>0, <4>2, <4>3, ChainAssumption, ProberAssumption
           DEF HasConfs, ConfirmedInv, TypeOK, ProberTypeOK, ChainTypeOK, DestBlocks,
               CheckpointEvent
      <4>5. BackedWithConfs(bestCheckpoint')
        BY <4>1, <4>2, <4>4 DEF BackedWithConfs
      <4> QED BY <1>2, <1>u, <4>5 DEF BestIsConfirmed
    <3> QED BY <3>1, <3>2
  <2>3. /\ (result.CheckpointBlock # 0 => BackedWithConfs(result.CheckpointBlock))'
        /\ (result.Ready => result.CheckpointBlock # 0)'
    <3>1. CASE result' = [Ready |-> FALSE, CheckpointBlock |-> 0]
      BY <3>1
    <3>2. CASE result' = result
      BY <1>2, <1>u, <3>2 DEF ConfirmedInv
    <3> QED BY <1>2, <3>1, <3>2 DEF Fetch
  <2> QED BY <1>2, <1>0, <2>2, <2>3 DEF Fetch, ConfirmedInv, chainVars
<1>3. CASE BuildProof /\ UNCHANGED chainVars
  BY <1>3, <1>0, <1>u DEF BuildProof, ConfirmedInv, BestIsConfirmed, chainVars
<1>4. CASE CheckMessage /\ UNCHANGED chainVars
  <2>1. /\ (result').CheckpointBlock = bestCheckpoint
        /\ (result').Ready => bestCheckpoint # 0
    BY <1>4, ProberAssumption DEF CheckMessage, IsMessageReceived
  <2>2. BestIsConfirmed'
    BY <1>4, <1>u DEF CheckMessage, ConfirmedInv, BestIsConfirmed
  <2>3. /\ (result.CheckpointBlock # 0 => BackedWithConfs(result.CheckpointBlock))'
        /\ (result.Ready => result.CheckpointBlock # 0)'
    BY <1>4, <2>1, <2>2 DEF CheckMessage, BestIsConfirmed
  <2> QED BY <1>4, <1>0, <2>2, <2>3 DEF CheckMessage, ConfirmedInv, chainVars
<1>5. CASE CallFails /\ UNCHANGED chainVars
  BY <1>5, <1>0, <1>u DEF CallFails, ConfirmedInv, BestIsConfirmed, chainVars
<1>6. CASE ChainNext /\ UNCHANGED probeVars
  <2>1. highHead <= highHead'
    BY <1>6, <1>0, ChainAssumption
       DEF ChainNext, MineBlock, Reorg, TypeOK, ChainTypeOK, DestBlocks
  <2>2. head' <= highHead'
    BY <1>6, <1>0, <2>1, ChainAssumption
       DEF ConfirmedInv, probeVars, TypeOK, ChainTypeOK, ProberTypeOK, DestBlocks
  <2> QED BY <1>6, <1>0, <2>2, BackingStays DEF ConfirmedInv, BestIsConfirmed, probeVars
<1>7. CASE UNCHANGED vars
  BY <1>7, <1>0, <1>u DEF vars, ConfirmedInv, BestIsConfirmed, chainVars
<1> QED BY <1>1, <1>2, <1>3, <1>4, <1>5, <1>6, <1>7 DEF Next, Probe

LEMMA ConfirmedInvHolds ==
    ASSUME NoWrap, ConfsCoverReorgs
    PROVE  Spec => []ConfirmedInv
BY InitConfirmed, NextConfirmed, PTL DEF Spec

(* With at least as many confirmations as a reorg is deep, no reorg and no *)
(* lag of the endpoint ever leaves the prober with a checkpoint that the   *)
(* chain does not hold (wait.go:123-136).                                  *)
THEOREM BestAlwaysConfirmed ==
    ASSUME NoWrap, ConfsCoverReorgs
    PROVE  Spec => []BestIsConfirmed
<1>1. ConfirmedInv => BestIsConfirmed
  BY DEF ConfirmedInv
<1> QED BY <1>1, ConfirmedInvHolds, PTL

(* Under the same conditions a result that says Ready keeps a log of the   *)
(* chain behind it for as long as the caller holds it (wait.go:160-166).   *)
THEOREM ReadyAlwaysBacked ==
    ASSUME NoWrap, ConfsCoverReorgs
    PROVE  Spec => []ReadyIsBacked
<1>1. ConfirmedInv => ReadyIsBacked
  BY DEF ConfirmedInv, ReadyIsBacked, BackedWithConfs
<1> QED BY <1>1, ConfirmedInvHolds, PTL
-----------------------------------------------------------------------------
(* The checkpoint of successive probes never falls, whatever the chain and *)
(* the endpoint do (wait.go:133-135): a stale or shorter view adds no      *)
(* candidate, and takes none away.                                         *)
THEOREM BestNeverFallsBack == Spec => BestNeverFalls
<1>1. TypeOK /\ [Next]_vars => [bestCheckpoint' >= bestCheckpoint]_vars
  <2> SUFFICES ASSUME TypeOK, Next PROVE bestCheckpoint' >= bestCheckpoint
    OBVIOUS
  <2>0. bestCheckpoint \in Nat /\ bestCheckpoint >= bestCheckpoint
    BY ChainAssumption DEF TypeOK, ProberTypeOK, SourceBlocks
  <2>1. CASE Fetch
    <3>1. PICK v \in Views(LogLag) :
            bestCheckpoint' \in ScanFrom(bestCheckpoint, Fetched(nextLogBlock, head, v), head)
      BY <2>1 DEF Fetch
    <3>2. bestCheckpoint <= bestCheckpoint'
      BY <3>1, ScanFromIsHighest
    <3> QED BY <3>2
  <2>2. CASE UNCHANGED bestCheckpoint
    BY <2>0, <2>2
  <2> QED
    BY <2>1, <2>2
       DEF Next, Probe, BlockNumber, BuildProof, CheckMessage, CallFails, probeVars
<1> QED BY <1>1, TypeCorrect, PTL DEF Spec, BestNeverFalls
-----------------------------------------------------------------------------
(* Why a scan of the new blocks alone is as good as a scan of them all:    *)
(* bestCheckpoint is the oracle's answer up to some block f, and the next  *)
(* scan starts no later than at f + 1.                                     *)
OracleInv ==
    /\ TypeOK
    /\ head <= destHead
    /\ \E f \in DestBlocks :
         /\ f <= destHead
         /\ Oracle!IsHighestUpTo(bestCheckpoint, f)
         /\ nextLogBlock <= f + 1

LEMMA InitOracle == Init => OracleInv
<1> SUFFICES ASSUME Init PROVE OracleInv
  OBVIOUS
<1>1. TypeOK /\ head <= destHead
  BY InitType, ChainAssumption DEF Init, ChainInit, NewProber
<1>2. 0 \in DestBlocks /\ 0 <= destHead /\ nextLogBlock <= 0 + 1
  BY ChainAssumption DEF Init, ChainInit, NewProber, DestBlocks
<1>3. Oracle!IsHighestUpTo(bestCheckpoint, 0)
  BY DEF Init, ChainInit, NewProber, Oracle!IsHighestUpTo, Oracle!Qualifying
<1> QED BY <1>1, <1>2, <1>3 DEF OracleInv

(* A scan extends the oracle's answer up to f to one up to the head it     *)
(* reached, or leaves it at f when the endpoint reported an older head.    *)
LEMMA FetchAnswers ==
    ASSUME SettledChain, OracleInv, Fetch, UNCHANGED chainVars
    PROVE  /\ bestCheckpoint <= bestCheckpoint'
           /\ \E f \in DestBlocks :
                /\ f <= destHead
                /\ Oracle!IsHighestUpTo(bestCheckpoint', f)
                /\ nextLogBlock' <= f + 1
<1>1. PICK v \in Views(LogLag) :
        bestCheckpoint' \in ScanFrom(bestCheckpoint, Fetched(nextLogBlock, head, v), head)
  BY DEF Fetch
<1>2. PICK f \in DestBlocks :
        f <= destHead /\ Oracle!IsHighestUpTo(bestCheckpoint, f) /\ nextLogBlock <= f + 1
  BY DEF OracleInv
<1>t. /\ MaxHead \in Nat /\ f \in 0..MaxHead /\ head \in 0..MaxHead
      /\ destHead \in 0..MaxHead /\ nextLogBlock \in Nat /\ head <= destHead
      /\ saved \subseteq CheckpointEvent
      /\ \A e \in saved : e.LogBlock \in Nat /\ e.CheckpointBlock \in SourceBlocks
      /\ \A e \in saved : e.LogBlock <= destHead
      /\ SourceBlocks \subseteq Nat /\ bestCheckpoint \in SourceBlocks
  BY ChainAssumption
     DEF OracleInv, TypeOK, ChainTypeOK, ProberTypeOK, DestBlocks, SourceBlocks, CheckpointEvent
<1>3. v = destHead
  BY <1>t DEF Views, SettledChain, DestBlocks
<1>4. \A e : e \in Accepted(Fetched(nextLogBlock, head, v), head) <=>
             e \in saved /\ nextLogBlock <= e.LogBlock /\ e.LogBlock <= head /\ Qualifies(e)
  BY <1>3, <1>t DEF Accepted, Fetched, FilterCheckpointSaved, Confirmed, SettledChain
<1>5. /\ bestCheckpoint <= bestCheckpoint'
      /\ \/ bestCheckpoint' = bestCheckpoint
         \/ \E e \in saved : /\ e.LogBlock <= head /\ Qualifies(e)
                             /\ e.CheckpointBlock = bestCheckpoint'
      /\ \A e \in saved :
           nextLogBlock <= e.LogBlock /\ e.LogBlock <= head /\ Qualifies(e)
             => e.CheckpointBlock <= bestCheckpoint'
  BY <1>1, <1>4, ScanFromIsHighest
<1>6. bestCheckpoint' \in SourceBlocks
  BY <1>5, <1>t
<1>7. PICK F \in DestBlocks : F <= destHead /\ f <= F /\ head <= F /\ (F = head \/ F = f)
  <2>1. CASE head > f
    BY <1>t, <2>1 DEF DestBlocks
  <2>2. CASE ~(head > f)
    BY <1>2, <1>t, <2>2 DEF DestBlocks
  <2> QED BY <2>1, <2>2
<1>8. bestCheckpoint' \in Oracle!Qualifying(F) \cup {0}
  <2>1. CASE bestCheckpoint' = bestCheckpoint
    BY <1>2, <1>7, <1>t, <2>1 DEF Oracle!IsHighestUpTo, Oracle!Qualifying, DestBlocks
  <2>2. CASE bestCheckpoint' # bestCheckpoint
    <3>1. PICK e \in saved : /\ e.LogBlock <= head /\ Qualifies(e)
                             /\ e.CheckpointBlock = bestCheckpoint'
      BY <1>5, <2>2
    <3>2. e.LogBlock <= F
      BY <3>1, <1>7, <1>t DEF DestBlocks
    <3> QED BY <3>1, <3>2, <1>6 DEF Oracle!Qualifying, Qualifies, SourceBlocks, Oracle!SourceBlocks
  <2> QED BY <2>1, <2>2
<1>9. ASSUME NEW d \in Oracle!Qualifying(F)
      PROVE  d <= bestCheckpoint'
  <2>1. d \in SourceBlocks /\ d >= SourceMessageBlock
    BY DEF Oracle!Qualifying, SourceBlocks, Oracle!SourceBlocks
  <2>2. PICK e \in saved : e.CheckpointBlock = d /\ e.LogBlock <= F
    BY DEF Oracle!Qualifying
  <2>3. CASE e.LogBlock <= f
    <3>1. d \in Oracle!Qualifying(f)
      BY <2>1, <2>2, <2>3 DEF Oracle!Qualifying
    <3>2. d <= bestCheckpoint
      BY <3>1, <1>2 DEF Oracle!IsHighestUpTo
    <3> QED BY <3>2, <2>1, <1>5, <1>6, <1>t
  <2>4. CASE ~(e.LogBlock <= f)
    <3>1. nextLogBlock <= e.LogBlock /\ e.LogBlock <= head
      BY <2>2, <2>4, <1>2, <1>7, <1>t
    <3> QED BY <3>1, <2>1, <2>2, <1>5 DEF Qualifies
  <2> QED BY <2>3, <2>4
<1>10. nextLogBlock' <= F + 1
  BY <1>7, <1>t DEF Fetch, DestBlocks
<1> QED BY <1>5, <1>7, <1>8, <1>9, <1>10 DEF Oracle!IsHighestUpTo

LEMMA NextOracle ==
    ASSUME SettledChain
    PROVE  OracleInv /\ [Next]_vars => OracleInv'
<1> SUFFICES ASSUME OracleInv, [Next]_vars PROVE OracleInv'
  OBVIOUS
<1>0. TypeOK /\ TypeOK'
  BY NextType DEF OracleInv
<1>1. CASE (BlockNumber \/ BuildProof \/ CheckMessage \/ CallFails) /\ UNCHANGED chainVars
  <2>1. (head <= destHead)'
    BY <1>1 DEF BlockNumber, BuildProof, CheckMessage, CallFails, Views, chainVars, OracleInv
  <2>2. UNCHANGED <<bestCheckpoint, nextLogBlock, saved, destHead>>
    BY <1>1 DEF BlockNumber, BuildProof, CheckMessage, CallFails, chainVars
  <2> QED
    BY <1>0, <2>1, <2>2 DEF OracleInv, Oracle!IsHighestUpTo, Oracle!Qualifying
<1>2. CASE Fetch /\ UNCHANGED chainVars
  <2>1. UNCHANGED <<head, saved, destHead>>
    BY <1>2 DEF Fetch, chainVars
  <2> QED
    BY <1>0, <1>2, <2>1, FetchAnswers
       DEF OracleInv, Oracle!IsHighestUpTo, Oracle!Qualifying
<1>3. CASE MineBlock /\ UNCHANGED probeVars
  <2>1. PICK f \in DestBlocks :
          f <= destHead /\ Oracle!IsHighestUpTo(bestCheckpoint, f) /\ nextLogBlock <= f + 1
    BY DEF OracleInv
  <2>2. f \in Nat /\ destHead \in Nat /\ head \in Nat /\ destHead' = destHead + 1
    BY <1>0, <1>3, ChainAssumption
       DEF MineBlock, TypeOK, ChainTypeOK, ProberTypeOK, DestBlocks
  <2>3. Oracle!Qualifying(f)' = Oracle!Qualifying(f)
    <3>1. PICK blocks \in SUBSET SourceBlocks :
            saved' = saved \cup [CheckpointBlock : blocks, LogBlock : {destHead'}]
      BY <1>3 DEF MineBlock
    <3>2. \A e : e \in saved' /\ e.LogBlock <= f <=> e \in saved /\ e.LogBlock <= f
      BY <2>1, <2>2, <3>1
    <3> QED BY <3>2 DEF Oracle!Qualifying
  <2>4. UNCHANGED <<head, bestCheckpoint, nextLogBlock>>
    BY <1>3 DEF probeVars
  <2>5. (head <= destHead)' /\ f <= destHead'
    BY <2>1, <2>2, <2>4 DEF OracleInv
  <2>6. Oracle!IsHighestUpTo(bestCheckpoint, f)'
    BY <2>1, <2>3, <2>4 DEF Oracle!IsHighestUpTo
  <2> QED BY <1>0, <2>1, <2>4, <2>5, <2>6 DEF OracleInv
<1>4. CASE Reorg
  BY <1>0, <1>4, ChainAssumption DEF Reorg, SettledChain, TypeOK, ChainTypeOK, DestBlocks
<1>5. CASE UNCHANGED vars
  BY <1>0, <1>5 DEF vars, OracleInv, Oracle!IsHighestUpTo, Oracle!Qualifying
<1> QED BY <1>1, <1>2, <1>3, <1>4, <1>5 DEF Next, Probe, ChainNext

(* "The highest qualifying checkpoint block seen so far" (wait.go:57) is   *)
(* what bestCheckpoint is when no confirmations are asked for and nothing  *)
(* read is taken back, for every chain and every lag of the reported head. *)
THEOREM BestAlwaysHighest ==
    ASSUME SettledChain
    PROVE  Spec => []BestIsHighest
<1>1. OracleInv => BestIsHighest
  <2> SUFFICES ASSUME OracleInv, NEW e \in saved,
                      Qualifies(e), nextLogBlock > 0, HasConfs(e, nextLogBlock - 1)
               PROVE  e.CheckpointBlock <= bestCheckpoint
    BY DEF BestIsHighest
  <2>1. PICK f \in DestBlocks :
          Oracle!IsHighestUpTo(bestCheckpoint, f) /\ nextLogBlock <= f + 1
    BY DEF OracleInv
  <2>2. f \in Nat /\ nextLogBlock \in Nat /\ e.LogBlock \in Nat
        /\ e.CheckpointBlock \in SourceBlocks
    BY ChainAssumption
       DEF OracleInv, TypeOK, ChainTypeOK, ProberTypeOK, CheckpointEvent, DestBlocks
  <2>3. e.LogBlock <= f
    BY <2>1, <2>2 DEF HasConfs, SettledChain
  <2>4. e.CheckpointBlock \in Oracle!Qualifying(f)
    BY <2>2, <2>3 DEF Oracle!Qualifying, Qualifies, SourceBlocks, Oracle!SourceBlocks
  <2> QED BY <2>1, <2>4 DEF Oracle!IsHighestUpTo
<1> QED BY <1>1, InitOracle, NextOracle, PTL DEF Spec

(* On such a chain the prober that scans each block once implements the    *)
(* oracle that scans them all: every Fetch is an answer of the oracle.     *)
THEOREM Implements ==
    ASSUME SettledChain
    PROVE  Spec => ProberImplementsOracle
<1>1. Init => Oracle!OracleInit
  BY DEF Init, NewProber, ChainInit, Oracle!OracleInit, Oracle!ChainInit
<1>2. OracleInv /\ [Next]_vars => [Oracle!OracleNext]_(Oracle!oracleVars)
  <2> SUFFICES ASSUME OracleInv, Next
               PROVE  Oracle!OracleNext \/ UNCHANGED <<destHead, highHead, saved, bestCheckpoint>>
    BY DEF vars, Oracle!oracleVars
  <2>1. CASE Fetch /\ UNCHANGED chainVars
    <3>1. OracleInv' /\ bestCheckpoint' \in SourceBlocks
      BY <2>1, NextOracle DEF OracleInv, TypeOK, ProberTypeOK
    <3> QED
      BY <2>1, <3>1, FetchAnswers
         DEF Oracle!OracleNext, Oracle!Answer, chainVars, Oracle!chainVars,
             DestBlocks, Oracle!DestBlocks, SourceBlocks, Oracle!SourceBlocks
  <2>2. CASE ChainNext /\ UNCHANGED probeVars
    BY <2>2
       DEF probeVars, Oracle!OracleNext, ChainNext, Oracle!ChainNext, MineBlock,
           Oracle!MineBlock, Reorg, Oracle!Reorg, DestBlocks, Oracle!DestBlocks,
           SourceBlocks, Oracle!SourceBlocks
  <2>3. CASE (BlockNumber \/ BuildProof \/ CheckMessage \/ CallFails) /\ UNCHANGED chainVars
    BY <2>3 DEF BlockNumber, BuildProof, CheckMessage, CallFails, chainVars
  <2> QED BY <2>1, <2>2, <2>3 DEF Next, Probe
<1> QED
  BY <1>1, <1>2, InitOracle, NextOracle, PTL
     DEF Spec, ProberImplementsOracle, Oracle!OracleSpec
=============================================================================
