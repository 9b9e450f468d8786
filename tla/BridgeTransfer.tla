---------------------------- MODULE BridgeTransfer ----------------------------
(***************************************************************************)
(* A bridge transfer as its user sees it.  The assets are locked on the    *)
(* source chain, a checkpoint makes the lock known on the destination, the *)
(* assets are released there once, by whoever claims first, and the        *)
(* command reports success only for a release of its own.                  *)
(***************************************************************************)
VARIABLES
    locked,    \* the source transaction has locked the assets
    proved,    \* the destination has known a source state with the lock
    released,  \* "no", "ours" or "theirs": who had the message processed
    report     \* what the command told its user: "none", "ok" or "failed"

transferVars == <<locked, proved, released, report>>

TransferInit ==
    /\ ~locked
    /\ ~proved
    /\ released = "no"
    /\ report = "none"

Lock ==
    /\ ~locked
    /\ locked' = TRUE
    /\ UNCHANGED <<proved, released, report>>

(* A reorg of the source chain takes back a lock the destination does not  *)
(* know of.                                                                *)
Unlock ==
    /\ locked /\ ~proved
    /\ locked' = FALSE
    /\ UNCHANGED <<proved, released, report>>

Prove ==
    /\ locked /\ ~proved
    /\ proved' = TRUE
    /\ UNCHANGED <<locked, released, report>>

(* A reorg of the destination takes back a checkpoint nothing rests on.    *)
Unprove ==
    /\ proved /\ released = "no"
    /\ proved' = FALSE
    /\ UNCHANGED <<locked, released, report>>

Release ==
    /\ proved /\ released = "no"
    /\ released' \in {"ours", "theirs"}
    /\ UNCHANGED <<locked, proved, report>>

Report ==
    /\ report = "none"
    /\ \/ report' = "ok" /\ released = "ours"
       \/ report' = "failed"
    /\ UNCHANGED <<locked, proved, released>>

TransferNext == Lock \/ Unlock \/ Prove \/ Unprove \/ Release \/ Report

TransferSpec == TransferInit /\ [][TransferNext]_transferVars
=============================================================================
