---------------------------- MODULE MCLedgerChain ----------------------------
(***************************************************************************)
(* LedgerChain for TLC: its constants are sets of model values.            *)
(***************************************************************************)
EXTENDS LedgerChain
=============================================================================
