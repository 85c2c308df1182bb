---------------------------- MODULE MCOrderBoard ----------------------------
(***************************************************************************)
(* OrderBoard for TLC.                                                     *)
(***************************************************************************)
EXTENDS OrderBoard, TLC

UsedFilters == {"confirmed"}
=============================================================================
