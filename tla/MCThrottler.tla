---------------------------- MODULE MCThrottler ----------------------------
(***************************************************************************)
(* Throttler for TLC: calls that make any number of requests with one key. *)
(***************************************************************************)
EXTENDS Throttler, TLC

Symmetry == Permutations(Requests)
=============================================================================
