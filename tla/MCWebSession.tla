---------------------------- MODULE MCWebSession ----------------------------
(***************************************************************************)
(* WebSession for TLC: two tabs of one browser.                            *)
(***************************************************************************)
EXTENDS WebSession, TLC

=============================================================================
