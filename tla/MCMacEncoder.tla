---------------------------- MODULE MCMacEncoder ----------------------------
(***************************************************************************)
(* MacEncoder for TLC: every output of up to three NAL units.              *)
(***************************************************************************)
EXTENDS MacEncoder
=============================================================================
