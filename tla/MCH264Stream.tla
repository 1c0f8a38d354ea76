---------------------------- MODULE MCH264Stream ----------------------------
(***************************************************************************)
(* Instances of H264Stream for TLC.                                        *)
(***************************************************************************)
EXTENDS H264Stream
=============================================================================
