-------------------------- MODULE MCH264Recovery --------------------------
(***************************************************************************)
(* Units of two fragments, an IDR at the latest every second unit, eight   *)
(* frame IDs that wrap for ever, and a sender that may be started again.   *)
(***************************************************************************)
EXTENDS H264Recovery
=============================================================================
