--------------------------- MODULE MCFrameSources ---------------------------
(***************************************************************************)
(* A camera, or a file of two frames of two bytes and half of a third.     *)
(***************************************************************************)
EXTENDS FrameSources
=============================================================================
