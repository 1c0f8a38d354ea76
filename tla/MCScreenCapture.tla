-------------------------- MODULE MCScreenCapture --------------------------
(***************************************************************************)
(* An image of two rows of two bytes.  The strides are a negative one,     *)
(* none, one below the row, the packed row and a padded row; the sizes are *)
(* one byte short of and exactly what the last two need, and with offset 1 *)
(* a chunk passes the end of the memory.                                   *)
(***************************************************************************)
EXTENDS ScreenCapture

StridesMC == -1 .. 3
=============================================================================
