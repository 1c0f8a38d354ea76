-------------------------- MODULE MCFrameHandoff --------------------------
(***************************************************************************)
(* Instances of the handoff for TLC.  The slots are numbered in the order  *)
(* main seeds them, so no symmetry is used.                                *)
(***************************************************************************)
EXTENDS FrameHandoff
=============================================================================
