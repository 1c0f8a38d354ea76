------------------------------- MODULE MCRings -------------------------------
(***************************************************************************)
(* The two models of the ring for TLC, side by side: one moves while the   *)
(* other is at its start, so each runs through all it can do alone and the *)
(* states are the sum of the two.                                          *)
(*                                                                         *)
(* SpscRing: the four cells of FRAME_POOL_SLOTS, cursors that wrap after   *)
(* two rounds, and two IDs, so that a cell's content tells which write it  *)
(* comes from.  SlotCycle: the two rings of four IDs.  Nothing bounds the  *)
(* number of operations.                                                   *)
(***************************************************************************)
EXTENDS SpscRing, SlotCycle

RingMoves   == CycleInit /\ Next /\ UNCHANGED cycleVars
CircleMoves == Init /\ CycleNext /\ UNCHANGED vars

RingsInit == Init /\ CycleInit
RingsNext == RingMoves \/ CircleMoves
RingsSpec == RingsInit /\ [][RingsNext]_<<vars, cycleVars>>
=============================================================================
