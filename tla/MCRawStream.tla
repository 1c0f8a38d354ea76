---------------------------- MODULE MCRawStream ----------------------------
(***************************************************************************)
(* RawStream for TLC: frame IDs below 6, so that seven frames pass the wrap*)
(* of the ID.                                                              *)
(***************************************************************************)
EXTENDS RawStream, TLC

\* The program only compares StreamSpecs; every property here is one of safety.
StreamSymmetry == Permutations(Streams)
=============================================================================
