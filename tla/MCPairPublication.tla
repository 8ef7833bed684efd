-------------------------- MODULE MCPairPublication --------------------------
(***************************************************************************)
(* A small instance of PairPublication: the savers differ only in what they  *)
(* choose to do.                                                           *)
(***************************************************************************)
EXTENDS PairPublication, TLC

CONSTANTS s1, s2, s3

MCSymmetry == Permutations(Savers)
==============================================================================
