------------------------------- MODULE MCGlmeBuf -------------------------------
(***************************************************************************)
(* Instances of GlmeBuf.                                                   *)
(***************************************************************************)
EXTENDS GlmeBuf, TLC

BlockSymmetry == Permutations(Blocks)
===============================================================================
