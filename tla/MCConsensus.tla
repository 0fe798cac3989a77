----------------------------- MODULE MCConsensus -----------------------------
(***************************************************************************)
(* Instances of module Consensus for TLC.                                  *)
(***************************************************************************)
EXTENDS Consensus, TLC

\* Nothing tells two blocks apart but their identity.
BlockSymmetry == Permutations(Blocks)
=============================================================================
