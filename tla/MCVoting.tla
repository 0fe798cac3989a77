------------------------------- MODULE MCVoting -------------------------------
(***************************************************************************)
(* Instances of module Voting for TLC.                                     *)
(***************************************************************************)
EXTENDS Voting, TLC

\* Nothing tells two blocks apart but their identity.
BlockSymmetry == Permutations(Blocks)
=============================================================================
