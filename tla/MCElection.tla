------------------------------ MODULE MCElection ------------------------------
(***************************************************************************)
(* Instances of module Election for TLC.                                   *)
(***************************************************************************)
EXTENDS Election, TLC

\* One leaf each for two voters, and one that shares a nullifier with another.
TwoLeaves == {[nullifier |-> 1, secret |-> 1], [nullifier |-> 2, secret |-> 1]}
SharedNullifier == TwoLeaves \cup {[nullifier |-> 1, secret |-> 2]}

Symmetry == Permutations(Divisions) \cup Permutations(Devices) \cup Permutations(Nics)
=============================================================================
