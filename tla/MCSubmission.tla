----------------------------- MODULE MCSubmission -----------------------------
(***************************************************************************)
(* Instances of module Submission for TLC.                                 *)
(***************************************************************************)
EXTENDS Submission

\* Writes of two accounts.
TwoTxs == {[sender |-> "a", nonce |-> 0], [sender |-> "b", nonce |-> 0]}
=============================================================================
