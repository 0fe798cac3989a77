------------------------------- MODULE MCEngines -------------------------------
(***************************************************************************)
(* An instance of module Consensus, for TLC, in two parts: the round       *)
(* changes of one height, and two heights with faults in which nobody asks *)
(* for another round.  part is the one that is looked at.                  *)
(***************************************************************************)
EXTENDS Consensus, TLC

\* Nothing tells two blocks apart but their identity.
BlockSymmetry == Permutations(Blocks)

VARIABLE part

engineVars == <<part, vars>>

EnginesInit == part \in {"rounds", "heights"} /\ Init

\* Who has the height decided waits for the others; one validator has a client.
InRounds ==
    /\ part = "rounds" /\ HeightNext
    /\ \A v \in Honest :
        /\ node[v].height > 1 => node'[v] = node[v]
        /\ node'[v].queue > 0 => v = ProposerAt(1, 0)

InHeights ==
    /\ part = "heights" /\ Next
    /\ \A v \in Honest : \A m \in node'[v].seen : m.type # "ROUND_CHANGE"

EnginesNext == UNCHANGED part /\ (InRounds \/ InHeights)

EnginesSpec == EnginesInit /\ [][EnginesNext]_engineVars
=============================================================================
