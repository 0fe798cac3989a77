------------------------------- MODULE Finality -------------------------------
(***************************************************************************)
(* What packages/blockchain/internal/consensus promises, without saying    *)
(* how: an honest validator broadcasts a COMMIT for at most one block at a *)
(* height, and a block joins a chain only when a quorum has committed it   *)
(* or when another honest validator's chain already holds it.              *)
(***************************************************************************)
EXTENDS Integers, Sequences

CONSTANTS
    Validators,   \* VALIDATOR_SET
    Byz,          \* validators that may sign anything
    Quorums,      \* the sets of at least EffectiveQuorum validators
    Blocks,
    MaxHeight     \* no block is voted on above this height

Honest == Validators \ Byz

\* What DeriveQuorum asks of 2Q - N: "any two quorums overlap in at least
\* one honest validator".
FinalityAssumption ==
    /\ Byz \subseteq Validators
    /\ Quorums \subseteq SUBSET Validators
    /\ \A P, Q \in Quorums : P \cap Q \cap Honest # {}
    /\ MaxHeight \in Nat

VARIABLES
    cast,    \* COMMIT votes of honest validators: records [signer, height, block]
    chain    \* [Honest -> Seq(Blocks)]

vars == <<cast, chain>>

Vote(v, h, b) == [signer |-> v, height |-> h, block |-> b]

\* Q distinct COMMIT signatures; a Byzantine one is always to be had.
Committed(votes, h, b) ==
    \E Q \in Quorums : \A v \in Q \ Byz : Vote(v, h, b) \in votes

\* The vote a validator has already cast at a height binds it.
MayVote(v, h, b) == \A c \in Blocks : Vote(v, h, c) \in cast => c = b

Extends(v, votes) ==
    \E b \in Blocks :
        /\ Committed(votes, Len(chain[v]) + 1, b)
        /\ chain' = [chain EXCEPT ![v] = Append(@, b)]

Init ==
    /\ cast = {}
    /\ chain = [v \in Honest |-> <<>>]

\* A validator commits, and its own vote may be the one that completes the
\* quorum: the block is then final within the same step.
Commit(v) ==
    \E h \in 1 .. MaxHeight, b \in Blocks :
        /\ MayVote(v, h, b)
        /\ cast' = cast \cup {Vote(v, h, b)}
        /\ chain' = chain \/ Extends(v, cast')

\* Other validators' votes complete the quorum.
Finalize(v) ==
    /\ Len(chain[v]) < MaxHeight
    /\ Extends(v, cast)
    /\ cast' = cast

CatchUp(v, w) ==
    /\ Len(chain[v]) < Len(chain[w])
    /\ chain' = [chain EXCEPT ![v] = Append(@, chain[w][Len(@) + 1])]
    /\ cast' = cast

Next ==
    \/ \E v \in Honest : Commit(v) \/ Finalize(v)
    \/ \E v, w \in Honest : CatchUp(v, w)

Spec == Init /\ [][Next]_vars

-----------------------------------------------------------------------------
Votes == [signer : Honest, height : Nat, block : Blocks]

\* Every variable keeps its shape: votes name honest signers and real
\* blocks, chains are sequences of blocks.
TypeOK ==
    /\ cast \subseteq Votes
    /\ chain \in [Honest -> Seq(Blocks)]

\* No honest validator has committed two blocks at one height.
VoteOnce ==
    \A p, q \in cast : p.signer = q.signer /\ p.height = q.height => p.block = q.block

\* A block of a chain has a quorum of COMMIT votes behind it, however the
\* chain obtained it.
ChainCommitted ==
    \A v \in Honest : \A h \in 1 .. Len(chain[v]) : Committed(cast, h, chain[v][h])

\* CONSENSUS.md section 5: no two distinct blocks are finalized at the same
\* height, whichever validators hold them.
Agreement ==
    \A v, w \in Honest : \A h \in 1 .. Len(chain[v]) :
        h <= Len(chain[w]) => chain[v][h] = chain[w][h]

Inv == TypeOK /\ VoteOnce /\ ChainCommitted
=============================================================================
