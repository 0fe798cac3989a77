-------------------------------- MODULE Voting --------------------------------
(***************************************************************************)
(* One height of the BFT engine (packages/blockchain/internal/consensus)   *)
(* on a network that may lose, delay, duplicate and reorder everything:    *)
(* every message ever broadcast stays in msgs, and a validator has heard   *)
(* whichever of them it acts on.  The tallies of roundState are therefore  *)
(* subsets of msgs chosen when a handler fires; module Consensus keeps     *)
(* them message by message.  What is kept here is what the safety argument *)
(* rests on: rounds, proposals, the lock and its adoption, and restarts.   *)
(***************************************************************************)
EXTENDS Integers, FiniteSets, Sequences

CONSTANTS
    N,            \* size of VALIDATOR_SET; a validator is its index in it
    Quorum,       \* EffectiveQuorum
    Byz,          \* validators that may sign anything
    Height,       \* the height voted on
    Blocks,       \* the blocks a proposer can build
    NoBlock,      \* the nil block / zero hash
    MaxRound,     \* no round change asks for a round above this one
    MaxRestarts,  \* how many times a process restarts within the height
    MaxFaulty     \* validators that are Byzantine or forget a COMMIT

Validators == 0 .. N - 1
Honest == Validators \ Byz
BlockOrNil == Blocks \cup {NoBlock}
Rounds == 0 .. MaxRound

\* ceil(2N/3); Quorum may be set higher.
DeriveQuorum(n) == (2 * n + 2) \div 3

ASSUME VotingAssumption ==
    /\ N \in Nat \ {0} /\ Byz \subseteq Validators
    /\ Quorum \in 1 .. N
    /\ MaxFaulty \in Nat /\ Cardinality(Byz) <= MaxFaulty
    /\ 2 * Quorum - N > MaxFaulty
    /\ Height \in Nat /\ MaxRound \in Nat /\ MaxRestarts \in Nat
    /\ NoBlock \notin Blocks

VARIABLES
    round,       \* [Honest -> Rounds]
    ph,          \* [Honest -> Phases]
    proposal,    \* [Honest -> BlockOrNil]: the block voted on this round
    locked,      \* [Honest -> BlockOrNil]: lockedHash, NoBlock when ~locked
    lockedRound, \* [Honest -> Rounds]
    decided,     \* [Honest -> BlockOrNil]: the chain's block at Height
    msgs,        \* every message broadcast so far
    amnesiac,    \* honest validators that restarted after their COMMIT
    restarts     \* process restarts so far

state == <<round, ph, proposal, locked, lockedRound>>
lives == <<amnesiac, restarts>>
vars == <<round, ph, proposal, locked, lockedRound, decided, msgs, amnesiac, restarts>>

Phases == {"idle", "prePrepared", "prepared"}

ProposerAt(h, r) == ((h % N) + (r % N)) % N

Message(t, r, b, lr, v) ==
    [type |-> t, round |-> r, block |-> b, lockedRound |-> lr, signer |-> v]

Proposal(r, b, v) == Message("PROPOSAL", r, b, 0, v)
Prepare(r, b, v) == Message("PREPARE", r, b, 0, v)
\* A COMMIT is signed without its round.
Commit(b, v) == Message("COMMIT", 0, b, 0, v)
\* block is the lock a ROUND-CHANGE reports, NoBlock for none.
RoundChange(r, b, lr, v) == Message("ROUND_CHANGE", r, b, lr, v)

\* What Byzantine validators may sign, less what no handler would act on: a
\* proposal of somebody else's round, a round change to round 0, a round of a
\* prepare or of no lock, and a lock that does not claim to be the highest.
Forgeries ==
    {Proposal(r, b, ProposerAt(Height, r)) : r \in {x \in Rounds : ProposerAt(Height, x) \in Byz}, b \in Blocks}
    \cup {Prepare(0, b, z) : b \in Blocks, z \in Byz}
    \cup {Commit(b, z) : b \in Blocks, z \in Byz}
    \cup {RoundChange(r, b, MaxRound, z) : r \in Rounds \ {0}, b \in BlockOrNil, z \in Byz}

-----------------------------------------------------------------------------
Preparers(b) == {m.signer : m \in {x \in msgs : x.type = "PREPARE" /\ x.block = b}}
Committers(b) == {m.signer : m \in {x \in msgs : x.type = "COMMIT" /\ x.block = b}}

HonestCommits == {m \in msgs : m.type = "COMMIT" /\ m.signer \in Honest}

\* Mutant: a quorum one short.
HasSmallQuorum(signers) == Cardinality(signers) >= Quorum - 1

HasQuorum(signers) == Cardinality(signers) >= Quorum

\* Mutant: the lock is not consulted.
AcceptsAnyProposal(v, b) == TRUE

AcceptableProposal(v, b) == locked[v] = NoBlock \/ locked[v] = b

\* The ROUND-CHANGE votes for round r a validator may have recorded when the
\* quorum completes: record keeps the first one of each signer.
HeardChanges(r) ==
    {S \in SUBSET {m \in msgs : m.type = "ROUND_CHANGE" /\ m.round = r} :
        /\ \A m1, m2 \in S : m1.signer = m2.signer => m1 = m2
        /\ HasQuorum({m.signer : m \in S})}

\* The locks highestLock may pick from those votes, NoBlock for none; Go's
\* map order settles a tie.
HighestLocks(S) ==
    LET locks == {m \in S : m.block # NoBlock}
    IN  IF locks = {} THEN {NoBlock}
        ELSE {m.block : m \in {x \in locks : \A y \in locks : y.lockedRound <= x.lockedRound}}

\* The locks a validator may find reported when round r gets its quorum.
ReportedLocks(r) == UNION {HighestLocks(S) : S \in HeardChanges(r)}

\* broadcastProposal followed by castPrepare.
BroadcastProposal(v, r, b) ==
    /\ proposal' = [proposal EXCEPT ![v] = b]
    /\ ph' = [ph EXCEPT ![v] = "prePrepared"]
    /\ msgs' = msgs \cup {Proposal(r, b, v), Prepare(r, b, v)}

-----------------------------------------------------------------------------
Undecided(v) == decided[v] = NoBlock

\* onSubmit: the round's proposer gets a write while it has nothing in flight.
Propose(v) ==
    /\ Undecided(v)
    /\ ProposerAt(Height, round[v]) = v
    /\ ph[v] = "idle" /\ locked[v] = NoBlock
    /\ \E b \in Blocks : BroadcastProposal(v, round[v], b)
    /\ UNCHANGED <<round, locked, lockedRound, decided, lives>>

\* onProposal up to castPrepare.
OnProposal(v) ==
    /\ Undecided(v)
    /\ ph[v] = "idle"
    /\ \E b \in Blocks :
        /\ Proposal(round[v], b, ProposerAt(Height, round[v])) \in msgs
        /\ AcceptableProposal(v, b)
        /\ proposal' = [proposal EXCEPT ![v] = b]
        /\ msgs' = msgs \cup {Prepare(round[v], b, v)}
    /\ ph' = [ph EXCEPT ![v] = "prePrepared"]
    /\ UNCHANGED <<round, locked, lockedRound, decided, lives>>

\* Mutant: the COMMIT is broadcast without locking.
OnPrepareQuorumUnlocked(v) ==
    /\ Undecided(v)
    /\ ph[v] = "prePrepared"
    /\ HasQuorum(Preparers(proposal[v]))
    /\ ph' = [ph EXCEPT ![v] = "prepared"]
    /\ msgs' = msgs \cup {Commit(proposal[v], v)}
    /\ UNCHANGED <<round, proposal, locked, lockedRound, decided, lives>>

\* checkPrepareQuorum: lock first, then broadcast the COMMIT.
OnPrepareQuorum(v) ==
    /\ Undecided(v)
    /\ ph[v] = "prePrepared"
    /\ HasQuorum(Preparers(proposal[v]))
    /\ locked' = [locked EXCEPT ![v] = proposal[v]]
    /\ lockedRound' = [lockedRound EXCEPT ![v] = round[v]]
    /\ ph' = [ph EXCEPT ![v] = "prepared"]
    /\ msgs' = msgs \cup {Commit(proposal[v], v)}
    /\ UNCHANGED <<round, proposal, decided, lives>>

\* checkCommitQuorum and finalize, for a block whose body is held.
OnCommitQuorum(v) ==
    /\ Undecided(v)
    /\ \E b \in Blocks \cap {proposal[v], locked[v]} :
        /\ HasQuorum(Committers(b))
        /\ decided' = [decided EXCEPT ![v] = b]
    /\ UNCHANGED <<state, msgs, lives>>

\* The follower pulls the block from a validator that has it.
CatchUp(v, w) ==
    /\ Undecided(v) /\ ~Undecided(w)
    /\ decided' = [decided EXCEPT ![v] = decided[w]]
    /\ UNCHANGED <<state, msgs, lives>>

OnRoundTimeout(v) ==
    /\ Undecided(v)
    /\ round[v] < MaxRound
    /\ msgs' = msgs \cup {RoundChange(round[v] + 1, locked[v], lockedRound[v], v)}
    /\ UNCHANGED <<state, decided, lives>>

\* Mutant: the lock of an earlier round gives way to the reported one.
EnterRoundRelocked(v, r, lock) ==
    /\ round' = [round EXCEPT ![v] = r]
    /\ locked' = [locked EXCEPT ![v] = lock]
    /\ lockedRound' = [lockedRound EXCEPT ![v] = r]
    /\ proposal' = [proposal EXCEPT ![v] = NoBlock]
    /\ ph' = [ph EXCEPT ![v] = "idle"]
    /\ UNCHANGED msgs

\* enterRound, adoption of the reported lock by a validator that has none,
\* and maybePropose.  A proposer without a lock may have nothing queued.
EnterRound(v, r, lock) ==
    LET adopts == locked[v] = NoBlock /\ lock # NoBlock
        mine == IF adopts THEN lock ELSE locked[v]
    IN
    /\ round' = [round EXCEPT ![v] = r]
    /\ locked' = [locked EXCEPT ![v] = mine]
    /\ lockedRound' = IF adopts THEN [lockedRound EXCEPT ![v] = r] ELSE lockedRound
    /\ \/ /\ ProposerAt(Height, r) = v
          /\ \E b \in Blocks : (mine # NoBlock => b = mine) /\ BroadcastProposal(v, r, b)
       \/ /\ ProposerAt(Height, r) # v \/ mine = NoBlock
          /\ proposal' = [proposal EXCEPT ![v] = NoBlock]
          /\ ph' = [ph EXCEPT ![v] = "idle"]
          /\ UNCHANGED msgs

\* checkRoundChangeQuorum.
OnRoundChangeQuorum(v) ==
    /\ Undecided(v)
    /\ \E r \in Rounds :
        /\ r > round[v]
        /\ \E lock \in ReportedLocks(r) : EnterRound(v, r, lock)
    /\ UNCHANGED <<decided, lives>>

\* The roundState is in memory only; the chain is on disk.  A validator that
\* has broadcast a COMMIT forgets it, and is one of the faulty from then on.
Restart(v) ==
    /\ Undecided(v)
    /\ restarts < MaxRestarts
    /\ restarts' = restarts + 1
    /\ IF \E m \in HonestCommits : m.signer = v
         THEN /\ amnesiac' = amnesiac \cup {v}
              /\ Cardinality(Byz \cup amnesiac') <= MaxFaulty
         ELSE amnesiac' = amnesiac
    /\ round' = [round EXCEPT ![v] = 0]
    /\ ph' = [ph EXCEPT ![v] = "idle"]
    /\ proposal' = [proposal EXCEPT ![v] = NoBlock]
    /\ locked' = [locked EXCEPT ![v] = NoBlock]
    /\ lockedRound' = [lockedRound EXCEPT ![v] = 0]
    /\ UNCHANGED <<decided, msgs>>

Init ==
    /\ round = [v \in Honest |-> 0]
    /\ ph = [v \in Honest |-> "idle"]
    /\ proposal = [v \in Honest |-> NoBlock]
    /\ locked = [v \in Honest |-> NoBlock]
    /\ lockedRound = [v \in Honest |-> 0]
    /\ decided = [v \in Honest |-> NoBlock]
    /\ msgs = Forgeries
    /\ amnesiac = {}
    /\ restarts = 0

Next ==
    \/ \E v \in Honest :
        \/ Propose(v) \/ OnProposal(v) \/ OnPrepareQuorum(v) \/ OnCommitQuorum(v)
        \/ OnRoundTimeout(v) \/ OnRoundChangeQuorum(v) \/ Restart(v)
    \/ \E v, w \in Honest : CatchUp(v, w)

Spec == Init /\ [][Next]_vars

-----------------------------------------------------------------------------
Messages ==
    [type : {"PROPOSAL", "PREPARE", "COMMIT", "ROUND_CHANGE"}, round : Rounds,
     block : BlockOrNil, lockedRound : Rounds, signer : Validators]

\* The variables keep their shapes.
TypeOK ==
    /\ round \in [Honest -> Rounds]
    /\ ph \in [Honest -> Phases]
    /\ proposal \in [Honest -> BlockOrNil]
    /\ locked \in [Honest -> BlockOrNil]
    /\ lockedRound \in [Honest -> Rounds]
    /\ decided \in [Honest -> BlockOrNil]
    /\ msgs \subseteq Messages
    /\ amnesiac \subseteq Honest
    /\ restarts \in Nat

\* CONSENSUS.md section 5: no two distinct blocks are finalized at a height,
\* whatever is lost, delayed, duplicated or reordered.
Agreement ==
    \A v, w \in Honest : ~Undecided(v) /\ ~Undecided(w) => decided[v] = decided[w]

\* CONSENSUS.md section 5: an honest validator broadcasts a COMMIT for at
\* most one block hash per height.
CommitOnce ==
    \A m1, m2 \in HonestCommits : m1.signer = m2.signer => m1.block = m2.block

\* The lock remembers the COMMIT: who has committed a block and not forgotten
\* it is locked on it.
CommitLock ==
    \A m \in HonestCommits :
        m.block \in Blocks /\ (m.signer \in amnesiac \/ locked[m.signer] = m.block)

\* The fault assumption, with forgetting counted as a fault.
FaultsBounded == Cardinality(Byz \cup amnesiac) <= MaxFaulty

\* Only a block its lock allows is in a validator's hands when the prepare
\* quorum completes: acceptableProposal was asked in every round since.
VotedBlock ==
    \A v \in Honest :
        ph[v] = "prePrepared" => proposal[v] \in Blocks /\ locked[v] \in {NoBlock, proposal[v]}

\* A decided block has a quorum of COMMITs behind it.
DecidedCommitted ==
    \A v \in Honest :
        ~Undecided(v) => decided[v] \in Blocks /\ HasQuorum(Committers(decided[v]))

\* What makes Agreement inductive.
Inv == TypeOK /\ FaultsBounded /\ CommitLock /\ VotedBlock /\ DecidedCommitted

-----------------------------------------------------------------------------
(* The votes and the chains of module Finality, at a height numbered 1.    *)

CastVotes == {[signer |-> m.signer, height |-> 1, block |-> m.block] : m \in HonestCommits}

ChainOf == [v \in Honest |-> IF Undecided(v) THEN <<>> ELSE <<decided[v]>>]

Quorums == {Q \in SUBSET Validators : HasQuorum(Q)}

Promise == INSTANCE Finality WITH MaxHeight <- 1, cast <- CastVotes, chain <- ChainOf

\* As long as nobody forgets a COMMIT, a height of the engine keeps the
\* promise of Finality: rounds, locks, round changes and restarts are a way of
\* casting one vote each.
PromiseKept == Promise!Spec
=============================================================================
